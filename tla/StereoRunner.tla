---------------------------- MODULE StereoRunner ----------------------------
(***************************************************************************)
(* The stereo calibration from files (StereoFilesCalibrationRunner) and    *)
(* StereoCalibrator::Calibrate: the worker walks two directories in step,  *)
(* pairing the k-th image of one with the k-th of the other, and keeps the *)
(* pairs that show the target on both sides.  Files that are no images are *)
(* skipped on their own side.                                              *)
(*                                                                         *)
(* Everything that exists once per camera is a function of Sides.          *)
(***************************************************************************)
EXTENDS CalibrationWidget, FilesystemReader

Sides == {1, 2}
NotInitialized == "Intrinsics guess specified, but camera not initialized."
InvalidParameters == "Invalid camera parameters given!"

ASSUME MessagesAssumption ==
    {"Could not find any image files!", "No images to calibrate from.", NotInitialized,
     InvalidParameters, "Stereo calibration images are not balanced.",
     "extraction failed", "calibration failed"} \subseteq Messages

VARIABLES
    options_,   \* the dialog's options
    dirs,       \* the files of the two directories, in reading order
    pc, readers,
    data,       \* the item of each side in the current turn
    images,     \* Images() of the two calibrations: positions in dirs
    cameras,
    image_size, \* the calibrator's image_size1 and image_size2
    success

workerVars == <<options_, dirs, pc, readers, data, images, cameras, image_size, success>>
vars == <<workerVars, events, target_visualizer_, widgetVars>>

\* What the dialog's Validate lets pass: the sides initial parameters are given
\* for, in the number the first camera's model has; whether the second camera's
\* model has another number; both sides given if only the pose is estimated.
Options == {o \in [given : SUBSET Sides, models_differ : BOOLEAN,
                   estimate_pose_only : BOOLEAN] :
               o.estimate_pose_only => o.given = Sides}

NoReader == [image_paths_ |-> <<>>, file_index_ |-> 0, image_size_ |-> NoSize]
NoCamera == [size |-> NoSize, params |-> "invalid"]
NoData == [file |-> 0, status |-> "READ_ERROR"]

Init ==
    /\ WidgetInit
    /\ options_ \in Options /\ dirs \in [Sides -> Directories]
    /\ pc = "start" /\ readers = [s \in Sides |-> NoReader]
    /\ data = [s \in Sides |-> NoData]
    /\ images = [s \in Sides |-> <<>>] /\ cameras = [s \in Sides |-> NoCamera]
    /\ image_size = [s \in Sides |-> NoSize]
    /\ success = "none"

Return(value) == pc' = "returned" /\ success' = value

\* An exception inside Run's try block.
Catch(message) == Post(EndEvent(message)) /\ Return("false")

-----------------------------------------------------------------------------
(* The worker *)

\* Both readers are constructed outside the try block; a directory that is
\* gone ends the process.
Construct ==
    /\ pc = "start"
    /\ \/ readers' \in {r \in [Sides -> UNION {NewReaders(dirs[s]) : s \in Sides}] :
                           \A s \in Sides : r[s] \in NewReaders(dirs[s])}
          /\ pc' = "setup"
       \/ pc' = "terminated" /\ UNCHANGED readers
    /\ UNCHANGED <<options_, dirs, data, images, cameras, image_size, success,
                   events, target_visualizer_>>

RefuseDirectories ==
    /\ pc = "setup" /\ \E s \in Sides : readers[s].image_size_ = NoSize
    /\ Catch("Could not find any image files!")
    /\ UNCHANGED <<options_, dirs, readers, data, images, cameras, image_size, target_visualizer_>>

\* A camera with parameters is initialised with its reader's size; for one
\* without, the calibrator's options get the size of the first reader.
Setup ==
    /\ pc = "setup" /\ \A s \in Sides : readers[s].image_size_ # NoSize
    /\ cameras' = [s \in Sides |->
                      IF s \in options_.given
                      THEN [size |-> readers[s].image_size_, params |-> "given"] ELSE NoCamera]
    /\ image_size' = [s \in Sides |->
                         IF s \in options_.given THEN NoSize ELSE readers[1].image_size_]
    /\ SetTargetVisualizer
    /\ pc' = "read"
    /\ UNCHANGED <<options_, dirs, readers, data, images, success, events>>

\* ReadAndExtractImage on one side.
Data(s) == [file |-> AfterNext(readers[s]).file_index_,
            status |-> ItemStatus(readers[s])]

ReadBoth ==
    /\ pc = "read" /\ \A s \in Sides : HasNext(readers[s])
    /\ data' = [s \in Sides |-> Data(s)]
    /\ readers' = [s \in Sides |-> AfterNext(readers[s])]
    /\ pc' = "skip"
    /\ UNCHANGED <<options_, dirs, images, cameras, image_size, success, events, target_visualizer_>>

MustSkip(s) == data[s].status = "READ_ERROR" /\ HasNext(readers[s])

\* The first side is skipped to its end before the second.
SkipFile(s) ==
    /\ pc = "skip" /\ MustSkip(s) /\ (s = 2 => ~MustSkip(1))
    /\ data' = [data EXCEPT ![s] = Data(s)]
    /\ readers' = [readers EXCEPT ![s] = AfterNext(@)]
    /\ UNCHANGED <<options_, dirs, pc, images, cameras, image_size, success,
                   events, target_visualizer_>>

\* An extractor throws in ReadAndExtractImage.
FailExtraction ==
    /\ \/ pc = "read" /\ \A s \in Sides : HasNext(readers[s])
       \/ pc = "skip"
    /\ \E s \in Sides : /\ pc = "skip" => MustSkip(s) /\ (s = 2 => ~MustSkip(1))
                        /\ NextStatus(readers[s]) = "SUCCESS"
    /\ Catch("extraction failed")
    /\ UNCHANGED <<options_, dirs, readers, data, images, cameras, image_size, target_visualizer_>>

Found == \A s \in Sides : data[s].status = "SUCCESS"

\* Mutants: each side keeps its image whatever the other found; pairs without
\* the target are not shown.
PairEachSide ==
    /\ pc = "skip" /\ \A s \in Sides : ~MustSkip(s)
    /\ pc' = "read"
    /\ images' = [s \in Sides |-> IF data[s].status = "SUCCESS"
                                  THEN Append(images[s], data[s].file) ELSE images[s]]
    /\ IF \E s \in Sides : data[s].status = "READ_ERROR"
       THEN UNCHANGED events
       ELSE Post(ItemEvent(data))
    /\ UNCHANGED <<options_, dirs, readers, data, cameras, image_size, success, target_visualizer_>>

PairShowingHits ==
    /\ pc = "skip" /\ \A s \in Sides : ~MustSkip(s)
    /\ pc' = "read"
    /\ IF Found
       THEN /\ images' = [s \in Sides |-> Append(images[s], data[s].file)]
            /\ Post(ItemEvent(data))
       ELSE UNCHANGED <<images, events>>
    /\ UNCHANGED <<options_, dirs, readers, data, cameras, image_size, success, target_visualizer_>>

\* The rest of the turn: the images are kept if both show the target, and the
\* pair is shown unless a side ran out of images.
PairImages ==
    /\ pc = "skip" /\ \A s \in Sides : ~MustSkip(s)
    /\ pc' = "read"
    /\ IF \E s \in Sides : data[s].status = "READ_ERROR"
       THEN UNCHANGED <<images, events>>
       ELSE /\ images' = IF Found THEN [s \in Sides |-> Append(images[s], data[s].file)]
                         ELSE images
            /\ Post(ItemEvent(data))
    /\ UNCHANGED <<options_, dirs, readers, data, cameras, image_size, success, target_visualizer_>>

BeginCalibration ==
    /\ pc = "read" /\ \E s \in Sides : ~HasNext(readers[s])
    /\ Post(StartEvent) /\ pc' = "calibrate"
    /\ UNCHANGED <<options_, dirs, readers, data, images, cameras, image_size, success,
                   target_visualizer_>>

\* Some initial parameters are a guess for both cameras.
UseGuess == options_.given # {}

\* The exceptions of StereoCalibrator::Calibrate before it touches a camera.
Refusals ==
    IF images[1] = <<>> THEN {"No images to calibrate from."}
    ELSE IF Len(images[1]) # Len(images[2])
         THEN {"Stereo calibration images are not balanced."}
    ELSE IF UseGuess /\ \E s \in Sides : cameras[s].params = "invalid" THEN {NotInitialized}
    ELSE IF UseGuess /\ options_.models_differ THEN {InvalidParameters}
    ELSE {}

RefuseToCalibrate ==
    /\ pc = "calibrate"
    /\ \E m \in Refusals : Catch(m)
    /\ UNCHANGED <<options_, dirs, readers, data, images, cameras, image_size, target_visualizer_>>

\* Parameters are given by the dialog, unset for a model without values,
\* initialised, optimised separately, or calibrated together with the others.
With(camera, params) == [camera EXCEPT !.params = params]

Prepared(s) == IF UseGuess THEN cameras[s] ELSE [size |-> image_size[s], params |-> "unset"]

\* Initialising a camera without a guess takes two views.
EnoughViews == UseGuess \/ Len(images[1]) > 1

\* Where CalibrateCamera may leave a camera when it throws.
Interrupted(s) == {Prepared(s)} \cup (IF UseGuess \/ ~EnoughViews THEN {}
                                     ELSE {With(Prepared(s), "initial")})

\* Mutants: fix_intrinsics, which is estimate_pose_only, is ignored by the
\* separate optimisation, or by the joint one.
SeparateAlways(s) == With(Prepared(s), "separate")

\* fix_intrinsics is asked for twice: whether each camera is optimised on its own,
\* or only its poses are estimated ...
Separate(s) == IF options_.estimate_pose_only THEN Prepared(s) ELSE With(Prepared(s), "separate")

JointAlways(s) == With(Separate(s), "calibrated")

\* ... and whether the joint optimisation keeps both cameras' parameters.
Joint(s) == IF options_.estimate_pose_only THEN Separate(s) ELSE With(Separate(s), "calibrated")

\* The cameras when the first stage throws: at the first camera, or at the second
\* one with the first optimised.
HalfWay ==
    {[s \in Sides |-> IF s = 1 THEN c ELSE Prepared(s)] : c \in Interrupted(1)} \cup
    (IF EnoughViews
     THEN {[s \in Sides |-> IF s = 1 THEN Separate(s) ELSE c] : c \in Interrupted(2)} ELSE {})

Calibrate ==
    /\ pc = "calibrate" /\ Refusals = {}
    /\ \/ cameras' \in HalfWay /\ Catch("calibration failed")
       \/ /\ EnoughViews
          /\ cameras' = [s \in Sides |-> Joint(s)]
          /\ Post(EndEvent("calibration")) /\ Return("true")
    /\ UNCHANGED <<options_, dirs, readers, data, images, image_size, target_visualizer_>>

Worker ==
    /\ fault = "none"
    /\ \/ Construct \/ RefuseDirectories \/ Setup \/ ReadBoth \/ (\E s \in Sides : SkipFile(s))
       \/ FailExtraction \/ PairImages \/ BeginCalibration \/ RefuseToCalibrate \/ Calibrate
    /\ UNCHANGED widgetVars

EventLoop == pc # "terminated" /\ RunFunctor /\ UNCHANGED workerVars

Next == Worker \/ EventLoop

Spec == Init /\ [][Next]_vars /\ WF_vars(Worker) /\ WF_vars(EventLoop)

-----------------------------------------------------------------------------
\* The pairs the user means: the k-th image of one camera was taken with the
\* k-th image of the other, whatever other files the directories hold.
Rank(s, file) == Cardinality({k \in ReadableFiles(dirs[s]) : k =< file})
Pairs == {p \in [Sides -> UNION {ReadableFiles(dirs[s]) : s \in Sides}] :
             /\ \A s \in Sides : p[s] \in ReadableFiles(dirs[s])
             /\ Rank(1, p[1]) = Rank(2, p[2])}

Label(s, file) ==
    IF dirs[s][file].size # readers[s].image_size_ THEN "IMAGE_DIMENSION_MISSMATCH"
    ELSE ExtractStatus(dirs[s][file])

\* A sequence that holds every pair of a set, once, in the order of both sides.
EnumeratesPairs(q, P) ==
    /\ \A p \in P : \E i \in DOMAIN q : q[i] = p
    /\ \A i \in DOMAIN q : q[i] \in P /\ \A j \in DOMAIN q : i < j => \A s \in Sides : q[i][s] < q[j][s]

\* The calibration gets exactly the pairs that show the target in both images:
\* skipping a file on one side never shifts the pairing of the later images,
\* and a pair is added to both calibrations or to neither.
PairsByRank ==
    pc = "calibrate" =>
        /\ DOMAIN images[1] = DOMAIN images[2]
        /\ EnumeratesPairs([i \in DOMAIN images[1] |-> [s \in Sides |-> images[s][i]]],
                           {p \in Pairs : \A s \in Sides : Label(s, p[s]) = "SUCCESS"})

\* Once a result is shown for directories that were read through, the view
\* holds every pair, in order, each side with the status it had.
ShowsEveryPair ==
    result \notin {"none", "extraction failed", "Could not find any image files!"} =>
        /\ EnumeratesPairs([i \in DOMAIN items |-> [s \in Sides |-> items[i][s].file]], Pairs)
        /\ \A i \in DOMAIN items, s \in Sides : items[i][s].status = Label(s, items[i][s].file)

\* Run returns true exactly when the view comes to show a calibration, of cameras
\* that went through both stages; an estimate of the pose alone leaves the given
\* parameters alone, in either stage, whether it succeeds or throws half-way.  A
\* shown camera has the size of its own images (stereo_calibrator.h:20), unless
\* stereo_files_calibration_runner.cpp:126 took the first directory's size, which
\* is another, for the second camera.  What the dialog accepted is refused after
\* the images were read only if parameters were given for one camera, or the
\* models have different numbers of them.
ShownCamerasFit ==
    /\ result # "none" => (success = "true" <=> result = "calibration")
    /\ options_.estimate_pose_only =>
          \A s \in Sides : cameras[s].params \in {"invalid", "given"}
    /\ result = "calibration" =>
          /\ EnoughViews
          /\ \A s \in Sides :
                cameras[s].params = IF options_.estimate_pose_only THEN "given" ELSE "calibrated"
          /\ (UseGuess \/ readers[1].image_size_ = readers[2].image_size_) =>
                \A s \in Sides : cameras[s].size = readers[s].image_size_
    /\ result \in {NotInitialized, InvalidParameters} =>
          Cardinality(options_.given) = 1 \/ options_.models_differ
=============================================================================
