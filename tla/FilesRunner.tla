----------------------------- MODULE FilesRunner -----------------------------
(***************************************************************************)
(* The calibration from files (FilesCalibrationRunner): a worker thread    *)
(* reads every image of a directory, extracts the target from it, posts an *)
(* item for the view, and calibrates from the images it found one in; the  *)
(* GUI thread runs the posted functors at its own pace.  The directory is  *)
(* any directory within the bounds, chosen in Init and never changed, but  *)
(* it may be gone when the worker starts.                                  *)
(***************************************************************************)
EXTENDS CalibrationWidget, FilesystemReader, CalibrationOptions

CONSTANT
    Model   \* the camera model chosen

ASSUME ModelAssumption == Model \in DOMAIN CameraModels

\* What a calibrator says of the options it is given.
ArgumentErrors ==
    {"Number of camera parameters does not match camera model.",
     "Number of initial housing parameters does not match housing type.",
     "Pattern size needs to be set when estimating initial dome offset.",
     "Interface normal must be normalized to unit length!",
     "Housing calibration requires an intrinsic guess!",
     "Housing calibration requested but refractive parameters not initialized!",
     "Intrinsics guess specified, but camera not initialized."}

ASSUME MessagesAssumption ==
    ArgumentErrors \cup
    {"No readable images in provided directory!", "No images to calibrate from.",
     "extraction failed", "calibration failed", "images not registered"} \subseteq Messages

VARIABLES
    options_,       \* what the dialog's GetOptions returned
    dir,            \* the directory's files, in reading order
    pc,             \* the worker's control point
    reader,
    images,         \* calibration.Images(): the files' positions in dir
    camera,         \* calibration.Camera(): its size, its housing, and what its parameters are
    per_view_rms,   \* calibration.PerViewRms(): for each image, was it registered?
    last_pixmap_,   \* position of the image kept for the offset diagram, 0 if none
    success         \* what Run returned: "none", "true" or "false"

workerVars == <<options_, dir, pc, reader, images, camera, per_view_rms, last_pixmap_, success>>
vars == <<workerVars, events, target_visualizer_, widgetVars>>

\* The forms the user may press OK on, in any dialog; a dome takes eight
\* parameters whatever their first three are.
Parameters(first, count) == [i \in 1 .. count |-> IF i = 1 THEN first ELSE 0]
Forms ==
    [camera_model : {Model},
     target : {Chessboard(4, 5, 20), ArucoBoard("4X4", "TopLeft", "Horizontal", 3, 2, 20, 5, 1),
               Target3D, Target3DAruco("5X5", 1500)},
     housing : {{}} \cup {{[type |-> type, parameters |-> p]} :
                            type \in DOMAIN HousingInterfaces,
                            p \in {Parameters(One, 3), Parameters(0, 8), Parameters(One, 8)}},
     initial : {{}, {<<>>}, {Parameters(One, CameraModels[Model])}}]

Options == {Accepted(form) : form \in {f \in Forms : Validate(f)}}

WithHousing == options_.housing_calibration # {}
WithGuess == options_.initial_camera_parameters # {}

Calibrator ==
    CASE Is3DTarget(options_) -> "Calibrator3D"
      [] ~Is3DTarget(options_) /\ WithHousing -> "HousingCalibrator"
      [] ~Is3DTarget(options_) /\ ~WithHousing -> "BasicCalibrator"

NoCamera == [size |-> NoSize, params |-> "invalid", refractive |-> FALSE]

Init ==
    /\ WidgetInit
    /\ options_ \in Options /\ dir \in Directories
    /\ pc = "start" /\ reader = [image_paths_ |-> <<>>, file_index_ |-> 0, image_size_ |-> NoSize]
    /\ images = <<>> /\ camera = NoCamera /\ per_view_rms = <<>> /\ last_pixmap_ = 0
    /\ success = "none"

Return(value) == pc' = "returned" /\ success' = value

Item(status) == [file |-> reader.file_index_ + 1, status |-> status]

-----------------------------------------------------------------------------
(* The worker *)

\* The reader is constructed outside Run's try blocks: when the directory
\* has gone since the dialog validated it, the exception ends the process.
Construct ==
    /\ pc = "start"
    /\ \/ reader' \in NewReaders(dir) /\ pc' = "size"
       \/ pc' = "terminated" /\ UNCHANGED reader
    /\ UNCHANGED <<options_, dir, images, camera, per_view_rms, last_pixmap_, success, events,
                   target_visualizer_>>

\* Mutant: the view is not told.
RefuseSilently ==
    /\ pc = "size" /\ reader.image_size_ = NoSize
    /\ Return("false")
    /\ UNCHANGED <<options_, dir, reader, images, camera, per_view_rms, last_pixmap_, events,
                   target_visualizer_>>

\* ImagesWidth throws when the constructor found no readable file.
RefuseDirectory ==
    /\ pc = "size" /\ reader.image_size_ = NoSize
    /\ Post(EndEvent("No readable images in provided directory!"))
    /\ Return("false")
    /\ UNCHANGED <<options_, dir, reader, images, camera, per_view_rms, last_pixmap_, target_visualizer_>>

GivenCamera == [size |-> reader.image_size_, params |-> "given", refractive |-> FALSE]

\* The set-up of a planar or a 3D target.  Only the latter gives the camera its
\* housing here; the parameters of a planar target's housing and of its camera
\* wait in the calibrator's options, and to take them from an optional that is
\* empty throws outside the try blocks.
Setup ==
    /\ pc = "size" /\ reader.image_size_ # NoSize
    /\ IF Calibrator = "HousingCalibrator"
       THEN /\ pc' = IF WithGuess THEN "read" ELSE "terminated"
            /\ UNCHANGED camera
       ELSE /\ pc' = "read"
            /\ camera' = [(IF WithGuess THEN GivenCamera ELSE camera) EXCEPT !.refractive = WithHousing]
    /\ IF pc' = "read" THEN SetTargetVisualizer ELSE UNCHANGED target_visualizer_
    /\ UNCHANGED <<options_, dir, reader, images, per_view_rms, last_pixmap_, success, events>>

\* A turn of the reading loop that shows the image if `Shown'.
ReadShowing(Shown(_)) ==
    LET status == ItemStatus(reader) IN
    /\ pc = "read" /\ HasNext(reader)
    /\ reader' = AfterNext(reader)
    /\ images' = IF status = "SUCCESS" THEN Append(images, reader'.file_index_) ELSE images
    /\ last_pixmap_' = IF NextStatus(reader) = "SUCCESS" THEN reader'.file_index_
                       ELSE last_pixmap_
    /\ IF Shown(status) THEN Post(ItemEvent(Item(status))) ELSE UNCHANGED events
    /\ UNCHANGED <<options_, dir, pc, camera, per_view_rms, success, target_visualizer_>>

\* Mutant: only images with a target are shown.
ReadShowingHits == ReadShowing(LAMBDA status : status = "SUCCESS")

\* One turn of the reading loop.  Files that are no images are not shown.
ReadImage == ReadShowing(LAMBDA status : status # "READ_ERROR")

\* The extractor throws: the loop is left, and no progress bar is shown.
FailExtraction ==
    /\ pc = "read" /\ NextStatus(reader) = "SUCCESS"
    /\ reader' = AfterNext(reader)
    /\ Post(EndEvent("extraction failed")) /\ Return("false")
    /\ UNCHANGED <<options_, dir, images, camera, per_view_rms, last_pixmap_, target_visualizer_>>

\* Mutant: no progress bar.
BeginUnannounced ==
    /\ pc = "read" /\ ~HasNext(reader)
    /\ pc' = "calibrate"
    /\ UNCHANGED <<options_, dir, reader, images, camera, per_view_rms, last_pixmap_, success,
                   events, target_visualizer_>>

BeginCalibration ==
    /\ pc = "read" /\ ~HasNext(reader)
    /\ Post(StartEvent) /\ pc' = "calibrate"
    /\ UNCHANGED <<options_, dir, reader, images, camera, per_view_rms, last_pixmap_, success,
                   target_visualizer_>>

\* The checks of HousingCalibrator::Calibrate and its options.
HousingRefusals ==
    LET housing == CHOOSE h \in options_.housing_calibration : TRUE
        parameters == CHOOSE p \in options_.initial_camera_parameters : TRUE
        target == options_.calibration_target_options
        flat == housing.type = "FLATPORT"
    IN {m \in ArgumentErrors :
          \/ /\ m = "Number of camera parameters does not match camera model."
             /\ Len(parameters) # CameraModels[options_.camera_model]
          \/ /\ m = "Number of initial housing parameters does not match housing type."
             /\ Len(housing.parameters) # HousingInterfaces[housing.type]
          \/ /\ m = "Pattern size needs to be set when estimating initial dome offset."
             /\ ~flat /\ target.type = "Chessboard" /\ (target.columns =< 0 \/ target.rows =< 0)
          \/ /\ m = "Interface normal must be normalized to unit length!"
             /\ flat /\ Len(housing.parameters) >= 3 /\ ~IsNormalized(housing.parameters)}

\* Those of BasicCalibrator and Calibrator3D, which look at the camera.
CameraRefusals ==
    {m \in ArgumentErrors :
        \/ /\ m = "Intrinsics guess specified, but camera not initialized."
           /\ Calibrator = "BasicCalibrator" /\ WithGuess /\ camera.params = "invalid"
        \/ /\ m = "Housing calibration requires an intrinsic guess!"
           /\ Calibrator = "Calibrator3D" /\ WithHousing /\ ~WithGuess
        \/ /\ m = "Housing calibration requested but refractive parameters not initialized!"
           /\ Calibrator = "Calibrator3D" /\ WithHousing /\ WithGuess /\ ~camera.refractive}

\* What a calibrator can object to; the first is what it throws.
Refusals ==
    (IF images = <<>> THEN {"No images to calibrate from."} ELSE {})
    \cup (IF Calibrator = "HousingCalibrator" THEN HousingRefusals ELSE CameraRefusals)

\* The camera a calibrator starts from: the guess as it is, or a new one of
\* the size it was given.
CalibratorCamera ==
    CASE Calibrator = "HousingCalibrator" -> [GivenCamera EXCEPT !.refractive = TRUE]
      [] Calibrator # "HousingCalibrator" /\ WithGuess -> camera
      [] Calibrator # "HousingCalibrator" /\ ~WithGuess -> [GivenCamera EXCEPT !.params = "initial"]

\* The normal is looked at after the camera was set.
RefuseToCalibrate ==
    /\ pc = "calibrate"
    /\ \E message \in Refusals :
          /\ Post(EndEvent(message))
          /\ camera' = IF message = "Interface normal must be normalized to unit length!"
                       THEN CalibratorCamera ELSE camera
    /\ Return("false")
    /\ UNCHANGED <<options_, dir, reader, images, per_view_rms, last_pixmap_, target_visualizer_>>

\* The estimation throws before it comes to a result.
FailCalibration ==
    /\ pc = "calibrate" /\ Refusals = {}
    /\ camera' = CalibratorCamera
    /\ Post(EndEvent("calibration failed")) /\ Return("false")
    /\ UNCHANGED <<options_, dir, reader, images, per_view_rms, last_pixmap_, target_visualizer_>>

\* How many images the estimation may leave out: COLMAP any, others none.
Unregistered == IF Calibrator = "Calibrator3D" THEN 0 .. Len(images) ELSE {0}

\* The calibration is given its results before it is known whether there are
\* enough.  Which images are left out is not told apart.
Estimate(unregistered) ==
    /\ pc = "calibrate" /\ Refusals = {}
    /\ camera' = [CalibratorCamera EXCEPT !.params = "calibrated"]
    /\ per_view_rms' = [i \in DOMAIN images |-> i > unregistered]
    /\ UNCHANGED <<options_, dir, reader, images, target_visualizer_>>

\* Mutant: the share is rounded up.
TooManyRounded(unregistered) == unregistered > (3 * Len(images) + 9) \div 10

TooMany(unregistered) == 10 * unregistered > 3 * Len(images)

FailRegistration ==
    /\ \E unregistered \in Unregistered : TooMany(unregistered) /\ Estimate(unregistered)
    /\ Post(EndEvent("images not registered")) /\ Return("false")
    /\ UNCHANGED last_pixmap_

Calibrate ==
    /\ \E unregistered \in Unregistered : ~TooMany(unregistered) /\ Estimate(unregistered)
    /\ Post(EndEvent("calibration")) /\ Return("true")
    /\ last_pixmap_' = 0       \* moved into the result widget's functor

Worker ==
    /\ fault = "none"
    /\ \/ Construct \/ RefuseDirectory \/ Setup \/ ReadImage \/ FailExtraction
       \/ BeginCalibration \/ RefuseToCalibrate \/ FailCalibration \/ FailRegistration
       \/ Calibrate
    /\ UNCHANGED widgetVars

EventLoop == pc # "terminated" /\ RunFunctor /\ UNCHANGED workerVars

Next == Worker \/ EventLoop

\* Both threads are scheduled by the operating system; no call in Run waits.
Spec == Init /\ [][Next]_vars /\ WF_vars(Worker) /\ WF_vars(EventLoop)

-----------------------------------------------------------------------------
\* What an item of the view says of a file: files of another size than the
\* reader settled on are rejected before extraction.
Label(k) == IF dir[k].size # reader.image_size_ THEN "IMAGE_DIMENSION_MISSMATCH"
            ELSE ExtractStatus(dir[k])

\* When a result is shown for a directory that was read to its end, the view
\* holds one item for every readable image, in reading order and with the
\* status it had; files that are no images never appear.
ShowsEveryImage ==
    result \notin {"none", "extraction failed", "No readable images in provided directory!"} =>
        /\ Enumerates([i \in DOMAIN items |-> items[i].file], ReadableFiles(dir))
        /\ \A i \in DOMAIN items : items[i].status = Label(items[i].file)

\* Run returns true exactly when the view comes to show a calibration, since
\* saving is only enabled for a calibration the user has seen.  That was made
\* from every image of the directory that has the reader's size and shows the
\* target, once each and in reading order; it has a per view error, which the
\* result widget reads by the image's index, for every one of them, and at
\* least seven in ten were registered.
ResultIsComplete ==
    result # "none" =>
        /\ success = "true" <=> result = "calibration"
        /\ result = "calibration" =>
              /\ Enumerates(images, {k \in ReadableFiles(dir) : Label(k) = "SUCCESS"})
              /\ camera = [size |-> reader.image_size_, params |-> "calibrated", refractive |-> WithHousing]
              /\ DOMAIN per_view_rms = DOMAIN images
              /\ 10 * Cardinality({i \in DOMAIN images : per_view_rms[i]}) >= 7 * Len(images)

\* No options that a dialog's Validate lets pass are refused by the calibrator
\* the set-up builds from them, after minutes of extraction, nor end the
\* process in the set-up: the dialog and three calibrators each check them.
OptionsFitCalibrator ==
    result \notin ArgumentErrors /\ (pc = "terminated" => reader.image_paths_ = <<>>)

\* The view goes through items, progress and one result, in that order.
ViewAsPromised == View!Spec

\* A calibration from files always comes to a result, unless the directory
\* had gone.
EndsWithResult == <>(result # "none" \/ pc = "terminated")
=============================================================================
