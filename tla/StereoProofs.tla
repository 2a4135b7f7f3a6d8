---------------------------- MODULE StereoProofs ----------------------------
(***************************************************************************)
(* The stereo calibration from files, for every two directories and every  *)
(* set of image sizes: images are paired by their rank among the readable  *)
(* files of their side, every pair is shown, and the cameras that come out *)
(* are those of the options.                                               *)
(***************************************************************************)
EXTENDS StereoRunner, FiniteSetTheorems, SequenceTheorems, TLAPS

\* What EndCalibration is called with.
Unread == {"extraction failed", "Could not find any image files!"}
Ends == Unread \cup
    {"calibration", "No images to calibrate from.", NotInitialized, InvalidParameters,
     "Stereo calibration images are not balanced.", "calibration failed"}

Statuses == {"SUCCESS", "DETECTION_ERROR", "READ_ERROR", "IMAGE_DIMENSION_MISSMATCH"}
Items == [Sides -> [file : Nat, status : Statuses]]
Functors == {ItemEvent(item) : item \in Items} \cup {StartEvent} \cup {EndEvent(end) : end \in Ends}
Controls == {"start", "terminated", "setup", "read", "skip", "calibrate", "returned"}

TypeOK ==
    /\ dirs \in [Sides -> Seq(Files)] /\ readers \in [Sides -> Readers] /\ data \in Items
    /\ images \in [Sides -> Seq(Nat)]
    /\ events \in Seq(Functors) /\ items \in Seq(Items) /\ pc \in Controls
    /\ calibration_ended_ \in BOOLEAN /\ target_visualizer_ \in BOOLEAN
    /\ result \in Ends \cup {"none"}

Waits(q, i) == q[i].call = "AddExtractionItem"
Finishes(q, i) == q[i].call = "EndCalibration"

\* Run's last call is the one that ends the calibration.
History ==
    /\ \A i \in DOMAIN events : Finishes(events, i) => pc = "returned" /\ i = Len(events)
    /\ calibration_ended_ => pc = "returned" /\ events = <<>>
    /\ ~calibration_ended_ => result = "none"

Announced(end) ==
    result = end \/ \E i \in DOMAIN events : Finishes(events, i) /\ events[i].arg = end

-----------------------------------------------------------------------------
(* The readers are of the two directories, and have settled on a size      *)
(* before the first image is read.                                         *)

At(s) == readers[s].file_index_

Opened ==
    /\ pc \notin {"start", "terminated"} => \A s \in Sides : readers[s].image_paths_ = dirs[s]
    /\ pc \in {"start", "setup"} => \A s \in Sides : At(s) = 0 /\ images[s] = <<>>
    /\ pc \in {"read", "skip", "calibrate"} =>
          target_visualizer_ /\ \A s \in Sides : readers[s].image_size_ # NoSize

-----------------------------------------------------------------------------
(* The cameras *)

Returned ==
    /\ pc # "returned" => success = "none"
    /\ success = "true" <=> Announced("calibration")

Cameras ==
    /\ options_ \in Options
    /\ pc \in {"start", "setup", "terminated"} => cameras = [s \in Sides |-> NoCamera]
    /\ pc \in {"read", "skip", "calibrate"} =>
          /\ cameras = [s \in Sides |-> IF s \in options_.given
                                        THEN [size |-> readers[s].image_size_, params |-> "given"]
                                        ELSE NoCamera]
          /\ image_size = [s \in Sides |-> IF s \in options_.given THEN NoSize
                                           ELSE readers[1].image_size_]
    /\ options_.estimate_pose_only => \A s \in Sides : cameras[s].params \in {"invalid", "given"}
    /\ success = "true" =>
          /\ EnoughViews
          /\ \A s \in Sides :
                /\ cameras[s].size = readers[IF UseGuess THEN s ELSE 1].image_size_
                /\ cameras[s].params = IF options_.estimate_pose_only THEN "given" ELSE "calibrated"

\* A set-up is refused for its parameters only if they do not go together.
Refused ==
    Announced(NotInitialized) \/ Announced(InvalidParameters) =>
        Cardinality(options_.given) = 1 \/ options_.models_differ

-----------------------------------------------------------------------------
(* The pairs.  A side is done with the files the reader has passed, but in *)
(* the middle of a turn not with the image the turn is about.              *)

Pending(s) == pc = "skip" /\ data[s].status # "READ_ERROR"
Done(s) == {k \in ReadableFiles(dirs[s]) : k =< At(s) /\ ~(Pending(s) /\ k = At(s))}
AllDone(p) == \A s \in Sides : p[s] \in Done(s)
Exhausted(s) == ~HasNext(readers[s])

\* The two sides are level, until one has run out of images.
Level ==
    /\ pc = "skip" => Cardinality(Done(1)) = Cardinality(Done(2))
    /\ pc \in {"read", "calibrate"} =>
          \/ Cardinality(Done(1)) = Cardinality(Done(2))
          \/ \E s \in Sides : Exhausted(s) /\ \A t \in Sides : Cardinality(Done(s)) =< Cardinality(Done(t))

Reading ==
    /\ pc = "start" => events = <<>> /\ items = <<>>
    /\ pc = "skip" => \A s \in Sides :
          IF Pending(s) THEN /\ data[s].file = At(s) /\ At(s) \in ReadableFiles(dirs[s])
                             /\ data[s].status = Label(s, At(s))
          ELSE At(s) \notin ReadableFiles(dirs[s])
    /\ pc = "calibrate" => \E s \in Sides : Exhausted(s)

\* The items that are shown and those that wait in the queue.
FilesOf(item) == [s \in Sides |-> item[s].file]
Truthful(item) ==
    /\ FilesOf(item) \in Pairs /\ AllDone(FilesOf(item))
    /\ \A s \in Sides : item[s].status = Label(s, item[s].file)
Before(one, other) == \A s \in Sides : one[s].file < other[s].file

Visible(p) ==
    \/ \E i \in DOMAIN items : FilesOf(items[i]) = p
    \/ \E i \in DOMAIN events : Waits(events, i) /\ FilesOf(events[i].arg) = p

Covered ==
    \/ \E end \in Unread : Announced(end)
    \/ \A p \in Pairs : AllDone(p) \/ pc \in {"calibrate", "returned"} => Visible(p)

Ordered ==
    /\ \A i \in DOMAIN items : /\ Truthful(items[i])
                               /\ \A j \in DOMAIN items : i < j => Before(items[i], items[j])
    /\ \A i \in DOMAIN events : Waits(events, i) =>
          /\ target_visualizer_ /\ Truthful(events[i].arg)
          /\ \A j \in DOMAIN items : Before(items[j], events[i].arg)
          /\ \A j \in DOMAIN events : i < j /\ Waits(events, j) => Before(events[i].arg, events[j].arg)

\* The images the calibrations hold.
Kept(i) == [s \in Sides |-> images[s][i]]
Good(p) == \A s \in Sides : Label(s, p[s]) = "SUCCESS"
Selected ==
    pc \in {"read", "skip", "calibrate"} =>
        /\ DOMAIN images[1] = DOMAIN images[2]
        /\ \A i \in DOMAIN images[1] :
              /\ Kept(i) \in Pairs /\ AllDone(Kept(i)) /\ Good(Kept(i))
              /\ \A j \in DOMAIN images[1] : i < j => \A s \in Sides : Kept(i)[s] < Kept(j)[s]
        /\ \A p \in Pairs : Good(p) /\ (AllDone(p) \/ pc = "calibrate") =>
              \E i \in DOMAIN images[1] : Kept(i) = p

Inv == TypeOK /\ History
PairInv == Reading /\ Level /\ Covered /\ Ordered /\ Selected

-----------------------------------------------------------------------------
(* Functors, the queue and the readers *)

LEMMA FunctorFacts ==
    /\ \A item \in Items : /\ ItemEvent(item) \in Functors
                           /\ ItemEvent(item).call = "AddExtractionItem"
    /\ StartEvent \in Functors /\ StartEvent.call = "StartCalibration"
    /\ \A end \in Ends : /\ EndEvent(end) \in Functors
                         /\ EndEvent(end).call = "EndCalibration" /\ EndEvent(end).arg = end
    /\ \A e \in Functors : /\ e.call = "AddExtractionItem" => e.arg \in Items
                           /\ e.call = "EndCalibration" => e.arg \in Ends
<1>1. /\ \A item \in Items : ItemEvent(item) \in Functors
      /\ \A end \in Ends : EndEvent(end) \in Functors
      /\ StartEvent \in Functors
    BY DEF Functors
<1>2. \A item : ItemEvent(item).call = "AddExtractionItem" /\ ItemEvent(item).arg = item
    BY DEF ItemEvent
<1>3. \A end : EndEvent(end).call = "EndCalibration" /\ EndEvent(end).arg = end
    BY DEF EndEvent
<1>4. StartEvent.call = "StartCalibration"
    BY DEF StartEvent
<1>5. ASSUME NEW e \in Functors
      PROVE  /\ e.call = "AddExtractionItem" => e.arg \in Items
             /\ e.call = "EndCalibration" => e.arg \in Ends
    <2>1. CASE \E item \in Items : e = ItemEvent(item)
        BY <1>2, <2>1
    <2>2. CASE e = StartEvent
        BY <1>4, <2>2
    <2>3. CASE \E end \in Ends : e = EndEvent(end)
        BY <1>3, <2>3
    <2> QED
        BY <2>1, <2>2, <2>3 DEF Functors
<1> QED
    BY <1>1, <1>2, <1>3, <1>4, <1>5

LEMMA Appended ==
    ASSUME NEW S, NEW s \in Seq(S), NEW e \in S, NEW t, t = Append(s, e)
    PROVE  /\ t \in Seq(S) /\ Len(s) \in Nat /\ Len(t) = Len(s) + 1
           /\ DOMAIN s = 1 .. Len(s) /\ DOMAIN t = 1 .. Len(s) + 1
           /\ t[Len(s) + 1] = e /\ \A i \in 1 .. Len(s) : t[i] = s[i]
           /\ t # <<>>
<1>1. t \in Seq(S) /\ Len(t) = Len(s) + 1 /\ t[Len(s) + 1] = e /\ \A i \in 1 .. Len(s) : t[i] = s[i]
    BY AppendProperties
<1>2. Len(s) \in Nat /\ DOMAIN s = 1 .. Len(s)
    BY LenProperties
<1>3. DOMAIN t = 1 .. Len(t)
    BY <1>1, LenProperties
<1>4. t # <<>>
    BY AppendProperties
<1> QED
    BY <1>1, <1>2, <1>3, <1>4

LEMMA TailShifts ==
    ASSUME NEW S, NEW s \in Seq(S), s # <<>>, NEW t, t = Tail(s)
    PROVE  /\ t \in Seq(S) /\ Len(s) \in Nat \ {0} /\ Len(t) = Len(s) - 1
           /\ DOMAIN s = 1 .. Len(s) /\ DOMAIN t = 1 .. Len(s) - 1
           /\ \A i \in 1 .. Len(s) - 1 : t[i] = s[i + 1]
           /\ Head(s) = s[1] /\ Head(s) \in S
           /\ t = <<>> <=> Len(s) = 1
<1>1. Len(s) \in Nat \ {0} /\ DOMAIN s = 1 .. Len(s)
    BY EmptySeq, LenProperties
<1>2. /\ Head(s) \in S /\ t \in Seq(S) /\ Len(t) = Len(s) - 1
      /\ \A i \in 1 .. Len(t) : t[i] = s[i + 1]
    BY HeadTailProperties
<1>3. DOMAIN t = 1 .. Len(t)
    BY <1>2, LenProperties
<1>4. Head(s) = s[1]
    OBVIOUS
<1>5. ASSUME t = <<>> PROVE Len(s) = 1
    <2>1. Len(t) = 0
        BY <1>5, EmptySeq
    <2> QED
        BY <1>1, <1>2, <2>1
<1>6. ASSUME t # <<>> PROVE Len(s) # 1
    <2>1. Len(t) \in Nat \ {0}
        BY <1>2, <1>6, EmptySeq
    <2> QED
        BY <1>1, <1>2, <2>1
<1> QED
    BY <1>1, <1>2, <1>3, <1>4, <1>5, <1>6

LEMMA ReaderAdvanced ==
    ASSUME NEW r \in Readers, HasNext(r)
    PROVE  /\ AfterNext(r) \in Readers /\ ItemStatus(r) \in Statuses
           /\ r.file_index_ \in Nat /\ AfterNext(r).file_index_ = r.file_index_ + 1
           /\ AfterNext(r).image_paths_ = r.image_paths_
           /\ r.image_size_ # NoSize => AfterNext(r).image_size_ = r.image_size_
           /\ r.file_index_ + 1 \in DOMAIN r.image_paths_
           /\ ItemStatus(r) = "READ_ERROR" <=> ~Readable(r.image_paths_[r.file_index_ + 1])
           /\ r.image_size_ # NoSize /\ Readable(r.image_paths_[r.file_index_ + 1]) =>
                 ItemStatus(r) = IF r.image_paths_[r.file_index_ + 1].size # r.image_size_
                                 THEN "IMAGE_DIMENSION_MISSMATCH"
                                 ELSE ExtractStatus(r.image_paths_[r.file_index_ + 1])
<1>1. /\ r.file_index_ \in Nat /\ r.image_paths_ \in Seq(Files) /\ r.image_size_ \in Sizes \cup {NoSize}
      /\ r = [image_paths_ |-> r.image_paths_, file_index_ |-> r.file_index_, image_size_ |-> r.image_size_]
    BY DEF Readers
<1>2. r.file_index_ + 1 \in DOMAIN r.image_paths_
    BY <1>1, LenProperties DEF HasNext
<1>3. NextFile(r) = r.image_paths_[r.file_index_ + 1] /\ NextFile(r) \in Files
    BY <1>1, <1>2, LenProperties DEF NextFile
<1> DEFINE size == IF r.image_size_ = NoSize /\ Readable(NextFile(r)) THEN NextFile(r).size
                   ELSE r.image_size_
<1>4. size \in Sizes \cup {NoSize} /\ (r.image_size_ # NoSize => size = r.image_size_)
    BY <1>1, <1>3 DEF Files, Readable
<1>5. AfterNext(r) = [image_paths_ |-> r.image_paths_, file_index_ |-> r.file_index_ + 1, image_size_ |-> size]
    <2>1. AfterNext(r) = [r EXCEPT !.file_index_ = @ + 1, !.image_size_ = size]
        BY DEF AfterNext
    <2> QED
        BY <1>1, <2>1
<1> HIDE DEF size
<1>6. AfterNext(r) \in Readers
    BY <1>1, <1>4, <1>5 DEF Readers
<1>7. ExtractStatus(NextFile(r)) \in {"SUCCESS", "DETECTION_ERROR"}
    BY DEF ExtractStatus
<1>8. CASE ~Readable(NextFile(r))
    <2>1. ItemStatus(r) = "READ_ERROR"
        BY <1>8 DEF ItemStatus, NextStatus
    <2> QED
        BY <1>1, <1>2, <1>3, <1>4, <1>5, <1>6, <1>8, <2>1 DEF Statuses
<1>9. CASE Readable(NextFile(r))
    <2>1. NextStatus(r) = IF r.image_size_ \in {NoSize, NextFile(r).size}
                          THEN "SUCCESS" ELSE "IMAGE_DIMENSION_MISSMATCH"
        BY <1>9 DEF NextStatus
    <2>2. ItemStatus(r) = IF r.image_size_ \in {NoSize, NextFile(r).size}
                          THEN ExtractStatus(NextFile(r)) ELSE "IMAGE_DIMENSION_MISSMATCH"
        BY <2>1 DEF ItemStatus
    <2> QED
        BY <1>1, <1>2, <1>3, <1>4, <1>5, <1>6, <1>7, <1>9, <2>2 DEF Statuses
<1> QED
    BY <1>8, <1>9

LEMMA ReaderConstructed ==
    ASSUME NEW d \in Seq(Files), NEW r \in NewReaders(d)
    PROVE  r \in Readers /\ r.image_paths_ = d /\ r.file_index_ = 0
<1>1. {d[k].size : k \in ReadableFiles(d)} \subseteq Sizes
    BY LenProperties DEF Files, Readable, ReadableFiles
<1>2. PICK size \in Sizes \cup {NoSize} :
          r = [image_paths_ |-> d, file_index_ |-> 0, image_size_ |-> size]
    BY <1>1 DEF NewReaders
<1> QED
    BY <1>2 DEF Readers

-----------------------------------------------------------------------------
(* Types and the end of the queue *)

LEMMA InitInv == Init => Inv
<1> SUFFICES ASSUME Init PROVE Inv
    OBVIOUS
<1>1. \A d \in Directories : d \in Seq(Files)
    BY MaxFilesAssumption, SeqDef DEF Directories
<1>2. dirs \in [Sides -> Seq(Files)]
    BY <1>1 DEF Init
<1>3. readers \in [Sides -> Readers] /\ data \in Items /\ images \in [Sides -> Seq(Nat)]
    BY EmptySeq DEF Init, Readers, NoReader, NoData, Items, Statuses
<1>4. events = <<>> /\ events \in Seq(Functors) /\ items \in Seq(Items) /\ DOMAIN events = {}
    BY EmptySeq DEF Init, WidgetInit
<1>5. TypeOK
    BY <1>2, <1>3, <1>4 DEF Init, WidgetInit, TypeOK, Controls
<1>6. History
    BY <1>4 DEF Init, WidgetInit, History
<1> QED
    BY <1>5, <1>6 DEF Inv

\* What the worker's steps do to the queue: nothing, or one functor at its end.
UnseenVars == <<items, result, calibration_ended_>>

LEMMA Posting ==
    ASSUME Inv, NEW e \in Functors, Post(e), UNCHANGED UnseenVars, pc # "returned",
           e.call = "EndCalibration" => pc' = "returned"
    PROVE  events' \in Seq(Functors) /\ History'
<1>1. /\ Len(events) \in Nat /\ Len(events') = Len(events) + 1 /\ events' \in Seq(Functors)
      /\ DOMAIN events = 1 .. Len(events) /\ DOMAIN events' = 1 .. Len(events) + 1
      /\ events'[Len(events) + 1] = e /\ \A i \in 1 .. Len(events) : events'[i] = events[i]
    BY Appended DEF Inv, TypeOK, Post
<1>2. \A i \in DOMAIN events' : Finishes(events', i) => e.call = "EndCalibration" /\ i = Len(events')
    BY <1>1 DEF Finishes, Inv, History
<1>3. ~calibration_ended_' /\ result' = "none"
    BY DEF UnseenVars, Inv, History, TypeOK
<1> QED
    BY <1>1, <1>2, <1>3 DEF History

LEMMA NoPosting ==
    ASSUME Inv, UNCHANGED <<events, UnseenVars>>, pc' = pc \/ pc # "returned"
    PROVE  History'
BY DEF Inv, History, Finishes, UnseenVars

LEMMA TurnType ==
    ASSUME TypeOK, NEW s \in Sides, HasNext(readers[s])
    PROVE  Data(s) \in [file : Nat, status : Statuses] /\ AfterNext(readers[s]) \in Readers
           /\ Data(s).file = At(s) + 1 /\ Data(s).status = ItemStatus(readers[s])
BY ReaderAdvanced DEF TypeOK, Data, At

\* A way out of Run: its last functor, and no new image.
LEMMA WayOut ==
    ASSUME Inv, NEW end \in Ends, Post(EndEvent(end)), pc # "returned", pc' = "returned",
           UNCHANGED <<dirs, readers, data, images, target_visualizer_, UnseenVars>>
    PROVE  Inv'
<1>1. EndEvent(end) \in Functors
    BY FunctorFacts
<1>2. events' \in Seq(Functors) /\ History'
    BY <1>1, Posting
<1>3. TypeOK'
    BY <1>2 DEF Inv, TypeOK, UnseenVars, Controls
<1> QED
    BY <1>2, <1>3 DEF Inv

\* Each way out announces one result.
LEMMA Exits ==
    ASSUME RefuseDirectories \/ FailExtraction \/ RefuseToCalibrate \/ Calibrate
    PROVE  /\ pc \in {"setup", "read", "skip", "calibrate"} /\ pc' = "returned"
           /\ UNCHANGED <<options_, dirs, readers, data, images, target_visualizer_>>
           /\ \E end \in Ends :
                 /\ Post(EndEvent(end)) /\ success' = IF end = "calibration" THEN "true" ELSE "false"
                 /\ \/ end = "Could not find any image files!" /\ RefuseDirectories
                    \/ end = "extraction failed" /\ FailExtraction
                    \/ end \in Ends \ (Unread \cup {"calibration"}) /\ pc = "calibrate"
                    \/ end = "calibration" /\ Calibrate
<1>1. CASE RefuseDirectories
    BY <1>1 DEF RefuseDirectories, Catch, Return, Ends, Unread
<1>2. CASE FailExtraction
    BY <1>2 DEF FailExtraction, Catch, Return, Ends, Unread
<1>3. CASE RefuseToCalibrate
    <2>1. PICK m \in Refusals : Catch(m)
        BY <1>3 DEF RefuseToCalibrate
    <2>2. m \in Ends \ (Unread \cup {"calibration"})
        BY DEF Refusals, Ends, Unread, NotInitialized, InvalidParameters
    <2> QED
        BY <1>3, <2>1, <2>2 DEF RefuseToCalibrate, Catch, Return
<1>4. CASE Calibrate
    <2>1. CASE Catch("calibration failed")
        <3>1. "calibration failed" \in Ends \ (Unread \cup {"calibration"})
            BY DEF Ends, Unread
        <3> QED
            BY <1>4, <2>1, <3>1 DEF Calibrate, Catch, Return
    <2>2. CASE Post(EndEvent("calibration")) /\ Return("true")
        BY <1>4, <2>2 DEF Calibrate, Return, Ends
    <2> QED
        BY <1>4, <2>1, <2>2 DEF Calibrate
<1> QED
    BY <1>1, <1>2, <1>3, <1>4

LEMMA WorkerInv == ASSUME Inv, Worker PROVE Inv'
<1>1. UNCHANGED UnseenVars
    BY DEF Worker, widgetVars, UnseenVars
<1> USE DEF Controls
<1>2. CASE Construct
    <2>1. pc = "start" /\ pc' \in {"setup", "terminated"} /\ UNCHANGED <<dirs, data, images, events, target_visualizer_>>
        BY <1>2 DEF Construct
    <2>2. readers' \in [Sides -> Readers]
        <3>1. CASE UNCHANGED readers
            BY <3>1 DEF Inv, TypeOK
        <3>2. CASE readers' \in {r \in [Sides -> UNION {NewReaders(dirs[s]) : s \in Sides}] :
                                    \A s \in Sides : r[s] \in NewReaders(dirs[s])}
            BY <3>2, ReaderConstructed DEF Inv, TypeOK
        <3> QED
            BY <1>2, <3>1, <3>2 DEF Construct
    <2> QED
        BY <1>1, <2>1, <2>2, NoPosting DEF Inv, TypeOK, UnseenVars
<1>3. CASE Setup
    BY <1>1, <1>3, NoPosting DEF Setup, SetTargetVisualizer, Inv, TypeOK, UnseenVars
<1>4. CASE ReadBoth
    <2>1. \A s \in Sides : Data(s) \in [file : Nat, status : Statuses] /\ AfterNext(readers[s]) \in Readers
        BY <1>4, TurnType DEF ReadBoth, Inv
    <2>2. data' \in Items /\ readers' \in [Sides -> Readers]
        BY <1>4, <2>1 DEF ReadBoth, Items
    <2> QED
        BY <1>1, <1>4, <2>2, NoPosting DEF ReadBoth, Inv, TypeOK, UnseenVars
<1>5. ASSUME NEW s \in Sides, SkipFile(s) PROVE Inv'
    <2>1. Data(s) \in [file : Nat, status : Statuses] /\ AfterNext(readers[s]) \in Readers
        BY <1>5, TurnType DEF SkipFile, MustSkip, Inv
    <2>2. data' \in Items /\ readers' \in [Sides -> Readers]
        BY <1>5, <2>1 DEF SkipFile, Items, Inv, TypeOK
    <2> QED
        BY <1>1, <1>5, <2>2, NoPosting DEF SkipFile, Inv, TypeOK, UnseenVars
<1>6. CASE PairImages
    <2>1. /\ pc = "skip" /\ pc' = "read" /\ UNCHANGED <<dirs, readers, data, target_visualizer_>>
          /\ \/ UNCHANGED <<images, events>>
             \/ /\ Post(ItemEvent(data))
                /\ \/ UNCHANGED images
                   \/ images' = [s \in Sides |-> Append(images[s], data[s].file)]
        BY <1>6 DEF PairImages
    <2>2. images' \in [Sides -> Seq(Nat)]
        <3>1. \A s \in Sides : Append(images[s], data[s].file) \in Seq(Nat)
            BY AppendProperties DEF Inv, TypeOK, Items
        <3> QED
            BY <2>1, <3>1 DEF Inv, TypeOK
    <2>3. events' \in Seq(Functors) /\ History'
        <3>1. CASE UNCHANGED events
            BY <1>1, <2>1, <3>1, NoPosting DEF Inv, TypeOK
        <3>2. CASE Post(ItemEvent(data))
            BY <1>1, <2>1, <3>2, Posting, FunctorFacts DEF Inv, TypeOK
        <3> QED
            BY <2>1, <3>1, <3>2
    <2> QED
        BY <1>1, <2>1, <2>2, <2>3 DEF Inv, TypeOK, UnseenVars
<1>7. CASE BeginCalibration
    <2>1. events' \in Seq(Functors) /\ History'
        BY <1>1, <1>7, Posting, FunctorFacts DEF BeginCalibration
    <2> QED
        BY <1>1, <1>7, <2>1 DEF BeginCalibration, Inv, TypeOK, UnseenVars
<1>8. CASE RefuseDirectories \/ FailExtraction \/ RefuseToCalibrate \/ Calibrate
    BY <1>1, <1>8, Exits, WayOut
<1> QED
    BY <1>2, <1>3, <1>4, <1>5, <1>6, <1>7, <1>8 DEF Worker

\* What a functor finds: it is the oldest, and the others move up.
LEMMA RunFinds ==
    ASSUME Inv, RunFunctor
    PROVE  /\ events # <<>> /\ events' \in Seq(Functors) /\ Len(events) \in Nat \ {0}
           /\ Len(events') = Len(events) - 1 /\ 1 \in DOMAIN events
           /\ DOMAIN events = 1 .. Len(events) /\ DOMAIN events' = 1 .. Len(events) - 1
           /\ \A i \in DOMAIN events' : i + 1 \in DOMAIN events /\ events'[i] = events[i + 1] /\ 1 < i + 1
           /\ \A i \in DOMAIN events : i = 1 \/ (i - 1 \in DOMAIN events' /\ events'[i - 1] = events[i])
           /\ \A i, j \in DOMAIN events' : i < j => i + 1 < j + 1
           /\ Head(events) = events[1] /\ Head(events) \in Functors
           /\ events' = <<>> <=> Len(events) = 1
           /\ calibration_ended_ = FALSE /\ result = "none"
<1>1. events # <<>> /\ events' = Tail(events) /\ events \in Seq(Functors)
    BY DEF RunFunctor, AddExtractionItem, StartCalibration, EndCalibration, Due, Inv, TypeOK
<1>2. calibration_ended_ = FALSE /\ result = "none"
    BY <1>1 DEF Inv, History, TypeOK
<1>3. /\ events' \in Seq(Functors) /\ Len(events) \in Nat \ {0}
      /\ Len(events') = Len(events) - 1
      /\ DOMAIN events = 1 .. Len(events) /\ DOMAIN events' = 1 .. Len(events) - 1
      /\ \A i \in 1 .. Len(events) - 1 : events'[i] = events[i + 1]
      /\ Head(events) = events[1] /\ Head(events) \in Functors
      /\ events' = <<>> <=> Len(events) = 1
    BY <1>1, TailShifts
<1> DEFINE n == Len(events)
<1>4. n \in Nat \ {0}
    BY <1>3
<1> HIDE DEF n
<1>5. /\ 1 \in 1 .. n
      /\ \A i \in 1 .. n - 1 : i + 1 \in 1 .. n /\ 1 < i + 1
      /\ \A i \in 1 .. n : i = 1 \/ (i - 1 \in 1 .. n - 1 /\ i - 1 + 1 = i)
      /\ \A i, j \in 1 .. n - 1 : i < j => i + 1 < j + 1
    BY <1>4
<1> QED
    BY <1>1, <1>2, <1>3, <1>5 DEF n

LEMMA FunctorInv == ASSUME Inv, RunFunctor, UNCHANGED workerVars PROVE Inv'
<1>1. /\ \A i \in DOMAIN events' : i + 1 \in DOMAIN events /\ events'[i] = events[i + 1]
      /\ Len(events) \in Nat \ {0} /\ Len(events') = Len(events) - 1 /\ DOMAIN events' = 1 .. Len(events) - 1
      /\ events' = <<>> <=> Len(events) = 1
      /\ events' \in Seq(Functors) /\ calibration_ended_ = FALSE /\ result = "none"
      /\ Head(events) = events[1] /\ Head(events) \in Functors /\ 1 \in DOMAIN events
    BY RunFinds
<1>2. \A i \in DOMAIN events' : Finishes(events', i) => pc' = "returned" /\ i = Len(events')
    <2> SUFFICES ASSUME NEW i \in DOMAIN events', Finishes(events', i)
                 PROVE  pc' = "returned" /\ i = Len(events')
        OBVIOUS
    <2>1. pc = "returned" /\ i + 1 = Len(events)
        BY <1>1 DEF Inv, History, Finishes
    <2> QED
        BY <1>1, <2>1 DEF workerVars
<1>3. target_visualizer_' = target_visualizer_
    BY DEF RunFunctor, AddExtractionItem, StartCalibration, EndCalibration
<1>4. CASE AddExtractionItem
    <2>1. Head(events).arg \in Items /\ UNCHANGED <<result, calibration_ended_>>
        BY <1>1, <1>4, FunctorFacts DEF AddExtractionItem, Due
    <2>2. items' = items \/ items' = Append(items, Head(events).arg)
        BY <1>4 DEF AddExtractionItem
    <2>3. items' \in Seq(Items)
        <3>1. items \in Seq(Items)
            BY DEF Inv, TypeOK
        <3>2. CASE items' = Append(items, Head(events).arg)
            BY <2>1, <3>1, <3>2, Appended
        <3> QED
            BY <2>2, <3>1, <3>2
    <2> QED
        BY <1>1, <1>2, <1>3, <2>1, <2>3 DEF Inv, TypeOK, History, workerVars
<1>5. CASE StartCalibration
    BY <1>1, <1>2, <1>3, <1>5 DEF StartCalibration, Inv, TypeOK, History, workerVars
<1>6. CASE EndCalibration
    <2>1. Finishes(events, 1) /\ Head(events).arg \in Ends /\ result' = Head(events).arg
          /\ calibration_ended_' = TRUE /\ UNCHANGED items
        BY <1>1, <1>6, FunctorFacts DEF EndCalibration, Due, Finishes
    <2>2. pc = "returned" /\ 1 = Len(events)
        BY <1>1, <2>1 DEF Inv, History
    <2>3. TypeOK'
        BY <1>1, <1>3, <2>1 DEF Inv, TypeOK, workerVars
    <2>4. History'
        BY <1>1, <1>2, <2>1, <2>2 DEF History, workerVars
    <2> QED
        BY <2>3, <2>4 DEF Inv
<1> QED
    BY <1>4, <1>5, <1>6 DEF RunFunctor

LEMMA NextInv == ASSUME Inv, [Next]_vars PROVE Inv'
<1>1. CASE UNCHANGED vars
    <2>1. TypeOK'
        BY <1>1 DEF Inv, TypeOK, vars, workerVars, widgetVars
    <2>2. History'
        BY <1>1, NoPosting DEF vars, workerVars, widgetVars, UnseenVars
    <2> QED
        BY <2>1, <2>2 DEF Inv
<1> QED
    BY <1>1, WorkerInv, FunctorInv DEF Next, EventLoop

LEMMA Invariance == Spec => []Inv
BY InitInv, NextInv, PTL DEF Spec

-----------------------------------------------------------------------------
(* Announcements *)

LEMMA NotYetAnnounced ==
    ASSUME Inv, pc # "returned"
    PROVE  result = "none" /\ \A end \in Ends : ~Announced(end)
<1>1. result = "none"
    BY DEF Inv, History, TypeOK
<1>2. \A i \in DOMAIN events : ~Finishes(events, i)
    BY DEF Inv, History
<1>3. "none" \notin Ends
    BY DEF Ends, Unread, NotInitialized, InvalidParameters
<1> QED
    BY <1>1, <1>2, <1>3 DEF Announced

LEMMA EndAnnounced ==
    ASSUME Inv, pc # "returned", NEW e \in Ends, Post(EndEvent(e)), UNCHANGED UnseenVars
    PROVE  \A end \in Ends : Announced(end)' <=> end = e
<1>1. /\ EndEvent(e) \in Functors /\ EndEvent(e).call = "EndCalibration" /\ EndEvent(e).arg = e
    BY FunctorFacts
<1>2. /\ Len(events) \in Nat /\ DOMAIN events = 1 .. Len(events) /\ DOMAIN events' = 1 .. Len(events) + 1
      /\ events'[Len(events) + 1] = EndEvent(e) /\ \A i \in 1 .. Len(events) : events'[i] = events[i]
    BY <1>1, Appended DEF Inv, TypeOK, Post
<1>3. \A i \in DOMAIN events' : Finishes(events', i) => i = Len(events) + 1
    BY <1>2 DEF Finishes, Inv, History
<1>4. Len(events) + 1 \in DOMAIN events' /\ Finishes(events', Len(events) + 1)
    BY <1>1, <1>2 DEF Finishes
<1>5. \A end \in Ends : result' # end
    BY NotYetAnnounced DEF UnseenVars, Ends, Unread, NotInitialized, InvalidParameters
<1> QED
    BY <1>1, <1>2, <1>3, <1>4, <1>5 DEF Announced

LEMMA RunAnnounced ==
    ASSUME Inv, RunFunctor
    PROVE  \A end \in Ends : Announced(end)' <=> Announced(end)
<1>1. /\ 1 \in DOMAIN events /\ Head(events) = events[1] /\ result = "none"
      /\ \A i \in DOMAIN events' : i + 1 \in DOMAIN events /\ events'[i] = events[i + 1]
      /\ \A i \in DOMAIN events : i = 1 \/ (i - 1 \in DOMAIN events' /\ events'[i - 1] = events[i])
    BY RunFinds
<1>2. \A end \in Ends : result # end
    BY <1>1 DEF Ends, Unread, NotInitialized, InvalidParameters
<1>3. CASE EndCalibration
    <2>1. Finishes(events, 1) /\ result' = events[1].arg
        BY <1>1, <1>3 DEF EndCalibration, Due, Finishes
    <2>2. Len(events) = 1
        BY <1>1, <2>1 DEF Inv, History
    <2>3. DOMAIN events' = {} /\ DOMAIN events = {1}
        BY <2>2, RunFinds
    <2> QED
        BY <1>2, <2>1, <2>3 DEF Announced
<1>4. CASE ~EndCalibration
    <2>1. ~Finishes(events, 1) /\ result' = result
        BY <1>1, <1>4 DEF RunFunctor, AddExtractionItem, StartCalibration, Due, Finishes
    <2>2. ASSUME NEW end \in Ends, Announced(end)
          PROVE  Announced(end)'
        <3>1. PICK i \in DOMAIN events : Finishes(events, i) /\ events[i].arg = end
            BY <1>2, <2>2 DEF Announced
        <3>2. i - 1 \in DOMAIN events' /\ events'[i - 1] = events[i]
            BY <1>1, <2>1, <3>1
        <3> QED
            BY <3>1, <3>2 DEF Announced, Finishes
    <2>3. ASSUME NEW end \in Ends, Announced(end)'
          PROVE  Announced(end)
        <3>1. PICK i \in DOMAIN events' : Finishes(events', i) /\ events'[i].arg = end
            BY <1>2, <2>1, <2>3 DEF Announced
        <3> QED
            BY <1>1, <3>1 DEF Announced, Finishes
    <2> QED
        BY <2>2, <2>3
<1> QED
    BY <1>3, <1>4

\* A result that is shown is the one that was announced.
LEMMA ResultIsLast ==
    ASSUME Inv, result # "none"
    PROVE  /\ result \in Ends /\ pc = "returned" /\ DOMAIN events = {}
           /\ \A end \in Ends : Announced(end) <=> result = end
<1>1. calibration_ended_ /\ result \in Ends
    BY DEF Inv, TypeOK, History
<1>2. pc = "returned" /\ events = <<>>
    BY <1>1 DEF Inv, History
<1>3. DOMAIN events = {}
    BY <1>2
<1> QED
    BY <1>1, <1>2, <1>3 DEF Announced

\* The worker's steps within Run announce nothing, nor do they return.
LEMMA Within ==
    ASSUME Inv, Construct \/ Setup \/ ReadBoth \/ (\E s \in Sides : SkipFile(s)) \/ PairImages
                \/ BeginCalibration,
           UNCHANGED UnseenVars
    PROVE  /\ pc # "returned" /\ pc' # "returned" /\ UNCHANGED <<success, options_, dirs>>
           /\ \A end \in Ends : ~Announced(end)'
<1>1. /\ pc # "returned" /\ pc' # "returned" /\ UNCHANGED <<success, options_, dirs>>
      /\ \/ UNCHANGED events
         \/ Post(ItemEvent(data)) \/ Post(StartEvent)
    BY DEF Construct, Setup, ReadBoth, SkipFile, PairImages, BeginCalibration
<1>2. CASE UNCHANGED events
    BY <1>1, <1>2, NotYetAnnounced DEF Announced, Finishes, UnseenVars
<1>3. ASSUME NEW e \in Functors, Post(e), e.call # "EndCalibration"
      PROVE  \A end \in Ends : ~Announced(end)'
    <2>1. History' /\ \A i \in DOMAIN events' : ~Finishes(events', i)
        <3>1. /\ Len(events) \in Nat /\ DOMAIN events = 1 .. Len(events)
              /\ DOMAIN events' = 1 .. Len(events) + 1
              /\ events'[Len(events) + 1] = e /\ \A i \in 1 .. Len(events) : events'[i] = events[i]
            BY <1>3, Appended DEF Inv, TypeOK, Post
        <3>2. \A i \in DOMAIN events : ~Finishes(events, i)
            BY <1>1 DEF Inv, History
        <3>3. \A i \in DOMAIN events' : ~Finishes(events', i)
            BY <1>3, <3>1, <3>2 DEF Finishes
        <3> QED
            BY <1>1, <1>3, <3>3, Posting
    <2> QED
        BY <1>1, <2>1, NotYetAnnounced DEF Announced, UnseenVars
<1>4. /\ ItemEvent(data) \in Functors /\ ItemEvent(data).call # "EndCalibration"
      /\ StartEvent \in Functors /\ StartEvent.call # "EndCalibration"
    BY FunctorFacts DEF Inv, TypeOK
<1> QED
    BY <1>1, <1>2, <1>3, <1>4

-----------------------------------------------------------------------------
(* The readers *)

LEMMA InitOpened == Init => Opened
BY DEF Init, Opened, At, NoReader

\* What a turn does to one side's reader.
LEMMA SideTurns ==
    ASSUME TypeOK, Opened, pc \in {"read", "skip"}, NEW s \in Sides, HasNext(readers[s]),
           readers'[s] = AfterNext(readers[s])
    PROVE  /\ At(s) \in Nat /\ At(s)' = At(s) + 1 /\ At(s) + 1 \in DOMAIN dirs[s]
           /\ readers'[s].image_paths_ = dirs[s] /\ readers'[s].image_size_ = readers[s].image_size_
           /\ Data(s).file = At(s) + 1
           /\ Data(s).status = "READ_ERROR" <=> At(s) + 1 \notin ReadableFiles(dirs[s])
           /\ At(s) + 1 \in ReadableFiles(dirs[s]) => Data(s).status = Label(s, At(s) + 1)
<1>1. readers[s] \in Readers /\ readers[s].image_paths_ = dirs[s] /\ readers[s].image_size_ # NoSize
    BY DEF TypeOK, Opened
<1>2. /\ At(s) \in Nat /\ At(s)' = At(s) + 1 /\ At(s) + 1 \in DOMAIN dirs[s]
      /\ readers'[s].image_paths_ = dirs[s] /\ readers'[s].image_size_ = readers[s].image_size_
      /\ Data(s).file = At(s) + 1 /\ Data(s).status = ItemStatus(readers[s])
    BY <1>1, ReaderAdvanced, TurnType DEF At
<1>3. At(s) + 1 \in ReadableFiles(dirs[s]) <=> Readable(dirs[s][At(s) + 1])
    BY <1>2 DEF ReadableFiles
<1>4. ItemStatus(readers[s]) = "READ_ERROR" <=> ~Readable(dirs[s][At(s) + 1])
    BY <1>1, ReaderAdvanced DEF At
<1>5. Readable(dirs[s][At(s) + 1]) => ItemStatus(readers[s]) = Label(s, At(s) + 1)
    BY <1>1, ReaderAdvanced DEF At, Label
<1> QED
    BY <1>2, <1>3, <1>4, <1>5

\* Once the set-up is over nothing changes what a file's label is.
LEMMA LabelsStay ==
    ASSUME Inv, Opened, [Next]_vars, pc \in {"read", "skip", "calibrate", "returned"}
    PROVE  /\ dirs' = dirs /\ target_visualizer_' = target_visualizer_
           /\ \A s \in Sides : /\ readers'[s].image_size_ = readers[s].image_size_
                               /\ readers'[s].image_paths_ = readers[s].image_paths_
                               /\ \A k : Label(s, k)' = Label(s, k)
<1>1. /\ dirs' = dirs /\ target_visualizer_' = target_visualizer_
      /\ \A s \in Sides : /\ readers'[s].image_size_ = readers[s].image_size_
                          /\ readers'[s].image_paths_ = readers[s].image_paths_
    <2>1. CASE ReadBoth
        BY <2>1, SideTurns DEF ReadBoth, Inv, Opened
    <2>2. ASSUME NEW t \in Sides, SkipFile(t)
          PROVE  /\ dirs' = dirs /\ target_visualizer_' = target_visualizer_
                 /\ \A s \in Sides : /\ readers'[s].image_size_ = readers[s].image_size_
                                     /\ readers'[s].image_paths_ = readers[s].image_paths_
        <3>1. readers'[t] = AfterNext(readers[t]) /\ HasNext(readers[t])
              /\ \A s \in Sides : s # t => readers'[s] = readers[s]
            BY <2>2 DEF SkipFile, MustSkip, Inv, TypeOK
        <3> QED
            BY <2>2, <3>1, SideTurns DEF SkipFile, Inv, Opened
    <2>3. CASE Worker /\ ~ReadBoth /\ ~(\E s \in Sides : SkipFile(s))
        BY <2>3 DEF Worker, Construct, Setup, PairImages, BeginCalibration, RefuseDirectories,
                    FailExtraction, RefuseToCalibrate, Calibrate
    <2>4. CASE EventLoop \/ UNCHANGED vars
        BY <2>4 DEF EventLoop, RunFunctor, AddExtractionItem, StartCalibration, EndCalibration,
                    vars, workerVars
    <2> QED
        BY <2>1, <2>2, <2>3, <2>4 DEF Next, Worker
<1> QED
    BY <1>1 DEF Label

LEMMA NextOpened == ASSUME Inv, Opened, [Next]_vars PROVE Opened'
<1>1. CASE pc \in {"read", "skip", "calibrate", "returned"}
    <2>1. pc' \in {"read", "skip", "calibrate", "returned"}
        BY <1>1 DEF Next, Worker, Construct, Setup, ReadBoth, SkipFile, PairImages, BeginCalibration,
            RefuseDirectories, FailExtraction, RefuseToCalibrate, Calibrate, Catch, Return,
            EventLoop, vars, workerVars
    <2>2. pc = "returned" => pc' = "returned"
        BY DEF Next, Worker, Construct, Setup, ReadBoth, SkipFile, PairImages, BeginCalibration,
            RefuseDirectories, FailExtraction, RefuseToCalibrate, Calibrate, EventLoop, vars, workerVars
    <2> QED
        BY <1>1, <2>1, <2>2, LabelsStay DEF Opened
<1>2. CASE Construct
    <2>1. pc' = "terminated" \/ \A s \in Sides : readers'[s] \in NewReaders(dirs[s])
        BY <1>2 DEF Construct
    <2>2. pc' = "terminated" \/ \A s \in Sides : readers'[s].image_paths_ = dirs[s] /\ readers'[s].file_index_ = 0
        BY <2>1, ReaderConstructed DEF Inv, TypeOK
    <2> QED
        BY <1>2, <2>2 DEF Construct, Opened, At
<1>3. CASE Setup
    BY <1>3 DEF Setup, SetTargetVisualizer, Opened
<1>4. CASE RefuseDirectories
    BY <1>4 DEF RefuseDirectories, Catch, Return, Opened
<1>5. CASE UNCHANGED vars \/ EventLoop
    BY <1>5 DEF vars, EventLoop, workerVars, Opened, At, RunFunctor, AddExtractionItem,
                StartCalibration, EndCalibration
<1> QED
    BY <1>1, <1>2, <1>3, <1>4, <1>5 DEF Next, Worker, ReadBoth, SkipFile, PairImages, BeginCalibration,
        FailExtraction, RefuseToCalibrate, Calibrate

LEMMA OpenedAlways == Spec => []Opened
<1>1. Inv /\ Opened /\ [Next]_vars => Opened'
    BY NextOpened
<1> QED
    BY <1>1, InitOpened, Invariance, PTL DEF Spec

-----------------------------------------------------------------------------
(* The cameras *)

LEMMA InitCameras == Init => Returned /\ Cameras /\ Refused
<1> SUFFICES ASSUME Init PROVE Returned /\ Cameras /\ Refused
    OBVIOUS
<1>1. events = <<>> /\ result = "none"
    BY DEF Init, WidgetInit
<1>2. ~Announced("calibration") /\ ~Announced(NotInitialized) /\ ~Announced(InvalidParameters)
    BY <1>1 DEF Announced, NotInitialized, InvalidParameters
<1>3. pc = "start" /\ success = "none" /\ options_ \in Options /\ cameras = [s \in Sides |-> NoCamera]
    BY DEF Init
<1> QED
    BY <1>2, <1>3 DEF Returned, Cameras, NoCamera, Refused

\* Nothing but Setup and Calibrate writes a camera.
LEMMA CamerasKept ==
    ASSUME Cameras, UNCHANGED <<options_, cameras, image_size, success>>,
           success = "true" => UNCHANGED images,
           pc' = "returned" \/ pc' = pc \/ (pc \in {"read", "skip", "calibrate"} /\ pc' \in {"read", "skip", "calibrate"}),
           \A s \in Sides : readers'[s].image_size_ = readers[s].image_size_
    PROVE  Cameras'
<1>1. options_' \in Options
    BY DEF Cameras
<1>2. pc' \in {"start", "setup", "terminated"} => cameras' = [s \in Sides |-> NoCamera]
    BY DEF Cameras
<1>3. ASSUME pc' \in {"read", "skip", "calibrate"}
      PROVE  /\ cameras' = [s \in Sides |-> IF s \in options_'.given
                                            THEN [size |-> readers'[s].image_size_, params |-> "given"]
                                            ELSE NoCamera]
             /\ image_size' = [s \in Sides |-> IF s \in options_'.given THEN NoSize
                                               ELSE readers'[1].image_size_]
    BY <1>3 DEF Cameras, Sides
<1>4. options_'.estimate_pose_only => \A s \in Sides : cameras'[s].params \in {"invalid", "given"}
    BY DEF Cameras
<1>5. ASSUME success' = "true", NEW s \in Sides
      PROVE  /\ cameras'[s].size = readers'[IF UseGuess' THEN s ELSE 1].image_size_
             /\ cameras'[s].params = IF options_'.estimate_pose_only THEN "given" ELSE "calibrated"
    BY <1>5 DEF Cameras, UseGuess, Sides
<1>6. success' = "true" => EnoughViews'
    BY DEF Cameras, EnoughViews, UseGuess
<1> QED
    BY <1>1, <1>2, <1>3, <1>4, <1>5, <1>6 DEF Cameras

\* What StereoCalibrator::Calibrate starts from once it has refused nothing.
LEMMA PreparedFit ==
    ASSUME Cameras, Calibrate, NEW s \in Sides
    PROVE  /\ Prepared(s).size = readers[IF UseGuess THEN s ELSE 1].image_size_
           /\ options_.estimate_pose_only => Prepared(s).params = "given"
           /\ Prepared(s) = [size |-> Prepared(s).size, params |-> Prepared(s).params]
<1>1. pc = "calibrate" /\ Refusals = {}
    BY DEF Calibrate
<1>2. /\ cameras[s] = IF s \in options_.given
                      THEN [size |-> readers[s].image_size_, params |-> "given"] ELSE NoCamera
      /\ image_size[s] = IF s \in options_.given THEN NoSize ELSE readers[1].image_size_
      /\ options_.given \subseteq Sides /\ (options_.estimate_pose_only => options_.given = Sides)
    BY <1>1 DEF Cameras, Options
<1>3. CASE UseGuess
    <2>1. cameras[s].params # "invalid"
        BY <1>1, <1>3 DEF Refusals
    <2>2. s \in options_.given
        BY <1>2, <2>1 DEF NoCamera
    <2> QED
        BY <1>2, <1>3, <2>2 DEF Prepared
<1>4. CASE ~UseGuess
    BY <1>2, <1>4 DEF Prepared, UseGuess
<1> QED
    BY <1>3, <1>4

\* Where its two stages leave the cameras.
LEMMA StagesFit ==
    ASSUME Cameras, Calibrate, NEW s \in Sides
    PROVE  /\ Joint(s).size = readers[IF UseGuess THEN s ELSE 1].image_size_
           /\ Joint(s).params = IF options_.estimate_pose_only THEN "given" ELSE "calibrated"
           /\ options_.estimate_pose_only =>
                 /\ Separate(s).params = "given"
                 /\ \A c \in Interrupted(s) : c.params = "given"
<1>1. CASE options_.estimate_pose_only
    <2>1. UseGuess
        BY <1>1 DEF Cameras, Options, UseGuess, Sides
    <2>2. Joint(s) = Prepared(s) /\ Separate(s) = Prepared(s) /\ Interrupted(s) = {Prepared(s)}
        BY <1>1, <2>1 DEF Joint, Separate, Interrupted
    <2> QED
        BY <1>1, <2>2, PreparedFit
<1>2. CASE ~options_.estimate_pose_only
    <2>1. PICK n, v : Prepared(s) = [size |-> n, params |-> v]
        BY PreparedFit
    <2>2. Joint(s) = With(With([size |-> n, params |-> v], "separate"), "calibrated")
        BY <1>2, <2>1 DEF Joint, Separate
    <2>3. With([size |-> n, params |-> v], "separate") = [size |-> n, params |-> "separate"]
        BY DEF With
    <2>4. With([size |-> n, params |-> "separate"], "calibrated") = [size |-> n, params |-> "calibrated"]
        BY DEF With
    <2>5. Joint(s) = [size |-> n, params |-> "calibrated"]
        BY <2>2, <2>3, <2>4
    <2>6. n = readers[IF UseGuess THEN s ELSE 1].image_size_
        BY <2>1, PreparedFit
    <2> QED
        BY <1>2, <2>5, <2>6
<1> QED
    BY <1>1, <1>2

LEMMA HalfWayFits ==
    ASSUME Cameras, Calibrate, options_.estimate_pose_only, NEW c \in HalfWay, NEW s \in Sides
    PROVE  c[s].params = "given"
<1>1. ASSUME NEW r \in Sides
      PROVE  /\ Prepared(r).params = "given" /\ Separate(r).params = "given"
             /\ \A d \in Interrupted(r) : d.params = "given"
    BY PreparedFit, StagesFit
<1>2. PICK d \in Interrupted(1) \cup Interrupted(2) :
          \/ d \in Interrupted(1) /\ c = [r \in Sides |-> IF r = 1 THEN d ELSE Prepared(r)]
          \/ d \in Interrupted(2) /\ c = [r \in Sides |-> IF r = 1 THEN Separate(r) ELSE d]
    BY DEF HalfWay
<1>3. d.params = "given"
    BY <1>1, <1>2 DEF Sides
<1> QED
    BY <1>1, <1>2, <1>3

LEMMA NextCameras ==
    ASSUME Inv, Opened, Returned, Cameras, [Next]_vars
    PROVE  Returned' /\ Cameras'
<1>1. CASE UNCHANGED vars \/ EventLoop
    <2>1. UNCHANGED workerVars /\ (UNCHANGED vars \/ RunFunctor)
        BY <1>1 DEF vars, EventLoop
    <2>2. Announced("calibration")' <=> Announced("calibration")
        <3>1. CASE UNCHANGED vars
            BY <3>1 DEF vars, widgetVars, Announced, Finishes
        <3>2. CASE RunFunctor
            BY <3>2, RunAnnounced DEF Ends
        <3> QED
            BY <2>1, <3>1, <3>2
    <2>3. Cameras'
        BY <2>1, CamerasKept DEF workerVars
    <2> QED
        BY <2>1, <2>2, <2>3 DEF Returned, workerVars
<1>2. ASSUME Worker,
             Construct \/ Setup \/ ReadBoth \/ (\E s \in Sides : SkipFile(s)) \/ PairImages \/ BeginCalibration
      PROVE  Returned' /\ Cameras'
    <2>1. UNCHANGED UnseenVars
        BY <1>2 DEF Worker, widgetVars, UnseenVars
    <2>2. /\ pc # "returned" /\ pc' # "returned" /\ UNCHANGED <<success, options_>>
          /\ ~Announced("calibration")'
        BY <1>2, <2>1, Within DEF Ends
    <2>3. success = "none" /\ Returned'
        BY <2>2 DEF Returned
    <2>4. CASE Construct
        BY <2>2, <2>3, <2>4 DEF Construct, Cameras, NoCamera
    <2>5. CASE Setup
        <3>1. /\ pc' = "read" /\ UNCHANGED readers
              /\ cameras' = [s \in Sides |-> IF s \in options_.given
                                THEN [size |-> readers[s].image_size_, params |-> "given"] ELSE NoCamera]
              /\ image_size' = [s \in Sides |->
                         IF s \in options_.given THEN NoSize ELSE readers[1].image_size_]
            BY <2>5 DEF Setup
        <3>2. \A s \in Sides : cameras'[s].params \in {"invalid", "given"}
            BY <3>1 DEF NoCamera
        <3> QED
            BY <2>2, <2>3, <3>1, <3>2 DEF Cameras
    <2>6. CASE ReadBoth \/ (\E s \in Sides : SkipFile(s)) \/ PairImages \/ BeginCalibration
        <3>1. /\ pc \in {"read", "skip"} /\ pc' \in {"read", "skip", "calibrate"}
              /\ UNCHANGED <<cameras, image_size>>
            BY <2>6 DEF ReadBoth, SkipFile, PairImages, BeginCalibration
        <3>2. \A s \in Sides : readers'[s].image_size_ = readers[s].image_size_
            BY <3>1, LabelsStay
        <3> QED
            BY <2>2, <2>3, <3>1, <3>2, CamerasKept
    <2> QED
        BY <1>2, <2>3, <2>4, <2>5, <2>6
<1>3. ASSUME Worker, RefuseDirectories \/ FailExtraction \/ RefuseToCalibrate \/ Calibrate
      PROVE  Returned' /\ Cameras'
    <2>1. PICK end \in Ends :
              /\ Post(EndEvent(end)) /\ success' = IF end = "calibration" THEN "true" ELSE "false"
              /\ \/ end = "Could not find any image files!" /\ RefuseDirectories
                 \/ end = "extraction failed" /\ FailExtraction
                 \/ end \in Ends \ (Unread \cup {"calibration"}) /\ pc = "calibrate"
                 \/ end = "calibration" /\ Calibrate
        BY <1>3, Exits
    <2>2. /\ pc \in {"setup", "read", "skip", "calibrate"} /\ pc' = "returned"
          /\ UNCHANGED <<options_, readers, UnseenVars>>
        BY <1>3, Exits DEF Worker, widgetVars, UnseenVars
    <2>3. Announced("calibration")' <=> end = "calibration"
        BY <2>1, <2>2, EndAnnounced DEF Ends
    <2>4. Returned'
        BY <2>1, <2>2, <2>3 DEF Returned
    <2>5. CASE Calibrate
        <3>1. success' = "true" \/ success' = "false"
            BY <2>1
        <3>2. CASE EnoughViews /\ Return("true") /\ cameras' = [s \in Sides |-> Joint(s)]
            <4>1. ASSUME NEW s \in Sides
                  PROVE  /\ cameras'[s].size = readers[IF UseGuess THEN s ELSE 1].image_size_
                         /\ cameras'[s].params = IF options_.estimate_pose_only THEN "given" ELSE "calibrated"
                BY <2>5, <3>2, StagesFit
            <4>2. UseGuess' = UseGuess /\ EnoughViews'
                BY <2>2, <2>5, <3>2 DEF UseGuess, EnoughViews, Calibrate
            <4>3. options_' \in Options /\ pc' = "returned" /\ UNCHANGED <<options_, readers>>
                BY <2>2 DEF Cameras
            <4>4. options_'.estimate_pose_only => \A s \in Sides : cameras'[s].params \in {"invalid", "given"}
                BY <4>1, <4>3
            <4>5. ASSUME NEW s \in Sides
                  PROVE  /\ cameras'[s].size = readers'[IF UseGuess' THEN s ELSE 1].image_size_
                         /\ cameras'[s].params = IF options_'.estimate_pose_only THEN "given" ELSE "calibrated"
                BY <4>1, <4>2, <4>3
            <4> QED
                BY <2>4, <4>2, <4>3, <4>4, <4>5 DEF Cameras
        <3>3. CASE Catch("calibration failed") /\ cameras' \in HalfWay
            <4>1. options_.estimate_pose_only => \A s \in Sides : cameras'[s].params = "given"
                BY <2>5, <3>3, HalfWayFits
            <4>2. success' = "false"
                BY <3>3 DEF Catch, Return
            <4> QED
                BY <2>2, <2>4, <4>1, <4>2 DEF Cameras
        <3> QED
            BY <2>5, <3>2, <3>3 DEF Calibrate
    <2>6. CASE RefuseDirectories \/ FailExtraction \/ RefuseToCalibrate
        <3>1. UNCHANGED <<cameras, image_size>> /\ success' = "false"
            BY <2>6 DEF RefuseDirectories, FailExtraction, RefuseToCalibrate, Catch, Return
        <3> QED
            BY <2>2, <2>4, <3>1 DEF Cameras
    <2> QED
        BY <1>3, <2>4, <2>5, <2>6
<1> QED
    BY <1>1, <1>2, <1>3 DEF Next, Worker

\* What is refused for its parameters does not go together.
LEMMA RefusalFits ==
    ASSUME Cameras, pc = "calibrate", NEW m \in Refusals, m \in {NotInitialized, InvalidParameters}
    PROVE  Cardinality(options_.given) = 1 \/ options_.models_differ
<1>1. /\ UseGuess
      /\ (\E s \in Sides : cameras[s].params = "invalid") \/ options_.models_differ
    BY DEF Refusals, NotInitialized, InvalidParameters
<1>2. ASSUME NEW s \in Sides, cameras[s].params = "invalid"
      PROVE  Cardinality(options_.given) = 1
    <2>1. s \notin options_.given /\ options_.given \subseteq Sides
        BY <1>2 DEF Cameras, Options
    <2>2. options_.given = {1} \/ options_.given = {2}
        BY <1>1, <2>1 DEF UseGuess, Sides
    <2> QED
        BY <2>2, FS_Singleton
<1> QED
    BY <1>1, <1>2

LEMMA NextRefused ==
    ASSUME Inv, Opened, Cameras, Refused, [Next]_vars
    PROVE  Refused'
<1>0. {NotInitialized, InvalidParameters} \subseteq Ends
    BY DEF Ends
<1>1. CASE UNCHANGED vars
    BY <1>1 DEF vars, workerVars, widgetVars, Refused, Announced, Finishes
<1>2. CASE EventLoop
    <2>1. RunFunctor /\ UNCHANGED options_
        BY <1>2 DEF EventLoop, workerVars
    <2> QED
        BY <1>0, <2>1, RunAnnounced DEF Refused
<1>3. ASSUME Worker,
             Construct \/ Setup \/ ReadBoth \/ (\E s \in Sides : SkipFile(s)) \/ PairImages \/ BeginCalibration
      PROVE  Refused'
    <2>1. UNCHANGED UnseenVars
        BY <1>3 DEF Worker, widgetVars, UnseenVars
    <2>2. \A end \in Ends : ~Announced(end)'
        BY <1>3, <2>1, Within
    <2> QED
        BY <1>0, <2>2 DEF Refused
<1>4. ASSUME Worker, NEW e \in Ends, Post(EndEvent(e)), pc # "returned", UNCHANGED options_,
             e \in {NotInitialized, InvalidParameters} =>
                 Cardinality(options_.given) = 1 \/ options_.models_differ
      PROVE  Refused'
    <2>1. UNCHANGED UnseenVars
        BY <1>4 DEF Worker, widgetVars, UnseenVars
    <2>2. \A end \in Ends : Announced(end)' <=> end = e
        BY <1>4, <2>1, EndAnnounced
    <2> QED
        BY <1>0, <1>4, <2>2 DEF Refused
<1>5. CASE Worker /\ RefuseToCalibrate
    <2>1. PICK m \in Refusals : Catch(m)
        BY <1>5 DEF RefuseToCalibrate
    <2>2. m \in Ends
        BY DEF Refusals, Ends, Unread, NotInitialized, InvalidParameters
    <2>3. pc = "calibrate" /\ UNCHANGED options_
        BY <1>5 DEF RefuseToCalibrate
    <2> QED
        BY <1>4, <1>5, <2>1, <2>2, <2>3, RefusalFits DEF Catch
<1>6. CASE Worker /\ (RefuseDirectories \/ FailExtraction \/ Calibrate)
    <2>1. PICK e \in {"Could not find any image files!", "extraction failed",
                      "calibration failed", "calibration"} : Post(EndEvent(e))
        BY <1>6 DEF RefuseDirectories, FailExtraction, Calibrate, Catch
    <2>2. e \in Ends /\ e \notin {NotInitialized, InvalidParameters}
        BY DEF Ends, Unread, NotInitialized, InvalidParameters
    <2>3. pc # "returned" /\ UNCHANGED options_
        BY <1>6 DEF RefuseDirectories, FailExtraction, Calibrate
    <2> QED
        BY <1>4, <1>6, <2>1, <2>2, <2>3
<1> QED
    BY <1>1, <1>2, <1>3, <1>5, <1>6 DEF Next, Worker

LEMMA CamerasAlways == Spec => [](Returned /\ Cameras /\ Refused)
<1>1. Inv /\ Opened /\ (Returned /\ Cameras /\ Refused) /\ [Next]_vars
          => (Returned /\ Cameras /\ Refused)'
    BY NextCameras, NextRefused
<1> QED
    BY <1>1, InitCameras, Invariance, OpenedAlways, PTL DEF Spec

\* For any directories and options: Run's result is what the user sees; both
\* stages leave given parameters alone if only the pose is asked for, even when
\* they throw; shown cameras have the sizes of their own images but for the case
\* of line 126; and parameters are refused only if they do not go together.
THEOREM CamerasFit == Spec => []ShownCamerasFit
<1>1. ASSUME Inv, Returned, Cameras, Refused PROVE ShownCamerasFit
    <2>0. {"calibration", NotInitialized, InvalidParameters} \subseteq Ends
        BY DEF Ends
    <2>1. result # "none" => \A end \in Ends : Announced(end) <=> result = end
        BY <1>1, ResultIsLast
    <2>2. result # "none" => (success = "true" <=> result = "calibration")
        BY <1>1, <2>0, <2>1 DEF Returned
    <2>3. options_.estimate_pose_only => \A s \in Sides : cameras[s].params \in {"invalid", "given"}
        BY <1>1 DEF Cameras
    <2>4. ASSUME result = "calibration"
          PROVE  /\ EnoughViews
                 /\ \A s \in Sides :
                       cameras[s].params = IF options_.estimate_pose_only THEN "given" ELSE "calibrated"
                 /\ (UseGuess \/ readers[1].image_size_ = readers[2].image_size_) =>
                       \A s \in Sides : cameras[s].size = readers[s].image_size_
        BY <1>1, <2>2, <2>4 DEF Cameras, Sides
    <2>5. result \in {NotInitialized, InvalidParameters} =>
              Cardinality(options_.given) = 1 \/ options_.models_differ
        BY <1>1, <2>0, <2>1 DEF Refused, NotInitialized, InvalidParameters
    <2> QED
        BY <2>2, <2>3, <2>4, <2>5 DEF ShownCamerasFit
<1> QED
    BY <1>1, CamerasAlways, Invariance, PTL

-----------------------------------------------------------------------------
(* Ranks.  A side is done with the first so many of its readable files, so *)
(* the rank of a file tells whether it is one of them.                     *)

LEMMA Ranking ==
    ASSUME NEW R \in SUBSET Nat, IsFiniteSet(R), NEW D \in SUBSET R,
           \A d \in D, k \in R : k =< d => k \in D, NEW p \in R
    PROVE  /\ Cardinality(D) \in Nat /\ Cardinality({k \in R : k =< p}) \in Nat
           /\ p \in D => Cardinality({k \in R : k =< p}) =< Cardinality(D)
           /\ p \notin D => Cardinality({k \in R : k =< p}) >= Cardinality(D) + 1
           /\ p \notin D /\ (\A k \in R : k < p => k \in D) =>
                 Cardinality({k \in R : k =< p}) = Cardinality(D) + 1
<1> DEFINE U == {k \in R : k =< p}
<1>1. IsFiniteSet(D) /\ Cardinality(D) \in Nat
    BY FS_Subset, FS_CardinalityType
<1>2. U \in SUBSET R
    OBVIOUS
<1>3. IsFiniteSet(U) /\ Cardinality(U) \in Nat
    BY <1>2, FS_Subset, FS_CardinalityType
<1>4. ASSUME p \in D PROVE Cardinality(U) =< Cardinality(D)
    <2>1. U \in SUBSET D
        BY <1>4
    <2> QED
        BY <1>1, <2>1, FS_Subset
<1> HIDE DEF U
<1>5. ASSUME p \notin D
      PROVE  /\ D \cup {p} \in SUBSET U /\ IsFiniteSet(D \cup {p})
             /\ Cardinality(D \cup {p}) = Cardinality(D) + 1
    <2>1. \A d \in D : d \in Nat /\ p \in Nat /\ ~(p =< d)
        BY <1>5
    <2>2. \A d \in D : d \in U
        BY <2>1 DEF U
    <2>3. p \in U
        BY DEF U
    <2> QED
        BY <1>1, <1>5, <2>2, <2>3, FS_AddElement
<1>6. ASSUME p \notin D PROVE Cardinality(U) >= Cardinality(D) + 1
    <2>1. Cardinality(D \cup {p}) =< Cardinality(U)
        BY <1>3, <1>5, <1>6, FS_Subset
    <2> QED
        BY <1>1, <1>3, <1>5, <1>6, <2>1
<1>7. ASSUME p \notin D, \A k \in R : k < p => k \in D PROVE Cardinality(U) = Cardinality(D) + 1
    <2>1. U = D \cup {p}
        <3>1. \A k \in U : k \in R /\ (k < p \/ k = p)
            BY DEF U
        <3> QED
            BY <1>5, <1>7, <3>1
    <2> QED
        BY <1>5, <1>7, <2>1
<1> QED
    BY <1>1, <1>3, <1>4, <1>6, <1>7 DEF U

LEMMA DoneFirst ==
    ASSUME TypeOK, NEW s \in Sides
    PROVE  /\ ReadableFiles(dirs[s]) \in SUBSET (Nat \ {0}) /\ IsFiniteSet(ReadableFiles(dirs[s]))
           /\ \A k \in ReadableFiles(dirs[s]) : k =< Len(dirs[s])
           /\ Done(s) \in SUBSET ReadableFiles(dirs[s])
           /\ \A d \in Done(s), k \in ReadableFiles(dirs[s]) : k =< d => k \in Done(s)
           /\ At(s) \in Nat /\ Cardinality(Done(s)) \in Nat
<1>1. dirs[s] \in Seq(Files) /\ At(s) \in Nat
    BY DEF TypeOK, Readers, At
<1>2. Len(dirs[s]) \in Nat /\ DOMAIN dirs[s] = 1 .. Len(dirs[s])
    BY <1>1, LenProperties
<1>3. IsFiniteSet(1 .. Len(dirs[s]))
    BY <1>2, FS_Interval
<1>4. ReadableFiles(dirs[s]) \in SUBSET (1 .. Len(dirs[s]))
    BY <1>2 DEF ReadableFiles
<1>5. IsFiniteSet(ReadableFiles(dirs[s]))
    BY <1>3, <1>4, FS_Subset
<1>6. \A k \in 1 .. Len(dirs[s]) : k \in Nat \ {0} /\ k =< Len(dirs[s])
    BY <1>2
<1>7. Done(s) \in SUBSET ReadableFiles(dirs[s])
    BY DEF Done
<1>8. \A d \in Done(s), k \in ReadableFiles(dirs[s]) : k =< d => k \in Done(s)
    BY <1>1, <1>4, <1>6 DEF Done
<1>9. Cardinality(Done(s)) \in Nat
    BY <1>5, <1>7, FS_Subset, FS_CardinalityType
<1> QED
    BY <1>1, <1>4, <1>5, <1>6, <1>7, <1>8, <1>9

LEMMA DoneByRank ==
    ASSUME TypeOK, NEW s \in Sides, NEW k \in ReadableFiles(dirs[s])
    PROVE  /\ Rank(s, k) \in Nat
           /\ k \in Done(s) <=> Rank(s, k) =< Cardinality(Done(s))
           /\ k \notin Done(s) /\ (\A j \in ReadableFiles(dirs[s]) : j < k => j \in Done(s)) =>
                 Rank(s, k) = Cardinality(Done(s)) + 1
<1> DEFINE R == ReadableFiles(dirs[s])
           D == Done(s)
           C == Cardinality(D)
           U == Cardinality({j \in R : j =< k})
<1>1. /\ R \in SUBSET Nat /\ IsFiniteSet(R) /\ D \in SUBSET R
      /\ \A d \in D, j \in R : j =< d => j \in D
    BY DoneFirst
<1>2. k \in R /\ Rank(s, k) = U
    BY DEF Rank
<1> HIDE DEF R, D
<1>3. /\ C \in Nat /\ U \in Nat /\ (k \in D => U =< C) /\ (k \notin D => U >= C + 1)
      /\ k \notin D /\ (\A j \in R : j < k => j \in D) => U = C + 1
    BY <1>1, <1>2, Ranking
<1> HIDE DEF C, U
<1>4. k \in D <=> U =< C
    BY <1>3
<1> QED
    BY <1>2, <1>3, <1>4 DEF R, D, C

\* What is done on the side that is behind is done on both.
LEMMA DoneOnBoth ==
    ASSUME TypeOK, NEW p \in Pairs, NEW s \in Sides, p[s] \in Done(s),
           \A t \in Sides : Cardinality(Done(s)) =< Cardinality(Done(t))
    PROVE  AllDone(p)
<1> SUFFICES ASSUME NEW t \in Sides PROVE p[t] \in Done(t)
    BY DEF AllDone
<1>1. p[s] \in ReadableFiles(dirs[s]) /\ p[t] \in ReadableFiles(dirs[t]) /\ Rank(s, p[s]) = Rank(t, p[t])
    BY DEF Pairs, Sides
<1>2. /\ Rank(s, p[s]) =< Cardinality(Done(s)) /\ Rank(s, p[s]) \in Nat
      /\ Cardinality(Done(s)) \in Nat /\ Cardinality(Done(t)) \in Nat
    BY <1>1, DoneByRank, DoneFirst
<1>3. Rank(t, p[t]) =< Cardinality(Done(t))
    BY <1>1, <1>2
<1> QED
    BY <1>1, <1>3, DoneByRank

\* The images of a turn, when the sides are level, are a pair.
Turn == [s \in Sides |-> At(s)]

LEMMA TurnIsPair ==
    ASSUME TypeOK, Cardinality(Done(1)) = Cardinality(Done(2)),
           \A s \in Sides : Pending(s) /\ At(s) \in ReadableFiles(dirs[s])
    PROVE  Turn \in Pairs /\ \A p \in Pairs : AllDone(p) => \A s \in Sides : p[s] < At(s)
<1>1. ASSUME NEW s \in Sides
      PROVE  Rank(s, At(s)) = Cardinality(Done(s)) + 1 /\ \A k \in Done(s) : k < At(s)
    <2>1. At(s) \notin Done(s) /\ \A j \in ReadableFiles(dirs[s]) : j < At(s) => j \in Done(s)
        <3>1. At(s) \in Nat /\ \A j \in ReadableFiles(dirs[s]) : j \in Nat
            BY DoneFirst
        <3>2. \A j \in ReadableFiles(dirs[s]) : j < At(s) => j =< At(s) /\ j # At(s)
            BY <3>1
        <3> QED
            BY <3>2 DEF Done
    <2>2. \A k \in Done(s) : k =< At(s) /\ k # At(s) /\ k \in Nat /\ At(s) \in Nat
        BY DoneFirst DEF Done
    <2>3. \A k \in Done(s) : k < At(s)
        BY <2>2
    <2> QED
        BY <2>1, <2>3, DoneByRank
<1>2. \A s \in Sides : Turn[s] \in ReadableFiles(dirs[s])
    BY DEF Turn
<1>3. Rank(1, Turn[1]) = Rank(2, Turn[2])
    BY <1>1 DEF Turn, Sides
<1>4. Turn \in [Sides -> UNION {ReadableFiles(dirs[s]) : s \in Sides}]
    BY <1>2 DEF Turn
<1> QED
    BY <1>1, <1>2, <1>3, <1>4 DEF Pairs, AllDone

-----------------------------------------------------------------------------
(* How the steps move the sides on *)

\* What a pair, a truthful item and a finished pair are does not change but
\* for the progress of the sides.
LEMMA Stays ==
    ASSUME dirs' = dirs, \A s \in Sides : Done(s) \subseteq Done(s)',
           \A s \in Sides : \A k : Label(s, k)' = Label(s, k)
    PROVE  /\ Pairs' = Pairs /\ \A p : AllDone(p) => AllDone(p)'
           /\ \A p : Good(p)' <=> Good(p)
           /\ \A item : Truthful(item) => Truthful(item)'
<1>1. Pairs' = Pairs
    BY DEF Pairs, Rank
<1>2. \A p : AllDone(p) => AllDone(p)'
    BY DEF AllDone
<1>3. \A p : Good(p)' <=> Good(p)
    BY DEF Good
<1>4. ASSUME NEW item, Truthful(item) PROVE Truthful(item)'
    <2>1. FilesOf(item) \in Pairs' /\ AllDone(FilesOf(item))'
        BY <1>1, <1>2, <1>4 DEF Truthful
    <2> QED
        BY <1>4, <2>1 DEF Truthful, FilesOf
<1> QED
    BY <1>1, <1>2, <1>3, <1>4

\* A side that reads on is not done with the image it has read.
LEMMA SideReadsOn ==
    ASSUME TypeOK, Opened, pc \in {"read", "skip"}, pc' = "skip", dirs' = dirs,
           NEW s \in Sides, ~Pending(s), HasNext(readers[s]),
           readers'[s] = AfterNext(readers[s]), data'[s] = Data(s)
    PROVE  /\ Done(s)' = Done(s)
           /\ IF Pending(s)' THEN /\ data'[s].file = At(s)' /\ At(s)' \in ReadableFiles(dirs[s])
                                  /\ data'[s].status = Label(s, At(s))'
              ELSE At(s)' \notin ReadableFiles(dirs[s])
<1>1. /\ At(s) \in Nat /\ At(s)' = At(s) + 1
      /\ readers'[s].image_size_ = readers[s].image_size_
      /\ Data(s).file = At(s) + 1
      /\ Data(s).status = "READ_ERROR" <=> At(s) + 1 \notin ReadableFiles(dirs[s])
      /\ At(s) + 1 \in ReadableFiles(dirs[s]) => Data(s).status = Label(s, At(s) + 1)
    BY SideTurns
<1>2. Pending(s)' <=> At(s)' \in ReadableFiles(dirs[s])
    BY <1>1 DEF Pending
<1>3. \A k \in ReadableFiles(dirs[s]) : k =< At(s) + 1 /\ k # At(s) + 1 <=> k =< At(s)
    <2>1. \A k \in ReadableFiles(dirs[s]) : k \in Nat
        BY DoneFirst
    <2>2. \A a, k \in Nat : k =< a + 1 /\ k # a + 1 <=> k =< a
        OBVIOUS
    <2> QED
        BY <1>1, <2>1, <2>2
<1>4. Done(s)' = Done(s)
    <2>1. Done(s) = {k \in ReadableFiles(dirs[s]) : k =< At(s)}
        BY DEF Done
    <2>2. Done(s)' = {k \in ReadableFiles(dirs[s]) : k =< At(s) + 1 /\ k # At(s) + 1}
        BY <1>1, <1>2 DEF Done
    <2> QED
        BY <1>3, <2>1, <2>2
<1>5. ASSUME Pending(s)'
      PROVE  /\ data'[s].file = At(s)' /\ At(s)' \in ReadableFiles(dirs[s])
             /\ data'[s].status = Label(s, At(s))'
    BY <1>1, <1>2, <1>5 DEF Label
<1> QED
    BY <1>2, <1>4, <1>5

\* Reading and skipping finish no image.
LEMMA ReadingOn ==
    ASSUME Inv, Opened, Reading, Level, ReadBoth \/ \E s \in Sides : SkipFile(s)
    PROVE  /\ pc \in {"read", "skip"} /\ pc' = "skip"
           /\ UNCHANGED <<dirs, images, events, target_visualizer_>>
           /\ Reading' /\ Level' /\ \A s \in Sides : Done(s)' = Done(s)
<1>1. /\ pc \in {"read", "skip"} /\ pc' = "skip"
      /\ UNCHANGED <<dirs, images, events, target_visualizer_>>
    BY DEF ReadBoth, SkipFile
<1>2. ASSUME NEW s \in Sides
      PROVE  /\ Done(s)' = Done(s)
             /\ IF Pending(s)' THEN /\ data'[s].file = At(s)' /\ At(s)' \in ReadableFiles(dirs[s])
                                    /\ data'[s].status = Label(s, At(s))'
                ELSE At(s)' \notin ReadableFiles(dirs[s])
    <2>1. CASE ReadBoth
        <3>1. /\ HasNext(readers[s]) /\ ~Pending(s)
              /\ readers'[s] = AfterNext(readers[s]) /\ data'[s] = Data(s)
            BY <2>1 DEF ReadBoth, Pending
        <3> QED
            BY <1>1, <3>1, SideReadsOn DEF Inv
    <2>2. ASSUME NEW t \in Sides, SkipFile(t), s = t
          PROVE  /\ Done(s)' = Done(s)
                 /\ IF Pending(s)' THEN /\ data'[s].file = At(s)' /\ At(s)' \in ReadableFiles(dirs[s])
                                        /\ data'[s].status = Label(s, At(s))'
                    ELSE At(s)' \notin ReadableFiles(dirs[s])
        <3>1. /\ HasNext(readers[s]) /\ ~Pending(s)
              /\ readers'[s] = AfterNext(readers[s]) /\ data'[s] = Data(s)
            BY <2>2 DEF SkipFile, MustSkip, Pending, Inv, TypeOK, Items
        <3> QED
            BY <1>1, <3>1, SideReadsOn DEF Inv
    <2>3. ASSUME NEW t \in Sides, SkipFile(t), s # t
          PROVE  /\ Done(s)' = Done(s)
                 /\ IF Pending(s)' THEN /\ data'[s].file = At(s)' /\ At(s)' \in ReadableFiles(dirs[s])
                                        /\ data'[s].status = Label(s, At(s))'
                    ELSE At(s)' \notin ReadableFiles(dirs[s])
        <3>1. readers'[s] = readers[s] /\ data'[s] = data[s] /\ pc = "skip"
            BY <2>3 DEF SkipFile, Inv, TypeOK, Items
        <3>2. At(s)' = At(s) /\ (Pending(s)' <=> Pending(s)) /\ Label(s, At(s))' = Label(s, At(s))
            BY <1>1, <3>1 DEF At, Pending, Label
        <3>3. Done(s)' = Done(s)
            BY <1>1, <3>2 DEF Done
        <3> QED
            BY <3>1, <3>2, <3>3 DEF Reading
    <2> QED
        BY <2>1, <2>2, <2>3
<1>3. Reading'
    BY <1>1, <1>2 DEF Reading
<1>4. Cardinality(Done(1)) = Cardinality(Done(2))
    <2>1. CASE ReadBoth
        <3>1. pc = "read" /\ \A s \in Sides : ~Exhausted(s)
            BY <2>1 DEF ReadBoth, Exhausted
        <3> QED
            BY <3>1 DEF Level
    <2>2. CASE \E s \in Sides : SkipFile(s)
        BY <2>2 DEF Level, SkipFile
    <2> QED
        BY <2>1, <2>2
<1>5. Level'
    BY <1>1, <1>2, <1>4 DEF Level, Sides
<1> QED
    BY <1>1, <1>2, <1>3, <1>5

LEMMA SideTurned ==
    ASSUME TypeOK, Reading, NEW s \in Sides, pc = "skip", pc' = "read",
           UNCHANGED <<dirs, readers, data>>
    PROVE  Done(s)' = IF Pending(s) THEN Done(s) \cup {At(s)} ELSE Done(s)
<1>1. Done(s)' = {k \in ReadableFiles(dirs[s]) : k =< At(s)}
    BY DEF Done, At, Pending
<1>2. CASE Pending(s)
    <2>1. At(s) \in ReadableFiles(dirs[s]) /\ At(s) \in Nat
        BY <1>2, DoneFirst DEF Reading
    <2>2. Done(s) = {k \in ReadableFiles(dirs[s]) : k =< At(s) /\ k # At(s)}
        BY <1>2 DEF Done
    <2>3. At(s) =< At(s)
        BY <2>1
    <2> QED
        BY <1>1, <1>2, <2>1, <2>2, <2>3
<1>3. CASE ~Pending(s)
    BY <1>1, <1>3 DEF Done
<1> QED
    BY <1>2, <1>3

LEMMA TurnEnds ==
    ASSUME Inv, Opened, Reading, Level, PairImages
    PROVE  /\ pc = "skip" /\ pc' = "read" /\ UNCHANGED <<dirs, readers, data, target_visualizer_>>
           /\ Reading' /\ Level' /\ \A s \in Sides : Done(s) \subseteq Done(s)'
           /\ \A s \in Sides : \A k : Label(s, k)' = Label(s, k)
           /\ \/ UNCHANGED <<images, events>> /\ \A p \in Pairs : AllDone(p)' => AllDone(p)
              \/ /\ Turn \in Pairs /\ FilesOf(data) = Turn /\ Post(ItemEvent(data))
                 /\ \A s \in Sides : Turn[s] \in Done(s)' /\ data[s].status = Label(s, Turn[s])
                 /\ \A p \in Pairs : AllDone(p)' => AllDone(p) \/ p = Turn
                 /\ \A p \in Pairs : AllDone(p) => \A s \in Sides : p[s] < Turn[s]
                 /\ images' = IF Good(Turn) THEN [s \in Sides |-> Append(images[s], Turn[s])] ELSE images
<1>1. /\ pc = "skip" /\ pc' = "read" /\ UNCHANGED <<dirs, readers, data, target_visualizer_>>
      /\ Cardinality(Done(1)) = Cardinality(Done(2)) /\ TypeOK
    BY DEF PairImages, Level, Inv
<1>3. \A s \in Sides : Done(s)' = IF Pending(s) THEN Done(s) \cup {At(s)} ELSE Done(s)
    BY <1>1, SideTurned
<1>4. \A s \in Sides : \A k : Label(s, k)' = Label(s, k)
    BY <1>1 DEF Label
<1>5. Reading'
    BY <1>1 DEF Reading
<1>6. ASSUME NEW p \in Pairs, NEW s \in Sides, p[s] \in Done(s) PROVE AllDone(p)
    BY <1>1, <1>6, DoneFirst, DoneOnBoth DEF Sides
<1>7. CASE \E s \in Sides : data[s].status = "READ_ERROR"
    <2>1. PICK s \in Sides : data[s].status = "READ_ERROR"
        BY <1>7
    <2>2. UNCHANGED <<images, events>> /\ ~MustSkip(s)
        BY <2>1 DEF PairImages
    <2>3. Exhausted(s)' /\ Done(s)' = Done(s)
        BY <1>1, <1>3, <2>1, <2>2 DEF MustSkip, Exhausted, Pending
    <2>4. ASSUME NEW p \in Pairs, AllDone(p)' PROVE AllDone(p)
        <3>1. p[s] \in Done(s)
            BY <2>3, <2>4 DEF AllDone
        <3> QED
            BY <1>6, <3>1
    <2>5. ASSUME NEW t \in Sides PROVE Cardinality(Done(s)') =< Cardinality(Done(t)')
        <3>1. Done(t) \in SUBSET (Done(t)')
            BY <1>3
        <3>2. IsFiniteSet(Done(t)')
            <4>1. IsFiniteSet(Done(t))
                BY <1>1, DoneFirst, FS_Subset
            <4>2. Done(t)' = Done(t) \/ Done(t)' = Done(t) \cup {At(t)}
                BY <1>3
            <4> QED
                BY <4>1, <4>2, FS_AddElement
        <3>3. Cardinality(Done(t)) =< Cardinality(Done(t)')
            BY <3>1, <3>2, FS_Subset
        <3>4. Cardinality(Done(s)) = Cardinality(Done(t))
            BY <1>1 DEF Sides
        <3> QED
            BY <2>3, <3>3, <3>4
    <2>6. Level'
        BY <1>1, <2>3, <2>5 DEF Level
    <2> QED
        BY <1>1, <1>3, <1>4, <1>5, <2>2, <2>4, <2>6
<1>8. CASE \A s \in Sides : data[s].status # "READ_ERROR"
    <2>1. /\ Post(ItemEvent(data))
          /\ images' = IF Found THEN [s \in Sides |-> Append(images[s], data[s].file)] ELSE images
        BY <1>8 DEF PairImages
    <2>2. \A s \in Sides : /\ Pending(s) /\ At(s) \in ReadableFiles(dirs[s]) /\ data[s].file = At(s)
                           /\ data[s].status = Label(s, At(s))
        BY <1>1, <1>8 DEF Pending, Reading
    <2>3. Turn \in Pairs /\ \A p \in Pairs : AllDone(p) => \A s \in Sides : p[s] < At(s)
        BY <1>1, <2>2, TurnIsPair
    <2>4. /\ \A s \in Sides : Turn[s] = At(s) /\ Done(s)' = Done(s) \cup {At(s)}
          /\ FilesOf(data) = Turn
        BY <1>3, <2>2 DEF Turn, FilesOf
    <2>5. ASSUME NEW p \in Pairs, AllDone(p)', ~AllDone(p) PROVE p = Turn
        <3>1. \A s \in Sides : p[s] \notin Done(s)
            BY <1>6, <2>5
        <3>2. \A s \in Sides : p[s] = Turn[s]
            BY <2>4, <2>5, <3>1 DEF AllDone
        <3> QED
            BY <3>2 DEF Pairs, Turn
    <2>6. Found <=> Good(Turn)
        BY <2>2, <2>4 DEF Found, Good
    <2>7. images' = IF Good(Turn) THEN [s \in Sides |-> Append(images[s], Turn[s])] ELSE images
        BY <2>1, <2>2, <2>4, <2>6
    <2>8. ASSUME NEW s \in Sides PROVE Cardinality(Done(s)') = Cardinality(Done(s)) + 1
        <3>1. At(s) \notin Done(s)
            BY <2>2 DEF Done
        <3>2. IsFiniteSet(Done(s))
            BY <1>1, DoneFirst, FS_Subset
        <3> QED
            BY <2>4, <3>1, <3>2, FS_AddElement
    <2>9. Level'
        BY <1>1, <2>8 DEF Level, Sides
    <2> QED
        BY <1>1, <1>3, <1>4, <1>5, <2>1, <2>2, <2>3, <2>4, <2>5, <2>7, <2>9
<1> QED
    BY <1>7, <1>8

-----------------------------------------------------------------------------
(* The queue and the view *)

\* Functors that show no item leave the items' order alone.
LEMMA OthersPosted ==
    ASSUME TypeOK, Ordered, NEW e \in Functors, e.call # "AddExtractionItem", Post(e),
           UNCHANGED <<items, target_visualizer_>>, \A item : Truthful(item) => Truthful(item)'
    PROVE  /\ Ordered'
           /\ \A i \in DOMAIN events : i \in DOMAIN events' /\ events'[i] = events[i]
<1>1. /\ Len(events) \in Nat /\ DOMAIN events = 1 .. Len(events) /\ DOMAIN events' = 1 .. Len(events) + 1
      /\ events'[Len(events) + 1] = e /\ \A i \in 1 .. Len(events) : events'[i] = events[i]
    BY Appended DEF TypeOK, Post
<1>2. \A i \in DOMAIN events' : Waits(events', i) =>
          i \in DOMAIN events /\ Waits(events, i) /\ events'[i] = events[i]
    BY <1>1 DEF Waits
<1>3. \A i \in DOMAIN events : i \in DOMAIN events' /\ events'[i] = events[i]
    BY <1>1
<1> QED
    BY <1>2, <1>3 DEF Ordered

LEMMA OrderKept ==
    ASSUME Ordered, UNCHANGED <<events, items>>, target_visualizer_ => target_visualizer_',
           \A item : Truthful(item) => Truthful(item)'
    PROVE  Ordered'
BY DEF Ordered

\* Nothing is taken from view, and the pairs that are done are those that were.
LEMMA CoverKept ==
    ASSUME Covered, Pairs' = Pairs, UNCHANGED items,
           \A end \in Unread : Announced(end) => Announced(end)',
           \A i \in DOMAIN events : i \in DOMAIN events' /\ events'[i] = events[i],
           \A p \in Pairs : AllDone(p)' \/ pc' \in {"calibrate", "returned"} =>
               AllDone(p) \/ pc \in {"calibrate", "returned"}
    PROVE  Covered'
<1>1. \A p : Visible(p) => Visible(p)'
    BY DEF Visible, Waits
<1> QED
    BY <1>1 DEF Covered

\* A new item is the last in order.
LEMMA ItemShown ==
    ASSUME Inv, Ordered, NEW item \in Items, Post(ItemEvent(item)),
           UNCHANGED <<items, target_visualizer_>>, target_visualizer_,
           \A x : Truthful(x) => Truthful(x)' /\ Before(x, item), Truthful(item)'
    PROVE  /\ Ordered'
           /\ \A i \in DOMAIN events : i \in DOMAIN events' /\ events'[i] = events[i]
           /\ \E i \in DOMAIN events' : Waits(events', i) /\ events'[i].arg = item
<1>1. ItemEvent(item) \in Functors /\ ItemEvent(item).call = "AddExtractionItem" /\ ItemEvent(item).arg = item
    BY FunctorFacts DEF ItemEvent
<1> DEFINE n == Len(events)
<1>2. /\ n \in Nat /\ DOMAIN events = 1 .. n /\ DOMAIN events' = 1 .. n + 1
      /\ events'[n + 1] = ItemEvent(item) /\ \A i \in 1 .. n : events'[i] = events[i]
    BY <1>1, Appended DEF Inv, TypeOK, Post
<1>3. /\ \A i \in 1 .. n : i \in 1 .. n + 1
      /\ n + 1 \in 1 .. n + 1
      /\ \A i \in 1 .. n + 1 : (i = n + 1 \/ i \in 1 .. n) /\ ~(n + 1 < i)
    BY <1>2
<1> HIDE DEF n
<1>4. \A i \in DOMAIN events : i \in DOMAIN events' /\ events'[i] = events[i] /\ (Waits(events', i) <=> Waits(events, i))
    BY <1>2, <1>3 DEF Waits
<1>5. n + 1 \in DOMAIN events' /\ Waits(events', n + 1) /\ events'[n + 1].arg = item
    BY <1>1, <1>2, <1>3 DEF Waits
<1>6. ASSUME NEW i \in DOMAIN items
      PROVE  Truthful(items[i])' /\ Before(items'[i], item)
             /\ \A j \in DOMAIN items' : i < j => Before(items'[i], items'[j])
    BY DEF Ordered
<1>7. ASSUME NEW i \in DOMAIN events', Waits(events', i)
      PROVE  /\ Truthful(events[i].arg)'
             /\ \A j \in DOMAIN items' : Before(items'[j], events'[i].arg)
             /\ \A j \in DOMAIN events' :
                   i < j /\ Waits(events', j) => Before(events'[i].arg, events'[j].arg)
    <2>1. CASE i = n + 1
        <3>1. \A j \in DOMAIN events' : ~(i < j)
            BY <1>2, <1>3, <2>1
        <3> QED
            BY <1>1, <1>2, <1>6, <2>1, <3>1
    <2>2. CASE i \in 1 .. n
        <3>1. /\ Waits(events, i) /\ events'[i] = events[i] /\ Truthful(events[i].arg)
              /\ \A j \in DOMAIN items : Before(items[j], events[i].arg)
            BY <1>2, <1>4, <1>7, <2>2 DEF Ordered
        <3>2. \A j \in 1 .. n : i < j /\ Waits(events', j) => Before(events'[i].arg, events'[j].arg)
            BY <1>2, <1>4, <2>2, <3>1 DEF Ordered
        <3>3. Before(events'[i].arg, events'[n + 1].arg)
            BY <1>1, <1>2, <3>1
        <3> QED
            BY <1>2, <1>3, <3>1, <3>2, <3>3
    <2> QED
        BY <1>2, <1>3, <2>1, <2>2
<1>8. Ordered'
    BY <1>6, <1>7 DEF Ordered
<1> QED
    BY <1>4, <1>5, <1>8

\* The functors leave the worker's data alone.
LEMMA RunKeepsData ==
    ASSUME Inv, Opened, Reading, Level, Selected, RunFunctor, UNCHANGED workerVars
    PROVE  /\ Reading' /\ Level' /\ Selected' /\ target_visualizer_' = target_visualizer_
           /\ Pairs' = Pairs /\ \A p : AllDone(p)' <=> AllDone(p)
           /\ \A item : Truthful(item) => Truthful(item)'
           /\ \A end \in Unread : Announced(end)' <=> Announced(end)
           /\ \A i \in DOMAIN events' : i + 1 \in DOMAIN events /\ events'[i] = events[i + 1]
           /\ \A i \in DOMAIN events : i = 1 \/ (i - 1 \in DOMAIN events' /\ events'[i - 1] = events[i])
<1>1. target_visualizer_' = target_visualizer_
    BY DEF RunFunctor, AddExtractionItem, StartCalibration, EndCalibration
<1>2. /\ dirs' = dirs /\ \A s \in Sides : Done(s)' = Done(s) /\ \A k : Label(s, k)' = Label(s, k)
    BY DEF workerVars, Done, Label, Pending, At
<1>3. /\ Pairs' = Pairs /\ \A p : AllDone(p)' <=> AllDone(p)
      /\ \A p : Good(p)' <=> Good(p)
      /\ \A item : Truthful(item) => Truthful(item)'
    BY <1>2, Stays DEF AllDone
<1>4. \A end \in Unread : Announced(end)' <=> Announced(end)
    BY RunAnnounced DEF Ends
<1>5. events # <<>>
    BY RunFinds
<1>6. Reading'
    BY <1>2, <1>5 DEF workerVars, Reading, Pending, At, Exhausted, Label
<1>7. Level'
    BY <1>2 DEF workerVars, Level, Sides, Exhausted
<1>8. Selected'
    BY <1>3 DEF workerVars, Selected, Kept
<1>9. \A i \in DOMAIN events' : i + 1 \in DOMAIN events /\ events'[i] = events[i + 1]
    BY RunFinds
<1>10. \A i \in DOMAIN events : i = 1 \/ (i - 1 \in DOMAIN events' /\ events'[i - 1] = events[i])
    BY RunFinds
<1> QED
    BY <1>1, <1>3, <1>4, <1>6, <1>7, <1>8, <1>9, <1>10

\* The oldest item moves from the queue into the view.
LEMMA AddPairs ==
    ASSUME Inv, Opened, PairInv, AddExtractionItem, UNCHANGED workerVars
    PROVE  PairInv'
<1>1. RunFunctor /\ events # <<>> /\ Head(events).call = "AddExtractionItem"
    BY DEF RunFunctor, AddExtractionItem, Due
<1>2. /\ Reading' /\ Level' /\ Selected' /\ target_visualizer_' = target_visualizer_
      /\ Pairs' = Pairs /\ \A p : AllDone(p)' <=> AllDone(p)
      /\ \A item : Truthful(item) => Truthful(item)'
      /\ \A end \in Unread : Announced(end)' <=> Announced(end)
      /\ \A i \in DOMAIN events' : i + 1 \in DOMAIN events /\ events'[i] = events[i + 1]
      /\ \A i \in DOMAIN events : i = 1 \/ (i - 1 \in DOMAIN events' /\ events'[i - 1] = events[i])
    BY <1>1, RunKeepsData DEF PairInv
<1>3. /\ Head(events) = events[1] /\ 1 \in DOMAIN events
      /\ Head(events) \in Functors /\ calibration_ended_ = FALSE
      /\ \A i \in DOMAIN events' : 1 < i + 1
      /\ \A i, j \in DOMAIN events' : i < j => i + 1 < j + 1
    BY <1>1, RunFinds
<1> DEFINE item == Head(events).arg
           n == Len(items)
<1>4. item \in Items /\ Waits(events, 1)
    BY <1>1, <1>3, FunctorFacts DEF Waits
<1>5. /\ target_visualizer_ /\ Truthful(item) /\ \A j \in DOMAIN items : Before(items[j], item)
      /\ \A j \in DOMAIN events : 1 < j /\ Waits(events, j) => Before(item, events[j].arg)
    BY <1>3, <1>4 DEF PairInv, Ordered
<1>6. items' = Append(items, item)
    BY <1>3, <1>5 DEF AddExtractionItem
<1>7. /\ n \in Nat /\ DOMAIN items = 1 .. n /\ DOMAIN items' = 1 .. n + 1
      /\ items'[n + 1] = item /\ \A i \in 1 .. n : items'[i] = items[i]
    BY <1>4, <1>6, Appended DEF Inv, TypeOK
<1>8. /\ \A i \in 1 .. n : i \in 1 .. n + 1
      /\ n + 1 \in 1 .. n + 1
      /\ \A i \in 1 .. n + 1 : (i = n + 1 \/ i \in 1 .. n) /\ ~(n + 1 < i)
    BY <1>7
<1>9. item = events[1].arg
    BY <1>3
<1> HIDE DEF item, n
<1>10. Covered'
    <2>1. ASSUME NEW p, Visible(p) PROVE Visible(p)'
        <3>1. CASE \E i \in DOMAIN items : FilesOf(items[i]) = p
            BY <1>7, <1>8, <3>1 DEF Visible
        <3>2. ASSUME NEW i \in DOMAIN events, Waits(events, i), FilesOf(events[i].arg) = p
              PROVE  Visible(p)'
            <4>1. CASE i = 1
                <5>1. n + 1 \in DOMAIN items' /\ FilesOf(items'[n + 1]) = p
                    BY <1>7, <1>8, <1>9, <3>2, <4>1
                <5> QED
                    BY <5>1 DEF Visible
            <4>2. CASE i # 1
                BY <1>2, <3>2, <4>2 DEF Visible, Waits
            <4> QED
                BY <4>1, <4>2
        <3> QED
            BY <2>1, <3>1, <3>2 DEF Visible
    <2>2. pc' = pc
        BY DEF workerVars
    <2> QED
        BY <1>2, <2>1, <2>2 DEF PairInv, Covered, Unread
<1>11. ASSUME NEW i \in DOMAIN items'
       PROVE  Truthful(items[i])' /\ \A j \in DOMAIN items' : i < j => Before(items'[i], items'[j])
    <2>1. CASE i = n + 1
        <3>1. \A j \in DOMAIN items' : ~(i < j)
            BY <1>7, <1>8, <2>1
        <3> QED
            BY <1>2, <1>5, <1>7, <2>1, <3>1
    <2>2. CASE i \in 1 .. n
        <3>1. Truthful(items[i]) /\ Before(items[i], item)
              /\ \A j \in 1 .. n : i < j => Before(items[i], items[j])
            BY <1>5, <1>7, <2>2 DEF PairInv, Ordered
        <3> QED
            BY <1>2, <1>7, <1>8, <2>2, <3>1
    <2> QED
        BY <1>7, <1>8, <2>1, <2>2
<1>12. ASSUME NEW i \in DOMAIN events', Waits(events', i)
       PROVE  /\ Truthful(events[i].arg)'
              /\ \A j \in DOMAIN items' : Before(items'[j], events'[i].arg)
              /\ \A j \in DOMAIN events' :
                    i < j /\ Waits(events', j) => Before(events'[i].arg, events'[j].arg)
    <2>1. /\ i + 1 \in DOMAIN events /\ Waits(events, i + 1) /\ events'[i] = events[i + 1] /\ 1 < i + 1
        BY <1>2, <1>3, <1>12 DEF Waits
    <2>2. /\ Truthful(events[i + 1].arg) /\ Before(item, events[i + 1].arg)
          /\ \A j \in DOMAIN items : Before(items[j], events[i + 1].arg)
          /\ \A j \in DOMAIN events :
                i + 1 < j /\ Waits(events, j) => Before(events[i + 1].arg, events[j].arg)
        BY <1>5, <2>1 DEF PairInv, Ordered
    <2>3. \A j \in DOMAIN items' : Before(items'[j], events'[i].arg)
        BY <1>7, <1>8, <2>1, <2>2
    <2>4. \A j \in DOMAIN events' :
              i < j /\ Waits(events', j) => Before(events'[i].arg, events'[j].arg)
        <3> SUFFICES ASSUME NEW j \in DOMAIN events', i < j, Waits(events', j)
                     PROVE  Before(events'[i].arg, events'[j].arg)
            OBVIOUS
        <3>1. i + 1 < j + 1
            BY <1>3
        <3>2. j + 1 \in DOMAIN events /\ Waits(events, j + 1) /\ events'[j] = events[j + 1]
            BY <1>2 DEF Waits
        <3> QED
            BY <2>1, <2>2, <3>1, <3>2
    <2> QED
        BY <1>2, <2>1, <2>2, <2>3, <2>4
<1>13. Ordered'
    BY <1>2, <1>5, <1>11, <1>12 DEF Ordered
<1> QED
    BY <1>2, <1>10, <1>13 DEF PairInv

LEMMA OtherFunctorPairs ==
    ASSUME Inv, Opened, PairInv, StartCalibration \/ EndCalibration, UNCHANGED workerVars
    PROVE  PairInv'
<1>1. RunFunctor /\ UNCHANGED items /\ Head(events).call # "AddExtractionItem" /\ pc' = pc
    BY DEF RunFunctor, StartCalibration, EndCalibration, Due, workerVars
<1>2. /\ Reading' /\ Level' /\ Selected' /\ target_visualizer_' = target_visualizer_
      /\ Pairs' = Pairs /\ \A p : AllDone(p)' <=> AllDone(p)
      /\ \A item : Truthful(item) => Truthful(item)'
      /\ \A end \in Unread : Announced(end)' <=> Announced(end)
      /\ \A i \in DOMAIN events' : i + 1 \in DOMAIN events /\ events'[i] = events[i + 1]
      /\ \A i \in DOMAIN events : i = 1 \/ (i - 1 \in DOMAIN events' /\ events'[i - 1] = events[i])
    BY <1>1, RunKeepsData DEF PairInv
<1>3. /\ ~Waits(events, 1)
      /\ \A i, j \in DOMAIN events' : i < j => i + 1 < j + 1
    BY <1>1, RunFinds DEF Waits
<1>4. \A i \in DOMAIN events' : Waits(events', i) <=> Waits(events, i + 1)
    BY <1>2 DEF Waits
<1>5. Covered'
    <2>1. ASSUME NEW p, Visible(p) PROVE Visible(p)'
        BY <1>1, <1>2, <1>3, <2>1 DEF Visible, Waits
    <2> QED
        BY <1>1, <1>2, <2>1 DEF PairInv, Covered, Unread
<1>6. ASSUME NEW i \in DOMAIN events', Waits(events', i)
      PROVE  /\ target_visualizer_' /\ Truthful(events[i].arg)'
             /\ \A j \in DOMAIN items' : Before(items'[j], events'[i].arg)
             /\ \A j \in DOMAIN events' :
                   i < j /\ Waits(events', j) => Before(events'[i].arg, events'[j].arg)
    <2>1. i + 1 \in DOMAIN events /\ Waits(events, i + 1) /\ events'[i] = events[i + 1]
        BY <1>2, <1>4, <1>6
    <2>2. /\ target_visualizer_ /\ Truthful(events[i + 1].arg)
          /\ \A j \in DOMAIN items : Before(items[j], events[i + 1].arg)
          /\ \A j \in DOMAIN events :
                i + 1 < j /\ Waits(events, j) => Before(events[i + 1].arg, events[j].arg)
        BY <2>1 DEF PairInv, Ordered
    <2> QED
        BY <1>1, <1>2, <1>3, <1>4, <2>1, <2>2
<1>7. Ordered'
    BY <1>1, <1>2, <1>6 DEF PairInv, Ordered
<1> QED
    BY <1>2, <1>5, <1>7 DEF PairInv

-----------------------------------------------------------------------------
(* The worker's steps *)

\* The images stay selected while no other pair is done.
LEMMA SelectedKept ==
    ASSUME Selected, UNCHANGED images, Pairs' = Pairs,
           pc' \in {"read", "skip", "calibrate"} => pc \in {"read", "skip", "calibrate"},
           \A p : AllDone(p) => AllDone(p)', \A p : Good(p)' <=> Good(p),
           \A p \in Pairs : Good(p) /\ (AllDone(p)' \/ pc' = "calibrate") => AllDone(p)
    PROVE  Selected'
BY DEF Selected, Kept

\* A pair that shows the target is appended to both calibrations.
LEMMA SelectedMore ==
    ASSUME TypeOK, Selected, pc \in {"read", "skip", "calibrate"}, pc' = "read", Pairs' = Pairs,
           \A p : AllDone(p) => AllDone(p)', \A p : Good(p)' <=> Good(p),
           NEW q \in Pairs, Good(q), AllDone(q)', \A s \in Sides : q[s] \in Nat,
           images' = [s \in Sides |-> Append(images[s], q[s])],
           \A p \in Pairs : AllDone(p)' => AllDone(p) \/ p = q,
           \A p \in Pairs : AllDone(p) => \A s \in Sides : p[s] < q[s]
    PROVE  Selected'
<1> DEFINE n == Len(images[1])
<1>1. ASSUME NEW s \in Sides
      PROVE  /\ DOMAIN images[s] = 1 .. n /\ DOMAIN images'[s] = 1 .. n + 1 /\ n \in Nat
             /\ images'[s][n + 1] = q[s] /\ \A i \in 1 .. n : images'[s][i] = images[s][i]
    <2>1. images[s] \in Seq(Nat) /\ images[1] \in Seq(Nat) /\ images'[s] = Append(images[s], q[s])
        BY DEF TypeOK, Sides
    <2>2. /\ Len(images[s]) \in Nat /\ DOMAIN images[s] = 1 .. Len(images[s])
          /\ DOMAIN images'[s] = 1 .. Len(images[s]) + 1 /\ images'[s][Len(images[s]) + 1] = q[s]
          /\ \A i \in 1 .. Len(images[s]) : images'[s][i] = images[s][i]
        BY <2>1, Appended
    <2>3. DOMAIN images[s] = DOMAIN images[1] /\ n \in Nat /\ DOMAIN images[1] = 1 .. n
        BY <2>1, LenProperties DEF Selected, Sides
    <2>4. \A a, b \in Nat : 1 .. a = 1 .. b => a = b
        OBVIOUS
    <2>5. Len(images[s]) = n
        BY <2>2, <2>3, <2>4
    <2> QED
        BY <2>2, <2>3, <2>5
<1>2. /\ n \in Nat /\ DOMAIN images[1] = 1 .. n /\ DOMAIN images'[1] = 1 .. n + 1
      /\ DOMAIN images'[2] = 1 .. n + 1
    BY <1>1 DEF Sides
<1>3. /\ \A i \in 1 .. n : i \in 1 .. n + 1
      /\ n + 1 \in 1 .. n + 1
      /\ \A i \in 1 .. n + 1 : (i = n + 1 \/ i \in 1 .. n) /\ ~(n + 1 < i)
    BY <1>2
<1> HIDE DEF n
<1>4. q = [s \in Sides |-> q[s]]
    BY DEF Pairs
<1>5. \A i \in 1 .. n : Kept(i)' = Kept(i)
    BY <1>1 DEF Kept
<1>6. \A i \in 1 .. n + 1 : i = n + 1 => Kept(i)' = q
    BY <1>1, <1>4 DEF Kept
<1>7. ASSUME NEW i \in 1 .. n + 1
      PROVE  /\ Kept(i)' \in Pairs' /\ AllDone(Kept(i))' /\ Good(Kept(i))'
             /\ \A j \in 1 .. n + 1 : i < j => \A s \in Sides : Kept(i)'[s] < Kept(j)'[s]
    <2>1. CASE i = n + 1
        <3>1. Kept(i)' = q
            BY <1>6, <2>1
        <3>2. AllDone(Kept(i))' /\ Good(Kept(i))'
            BY <3>1 DEF AllDone, Good
        <3>3. \A j \in 1 .. n + 1 : ~(i < j)
            BY <1>3, <2>1
        <3> QED
            BY <3>1, <3>2, <3>3
    <2>2. CASE i \in 1 .. n
        <3>1. /\ Kept(i) \in Pairs /\ AllDone(Kept(i)) /\ Good(Kept(i)) /\ Kept(i)' = Kept(i)
              /\ \A j \in 1 .. n : i < j => \A s \in Sides : Kept(i)[s] < Kept(j)[s]
            BY <1>2, <1>5, <2>2 DEF Selected
        <3>2. AllDone(Kept(i))' /\ Good(Kept(i))'
            <4> PICK p : p = Kept(i)
                OBVIOUS
            <4>1. AllDone(p)' /\ Good(p)' /\ Kept(i)' = p
                BY <3>1
            <4> QED
                BY <4>1 DEF AllDone, Good
        <3>3. \A j \in 1 .. n + 1 : j = n + 1 => \A s \in Sides : Kept(i)'[s] < Kept(j)'[s]
            BY <1>6, <3>1
        <3>4. \A j \in 1 .. n : i < j => \A s \in Sides : Kept(i)'[s] < Kept(j)'[s]
            BY <1>5, <3>1
        <3> QED
            BY <1>3, <3>1, <3>2, <3>3, <3>4
    <2> QED
        BY <1>3, <2>1, <2>2
<1>8. ASSUME NEW p \in Pairs, Good(p), AllDone(p)'
      PROVE  \E i \in 1 .. n + 1 : Kept(i)' = p
    <2>1. CASE p = q
        BY <1>3, <1>6, <2>1
    <2>2. CASE AllDone(p)
        <3>1. \E i \in 1 .. n : Kept(i) = p
            BY <1>2, <1>8, <2>2 DEF Selected
        <3> QED
            BY <1>3, <1>5, <3>1
    <2> QED
        BY <1>8, <2>1, <2>2
<1> QED
    BY <1>2, <1>7, <1>8 DEF Selected

LEMMA NothingDone ==
    ASSUME TypeOK, \A s \in Sides : At(s) = 0
    PROVE  (\A s \in Sides : Done(s) = {}) /\ \A p : ~AllDone(p)
<1>1. ASSUME NEW s \in Sides PROVE Done(s) = {}
    <2>1. \A k \in ReadableFiles(dirs[s]) : k \in Nat \ {0}
        BY DoneFirst
    <2>2. \A k \in ReadableFiles(dirs[s]) : ~(k =< 0)
        BY <2>1
    <2> QED
        BY <2>2 DEF Done
<1> QED
    BY <1>1 DEF AllDone, Sides

LEMMA InitPairs == Init => PairInv
<1> SUFFICES ASSUME Init PROVE PairInv
    OBVIOUS
<1>1. events = <<>> /\ items = <<>> /\ DOMAIN events = {} /\ DOMAIN items = {} /\ pc = "start"
    BY DEF Init, WidgetInit
<1>2. TypeOK /\ \A s \in Sides : At(s) = 0
    BY InitInv DEF Inv, Init, At, NoReader
<1>3. \A p : ~AllDone(p)
    BY <1>2, NothingDone
<1> QED
    BY <1>1, <1>3 DEF PairInv, Reading, Level, Covered, Ordered, Selected

LEMMA ConstructPairs == ASSUME Inv, Opened, PairInv, Construct, UNCHANGED UnseenVars PROVE PairInv'
<1>1. /\ pc = "start" /\ pc' \in {"setup", "terminated"} /\ UNCHANGED <<dirs, events, items>>
    BY DEF Construct, UnseenVars
<1>2. events' = <<>> /\ items' = <<>> /\ DOMAIN events' = {} /\ DOMAIN items' = {}
    BY <1>1 DEF PairInv, Reading
<1>3. \A s \in Sides : At(s)' = 0
    <2>1. CASE UNCHANGED readers
        BY <1>1, <2>1 DEF Opened, At
    <2>2. CASE \A s \in Sides : readers'[s] \in NewReaders(dirs[s])
        BY <2>2, ReaderConstructed DEF Inv, TypeOK, At
    <2> QED
        BY <2>1, <2>2 DEF Construct
<1>4. \A p : ~AllDone(p)'
    <2>1. \A s \in Sides : \A k \in ReadableFiles(dirs[s]) : k \in Nat \ {0}
        BY DoneFirst DEF Inv
    <2>2. \A s \in Sides : \A k \in ReadableFiles(dirs[s]) : ~(k =< 0)
        BY <2>1
    <2> QED
        BY <1>1, <1>3, <2>2 DEF AllDone, Done, Sides
<1> QED
    BY <1>1, <1>2, <1>4 DEF PairInv, Reading, Level, Covered, Ordered, Selected

LEMMA SetupPairs == ASSUME Inv, Opened, PairInv, Setup, UNCHANGED UnseenVars PROVE PairInv'
<1>1. /\ pc = "setup" /\ pc' = "read" /\ UNCHANGED <<dirs, readers, images, data, events, items>>
      /\ target_visualizer_'
    BY DEF Setup, SetTargetVisualizer, UnseenVars
<1>2. /\ \A s \in Sides : Done(s)' = Done(s) /\ \A k : Label(s, k)' = Label(s, k)
    BY <1>1 DEF Done, Label, Pending, At
<1>3. \A s \in Sides : At(s) = 0 /\ images[s] = <<>>
    BY <1>1 DEF Opened
<1>4. (\A s \in Sides : Done(s) = {}) /\ \A p : ~AllDone(p)
    BY <1>3, NothingDone DEF Inv
<1>5. \A p : ~AllDone(p)'
    BY <1>2, <1>4 DEF AllDone
<1>6. Pairs' = Pairs /\ \A item : Truthful(item) => Truthful(item)'
    BY <1>1, <1>2, Stays
<1>7. Ordered'
    BY <1>1, <1>6, OrderKept DEF PairInv
<1>8. Covered'
    BY <1>1, <1>5 DEF Covered
<1>9. Selected'
    <2>1. DOMAIN images'[1] = {} /\ DOMAIN images'[2] = {}
        BY <1>1, <1>3 DEF Sides
    <2> QED
        BY <1>1, <1>5, <2>1 DEF Selected
<1>10. Level'
    BY <1>1, <1>2, <1>4 DEF Level, Sides
<1>11. Reading'
    BY <1>1 DEF Reading
<1> QED
    BY <1>7, <1>8, <1>9, <1>10, <1>11 DEF PairInv

LEMMA ReadingPairs ==
    ASSUME Inv, Opened, PairInv, [Next]_vars, ReadBoth \/ (\E s \in Sides : SkipFile(s)), UNCHANGED UnseenVars
    PROVE  PairInv'
<1>1. /\ pc \in {"read", "skip"} /\ pc' = "skip"
      /\ UNCHANGED <<dirs, images, events, target_visualizer_, items>>
      /\ Reading' /\ Level' /\ \A s \in Sides : Done(s)' = Done(s)
    BY ReadingOn DEF PairInv, UnseenVars
<1>2. /\ Pairs' = Pairs /\ (\A p : AllDone(p)' <=> AllDone(p))
      /\ \A p : Good(p)' <=> Good(p)
      /\ \A item : Truthful(item) => Truthful(item)'
    BY <1>1, LabelsStay, Stays DEF AllDone
<1>3. \A end \in Unread : ~Announced(end)
    BY <1>1, NotYetAnnounced DEF Ends
<1> QED
    BY <1>1, <1>2, <1>3, OrderKept, CoverKept, SelectedKept DEF PairInv

LEMMA TurnPairs ==
    ASSUME Inv, Opened, PairInv, PairImages, UNCHANGED UnseenVars
    PROVE  PairInv'
<1>1. /\ pc = "skip" /\ pc' = "read" /\ UNCHANGED <<dirs, readers, data, target_visualizer_, items>>
      /\ Reading' /\ Level' /\ target_visualizer_
      /\ (\A s \in Sides : Done(s) \subseteq Done(s)') /\ \A s \in Sides : \A k : Label(s, k)' = Label(s, k)
    BY TurnEnds DEF PairInv, UnseenVars, Opened
<1>2. /\ Pairs' = Pairs /\ (\A p : AllDone(p) => AllDone(p)')
      /\ \A p : Good(p)' <=> Good(p)
      /\ \A item : Truthful(item) => Truthful(item)'
    BY <1>1, Stays
<1>3. \A end \in Unread : ~Announced(end)
    BY <1>1, NotYetAnnounced DEF Ends
<1>4. CASE UNCHANGED <<images, events>> /\ \A p \in Pairs : AllDone(p)' => AllDone(p)
    BY <1>1, <1>2, <1>3, <1>4, OrderKept, CoverKept, SelectedKept DEF PairInv
<1>5. ASSUME Turn \in Pairs, FilesOf(data) = Turn, Post(ItemEvent(data)),
             \A s \in Sides : Turn[s] \in Done(s)' /\ data[s].status = Label(s, Turn[s]),
             \A p \in Pairs : AllDone(p)' => AllDone(p) \/ p = Turn,
             \A p \in Pairs : AllDone(p) => \A s \in Sides : p[s] < Turn[s],
             images' = IF Good(Turn) THEN [s \in Sides |-> Append(images[s], Turn[s])] ELSE images
      PROVE  PairInv'
    <2> PICK item \in Items, q \in Pairs : item = data /\ q = Turn
        BY <1>5 DEF Inv, TypeOK
    <2>1. /\ FilesOf(item) = q /\ AllDone(q)' /\ \A s \in Sides : item[s].status = Label(s, q[s])
          /\ \A s \in Sides : item[s].file = q[s] /\ q[s] \in Nat
        <3>1. \A s \in Sides : data[s].file = FilesOf(data)[s]
            BY DEF FilesOf
        <3>2. \A s \in Sides : Turn[s] \in Nat
            BY DoneFirst DEF Inv, Turn
        <3> QED
            BY <1>5, <3>1, <3>2 DEF AllDone
    <2>2. Truthful(item)'
        BY <1>1, <1>2, <2>1 DEF Truthful
    <2>3. ASSUME NEW x, Truthful(x) PROVE Before(x, item)
        <3>1. \A s \in Sides : FilesOf(x)[s] < q[s]
            BY <1>5, <2>3 DEF Truthful
        <3> QED
            BY <2>1, <3>1 DEF Before, FilesOf
    <2>4. /\ Ordered'
          /\ \A i \in DOMAIN events : i \in DOMAIN events' /\ events'[i] = events[i]
          /\ \E i \in DOMAIN events' : Waits(events', i) /\ events'[i].arg = item
        BY <1>1, <1>2, <1>5, <2>2, <2>3, ItemShown DEF PairInv
    <2>5. Covered'
        <3>1. \A p : Visible(p) => Visible(p)'
            BY <1>1, <2>4 DEF Visible, Waits
        <3>2. Visible(q)'
            BY <2>1, <2>4 DEF Visible
        <3>3. \A p \in Pairs : AllDone(p) => Visible(p)
            BY <1>3 DEF PairInv, Covered
        <3> QED
            BY <1>1, <1>2, <1>5, <3>1, <3>2, <3>3 DEF Covered
    <2>6. Selected'
        <3>1. CASE Good(q)
            BY <1>1, <1>2, <1>5, <2>1, <3>1, SelectedMore DEF PairInv, Inv
        <3>2. CASE ~Good(q)
            BY <1>1, <1>2, <1>5, <3>2, SelectedKept DEF PairInv
        <3> QED
            BY <3>1, <3>2
    <2> QED
        BY <1>1, <2>4, <2>5, <2>6 DEF PairInv
<1> QED
    BY <1>4, <1>5, TurnEnds DEF PairInv

\* Once a side is exhausted every pair has had its turn.
LEMMA BeginPairs ==
    ASSUME Inv, Opened, PairInv, BeginCalibration, UNCHANGED UnseenVars
    PROVE  PairInv'
<1>1. /\ pc = "read" /\ pc' = "calibrate" /\ (\E s \in Sides : Exhausted(s)) /\ Post(StartEvent)
      /\ UNCHANGED <<dirs, readers, data, images, target_visualizer_, items>>
    BY DEF BeginCalibration, UnseenVars, Exhausted
<1>2. PICK s \in Sides : /\ Exhausted(s)
                         /\ \A t \in Sides : Cardinality(Done(s)) =< Cardinality(Done(t))
    <2>1. \A t \in Sides : Cardinality(Done(t)) \in Nat
        BY DoneFirst DEF Inv
    <2>2. CASE Cardinality(Done(1)) = Cardinality(Done(2))
        BY <1>1, <2>1, <2>2 DEF Sides
    <2>3. CASE \E t \in Sides : Exhausted(t) /\ \A u \in Sides : Cardinality(Done(t)) =< Cardinality(Done(u))
        BY <2>3
    <2> QED
        BY <1>1, <2>2, <2>3 DEF PairInv, Level
<1>3. Done(s) = ReadableFiles(dirs[s])
    <2>1. /\ At(s) \in Nat /\ Len(dirs[s]) \in Nat /\ Len(dirs[s]) =< At(s)
        <3>1. readers[s].image_paths_ = dirs[s] /\ dirs[s] \in Seq(Files) /\ At(s) \in Nat
            BY <1>1, DoneFirst DEF Opened, Inv, TypeOK
        <3>2. Len(dirs[s]) \in Nat
            BY <3>1, LenProperties
        <3> QED
            BY <1>2, <3>1, <3>2 DEF Exhausted, HasNext, At
    <2>2. \A k \in ReadableFiles(dirs[s]) : k \in Nat /\ k =< Len(dirs[s])
        BY DoneFirst DEF Inv
    <2>3. \A k \in ReadableFiles(dirs[s]) : k =< At(s)
        BY <2>1, <2>2
    <2> QED
        BY <1>1, <2>3 DEF Done, Pending
<1>4. \A p \in Pairs : AllDone(p)
    <2>1. \A p \in Pairs : p[s] \in Done(s)
        BY <1>3 DEF Pairs
    <2> QED
        BY <1>2, <2>1, DoneOnBoth DEF Inv
<1>5. \A t \in Sides : /\ Done(t)' = Done(t) /\ Exhausted(t)' = Exhausted(t)
                       /\ \A k : Label(t, k)' = Label(t, k)
    BY <1>1 DEF Done, Pending, At, Exhausted, Label
<1>6. /\ Pairs' = Pairs /\ (\A p : AllDone(p) => AllDone(p)')
      /\ \A p : Good(p)' <=> Good(p)
      /\ \A item : Truthful(item) => Truthful(item)'
    BY <1>1, <1>5, Stays
<1>7. StartEvent \in Functors /\ StartEvent.call # "AddExtractionItem"
    BY FunctorFacts
<1>8. Ordered' /\ \A i \in DOMAIN events : i \in DOMAIN events' /\ events'[i] = events[i]
    BY <1>1, <1>6, <1>7, OthersPosted DEF PairInv, Inv
<1>9. \A end \in Unread : ~Announced(end)
    BY <1>1, NotYetAnnounced DEF Ends
<1>10. Covered'
    BY <1>1, <1>4, <1>6, <1>8, <1>9, CoverKept DEF PairInv
<1>11. Selected'
    BY <1>1, <1>4, <1>6, SelectedKept DEF PairInv
<1>12. Level'
    BY <1>1, <1>5 DEF PairInv, Level, Sides
<1>13. Reading'
    BY <1>1, <1>5 DEF Reading
<1> QED
    BY <1>8, <1>10, <1>11, <1>12, <1>13 DEF PairInv

LEMMA ExitPairs ==
    ASSUME Inv, Opened, PairInv, UNCHANGED UnseenVars,
           RefuseDirectories \/ FailExtraction \/ RefuseToCalibrate \/ Calibrate
    PROVE  PairInv'
<1>1. PICK end \in Ends : /\ Post(EndEvent(end))
                          /\ end \in Unread \/ pc = "calibrate"
    BY Exits DEF Unread, Calibrate
<1>2. /\ pc \in {"setup", "read", "skip", "calibrate"} /\ pc' = "returned"
      /\ UNCHANGED <<dirs, readers, data, images, target_visualizer_, items>>
    BY Exits DEF UnseenVars
<1>3. \A s \in Sides : Done(s) \subseteq Done(s)' /\ \A k : Label(s, k)' = Label(s, k)
    BY <1>2 DEF Done, Pending, At, Label
<1>4. Pairs' = Pairs /\ \A item : Truthful(item) => Truthful(item)'
    BY <1>2, <1>3, Stays
<1>5. EndEvent(end) \in Functors /\ EndEvent(end).call # "AddExtractionItem"
    BY FunctorFacts
<1>6. Ordered' /\ \A i \in DOMAIN events : i \in DOMAIN events' /\ events'[i] = events[i]
    BY <1>1, <1>2, <1>4, <1>5, OthersPosted DEF PairInv, Inv
<1>7. Covered'
    <2>1. CASE end \in Unread
        <3>1. Announced(end)'
            BY <1>1, <1>2, EndAnnounced
        <3> QED
            BY <2>1, <3>1 DEF Covered, Announced, Finishes
    <2>2. CASE pc = "calibrate"
        <3>1. \A e \in Unread : ~Announced(e)
            BY <1>2, NotYetAnnounced DEF Ends
        <3> QED
            BY <1>2, <1>4, <1>6, <2>2, <3>1, CoverKept DEF PairInv
    <2> QED
        BY <1>1, <2>1, <2>2
<1>8. Reading' /\ Level' /\ Selected'
    BY <1>2 DEF Reading, Level, Selected
<1> QED
    BY <1>6, <1>7, <1>8 DEF PairInv

LEMMA NextPairs == ASSUME Inv, Opened, PairInv, [Next]_vars PROVE PairInv'
<1>1. CASE Worker
    <2>1. UNCHANGED UnseenVars
        BY <1>1 DEF Worker, widgetVars, UnseenVars
    <2> QED
        BY <1>1, <2>1, ConstructPairs, SetupPairs, ReadingPairs, TurnPairs, BeginPairs, ExitPairs DEF Worker
<1>2. CASE EventLoop
    BY <1>2, AddPairs, OtherFunctorPairs DEF EventLoop, RunFunctor
<1>3. CASE UNCHANGED vars
    <2>1. UNCHANGED <<dirs, pc, readers, data, images, events, items, result, target_visualizer_>>
        BY <1>3 DEF vars, workerVars, widgetVars
    <2>2. /\ \A s \in Sides : /\ Done(s)' = Done(s) /\ Exhausted(s)' = Exhausted(s)
                              /\ (Pending(s)' <=> Pending(s)) /\ At(s)' = At(s)
                              /\ \A k : Label(s, k)' = Label(s, k)
          /\ \A end : Announced(end)' <=> Announced(end)
        BY <2>1 DEF Done, Pending, At, Exhausted, Label, Announced, Finishes
    <2>3. /\ Pairs' = Pairs /\ (\A p : AllDone(p)' <=> AllDone(p))
          /\ \A p : Good(p)' <=> Good(p)
          /\ \A item : Truthful(item) => Truthful(item)'
        BY <2>1, <2>2, Stays DEF AllDone
    <2>4. Ordered' /\ Covered'
        BY <2>1, <2>2, <2>3, OrderKept, CoverKept DEF PairInv
    <2>5. Selected'
        BY <2>1, <2>3 DEF PairInv, Selected, Kept
    <2>6. Level'
        BY <2>1, <2>2 DEF PairInv, Level, Sides
    <2>7. Reading'
        BY <2>1, <2>2 DEF PairInv, Reading, Label
    <2> QED
        BY <2>4, <2>5, <2>6, <2>7 DEF PairInv
<1> QED
    BY <1>1, <1>2, <1>3 DEF Next

LEMMA PairsAlways == Spec => []PairInv
<1>1. Inv /\ Opened /\ PairInv /\ [Next]_vars => PairInv'
    BY NextPairs
<1> QED
    BY <1>1, InitPairs, Invariance, OpenedAlways, PTL DEF Spec

\* What is calibrated is the pairs, by rank, that show the target on both
\* sides, however many other files either directory holds and wherever.
THEOREM PairedByRank == Spec => []PairsByRank
<1>1. ASSUME PairInv PROVE PairsByRank
    <2> SUFFICES ASSUME pc = "calibrate"
                 PROVE  /\ DOMAIN images[1] = DOMAIN images[2]
                        /\ EnumeratesPairs([i \in DOMAIN images[1] |-> [s \in Sides |-> images[s][i]]],
                               {p \in Pairs : \A s \in Sides : Label(s, p[s]) = "SUCCESS"})
        BY DEF PairsByRank
    <2> DEFINE q == [i \in DOMAIN images[1] |-> [s \in Sides |-> images[s][i]]]
               P == {p \in Pairs : \A s \in Sides : Label(s, p[s]) = "SUCCESS"}
    <2>1. /\ DOMAIN images[1] = DOMAIN images[2]
          /\ \A i \in DOMAIN images[1] :
                /\ Kept(i) \in Pairs /\ Good(Kept(i))
                /\ \A j \in DOMAIN images[1] : i < j => \A s \in Sides : Kept(i)[s] < Kept(j)[s]
          /\ \A p \in Pairs : Good(p) => \E i \in DOMAIN images[1] : Kept(i) = p
        BY <1>1 DEF PairInv, Selected
    <2>2. DOMAIN q = DOMAIN images[1] /\ \A i \in DOMAIN q : q[i] = Kept(i)
        BY DEF Kept
    <2>3. \A p : p \in P <=> p \in Pairs /\ Good(p)
        BY DEF Good
    <2> HIDE DEF q, P
    <2>4. EnumeratesPairs(q, P)
        BY <2>1, <2>2, <2>3 DEF EnumeratesPairs
    <2> QED
        BY <2>1, <2>4 DEF q, P
<1> QED
    BY <1>1, PairsAlways, PTL

\* The user is shown every pair, once and in order, with the outcome each
\* side had, whenever the directories were read through.
THEOREM EveryPair == Spec => []ShowsEveryPair
<1>1. ASSUME Inv, PairInv PROVE ShowsEveryPair
    <2> SUFFICES ASSUME result \notin {"none", "extraction failed", "Could not find any image files!"}
                 PROVE  /\ EnumeratesPairs([i \in DOMAIN items |-> [s \in Sides |-> items[i][s].file]], Pairs)
                        /\ \A i \in DOMAIN items, s \in Sides : items[i][s].status = Label(s, items[i][s].file)
        BY DEF ShowsEveryPair
    <2>1. /\ pc = "returned" /\ DOMAIN events = {}
          /\ \A end \in Unread : ~Announced(end)
        BY <1>1, ResultIsLast DEF Unread, Ends
    <2>2. \A p \in Pairs : \E i \in DOMAIN items : FilesOf(items[i]) = p
        BY <1>1, <2>1 DEF PairInv, Covered, Visible
    <2>3. \A i \in DOMAIN items : /\ Truthful(items[i])
                                  /\ \A j \in DOMAIN items : i < j => Before(items[i], items[j])
        BY <1>1 DEF PairInv, Ordered
    <2> DEFINE q == [i \in DOMAIN items |-> [s \in Sides |-> items[i][s].file]]
    <2>4. DOMAIN q = DOMAIN items /\ \A i \in DOMAIN q : q[i] = FilesOf(items[i])
        BY DEF FilesOf
    <2>5. \A i, j \in DOMAIN items : i < j => \A s \in Sides : q[i][s] < q[j][s]
        BY <2>3 DEF Before
    <2> HIDE DEF q
    <2>6. EnumeratesPairs(q, Pairs)
        BY <2>2, <2>3, <2>4, <2>5 DEF EnumeratesPairs, Truthful
    <2> QED
        BY <2>3, <2>6 DEF q, Truthful
<1> QED
    BY <1>1, PairsAlways, Invariance, PTL
-----------------------------------------------------------------------------
(* What the view shows next.  StartCalibration is called after the last    *)
(* item and before nothing but the end, and no calibration ends without.   *)

Starts(q, i) == q[i].call = "StartCalibration"
Started == progress \/ \E i \in DOMAIN events : Starts(events, i)
Late == pc \in {"calibrate", "returned"}

InOrder ==
    /\ progress \in BOOLEAN
    /\ \A i \in DOMAIN events : Starts(events, i) =>
          Late /\ \A j \in DOMAIN events : i < j => Finishes(events, j)
    /\ progress => Late /\ \A i \in DOMAIN events : Finishes(events, i)
    /\ pc = "calibrate" => Started
    /\ \A i \in DOMAIN events : Finishes(events, i) /\ events[i].arg = "calibration" => Started

\* A functor that is posted, and those that were there.
LEMMA QueueGrown ==
    ASSUME Inv, NEW e \in Functors, Post(e)
    PROVE  /\ \A i \in DOMAIN events : i \in DOMAIN events' /\ events'[i] = events[i]
           /\ Len(events') \in DOMAIN events' /\ events'[Len(events')] = e
           /\ \A i \in DOMAIN events' : i \in DOMAIN events \/ i = Len(events')
           /\ \A i, j \in DOMAIN events' : i < j => i \in DOMAIN events
<1>1. /\ Len(events) \in Nat /\ Len(events') = Len(events) + 1
      /\ DOMAIN events = 1 .. Len(events) /\ DOMAIN events' = 1 .. Len(events) + 1
      /\ events'[Len(events) + 1] = e /\ \A i \in 1 .. Len(events) : events'[i] = events[i]
    BY Appended DEF Inv, TypeOK, Post
<1>2. PICK n \in Nat : n = Len(events)
    BY <1>1
<1>3. /\ \A i \in 1 .. n : i \in 1 .. n + 1
      /\ n + 1 \in 1 .. n + 1
      /\ \A i \in 1 .. n + 1 : i \in 1 .. n \/ i = n + 1
      /\ \A i, j \in 1 .. n + 1 : i < j => i \in 1 .. n
    BY <1>2
<1> QED
    BY <1>1, <1>2, <1>3

\* Before the calibration nothing is posted but items.
LEMMA ItemsInOrder ==
    ASSUME Inv, InOrder, ~Late, ~Late', UNCHANGED progress,
           UNCHANGED events \/ Post(ItemEvent(data))
    PROVE  InOrder'
<1>1. /\ progress = FALSE
      /\ \A i \in DOMAIN events : ~Starts(events, i) /\ ~Finishes(events, i)
    BY DEF InOrder, Inv, History, Late
<1>2. \A i \in DOMAIN events' : ~Starts(events', i) /\ ~Finishes(events', i)
    <2>1. CASE UNCHANGED events
        BY <1>1, <2>1 DEF Starts, Finishes
    <2>2. CASE Post(ItemEvent(data))
        <3>1. ItemEvent(data) \in Functors /\ ItemEvent(data).call = "AddExtractionItem"
            BY FunctorFacts DEF Inv, TypeOK
        <3>2. \A i \in DOMAIN events' :
                 \/ i \in DOMAIN events /\ events'[i] = events[i]
                 \/ events'[i] = ItemEvent(data)
            BY <2>2, <3>1, QueueGrown
        <3> QED
            BY <1>1, <3>1, <3>2 DEF Starts, Finishes
    <2> QED
        BY <2>1, <2>2
<1> QED
    BY <1>1, <1>2 DEF InOrder, Late

LEMMA BeginInOrder ==
    ASSUME Inv, InOrder, BeginCalibration, UNCHANGED progress
    PROVE  InOrder'
<1>1. pc = "read" /\ pc' = "calibrate" /\ Post(StartEvent)
    BY DEF BeginCalibration
<1>2. /\ progress = FALSE
      /\ \A i \in DOMAIN events : ~Starts(events, i) /\ ~Finishes(events, i)
    BY <1>1 DEF InOrder, Inv, History, Late
<1>3. StartEvent \in Functors /\ StartEvent.call = "StartCalibration"
    BY FunctorFacts
<1>4. /\ \A i \in DOMAIN events : i \in DOMAIN events' /\ events'[i] = events[i]
      /\ Len(events') \in DOMAIN events' /\ events'[Len(events')] = StartEvent
      /\ \A i \in DOMAIN events' : i \in DOMAIN events \/ i = Len(events')
      /\ \A i, j \in DOMAIN events' : i < j => i \in DOMAIN events
    BY <1>1, <1>3, QueueGrown
<1>5. \A i \in DOMAIN events' : ~Finishes(events', i)
    BY <1>2, <1>3, <1>4 DEF Finishes
<1>6. \A i \in DOMAIN events' : Starts(events', i) => \A j \in DOMAIN events' : ~(i < j)
    BY <1>2, <1>4 DEF Starts
<1>7. Started'
    BY <1>3, <1>4 DEF Started, Starts
<1> QED
    BY <1>1, <1>2, <1>5, <1>6, <1>7 DEF InOrder, Late

LEMMA ExitInOrder ==
    ASSUME Inv, InOrder, UNCHANGED progress,
           RefuseDirectories \/ FailExtraction \/ RefuseToCalibrate \/ Calibrate
    PROVE  InOrder'
<1>1. PICK end \in Ends : /\ Post(EndEvent(end))
                          /\ end = "calibration" => pc = "calibrate"
    BY Exits DEF Calibrate, Ends, Unread
<1>2. pc # "returned" /\ pc' = "returned"
    BY Exits
<1>3. /\ EndEvent(end) \in Functors /\ EndEvent(end).call = "EndCalibration"
      /\ EndEvent(end).arg = end
    BY FunctorFacts
<1>4. /\ \A i \in DOMAIN events : i \in DOMAIN events' /\ events'[i] = events[i]
      /\ events'[Len(events')] = EndEvent(end)
      /\ \A i \in DOMAIN events' : i \in DOMAIN events \/ i = Len(events')
      /\ \A i, j \in DOMAIN events' : i < j => i \in DOMAIN events
    BY <1>1, <1>3, QueueGrown
<1>5. Finishes(events', Len(events')) /\ ~Starts(events', Len(events'))
    BY <1>3, <1>4 DEF Finishes, Starts
<1>6. \A i \in DOMAIN events : /\ Finishes(events', i) <=> Finishes(events, i)
                               /\ Starts(events', i) <=> Starts(events, i)
    BY <1>4 DEF Finishes, Starts
<1>7. \A i \in DOMAIN events' : Starts(events', i) =>
          \A j \in DOMAIN events' : i < j => Finishes(events', j)
    BY <1>4, <1>5, <1>6 DEF InOrder
<1>8. progress' => \A i \in DOMAIN events' : Finishes(events', i)
    BY <1>4, <1>5, <1>6 DEF InOrder
<1>9. Started => Started'
    BY <1>4, <1>6 DEF Started
<1>10. \A i \in DOMAIN events' : Finishes(events', i) /\ events'[i].arg = "calibration" => Started'
    <2> SUFFICES ASSUME NEW i \in DOMAIN events', Finishes(events', i),
                        events'[i].arg = "calibration"
                 PROVE  Started'
        OBVIOUS
    <2>1. i \notin DOMAIN events
        BY <1>2, <1>6 DEF Inv, History
    <2>2. end = "calibration"
        BY <1>3, <1>4, <2>1
    <2> QED
        BY <1>1, <1>9, <2>2 DEF InOrder
<1> QED
    BY <1>2, <1>7, <1>8, <1>10 DEF InOrder, Late

LEMMA FunctorInOrder ==
    ASSUME Inv, InOrder, RunFunctor, UNCHANGED workerVars
    PROVE  InOrder'
<1>1. /\ \A i \in DOMAIN events' : i + 1 \in DOMAIN events /\ events'[i] = events[i + 1] /\ 1 < i + 1
      /\ \A i \in DOMAIN events : i = 1 \/ (i - 1 \in DOMAIN events' /\ events'[i - 1] = events[i])
      /\ \A i, j \in DOMAIN events' : i < j => i + 1 < j + 1
      /\ Head(events) = events[1] /\ 1 \in DOMAIN events
    BY RunFinds
<1>2. pc' = pc /\ (Late' <=> Late)
    BY DEF workerVars, Late
<1>3. \A i \in DOMAIN events' : /\ Starts(events', i) <=> Starts(events, i + 1)
                                /\ Finishes(events', i) <=> Finishes(events, i + 1)
                                /\ events'[i].arg = events[i + 1].arg
    BY <1>1 DEF Starts, Finishes
<1>4. \A i \in DOMAIN events' : Starts(events', i) =>
          Late /\ \A j \in DOMAIN events' : i < j => Finishes(events', j)
    BY <1>1, <1>3 DEF InOrder
<1>5. CASE AddExtractionItem
    <2>1. ~Starts(events, 1) /\ ~Finishes(events, 1) /\ UNCHANGED progress
        BY <1>1, <1>5 DEF AddExtractionItem, Due, Starts, Finishes
    <2>2. ~progress
        BY <1>1, <2>1 DEF InOrder
    <2>3. Started => Started'
        <3>1. ASSUME NEW i \in DOMAIN events, Starts(events, i) PROVE Started'
            <4>1. i - 1 \in DOMAIN events' /\ events'[i - 1] = events[i]
                BY <1>1, <2>1, <3>1
            <4> QED
                BY <3>1, <4>1 DEF Started, Starts
        <3> QED
            BY <2>2, <3>1 DEF Started
    <2> QED
        BY <1>1, <1>2, <1>3, <1>4, <2>1, <2>2, <2>3 DEF InOrder
<1>6. CASE StartCalibration
    <2>1. Starts(events, 1) /\ progress' = TRUE
        BY <1>1, <1>6 DEF StartCalibration, Due, Starts
    <2>2. Late /\ \A i \in DOMAIN events' : Finishes(events', i)
        BY <1>1, <1>3, <2>1 DEF InOrder
    <2> QED
        BY <1>2, <1>4, <2>1, <2>2 DEF InOrder, Started
<1>7. CASE EndCalibration
    <2>1. Finishes(events, 1) /\ progress' = FALSE
        BY <1>1, <1>7 DEF EndCalibration, Due, Finishes
    <2>2. pc = "returned" /\ Len(events) = 1
        BY <1>1, <2>1 DEF Inv, History
    <2>3. DOMAIN events' = {}
        <3>1. DOMAIN events' = 1 .. Len(events) - 1
            BY RunFinds
        <3> QED
            BY <2>2, <3>1
    <2> QED
        BY <1>2, <2>1, <2>2, <2>3 DEF InOrder
<1> QED
    BY <1>5, <1>6, <1>7 DEF RunFunctor

LEMMA NextInOrder == ASSUME Inv, InOrder, [Next]_vars PROVE InOrder'
<1>1. CASE Worker
    <2>1. UNCHANGED progress
        BY <1>1 DEF Worker, widgetVars
    <2>2. CASE Construct \/ Setup \/ ReadBoth \/ (\E s \in Sides : SkipFile(s)) \/ PairImages
        <3>1. ~Late /\ ~Late' /\ (UNCHANGED events \/ Post(ItemEvent(data)))
            BY <2>2 DEF Construct, Setup, ReadBoth, SkipFile, PairImages, Late
        <3> QED
            BY <2>1, <3>1, ItemsInOrder
    <2> QED
        BY <1>1, <2>1, <2>2, BeginInOrder, ExitInOrder DEF Worker
<1>2. CASE EventLoop
    BY <1>2, FunctorInOrder DEF EventLoop
<1>3. CASE UNCHANGED vars
    <2>1. UNCHANGED <<events, progress, pc>>
        BY <1>3 DEF vars, workerVars, widgetVars
    <2> QED
        BY <2>1 DEF InOrder, Started, Late, Starts, Finishes
<1> QED
    BY <1>1, <1>2, <1>3 DEF Next

\* Of two directories, too, the items, the progress bar and the one result come
\* to the view in the order CalibrationView promises, whatever Run throws.
THEOREM PairsPromised == Spec => View!Spec
<1>1. Init => View!Init /\ InOrder
    <2> SUFFICES ASSUME Init PROVE View!Init /\ InOrder
        OBVIOUS
    <2>1. DOMAIN events = {} /\ progress = FALSE /\ pc = "start"
        BY DEF Init, WidgetInit
    <2> QED
        BY <2>1 DEF Init, WidgetInit, View!Init, InOrder
<1>2. ASSUME Inv, InOrder, [Next]_vars PROVE [View!Next]_View!view
    <2>1. CASE Worker \/ UNCHANGED vars
        BY <2>1 DEF Worker, vars, widgetVars, View!view
    <2>2. CASE AddExtractionItem
        <3>1. RunFunctor
            BY <2>2 DEF RunFunctor
        <3>2. /\ Head(events) = events[1] /\ 1 \in DOMAIN events /\ Head(events) \in Functors
              /\ calibration_ended_ = FALSE /\ result = "none"
            BY <1>2, <3>1, RunFinds
        <3>3. Head(events).arg \in Items
            BY <2>2, <3>2, FunctorFacts DEF AddExtractionItem, Due
        <3>4. ~progress
            <4>1. ~Finishes(events, 1)
                BY <2>2, <3>2 DEF AddExtractionItem, Due, Finishes
            <4> QED
                BY <1>2, <3>2, <4>1 DEF InOrder
        <3>5. CASE target_visualizer_
            <4>1. items' = Append(items, Head(events).arg)
                BY <2>2, <3>2, <3>5 DEF AddExtractionItem
            <4>2. items' # <<>> /\ items'[Len(items')] = Head(events).arg
                BY <1>2, <3>3, <4>1, Appended DEF Inv, TypeOK
            <4> QED
                BY <2>2, <3>2, <3>4, <4>1, <4>2 DEF AddExtractionItem, View!AddItem, View!Next
        <3>6. CASE ~target_visualizer_
            BY <2>2, <3>6 DEF AddExtractionItem, View!view
        <3> QED
            BY <3>5, <3>6
    <2>3. CASE StartCalibration
        <3>1. RunFunctor
            BY <2>3 DEF RunFunctor
        <3>2. Head(events) = events[1] /\ 1 \in DOMAIN events /\ result = "none"
            BY <1>2, <3>1, RunFinds
        <3>3. ~Finishes(events, 1)
            BY <2>3, <3>2 DEF StartCalibration, Due, Finishes
        <3>4. progress = FALSE
            BY <1>2, <3>2, <3>3 DEF InOrder
        <3> QED
            BY <2>3, <3>2, <3>4 DEF StartCalibration, View!StartProgress, View!Next
    <2>4. CASE EndCalibration
        <3>1. RunFunctor
            BY <2>4 DEF RunFunctor
        <3>2. /\ Head(events) = events[1] /\ 1 \in DOMAIN events /\ Head(events) \in Functors
              /\ result = "none" /\ Len(events) \in Nat \ {0} /\ DOMAIN events = 1 .. Len(events)
            BY <1>2, <3>1, RunFinds
        <3>3. Finishes(events, 1) /\ Head(events).arg \in Ends
            BY <2>4, <3>2, FunctorFacts DEF EndCalibration, Due, Finishes
        <3>4. CASE Head(events).arg = "calibration"
            <4>1. Len(events) = 1
                BY <1>2, <3>2, <3>3 DEF Inv, History
            <4>2. \A i \in DOMAIN events : i = 1
                BY <3>2, <4>1
            <4>3. ~Starts(events, 1)
                BY <3>3 DEF Starts, Finishes
            <4>4. Started
                BY <1>2, <3>2, <3>3, <3>4 DEF InOrder
            <4>5. progress
                BY <4>2, <4>3, <4>4 DEF Started
            <4> QED
                BY <2>4, <3>2, <3>4, <4>5 DEF EndCalibration, View!ShowCalibration, View!Next
        <3>5. CASE Head(events).arg # "calibration"
            <4>1. Head(events).arg \in Messages
                BY <3>3, <3>5, MessagesAssumption DEF Ends, Unread
            <4> QED
                BY <2>4, <3>2, <4>1 DEF EndCalibration, View!ShowMessage, View!Next
        <3> QED
            BY <3>4, <3>5
    <2> QED
        BY <1>2, <2>1, <2>2, <2>3, <2>4 DEF Next, EventLoop, RunFunctor
<1> QED
    BY <1>1, <1>2, NextInOrder, Invariance, PTL DEF Spec, View!Spec
=============================================================================
