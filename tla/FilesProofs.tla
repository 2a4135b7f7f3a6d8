----------------------------- MODULE FilesProofs -----------------------------
(***************************************************************************)
(* The calibration from files, for every directory, set of image sizes and *)
(* camera model: its view is what CalibrationView promises, and options    *)
(* that a dialog accepted are never refused by a calibrator.               *)
(***************************************************************************)
EXTENDS FilesRunner, FiniteSetTheorems, SequenceTheorems, TLAPS

\* What EndCalibration is called with.
Ends == {"calibration", "No readable images in provided directory!", "No images to calibrate from.",
         "extraction failed", "calibration failed", "images not registered"}

Statuses == {"SUCCESS", "DETECTION_ERROR", "READ_ERROR", "IMAGE_DIMENSION_MISSMATCH"}
Items == [file : Nat, status : Statuses]
Functors == {ItemEvent(item) : item \in Items} \cup {StartEvent} \cup {EndEvent(end) : end \in Ends}

TypeOK ==
    /\ dir \in Seq(Files) /\ reader \in Readers
    /\ events \in Seq(Functors) /\ items \in Seq(Items)
    /\ progress \in BOOLEAN /\ calibration_ended_ \in BOOLEAN
    /\ result \in Ends \cup {"none"}

\* The posted functors are the part of the view's history that is still to
\* come: items, then at most one start, then at most one end, which shows a
\* calibration only right behind a start.
Starts(q, i) == q[i].call = "StartCalibration"
Finishes(q, i) == q[i].call = "EndCalibration"
StartsLast == IF events = <<>> THEN progress ELSE Starts(events, Len(events))

History ==
    /\ \A i \in DOMAIN events : Starts(events, i) => /\ pc \in {"calibrate", "returned"}
                                             /\ \A j \in DOMAIN events : i < j => Finishes(events, j)
    /\ \A i \in DOMAIN events : Finishes(events, i) => pc = "returned" /\ i = Len(events)
    /\ \A i \in DOMAIN events : Finishes(events, i) /\ events[i].arg = "calibration"
                                  => IF i = 1 THEN progress ELSE Starts(events, i - 1)
    /\ progress => pc \in {"calibrate", "returned"} /\ \A i \in DOMAIN events : Finishes(events, i)
    /\ pc = "calibrate" => StartsLast
    /\ calibration_ended_ => pc = "returned" /\ events = <<>>
    /\ ~calibration_ended_ => result = "none"

\* What the set-up leaves for the calibrator's checks of the camera.
SetUp ==
    /\ options_ \in Options
    /\ pc \in {"start", "terminated"} => reader.image_paths_ = <<>>
    /\ pc \in {"start", "size"} => camera = NoCamera
    /\ pc \in {"read", "calibrate"} /\ Calibrator # "HousingCalibrator" =>
          camera.refractive = WithHousing /\ (WithGuess => camera.params = "given")

Inv == TypeOK /\ History /\ SetUp

-----------------------------------------------------------------------------
(* Functors and the queue *)

LEMMA FunctorFacts ==
    /\ \A item \in Items : /\ ItemEvent(item) \in Functors
                           /\ ItemEvent(item).call = "AddExtractionItem"
    /\ StartEvent \in Functors /\ StartEvent.call = "StartCalibration"
    /\ \A end \in Ends : /\ EndEvent(end) \in Functors
                         /\ EndEvent(end).call = "EndCalibration" /\ EndEvent(end).arg = end
    /\ \A e \in Functors : /\ e.call = "AddExtractionItem" => e.arg \in Items
                           /\ e.call = "EndCalibration" => e.arg \in Ends
<1>1. /\ \A item \in Items : ItemEvent(item) \in Functors
      /\ \A end \in Ends : EndEvent(end) \in Functors
      /\ StartEvent \in Functors
    BY DEF Functors
<1>2. \A item : ItemEvent(item).call = "AddExtractionItem" /\ ItemEvent(item).arg = item
    BY DEF ItemEvent
<1>3. \A end : EndEvent(end).call = "EndCalibration" /\ EndEvent(end).arg = end
    BY DEF EndEvent
<1>4. StartEvent.call = "StartCalibration"
    BY DEF StartEvent
<1>5. ASSUME NEW e \in Functors
      PROVE  /\ e.call = "AddExtractionItem" => e.arg \in Items
             /\ e.call = "EndCalibration" => e.arg \in Ends
    <2>1. CASE \E item \in Items : e = ItemEvent(item)
        BY <1>2, <2>1
    <2>2. CASE e = StartEvent
        BY <1>4, <2>2
    <2>3. CASE \E end \in Ends : e = EndEvent(end)
        BY <1>3, <2>3
    <2> QED
        BY <2>1, <2>2, <2>3 DEF Functors
<1> QED
    BY <1>1, <1>2, <1>3, <1>4, <1>5

LEMMA Appended ==
    ASSUME NEW S, NEW s \in Seq(S), NEW e \in S, NEW t, t = Append(s, e)
    PROVE  /\ t \in Seq(S) /\ Len(s) \in Nat /\ Len(t) = Len(s) + 1
           /\ DOMAIN s = 1 .. Len(s) /\ DOMAIN t = 1 .. Len(s) + 1
           /\ t[Len(s) + 1] = e /\ \A i \in 1 .. Len(s) : t[i] = s[i]
           /\ t # <<>>
<1>1. t \in Seq(S) /\ Len(t) = Len(s) + 1 /\ t[Len(s) + 1] = e /\ \A i \in 1 .. Len(s) : t[i] = s[i]
    BY AppendProperties
<1>2. Len(s) \in Nat /\ DOMAIN s = 1 .. Len(s)
    BY LenProperties
<1>3. DOMAIN t = 1 .. Len(t)
    BY <1>1, LenProperties
<1>4. t # <<>>
    BY AppendProperties
<1> QED
    BY <1>1, <1>2, <1>3, <1>4

LEMMA TailShifts ==
    ASSUME NEW S, NEW s \in Seq(S), s # <<>>, NEW t, t = Tail(s)
    PROVE  /\ t \in Seq(S) /\ Len(s) \in Nat \ {0} /\ Len(t) = Len(s) - 1
           /\ DOMAIN s = 1 .. Len(s) /\ DOMAIN t = 1 .. Len(s) - 1
           /\ \A i \in 1 .. Len(s) - 1 : t[i] = s[i + 1]
           /\ Head(s) = s[1] /\ Head(s) \in S
           /\ t = <<>> <=> Len(s) = 1
<1>1. Len(s) \in Nat \ {0} /\ DOMAIN s = 1 .. Len(s)
    BY EmptySeq, LenProperties
<1>2. /\ Head(s) \in S /\ t \in Seq(S) /\ Len(t) = Len(s) - 1
      /\ \A i \in 1 .. Len(t) : t[i] = s[i + 1]
    BY HeadTailProperties
<1>3. DOMAIN t = 1 .. Len(t)
    BY <1>2, LenProperties
<1>4. Head(s) = s[1]
    OBVIOUS
<1>5. ASSUME t = <<>> PROVE Len(s) = 1
    <2>1. Len(t) = 0
        BY <1>5, EmptySeq
    <2> QED
        BY <1>1, <1>2, <2>1
<1>6. ASSUME t # <<>> PROVE Len(s) # 1
    <2>1. Len(t) \in Nat \ {0}
        BY <1>2, <1>6, EmptySeq
    <2> QED
        BY <1>1, <1>2, <2>1
<1> QED
    BY <1>1, <1>2, <1>3, <1>4, <1>5, <1>6

-----------------------------------------------------------------------------
(* What posting does to the history *)

UnseenVars == <<items, progress, result, calibration_ended_>>

LEMMA NothingPosted ==
    ASSUME TypeOK, History, UNCHANGED <<events, UnseenVars>>,
           pc \in {"start", "size"}, pc' \in {"size", "read", "terminated"}
    PROVE  History'
BY DEF History, Starts, Finishes, StartsLast, UnseenVars

LEMMA ItemPosted ==
    ASSUME TypeOK, History, NEW item \in Items, Post(ItemEvent(item)),
           pc = "read", pc' = "read", UNCHANGED UnseenVars
    PROVE  History'
<1>1. /\ events \in Seq(Functors) /\ events' = Append(events, ItemEvent(item))
      /\ ItemEvent(item) \in Functors /\ ItemEvent(item).call = "AddExtractionItem"
    BY FunctorFacts DEF TypeOK, Post
<1>2. /\ Len(events) \in Nat
      /\ DOMAIN events = 1 .. Len(events) /\ DOMAIN events' = 1 .. Len(events) + 1
      /\ events'[Len(events) + 1] = ItemEvent(item)
      /\ \A i \in 1 .. Len(events) : events'[i] = events[i]
    BY <1>1, Appended
<1>3. \A i \in DOMAIN events' : ~Starts(events', i) /\ ~Finishes(events', i)
    BY <1>1, <1>2 DEF History, Starts, Finishes
<1> QED
    BY <1>3 DEF History, UnseenVars

LEMMA StartPosted ==
    ASSUME TypeOK, History, Post(StartEvent),
           pc = "read", pc' = "calibrate", UNCHANGED UnseenVars
    PROVE  History'
<1>1. /\ events \in Seq(Functors) /\ events' = Append(events, StartEvent)
      /\ StartEvent \in Functors /\ StartEvent.call = "StartCalibration"
    BY FunctorFacts DEF TypeOK, Post
<1>2. /\ Len(events) \in Nat /\ Len(events') = Len(events) + 1 /\ events' # <<>>
      /\ DOMAIN events = 1 .. Len(events) /\ DOMAIN events' = 1 .. Len(events) + 1
      /\ events'[Len(events) + 1] = StartEvent
      /\ \A i \in 1 .. Len(events) : events'[i] = events[i]
    BY <1>1, Appended
<1>3. \A i \in DOMAIN events' : ~Finishes(events', i) /\ (Starts(events', i) <=> i = Len(events) + 1)
    BY <1>1, <1>2 DEF History, Starts, Finishes
<1>4. StartsLast'
    BY <1>2, <1>3 DEF StartsLast
<1> QED
    BY <1>2, <1>3, <1>4 DEF History, UnseenVars

LEMMA EndPosted ==
    ASSUME TypeOK, History, NEW end \in Ends, Post(EndEvent(end)),
           pc \in {"size", "read", "calibrate"}, end = "calibration" => pc = "calibrate",
           pc' = "returned", UNCHANGED UnseenVars
    PROVE  History'
<1>1. /\ events \in Seq(Functors) /\ events' = Append(events, EndEvent(end))
      /\ EndEvent(end) \in Functors /\ EndEvent(end).call = "EndCalibration" /\ EndEvent(end).arg = end
    BY FunctorFacts DEF TypeOK, Post
<1>2. /\ Len(events) \in Nat /\ Len(events') = Len(events) + 1
      /\ DOMAIN events = 1 .. Len(events) /\ DOMAIN events' = 1 .. Len(events) + 1
      /\ events'[Len(events) + 1] = EndEvent(end)
      /\ \A i \in 1 .. Len(events) : events'[i] = events[i]
      /\ events = <<>> => Len(events) = 0
    BY <1>1, Appended, EmptySeq
<1>3. \A i \in DOMAIN events' : Finishes(events', i) <=> i = Len(events')
    BY <1>1, <1>2 DEF History, Finishes
<1>4. \A i \in DOMAIN events : Starts(events', i) <=> Starts(events, i)
    BY <1>2 DEF Starts
<1>5. ~Starts(events', Len(events'))
    BY <1>1, <1>2 DEF Starts
<1>6. \A i \in DOMAIN events' : Starts(events', i) => \A j \in DOMAIN events' : i < j => Finishes(events', j)
    <2> SUFFICES ASSUME NEW i \in DOMAIN events', Starts(events', i), NEW j \in DOMAIN events', i < j
                 PROVE  Finishes(events', j)
        OBVIOUS
    <2>1. i \in DOMAIN events /\ Starts(events, i)
        BY <1>2, <1>4, <1>5
    <2>2. j \in DOMAIN events => Finishes(events, j)
        BY <2>1 DEF History
    <2>3. j \notin DOMAIN events
        BY <2>2 DEF History
    <2> QED
        BY <1>2, <1>3, <2>3
<1>7. end = "calibration" => IF Len(events') = 1 THEN progress' ELSE Starts(events', Len(events') - 1)
    <2>1. end = "calibration" => StartsLast
        BY DEF History
    <2>2. events # <<>> => Len(events) \in DOMAIN events
        BY <1>1, <1>2, EmptySeq
    <2> QED
        BY <1>2, <1>4, <2>1, <2>2 DEF StartsLast, UnseenVars
<1>8. \A i \in DOMAIN events' : Finishes(events', i) /\ events'[i].arg = "calibration"
          => IF i = 1 THEN progress' ELSE Starts(events', i - 1)
    BY <1>1, <1>2, <1>3, <1>7
<1>9. progress' => \A i \in DOMAIN events' : Finishes(events', i)
    <2> SUFFICES ASSUME progress' PROVE \A i \in DOMAIN events : Finishes(events', i)
        BY <1>2, <1>3
    <2> QED
        BY <1>2 DEF History, Finishes, UnseenVars
<1>10. calibration_ended_' = FALSE /\ result' = "none"
    BY DEF History, TypeOK, UnseenVars
<1> QED
    BY <1>3, <1>6, <1>8, <1>9, <1>10 DEF History

-----------------------------------------------------------------------------
(* The reader *)

LEMMA ReaderConstructed ==
    ASSUME NEW d \in Seq(Files), NEW r \in NewReaders(d)
    PROVE  r \in Readers
<1>1. \A k \in DOMAIN d : Readable(d[k]) => d[k].size \in Sizes
    BY LenProperties DEF Files, Readable
<1>2. PICK size \in Sizes \cup {NoSize} :
          r = [image_paths_ |-> d, file_index_ |-> 0, image_size_ |-> size]
    <2>1. {d[k].size : k \in ReadableFiles(d)} \subseteq Sizes
        BY <1>1 DEF ReadableFiles
    <2> QED
        BY <2>1 DEF NewReaders
<1> QED
    BY <1>2 DEF Readers

LEMMA ReaderAdvanced ==
    ASSUME NEW r \in Readers, HasNext(r)
    PROVE  AfterNext(r) \in Readers /\ ItemStatus(r) \in Statuses /\ AfterNext(r).file_index_ \in Nat
<1>1. NextFile(r) \in Files
    BY LenProperties DEF Readers, HasNext, NextFile
<1>2. Readable(NextFile(r)) => NextFile(r).size \in Sizes
    BY <1>1 DEF Files, Readable
<1>3. AfterNext(r) \in Readers
    <2> DEFINE size == IF r.image_size_ = NoSize /\ Readable(NextFile(r)) THEN NextFile(r).size
                       ELSE r.image_size_
    <2>1. /\ r.image_paths_ \in Seq(Files) /\ r.file_index_ \in Nat
          /\ r = [image_paths_ |-> r.image_paths_, file_index_ |-> r.file_index_, image_size_ |-> r.image_size_]
          /\ size \in Sizes \cup {NoSize}
        BY <1>2 DEF Readers
    <2>2. AfterNext(r) = [r EXCEPT !.file_index_ = @ + 1, !.image_size_ = size]
        BY DEF AfterNext
    <2>3. AfterNext(r) = [image_paths_ |-> r.image_paths_, file_index_ |-> r.file_index_ + 1,
                          image_size_ |-> size]
        BY <2>1, <2>2
    <2> QED
        BY <2>1, <2>3 DEF Readers
<1>4. NextStatus(r) \in {"READ_ERROR", "SUCCESS", "IMAGE_DIMENSION_MISSMATCH"}
    BY DEF NextStatus
<1>5. ExtractStatus(NextFile(r)) \in {"SUCCESS", "DETECTION_ERROR"}
    BY DEF ExtractStatus
<1>6. ItemStatus(r) \in Statuses
    BY <1>4, <1>5 DEF ItemStatus, Statuses
<1> QED
    BY <1>3, <1>6 DEF Readers

-----------------------------------------------------------------------------
(* The options *)

\* Accepted options are what the form holds, and fit each other.
LEMMA AcceptedFit ==
    ASSUME NEW o \in Options
    PROVE  /\ \A h \in o.housing_calibration :
                 /\ Len(h.parameters) = HousingInterfaces[h.type]
                 /\ h.type = "FLATPORT" => IsNormalized(h.parameters)
           /\ \A p \in o.initial_camera_parameters : Len(p) = CameraModels[o.camera_model]
           /\ o.housing_calibration # {} => o.initial_camera_parameters # {}
           /\ o.calibration_target_options.type = "Chessboard" =>
                 o.calibration_target_options.columns > 0 /\ o.calibration_target_options.rows > 0
<1>1. PICK f \in Forms : Validate(f) /\ o = Accepted(f)
    BY DEF Options
<1>2. HousingAccepted(f.housing) /\ CameraAccepted(f) /\ (f.housing # {} => f.initial # {})
    BY <1>1 DEF Validate
<1>3. /\ o.housing_calibration = f.housing /\ o.initial_camera_parameters = f.initial
      /\ o.camera_model = f.camera_model /\ o.calibration_target_options = f.target
    BY <1>1, <1>2 DEF Accepted, GetOptions, AfterValidate
<1>4. f.target \in {Chessboard(4, 5, 20), ArucoBoard("4X4", "TopLeft", "Horizontal", 3, 2, 20, 5, 1),
                    Target3D, Target3DAruco("5X5", 1500)}
    BY DEF Forms
<1>5. f.target.type = "Chessboard" => f.target.columns > 0 /\ f.target.rows > 0
    BY <1>4 DEF Chessboard, ArucoBoard, Target3D, Target3DAruco
<1> QED
    BY <1>2, <1>3, <1>5 DEF HousingAccepted, CameraAccepted

\* No check of a calibrator fails on the options and on the camera of SetUp.
LEMMA NothingRefused ==
    ASSUME SetUp, pc = "calibrate"
    PROVE  Refusals \subseteq {"No images to calibrate from."}
<1>1. options_ \in Options
    BY DEF SetUp
<1>2. CASE Calibrator = "HousingCalibrator"
    <2>1. WithHousing
        BY <1>2 DEF Calibrator
    <2> DEFINE h == CHOOSE x \in options_.housing_calibration : TRUE
               p == CHOOSE x \in options_.initial_camera_parameters : TRUE
               t == options_.calibration_target_options
    <2>2. h \in options_.housing_calibration /\ p \in options_.initial_camera_parameters
        BY <1>1, <2>1, AcceptedFit DEF WithHousing
    <2>3. /\ Len(h.parameters) = HousingInterfaces[h.type]
          /\ h.type = "FLATPORT" => IsNormalized(h.parameters)
          /\ Len(p) = CameraModels[options_.camera_model]
          /\ t.type = "Chessboard" => ~(t.columns =< 0) /\ ~(t.rows =< 0)
        <3>1. t.type = "Chessboard" => t.columns > 0 /\ t.rows > 0
            BY <1>1, AcceptedFit
        <3>2. t.type = "Chessboard" => t.columns \in Int /\ t.rows \in Int
            BY <1>1 DEF Options, Forms, Accepted, GetOptions, Chessboard, ArucoBoard, Target3D, Target3DAruco
        <3> QED
            BY <1>1, <2>2, <3>1, <3>2, AcceptedFit
    <2>4. HousingRefusals = {}
        BY <2>3 DEF HousingRefusals
    <2> QED
        BY <1>2, <2>4 DEF Refusals
<1>3. CASE Calibrator # "HousingCalibrator"
    <2>1. camera.refractive = WithHousing /\ (WithGuess => camera.params = "given")
        BY <1>3 DEF SetUp
    <2>2. WithHousing => WithGuess
        BY <1>1, AcceptedFit DEF WithHousing, WithGuess
    <2>3. CameraRefusals = {}
        BY <2>1, <2>2 DEF CameraRefusals
    <2> QED
        BY <1>3, <2>3 DEF Refusals
<1> QED
    BY <1>2, <1>3

-----------------------------------------------------------------------------
(* The initial states and the steps *)

LEMMA InitInv == Init => Inv
<1> SUFFICES ASSUME Init PROVE Inv
    OBVIOUS
<1>1. dir \in Seq(Files)
    BY MaxFilesAssumption, SeqDef DEF Init, Directories
<1>2. reader \in Readers /\ reader.image_paths_ = <<>>
    BY EmptySeq DEF Init, Readers
<1>3. events = <<>> /\ items = <<>> /\ events \in Seq(Functors) /\ items \in Seq(Items)
    BY EmptySeq DEF Init, WidgetInit
<1>4. DOMAIN events = {}
    BY <1>3
<1>5. TypeOK
    BY <1>1, <1>2, <1>3 DEF Init, WidgetInit, TypeOK
<1>6. History
    BY <1>4 DEF Init, WidgetInit, History
<1>7. SetUp
    BY <1>2 DEF Init, SetUp
<1> QED
    BY <1>5, <1>6, <1>7 DEF Inv

\* Posting keeps the types.
LEMMA PostType ==
    ASSUME TypeOK, NEW e \in Functors, Post(e), dir' = dir, reader' \in Readers, UNCHANGED UnseenVars
    PROVE  TypeOK'
<1>1. events' \in Seq(Functors)
    BY Appended DEF TypeOK, Post
<1> QED
    BY <1>1 DEF TypeOK, UnseenVars

\* A way out of Run: a result is posted, and the options stay.
LEMMA WayOut ==
    ASSUME Inv, NEW end \in Ends, Post(EndEvent(end)), pc \in {"size", "read", "calibrate"},
           end = "calibration" => pc = "calibrate", pc' = "returned",
           dir' = dir, options_' = options_, reader' \in Readers, UNCHANGED UnseenVars
    PROVE  Inv'
<1>1. TypeOK'
    BY PostType, FunctorFacts DEF Inv
<1>2. History'
    BY EndPosted DEF Inv
<1>3. SetUp'
    BY DEF Inv, SetUp
<1> QED
    BY <1>1, <1>2, <1>3 DEF Inv

LEMMA ConstructInv == ASSUME Inv, Construct, UNCHANGED widgetVars PROVE Inv'
<1> USE DEF Construct, widgetVars
<1>1. reader' \in Readers
    BY ReaderConstructed DEF Inv, TypeOK
<1>2. TypeOK'
    BY <1>1 DEF Inv, TypeOK
<1>3. History'
    BY NothingPosted DEF Inv, UnseenVars
<1>4. SetUp'
    BY DEF Inv, SetUp
<1> QED
    BY <1>2, <1>3, <1>4 DEF Inv

LEMMA SetupInv == ASSUME Inv, Setup, UNCHANGED widgetVars PROVE Inv' /\ pc' = "read"
<1>1. options_' = options_ /\ options_ \in Options
    BY DEF Setup, Inv, SetUp
<1>2. Calibrator = "HousingCalibrator" => WithHousing
    BY DEF Calibrator
<1>3. WithHousing => WithGuess
    BY <1>1, AcceptedFit DEF WithHousing, WithGuess
<1>4. pc = "size" /\ pc' = "read" /\ UNCHANGED <<dir, reader, events>>
    BY <1>2, <1>3 DEF Setup
<1>5. TypeOK'
    BY <1>4 DEF Inv, TypeOK, widgetVars
<1>6. History'
    BY <1>4, NothingPosted DEF Inv, UnseenVars, widgetVars
<1>7. ASSUME Calibrator # "HousingCalibrator"
      PROVE  camera'.refractive = WithHousing /\ (WithGuess => camera'.params = "given")
    <2>1. camera' = [(IF WithGuess THEN GivenCamera ELSE camera) EXCEPT !.refractive = WithHousing]
        BY <1>7 DEF Setup
    <2>2. camera = NoCamera
        BY <1>4 DEF Inv, SetUp
    <2> QED
        BY <2>1, <2>2 DEF GivenCamera, NoCamera
<1>8. SetUp'
    BY <1>1, <1>4, <1>7 DEF SetUp, WithHousing, WithGuess, Calibrator
<1> QED
    BY <1>4, <1>5, <1>6, <1>8 DEF Inv

LEMMA ReadImageInv == ASSUME Inv, ReadImage, UNCHANGED widgetVars PROVE Inv'
<1> DEFINE status == ItemStatus(reader)
<1>1. /\ pc = "read" /\ pc' = "read" /\ HasNext(reader) /\ reader' = AfterNext(reader)
      /\ UNCHANGED <<dir, options_, camera>>
      /\ IF status # "READ_ERROR" THEN Post(ItemEvent(Item(status))) ELSE UNCHANGED events
    BY DEF ReadImage, ReadShowing
<1>2. reader' \in Readers /\ Item(status) \in Items
    <2>1. reader \in Readers /\ reader.file_index_ \in Nat
        BY DEF Inv, TypeOK, Readers
    <2> QED
        BY <1>1, <2>1, ReaderAdvanced DEF Item, Items
<1>3. UNCHANGED UnseenVars
    BY DEF UnseenVars, widgetVars
<1>4. SetUp'
    BY <1>1 DEF Inv, SetUp, WithHousing, WithGuess, Calibrator
<1>5. CASE status = "READ_ERROR"
    <2>1. TypeOK'
        BY <1>1, <1>2, <1>3, <1>5 DEF Inv, TypeOK, UnseenVars
    <2>2. History'
        BY <1>1, <1>3, <1>5 DEF Inv, History, StartsLast, UnseenVars
    <2> QED
        BY <1>4, <2>1, <2>2 DEF Inv
<1>6. CASE status # "READ_ERROR"
    <2>1. Post(ItemEvent(Item(status)))
        BY <1>1, <1>6
    <2>2. TypeOK'
        BY <1>1, <1>2, <1>3, <2>1, FunctorFacts, PostType DEF Inv
    <2>3. History'
        BY <1>1, <1>2, <1>3, <2>1, ItemPosted DEF Inv
    <2> QED
        BY <1>4, <2>2, <2>3 DEF Inv
<1> QED
    BY <1>5, <1>6

LEMMA BeginInv == ASSUME Inv, BeginCalibration, UNCHANGED widgetVars PROVE Inv'
<1>1. /\ pc = "read" /\ pc' = "calibrate" /\ Post(StartEvent)
      /\ UNCHANGED <<dir, options_, camera, reader, UnseenVars>>
    BY DEF BeginCalibration, UnseenVars, widgetVars
<1>2. TypeOK'
    BY <1>1, FunctorFacts, PostType DEF Inv, TypeOK
<1>3. History'
    BY <1>1, StartPosted DEF Inv
<1>4. SetUp'
    BY <1>1 DEF Inv, SetUp, WithHousing, WithGuess, Calibrator
<1> QED
    BY <1>2, <1>3, <1>4 DEF Inv

LEMMA OutInv ==
    ASSUME Inv, UNCHANGED widgetVars,
           \/ RefuseDirectory \/ FailExtraction \/ RefuseToCalibrate
           \/ FailCalibration \/ FailRegistration \/ Calibrate
    PROVE  Inv'
<1>1. UNCHANGED UnseenVars /\ reader \in Readers
    BY DEF UnseenVars, widgetVars, Inv, TypeOK
<1>2. CASE RefuseDirectory
    BY <1>1, <1>2, WayOut DEF RefuseDirectory, Return, Ends
<1>3. CASE FailExtraction
    <2>1. HasNext(reader)
        BY <1>3 DEF FailExtraction, NextStatus
    <2>2. reader' \in Readers
        BY <1>1, <1>3, <2>1, ReaderAdvanced DEF FailExtraction
    <2> QED
        BY <1>1, <1>3, <2>2, WayOut DEF FailExtraction, Return, Ends
<1>4. CASE RefuseToCalibrate
    <2>1. Post(EndEvent("No images to calibrate from."))
        BY <1>4, NothingRefused DEF RefuseToCalibrate, Inv
    <2> QED
        BY <1>1, <1>4, <2>1, WayOut DEF RefuseToCalibrate, Return, Ends
<1>5. CASE FailCalibration
    BY <1>1, <1>5, WayOut DEF FailCalibration, Return, Ends
<1>6. CASE FailRegistration
    BY <1>1, <1>6, WayOut DEF FailRegistration, Estimate, Return, Ends
<1>7. CASE Calibrate
    BY <1>1, <1>7, WayOut DEF Calibrate, Estimate, Return, Ends
<1> QED
    BY <1>2, <1>3, <1>4, <1>5, <1>6, <1>7

\* What a functor finds: it is the oldest event, and the others move up.
LEMMA RunFinds ==
    ASSUME Inv, RunFunctor
    PROVE  /\ events # <<>> /\ events' \in Seq(Functors) /\ Len(events) \in Nat \ {0}
           /\ Len(events') = Len(events) - 1
           /\ DOMAIN events = 1 .. Len(events) /\ DOMAIN events' = 1 .. Len(events) - 1
           /\ \A i \in 1 .. Len(events) - 1 : events'[i] = events[i + 1]
           /\ Head(events) = events[1] /\ Head(events) \in Functors
           /\ events' = <<>> <=> Len(events) = 1
           /\ calibration_ended_ = FALSE /\ result = "none"
<1>1. events # <<>> /\ events' = Tail(events) /\ events \in Seq(Functors)
    BY DEF RunFunctor, AddExtractionItem, StartCalibration, EndCalibration, Due, Inv, TypeOK
<1>2. calibration_ended_ = FALSE /\ result = "none"
    BY <1>1 DEF Inv, History, TypeOK
<1> QED
    BY <1>1, <1>2, TailShifts

LEMMA AddInv == ASSUME Inv, AddExtractionItem, UNCHANGED workerVars PROVE Inv'
<1>1. RunFunctor /\ Head(events).call = "AddExtractionItem"
    BY DEF RunFunctor, AddExtractionItem, Due
<1>2. ~Starts(events, 1) /\ ~Finishes(events, 1) /\ Head(events).arg \in Items /\ 1 \in DOMAIN events
    <2>1. 1 \in DOMAIN events /\ Head(events) = events[1] /\ Head(events) \in Functors
        BY <1>1, RunFinds
    <2> QED
        BY <1>1, <2>1, FunctorFacts DEF Starts, Finishes
<1>3. ~progress /\ UNCHANGED <<progress, result, calibration_ended_, pc>>
    BY <1>2 DEF Inv, History, AddExtractionItem, workerVars
<1>4. items' \in Seq(Items)
    <2>1. items' = items \/ items' = Append(items, Head(events).arg)
        BY DEF AddExtractionItem
    <2> QED
        BY <1>2, <2>1, AppendProperties DEF Inv, TypeOK
<1>5. TypeOK'
    BY <1>1, <1>3, <1>4, RunFinds DEF Inv, TypeOK, workerVars
<1>6. \A i \in DOMAIN events' : /\ i + 1 \in DOMAIN events /\ events'[i] = events[i + 1]
                                /\ Starts(events', i) <=> Starts(events, i + 1)
                                /\ Finishes(events', i) <=> Finishes(events, i + 1)
    BY <1>1, RunFinds DEF Starts, Finishes
<1>7. History'
    <2>1. \A i \in DOMAIN events' : Starts(events', i) =>
              pc \in {"calibrate", "returned"} /\ \A j \in DOMAIN events' : i < j => Finishes(events', j)
        <3> SUFFICES ASSUME NEW i \in DOMAIN events', Starts(events', i)
                     PROVE  pc \in {"calibrate", "returned"}
                            /\ \A j \in DOMAIN events' : i < j => Finishes(events', j)
            OBVIOUS
        <3>1. /\ pc \in {"calibrate", "returned"}
              /\ \A j \in DOMAIN events : i + 1 < j => Finishes(events, j)
            BY <1>6 DEF Inv, History
        <3>2. \A j \in DOMAIN events' : i < j => i + 1 < j + 1
            BY <1>1, RunFinds
        <3> QED
            BY <1>6, <3>1, <3>2
    <2>2. \A i \in DOMAIN events' : Finishes(events', i) => pc = "returned" /\ i = Len(events')
        <3> SUFFICES ASSUME NEW i \in DOMAIN events', Finishes(events', i)
                     PROVE  pc = "returned" /\ i = Len(events')
            OBVIOUS
        <3>1. pc = "returned" /\ i + 1 = Len(events)
            BY <1>6 DEF Inv, History
        <3> QED
            BY <1>1, <3>1, RunFinds
    <2>3. \A i \in DOMAIN events' : Finishes(events', i) /\ events'[i].arg = "calibration" =>
              i # 1 /\ Starts(events', i - 1)
        <3> SUFFICES ASSUME NEW i \in DOMAIN events', Finishes(events', i), events'[i].arg = "calibration"
                     PROVE  i # 1 /\ Starts(events', i - 1)
            OBVIOUS
        <3>1. i \in Nat \ {0} /\ i + 1 # 1 /\ i + 1 - 1 = i
            BY <1>1, RunFinds
        <3>2. Starts(events, i)
            BY <1>6, <3>1 DEF Inv, History
        <3>3. i # 1 /\ i - 1 \in DOMAIN events' /\ i - 1 + 1 = i
            BY <1>1, <1>2, <3>1, <3>2, RunFinds
        <3> QED
            BY <1>6, <3>2, <3>3
    <2>4. pc = "calibrate" => StartsLast'
        <3> SUFFICES ASSUME pc = "calibrate" PROVE StartsLast'
            OBVIOUS
        <3>1. Starts(events, Len(events))
            BY <1>1, RunFinds DEF Inv, History, StartsLast
        <3>2. Len(events) # 1 /\ events' # <<>> /\ Len(events') \in DOMAIN events'
              /\ Len(events') + 1 = Len(events)
            BY <1>1, <1>2, <3>1, RunFinds
        <3>3. Starts(events', Len(events'))
            BY <1>6, <3>1, <3>2
        <3> QED
            BY <3>2, <3>3 DEF StartsLast
    <2> QED
        BY <1>1, <1>3, <2>1, <2>2, <2>3, <2>4, RunFinds DEF History
<1>8. SetUp'
    BY DEF workerVars, Inv, SetUp, WithHousing, WithGuess, Calibrator
<1> QED
    BY <1>5, <1>7, <1>8 DEF Inv

LEMMA StartInv == ASSUME Inv, StartCalibration, UNCHANGED workerVars PROVE Inv'
<1> USE DEF StartCalibration, workerVars
<1>1. RunFunctor
    BY DEF RunFunctor
<1>2. Starts(events, 1) /\ 1 \in DOMAIN events
    BY <1>1, RunFinds DEF Due, Starts
<1>3. pc \in {"calibrate", "returned"} /\ \A j \in DOMAIN events : 1 < j => Finishes(events, j)
    BY <1>2 DEF Inv, History
<1>4. TypeOK'
    BY <1>1, RunFinds DEF Inv, TypeOK
<1>5. \A i \in DOMAIN events' : /\ i + 1 \in DOMAIN events /\ events'[i] = events[i + 1]
                                /\ Finishes(events', i) /\ Finishes(events, i + 1)
    BY <1>1, <1>3, RunFinds DEF Finishes
<1>6. \A i \in DOMAIN events' : i = 1 /\ i = Len(events') /\ pc = "returned"
    BY <1>1, <1>5, RunFinds DEF Inv, History
<1>7. \A i \in DOMAIN events' : ~Starts(events', i)
    BY <1>5 DEF Starts, Finishes
<1>8. pc = "calibrate" => events' = <<>>
    BY <1>1, <1>6, RunFinds
<1>9. History'
    BY <1>1, <1>3, <1>5, <1>6, <1>7, <1>8, RunFinds DEF History, StartsLast
<1>10. SetUp'
    BY DEF Inv, SetUp, WithHousing, WithGuess, Calibrator
<1> QED
    BY <1>4, <1>9, <1>10 DEF Inv

LEMMA EndInv == ASSUME Inv, EndCalibration, UNCHANGED workerVars PROVE Inv'
<1> USE DEF EndCalibration, workerVars
<1>1. RunFunctor
    BY DEF RunFunctor
<1>2. Finishes(events, 1) /\ 1 \in DOMAIN events /\ Head(events).arg \in Ends
    BY <1>1, RunFinds, FunctorFacts DEF Due, Finishes
<1>3. pc = "returned" /\ 1 = Len(events)
    BY <1>2 DEF Inv, History
<1>4. events' = <<>>
    BY <1>1, <1>3, RunFinds
<1>5. TypeOK'
    BY <1>1, <1>2, RunFinds DEF Inv, TypeOK
<1>6. History'
    BY <1>3, <1>4 DEF History
<1>7. SetUp'
    BY DEF Inv, SetUp, WithHousing, WithGuess, Calibrator
<1> QED
    BY <1>5, <1>6, <1>7 DEF Inv

LEMMA StutterInv == ASSUME Inv, UNCHANGED vars PROVE Inv'
<1> USE DEF vars, workerVars, widgetVars
<1>1. TypeOK' /\ SetUp'
    BY DEF Inv, TypeOK, SetUp, WithHousing, WithGuess, Calibrator
<1>2. History'
    BY DEF Inv, History, StartsLast
<1> QED
    BY <1>1, <1>2 DEF Inv

LEMMA NextInv == ASSUME Inv, [Next]_vars PROVE Inv'
<1>1. CASE Worker
    <2>1. UNCHANGED widgetVars
        BY <1>1 DEF Worker
    <2> QED
        BY <1>1, <2>1, ConstructInv, SetupInv, ReadImageInv, BeginInv, OutInv DEF Worker
<1>2. CASE EventLoop
    BY <1>2, AddInv, StartInv, EndInv DEF EventLoop, RunFunctor
<1>3. CASE UNCHANGED vars
    BY <1>3, StutterInv
<1> QED
    BY <1>1, <1>2, <1>3 DEF Next

LEMMA Invariance == Spec => []Inv
BY InitInv, NextInv, PTL DEF Spec

-----------------------------------------------------------------------------
\* Whatever options a dialog accepted, the calibrator that the set-up makes of
\* them objects to none, and the set-up itself does not end the process.
THEOREM OptionsFit == Spec => []OptionsFitCalibrator
<1>1. ASSUME Inv PROVE OptionsFitCalibrator
    <2>1. result \notin ArgumentErrors
        BY <1>1 DEF Inv, TypeOK, Ends, ArgumentErrors
    <2>2. pc = "terminated" => reader.image_paths_ = <<>>
        BY <1>1 DEF Inv, SetUp
    <2> QED
        BY <2>1, <2>2 DEF OptionsFitCalibrator
<1> QED
    BY <1>1, Invariance, PTL

\* Whatever the directory, the items, the progress bar and the result that Run
\* posts reach the view in the order CalibrationView promises.
THEOREM Promised == Spec => ViewAsPromised
<1>1. Init => View!Init
    BY DEF Init, WidgetInit, View!Init
<1>2. ASSUME Inv, [Next]_vars PROVE [View!Next]_View!view
    <2>1. CASE Worker \/ UNCHANGED vars
        BY <2>1 DEF Worker, vars, widgetVars, View!view
    <2>2. CASE AddExtractionItem
        <3>1. RunFunctor
            BY <2>2 DEF RunFunctor
        <3>2. Head(events).arg \in Items /\ ~Finishes(events, 1) /\ 1 \in DOMAIN events
            <4>1. Head(events) \in Functors /\ Head(events) = events[1] /\ 1 \in DOMAIN events
                BY <1>2, <3>1, RunFinds
            <4>2. Head(events).call = "AddExtractionItem"
                BY <2>2 DEF AddExtractionItem, Due
            <4> QED
                BY <4>1, <4>2, FunctorFacts DEF Finishes
        <3>3. result = "none" /\ calibration_ended_ = FALSE /\ ~progress
            BY <1>2, <3>1, <3>2, RunFinds DEF Inv, History
        <3>4. CASE target_visualizer_
            <4>1. items' = Append(items, Head(events).arg)
                BY <2>2, <3>3, <3>4 DEF AddExtractionItem
            <4>2. items' # <<>> /\ items'[Len(items')] = Head(events).arg
                BY <1>2, <3>2, <4>1, Appended DEF Inv, TypeOK
            <4> QED
                BY <2>2, <3>3, <4>1, <4>2 DEF AddExtractionItem, View!AddItem, View!Next
        <3>5. CASE ~target_visualizer_
            BY <2>2, <3>5 DEF AddExtractionItem, View!view
        <3> QED
            BY <3>4, <3>5
    <2>3. CASE StartCalibration
        <3>1. RunFunctor
            BY <2>3 DEF RunFunctor
        <3>2. ~Finishes(events, 1) /\ 1 \in DOMAIN events
            BY <1>2, <2>3, <3>1, RunFinds DEF StartCalibration, Due, Finishes
        <3>3. result = "none" /\ ~progress
            BY <1>2, <3>1, <3>2, RunFinds DEF Inv, History
        <3> QED
            BY <2>3, <3>3 DEF StartCalibration, View!StartProgress, View!Next
    <2>4. CASE EndCalibration
        <3>1. RunFunctor
            BY <2>4 DEF RunFunctor
        <3>2. Finishes(events, 1) /\ 1 \in DOMAIN events /\ Head(events) = events[1]
              /\ Head(events).arg \in Ends /\ result = "none"
            BY <1>2, <2>4, <3>1, RunFinds, FunctorFacts DEF EndCalibration, Due, Finishes
        <3>3. CASE Head(events).arg = "calibration"
            <4>1. progress
                BY <1>2, <3>2, <3>3 DEF Inv, History
            <4> QED
                BY <2>4, <3>2, <3>3, <4>1 DEF EndCalibration, View!ShowCalibration, View!Next
        <3>4. CASE Head(events).arg # "calibration"
            <4>1. Head(events).arg \in Messages
                BY <3>2, <3>4, MessagesAssumption DEF Ends
            <4> QED
                BY <2>4, <3>2, <4>1 DEF EndCalibration, View!ShowMessage, View!Next
        <3> QED
            BY <3>3, <3>4
    <2> QED
        BY <1>2, <2>1, <2>2, <2>3, <2>4 DEF Next, EventLoop, RunFunctor
<1> QED
    BY <1>1, <1>2, Invariance, PTL DEF Spec, ViewAsPromised, View!Spec

-----------------------------------------------------------------------------
(* What the view shows of the directory.  The items that are shown and the *)
(* ones that wait in the queue are together one for each readable file the *)
(* reader has passed, in order; a failed extraction ends this for good.    *)

Passed == {k \in ReadableFiles(dir) : k =< reader.file_index_}
Truthful(item) == item.file \in Passed /\ item.status = Label(item.file)
Waits(q, i) == q[i].call = "AddExtractionItem"
Announced(end) ==
    result = end \/ \E i \in DOMAIN events : Finishes(events, i) /\ events[i].arg = end

Covered ==
    Announced("extraction failed") \/
    \A k \in Passed : \/ \E i \in DOMAIN items : items[i].file = k
                      \/ \E i \in DOMAIN events : Waits(events, i) /\ events[i].arg.file = k

Ordered ==
    /\ \A i \in DOMAIN items : /\ Truthful(items[i])
                              /\ \A j \in DOMAIN items : i < j => items[i].file < items[j].file
    /\ \A i \in DOMAIN events : Waits(events, i) =>
          /\ target_visualizer_ /\ Truthful(events[i].arg)
          /\ \A j \in DOMAIN items : items[j].file < events[i].arg.file
          /\ \A j \in DOMAIN events :
                i < j /\ Waits(events, j) => events[i].arg.file < events[j].arg.file

\* The worker's own data; a camera with an initial guess is set up before the
\* first image is read.
Good == {k \in Passed : Label(k) = "SUCCESS"}
Reading ==
    /\ images \in Seq(Nat)
    /\ pc = "start" => events = <<>> /\ items = <<>>
    /\ pc \notin {"start", "terminated"} => reader.image_paths_ = dir
    /\ pc \in {"start", "size"} => reader.file_index_ = 0 /\ images = <<>>
    /\ pc \in {"read", "calibrate"} =>
          /\ reader.image_size_ # NoSize /\ target_visualizer_ /\ Enumerates(images, Good)
          /\ Calibrator # "HousingCalibrator" /\ WithGuess =>
                camera = [size |-> reader.image_size_, params |-> "given", refractive |-> WithHousing]
    /\ pc = "calibrate" => ~HasNext(reader)

\* What ResultIsComplete asks of a calibration.
Complete ==
    /\ Enumerates(images, {k \in ReadableFiles(dir) : Label(k) = "SUCCESS"})
    /\ camera = [size |-> reader.image_size_, params |-> "calibrated", refractive |-> WithHousing]
    /\ DOMAIN per_view_rms = DOMAIN images
    /\ 10 * Cardinality({i \in DOMAIN images : per_view_rms[i]}) >= 7 * Len(images)

Outcome ==
    /\ pc # "returned" => success = "none"
    /\ pc = "returned" => success \in {"true", "false"}
    /\ success = "true" <=> Announced("calibration")
    /\ success = "true" => Complete
    /\ \A end \in Ends \ {"extraction failed", "No readable images in provided directory!"} :
          Announced(end) => ~HasNext(reader)

Shown == Covered /\ Ordered /\ Reading /\ Outcome

LEMMA EnumeratesMore ==
    ASSUME NEW s \in Seq(Nat), NEW S, Enumerates(s, S), NEW k \in Nat, \A j \in S : j < k,
           NEW t, t = Append(s, k)
    PROVE  t \in Seq(Nat) /\ Enumerates(t, S \cup {k})
<1>1. /\ t \in Seq(Nat) /\ Len(s) \in Nat /\ DOMAIN s = 1 .. Len(s) /\ DOMAIN t = 1 .. Len(s) + 1
      /\ t[Len(s) + 1] = k /\ \A i \in 1 .. Len(s) : t[i] = s[i]
    BY Appended
<1> DEFINE n == Len(s)
<1>2. n \in Nat /\ n + 1 \in 1 .. n + 1
    BY <1>1
<1> HIDE DEF n
<1>3. \A i \in 1 .. n + 1 : i = n + 1 \/ i \in 1 .. n
    BY <1>2
<1>4. \A j \in S \cup {k} : \E i \in DOMAIN t : t[i] = j
    <2>1. \A j \in S : \E i \in 1 .. n : t[i] = j
        BY <1>1 DEF Enumerates, n
    <2>2. \A i \in 1 .. n : i \in 1 .. n + 1
        BY <1>2
    <2> QED
        BY <1>1, <1>2, <2>1, <2>2 DEF n
<1>5. ASSUME NEW i \in DOMAIN t
      PROVE  t[i] \in S \cup {k} /\ \A j \in DOMAIN t : i < j => t[i] < t[j]
    <2>1. CASE i = n + 1
        <3>1. \A j \in 1 .. n + 1 : ~(i < j)
            BY <1>2, <2>1
        <3> QED
            BY <1>1, <2>1, <3>1 DEF n
    <2>2. CASE i \in 1 .. n
        <3>1. t[i] \in S /\ t[i] < k
            BY <1>1, <2>2 DEF Enumerates, n
        <3>2. \A j \in 1 .. n : i < j => t[i] < t[j]
            BY <1>1, <2>2 DEF Enumerates, n
        <3> QED
            BY <1>1, <1>3, <3>1, <3>2 DEF n
    <2> QED
        BY <1>1, <1>3, <2>1, <2>2 DEF n
<1> QED
    BY <1>1, <1>4, <1>5 DEF Enumerates

\* A turn of the reading loop on the next file.
LEMMA NextPassed ==
    ASSUME TypeOK, HasNext(reader), reader.image_paths_ = dir, reader.image_size_ # NoSize,
           reader' = AfterNext(reader), dir' = dir
    PROVE  LET k == reader.file_index_ + 1 IN
           /\ k \in Nat /\ reader'.file_index_ = k /\ reader'.image_paths_ = dir
           /\ reader'.image_size_ = reader.image_size_
           /\ \A j : Label(j)' = Label(j)
           /\ \A j \in Passed : j \in Nat /\ j < k
           /\ ItemStatus(reader) = IF k \in ReadableFiles(dir) THEN Label(k) ELSE "READ_ERROR"
           /\ Passed' = IF k \in ReadableFiles(dir) THEN Passed \cup {k} ELSE Passed
<1> DEFINE k == reader.file_index_ + 1
<1>1. /\ reader.file_index_ \in Nat /\ k \in Nat /\ k \in DOMAIN dir /\ DOMAIN dir \subseteq Nat
      /\ NextFile(reader) = dir[k]
    <2>1. Len(dir) \in Nat /\ DOMAIN dir = 1 .. Len(dir)
        BY LenProperties DEF TypeOK
    <2>2. reader.file_index_ \in Nat /\ reader.file_index_ < Len(dir)
        BY DEF TypeOK, Readers, HasNext
    <2> QED
        BY <2>1, <2>2 DEF NextFile
<1>2. reader'.file_index_ = k /\ reader'.image_paths_ = dir /\ reader'.image_size_ = reader.image_size_
    BY DEF AfterNext, TypeOK, Readers
<1>3. \A j : Label(j)' = Label(j)
    BY <1>2 DEF Label
<1>4. \A j \in Passed : j \in Nat /\ j < k
    BY <1>1 DEF Passed, ReadableFiles
<1>5. ItemStatus(reader) = IF k \in ReadableFiles(dir) THEN Label(k) ELSE "READ_ERROR"
    <2>1. k \in ReadableFiles(dir) <=> Readable(NextFile(reader))
        BY <1>1 DEF ReadableFiles
    <2>2. CASE ~Readable(NextFile(reader))
        BY <2>1, <2>2 DEF ItemStatus, NextStatus
    <2>3. CASE Readable(NextFile(reader))
        <3>1. NextStatus(reader) = IF reader.image_size_ = NextFile(reader).size
                                   THEN "SUCCESS" ELSE "IMAGE_DIMENSION_MISSMATCH"
            BY <2>3 DEF NextStatus
        <3> QED
            BY <1>1, <2>1, <2>3, <3>1 DEF ItemStatus, Label
    <2> QED
        BY <2>2, <2>3
<1>6. Passed' = IF k \in ReadableFiles(dir) THEN Passed \cup {k} ELSE Passed
    <2>1. \A j \in Nat : j =< k <=> j =< reader.file_index_ \/ j = k
        BY <1>1
    <2>2. ~(k =< reader.file_index_)
        BY <1>1
    <2> HIDE DEF k
    <2>3. ReadableFiles(dir) \subseteq Nat
        BY <1>1 DEF ReadableFiles
    <2> QED
        BY <1>2, <2>1, <2>2, <2>3 DEF Passed
<1> QED
    BY <1>1, <1>2, <1>3, <1>4, <1>5, <1>6

\* A directory that was read through is passed entirely.
LEMMA AllPassed ==
    ASSUME TypeOK, reader.image_paths_ = dir, ~HasNext(reader)
    PROVE  Passed = ReadableFiles(dir)
<1>1. Len(dir) \in Nat /\ DOMAIN dir = 1 .. Len(dir) /\ reader.file_index_ \in Nat
    BY LenProperties DEF TypeOK, Readers
<1>2. \A k \in DOMAIN dir : k =< reader.file_index_
    BY <1>1 DEF HasNext
<1> QED
    BY <1>2 DEF Passed, ReadableFiles

-----------------------------------------------------------------------------
(* Announcements and the items *)

LEMMA SameAnnounced ==
    ASSUME TypeOK, UNCHANGED UnseenVars,
           UNCHANGED events \/ \E e \in Functors : e.call # "EndCalibration" /\ Post(e)
    PROVE  \A end : Announced(end)' <=> Announced(end)
<1>1. CASE UNCHANGED events
    BY <1>1 DEF Announced, Finishes, UnseenVars
<1>2. ASSUME NEW e \in Functors, e.call # "EndCalibration", Post(e)
      PROVE  \A end : Announced(end)' <=> Announced(end)
    <2>1. /\ Len(events) \in Nat /\ DOMAIN events = 1 .. Len(events) /\ DOMAIN events' = 1 .. Len(events) + 1
          /\ events'[Len(events) + 1] = e /\ \A i \in 1 .. Len(events) : events'[i] = events[i]
        BY <1>2, Appended DEF TypeOK, Post
    <2>2. \A i \in DOMAIN events' : Finishes(events', i) <=> i \in DOMAIN events /\ Finishes(events, i)
        BY <1>2, <2>1 DEF Finishes
    <2>3. \A i \in DOMAIN events : i \in DOMAIN events' /\ events'[i] = events[i]
        BY <2>1
    <2> QED
        BY <2>2, <2>3 DEF Announced, UnseenVars
<1> QED
    BY <1>1, <1>2

LEMMA NotYetAnnounced ==
    ASSUME Inv, pc # "returned"
    PROVE  result = "none" /\ \A end \in Ends : ~Announced(end)
<1>1. result = "none"
    BY DEF Inv, History, TypeOK
<1>2. \A i \in DOMAIN events : ~Finishes(events, i)
    BY DEF Inv, History
<1> QED
    BY <1>1, <1>2 DEF Announced, Ends

LEMMA EndAnnounced ==
    ASSUME Inv, pc # "returned", NEW e \in Ends, Post(EndEvent(e)), UNCHANGED UnseenVars
    PROVE  \A end \in Ends : Announced(end)' <=> end = e
<1>1. /\ EndEvent(e) \in Functors /\ EndEvent(e).call = "EndCalibration" /\ EndEvent(e).arg = e
    BY FunctorFacts
<1>2. /\ Len(events) \in Nat /\ DOMAIN events = 1 .. Len(events) /\ DOMAIN events' = 1 .. Len(events) + 1
      /\ events'[Len(events) + 1] = EndEvent(e) /\ \A i \in 1 .. Len(events) : events'[i] = events[i]
    BY <1>1, Appended DEF Inv, TypeOK, Post
<1>3. \A i \in DOMAIN events' : Finishes(events', i) => i = Len(events) + 1
    BY <1>2 DEF Finishes, Inv, History
<1>4. Len(events) + 1 \in DOMAIN events' /\ Finishes(events', Len(events) + 1)
    BY <1>1, <1>2 DEF Finishes
<1>5. \A end \in Ends : result' # end
    BY NotYetAnnounced DEF UnseenVars, Ends
<1> QED
    BY <1>1, <1>2, <1>3, <1>4, <1>5 DEF Announced

LEMMA RunAnnounced ==
    ASSUME Inv, RunFunctor
    PROVE  \A end \in Ends : Announced(end)' <=> Announced(end)
<1>1. 1 \in DOMAIN events /\ Head(events) = events[1] /\ result = "none"
    BY RunFinds
<1>2. \A i \in DOMAIN events' : i + 1 \in DOMAIN events /\ events'[i] = events[i + 1]
    BY RunFinds
<1>3. \A i \in DOMAIN events : i = 1 \/ (i - 1 \in DOMAIN events' /\ i - 1 + 1 = i)
    BY RunFinds
<1>4. CASE EndCalibration
    <2>1. Finishes(events, 1) /\ result' = events[1].arg
        BY <1>1, <1>4 DEF EndCalibration, Due, Finishes
    <2>2. Len(events) = 1
        BY <1>1, <2>1 DEF Inv, History
    <2>3. DOMAIN events' = {} /\ DOMAIN events = {1}
        BY <2>2, RunFinds
    <2>4. \A end \in Ends : result # end
        BY <1>1 DEF Ends
    <2> QED
        BY <2>1, <2>3, <2>4 DEF Announced
<1>5. CASE ~EndCalibration
    <2>1. ~Finishes(events, 1) /\ result' = result
        BY <1>1, <1>5 DEF RunFunctor, AddExtractionItem, StartCalibration, Due, Finishes
    <2>2. \A i \in DOMAIN events' : Finishes(events', i) <=> Finishes(events, i + 1)
        BY <1>2 DEF Finishes
    <2>3. ASSUME NEW end \in Ends, Announced(end)
          PROVE  Announced(end)'
        <3>1. result # end
            BY <1>1 DEF Ends
        <3>2. PICK i \in DOMAIN events : Finishes(events, i) /\ events[i].arg = end
            BY <2>3, <3>1 DEF Announced
        <3>3. i - 1 \in DOMAIN events' /\ i - 1 + 1 = i
            BY <1>3, <2>1, <3>2
        <3>4. Finishes(events', i - 1) /\ events'[i - 1].arg = end
            BY <1>2, <2>2, <3>2, <3>3
        <3> QED
            BY <3>3, <3>4 DEF Announced
    <2>4. ASSUME NEW end \in Ends, Announced(end)'
          PROVE  Announced(end)
        <3>1. result' # end
            BY <1>1, <2>1 DEF Ends
        <3>2. PICK i \in DOMAIN events' : Finishes(events', i) /\ events'[i].arg = end
            BY <2>4, <3>1 DEF Announced
        <3> QED
            BY <1>2, <2>2, <3>2 DEF Announced
    <2> QED
        BY <2>3, <2>4
<1> QED
    BY <1>4, <1>5

\* What is truthful of an item stays truthful while the reader goes on.
LEMMA StaysTruthful ==
    ASSUME Passed \subseteq Passed', \A k : Label(k)' = Label(k)
    PROVE  \A item : Truthful(item) => Truthful(item)'
BY DEF Truthful

\* Functors that show no item leave the items' order alone.
LEMMA OthersPosted ==
    ASSUME TypeOK, Ordered, NEW e \in Functors, e.call # "AddExtractionItem", Post(e),
           UNCHANGED <<items, target_visualizer_>>, \A item : Truthful(item) => Truthful(item)'
    PROVE  /\ Ordered'
           /\ \A i \in DOMAIN events : i \in DOMAIN events' /\ events'[i] = events[i]
<1>1. /\ Len(events) \in Nat /\ DOMAIN events = 1 .. Len(events) /\ DOMAIN events' = 1 .. Len(events) + 1
      /\ events'[Len(events) + 1] = e /\ \A i \in 1 .. Len(events) : events'[i] = events[i]
    BY Appended DEF TypeOK, Post
<1>2. \A i \in DOMAIN events' : Waits(events', i) =>
          i \in DOMAIN events /\ Waits(events, i) /\ events'[i] = events[i]
    BY <1>1 DEF Waits
<1>3. \A i \in DOMAIN events : i \in DOMAIN events' /\ events'[i] = events[i]
    BY <1>1
<1> QED
    BY <1>2, <1>3 DEF Ordered

LEMMA OthersPostedShown ==
    ASSUME Inv, Covered, Ordered, NEW e \in Functors, e.call # "AddExtractionItem", Post(e),
           UNCHANGED <<items, target_visualizer_, reader, dir>>,
           Announced("extraction failed") => Announced("extraction failed")'
    PROVE  Covered' /\ Ordered'
<1>1. Passed' = Passed /\ \A k : Label(k)' = Label(k)
    BY DEF Passed, Label
<1>2. Ordered' /\ \A i \in DOMAIN events : i \in DOMAIN events' /\ events'[i] = events[i]
    BY <1>1, StaysTruthful, OthersPosted DEF Inv
<1>3. Covered'
    BY <1>1, <1>2 DEF Covered, Waits
<1> QED
    BY <1>2, <1>3

-----------------------------------------------------------------------------
(* The steps keep what is shown *)

LEMMA InitShown == Init => Shown
<1> SUFFICES ASSUME Init PROVE Shown
    OBVIOUS
<1>1. /\ events = <<>> /\ items = <<>> /\ images = <<>> /\ reader.file_index_ = 0 /\ result = "none"
      /\ DOMAIN events = {} /\ DOMAIN items = {} /\ images \in Seq(Nat)
      /\ pc = "start" /\ success = "none"
    BY EmptySeq DEF Init, WidgetInit
<1>2. Passed = {}
    <2>1. dir \in Seq(Files)
        BY InitInv DEF Inv, TypeOK
    <2>2. \A k \in DOMAIN dir : ~(k =< 0)
        BY <2>1, LenProperties
    <2> QED
        BY <1>1, <2>2 DEF Passed, ReadableFiles
<1>3. \A end \in Ends : ~Announced(end)
    BY <1>1 DEF Announced, Ends
<1>4. Covered /\ Ordered /\ Reading
    BY <1>1, <1>2 DEF Covered, Ordered, Reading
<1>5. Outcome
    BY <1>1, <1>3 DEF Outcome, Ends
<1> QED
    BY <1>4, <1>5 DEF Shown

LEMMA ConstructShown == ASSUME Inv, Shown, Construct, UNCHANGED widgetVars PROVE Shown'
<1>1. /\ pc = "start" /\ pc' \in {"size", "terminated"}
      /\ UNCHANGED <<dir, options_, images, success, events, UnseenVars, target_visualizer_>>
    BY DEF Construct, widgetVars, UnseenVars
<1>2. events = <<>> /\ items = <<>> /\ DOMAIN events = {} /\ DOMAIN items = {} /\ images = <<>>
    BY <1>1 DEF Shown, Reading
<1>3. reader'.file_index_ = 0 /\ (pc' = "size" => reader'.image_paths_ = dir)
    BY <1>1 DEF Construct, NewReaders, Shown, Reading
<1>4. Passed' = {}
    <2>1. \A k \in DOMAIN dir : ~(k =< 0)
        BY LenProperties DEF Inv, TypeOK
    <2> QED
        BY <1>1, <1>3, <2>1 DEF Passed, ReadableFiles
<1>5. Covered' /\ Ordered'
    BY <1>1, <1>2, <1>4 DEF Covered, Ordered, UnseenVars
<1>6. Reading'
    BY <1>1, <1>2, <1>3 DEF Shown, Reading
<1>7. \A end \in Ends : ~Announced(end)'
    BY <1>1, NotYetAnnounced, SameAnnounced DEF Inv
<1>8. Outcome'
    BY <1>1, <1>7 DEF Shown, Outcome, Ends
<1> QED
    BY <1>5, <1>6, <1>8 DEF Shown

LEMMA SetupShown == ASSUME Inv, Shown, Setup, UNCHANGED widgetVars PROVE Shown'
<1>1. /\ pc = "size" /\ pc' = "read" /\ target_visualizer_' /\ reader.image_size_ # NoSize
      /\ UNCHANGED <<dir, reader, options_, images, success, events, UnseenVars>>
    BY SetupInv DEF Setup, SetTargetVisualizer, widgetVars, UnseenVars
<1>2. Passed' = Passed /\ \A k : Label(k)' = Label(k)
    BY <1>1 DEF Passed, Label
<1>3. \A item : Truthful(item) => Truthful(item)'
    BY <1>2, StaysTruthful
<1>4. \A end : Announced(end)' <=> Announced(end)
    BY <1>1, SameAnnounced DEF Inv
<1>5. Covered' /\ Ordered'
    BY <1>1, <1>2, <1>3, <1>4 DEF Shown, Covered, Ordered, UnseenVars
<1>6. Passed' = {}
    <2>1. \A k \in DOMAIN dir : ~(k =< 0)
        BY LenProperties DEF Inv, TypeOK
    <2>2. reader.file_index_ = 0
        BY <1>1 DEF Shown, Reading
    <2> QED
        BY <1>2, <2>1, <2>2 DEF Passed, ReadableFiles
<1>7. images' = <<>> /\ images' \in Seq(Nat) /\ DOMAIN images' = {}
    BY <1>1 DEF Shown, Reading
<1>8. Enumerates(images, Good)'
    BY <1>6, <1>7 DEF Good, Enumerates
<1>9. ASSUME Calibrator # "HousingCalibrator", WithGuess
      PROVE  camera' = [size |-> reader.image_size_, params |-> "given", refractive |-> WithHousing]
    <2>1. camera' = [GivenCamera EXCEPT !.refractive = WithHousing]
        BY <1>9 DEF Setup
    <2> QED
        BY <2>1 DEF GivenCamera
<1>10. Reading'
    BY <1>1, <1>7, <1>8, <1>9 DEF Shown, Reading, Calibrator, WithGuess, WithHousing
<1>11. \A end \in Ends : ~Announced(end)'
    BY <1>1, <1>4, NotYetAnnounced
<1>12. Outcome'
    BY <1>1, <1>11 DEF Shown, Outcome, Ends
<1> QED
    BY <1>5, <1>10, <1>12 DEF Shown

LEMMA BeginShown == ASSUME Inv, Shown, BeginCalibration, UNCHANGED widgetVars PROVE Shown'
<1>1. /\ pc = "read" /\ pc' = "calibrate" /\ ~HasNext(reader) /\ Post(StartEvent)
      /\ UNCHANGED <<dir, reader, options_, images, camera, success, target_visualizer_, UnseenVars>>
    BY DEF BeginCalibration, widgetVars, UnseenVars
<1>2. StartEvent \in Functors /\ StartEvent.call = "StartCalibration"
    BY FunctorFacts
<1>3. \A end : Announced(end)' <=> Announced(end)
    BY <1>1, <1>2, SameAnnounced DEF Inv
<1>4. Covered' /\ Ordered'
    BY <1>1, <1>2, <1>3, OthersPostedShown DEF Shown, UnseenVars
<1>5. Passed' = Passed /\ Good' = Good
    BY <1>1 DEF Passed, Good, Label
<1>6. Reading'
    BY <1>1, <1>5 DEF Shown, Reading, Calibrator, WithGuess, WithHousing, Enumerates, HasNext
<1>7. \A end \in Ends : ~Announced(end)'
    BY <1>1, <1>3, NotYetAnnounced
<1>8. Outcome'
    BY <1>1, <1>7 DEF Shown, Outcome, Ends
<1> QED
    BY <1>4, <1>6, <1>8 DEF Shown

\* A new item is the last in order, and it covers the file that was read.
LEMMA ItemShown ==
    ASSUME Inv, Ordered, NEW k \in Nat, NEW item \in Items, item.file = k, Post(ItemEvent(item)),
           UNCHANGED <<items, target_visualizer_>>, target_visualizer_,
           \A j \in Passed : j < k, Passed' = Passed \cup {k}, \A j : Label(j)' = Label(j),
           item.status = Label(k)
    PROVE  /\ Ordered'
           /\ \A i \in DOMAIN events : i \in DOMAIN events' /\ events'[i] = events[i]
           /\ \E i \in DOMAIN events' : Waits(events', i) /\ events'[i].arg.file = k
<1>1. ItemEvent(item) \in Functors /\ ItemEvent(item).call = "AddExtractionItem" /\ ItemEvent(item).arg = item
    BY FunctorFacts DEF ItemEvent
<1> DEFINE n == Len(events)
<1>2. /\ n \in Nat /\ DOMAIN events = 1 .. n /\ DOMAIN events' = 1 .. n + 1
      /\ events'[n + 1] = ItemEvent(item) /\ \A i \in 1 .. n : events'[i] = events[i]
    BY <1>1, Appended DEF Inv, TypeOK, Post
<1>3. /\ \A i \in 1 .. n : i \in 1 .. n + 1
      /\ n + 1 \in 1 .. n + 1
      /\ \A i \in 1 .. n + 1 : (i = n + 1 \/ i \in 1 .. n) /\ ~(n + 1 < i)
    BY <1>2
<1> HIDE DEF n
<1>4. \A i \in DOMAIN events : i \in DOMAIN events' /\ events'[i] = events[i] /\ (Waits(events', i) <=> Waits(events, i))
    BY <1>2, <1>3 DEF Waits
<1>5. n + 1 \in DOMAIN events' /\ Waits(events', n + 1) /\ events'[n + 1].arg.file = k
    BY <1>1, <1>2, <1>3 DEF Waits
<1>6. (\A x : Truthful(x) => Truthful(x)') /\ \A x : Truthful(x) => x.file < k
    BY StaysTruthful DEF Truthful
<1>7. Truthful(item)'
    BY DEF Truthful
<1>8. ASSUME NEW i \in DOMAIN items
      PROVE  Truthful(items[i])' /\ items'[i].file < k
             /\ \A j \in DOMAIN items' : i < j => items'[i].file < items'[j].file
    BY <1>6 DEF Ordered
<1>9. ASSUME NEW i \in DOMAIN events', Waits(events', i)
      PROVE  /\ Truthful(events[i].arg)'
             /\ \A j \in DOMAIN items' : items'[j].file < events'[i].arg.file
             /\ \A j \in DOMAIN events' :
                   i < j /\ Waits(events', j) => events'[i].arg.file < events'[j].arg.file
    <2>1. CASE i = n + 1
        <3>1. \A j \in DOMAIN events' : ~(i < j)
            BY <1>2, <1>3, <2>1
        <3> QED
            BY <1>1, <1>2, <1>7, <1>8, <2>1, <3>1
    <2>2. CASE i \in 1 .. n
        <3>1. /\ Waits(events, i) /\ events'[i] = events[i] /\ Truthful(events[i].arg)
              /\ \A j \in DOMAIN items : items[j].file < events[i].arg.file
            BY <1>2, <1>4, <1>9, <2>2 DEF Ordered
        <3>2. \A j \in 1 .. n : i < j /\ Waits(events', j) => events'[i].arg.file < events'[j].arg.file
            BY <1>2, <1>4, <2>2, <3>1 DEF Ordered
        <3>3. events'[i].arg.file < events'[n + 1].arg.file
            BY <1>1, <1>2, <1>6, <3>1
        <3> QED
            BY <1>2, <1>3, <1>6, <3>1, <3>2, <3>3
    <2> QED
        BY <1>2, <1>3, <2>1, <2>2
<1>10. Ordered'
    BY <1>8, <1>9 DEF Ordered
<1> QED
    BY <1>4, <1>5, <1>10

LEMMA ReadShown == ASSUME Inv, Shown, ReadImage, UNCHANGED widgetVars PROVE Shown'
<1> DEFINE k == reader.file_index_ + 1
           status == ItemStatus(reader)
<1>1. /\ pc = "read" /\ pc' = "read" /\ HasNext(reader) /\ reader' = AfterNext(reader)
      /\ UNCHANGED <<dir, options_, camera, success, target_visualizer_, UnseenVars>>
      /\ images' = IF status = "SUCCESS" THEN Append(images, reader'.file_index_) ELSE images
      /\ IF status # "READ_ERROR" THEN Post(ItemEvent(Item(status))) ELSE UNCHANGED events
    BY DEF ReadImage, ReadShowing, widgetVars, UnseenVars
<1>2. /\ TypeOK /\ reader.image_paths_ = dir /\ reader.image_size_ # NoSize /\ target_visualizer_
      /\ Enumerates(images, Good) /\ images \in Seq(Nat) /\ reader \in Readers
    BY <1>1 DEF Inv, TypeOK, Shown, Reading
<1>3. /\ k \in Nat /\ reader'.file_index_ = k /\ reader'.image_paths_ = dir
      /\ reader'.image_size_ = reader.image_size_
      /\ \A j : Label(j)' = Label(j)
      /\ \A j \in Passed : j \in Nat /\ j < k
      /\ status = IF k \in ReadableFiles(dir) THEN Label(k) ELSE "READ_ERROR"
      /\ Passed' = IF k \in ReadableFiles(dir) THEN Passed \cup {k} ELSE Passed
    BY <1>1, <1>2, NextPassed
<1>4. status \in Statuses
    BY <1>1, <1>2, ReaderAdvanced
<1> HIDE DEF k, status
<1>5. status # "READ_ERROR" <=> k \in ReadableFiles(dir)
    <2>1. Label(k) # "READ_ERROR"
        BY DEF Label, ExtractStatus
    <2> QED
        BY <1>3, <2>1
<1>6. Item(status) \in Items /\ Item(status).file = k /\ Item(status).status = status
    BY <1>3, <1>4 DEF Item, Items, k
<1>7. \A end : Announced(end)' <=> Announced(end)
    <2>1. CASE status = "READ_ERROR"
        BY <1>1, <2>1, SameAnnounced DEF Inv
    <2>2. CASE status # "READ_ERROR"
        <3>1. ItemEvent(Item(status)) \in Functors /\ ItemEvent(Item(status)).call = "AddExtractionItem"
            BY <1>6, FunctorFacts
        <3> QED
            BY <1>1, <2>2, <3>1, SameAnnounced DEF Inv
    <2> QED
        BY <2>1, <2>2
<1>8. Covered' /\ Ordered'
    <2>1. CASE status = "READ_ERROR"
        <3>1. Passed' = Passed /\ UNCHANGED events
            BY <1>1, <1>3, <1>5, <2>1
        <3>2. \A x : Truthful(x) => Truthful(x)'
            BY <1>3, <3>1, StaysTruthful
        <3> QED
            BY <1>1, <1>7, <3>1, <3>2 DEF Shown, Covered, Ordered, UnseenVars
    <2>2. CASE status # "READ_ERROR"
        <3>1. Passed' = Passed \cup {k} /\ status = Label(k) /\ Post(ItemEvent(Item(status)))
            BY <1>1, <1>3, <1>5, <2>2
        <3>2. /\ Ordered'
              /\ \A i \in DOMAIN events : i \in DOMAIN events' /\ events'[i] = events[i]
              /\ \E i \in DOMAIN events' : Waits(events', i) /\ events'[i].arg.file = k
            BY <1>1, <1>2, <1>3, <1>6, <3>1, ItemShown DEF Shown, UnseenVars
        <3> QED
            BY <1>1, <1>7, <3>1, <3>2 DEF Shown, Covered, Waits, UnseenVars
    <2> QED
        BY <2>1, <2>2
<1>9. images' \in Seq(Nat) /\ Enumerates(images', Good')
    <2>1. CASE status = "SUCCESS"
        <3>1. Passed' = Passed \cup {k} /\ Label(k) = "SUCCESS"
            BY <1>3, <1>5, <2>1
        <3>2. Good' = Good \cup {k}
            BY <1>3, <3>1 DEF Good
        <3>3. images' = Append(images, k) /\ \A j \in Good : j < k
            BY <1>1, <1>3, <2>1 DEF Good
        <3> QED
            BY <1>2, <1>3, <3>2, <3>3, EnumeratesMore
    <2>2. CASE status # "SUCCESS"
        <3>1. Good' = Good
            BY <1>3, <2>2 DEF Good
        <3> QED
            BY <1>1, <1>2, <2>2, <3>1
    <2> QED
        BY <2>1, <2>2
<1>10. Reading'
    <2>1. Enumerates(images, Good)'
        BY <1>9 DEF Enumerates
    <2> QED
        BY <1>1, <1>2, <1>3, <1>9, <2>1 DEF Shown, Reading, Calibrator, WithGuess, WithHousing
<1>11. \A end \in Ends : ~Announced(end)'
    BY <1>1, <1>7, NotYetAnnounced
<1>12. Outcome'
    BY <1>1, <1>11 DEF Shown, Outcome, Ends
<1> QED
    BY <1>8, <1>10, <1>12 DEF Shown

\* The file a failed extraction read is never shown.
LEMMA FailExtractionShown == ASSUME Inv, Shown, FailExtraction, UNCHANGED widgetVars PROVE Shown'
<1>1. /\ pc = "read" /\ pc' = "returned" /\ reader' = AfterNext(reader) /\ HasNext(reader)
      /\ Post(EndEvent("extraction failed")) /\ success' = "false"
      /\ UNCHANGED <<dir, options_, images, target_visualizer_, UnseenVars>>
    BY DEF FailExtraction, NextStatus, Return, widgetVars, UnseenVars
<1>2. TypeOK /\ reader.image_paths_ = dir /\ reader.image_size_ # NoSize
    BY <1>1 DEF Inv, Shown, Reading
<1>3. reader'.image_paths_ = dir /\ Passed \subseteq Passed' /\ \A k : Label(k)' = Label(k)
    BY <1>1, <1>2, NextPassed
<1>4. EndEvent("extraction failed") \in Functors /\ EndEvent("extraction failed").call = "EndCalibration"
    BY FunctorFacts DEF Ends
<1>5. \A end \in Ends : Announced(end)' <=> end = "extraction failed"
    BY <1>1, EndAnnounced DEF Ends
<1>6. Ordered'
    BY <1>1, <1>2, <1>3, <1>4, StaysTruthful, OthersPosted DEF Shown, UnseenVars
<1>7. Covered'
    BY <1>5 DEF Covered, Ends
<1>8. Reading'
    BY <1>1, <1>3 DEF Shown, Reading
<1>9. Outcome'
    BY <1>1, <1>5 DEF Outcome, Ends
<1> QED
    BY <1>6, <1>7, <1>8, <1>9 DEF Shown

\* The other ways out leave the reader where it is.
LEMMA WayOutShown ==
    ASSUME Inv, Shown, NEW end \in Ends, end # "extraction failed", Post(EndEvent(end)),
           end = "No readable images in provided directory!" \/ pc = "calibrate",
           pc \in {"size", "calibrate"}, pc' = "returned",
           UNCHANGED <<dir, reader, images, target_visualizer_, UnseenVars>>,
           success' = IF end = "calibration" THEN "true" ELSE "false",
           end = "calibration" => Complete'
    PROVE  Shown'
<1>1. EndEvent(end) \in Functors /\ EndEvent(end).call = "EndCalibration"
    BY FunctorFacts
<1>2. \A x \in Ends : Announced(x)' <=> x = end
    BY EndAnnounced
<1>3. ~Announced("extraction failed")
    BY NotYetAnnounced DEF Ends
<1>4. Covered' /\ Ordered'
    BY <1>1, <1>3, OthersPostedShown DEF Shown, UnseenVars
<1>5. Reading'
    BY DEF Shown, Reading
<1>6. pc = "calibrate" => ~HasNext(reader)
    BY DEF Shown, Reading
<1>7. Outcome'
    BY <1>2, <1>6 DEF Outcome, HasNext, Ends
<1> QED
    BY <1>4, <1>5, <1>7 DEF Shown

\* A calibration is made from every image that shows the target, and leaves
\* out no more of them than it may.
LEMMA CalibrateCompletes == ASSUME Inv, Shown, Calibrate PROVE Complete'
<1>1. PICK n \in Unregistered : ~TooMany(n) /\ Estimate(n)
    BY DEF Calibrate
<1>2. /\ pc = "calibrate" /\ UNCHANGED <<options_, dir, reader, images>>
      /\ camera' = [CalibratorCamera EXCEPT !.params = "calibrated"]
      /\ per_view_rms' = [i \in DOMAIN images |-> i > n]
    BY <1>1 DEF Estimate
<1>3. images \in Seq(Nat) /\ Enumerates(images, Good) /\ ~HasNext(reader) /\ reader.image_paths_ = dir
    BY <1>2 DEF Shown, Reading
<1>4. Good = {k \in ReadableFiles(dir) : Label(k) = "SUCCESS"}
    BY <1>3, AllPassed DEF Good, Inv
<1>5. Enumerates(images, {k \in ReadableFiles(dir) : Label(k) = "SUCCESS"})'
    <2>1. {k \in ReadableFiles(dir) : Label(k) = "SUCCESS"}' = Good
        BY <1>2, <1>4 DEF Label
    <2> QED
        BY <1>2, <1>3, <2>1 DEF Enumerates
<1>6. camera' = [size |-> reader'.image_size_, params |-> "calibrated", refractive |-> WithHousing']
    <2>1. WithHousing \in BOOLEAN /\ WithHousing' = WithHousing /\ reader' = reader
        BY <1>2 DEF WithHousing
    <2>2. CASE Calibrator = "HousingCalibrator"
        <3>1. WithHousing
            BY <2>2 DEF Calibrator
        <3> QED
            BY <1>2, <2>1, <2>2, <3>1 DEF CalibratorCamera, GivenCamera
    <2>3. CASE Calibrator # "HousingCalibrator" /\ WithGuess
        <3>1. camera = [size |-> reader.image_size_, params |-> "given", refractive |-> WithHousing]
            BY <1>2, <2>3 DEF Shown, Reading
        <3> QED
            BY <1>2, <2>1, <2>3, <3>1 DEF CalibratorCamera
    <2>4. CASE Calibrator # "HousingCalibrator" /\ ~WithGuess
        <3>1. ~WithHousing
            BY <2>4, AcceptedFit DEF Inv, SetUp, WithHousing, WithGuess
        <3> QED
            BY <1>2, <2>1, <2>4, <3>1 DEF CalibratorCamera, GivenCamera
    <2> QED
        BY <2>2, <2>3, <2>4
<1>7. 10 * Cardinality({i \in DOMAIN images' : per_view_rms'[i]}) >= 7 * Len(images')
    <2> DEFINE l == Len(images)
    <2>1. l \in Nat /\ DOMAIN images = 1 .. l
        BY <1>3, LenProperties
    <2>2. n \in 0 .. l
        BY <2>1 DEF Unregistered
    <2>3. 10 * n =< 3 * l
        BY <1>1, <2>1, <2>2 DEF TooMany
    <2>4. {i \in DOMAIN images' : per_view_rms'[i]} = n + 1 .. l
        <3> HIDE DEF l
        <3>1. \A i \in 1 .. l : i > n <=> i \in n + 1 .. l
            BY <2>1, <2>2
        <3>2. n + 1 .. l \subseteq 1 .. l
            BY <2>1, <2>2
        <3>3. \A i \in 1 .. l : per_view_rms'[i] = (i > n)
            BY <1>2, <2>1
        <3>4. DOMAIN images' = 1 .. l
            BY <1>2, <2>1
        <3> QED
            BY <3>1, <3>2, <3>3, <3>4
    <2>5. Cardinality(n + 1 .. l) = l - n
        <3> HIDE DEF l
        <3>1. n + 1 \in Int /\ l \in Int
            BY <2>1, <2>2
        <3>2. Cardinality(n + 1 .. l) = IF n + 1 > l THEN 0 ELSE l - (n + 1) + 1
            BY <3>1, FS_Interval
        <3> QED
            BY <2>1, <2>2, <3>2
    <2>6. 10 * (l - n) >= 7 * l
        <3> HIDE DEF l
        <3> QED
            BY <2>1, <2>2, <2>3
    <2> QED
        BY <1>2, <2>4, <2>5, <2>6
<1> QED
    BY <1>2, <1>5, <1>6, <1>7 DEF Complete

LEMMA OutShown ==
    ASSUME Inv, Shown, UNCHANGED widgetVars,
           RefuseDirectory \/ RefuseToCalibrate \/ FailCalibration \/ FailRegistration \/ Calibrate
    PROVE  Shown'
<1>1. UNCHANGED UnseenVars
    BY DEF UnseenVars, widgetVars
<1>2. CASE RefuseDirectory
    BY <1>1, <1>2, WayOutShown DEF RefuseDirectory, Return, Ends
<1>3. CASE RefuseToCalibrate
    <2>1. Post(EndEvent("No images to calibrate from."))
        BY <1>3, NothingRefused DEF RefuseToCalibrate, Inv
    <2> QED
        BY <1>1, <1>3, <2>1, WayOutShown DEF RefuseToCalibrate, Return, Ends
<1>4. CASE FailCalibration
    BY <1>1, <1>4, WayOutShown DEF FailCalibration, Return, Ends
<1>5. CASE FailRegistration
    BY <1>1, <1>5, WayOutShown DEF FailRegistration, Estimate, Return, Ends
<1>6. CASE Calibrate
    BY <1>1, <1>6, CalibrateCompletes, WayOutShown DEF Calibrate, Estimate, Return, Ends
<1> QED
    BY <1>2, <1>3, <1>4, <1>5, <1>6

\* The functors leave the worker's data alone.
LEMMA RunKeepsData ==
    ASSUME Inv, Shown, RunFunctor, UNCHANGED workerVars
    PROVE  /\ Reading' /\ Outcome' /\ target_visualizer_' = target_visualizer_
           /\ Passed' = Passed /\ \A k : Label(k)' = Label(k)
           /\ Announced("extraction failed")' <=> Announced("extraction failed")
           /\ \A i \in DOMAIN events' : i + 1 \in DOMAIN events /\ events'[i] = events[i + 1]
           /\ \A i \in DOMAIN events : i = 1 \/ (i - 1 \in DOMAIN events' /\ events'[i - 1] = events[i])
<1>1. target_visualizer_' = target_visualizer_
    BY DEF RunFunctor, AddExtractionItem, StartCalibration, EndCalibration
<1>2. Passed' = Passed /\ \A k : Label(k)' = Label(k)
    BY DEF Passed, Label, workerVars
<1>3. \A end \in Ends : Announced(end)' <=> Announced(end)
    BY RunAnnounced
<1>4. events # <<>>
    BY RunFinds
<1>5. Reading'
    <2>1. Good' = Good
        BY <1>2 DEF Good
    <2> QED
        BY <1>1, <1>4, <2>1
        DEF workerVars, Shown, Reading, Calibrator, WithGuess, WithHousing, HasNext, Enumerates
<1>6. Complete => Complete'
    BY DEF Complete, workerVars, Enumerates, Label, WithHousing
<1>7. Outcome'
    BY <1>3, <1>6 DEF workerVars, Shown, Outcome, HasNext, Ends
<1>8. \A i \in DOMAIN events' : i + 1 \in DOMAIN events /\ events'[i] = events[i + 1]
    BY RunFinds
<1>9. \A i \in DOMAIN events : i = 1 \/ (i - 1 \in DOMAIN events' /\ i - 1 + 1 = i)
    BY RunFinds
<1>10. \A i \in DOMAIN events : i = 1 \/ (i - 1 \in DOMAIN events' /\ events'[i - 1] = events[i])
    BY <1>8, <1>9
<1> QED
    BY <1>1, <1>2, <1>3, <1>5, <1>7, <1>8, <1>10 DEF Ends

LEMMA AddShown == ASSUME Inv, Shown, AddExtractionItem, UNCHANGED workerVars PROVE Shown'
<1>1. RunFunctor /\ events # <<>> /\ Head(events).call = "AddExtractionItem"
    BY DEF RunFunctor, AddExtractionItem, Due
<1>2. /\ Reading' /\ Outcome' /\ target_visualizer_' = target_visualizer_
      /\ Passed' = Passed /\ \A k : Label(k)' = Label(k)
      /\ Announced("extraction failed")' <=> Announced("extraction failed")
      /\ \A i \in DOMAIN events' : i + 1 \in DOMAIN events /\ events'[i] = events[i + 1]
      /\ \A i \in DOMAIN events : i = 1 \/ (i - 1 \in DOMAIN events' /\ events'[i - 1] = events[i])
    BY <1>1, RunKeepsData
<1>3. /\ Head(events) = events[1] /\ 1 \in DOMAIN events /\ DOMAIN events \subseteq Nat
      /\ Head(events) \in Functors /\ calibration_ended_ = FALSE
      /\ \A i \in DOMAIN events' : 1 < i + 1 /\ i \in Nat
    BY <1>1, RunFinds
<1> DEFINE item == Head(events).arg
           n == Len(items)
<1>4. item \in Items /\ Waits(events, 1)
    BY <1>1, <1>3, FunctorFacts DEF Waits
<1>5. /\ target_visualizer_ /\ Truthful(item) /\ \A j \in DOMAIN items : items[j].file < item.file
      /\ \A j \in DOMAIN events : 1 < j /\ Waits(events, j) => item.file < events[j].arg.file
    BY <1>3, <1>4 DEF Shown, Ordered
<1>6. items' = Append(items, item)
    BY <1>3, <1>5 DEF AddExtractionItem
<1>7. /\ n \in Nat /\ DOMAIN items = 1 .. n /\ DOMAIN items' = 1 .. n + 1
      /\ items'[n + 1] = item /\ \A i \in 1 .. n : items'[i] = items[i]
    BY <1>4, <1>6, Appended DEF Inv, TypeOK
<1>8. /\ \A i \in 1 .. n : i \in 1 .. n + 1
      /\ n + 1 \in 1 .. n + 1
      /\ \A i \in 1 .. n + 1 : (i = n + 1 \/ i \in 1 .. n) /\ ~(n + 1 < i)
    BY <1>7
<1> HIDE DEF item, n
<1>9. \A i \in DOMAIN events' : Waits(events', i) <=> Waits(events, i + 1)
    BY <1>2 DEF Waits
<1>10. \A x : Truthful(x) => Truthful(x)'
    BY <1>2, StaysTruthful
<1>11. Covered'
    <2>1. ASSUME NEW k \in Passed, NEW i \in DOMAIN events, Waits(events, i), events[i].arg.file = k
          PROVE  \/ \E j \in DOMAIN items' : items'[j].file = k
                 \/ \E j \in DOMAIN events' : Waits(events', j) /\ events'[j].arg.file = k
        <3>1. CASE i = 1
            BY <1>3, <1>7, <1>8, <2>1, <3>1 DEF item
        <3>2. CASE i # 1
            <4>1. i - 1 \in DOMAIN events' /\ events'[i - 1] = events[i]
                BY <1>2, <2>1, <3>2, Zenon
            <4>0. i \in Nat
                BY <1>3, <2>1
            <4>3. (i - 1) + 1 = i
                BY <4>0
            <4>2. Waits(events', i - 1)
                BY <1>9, <2>1, <4>1, <4>3
            <4> QED
                BY <2>1, <4>1, <4>2
        <3> QED
            BY <3>1, <3>2
    <2>2. \A i \in DOMAIN items : i \in DOMAIN items' /\ items'[i] = items[i]
        BY <1>7, <1>8
    <2> QED
        BY <1>2, <2>1, <2>2 DEF Shown, Covered
<1>12. ASSUME NEW i \in DOMAIN items'
       PROVE  /\ Truthful(items[i])'
              /\ \A j \in DOMAIN items' : i < j => items'[i].file < items'[j].file
    <2>1. CASE i = n + 1
        <3>1. \A j \in DOMAIN items' : ~(i < j)
            BY <1>7, <1>8, <2>1
        <3> QED
            BY <1>5, <1>7, <1>10, <2>1, <3>1
    <2>2. CASE i \in 1 .. n
        <3>1. Truthful(items[i]) /\ items[i].file < item.file
              /\ \A j \in 1 .. n : i < j => items[i].file < items[j].file
            BY <1>5, <1>7, <2>2 DEF Shown, Ordered
        <3> QED
            BY <1>7, <1>8, <1>10, <2>2, <3>1
    <2> QED
        BY <1>7, <1>8, <2>1, <2>2
<1>13. ASSUME NEW i \in DOMAIN events', Waits(events', i)
       PROVE  /\ Truthful(events[i].arg)'
              /\ \A j \in DOMAIN items' : items'[j].file < events'[i].arg.file
              /\ \A j \in DOMAIN events' :
                    i < j /\ Waits(events', j) => events'[i].arg.file < events'[j].arg.file
    <2>1. /\ i + 1 \in DOMAIN events /\ Waits(events, i + 1) /\ events'[i] = events[i + 1] /\ 1 < i + 1
          /\ i \in Nat
        BY <1>2, <1>3, <1>9, <1>13
    <2>2. /\ Truthful(events[i + 1].arg) /\ item.file < events[i + 1].arg.file
          /\ \A j \in DOMAIN items : items[j].file < events[i + 1].arg.file
          /\ \A j \in DOMAIN events :
                i + 1 < j /\ Waits(events, j) => events[i + 1].arg.file < events[j].arg.file
        BY <1>5, <2>1 DEF Shown, Ordered
    <2>3. \A j \in DOMAIN items' : items'[j].file < events'[i].arg.file
        BY <1>7, <1>8, <2>1, <2>2
    <2>4. \A j \in DOMAIN events' :
              i < j /\ Waits(events', j) => events'[i].arg.file < events'[j].arg.file
        <3> SUFFICES ASSUME NEW j \in DOMAIN events', i < j, Waits(events', j)
                     PROVE  events'[i].arg.file < events'[j].arg.file
            OBVIOUS
        <3>1. i + 1 < j + 1
            BY <1>3, <2>1
        <3>2. j + 1 \in DOMAIN events /\ Waits(events, j + 1) /\ events'[j] = events[j + 1]
            BY <1>2, <1>9
        <3> QED
            BY <2>1, <2>2, <3>1, <3>2
    <2> QED
        BY <1>10, <2>1, <2>2, <2>3, <2>4
<1>14. Ordered'
    BY <1>2, <1>5, <1>12, <1>13 DEF Ordered
<1> QED
    BY <1>2, <1>11, <1>14 DEF Shown

LEMMA OtherFunctorShown ==
    ASSUME Inv, Shown, StartCalibration \/ EndCalibration, UNCHANGED workerVars
    PROVE  Shown'
<1>1. RunFunctor /\ UNCHANGED items /\ Head(events).call # "AddExtractionItem"
    BY DEF RunFunctor, StartCalibration, EndCalibration, Due
<1>2. /\ Reading' /\ Outcome' /\ target_visualizer_' = target_visualizer_
      /\ Passed' = Passed /\ \A k : Label(k)' = Label(k)
      /\ Announced("extraction failed")' <=> Announced("extraction failed")
      /\ \A i \in DOMAIN events' : i + 1 \in DOMAIN events /\ events'[i] = events[i + 1]
      /\ \A i \in DOMAIN events : i = 1 \/ (i - 1 \in DOMAIN events' /\ events'[i - 1] = events[i])
    BY <1>1, RunKeepsData
<1>3. /\ ~Waits(events, 1)
      /\ \A i, j \in DOMAIN events' : i < j => i + 1 < j + 1
    BY <1>1, RunFinds DEF Waits
<1>4. \A i \in DOMAIN events' : Waits(events', i) <=> Waits(events, i + 1)
    BY <1>2 DEF Waits
<1>5. \A x : Truthful(x) => Truthful(x)'
    BY <1>2, StaysTruthful
<1>6. Covered'
    <2>1. ASSUME NEW k \in Passed, NEW i \in DOMAIN events, Waits(events, i), events[i].arg.file = k
          PROVE  \E j \in DOMAIN events' : Waits(events', j) /\ events'[j].arg.file = k
        BY <1>2, <1>3, <2>1 DEF Waits
    <2> QED
        BY <1>1, <1>2, <2>1 DEF Shown, Covered
<1>7. \A i \in DOMAIN events' : Waits(events', i) =>
          /\ target_visualizer_' /\ Truthful(events[i].arg)'
          /\ \A j \in DOMAIN items' : items'[j].file < events'[i].arg.file
          /\ \A j \in DOMAIN events' :
                i < j /\ Waits(events', j) => events'[i].arg.file < events'[j].arg.file
    <2> SUFFICES ASSUME NEW i \in DOMAIN events', Waits(events', i)
                 PROVE  /\ target_visualizer_' /\ Truthful(events[i].arg)'
                        /\ \A j \in DOMAIN items' : items'[j].file < events'[i].arg.file
                        /\ \A j \in DOMAIN events' :
                              i < j /\ Waits(events', j) => events'[i].arg.file < events'[j].arg.file
        OBVIOUS
    <2>1. i + 1 \in DOMAIN events /\ Waits(events, i + 1) /\ events'[i] = events[i + 1]
        BY <1>2, <1>4
    <2>2. /\ target_visualizer_ /\ Truthful(events[i + 1].arg)
          /\ \A j \in DOMAIN items : items[j].file < events[i + 1].arg.file
          /\ \A j \in DOMAIN events :
                i + 1 < j /\ Waits(events, j) => events[i + 1].arg.file < events[j].arg.file
        BY <2>1 DEF Shown, Ordered
    <2> QED
        BY <1>1, <1>2, <1>3, <1>4, <1>5, <2>1, <2>2
<1>8. Ordered'
    BY <1>1, <1>5, <1>7 DEF Shown, Ordered
<1> QED
    BY <1>2, <1>6, <1>8 DEF Shown

LEMMA NextShown == ASSUME Inv, Shown, [Next]_vars PROVE Shown'
<1>1. CASE Worker
    <2>1. UNCHANGED widgetVars
        BY <1>1 DEF Worker
    <2> QED
        BY <1>1, <2>1, ConstructShown, SetupShown, ReadShown, FailExtractionShown, BeginShown, OutShown
        DEF Worker
<1>2. CASE EventLoop
    BY <1>2, AddShown, OtherFunctorShown DEF EventLoop, RunFunctor
<1>3. CASE UNCHANGED vars
    <2> USE <1>3 DEF vars, workerVars, widgetVars
    <2>1. Passed' = Passed /\ (\A k : Label(k)' = Label(k)) /\ Good' = Good
        BY DEF Passed, Label, Good
    <2>2. (\A x : Truthful(x) => Truthful(x)') /\ \A end : Announced(end)' <=> Announced(end)
        BY <2>1, StaysTruthful DEF Announced
    <2>3. Covered' /\ Ordered'
        BY <2>1, <2>2 DEF Shown, Covered, Ordered
    <2>4. Reading'
        BY <2>1 DEF Shown, Reading, Calibrator, WithGuess, WithHousing, HasNext, Enumerates
    <2>5. Complete => Complete'
        BY DEF Complete, Enumerates, Label, WithHousing
    <2>6. Outcome'
        BY <2>2, <2>5 DEF Shown, Outcome, HasNext
    <2> QED
        BY <2>3, <2>4, <2>6 DEF Shown
<1> QED
    BY <1>1, <1>2, <1>3 DEF Next

LEMMA ShownAlways == Spec => []Shown
<1>1. Inv /\ Shown /\ [Next]_vars => Shown'
    BY NextShown
<1> QED
    BY <1>1, InitShown, Invariance, PTL DEF Spec

-----------------------------------------------------------------------------
LEMMA ResultIsLast ==
    ASSUME Inv, result # "none"
    PROVE  result \in Ends /\ pc = "returned" /\ DOMAIN events = {}
<1>1. calibration_ended_ /\ result \in Ends
    BY DEF Inv, TypeOK, History
<1>2. pc = "returned" /\ events = <<>>
    BY <1>1 DEF Inv, History
<1> QED
    BY <1>1, <1>2

\* Whatever the directory holds, the view that shows a result of it shows one
\* item for every readable image, in reading order, with the status it had.
THEOREM EveryImage == Spec => []ShowsEveryImage
<1>1. ASSUME Inv, Shown PROVE ShowsEveryImage
    <2> SUFFICES ASSUME result \notin {"none", "extraction failed",
                                      "No readable images in provided directory!"}
                 PROVE  /\ Enumerates([i \in DOMAIN items |-> items[i].file], ReadableFiles(dir))
                        /\ \A i \in DOMAIN items : items[i].status = Label(items[i].file)
        BY DEF ShowsEveryImage
    <2>1. result \in Ends /\ pc = "returned" /\ DOMAIN events = {}
        BY <1>1, ResultIsLast
    <2>2. Announced(result) /\ ~Announced("extraction failed")
        BY <2>1 DEF Announced
    <2>3. Passed = ReadableFiles(dir)
        BY <1>1, <2>1, <2>2, AllPassed DEF Inv, Shown, Outcome, Reading
    <2>4. \A k \in ReadableFiles(dir) : \E i \in DOMAIN items : items[i].file = k
        BY <1>1, <2>1, <2>2, <2>3 DEF Shown, Covered
    <2>5. \A i \in DOMAIN items :
              /\ items[i].file \in ReadableFiles(dir) /\ items[i].status = Label(items[i].file)
              /\ \A j \in DOMAIN items : i < j => items[i].file < items[j].file
        BY <1>1, <2>3 DEF Shown, Ordered, Truthful
    <2> QED
        BY <2>4, <2>5 DEF Enumerates
<1> QED
    BY <1>1, Invariance, ShownAlways, PTL

\* Run returns true exactly when a calibration is shown, and that was made from
\* every image with the target, has an error for each, and left out at most
\* three in ten, whatever the directory, the camera model and the options.
THEOREM Completed == Spec => []ResultIsComplete
<1>1. ASSUME Inv, Shown PROVE ResultIsComplete
    <2> SUFFICES ASSUME result # "none"
                 PROVE  (success = "true" <=> result = "calibration") /\ (result = "calibration" => Complete)
        BY DEF ResultIsComplete, Complete
    <2>1. DOMAIN events = {}
        BY <1>1, ResultIsLast
    <2>2. Announced("calibration") <=> result = "calibration"
        BY <2>1 DEF Announced
    <2> QED
        BY <1>1, <2>2 DEF Shown, Outcome
<1> QED
    BY <1>1, Invariance, ShownAlways, PTL
=============================================================================
