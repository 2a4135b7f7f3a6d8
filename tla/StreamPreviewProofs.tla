------------------------ MODULE StreamPreviewProofs ------------------------
(***************************************************************************)
(* At most one reader has a device open, and what the dialog says is about *)
(* the device that is selected, for any set of devices and any number of   *)
(* preview threads.                                                        *)
(***************************************************************************)
EXTENDS StreamPreview, FiniteSetTheorems, SequenceTheorems, TLAPS

Pictures == [device : Devices, frame : BOOLEAN]
Idle(t) == pc[t] \in {"unborn", "ended"}

TypeOK ==
    /\ attached \in SUBSET Devices /\ camera \in SUBSET Devices
    /\ gui \in {"menu", "starting", "dialog", "closing", "calibrating"}
    /\ accepted \in BOOLEAN /\ cancel_ \in BOOLEAN /\ valid_device_ \in BOOLEAN
    /\ device_index_ \in Devices /\ worker_thread_ \in Threads \cup {0}
    /\ pc \in [Threads -> {"unborn", "test", "open", "read", "report", "post", "ended"}]
    /\ device \in [Threads -> Devices]
    /\ opened \in [Threads -> BOOLEAN] /\ has_next \in [Threads -> BOOLEAN]
    /\ status \in [Threads -> {"none", "SUCCESS", "NO_MORE_IMAGES", "IMAGE_DIMENSION_MISSMATCH"}]
    /\ gave \in SUBSET Threads
    /\ events \in Seq(Pictures) /\ shown \in SUBSET Pictures

\* Threads are started in order.
InOrder == \E n \in 0 .. MaxStarts : \A t \in Threads : pc[t] # "unborn" <=> t =< n

\* Only the last thread may be alive, and a device is held by it or, when it
\* has been joined, by the calibration.
Owners ==
    /\ \A t \in Threads : Idle(t) => ~opened[t]
    /\ \A t \in Threads : t # worker_thread_ => Idle(t)
    /\ gui \in {"menu", "calibrating"} => worker_thread_ = 0
    /\ gui # "calibrating" => camera = {}
    /\ camera \subseteq {device_index_}

\* A thread that has returned nothing has given nothing.
Frames ==
    /\ \A t \in Threads : pc[t] = "unborn" => status[t] = "none"
    /\ \A t \in Threads : status[t] = "SUCCESS" => t \in gave

LastPicture(t) ==
    IF events = <<>> THEN shown = {Picture(t)} ELSE events[Len(events)] = Picture(t)

\* In the dialog the last thread reads the selected device; a valid device has
\* given it a frame, and what it read last is the last picture.
Verdict ==
    gui = "dialog" =>
        /\ worker_thread_ \in Threads
        /\ device[worker_thread_] = device_index_
        /\ valid_device_ => worker_thread_ \in gave
        /\ status[worker_thread_] # "none" /\ pc[worker_thread_] \notin {"report", "post"}
              => LastPicture(worker_thread_)

Inv == TypeOK /\ InOrder /\ Owners /\ Frames /\ Verdict

-----------------------------------------------------------------------------
LEMMA InitInv == Init => Inv
<1> SUFFICES ASSUME Init PROVE Inv
    OBVIOUS
<1>1. TypeOK
    <2>1. events = <<>> /\ <<>> \in Seq(Pictures)
        BY DEF Init
    <2>2. events \in Seq(Pictures)
        BY <2>1
    <2>3. /\ pc \in [Threads -> {"unborn"}] /\ status \in [Threads -> {"none"}]
          /\ device \in [Threads -> {0}]
          /\ opened \in [Threads -> BOOLEAN] /\ has_next \in [Threads -> BOOLEAN]
        BY DEF Init
    <2> QED
        BY <2>2, <2>3, DevicesAssumption DEF Init, TypeOK
<1>2. InOrder
    <2>1. 0 \in 0 .. MaxStarts /\ \A t \in Threads : pc[t] # "unborn" <=> t =< 0
        BY MaxStartsAssumption DEF Init, Threads
    <2> QED
        BY <2>1 DEF InOrder
<1>3. Owners /\ Frames /\ Verdict
    BY DEF Init, Owners, Frames, Verdict, Idle
<1> QED
    BY <1>1, <1>2, <1>3 DEF Inv

\* The next thread has not run yet.
LEMMA NextIsUnborn ==
    ASSUME InOrder, Cardinality(Started) + 1 \in Threads
    PROVE  pc[Cardinality(Started) + 1] = "unborn"
<1>1. PICK n \in 0 .. MaxStarts : \A t \in Threads : pc[t] # "unborn" <=> t =< n
    BY DEF InOrder
<1>2. n \in Int /\ MaxStarts \in Int
    BY MaxStartsAssumption
<1>3. Started = 1 .. n
    BY <1>1, MaxStartsAssumption DEF Started, Threads
<1>4. Cardinality(1 .. n) = IF 1 > n THEN 0 ELSE n - 1 + 1
    BY <1>2, FS_Interval
<1>5. Cardinality(Started) = n
    BY <1>1, <1>3, <1>4, MaxStartsAssumption
<1> QED
    BY <1>1, <1>5, MaxStartsAssumption

LEMMA PlugInv == ASSUME Inv, NEW d \in Devices, Plug(d) PROVE Inv'
<1> USE DEF Plug, dialogVars, readerVars
<1>1. TypeOK'
    BY DEF Inv, TypeOK
<1>2. InOrder' /\ Owners' /\ Frames'
    BY DEF Inv, InOrder, Owners, Frames, Idle
<1>3. Verdict'
    BY DEF Inv, Verdict, LastPicture, Picture
<1> QED
    BY <1>1, <1>2, <1>3 DEF Inv

-----------------------------------------------------------------------------
(* A preview thread *)

LEMMA PictureType == ASSUME TypeOK, NEW t \in Threads PROVE Picture(t) \in Pictures
BY DEF TypeOK, Picture, Pictures

LEMMA TypePreserved ==
    ASSUME TypeOK, NEW t \in Threads, Worker(t)
    PROVE  TypeOK'
<1> USE DEF Worker, readerVars, dialogVars
<1>1. CASE Test(t)
    BY <1>1 DEF Test, TypeOK, GoTo
<1>2. CASE Open(t)
    BY <1>2 DEF Open, TypeOK, GoTo, GiveUp, Return
<1>3. CASE Read(t)
    BY <1>3 DEF Read, TypeOK, GoTo, GiveUp, Return
<1>4. CASE Report(t)
    BY <1>4 DEF Report, TypeOK, GoTo
<1>5. CASE Post(t)
    <2>1. events' \in Seq(Pictures)
        BY <1>5, PictureType DEF Post, TypeOK
    <2> QED
        BY <1>5, <2>1 DEF Post, TypeOK, GoTo
<1> QED
    BY <1>1, <1>2, <1>3, <1>4, <1>5

\* Which thread lives, which are born and who has a device.
LEMMA OwnersPreserved ==
    ASSUME TypeOK, InOrder, Owners, NEW t \in Threads, Worker(t)
    PROVE  InOrder' /\ Owners'
<1> USE DEF Worker, readerVars, dialogVars
<1>1. t = worker_thread_ /\ pc[t] # "unborn" /\ pc'[t] # "unborn" /\ (pc'[t] = "ended" => ~opened'[t])
    BY DEF Owners, Idle, TypeOK, Test, Open, Read, Report, Post, GoTo, Return
<1>2. \A u \in Threads : u # t => pc'[u] = pc[u] /\ opened'[u] = opened[u]
    BY DEF TypeOK, Test, Open, Read, Report, Post, GoTo, Return
<1>3. InOrder'
    BY <1>1, <1>2 DEF InOrder
<1>4. Owners'
    BY <1>1, <1>2 DEF Owners, Idle
<1> QED
    BY <1>3, <1>4

LEMMA FramesPreserved ==
    ASSUME TypeOK, Frames, NEW t \in Threads, Worker(t)
    PROVE  Frames'
<1> USE DEF Worker, readerVars, dialogVars
<1>1. pc'[t] # "unborn"
    BY DEF TypeOK, Test, Open, Read, Report, Post, GoTo, Return
<1>2. status'[t] = "SUCCESS" => t \in gave'
    BY DEF Frames, TypeOK, Test, Open, Read, Report, Post, GoTo, Return
<1>3. gave \subseteq gave'
    BY DEF Test, Open, Read, Report, Post
<1>4. \A u \in Threads : u # t => pc'[u] = pc[u] /\ status'[u] = status[u]
    BY DEF TypeOK, Test, Open, Read, Report, Post, GoTo, Return
<1> QED
    BY <1>1, <1>2, <1>3, <1>4 DEF Frames

LEMMA VerdictPreserved ==
    ASSUME Inv, NEW t \in Threads, Worker(t)
    PROVE  Verdict'
<1> USE DEF Worker, readerVars, dialogVars, Inv
<1> SUFFICES ASSUME gui' = "dialog" PROVE Verdict'
    BY DEF Verdict
<1>1. t = worker_thread_ /\ gui = "dialog"
    BY DEF Owners, Idle, TypeOK, Test, Open, Read, Report, Post
<1>2. worker_thread_' \in Threads /\ device'[worker_thread_'] = device_index_'
    BY <1>1 DEF Verdict, Test, Open, Read, Report, Post
<1>3. valid_device_' => worker_thread_' \in gave'
    BY <1>1 DEF Verdict, Frames, Test, Open, Read, Report, Post
<1>4. ASSUME status'[t] # "none", pc'[t] \notin {"report", "post"} PROVE LastPicture(t)'
    <2>1. CASE Test(t) \/ (Open(t) /\ pc'[t] = "read")
        <3>1. UNCHANGED <<status, events, shown, device>> /\ pc[t] \in {"test", "open"}
            BY <2>1 DEF Test, Open, TypeOK, Return, GoTo
        <3> QED
            BY <1>1, <1>4, <3>1 DEF Verdict, LastPicture, Picture
    <2>2. CASE Post(t)
        <3>1. Picture(t)' = Picture(t) /\ events \in Seq(Pictures) /\ Picture(t) \in Pictures
            BY <2>2, PictureType DEF Post, Picture, TypeOK
        <3>2. events' # <<>> /\ events'[Len(events')] = Picture(t)
            <4> DEFINE p == Picture(t)
            <4>1. events' = IF events # <<>> /\ events[Len(events)] = p THEN events ELSE Append(events, p)
                BY <2>2 DEF Post
            <4>2. p \in Pictures /\ events \in Seq(Pictures)
                BY <3>1
            <4> HIDE DEF p
            <4>3. events' # <<>> /\ events'[Len(events')] = p
                BY <4>1, <4>2
            <4> QED
                BY <4>3 DEF p
        <3> QED
            BY <3>1, <3>2 DEF LastPicture
    <2>3. pc'[t] \in {"report", "post"} \/ Test(t) \/ Post(t) \/ (Open(t) /\ pc'[t] = "read")
        BY DEF Open, Read, Report, Return, GoTo, TypeOK
    <2> QED
        BY <1>4, <2>1, <2>2, <2>3
<1>5. t = worker_thread_'
    BY <1>1
<1> QED
    BY <1>2, <1>3, <1>4, <1>5 DEF Verdict

LEMMA WorkerInv == ASSUME Inv, NEW t \in Threads, Worker(t) PROVE Inv'
BY TypePreserved, OwnersPreserved, FramesPreserved, VerdictPreserved DEF Inv

-----------------------------------------------------------------------------
(* The GUI thread and the calibration *)

LEMMA NewInv == ASSUME Inv, NewStreamCalibration PROVE Inv'
<1> USE DEF NewStreamCalibration, NothingRead, readerVars
<1>1. TypeOK'
    BY DevicesAssumption DEF Inv, TypeOK
<1>2. InOrder' /\ Owners' /\ Frames' /\ Verdict'
    BY DEF Inv, InOrder, Owners, Frames, Verdict, Idle
<1> QED
    BY <1>1, <1>2 DEF Inv

LEMMA SelectInv == ASSUME Inv, NEW d \in Devices, Select(d) PROVE Inv'
<1> USE DEF Select, NothingRead, readerVars
<1>1. TypeOK'
    BY DEF Inv, TypeOK
<1>2. InOrder' /\ Owners' /\ Frames' /\ Verdict'
    BY DEF Inv, InOrder, Owners, Frames, Verdict, Idle
<1> QED
    BY <1>1, <1>2 DEF Inv

LEMMA StartInv == ASSUME Inv, StartLiveStream PROVE Inv'
<1>1. PICK t \in Threads :
        /\ t = Cardinality(Started) + 1
        /\ worker_thread_' = t /\ cancel_' = FALSE
        /\ GoTo(t, "test") /\ device' = [device EXCEPT ![t] = device_index_]
        /\ gui' = "dialog"
        /\ UNCHANGED <<attached, accepted, device_index_, opened, has_next, gave, status, events, shown, camera>>
    BY DEF StartLiveStream, Launch
<1>2. pc[t] = "unborn"
    BY <1>1, NextIsUnborn DEF Inv
<1>3. gui = "starting" /\ Joined /\ valid_device_' = FALSE
    BY DEF StartLiveStream
<1>4. TypeOK'
    BY <1>1, <1>3 DEF Inv, TypeOK, GoTo
<1>5. pc' = [pc EXCEPT ![t] = "test"] /\ pc \in [Threads -> {"unborn", "test", "open", "read", "report", "post", "ended"}]
    BY <1>1 DEF Inv, TypeOK, GoTo
<1>6. InOrder'
    <2>1. PICK n \in 0 .. MaxStarts : \A u \in Threads : pc[u] # "unborn" <=> u =< n
        BY DEF Inv, InOrder
    <2>2. Started = 1 .. n
        BY <2>1, MaxStartsAssumption DEF Started, Threads
    <2>3. n \in Int /\ Cardinality(1 .. n) = IF 1 > n THEN 0 ELSE n - 1 + 1
        BY FS_Interval
    <2>4. t = n + 1
        BY <1>1, <2>1, <2>2, <2>3
    <2>5. t \in 0 .. MaxStarts /\ \A u \in Threads : pc'[u] # "unborn" <=> u =< t
        BY <1>5, <2>1, <2>4, MaxStartsAssumption DEF Threads
    <2> QED
        BY <2>5 DEF InOrder
<1>7. Owners'
    <2>1. \A u \in Threads : Idle(u)
        BY <1>3 DEF Inv, Owners, Joined, Idle, TypeOK, Threads
    <2>2. camera' = {} /\ gui' = "dialog"
        BY <1>1, <1>3 DEF Inv, Owners
    <2>3. \A u \in Threads : u # t => pc'[u] = pc[u]
        BY <1>5
    <2>4. \A u \in Threads : ~opened[u]
        BY <2>1 DEF Inv, Owners
    <2> QED
        BY <1>1, <2>1, <2>2, <2>3, <2>4 DEF Owners, Idle
<1>8. Frames' /\ Verdict'
    <2>1. status[t] = "none" /\ worker_thread_' = t /\ device'[t] = device_index_
        BY <1>1, <1>2 DEF Inv, Frames, TypeOK
    <2>2. \A u \in Threads : pc'[u] = "unborn" => pc[u] = "unborn"
        BY <1>5
    <2> QED
        BY <1>1, <1>3, <2>1, <2>2 DEF Inv, Frames, Verdict
<1> QED
    BY <1>4, <1>6, <1>7, <1>8 DEF Inv

\* The first of two or more pictures goes and the last stays.
LEMMA TailKeepsLast ==
    ASSUME NEW S, NEW s \in Seq(S), s # <<>>
    PROVE  /\ Head(s) \in S /\ Tail(s) \in Seq(S)
           /\ IF Tail(s) = <<>> THEN Head(s) = s[Len(s)]
              ELSE Tail(s)[Len(Tail(s))] = s[Len(s)]
<1>1. Len(s) \in Nat \ {0} /\ Len(<<>>) = 0
    BY EmptySeq
<1>2. /\ Head(s) \in S /\ Tail(s) \in Seq(S) /\ Len(Tail(s)) = Len(s) - 1
      /\ \A i \in 1 .. Len(Tail(s)) : Tail(s)[i] = s[i + 1]
    BY HeadTailProperties
<1>3. Head(s) = s[1]
    OBVIOUS
<1>4. CASE Tail(s) = <<>>
    <2>1. Len(s) = 1
        <3> DEFINE n == Len(s)  m == Len(Tail(s))
        <3>1. m = 0 /\ m = n - 1 /\ n \in Nat
            BY <1>1, <1>2, <1>4
        <3> HIDE DEF n, m
        <3>2. n = 1
            BY <3>1
        <3> QED
            BY <3>2 DEF n
    <2> QED
        BY <1>2, <1>3, <1>4, <2>1
<1>5. CASE Tail(s) # <<>>
    <2>1. Len(Tail(s)) \in Nat \ {0}
        BY <1>2, <1>5, EmptySeq
    <2>2. Tail(s)[Len(Tail(s))] = s[Len(Tail(s)) + 1] /\ Len(Tail(s)) + 1 = Len(s)
        BY <1>1, <1>2, <2>1
    <2> QED
        BY <1>2, <1>5, <2>2
<1> QED
    BY <1>4, <1>5

LEMMA ShowInv == ASSUME Inv, ShowPicture PROVE Inv'
<1> USE DEF ShowPicture, NothingRead, readerVars
<1>1. events \in Seq(Pictures) /\ events # <<>>
    BY DEF Inv, TypeOK
<1>2. TypeOK'
    BY <1>1, TailKeepsLast DEF Inv, TypeOK
<1>3. InOrder' /\ Owners' /\ Frames'
    BY DEF Inv, InOrder, Owners, Frames, Idle
<1>4. ASSUME NEW t \in Threads, LastPicture(t) PROVE LastPicture(t)'
    <2>1. events[Len(events)] = Picture(t) /\ Picture(t)' = Picture(t)
        BY <1>1, <1>4 DEF LastPicture, Picture
    <2>2. IF events' = <<>> THEN Head(events) = Picture(t) ELSE events'[Len(events')] = Picture(t)
        BY <1>1, <2>1, TailKeepsLast
    <2> QED
        BY <2>1, <2>2 DEF LastPicture
<1>5. Verdict'
    BY <1>4 DEF Inv, Verdict
<1> QED
    BY <1>2, <1>3, <1>5 DEF Inv

LEMMA DoneInv == ASSUME Inv, NEW r \in BOOLEAN, Done(r) PROVE Inv'
<1> USE DEF Done, NothingRead, readerVars
<1>1. TypeOK'
    BY DEF Inv, TypeOK
<1>2. InOrder' /\ Owners' /\ Frames' /\ Verdict'
    BY DEF Inv, InOrder, Owners, Frames, Verdict, Idle
<1> QED
    BY <1>1, <1>2 DEF Inv

LEMMA CloseInv == ASSUME Inv, CloseLiveStream PROVE Inv'
<1> USE DEF CloseLiveStream, NothingRead, readerVars
<1>1. TypeOK'
    BY DEF Inv, TypeOK
<1>2. InOrder' /\ Frames' /\ Verdict'
    BY DEF Inv, InOrder, Frames, Verdict
<1>3. \A t \in Threads : Idle(t)
    BY DEF Inv, Owners, Idle, Joined, TypeOK, Threads
<1>4. Owners'
    BY <1>3 DEF Inv, Owners, Idle
<1> QED
    BY <1>1, <1>2, <1>4 DEF Inv

LEMMA CalibrationInv == ASSUME Inv, OpenCamera \/ EndCalibration PROVE Inv'
<1> USE DEF OpenCamera, EndCalibration, readerVars, dialogVars
<1>1. TypeOK'
    BY DEF Inv, TypeOK
<1>2. InOrder' /\ Owners' /\ Frames' /\ Verdict'
    BY DEF Inv, InOrder, Owners, Frames, Verdict, Idle
<1> QED
    BY <1>1, <1>2 DEF Inv

LEMMA StutterInv == ASSUME Inv, UNCHANGED vars PROVE Inv'
<1> USE DEF vars, dialogVars, readerVars
<1>1. TypeOK' /\ InOrder' /\ Owners' /\ Frames'
    BY DEF Inv, TypeOK, InOrder, Owners, Frames, Idle
<1>2. Verdict'
    BY DEF Inv, Verdict, LastPicture, Picture
<1> QED
    BY <1>1, <1>2 DEF Inv

LEMMA NextInv == ASSUME Inv, [Next]_vars PROVE Inv'
BY PlugInv, SelectInv, WorkerInv, NewInv, StartInv, ShowInv, DoneInv, CloseInv,
   CalibrationInv, StutterInv DEF Next

LEMMA Invariance == Spec => []Inv
BY InitInv, NextInv, PTL DEF Spec

-----------------------------------------------------------------------------
\* "Device not found." and the picture are always about the device that is
\* selected in the dialog (Validate and StartLiveStream).
THEOREM Speaks == Spec => []SpeaksOfSelected
<1>1. ASSUME Inv PROVE SpeaksOfSelected
    BY <1>1 DEF Inv, Verdict, LastPicture, Picture, SpeaksOfSelected
<1> QED
    BY <1>1, Invariance, PTL

\* The preview's threads and the calibration open one device at a time: each
\* reader is joined before the next one, or the calibration, may open its own.
THEOREM OpensOne == Spec => []OneReader
<1>1. ASSUME Inv PROVE OneReader
    <2> DEFINE O == {t \in Threads : opened[t]}
    <2>1. Cardinality({}) = 0
        BY FS_EmptySet
    <2>2. \A x : IsFiniteSet({x}) /\ Cardinality({x}) = 1
        BY FS_Singleton
    <2>3. CASE gui = "calibrating"
        <3>1. worker_thread_ \notin Threads /\ camera \subseteq {device_index_}
            BY <1>1, <2>3 DEF Inv, Owners, Threads
        <3>2. O = {}
            BY <1>1, <3>1 DEF Inv, Owners
        <3>3. camera = {} \/ camera = {device_index_}
            BY <3>1
        <3>4. Cardinality(O) = 0 /\ Cardinality(camera) \in {0, 1}
            BY <2>1, <2>2, <3>2, <3>3
        <3> QED
            BY <3>4 DEF OneReader
    <2>4. CASE gui # "calibrating"
        <3>1. camera = {}
            BY <1>1, <2>4 DEF Inv, Owners
        <3>2. O = {} \/ O = {worker_thread_}
            BY <1>1 DEF Inv, Owners
        <3>3. Cardinality(O) \in {0, 1} /\ Cardinality(camera) = 0
            BY <2>1, <2>2, <3>1, <3>2
        <3> QED
            BY <3>3 DEF OneReader
    <2> QED
        BY <2>3, <2>4
<1> QED
    BY <1>1, Invariance, PTL
=============================================================================
