---------------------------- MODULE SessionProofs ----------------------------
(***************************************************************************)
(* The promises of Session for any number of calibrations and images.      *)
(*                                                                         *)
(* The invariant follows the last calibration, count, through its phases:  *)
(* running; returned, with its result posted or shown; ended, with         *)
(* EndNewCalibration posted behind the result; and shown.  Everything the  *)
(* menus do hangs on that: the actions are enabled in the last phase only, *)
(* so that every earlier worker is done when a calibration begins.         *)
(***************************************************************************)
EXTENDS Session, SequenceTheorems, TLAPS

EndEvent == Functor(0, "EndNewCalibration")
ResultEvent(r) == Functor(count, r)

Numbers ==
    /\ count \in 0 .. MaxCalibrations
    /\ calibration_ = count /\ widget = count /\ calibration_stereo_ \in {0, count}

Workers ==
    /\ pc \in [Calibrations -> WorkerPcs]
    /\ \A k \in Calibrations : /\ k < count => pc[k] = "done"
                               /\ k = count => pc[k] # "unborn"
                               /\ k > count => pc[k] = "unborn"

Running == pc[count] = "run" /\ events = <<>> /\ result = "none" /\ ~calibrate_enabled

Returned(r) ==
    /\ pc[count] \in {"succeeded", "failed", "end"} /\ ~calibrate_enabled
    /\ \/ events = <<ResultEvent(r)>> /\ result = "none"
       \/ events = <<>> /\ result = r

Ended(r) ==
    /\ pc[count] = "done" /\ ~calibrate_enabled
    /\ \/ events = <<ResultEvent(r), EndEvent>> /\ result = "none"
       \/ events = <<EndEvent>> /\ result = r

Shown(r) == pc[count] = "done" /\ calibrate_enabled /\ events = <<>> /\ result = r

\* What Run returned, what was stored of it, and what the view is told agree.
Outcome(r) ==
    /\ pc[count] = "succeeded" => r = "calibration"
    /\ pc[count] = "failed" => r = "message"
    /\ pc[count] \in {"end", "done"} => (calibration_success_ <=> r = "calibration")
    /\ r = "calibration" => images[count] > 0

NotBegun == count = 0 /\ events = <<>> /\ calibrate_enabled /\ ~save_enabled /\ result = "none"

Phase ==
    \/ NotBegun
    \/ count > 0 /\ Running
    \/ count > 0 /\ \E r \in Results : Outcome(r) /\ (Returned(r) \/ Ended(r) \/ Shown(r))

Menus ==
    /\ calibrate_enabled \in BOOLEAN /\ save_enabled \in BOOLEAN /\ calibration_success_ \in BOOLEAN
    /\ gui \in {"idle", "searching", "destroyed", "exited"} \cup Dialogs
    /\ gui \in Kinds => calibrate_enabled
    /\ gui = "save" => save_enabled
    /\ save_enabled => calibrate_enabled /\ result = "calibration"

Data ==
    /\ images \in [Calibrations -> 0 .. MaxImages]
    /\ written \subseteq Calibrations
    /\ \A k \in written : pc[k] = "done" /\ images[k] > 0
    /\ fault \in {"none", "use of the destroyed window", "data race on Images()"}

Safe == Numbers /\ Workers /\ Phase /\ Menus /\ Data

-----------------------------------------------------------------------------
\* The queue never holds more than two functors; these are all the facts about
\* sequences that are needed.
LEMMA Queues ==
    ASSUME NEW a, NEW b
    PROVE  /\ Append(<<>>, a) = <<a>> /\ Append(<<a>>, b) = <<a, b>>
           /\ Head(<<a>>) = a /\ Tail(<<a>>) = <<>>
           /\ Head(<<a, b>>) = a /\ Tail(<<a, b>>) = <<b>>
           /\ <<a>> # <<>> /\ <<a, b>> # <<>>
<1> DEFINE S == {a, b}
<1>1. <<>> \in Seq(S) /\ <<a>> \in Seq(S) /\ <<a, b>> \in Seq(S)
  OBVIOUS
<1>2. Append(<<>>, a) = <<a>>
  BY <1>1
<1>3. Append(<<a>>, b) = <<a, b>>
  <2>1. /\ Append(<<a>>, b) \in Seq(S) /\ Len(Append(<<a>>, b)) = 2
        /\ \A i \in 1 .. 2 : Append(<<a>>, b)[i] = <<a, b>>[i]
    BY <1>1, AppendProperties
  <2>2. Len(<<a, b>>) = 2
    BY <1>1
  <2> HIDE DEF S
  <2> QED
    BY <1>1, <2>1, <2>2, SeqEqual
<1>4. Head(<<a>>) = a /\ Head(<<a, b>>) = a
  BY <1>1
<1>5. Tail(<<a>>) = <<>>
  BY <1>1
<1>6. Tail(<<a, b>>) = <<b>>
  BY <1>1
<1>7. <<a>> # <<>> /\ <<a, b>> # <<>>
  BY <1>1
<1> QED
  BY <1>2, <1>3, <1>4, <1>5, <1>6, <1>7

LEMMA Types == Safe => TypeOK
<1> SUFFICES ASSUME Safe PROVE TypeOK
  OBVIOUS
<1>1. events \in Seq(Functors) /\ result \in {"none"} \cup Results
  <2> EndEvent \in Functors
    BY Zenon DEF EndEvent, Functors
  <2> HIDE DEF Functors
  <2>0. /\ <<>> \in Seq(Functors)
        /\ \A e \in Functors : <<e>> \in Seq(Functors)
        /\ \A e, f \in Functors : <<e, f>> \in Seq(Functors)
    OBVIOUS
  <2>1. CASE NotBegun \/ Running
    BY <2>0, <2>1 DEF NotBegun, Running
  <2>2. ASSUME count > 0, NEW r \in Results, Returned(r) \/ Ended(r) \/ Shown(r)
        PROVE  events \in Seq(Functors) /\ result \in {"none"} \cup Results
    <3>1. ResultEvent(r) \in Functors
      BY <2>2, BoundsAssumption DEF Safe, Numbers, ResultEvent, Functor, Functors, Calibrations
    <3> QED
      BY <2>0, <2>2, <3>1, Zenon DEF Returned, Ended, Shown
  <2> QED
    BY <2>1, <2>2 DEF Safe, Phase
<1>2. /\ count \in 0 .. MaxCalibrations
      /\ calibration_ \in 0 .. MaxCalibrations /\ calibration_stereo_ \in 0 .. MaxCalibrations
      /\ widget \in 0 .. MaxCalibrations
  BY BoundsAssumption DEF Safe, Numbers
<1> QED
  BY <1>1, <1>2 DEF Safe, TypeOK, Workers, Menus, Data

LEMMA SafeInit == Init => Safe
<1> SUFFICES ASSUME Init PROVE Safe
  OBVIOUS
<1>1. Numbers /\ Workers /\ Data
  BY BoundsAssumption DEF Init, Numbers, Workers, Data, Calibrations, WorkerPcs
<1>2. Phase /\ Menus
  BY DEF Init, Phase, NotBegun, Menus, Dialogs, Kinds
<1> QED
  BY <1>1, <1>2 DEF Safe

\* A step that leaves the workers, the queue and the actions alone.
LEMMA Frame ==
    ASSUME Safe, UNCHANGED <<count, calibration_, calibration_stereo_, widget>>,
           UNCHANGED actionVars, UNCHANGED <<pc, calibration_success_, events, result>>,
           images' = images \/ \E k \in Calibrations : pc[k] = "run" /\ images' = [images EXCEPT ![k] = @ + 1]
    PROVE  Numbers' /\ Workers' /\ Phase'
<1>1. Numbers' /\ Workers'
  BY DEF Safe, Numbers, Workers, actionVars
<1>2. Phase'
  <2>1. CASE NotBegun
    BY <2>1 DEF Phase, NotBegun, actionVars
  <2>2. CASE count > 0 /\ Running
    BY <2>2 DEF Phase, Running, actionVars
  <2>3. ASSUME count > 0, NEW r \in Results, Outcome(r), Returned(r) \/ Ended(r) \/ Shown(r)
        PROVE Phase'
    <3>0. pc[count] # "run" /\ count \in Calibrations
      BY <2>3, BoundsAssumption DEF Safe, Numbers, Calibrations, Returned, Ended, Shown
    <3>1. images'[count] = images[count]
      BY <3>0 DEF Safe, Data
    <3>2. Outcome(r)'
      BY <2>3, <3>1 DEF Outcome
    <3>3. (Returned(r) \/ Ended(r) \/ Shown(r))'
      BY <2>3 DEF Returned, Ended, Shown, ResultEvent, actionVars
    <3> QED
      BY <2>3, <3>2, <3>3 DEF Phase
  <2> QED
    BY <2>1, <2>2, <2>3 DEF Safe, Phase
<1> QED
  BY <1>1, <1>2

\* While the actions are enabled the last calibration, if any, is over.
LEMMA Over1 ==
    ASSUME Safe, calibrate_enabled
    PROVE  /\ events = <<>> /\ \A k \in Calibrations : k =< count => pc[k] = "done"
           /\ count > 0 => \E r \in Results : Outcome(r) /\ Shown(r)
<1>1. NotBegun \/ (count > 0 /\ \E r \in Results : Outcome(r) /\ Shown(r))
  BY DEF Safe, Phase, Running, Returned, Ended
<1> QED
  BY <1>1 DEF Safe, NotBegun, Numbers, Workers, Calibrations, Shown

LEMMA DialogStep ==
    ASSUME Safe,
           \/ \E kind \in Kinds : OpenOptions(kind)
           \/ Reject \/ OpenSave \/ DisplayExtractionImage \/ ShowExtractionImage
           \/ Close \/ Exit
    PROVE  Safe'
<1>1. /\ UNCHANGED windowVars /\ UNCHANGED workerVars
      /\ UNCHANGED <<actionVars, events, result, fault>>
  BY DEF OpenOptions, Reject, OpenSave, DisplayExtractionImage, ShowExtractionImage, Close, Exit
<1>2. (Numbers /\ Workers /\ Phase)'
  BY <1>1, Frame DEF windowVars, workerVars
<1>3. Data'
  BY <1>1 DEF Safe, Data, windowVars, workerVars
<1>4. Menus'
  BY <1>1 DEF Safe, Menus, Kinds, Dialogs, windowVars, workerVars, actionVars,
     OpenOptions, Reject, OpenSave, DisplayExtractionImage, ShowExtractionImage, Close, Exit
<1> QED
  BY <1>2, <1>3, <1>4 DEF Safe

LEMMA SaveStep == ASSUME Safe, SaveCalibration PROVE Safe'
<1> USE DEF SaveCalibration
<1>1. (Numbers /\ Workers /\ Phase)'
  BY Frame DEF workerVars
<1>2. Menus'
  BY DEF Safe, Menus, Kinds, Dialogs, workerVars, actionVars
<1>3. calibration_ \in Calibrations /\ pc[calibration_] = "done" /\ images[calibration_] > 0
  <2>1. count > 0 /\ calibration_ = count /\ count \in Calibrations
    BY BoundsAssumption DEF Safe, Numbers, Calibrations
  <2>2. Outcome("calibration") /\ Shown("calibration")
    BY <2>1, Over1 DEF Safe, Menus, Shown
  <2> QED
    BY <2>1, <2>2 DEF Outcome, Shown
<1>4. Data'
  BY <1>3 DEF Safe, Data, workerVars
<1> QED
  BY <1>1, <1>2, <1>4 DEF Safe

LEMMA BeginStep == ASSUME Safe, NewCalibration PROVE Safe'
<1> USE DEF NewCalibration, BeginNewCalibration, DisableActions
<1>1. calibrate_enabled /\ events = <<>> /\ \A k \in Calibrations : k =< count => pc[k] = "done"
  BY Over1 DEF Safe, Menus
<1>2. count' \in Calibrations /\ count' = count + 1 /\ count \in Nat
  BY BoundsAssumption DEF Safe, Numbers, Calibrations
<1>3. Numbers'
  BY <1>2, BoundsAssumption DEF Numbers, Calibrations
<1>4. Workers'
  BY <1>1, <1>2 DEF Safe, Workers, Calibrations, WorkerPcs
<1>5. Phase'
  BY <1>1, <1>2 DEF Safe, Workers, Phase, Running
<1>6. Menus'
  BY DEF Safe, Menus, Kinds, Dialogs
<1>7. Data'
  <2>1. pc[count'] = "unborn"
    BY <1>2 DEF Safe, Workers
  <2>2. \A k \in written : pc'[k] = "done" /\ images[k] > 0
    BY <2>1, <1>2 DEF Safe, Workers, Data
  <2> QED
    BY <2>2 DEF Safe, Data
<1> QED
  BY <1>3, <1>4, <1>5, <1>6, <1>7 DEF Safe

LEMMA ShowStep == ASSUME Safe, ShowResult PROVE Safe'
<1> USE DEF ShowResult, InEventLoop
<1>1. PICK r \in Results : /\ count > 0 /\ Outcome(r)
                          /\ \/ Returned(r) /\ events = <<ResultEvent(r)>>
                             \/ Ended(r) /\ events = <<ResultEvent(r), EndEvent>>
  <2>1. PICK r \in Results : count > 0 /\ Outcome(r) /\ (Returned(r) \/ Ended(r))
    BY DEF Safe, Phase, NotBegun, Running, Shown
  <2>2. events # <<EndEvent>>
    BY Queues DEF EndEvent, Functor
  <2> QED
    BY <2>1, <2>2 DEF Returned, Ended
<1>2. Head(events) = ResultEvent(r) /\ result' = r
  BY <1>1, Queues DEF Safe, Numbers, ResultEvent, Functor
<1>3. Outcome(r)'
  BY <1>1 DEF Outcome, workerVars, windowVars
<1>0. Tail(<<ResultEvent(r)>>) = <<>> /\ Tail(<<ResultEvent(r), EndEvent>>) = <<EndEvent>>
  BY Queues
<1>7. Returned(r)' \/ Ended(r)'
  BY <1>0, <1>1, <1>2 DEF Returned, Ended, workerVars, windowVars, actionVars
<1>4. Phase'
  BY <1>1, <1>3, <1>7 DEF Phase, windowVars
<1>5. ~calibrate_enabled
  BY <1>1 DEF Returned, Ended
<1>6. (Numbers /\ Workers /\ Menus /\ Data)'
  BY <1>5 DEF Safe, Numbers, Workers, Menus, Data, workerVars, windowVars, actionVars
<1> QED
  BY <1>4, <1>6 DEF Safe

LEMMA EndStep == ASSUME Safe, EndNewCalibration PROVE Safe'
<1> USE DEF EndNewCalibration, InEventLoop
<1>1. PICK r \in Results : /\ count > 0 /\ Outcome(r) /\ Ended(r)
                          /\ events = <<EndEvent>> /\ result = r
  <2>1. PICK r \in Results : count > 0 /\ Outcome(r) /\ (Returned(r) \/ Ended(r))
    BY DEF Safe, Phase, NotBegun, Running, Shown
  <2>2. Head(<<ResultEvent(r)>>).target # 0 /\ Head(<<ResultEvent(r), EndEvent>>).target # 0
    BY <2>1, Queues DEF Safe, Numbers, ResultEvent, Functor
  <2> QED
    BY <2>1, <2>2 DEF Returned, Ended
<1>2. Tail(events) = <<>>
  BY <1>1, Queues
<1>3. Outcome(r)' /\ Shown(r)'
  BY <1>1, <1>2 DEF Outcome, Ended, Shown, windowVars, workerVars
<1>4. Phase'
  BY <1>1, <1>3 DEF Phase, windowVars
<1>5. calibration_success_ => r = "calibration"
  BY <1>1 DEF Outcome, Ended
<1>6. (Numbers /\ Workers /\ Data)'
  BY DEF Safe, Numbers, Workers, Data, workerVars, windowVars
<1>7. Menus'
  BY <1>1, <1>5 DEF Safe, Menus, Ended, workerVars, windowVars
<1> QED
  BY <1>4, <1>6, <1>7 DEF Safe

\* A thread that is not done, and has begun, is the last calibration's.
LEMMA LastIsActive ==
    ASSUME Safe, NEW k \in Calibrations, Active(k)
    PROVE  k = count /\ count > 0 /\ ~calibrate_enabled
<1>1. k = count /\ count > 0
  BY DEF Safe, Numbers, Workers, Calibrations, Active
<1>2. ASSUME calibrate_enabled PROVE FALSE
  BY <1>1, <1>2, Over1 DEF Safe, Numbers, Active
<1> QED
  BY <1>1, <1>2

LEMMA UseDestroyedStep == ASSUME Safe, NEW k \in Calibrations, UseDestroyed(k) PROVE Safe'
<1> USE DEF UseDestroyed
<1>1. (Numbers /\ Workers /\ Phase)'
  BY Frame DEF windowVars, workerVars
<1>2. (Menus /\ Data)'
  BY DEF Safe, Menus, Data, windowVars, workerVars, actionVars
<1> QED
  BY <1>1, <1>2 DEF Safe

LEMMA AddImageStep == ASSUME Safe, NEW k \in Calibrations, AddImage(k) PROVE Safe'
<1> USE DEF AddImage
<1>1. images' = images \/ images' = [images EXCEPT ![k] = @ + 1]
  OBVIOUS
<1>2. (Numbers /\ Workers /\ Phase)'
  BY <1>1, Frame DEF windowVars
<1>3. Menus'
  BY DEF Safe, Menus, windowVars, actionVars
<1>4. images' \in [Calibrations -> 0 .. MaxImages]
  <2>1. images[k] \in 0 .. MaxImages /\ images[k] < MaxImages
    BY DEF Safe, Data
  <2> HIDE DEF AddImage
  <2>2. images[k] + 1 \in 0 .. MaxImages
    BY <2>1, BoundsAssumption
  <2> QED
    BY <1>1, <2>2 DEF Safe, Data
<1>5. \A w \in written : pc'[w] = "done" /\ images'[w] > 0
  BY <1>1 DEF Safe, Data, windowVars
<1> QED
  BY <1>2, <1>3, <1>4, <1>5 DEF Safe, Data, windowVars

LEMMA ReturnStep == ASSUME Safe, NEW k \in Calibrations, ReturnFromRun(k) PROVE Safe'
<1> USE DEF ReturnFromRun
<1>1. k = count /\ count > 0 /\ ~calibrate_enabled
  BY LastIsActive DEF Active
<1>2. Running
  BY <1>1 DEF Safe, Phase, NotBegun, Returned, Ended, Shown
<1>3. PICK r \in Results :
         /\ r = "calibration" => images[k] > 0
         /\ events' = Append(events, Functor(k, r))
         /\ pc' = [pc EXCEPT ![k] = IF r = "calibration" THEN "succeeded" ELSE "failed"]
  <2>1. PICK success \in BOOLEAN :
           /\ success => images[k] > 0
           /\ events' = Append(events, Functor(k, IF success THEN "calibration" ELSE "message"))
           /\ pc' = [pc EXCEPT ![k] = IF success THEN "succeeded" ELSE "failed"]
    OBVIOUS
  <2>2. CASE success
    BY <2>1, <2>2 DEF Results
  <2>3. CASE ~success
    BY <2>1, <2>3 DEF Results
  <2> QED
    BY <2>2, <2>3
<1>4. pc'[count] = (IF r = "calibration" THEN "succeeded" ELSE "failed") /\ Workers'
  BY <1>1, <1>3 DEF Safe, Workers, WorkerPcs, windowVars
<1>5. Append(events, Functor(k, r)) = <<ResultEvent(r)>>
  BY <1>1, <1>2, Queues DEF Running, ResultEvent
<1>6. events' = <<ResultEvent(r)>>
  BY <1>3, <1>5
<1>7. Returned(r)'
  BY <1>1, <1>2, <1>4, <1>6 DEF Returned, Running, ResultEvent, windowVars, actionVars
<1>8. Outcome(r)'
  BY <1>1, <1>3, <1>4 DEF Outcome, Results, windowVars
<1>9. Phase'
  BY <1>1, <1>7, <1>8 DEF Phase, windowVars
<1>10. (Numbers /\ Menus)'
  BY DEF Safe, Numbers, Menus, windowVars, actionVars
<1>11. Data'
  <2>1. \A w \in written : pc'[w] = "done"
    BY <1>1, <1>2, <1>3 DEF Safe, Data, Workers, Running
  <2> QED
    BY <2>1 DEF Safe, Data, windowVars
<1> QED
  BY <1>4, <1>9, <1>10, <1>11 DEF Safe

LEMMA StoreStep == ASSUME Safe, NEW k \in Calibrations, StoreSuccess(k) PROVE Safe'
<1> USE DEF StoreSuccess
<1>1. k = count /\ count > 0 /\ ~calibrate_enabled
  BY LastIsActive DEF Active
<1>2. PICK r \in Results : Outcome(r) /\ Returned(r)
  BY <1>1 DEF Safe, Phase, NotBegun, Running, Ended, Shown
<1>3. pc'[count] = "end" /\ Workers'
  BY <1>1 DEF Safe, Workers, WorkerPcs, windowVars
<1>4. Outcome(r)' /\ Returned(r)'
  BY <1>1, <1>2, <1>3 DEF Outcome, Returned, Results, ResultEvent, windowVars, actionVars
<1>5. Phase'
  BY <1>1, <1>4 DEF Phase, windowVars
<1>6. (Numbers /\ Menus)'
  BY DEF Safe, Numbers, Menus, windowVars, actionVars
<1>7. Data'
  <2>1. \A w \in written : pc'[w] = "done"
    BY DEF Safe, Data, Workers
  <2> QED
    BY <2>1 DEF Safe, Data, windowVars
<1> QED
  BY <1>3, <1>5, <1>6, <1>7 DEF Safe

LEMMA PostEndStep == ASSUME Safe, NEW k \in Calibrations, PostEnd(k) PROVE Safe'
<1> USE DEF PostEnd
<1>1. k = count /\ count > 0 /\ ~calibrate_enabled
  BY LastIsActive DEF Active
<1>2. PICK r \in Results : Outcome(r) /\ Returned(r)
  BY <1>1 DEF Safe, Phase, NotBegun, Running, Ended, Shown
<1>3. pc'[count] = "done" /\ Workers'
  BY <1>1 DEF Safe, Workers, WorkerPcs, windowVars
<1>4. /\ Append(<<>>, EndEvent) = <<EndEvent>>
      /\ Append(<<ResultEvent(r)>>, EndEvent) = <<ResultEvent(r), EndEvent>>
  BY Queues
<1>5. Outcome(r)' /\ Ended(r)'
  BY <1>1, <1>2, <1>3, <1>4 DEF Outcome, Returned, Ended, EndEvent, ResultEvent, windowVars,
     actionVars
<1>6. Phase'
  BY <1>1, <1>5 DEF Phase, windowVars
<1>7. (Numbers /\ Menus)'
  BY DEF Safe, Numbers, Menus, windowVars, actionVars
<1>8. Data'
  <2>1. \A w \in written : pc'[w] = "done"
    BY DEF Safe, Data, Workers
  <2> QED
    BY <2>1 DEF Safe, Data, windowVars
<1> QED
  BY <1>3, <1>6, <1>7, <1>8 DEF Safe

LEMMA SafeStep == Safe /\ [Next]_vars => Safe'
<1> SUFFICES ASSUME Safe, [Next]_vars PROVE Safe'
  OBVIOUS
<1>1. CASE User
  BY <1>1, DialogStep, BeginStep, SaveStep DEF User
<1>2. CASE RunFunctor
  BY <1>2, ShowStep, EndStep DEF RunFunctor
<1>3. CASE FinishSearch
  BY <1>3, DialogStep DEF FinishSearch
<1>4. ASSUME NEW k \in Calibrations, Worker(k) PROVE Safe'
  BY <1>4, UseDestroyedStep, AddImageStep, ReturnStep, StoreStep, PostEndStep DEF Worker
<1>5. CASE UNCHANGED vars
  <2>1. (Numbers /\ Workers /\ Phase)'
    BY <1>5, Frame DEF vars, windowVars, workerVars
  <2>2. (Menus /\ Data)'
    BY <1>5 DEF Safe, Menus, Data, vars, windowVars, workerVars, actionVars
  <2> QED
    BY <2>1, <2>2 DEF Safe
<1> QED
  BY <1>1, <1>2, <1>3, <1>4, <1>5 DEF Next

LEMMA Invariance == Spec => []Safe
  BY SafeInit, SafeStep, PTL DEF Spec

-----------------------------------------------------------------------------
\* Every variable keeps its type.
THEOREM TypeCorrect == Spec => []TypeOK
  BY Invariance, Types, PTL

\* A calibration's worker, while it runs, works on the objects the window
\* holds; no two workers ever run.
THEOREM OneWorker == Spec => []WorkerOwnsCalibration
<1>1. Safe => WorkerOwnsCalibration
  BY LastIsActive DEF Safe, Numbers, WorkerOwnsCalibration
<1> QED
  BY Invariance, <1>1, PTL

\* The actions are enabled only when the last calibration's result is shown and
\* nothing of it is pending.
THEOREM Idle == Spec => []IdleShowsResult
<1>1. Safe => IdleShowsResult
  <2> SUFFICES ASSUME Safe, calibrate_enabled
               PROVE  /\ events = <<>> /\ \A k \in Calibrations : ~Active(k)
                      /\ count > 0 => widget = count /\ result # "none"
    BY DEF IdleShowsResult
  <2>1. \A k \in Calibrations : ~Active(k)
    BY LastIsActive
  <2> QED
    BY <2>1, Over1 DEF Safe, Numbers, Shown, Results
<1> QED
  BY Invariance, <1>1, PTL

\* What can be saved is the successful calibration that is shown, and nothing
\* else is ever written.
THEOREM Saves == Spec => []SavesWhatIsShown /\ []WritesSuccesses
<1>1. Safe => SavesWhatIsShown
  BY Over1 DEF Safe, Menus, Phase, NotBegun, Numbers, SavesWhatIsShown
<1>2. Safe => WritesSuccesses
  BY DEF Safe, Data, WritesSuccesses
<1> QED
  BY Invariance, <1>1, <1>2, PTL

\* No result is ever sent to a widget that is gone.
THEOREM Reach == Spec => []ResultsReachTheirWidget
<1>1. ASSUME Safe PROVE ResultsReachTheirWidget
  <2>1. \/ events = <<>> \/ events = <<EndEvent>>
        \/ \E r : events = <<ResultEvent(r)>> \/ events = <<ResultEvent(r), EndEvent>>
    BY <1>1 DEF Safe, Phase, NotBegun, Running, Returned, Ended, Shown
  <2>2. EndEvent.target = 0 /\ \A r : ResultEvent(r).target = widget
    BY <1>1 DEF Safe, Numbers, EndEvent, ResultEvent, Functor
  <2> QED
    BY <2>1, <2>2 DEF ResultsReachTheirWidget
<1> QED
  BY Invariance, <1>1, PTL
=============================================================================
