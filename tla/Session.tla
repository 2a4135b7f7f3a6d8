------------------------------- MODULE Session -------------------------------
(***************************************************************************)
(* MainWindow: one calibration after the other, each run by a detached     *)
(* worker thread on a Calibration object that the window owns.             *)
(*                                                                         *)
(* Nothing but the enabled menu actions keeps a second calibration from    *)
(* starting, and the order of the event queue keeps them disabled until    *)
(* the result is shown.  Calibrations are numbered from 1 in the order     *)
(* they are begun; the number stands for the Calibration object, its       *)
(* worker thread and its CalibrationWidget.  The runners' own steps are    *)
(* in LivestreamRunner, FilesRunner and StereoRunner; here a runner adds   *)
(* images, posts a result and returns.                                     *)
(***************************************************************************)
EXTENDS Integers, Sequences, FiniteSets

CONSTANTS
    MaxCalibrations,   \* bound: calibrations begun in a session
    MaxImages          \* bound: images a runner adds

ASSUME BoundsAssumption == MaxCalibrations \in Nat /\ MaxImages \in Nat

VARIABLES
    count,               \* calibrations begun
    calibration_,        \* the number of the object held, 0 for nullptr
    calibration_stereo_,
    calibration_success_,
    pc,                  \* every worker thread's control point
    images,              \* how many images each calibration holds
    events,              \* posted functors, oldest first
    calibrate_enabled,   \* the three calibration actions
    save_enabled,        \* the save action
    widget, result,      \* the CalibrationWidget in the window and what it shows
    gui,                 \* what the GUI thread is in the middle of
    written,             \* the calibrations saved to disk
    fault

windowVars == <<count, calibration_, calibration_stereo_, widget, written>>
actionVars == <<calibrate_enabled, save_enabled>>
workerVars == <<pc, images, calibration_success_>>
vars == <<windowVars, actionVars, workerVars, events, result, gui, fault>>

Calibrations == 1 .. MaxCalibrations
Kinds == {"stream", "files", "stereo"}
Dialogs == Kinds \cup {"save", "image"}    \* all modal: the menus are blocked

\* The runner's last functors are sent to its widget, the session's own to
\* the window (0).
Functor(target, call) == [target |-> target, call |-> call]

Init ==
    /\ count = 0 /\ calibration_ = 0 /\ calibration_stereo_ = 0
    /\ calibration_success_ = FALSE
    /\ pc = [k \in Calibrations |-> "unborn"] /\ images = [k \in Calibrations |-> 0]
    /\ events = <<>>
    /\ calibrate_enabled = TRUE /\ save_enabled = FALSE
    /\ widget = 0 /\ result = "none"
    /\ gui = "idle" /\ written = {}
    /\ fault = "none"

-----------------------------------------------------------------------------
(* The GUI thread *)

OpenOptions(kind) ==
    /\ gui = "idle" /\ calibrate_enabled
    /\ gui' = kind
    /\ UNCHANGED <<windowVars, actionVars, workerVars, events, result, fault>>

Reject ==
    /\ gui \in Dialogs
    /\ gui' = "idle"
    /\ UNCHANGED <<windowVars, actionVars, workerVars, events, result, fault>>

\* Mutant: the actions stay enabled.
DisableNothing == UNCHANGED actionVars

DisableActions == calibrate_enabled' = FALSE /\ save_enabled' = FALSE

\* Deletes every widget of the window and both Calibration objects, and
\* disables the actions.
BeginNewCalibration ==
    /\ DisableActions
    /\ calibration_' = count'
    /\ result' = "none"

NewCalibration ==
    /\ gui \in Kinds /\ count < MaxCalibrations
    /\ count' = count + 1
    /\ BeginNewCalibration
    /\ calibration_stereo_' = IF gui = "stereo" THEN count' ELSE 0
    /\ widget' = count'
    /\ pc' = [pc EXCEPT ![count'] = "run"]
    /\ gui' = "idle"
    /\ UNCHANGED <<events, images, calibration_success_, written, fault>>

\* The save action was chosen, and a file name after it.
OpenSave ==
    /\ gui = "idle" /\ save_enabled
    /\ gui' = "save"
    /\ UNCHANGED <<windowVars, actionVars, workerVars, events, result, fault>>

SaveCalibration ==
    /\ gui = "save" /\ calibration_ # 0
    /\ written' = written \cup {calibration_}
    /\ gui' = "idle"
    /\ UNCHANGED <<count, calibration_, calibration_stereo_, widget, actionVars, workerVars,
                   events, result, fault>>

\* A double click on an item: DisplayExtractionImage looks for the image in
\* both calibrations' Images() and then shows it in a modal dialog.
DisplayExtractionImage ==
    /\ gui = "idle" /\ widget # 0 /\ images[widget] > 0
    /\ gui' = "searching"
    /\ UNCHANGED <<windowVars, actionVars, workerVars, events, result, fault>>

ShowExtractionImage ==
    /\ gui = "searching"
    /\ gui' = "image"
    /\ UNCHANGED <<windowVars, actionVars, workerVars, events, result, fault>>

\* A modal dialog runs the event loop itself.
InEventLoop == gui \in {"idle"} \cup Dialogs /\ events # <<>>

\* A functor whose receiver was deleted is dropped.
ShowResult ==
    /\ InEventLoop /\ Head(events).target # 0
    /\ events' = Tail(events)
    /\ result' = IF Head(events).target = widget THEN Head(events).call ELSE result
    /\ UNCHANGED <<windowVars, actionVars, workerVars, gui, fault>>

\* Mutant: a failed calibration can be saved.
EndEnablingSave ==
    /\ InEventLoop /\ Head(events).target = 0
    /\ events' = Tail(events)
    /\ calibrate_enabled' = TRUE /\ save_enabled' = TRUE
    /\ UNCHANGED <<windowVars, workerVars, result, gui, fault>>

EndNewCalibration ==
    /\ InEventLoop /\ Head(events).target = 0
    /\ events' = Tail(events)
    /\ calibrate_enabled' = TRUE /\ save_enabled' = calibration_success_
    /\ UNCHANGED <<windowVars, workerVars, result, gui, fault>>

\* The last window is closed: exec returns and main destroys the window.
Close ==
    /\ gui = "idle"
    /\ gui' = "destroyed"
    /\ UNCHANGED <<windowVars, actionVars, workerVars, events, result, fault>>

\* main returns: detached threads end with the process.
Exit ==
    /\ gui = "destroyed"
    /\ gui' = "exited"
    /\ UNCHANGED <<windowVars, actionVars, workerVars, events, result, fault>>

-----------------------------------------------------------------------------
(* A worker thread *)

Destroyed == gui = "destroyed"

\* The window, its Calibration objects and its widgets are gone: whatever the
\* thread does next is undefined.
UseDestroyed(k) ==
    /\ pc[k] \notin {"unborn", "done"} /\ Destroyed
    /\ fault' = "use of the destroyed window"
    /\ UNCHANGED <<windowVars, actionVars, workerVars, events, result, gui>>

\* Calibration::AddImage, which may reallocate Images(); nothing orders it
\* before or after a search of the GUI thread.
AddImage(k) ==
    /\ pc[k] = "run" /\ ~Destroyed /\ images[k] < MaxImages
    /\ IF gui = "searching" /\ calibration_ = k
       THEN fault' = "data race on Images()" /\ UNCHANGED images
       ELSE images' = [images EXCEPT ![k] = @ + 1] /\ UNCHANGED fault
    /\ UNCHANGED <<windowVars, actionVars, pc, calibration_success_, events, result, gui>>

\* The last functor of Run, and its return value.
ReturnFromRun(k) ==
    /\ pc[k] = "run" /\ ~Destroyed
    /\ \E success \in BOOLEAN :
          /\ success => images[k] > 0
          /\ events' = Append(events, Functor(k, IF success THEN "calibration" ELSE "message"))
          /\ pc' = [pc EXCEPT ![k] = IF success THEN "succeeded" ELSE "failed"]
    /\ UNCHANGED <<windowVars, actionVars, images, calibration_success_, result, gui, fault>>

StoreSuccess(k) ==
    /\ pc[k] \in {"succeeded", "failed"} /\ ~Destroyed
    /\ calibration_success_' = (pc[k] = "succeeded")
    /\ pc' = [pc EXCEPT ![k] = "end"]
    /\ UNCHANGED <<windowVars, actionVars, images, events, result, gui, fault>>

\* Mutants: the worker calls EndNewCalibration itself; it forgets it.
CallEnd(k) ==
    /\ pc[k] = "end" /\ ~Destroyed
    /\ calibrate_enabled' = TRUE /\ save_enabled' = calibration_success_
    /\ pc' = [pc EXCEPT ![k] = "done"]
    /\ UNCHANGED <<windowVars, images, calibration_success_, events, result, gui, fault>>

ForgetEnd(k) ==
    /\ pc[k] = "end" /\ ~Destroyed
    /\ pc' = [pc EXCEPT ![k] = "done"]
    /\ UNCHANGED <<windowVars, actionVars, images, calibration_success_, events, result, gui, fault>>

PostEnd(k) ==
    /\ pc[k] = "end" /\ ~Destroyed
    /\ events' = Append(events, Functor(0, "EndNewCalibration"))
    /\ pc' = [pc EXCEPT ![k] = "done"]
    /\ UNCHANGED <<windowVars, actionVars, images, calibration_success_, result, gui, fault>>

Alive == fault = "none" /\ gui # "exited"

Worker(k) ==
    /\ Alive
    /\ UseDestroyed(k) \/ AddImage(k) \/ ReturnFromRun(k) \/ StoreSuccess(k) \/ PostEnd(k)

RunFunctor == Alive /\ (ShowResult \/ EndNewCalibration)
FinishSearch == Alive /\ ShowExtractionImage
User ==
    /\ Alive
    /\ \/ \E kind \in Kinds : OpenOptions(kind)
       \/ Reject \/ NewCalibration \/ OpenSave \/ SaveCalibration
       \/ DisplayExtractionImage \/ Close \/ Exit

Next == User \/ RunFunctor \/ FinishSearch \/ \E k \in Calibrations : Worker(k)

\* The threads are scheduled fairly; the user owes nothing.  That every runner
\* returns is shown where the runners are modelled.  A user who opens one image
\* after the other leaves the event loop again and again, and each time it comes
\* back it sends the posted functors before it reads input: strong fairness.
Spec == /\ Init /\ [][Next]_vars
        /\ SF_vars(RunFunctor) /\ WF_vars(FinishSearch)
        /\ \A k \in Calibrations : WF_vars(Worker(k))

-----------------------------------------------------------------------------
WorkerPcs == {"unborn", "run", "succeeded", "failed", "end", "done"}
Results == {"calibration", "message"}
Functors == [target : Calibrations, call : Results]
            \cup {Functor(0, "EndNewCalibration")}

TypeOK ==
    /\ count \in 0 .. MaxCalibrations
    /\ calibration_ \in 0 .. MaxCalibrations /\ calibration_stereo_ \in 0 .. MaxCalibrations
    /\ calibration_success_ \in BOOLEAN
    /\ pc \in [Calibrations -> WorkerPcs] /\ images \in [Calibrations -> 0 .. MaxImages]
    /\ events \in Seq(Functors)
    /\ calibrate_enabled \in BOOLEAN /\ save_enabled \in BOOLEAN
    /\ widget \in 0 .. MaxCalibrations /\ result \in {"none"} \cup Results
    /\ gui \in {"idle", "searching", "destroyed", "exited"} \cup Dialogs
    /\ written \subseteq Calibrations
    /\ fault \in {"none", "use of the destroyed window", "data race on Images()"}

Active(k) == pc[k] \notin {"unborn", "done"}

\* A worker's Calibration object, and its second one, are the ones the window
\* holds: no menu action, dialog or functor resets them while Run uses them,
\* and so no two workers ever run.
WorkerOwnsCalibration ==
    \A k \in Calibrations : Active(k) =>
        /\ calibration_ = k /\ widget = k
        /\ calibration_stereo_ \in {0, k}

\* The calibration actions are enabled only when the last calibration's result
\* is shown and nothing of it is pending.
IdleShowsResult ==
    calibrate_enabled =>
        /\ events = <<>> /\ \A k \in Calibrations : ~Active(k)
        /\ count > 0 => widget = count /\ result # "none"

\* What can be saved is the calibration that is shown; a failed or unfinished
\* one never is.
SavesWhatIsShown ==
    save_enabled \/ gui = "save" => calibration_ # 0 /\ widget = calibration_ /\ result = "calibration"

\* No result is ever sent to a widget that is gone, or to that of another
\* calibration.
ResultsReachTheirWidget == \A i \in DOMAIN events : events[i].target \in {0, widget}

\* Only calibrations whose Run returned true are ever written.
WritesSuccesses == \A k \in written : pc[k] = "done" /\ images[k] > 0

\* The actions come back after every calibration, if no image is added for
\* ever and nothing ends the session first.
Over == fault # "none" \/ gui \in {"destroyed", "exited"}
CalibrationEnds == ~calibrate_enabled ~> (calibrate_enabled \/ Over)
=============================================================================
