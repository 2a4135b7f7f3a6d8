--------------------------- MODULE StreamPreview ---------------------------
(***************************************************************************)
(* The camera preview of the stream calibration dialog.  Every choice of a *)
(* device joins the thread that read the last one and starts another; the  *)
(* threads post pictures to the dialog; "Run" needs a device that works    *)
(* and hands it to the calibration, which opens it for itself.  Devices    *)
(* come and go.                                                            *)
(*                                                                         *)
(* Frames of one device are the same picture.  `events' therefore keeps a  *)
(* run of equal pictures as one.                                           *)
(***************************************************************************)
EXTENDS Naturals, Sequences, FiniteSets

CONSTANTS
    Devices,       \* indices of the spin box; 0 is where it starts
    MaxStarts      \* bound: preview threads over all dialogs

ASSUME DevicesAssumption == Devices \subseteq Nat /\ 0 \in Devices
ASSUME MaxStartsAssumption == MaxStarts \in Nat

VARIABLES
    attached,      \* the devices that can be opened and read
    gui, accepted, \* where the GUI thread is; the dialog's result
    device_index_, cancel_, valid_device_,
    worker_thread_,               \* the last thread started, 0 before the first
    pc, device, opened, has_next, \* every thread: control, and its reader
    status,        \* what its reader returned last
    gave,          \* history: the threads whose reader has returned a frame
    events, shown, \* posted pictures, and the one in the widget if any
    camera         \* the devices held by the calibration: at most one

dialogVars == <<gui, accepted, device_index_, worker_thread_, shown>>
readerVars == <<device, opened, has_next, gave>>
vars == <<attached, dialogVars, cancel_, valid_device_, pc, readerVars, status, events, camera>>

Threads == 1 .. MaxStarts
\* Of a frame, or of the words "No device at" and the index.
Picture(t) == [device |-> device[t], frame |-> status[t] = "SUCCESS"]
Started == {t \in Threads : pc[t] # "unborn"}

Init ==
    /\ attached \in SUBSET Devices
    /\ gui = "menu" /\ accepted = FALSE
    /\ device_index_ = 0 /\ cancel_ = FALSE /\ valid_device_ = FALSE
    /\ worker_thread_ = 0
    /\ pc = [t \in Threads |-> "unborn"]
    /\ device = [t \in Threads |-> 0]
    /\ opened = [t \in Threads |-> FALSE] /\ has_next = [t \in Threads |-> TRUE]
    /\ status = [t \in Threads |-> "none"] /\ gave = {}
    /\ events = <<>> /\ shown = {}
    /\ camera = {}

\* A device is plugged in or out.
Plug(d) ==
    /\ attached' = IF d \in attached THEN attached \ {d} ELSE attached \cup {d}
    /\ UNCHANGED <<dialogVars, cancel_, valid_device_, pc, readerVars, status, events, camera>>

-----------------------------------------------------------------------------
(* A preview thread *)

GoTo(t, label) == pc' = [pc EXCEPT ![t] = label]

\* while (!cancel_ && reader.HasNext()); the reader ends with its thread.
Test(t) ==
    /\ pc[t] = "test"
    /\ IF ~cancel_ /\ has_next[t]
       THEN GoTo(t, "open") /\ UNCHANGED opened
       ELSE GoTo(t, "ended") /\ opened' = [opened EXCEPT ![t] = FALSE]
    /\ UNCHANGED <<device, has_next, gave, status, cancel_, valid_device_, events>>

GiveUp(t) == has_next' = [has_next EXCEPT ![t] = FALSE]
Return(t, s) == status' = [status EXCEPT ![t] = s] /\ GoTo(t, "report")

\* Next opens the device the first time it is called ...
Open(t) ==
    /\ pc[t] = "open"
    /\ IF opened[t] \/ device[t] \in attached
       THEN opened' = [opened EXCEPT ![t] = TRUE] /\ GoTo(t, "read") /\ UNCHANGED <<has_next, status>>
       ELSE GiveUp(t) /\ Return(t, "NO_MORE_IMAGES") /\ UNCHANGED opened
    /\ UNCHANGED <<device, gave, cancel_, valid_device_, events>>

\* ... and reads a frame, which may not have the size the device announced.
Read(t) ==
    /\ pc[t] = "read"
    /\ IF device[t] \in attached
       THEN /\ \/ Return(t, "SUCCESS") /\ gave' = gave \cup {t}
               \/ Return(t, "IMAGE_DIMENSION_MISSMATCH") /\ UNCHANGED gave
            /\ UNCHANGED has_next
       ELSE GiveUp(t) /\ Return(t, "NO_MORE_IMAGES") /\ UNCHANGED gave
    /\ UNCHANGED <<device, opened, cancel_, valid_device_, events>>

Report(t) ==
    /\ pc[t] = "report"
    /\ IF status[t] = "SUCCESS"
       THEN valid_device_' = TRUE /\ UNCHANGED cancel_
       ELSE cancel_' = TRUE /\ UNCHANGED valid_device_
    /\ GoTo(t, "post")
    /\ UNCHANGED <<readerVars, status, events>>

Post(t) ==
    /\ pc[t] = "post"
    /\ events' = IF events # <<>> /\ events[Len(events)] = Picture(t)
                 THEN events ELSE Append(events, Picture(t))
    /\ GoTo(t, "test")
    /\ UNCHANGED <<readerVars, status, cancel_, valid_device_>>

Worker(t) ==
    /\ Test(t) \/ Open(t) \/ Read(t) \/ Report(t) \/ Post(t)
    /\ UNCHANGED <<attached, dialogVars, camera>>

-----------------------------------------------------------------------------
(* The GUI thread *)

NothingRead == UNCHANGED <<attached, pc, readerVars, status, camera>>

\* A new dialog, which starts with device 0.
NewStreamCalibration ==
    /\ gui = "menu" /\ Cardinality(Started) < MaxStarts
    /\ gui' = "starting" /\ device_index_' = 0 /\ cancel_' = TRUE
    /\ UNCHANGED <<accepted, worker_thread_, valid_device_, events, shown>> /\ NothingRead

\* Mutant: the thread is not told.
SelectUntold(d) ==
    /\ gui = "dialog" /\ d # device_index_ /\ Cardinality(Started) < MaxStarts
    /\ gui' = "starting" /\ device_index_' = d
    /\ UNCHANGED <<accepted, worker_thread_, cancel_, valid_device_, events, shown>> /\ NothingRead

\* The spin box changes.
Select(d) ==
    /\ gui = "dialog" /\ d # device_index_ /\ Cardinality(Started) < MaxStarts
    /\ gui' = "starting" /\ device_index_' = d /\ cancel_' = TRUE
    /\ UNCHANGED <<accepted, worker_thread_, valid_device_, events, shown>> /\ NothingRead

Joined == worker_thread_ # 0 => pc[worker_thread_] = "ended"

Launch ==
    \E t \in Threads :
        /\ t = Cardinality(Started) + 1
        /\ worker_thread_' = t /\ cancel_' = FALSE
        /\ GoTo(t, "test") /\ device' = [device EXCEPT ![t] = device_index_]
        /\ gui' = "dialog"
        /\ UNCHANGED <<attached, accepted, device_index_, opened, has_next, gave, status, events, shown, camera>>

\* Mutants: the last thread is not joined; the last device's verdict is kept.
StartUnjoined == gui = "starting" /\ valid_device_' = FALSE /\ Launch
StartKeepingValid == gui = "starting" /\ Joined /\ UNCHANGED valid_device_ /\ Launch

\* StartLiveStream, once the last thread has ended.
StartLiveStream == gui = "starting" /\ Joined /\ valid_device_' = FALSE /\ Launch

ShowPicture ==
    /\ gui = "dialog" /\ events # <<>>
    /\ shown' = {Head(events)} /\ events' = Tail(events)
    /\ UNCHANGED <<gui, accepted, device_index_, worker_thread_, cancel_, valid_device_>> /\ NothingRead

\* "Run", with other options that are valid, or the dialog is closed: done().
\* A device that was lost since it gave a frame still passes.
Done(r) ==
    /\ gui = "dialog" /\ (r => valid_device_)
    /\ accepted' = r /\ cancel_' = TRUE /\ gui' = "closing"
    /\ UNCHANGED <<device_index_, worker_thread_, valid_device_, events, shown>> /\ NothingRead

\* The dialog goes, and what was posted to it.
CloseLiveStream ==
    /\ gui = "closing" /\ Joined
    /\ gui' = IF accepted THEN "calibrating" ELSE "menu"
    /\ worker_thread_' = 0 /\ events' = <<>> /\ shown' = {}
    /\ UNCHANGED <<accepted, device_index_, cancel_, valid_device_>> /\ NothingRead

-----------------------------------------------------------------------------
(* The calibration *)

OpenCamera ==
    /\ gui = "calibrating" /\ camera = {}
    /\ camera' = attached \cap {device_index_}
    /\ UNCHANGED <<attached, dialogVars, cancel_, valid_device_, pc, readerVars, status, events>>

EndCalibration ==
    /\ gui = "calibrating"
    /\ camera' = {} /\ gui' = "menu"
    /\ UNCHANGED <<attached, accepted, device_index_, worker_thread_, shown>>
    /\ UNCHANGED <<cancel_, valid_device_, pc, readerVars, status, events>>

-----------------------------------------------------------------------------
Next ==
    \/ \E d \in Devices : Plug(d) \/ Select(d)
    \/ \E t \in Threads : Worker(t)
    \/ NewStreamCalibration \/ StartLiveStream \/ ShowPicture
    \/ (\E r \in BOOLEAN : Done(r)) \/ CloseLiveStream
    \/ OpenCamera \/ EndCalibration

\* The threads run, and the GUI thread comes back from a join that is over.
\* Opening and reading a device always return.
Spec == /\ Init /\ [][Next]_vars
        /\ \A t \in Threads : WF_vars(Worker(t))
        /\ WF_vars(StartLiveStream) /\ WF_vars(CloseLiveStream) /\ WF_vars(ShowPicture)

-----------------------------------------------------------------------------
\* "Device not found." is answered unless the device that is selected now gave
\* this dialog's last thread a frame: a verdict about another device is never
\* used.  And once the posted pictures are shown, the widget shows what that
\* thread read last: the selected device, or that there is none.
SpeaksOfSelected ==
    gui = "dialog" =>
        LET t == worker_thread_ IN
        /\ valid_device_ => t \in gave /\ device[t] = device_index_
        /\ events = <<>> /\ status[t] # "none" /\ pc[t] \notin {"report", "post"} =>
              shown = {[device |-> device_index_, frame |-> status[t] = "SUCCESS"]}

\* No device is opened while another reader, a preview's or the calibration's,
\* has one open.
OneReader == Cardinality({t \in Threads : opened[t]}) + Cardinality(camera) =< 1

\* Selecting a device or closing the dialog blocks the GUI thread for a while,
\* never for good.
GuiReturns == gui \in {"starting", "closing"} ~> gui \notin {"starting", "closing"}
=============================================================================
