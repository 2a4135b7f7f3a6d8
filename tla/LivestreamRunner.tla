-------------------------- MODULE LivestreamRunner --------------------------
(***************************************************************************)
(* The livestream calibration (LivestreamCalibrationRunner): three threads *)
(* of one session, from the start of Run to its return.                    *)
(*                                                                         *)
(*   worker      Run: reads camera frames, shows every one of them, hands  *)
(*               one over to the extraction thread whenever that thread    *)
(*               has published its last result, and calibrates at the end. *)
(*   extraction  RunBasicExtraction, RunTimedExtraction or                 *)
(*               RunPoseSuggestionExtraction, by Mode: detects the target  *)
(*               in the frame it was handed and decides what to save.      *)
(*   GUI         Qt's event loop: runs the posted functors in FIFO order   *)
(*               and the two buttons' callbacks at any moment.             *)
(*                                                                         *)
(* A set of image points is abstracted to the pose of the target they show:*)
(* {} is the empty vector (nothing detected), {p} the points of pose p.    *)
(* A frame is the points a detection finds in it, so the empty frame of a  *)
(* failed read is {}.  A unique_ptr is a set of at most one element: {} is *)
(* nullptr.  `fault' records the first null or dangling pointer used, or   *)
(* the exception that left a thread: the process is gone from then on.     *)
(***************************************************************************)
EXTENDS Integers, Sequences, FiniteSets

CONSTANTS
    Mode,              \* AcquisitionMode chosen in the dialog
    Poses,             \* target poses the camera can see (integers)
    Tolerance,         \* limits_xy_ of the tracker, on that scale
    CameraMayFail,     \* may the device be lost while streaming?
    HasInitialParams,  \* initial_camera_parameters.has_value()
    MaxImages,         \* bound: images the user brings about in a session
    MaxEvents          \* bound: no frame is queued behind this many functors

Modes == {"OnButton", "OnTimedDetection", "OnSuggestedPose"}

ASSUME ModeAssumption == Mode \in Modes
ASSUME PosesAssumption == Poses \subseteq Int
ASSUME ToleranceAssumption == Tolerance \in Nat
ASSUME FlagsAssumption == CameraMayFail \in BOOLEAN /\ HasInitialParams \in BOOLEAN
ASSUME BoundsAssumption == MaxImages \in Nat /\ MaxEvents \in Nat \ {0}

VARIABLES
    \* the worker's control point, local pixmap, reader.has_next_, drawn copies
    wpc, pixmap, has_next_, current_draw_image_, current_draw_target_points_,
    \* the extraction thread's control point and locals
    epc, tracker, timer_running, in_init_phase,
    \* the four signals the threads share
    run_extraction_, new_extraction_, acquire_, extract_,
    \* the data the two threads hand to each other
    current_pixmap_, currently_extracted_image_, current_target_points_,
    \* the Calibration object
    images, camera,
    \* the GUI thread
    events, image_widget_, items, extraction_widget, calibration_widget,
    timer_widget,
    fault

drawVars == <<current_draw_image_, current_draw_target_points_>>
frameVars == <<pixmap, has_next_, drawVars>>
extractionVars == <<epc, tracker, timer_running, in_init_phase>>
signalVars == <<run_extraction_, new_extraction_, acquire_, extract_>>
handoffVars == <<current_pixmap_, currently_extracted_image_, current_target_points_>>
calibrationVars == <<images, camera>>
guiVars == <<image_widget_, items, extraction_widget, calibration_widget, timer_widget>>
dataVars == <<handoffVars, calibrationVars, guiVars, fault>>
vars == <<wpc, frameVars, extractionVars, signalVars, dataVars, events>>

-----------------------------------------------------------------------------
(* Values *)

NoPoints == {}
Points == {NoPoints} \cup {{p} : p \in Poses}      \* std::vector<Eigen::Vector2d>
Pixmaps == {{}} \cup {{f} : f \in Points}          \* std::unique_ptr<Pixmap>
Cameras == {"invalid", "given", "pinhole", "model"}

WorkerPcs == {"start", "loop", "check", "copy", "clear", "set", "draw", "wake",
              "join", "calibrate", "returned"}
ExtractionPcs == {"unborn", "begin", "estimate", "head", "wait", "recheck", "extract",
                  "decide", "save", "suggest", "reset", "publish", "exited"}

\* From its wake-up to its publication the extraction thread works on the
\* frame, the points and the target points it shares with the worker.
PassPcs == {"recheck", "extract", "decide", "save", "suggest", "reset", "publish"}

Event(kind, arg) == [kind |-> kind, arg |-> arg]
ItemEvents == {Event("AddExtractionItem", p) : p \in Points}
PlainEvents == {Event(k, NoPoints) : k \in {"SetLiveStreamImage", "AddTimerWidget",
                                           "Transition", "Result", "Error"}}
Events == ItemEvents \cup PlainEvents


(* TargetTracker: tolerance on the points, and the points it remembers *)

Match(a, b) == \E p \in a, q \in b : p - q \in -Tolerance .. Tolerance

Updated(t, points) ==
    [t EXCEPT !.stable = Match(points, t.last), !.last = points]

Targeting(t, points) == [t EXCEPT !.target = points]

TargetPointsReached(t) == t.stable /\ Match(t.last, t.target)

-----------------------------------------------------------------------------
Init ==
    /\ wpc = "start" /\ pixmap = {} /\ has_next_ = TRUE
    /\ current_draw_image_ = NoPoints /\ current_draw_target_points_ = NoPoints
    /\ epc = "unborn"
    /\ tracker = [last |-> NoPoints, target |-> NoPoints, stable |-> FALSE]
    /\ timer_running = FALSE /\ in_init_phase = TRUE
    /\ run_extraction_ = TRUE /\ new_extraction_ = TRUE
    /\ acquire_ = FALSE /\ extract_ = FALSE
    /\ current_pixmap_ = {} /\ currently_extracted_image_ = NoPoints
    /\ current_target_points_ = NoPoints
    /\ images = <<>> /\ camera = "invalid"
    /\ events = <<>> /\ image_widget_ = FALSE /\ items = <<>>
    /\ extraction_widget = "shown" /\ calibration_widget = "hidden"
    /\ timer_widget = "uninitialised"
    /\ fault = "none"

\* QMetaObject::invokeMethod from another thread: queue the functor.
Post(event) == events' = Append(events, event)

-----------------------------------------------------------------------------
(* The worker: Run *)

\* Set up the target, the tracker and the camera, start the extraction thread.
Start ==
    /\ wpc = "start"
    /\ camera' = IF HasInitialParams THEN "given" ELSE "invalid"
    /\ epc' = "begin"
    /\ wpc' = "loop"
    /\ UNCHANGED <<frameVars, tracker, timer_running, in_init_phase,
                   signalVars, handoffVars, images, events, guiVars, fault>>

\* while (run_extraction_ && reader.HasNext()): read a frame, or, from a device
\* that is gone, an empty one, whose status is ignored.  After MaxImages saves
\* the user keeps the target out of sight.
ReadFrame ==
    /\ wpc = "loop"
    /\ run_extraction_ /\ has_next_
    /\ \/ /\ \E f \in Points : /\ Len(images) >= MaxImages => f = NoPoints
                               /\ pixmap' = {f}
          /\ UNCHANGED has_next_
       \/ /\ CameraMayFail
          /\ pixmap' = {NoPoints}
          /\ has_next_' = FALSE
    /\ wpc' = "check"
    /\ UNCHANGED <<drawVars, extractionVars, signalVars, dataVars, events>>

\* The loop is over: reader.Close()
LeaveLoop ==
    /\ wpc = "loop"
    /\ ~(run_extraction_ /\ has_next_)
    /\ has_next_' = FALSE
    /\ wpc' = "wake"
    /\ UNCHANGED <<pixmap, drawVars, extractionVars, signalVars, dataVars, events>>

\* Mutant of CheckExtraction: every frame is handed over.
CheckNothing ==
    /\ wpc = "check" /\ wpc' = "copy"
    /\ UNCHANGED <<frameVars, extractionVars, signalVars, dataVars, events>>

CheckExtraction ==
    /\ wpc = "check"
    /\ wpc' = IF new_extraction_ THEN "copy" ELSE "draw"
    /\ UNCHANGED <<frameVars, extractionVars, signalVars, dataVars, events>>

CopyHandoff ==
    /\ wpc = "copy"
    /\ current_pixmap_' = pixmap
    /\ current_draw_image_' = currently_extracted_image_
    /\ current_draw_target_points_' = current_target_points_
    /\ wpc' = "clear"
    /\ UNCHANGED <<pixmap, has_next_, extractionVars, signalVars,
                   currently_extracted_image_, current_target_points_,
                   calibrationVars, events, guiVars, fault>>

ClearNewExtraction ==
    /\ wpc = "clear"
    /\ new_extraction_' = FALSE
    /\ wpc' = "set"
    /\ UNCHANGED <<frameVars, extractionVars, run_extraction_, acquire_,
                   extract_, dataVars, events>>

SetExtract ==
    /\ wpc = "set"
    /\ extract_' = TRUE
    /\ wpc' = "draw"
    /\ UNCHANGED <<frameVars, extractionVars, run_extraction_, new_extraction_,
                   acquire_, dataVars, events>>

\* Draw the worker's copies on the frame and queue it for display.
Draw ==
    /\ wpc = "draw"
    /\ Len(events) < MaxEvents
    /\ Post(Event("SetLiveStreamImage", NoPoints))
    /\ pixmap' = {}
    /\ wpc' = "loop"
    /\ UNCHANGED <<has_next_, drawVars, extractionVars, signalVars, dataVars>>

\* Mutant of WakeExtraction: the last Set is forgotten.
WakeNobody ==
    /\ wpc = "wake" /\ wpc' = "join"
    /\ UNCHANGED <<frameVars, extractionVars, signalVars, dataVars, events>>

\* "To allow the extraction thread to close"
WakeExtraction ==
    /\ wpc = "wake"
    /\ extract_' = TRUE
    /\ wpc' = "join"
    /\ UNCHANGED <<frameVars, extractionVars, run_extraction_, new_extraction_,
                   acquire_, dataVars, events>>

\* Mutant of Join: the thread is not joined.
JoinNobody ==
    /\ wpc = "join" /\ wpc' = "calibrate"
    /\ Post(Event("Transition", NoPoints))
    /\ UNCHANGED <<frameVars, extractionVars, signalVars, dataVars>>

\* Join the extraction thread, then queue the change to the calibration widget.
Join ==
    /\ wpc = "join"
    /\ epc = "exited"
    /\ Post(Event("Transition", NoPoints))
    /\ wpc' = "calibrate"
    /\ UNCHANGED <<frameVars, extractionVars, signalVars, dataVars>>

\* Without initial parameters BasicCalibrator sets the camera to the chosen
\* model; with them it takes the calibration's camera as it is.  It throws when
\* there is no image, and may throw on any images.
Calibrate ==
    /\ wpc = "calibrate"
    /\ \/ /\ images # <<>>
          /\ Post(Event("Result", NoPoints))
          /\ camera' = IF HasInitialParams THEN camera ELSE "model"
       \/ /\ Post(Event("Error", NoPoints))
          /\ UNCHANGED camera
    /\ wpc' = "returned"
    /\ UNCHANGED <<frameVars, extractionVars, signalVars, handoffVars, images,
                   guiVars, fault>>

Worker ==
    /\ fault = "none"
    /\ \/ Start \/ ReadFrame \/ LeaveLoop \/ CheckExtraction \/ CopyHandoff
       \/ ClearNewExtraction \/ SetExtract \/ Draw
       \/ WakeExtraction \/ Join \/ Calibrate

-----------------------------------------------------------------------------
(* The extraction thread: RunBasicExtraction, RunTimedExtraction and          *)
(* RunPoseSuggestionExtraction share their loop and differ in `decide'.       *)

\* What precedes the loop.  The timed mode queues the creation of its widget;
\* pose suggestion starts from a pinhole camera, whatever camera was set up.
Begin ==
    /\ epc = "begin"
    /\ IF Mode = "OnTimedDetection"
       THEN Post(Event("AddTimerWidget", NoPoints))
       ELSE UNCHANGED events
    /\ camera' = IF Mode = "OnSuggestedPose" THEN "pinhole" ELSE camera
    /\ epc' = IF Mode = "OnSuggestedPose" THEN "estimate" ELSE "head"
    /\ UNCHANGED <<wpc, frameVars, tracker, timer_running, in_init_phase,
                   signalVars, handoffVars, images, guiVars, fault>>

\* EstimateNextBestPose may suggest any pose.
Suggest == \E p \in Poses : current_target_points_' = {p}

\* "Estimate once to display first pose before first extraction"
EstimateFirstPose ==
    /\ epc = "estimate"
    /\ Suggest
    /\ epc' = "head"
    /\ UNCHANGED <<wpc, frameVars, tracker, timer_running, in_init_phase,
                   signalVars, current_pixmap_, currently_extracted_image_,
                   calibrationVars, events, guiVars, fault>>

\* while (run_extraction_)
Test ==
    /\ epc = "head"
    /\ epc' = IF run_extraction_ THEN "wait" ELSE "exited"
    /\ UNCHANGED <<wpc, frameVars, tracker, timer_running, in_init_phase,
                   signalVars, dataVars, events>>

\* extract_.Wait()
Wait ==
    /\ epc = "wait"
    /\ extract_
    /\ extract_' = FALSE
    /\ epc' = IF Mode = "OnSuggestedPose" THEN "recheck" ELSE "extract"
    /\ UNCHANGED <<wpc, frameVars, tracker, timer_running, in_init_phase,
                   run_extraction_, new_extraction_, acquire_, dataVars, events>>

\* Mutant of Recheck: no second test of run_extraction_.
RecheckNothing ==
    /\ epc = "recheck" /\ epc' = "extract"
    /\ UNCHANGED <<wpc, frameVars, tracker, timer_running, in_init_phase,
                   signalVars, dataVars, events>>

\* "double check to prevent lengthy pose suggestion blocking the calibration"
Recheck ==
    /\ epc = "recheck"
    /\ epc' = IF run_extraction_ THEN "extract" ELSE "exited"
    /\ UNCHANGED <<wpc, frameVars, tracker, timer_running, in_init_phase,
                   signalVars, dataVars, events>>

\* Detect the target in *current_pixmap_; the timed mode labels its widget.
Extract ==
    /\ epc = "extract"
    /\ IF current_pixmap_ = {}
       THEN /\ fault' = "null current_pixmap_"
            /\ UNCHANGED <<epc, currently_extracted_image_>>
       ELSE /\ currently_extracted_image_' \in current_pixmap_
            /\ IF Mode = "OnTimedDetection" /\ timer_widget = "uninitialised"
               THEN fault' = "uninitialised timer_widget" /\ UNCHANGED epc
               ELSE epc' = "decide" /\ UNCHANGED fault
    /\ UNCHANGED <<wpc, frameVars, tracker, timer_running, in_init_phase,
                   signalVars, current_pixmap_, current_target_points_,
                   calibrationVars, events, guiVars>>

\* OnButton: a press is served when the target is in sight.
DecideBasic ==
    /\ epc = "decide" /\ Mode = "OnButton"
    /\ epc' = IF acquire_ /\ currently_extracted_image_ # NoPoints
              THEN "save" ELSE "reset"
    /\ UNCHANGED <<wpc, frameVars, tracker, timer_running, in_init_phase,
                   signalVars, dataVars, events>>

\* OnTimedDetection: hold a pose for timer_duration.  Without a detection the
\* remembered pose is forgotten; `time up' is any moment while the timer runs.
DecideTimed ==
    LET points == currently_extracted_image_
        t == Updated(IF points = NoPoints THEN Targeting(tracker, points) ELSE tracker,
                     points)
        left == timer_running /\ ~TargetPointsReached(t)
        stop == left \/ ~t.stable
        start == ~stop /\ ~timer_running /\ ~TargetPointsReached(t)
    IN  /\ epc = "decide" /\ Mode = "OnTimedDetection"
        /\ \/ /\ stop
              /\ timer_running' = FALSE /\ tracker' = t /\ epc' = "publish"
           \/ /\ start
              /\ timer_running' = TRUE /\ tracker' = Targeting(t, points)
              /\ epc' = "publish"
           \/ /\ ~stop /\ ~start
              /\ tracker' = t /\ UNCHANGED timer_running
              /\ \/ epc' = "publish"
                 \/ timer_running /\ epc' = "save"
        /\ UNCHANGED <<wpc, frameVars, in_init_phase, signalVars, dataVars, events>>

\* OnSuggestedPose: while the init phase lasts every detection refines the
\* pinhole camera and with it the suggested pose.
DecidePose ==
    LET points == currently_extracted_image_
        t == Updated(tracker, points)
    IN  /\ epc = "decide" /\ Mode = "OnSuggestedPose"
        /\ IF in_init_phase /\ points # NoPoints
           THEN Suggest /\ tracker' = Targeting(t, current_target_points_')
           ELSE tracker' = t /\ UNCHANGED current_target_points_
        /\ epc' = IF TargetPointsReached(tracker') \/ (acquire_ /\ points # NoPoints)
                  THEN "save" ELSE "reset"
        /\ UNCHANGED <<wpc, frameVars, timer_running, in_init_phase, signalVars,
                       current_pixmap_, currently_extracted_image_,
                       calibrationVars, events, guiVars, fault>>

\* Both calibrations of pose suggestion, on one detection in the init phase and
\* on all images after it, may throw, and no try block is around the thread.
CalibrationThrows ==
    /\ Mode = "OnSuggestedPose"
    /\ \/ epc = "decide" /\ in_init_phase /\ currently_extracted_image_ # NoPoints
       \/ epc = "suggest" /\ ~(in_init_phase /\ Len(images) < 3)
    /\ fault' = "exception in the extraction thread"
    /\ UNCHANGED <<wpc, frameVars, extractionVars, signalVars, handoffVars,
                   calibrationVars, events, guiVars>>

\* Mutants of Save: the display is forgotten; the tracker is not forced to be
\* unstable.
Saves(posted) ==
    /\ epc = "save"
    /\ images' = Append(images, currently_extracted_image_)
    /\ events' = events \o posted
    /\ current_pixmap_' = {}
    /\ epc' = CASE Mode = "OnButton" -> "reset"
                [] Mode = "OnTimedDetection" -> "publish"
                [] Mode = "OnSuggestedPose" -> "suggest"
    /\ UNCHANGED <<wpc, frameVars, tracker, timer_running, in_init_phase, signalVars,
                   currently_extracted_image_, current_target_points_, camera,
                   guiVars, fault>>

SaveUnseen == Saves(<<>>)

SaveStable == Saves(<<Event("AddExtractionItem", currently_extracted_image_)>>)

\* Save takes the pixmap, adds the image to the calibration and queues it for
\* display.  The timed mode then forces the tracker to be unstable.
Save ==
    /\ epc = "save"
    /\ images' = Append(images, currently_extracted_image_)
    /\ Post(Event("AddExtractionItem", currently_extracted_image_))
    /\ current_pixmap_' = {}
    /\ tracker' = IF Mode = "OnTimedDetection" THEN Updated(tracker, NoPoints) ELSE tracker
    /\ epc' = CASE Mode = "OnButton" -> "reset"
                [] Mode = "OnTimedDetection" -> "publish"
                [] Mode = "OnSuggestedPose" -> "suggest"
    /\ UNCHANGED <<wpc, frameVars, timer_running, in_init_phase, signalVars,
                   currently_extracted_image_, current_target_points_, camera,
                   guiVars, fault>>

\* Mutant of SuggestAfterSave: the tracker is not told the new target.
SuggestUntracked ==
    /\ epc = "suggest" /\ epc' = "reset"
    /\ in_init_phase' = (in_init_phase /\ Len(images) < 3)
    /\ IF in_init_phase' THEN UNCHANGED current_target_points_ ELSE Suggest
    /\ UNCHANGED <<wpc, frameVars, tracker, timer_running, signalVars, current_pixmap_,
                   currently_extracted_image_, images, camera, events, guiVars, fault>>

\* With three images pose suggestion leaves the init phase for the chosen
\* model; from then on every save recalibrates and suggests the next pose.
SuggestAfterSave ==
    /\ epc = "suggest"
    /\ in_init_phase' = (in_init_phase /\ Len(images) < 3)
    /\ camera' = IF in_init_phase /\ ~in_init_phase' THEN "model" ELSE camera
    /\ IF in_init_phase'
       THEN UNCHANGED <<current_target_points_, tracker>>
       ELSE Suggest /\ tracker' = Targeting(tracker, current_target_points_')
    /\ epc' = "reset"
    /\ UNCHANGED <<wpc, frameVars, timer_running, signalVars, current_pixmap_,
                   currently_extracted_image_, images, events, guiVars, fault>>

\* acquire_ = false
ResetAcquire ==
    /\ epc = "reset"
    /\ acquire_' = FALSE
    /\ epc' = "publish"
    /\ UNCHANGED <<wpc, frameVars, tracker, timer_running, in_init_phase,
                   run_extraction_, new_extraction_, extract_, dataVars, events>>

\* Mutant of Publish: the flag is not set again.
PublishNothing ==
    /\ epc = "publish" /\ epc' = "head"
    /\ UNCHANGED <<wpc, frameVars, tracker, timer_running, in_init_phase,
                   signalVars, dataVars, events>>

\* new_extraction_ = true
Publish ==
    /\ epc = "publish"
    /\ new_extraction_' = TRUE
    /\ epc' = "head"
    /\ UNCHANGED <<wpc, frameVars, tracker, timer_running, in_init_phase,
                   run_extraction_, acquire_, extract_, dataVars, events>>

Extraction ==
    /\ fault = "none"
    /\ \/ Begin \/ EstimateFirstPose \/ Test \/ Wait \/ Recheck \/ Extract
       \/ DecideBasic \/ DecideTimed \/ DecidePose \/ CalibrationThrows
       \/ Save \/ SuggestAfterSave \/ ResetAcquire \/ Publish

-----------------------------------------------------------------------------
(* The GUI thread: functors in the order they were posted, buttons any time  *)

Take(kind) ==
    /\ events # <<>>
    /\ Head(events).kind = kind
    /\ events' = Tail(events)

threadVars == <<wpc, frameVars, extractionVars, handoffVars, calibrationVars>>

\* The "Calibrate" button: done = [this]() { run_extraction_ = false; }
PressDone ==
    /\ extraction_widget = "shown"
    /\ run_extraction_ /\ run_extraction_' = FALSE
    /\ UNCHANGED <<threadVars, new_extraction_, acquire_, extract_, events,
                   guiVars, fault>>

\* The capture button, or space anywhere in the application.
PressCapture ==
    /\ Mode # "OnTimedDetection"
    /\ extraction_widget = "shown"
    /\ ~acquire_ /\ acquire_' = TRUE
    /\ UNCHANGED <<threadVars, run_extraction_, new_extraction_, extract_, events,
                   guiVars, fault>>

\* The buttons stay until the transition is run, and the runner their callbacks
\* captured may be gone by then: the worker destroys it when Run has returned.
PressOnGoneRunner ==
    /\ extraction_widget = "shown" /\ wpc = "returned"
    /\ fault' = "dangling runner"
    /\ UNCHANGED <<threadVars, signalVars, events, guiVars>>

SetLiveStreamImage ==
    /\ Take("SetLiveStreamImage")
    /\ image_widget_' = TRUE
    /\ UNCHANGED <<threadVars, signalVars, items, extraction_widget,
                   calibration_widget, timer_widget, fault>>

\* The heatmap is drawn into the live image, taken out of its widget.
AddExtractionItem ==
    /\ Take("AddExtractionItem")
    /\ IF image_widget_
       THEN /\ image_widget_' = FALSE
            /\ items' = Append(items, Head(events).arg)
            /\ UNCHANGED fault
       ELSE fault' = "null live image" /\ UNCHANGED <<image_widget_, items>>
    /\ UNCHANGED <<threadVars, signalVars, extraction_widget, calibration_widget,
                   timer_widget>>

\* The functor stores the widget through a reference to a local variable of the
\* extraction thread.
AddTimerWidget ==
    /\ Take("AddTimerWidget")
    /\ IF epc = "exited"
       THEN fault' = "dangling timer_widget" /\ UNCHANGED timer_widget
       ELSE timer_widget' = "shown" /\ UNCHANGED fault
    /\ UNCHANGED <<threadVars, signalVars, image_widget_, items, extraction_widget,
                   calibration_widget>>

\* Move the items over, delete the extraction widget, show the progress bar.
Transition ==
    /\ Take("Transition")
    /\ extraction_widget' = "deleted"
    /\ calibration_widget' = "calibrating"
    /\ UNCHANGED <<threadVars, signalVars, image_widget_, items, timer_widget, fault>>

\* The calibration widget's EndCalibration with the result or the error message.
EndCalibration ==
    /\ \/ Take("Result") /\ calibration_widget' = "result"
       \/ Take("Error") /\ calibration_widget' = "error"
    /\ UNCHANGED <<threadVars, signalVars, image_widget_, items, extraction_widget,
                   timer_widget, fault>>

EventLoop ==
    /\ fault = "none"
    /\ \/ SetLiveStreamImage \/ AddExtractionItem \/ AddTimerWidget
       \/ Transition \/ EndCalibration

User == fault = "none" /\ (PressDone \/ PressCapture \/ PressOnGoneRunner)

-----------------------------------------------------------------------------
Done == wpc = "returned" /\ events = <<>>

\* The session is over, or the process is.
Stopped == (Done \/ fault # "none") /\ UNCHANGED vars

Next == Worker \/ Extraction \/ EventLoop \/ User \/ Stopped

Spec == Init /\ [][Next]_vars

\* The two threads and the event loop are scheduled; the user owes no press.
FairSpec ==
    Spec /\ WF_vars(Worker) /\ WF_vars(Extraction) /\ WF_vars(EventLoop)

-----------------------------------------------------------------------------
(* Properties *)

FrameType ==
    /\ pixmap \in Pixmaps /\ has_next_ \in BOOLEAN
    /\ current_draw_image_ \in Points /\ current_draw_target_points_ \in Points

ExtractionType ==
    /\ tracker \in [last : Points, target : Points, stable : BOOLEAN]
    /\ timer_running \in BOOLEAN /\ in_init_phase \in BOOLEAN

SignalType ==
    /\ run_extraction_ \in BOOLEAN /\ new_extraction_ \in BOOLEAN
    /\ acquire_ \in BOOLEAN /\ extract_ \in BOOLEAN

HandoffType ==
    /\ current_pixmap_ \in Pixmaps
    /\ currently_extracted_image_ \in Points /\ current_target_points_ \in Points

CalibrationType == images \in Seq(Points) /\ camera \in Cameras

GuiType ==
    /\ image_widget_ \in BOOLEAN /\ items \in Seq(Points)
    /\ extraction_widget \in {"shown", "deleted"}
    /\ calibration_widget \in {"hidden", "calibrating", "result", "error"}
    /\ timer_widget \in {"uninitialised", "shown"}

\* Every variable has its type; in particular only points are saved and queued.
TypeOK ==
    /\ wpc \in WorkerPcs /\ epc \in ExtractionPcs
    /\ FrameType /\ ExtractionType /\ SignalType /\ HandoffType
    /\ CalibrationType /\ GuiType
    /\ events \in Seq(Events)
    /\ fault \in {"none", "null current_pixmap_", "null live image",
                  "uninitialised timer_widget", "dangling timer_widget",
                  "dangling runner", "exception in the extraction thread"}

\* A frame handed over is drawn on, extracted and saved by one thread at a time:
\* the worker never copies the shared data while the extraction thread is in a
\* pass over it.
HandoffExclusive == wpc = "copy" => epc \notin PassPcs

\* The functors that add an item, among the first n of a queue.
ItemsAmong(queue, n) == {j \in 1 .. n : queue[j].kind = "AddExtractionItem"}

\* Every image saved to the calibration is shown exactly once, in the order of
\* the saves: the side bar holds the first of them and the queued functors,
\* counted from the front, bring the others.
EverySaveDisplayed ==
    fault = "none" =>
        /\ Len(items) + Cardinality(ItemsAmong(events, Len(events))) = Len(images)
        /\ \A k \in DOMAIN items : items[k] = images[k]
        /\ \A j \in ItemsAmong(events, Len(events)) :
               events[j].arg = images[Len(items) + Cardinality(ItemsAmong(events, j))]

\* No functor meant for the extraction widget is left, and no thread that posts
\* such functors is alive, when the widget is deleted.
WidgetOutlivesUsers ==
    extraction_widget = "deleted" =>
        /\ epc = "exited" /\ wpc \in {"calibrate", "returned"}
        /\ \A i \in DOMAIN events : events[i].kind \in {"Result", "Error"}

\* The worker calibrates from the images without a lock: none is added once the
\* calibration has begun.
CalibratesSettledImages ==
    [][(wpc \in {"calibrate", "returned"}) => UNCHANGED images]_vars

\* No pass starts on a pixmap that was moved into the calibration's side bar.
\* livestream_calibration_runner.cpp:294: the last Set is there "To allow the
\* extraction thread to close", not to extract once more.
NoNullPixmap == fault # "null current_pixmap_"

\* The live image is in its widget when the heatmap is drawn into it: two items
\* never arrive without a frame in between, and none arrives before the first.
NoNullLiveImage == fault # "null live image"

\* Out of the init phase a detection is judged against the pose the worker draws
\* on the frame it was made in (current_draw_target_points_, copied at the
\* hand-over), and what is saved without a press is in that pose.  In the init
\* phase it is judged against the pose suggested a moment before, not drawn yet.
SavesPoseOnDisplay ==
    Mode = "OnSuggestedPose" /\ ~in_init_phase =>
        /\ epc = "decide" => tracker.target = current_draw_target_points_
        /\ epc = "save" /\ ~acquire_ =>
               Match(currently_extracted_image_, current_draw_target_points_)

\* Once "Calibrate" is pressed the session comes to its end: the extraction
\* thread is woken and joined, and the result widget is shown.
ShutsDown == ~run_extraction_ ~> (Done \/ fault # "none")

\* livestream_calibration_runner.cpp:294: waking the extraction thread allows it
\* to close, however the loop was left.
WakeClosesExtraction == (wpc = "join") ~> (epc = "exited" \/ fault # "none")

\* While the stream runs the hand-over never gets stuck: frames are extracted
\* again and again.
StreamKeepsExtracting ==
    []<>(epc = "publish" \/ ~run_extraction_ \/ ~has_next_ \/ fault # "none")

-----------------------------------------------------------------------------
(* Refinement: the unlocked data has one owner at a time *)

Closing == wpc \in {"wake", "join", "calibrate", "returned"}

Handoff == INSTANCE FrameHandoff WITH
    owner <- IF new_extraction_ /\ ~Closing THEN "worker" ELSE "extraction",
    pixmap <- current_pixmap_,
    result <- [points |-> currently_extracted_image_, target |-> current_target_points_],
    drawn <- [points |-> current_draw_image_, target |-> current_draw_target_points_]

\* The flags implement the exclusive hand-over, step by step.
ImplementsHandoff == Handoff!Spec
=============================================================================
