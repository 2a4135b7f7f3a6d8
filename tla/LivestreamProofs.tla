-------------------------- MODULE LivestreamProofs --------------------------
(***************************************************************************)
(* Theorems about the livestream runner, for every set of poses, tolerance *)
(* and bound.                                                              *)
(***************************************************************************)
EXTENDS HeldPose, FiniteSetTheorems, FunctionTheorems, TLAPS

USE ModeAssumption, PosesAssumption, ToleranceAssumption, FlagsAssumption,
    BoundsAssumption DEF Modes

-----------------------------------------------------------------------------
(* Type correctness *)

LEMMA PointsType == NoPoints \in Points /\ \A p \in Poses : {p} \in Points
BY DEF NoPoints, Points

LEMMA PixmapsType == {} \in Pixmaps /\ \A f \in Points : {f} \in Pixmaps
BY DEF Pixmaps

LEMMA EventsType ==
    /\ \A k \in {"SetLiveStreamImage", "AddTimerWidget", "Transition", "Result", "Error"} :
           Event(k, NoPoints) \in Events
    /\ \A p \in Points : Event("AddExtractionItem", p) \in Events
BY DEF Events, ItemEvents, PlainEvents

LEMMA EventArgType == \A e \in Events : e.arg \in Points
<1>1. \A k, p : Event(k, p).arg = p BY DEF Event
<1>2. \A e \in ItemEvents : \E p \in Points : e = Event("AddExtractionItem", p)
  BY DEF ItemEvents
<1>3. \A e \in PlainEvents : \E k : e = Event(k, NoPoints)
  BY DEF PlainEvents
<1> QED BY <1>1, <1>2, <1>3, PointsType DEF Events

LEMMA ImagesGrow ==
    ASSUME CalibrationType, NEW p \in Points,
           images' = Append(images, p), camera' = camera
    PROVE  CalibrationType'
BY DEF CalibrationType

LEMMA ItemsGrow ==
    ASSUME GuiType, NEW p \in Points,
           image_widget_' \in BOOLEAN,
           items' \in {items, Append(items, p)},
           UNCHANGED <<extraction_widget, calibration_widget, timer_widget>>
    PROVE  GuiType'
BY DEF GuiType

\* The tracker's operations return a tracker.
Trackers == [last : Points, target : Points, stable : BOOLEAN]

LEMMA TrackerType ==
    ASSUME NEW t \in Trackers, NEW points \in Points
    PROVE  Updated(t, points) \in Trackers /\ Targeting(t, points) \in Trackers
BY DEF Trackers, Updated, Targeting, Match

\* Posting keeps the queue typed, and so does taking.
LEMMA QueueType ==
    ASSUME events \in Seq(Events)
    PROVE  /\ \A e \in Events : Post(e) => events' \in Seq(Events)
           /\ \A k : Take(k) => events' \in Seq(Events) /\ Head(events) \in Events
BY DEF Post, Take

\* Variables left alone keep their type.
LEMMA Unchanged ==
    /\ FrameType /\ UNCHANGED frameVars => FrameType'
    /\ ExtractionType /\ UNCHANGED <<tracker, timer_running, in_init_phase>>
           => ExtractionType'
    /\ SignalType /\ UNCHANGED signalVars => SignalType'
    /\ HandoffType /\ UNCHANGED handoffVars => HandoffType'
    /\ CalibrationType /\ UNCHANGED calibrationVars => CalibrationType'
    /\ GuiType /\ UNCHANGED guiVars => GuiType'
BY DEF FrameType, ExtractionType, SignalType, HandoffType, CalibrationType, GuiType,
       frameVars, drawVars, signalVars, handoffVars, calibrationVars, guiVars

LEMMA WorkerType == TypeOK /\ Worker => TypeOK'
<1> SUFFICES ASSUME TypeOK, Worker PROVE TypeOK' OBVIOUS
<1> USE Unchanged DEF TypeOK, WorkerPcs, extractionVars, dataVars
<1>1. CASE Start
  BY <1>1 DEF Start, CalibrationType, Cameras, ExtractionPcs
<1>2. CASE ReadFrame
  BY <1>2, PixmapsType, PointsType DEF ReadFrame, FrameType, drawVars
<1>3. CASE LeaveLoop
  BY <1>3 DEF LeaveLoop, FrameType, drawVars
<1>4. CASE CheckExtraction
  BY <1>4 DEF CheckExtraction
<1>5. CASE CopyHandoff
  BY <1>5 DEF CopyHandoff, FrameType, HandoffType
<1>6. CASE ClearNewExtraction
  BY <1>6 DEF ClearNewExtraction, SignalType
<1>7. CASE SetExtract
  BY <1>7 DEF SetExtract, SignalType
<1>8. CASE Draw
  BY <1>8, QueueType, EventsType, PixmapsType DEF Draw, FrameType, drawVars
<1>9. CASE WakeExtraction
  BY <1>9 DEF WakeExtraction, SignalType
<1>10. CASE Join
  BY <1>10, QueueType, EventsType DEF Join
<1>11. CASE Calibrate
  BY <1>11, QueueType, EventsType DEF Calibrate, CalibrationType, Cameras
<1> QED BY <1>1, <1>2, <1>3, <1>4, <1>5, <1>6, <1>7, <1>8, <1>9, <1>10, <1>11
        DEF Worker

LEMMA ExtractionTypeStep == TypeOK /\ Extraction => TypeOK'
<1> SUFFICES ASSUME TypeOK, Extraction PROVE TypeOK' OBVIOUS
<1> USE Unchanged DEF TypeOK, ExtractionPcs, dataVars
<1>1. CASE Begin
  BY <1>1, QueueType, EventsType DEF Begin, CalibrationType, Cameras
<1>2. CASE EstimateFirstPose
  BY <1>2, PointsType DEF EstimateFirstPose, Suggest, HandoffType
<1>3. CASE Test BY <1>3 DEF Test
<1>4. CASE Wait BY <1>4 DEF Wait, SignalType
<1>5. CASE Recheck BY <1>5 DEF Recheck
<1>6. CASE Extract
  BY <1>6 DEF Extract, HandoffType, Pixmaps
<1>7. CASE DecideBasic BY <1>7 DEF DecideBasic
<1>8. CASE DecideTimed
  <2> DEFINE points == currently_extracted_image_
             t == Updated(IF points = NoPoints THEN Targeting(tracker, points)
                          ELSE tracker, points)
  <2>1. t \in Trackers /\ Targeting(t, points) \in Trackers
    BY TrackerType DEF ExtractionType, HandoffType, Trackers
  <2>2. /\ tracker' \in {t, Targeting(t, points)}
        /\ timer_running' \in {timer_running, TRUE, FALSE}
        /\ epc' \in {"publish", "save"}
    BY <1>8 DEF DecideTimed
  <2> HIDE DEF t
  <2>3. ExtractionType'
    BY <1>8, <2>1, <2>2 DEF DecideTimed, ExtractionType, Trackers
  <2> QED BY <1>8, <2>2, <2>3 DEF DecideTimed
<1>9. CASE DecidePose
  <2> DEFINE points == currently_extracted_image_
             t == Updated(tracker, points)
  <2>1. HandoffType'
    BY <1>9, PointsType DEF DecidePose, Suggest, HandoffType
  <2>2. t \in Trackers
    BY TrackerType DEF ExtractionType, HandoffType, Trackers
  <2>3. tracker' \in {t, Targeting(t, current_target_points_')}
    BY <1>9 DEF DecidePose
  <2>4. tracker' \in Trackers
    BY <2>1, <2>2, <2>3, TrackerType DEF HandoffType
  <2>5. ExtractionType'
    BY <1>9, <2>4 DEF DecidePose, ExtractionType, Trackers
  <2> QED BY <1>9, <2>1, <2>5 DEF DecidePose
<1>10. CASE Save
  <2>1. tracker' \in Trackers
    BY <1>10, TrackerType, PointsType DEF Save, ExtractionType, Trackers
  <2>2. ExtractionType'
    BY <1>10, <2>1 DEF Save, ExtractionType, Trackers
  <2>3. HandoffType' /\ CalibrationType'
    <3>1. HandoffType' BY <1>10, PixmapsType DEF Save, HandoffType
    <3>2. images' = Append(images, currently_extracted_image_) /\ camera' = camera
      BY <1>10 DEF Save
    <3>3. CalibrationType' BY <3>2, ImagesGrow DEF HandoffType
    <3> QED BY <3>1, <3>3
  <2>4. events' \in Seq(Events)
    BY <1>10, QueueType, EventsType DEF Save, HandoffType
  <2>5. epc' \in ExtractionPcs
    BY <1>10, ModeAssumption DEF Save, Modes
  <2> QED BY <1>10, <2>2, <2>3, <2>4, <2>5 DEF Save
<1>11. CASE SuggestAfterSave
  <2>1. HandoffType'
    BY <1>11, PointsType DEF SuggestAfterSave, Suggest, HandoffType
  <2>2. tracker' \in Trackers
    <3>1. tracker' \in {tracker, Targeting(tracker, current_target_points_')}
      BY <1>11 DEF SuggestAfterSave
    <3>2. tracker \in Trackers /\ current_target_points_' \in Points
      BY <2>1 DEF ExtractionType, HandoffType, Trackers
    <3> QED BY <3>1, <3>2, TrackerType
  <2>3. ExtractionType' /\ CalibrationType'
    BY <1>11, <2>2
    DEF SuggestAfterSave, ExtractionType, CalibrationType, Cameras, Trackers
  <2> QED BY <1>11, <2>1, <2>3 DEF SuggestAfterSave
<1>12. CASE ResetAcquire BY <1>12 DEF ResetAcquire, SignalType
<1>13. CASE Publish BY <1>13 DEF Publish, SignalType
<1>14. CASE CalibrationThrows BY <1>14 DEF CalibrationThrows, extractionVars
<1> QED BY <1>1, <1>2, <1>3, <1>4, <1>5, <1>6, <1>7, <1>8, <1>9, <1>10, <1>11,
           <1>12, <1>13, <1>14 DEF Extraction

LEMMA GuiTypeStep == TypeOK /\ (EventLoop \/ User \/ Stopped) => TypeOK'
<1> SUFFICES ASSUME TypeOK, EventLoop \/ User \/ Stopped PROVE TypeOK' OBVIOUS
<1> USE Unchanged DEF TypeOK, threadVars, extractionVars
<1>1. CASE SetLiveStreamImage
  BY <1>1, QueueType DEF SetLiveStreamImage, GuiType
<1>2. CASE AddExtractionItem
  <2>1. Head(events) \in Events
    BY <1>2, QueueType DEF AddExtractionItem
  <2>2. \A e \in Events : e.arg \in Points
    BY EventArgType
  <2>3. GuiType'
    <3>1. /\ items' \in {items, Append(items, Head(events).arg)}
          /\ UNCHANGED <<extraction_widget, calibration_widget, timer_widget>>
      BY <1>2 DEF AddExtractionItem
    <3>2. image_widget_' \in BOOLEAN
      BY <1>2 DEF AddExtractionItem, GuiType
    <3> QED BY <3>1, <3>2, <2>1, <2>2, ItemsGrow
  <2> QED BY <1>2, <2>3, QueueType DEF AddExtractionItem
<1>3. CASE AddTimerWidget
  BY <1>3, QueueType DEF AddTimerWidget, GuiType
<1>4. CASE Transition
  BY <1>4, QueueType DEF Transition, GuiType
<1>5. CASE EndCalibration
  BY <1>5, QueueType DEF EndCalibration, GuiType
<1>6. CASE PressDone
  BY <1>6 DEF PressDone, SignalType
<1>7. CASE PressCapture
  BY <1>7 DEF PressCapture, SignalType
<1>8. CASE PressOnGoneRunner
  BY <1>8 DEF PressOnGoneRunner
<1>9. CASE Stopped
  BY <1>9 DEF Stopped, vars, dataVars
<1> QED BY <1>1, <1>2, <1>3, <1>4, <1>5, <1>6, <1>7, <1>8, <1>9 DEF EventLoop, User

\* Every variable of the session keeps its type, whatever the poses, the
\* tolerance, the mode and the bounds.
THEOREM TypeCorrect == Spec => []TypeOK
<1>1. Init => TypeOK
  <2> SUFFICES ASSUME Init PROVE TypeOK OBVIOUS
  <2> USE PointsType, PixmapsType DEF Init
  <2>1. FrameType BY DEF FrameType
  <2>2. ExtractionType BY DEF ExtractionType
  <2>3. SignalType BY DEF SignalType
  <2>4. HandoffType BY DEF HandoffType
  <2>5. CalibrationType BY DEF CalibrationType, Cameras
  <2>6. GuiType
    <3>1. items \in Seq(Points) OBVIOUS
    <3> QED BY <3>1 DEF GuiType
  <2> QED BY <2>1, <2>2, <2>3, <2>4, <2>5, <2>6 DEF TypeOK, WorkerPcs, ExtractionPcs
<1>2. TypeOK /\ [Next]_vars => TypeOK'
  <2>1. TypeOK /\ UNCHANGED vars => TypeOK'
    BY Unchanged DEF TypeOK, vars, dataVars, extractionVars
  <2> QED BY <2>1, WorkerType, ExtractionTypeStep, GuiTypeStep DEF Next
<1> QED BY <1>1, <1>2, PTL DEF Spec

-----------------------------------------------------------------------------
(* The exclusive hand-over *)

\* Whose turn it is.  new_extraction_ and the control point "set" mean the
\* worker's, extract_ and a pass the extraction thread's, and until the worker
\* has left its loop it is never both.
Turns ==
    /\ wpc \in {"copy", "clear"} => new_extraction_
    /\ wpc = "set" => ~new_extraction_
    /\ ~Closing /\ (new_extraction_ \/ wpc = "set") => ~extract_ /\ epc \notin PassPcs
    /\ ~Closing /\ extract_ => epc \notin PassPcs

\* The event loop leaves the threads' state and the signals alone.
LEMMA EventLoopFrame == EventLoop => UNCHANGED threadVars /\ UNCHANGED signalVars
<1>1. SetLiveStreamImage => UNCHANGED threadVars /\ UNCHANGED signalVars
  BY DEF SetLiveStreamImage
<1>2. AddExtractionItem => UNCHANGED threadVars /\ UNCHANGED signalVars
  BY DEF AddExtractionItem
<1>3. AddTimerWidget => UNCHANGED threadVars /\ UNCHANGED signalVars
  BY DEF AddTimerWidget
<1>4. Transition => UNCHANGED threadVars /\ UNCHANGED signalVars
  BY DEF Transition
<1>5. EndCalibration => UNCHANGED threadVars /\ UNCHANGED signalVars
  BY DEF EndCalibration
<1> QED BY <1>1, <1>2, <1>3, <1>4, <1>5 DEF EventLoop

\* The buttons touch two flags only.
LEMMA UserFrame ==
    User => /\ UNCHANGED threadVars /\ UNCHANGED <<events, guiVars>>
            /\ UNCHANGED <<new_extraction_, extract_>>
BY DEF User, PressDone, PressCapture, PressOnGoneRunner, signalVars

LEMMA TurnsStep == TypeOK /\ Turns /\ [Next]_vars => Turns'
<1> SUFFICES ASSUME TypeOK, Turns, [Next]_vars PROVE Turns' OBVIOUS
<1>0. SignalType BY DEF TypeOK
<1> USE <1>0 DEF Turns, Closing, PassPcs, SignalType, signalVars
<1>1. CASE Start BY <1>1 DEF Start
<1>2. CASE ReadFrame BY <1>2 DEF ReadFrame, extractionVars
<1>3. CASE LeaveLoop BY <1>3 DEF LeaveLoop, extractionVars
<1>4. CASE CheckExtraction BY <1>4 DEF CheckExtraction, extractionVars
<1>5. CASE CopyHandoff BY <1>5 DEF CopyHandoff, extractionVars
<1>6. CASE ClearNewExtraction BY <1>6 DEF ClearNewExtraction, extractionVars
<1>7. CASE SetExtract BY <1>7 DEF SetExtract, extractionVars
<1>8. CASE Draw BY <1>8 DEF Draw, extractionVars
<1>9. CASE WakeExtraction BY <1>9 DEF WakeExtraction, extractionVars
<1>10. CASE Join BY <1>10 DEF Join, extractionVars
<1>11. CASE Calibrate BY <1>11 DEF Calibrate, extractionVars
<1>12. CASE Begin BY <1>12 DEF Begin
<1>13. CASE EstimateFirstPose BY <1>13 DEF EstimateFirstPose
<1>14. CASE Test BY <1>14 DEF Test
<1>15. CASE Wait BY <1>15 DEF Wait
<1>16. CASE Recheck BY <1>16 DEF Recheck
<1>17. CASE Extract BY <1>17 DEF Extract
<1>18. CASE DecideBasic BY <1>18 DEF DecideBasic
<1>19. CASE DecideTimed BY <1>19 DEF DecideTimed
<1>20. CASE DecidePose BY <1>20 DEF DecidePose
<1>21. CASE Save BY <1>21 DEF Save
<1>22. CASE SuggestAfterSave BY <1>22 DEF SuggestAfterSave
<1>23. CASE ResetAcquire BY <1>23 DEF ResetAcquire
<1>24. CASE Publish BY <1>24 DEF Publish
<1>25. CASE User BY <1>25, UserFrame DEF threadVars, extractionVars
<1>26. CASE EventLoop BY <1>26, EventLoopFrame DEF threadVars, extractionVars
<1>27. CASE UNCHANGED vars BY <1>27 DEF vars, extractionVars
<1>28. CASE CalibrationThrows BY <1>28 DEF CalibrationThrows, extractionVars
<1> QED
  BY <1>1, <1>2, <1>3, <1>4, <1>5, <1>6, <1>7, <1>8, <1>9, <1>10, <1>11, <1>12,
     <1>13, <1>14, <1>15, <1>16, <1>17, <1>18, <1>19, <1>20, <1>21, <1>22, <1>23,
     <1>24, <1>25, <1>26, <1>27, <1>28
  DEF Next, Worker, Extraction, Stopped

LEMMA TurnsAlternate == Spec => []Turns
<1>1. Init => Turns
  BY DEF Init, Turns, PassPcs, Closing
<1> QED BY <1>1, TurnsStep, TypeCorrect, PTL DEF Spec

\* In every mode, whatever the camera does: the worker never copies the shared
\* data while the extraction thread is in a pass over it.
THEOREM Exclusive == Spec => []HandoffExclusive
<1>1. Turns => HandoffExclusive
  BY DEF Turns, HandoffExclusive, Closing
<1> QED BY <1>1, TurnsAlternate, PTL

-----------------------------------------------------------------------------
(* Refinement: the flags implement the hand-over *)

\* The worker holds a frame while it decides what to do with it.
FrameInHand == wpc \in {"check", "copy", "clear", "set", "draw"} => pixmap # {}

LEMMA FrameInHandAlways == Spec => []FrameInHand
<1>1. Init => FrameInHand
  BY DEF Init, FrameInHand
<1>2. FrameInHand /\ [Next]_vars => FrameInHand'
  <2> SUFFICES ASSUME FrameInHand, [Next]_vars PROVE FrameInHand' OBVIOUS
  <2> USE DEF FrameInHand
  <2>1. CASE Worker
    BY <2>1 DEF Worker, Start, ReadFrame, LeaveLoop, CheckExtraction, CopyHandoff,
                ClearNewExtraction, SetExtract, Draw, WakeExtraction, Join, Calibrate,
                frameVars
  <2>2. CASE UNCHANGED <<wpc, pixmap>>
    BY <2>2
  <2>3. Extraction => UNCHANGED <<wpc, pixmap>>
    BY DEF Extraction, Begin, EstimateFirstPose, Test, Wait, Recheck, Extract,
           DecideBasic, DecideTimed, DecidePose, CalibrationThrows, Save,
           SuggestAfterSave, ResetAcquire, Publish, frameVars
  <2>4. EventLoop => UNCHANGED <<wpc, pixmap>>
    BY EventLoopFrame DEF threadVars, frameVars
  <2>5. User \/ Stopped \/ UNCHANGED vars => UNCHANGED <<wpc, pixmap>>
    BY DEF User, PressDone, PressCapture, PressOnGoneRunner, Stopped, threadVars,
           frameVars, vars
  <2> QED BY <2>1, <2>2, <2>3, <2>4, <2>5 DEF Next
<1> QED BY <1>1, <1>2, PTL DEF Spec

\* Only pose suggestion estimates a pose ahead of the first extraction.
FirstPoseOnSuggestion == epc = "estimate" => Mode = "OnSuggestedPose"

LEMMA FirstPoseOnSuggestionAlways == Spec => []FirstPoseOnSuggestion
<1>1. Init => FirstPoseOnSuggestion
  BY DEF Init, FirstPoseOnSuggestion
<1>2. FirstPoseOnSuggestion /\ [Next]_vars => FirstPoseOnSuggestion'
  <2> SUFFICES ASSUME FirstPoseOnSuggestion, [Next]_vars
               PROVE  FirstPoseOnSuggestion'
    OBVIOUS
  <2> USE DEF FirstPoseOnSuggestion
  <2>1. CASE Worker
    BY <2>1 DEF Worker, Start, ReadFrame, LeaveLoop, CheckExtraction, CopyHandoff,
                ClearNewExtraction, SetExtract, Draw, WakeExtraction, Join, Calibrate,
                extractionVars
  <2>2. CASE Extraction
    BY <2>2 DEF Extraction, Begin, EstimateFirstPose, Test, Wait, Recheck, Extract,
           DecideBasic, DecideTimed, DecidePose, CalibrationThrows, Save,
           SuggestAfterSave, ResetAcquire, Publish
  <2>3. EventLoop => UNCHANGED epc
    BY EventLoopFrame DEF threadVars, extractionVars
  <2>4. User \/ Stopped \/ UNCHANGED vars => UNCHANGED epc
    BY DEF User, PressDone, PressCapture, PressOnGoneRunner, Stopped, threadVars,
           extractionVars, vars
  <2> QED BY <2>1, <2>2, <2>3, <2>4 DEF Next
<1> QED BY <1>1, <1>2, PTL DEF Spec

LEMMA HandoffStep ==
    ASSUME TypeOK, Turns, FrameInHand, [Next]_vars
    PROVE  EstimateFirstPose \/ [Handoff!Next]_(Handoff!vars)
<1>0. /\ SignalType /\ current_pixmap_ \in Pixmaps /\ pixmap \in Pixmaps
      /\ currently_extracted_image_ \in Points /\ current_target_points_ \in Points
  BY DEF TypeOK, HandoffType, FrameType
<1> USE <1>0 DEF Closing
<1> DEFINE same == UNCHANGED <<new_extraction_, Closing, current_pixmap_,
                               currently_extracted_image_, current_target_points_,
                               current_draw_image_, current_draw_target_points_>>
<1>1. same => UNCHANGED Handoff!vars
  BY DEF Handoff!vars
<1>2. CASE Start BY <1>1, <1>2 DEF Start, frameVars, drawVars, handoffVars, signalVars
<1>3. CASE ReadFrame
  BY <1>1, <1>3 DEF ReadFrame, drawVars, dataVars, handoffVars, signalVars
<1>4. CASE LeaveLoop
  <2>1. /\ Closing' /\ ~Closing
        /\ UNCHANGED <<new_extraction_, drawVars, handoffVars>>
    BY <1>4 DEF LeaveLoop, dataVars, signalVars
  <2>2. CASE new_extraction_
    BY <2>1, <2>2 DEF Handoff!Next, Handoff!Give, drawVars, handoffVars
  <2>3. CASE ~new_extraction_
    BY <2>1, <2>3 DEF Handoff!vars, drawVars, handoffVars
  <2> QED BY <2>2, <2>3
<1>5. CASE CheckExtraction
  BY <1>1, <1>5 DEF CheckExtraction, frameVars, drawVars, dataVars, handoffVars, signalVars
<1>6. CASE CopyHandoff
  <2>1. new_extraction_ /\ ~Closing /\ ~Closing' /\ new_extraction_'
    BY <1>6 DEF CopyHandoff, Turns, signalVars
  <2>2. \E f \in Points : current_pixmap_' = {f}
    BY <1>6 DEF CopyHandoff, FrameInHand, Pixmaps
  <2> QED
    BY <1>6, <2>1, <2>2 DEF CopyHandoff, Handoff!Next, Handoff!Offer
<1>7. CASE ClearNewExtraction
  <2>1. /\ new_extraction_ /\ ~Closing /\ ~new_extraction_'
        /\ UNCHANGED <<drawVars, handoffVars>>
    BY <1>7 DEF ClearNewExtraction, Turns, frameVars, dataVars
  <2> QED BY <2>1 DEF Handoff!Next, Handoff!Give, drawVars, handoffVars
<1>8. CASE SetExtract
  BY <1>1, <1>8 DEF SetExtract, frameVars, drawVars, dataVars, handoffVars
<1>9. CASE Draw
  BY <1>1, <1>9 DEF Draw, drawVars, dataVars, handoffVars, signalVars
<1>10. CASE WakeExtraction
  BY <1>1, <1>10 DEF WakeExtraction, frameVars, drawVars, dataVars, handoffVars
<1>11. CASE Join
  BY <1>1, <1>11 DEF Join, frameVars, drawVars, dataVars, handoffVars, signalVars
<1>12. CASE Calibrate
  BY <1>1, <1>12 DEF Calibrate, frameVars, drawVars, handoffVars, signalVars
<1>13. CASE Begin
  BY <1>1, <1>13 DEF Begin, frameVars, drawVars, handoffVars, signalVars
<1>15. CASE Test
  BY <1>1, <1>15 DEF Test, frameVars, drawVars, dataVars, handoffVars, signalVars
<1>16. CASE Wait
  BY <1>1, <1>16 DEF Wait, frameVars, drawVars, dataVars, handoffVars
<1>17. CASE Recheck
  BY <1>1, <1>17 DEF Recheck, frameVars, drawVars, dataVars, handoffVars, signalVars
<1>18. epc \in PassPcs => ~(new_extraction_ /\ ~Closing)
  BY DEF Turns
<1>19. CASE Extract
  <2>1. /\ ~(new_extraction_ /\ ~Closing)
        /\ UNCHANGED <<wpc, new_extraction_, drawVars, current_pixmap_,
                       current_target_points_>>
    BY <1>18, <1>19 DEF Extract, PassPcs, frameVars, signalVars
  <2>2. CASE currently_extracted_image_' \in current_pixmap_
    BY <2>1, <2>2 DEF Handoff!Next, Handoff!Detect, drawVars
  <2>3. CASE UNCHANGED currently_extracted_image_
    BY <1>1, <2>1, <2>3 DEF drawVars
  <2> QED BY <1>19, <2>2, <2>3 DEF Extract
<1>20. CASE DecideBasic
  BY <1>1, <1>20 DEF DecideBasic, frameVars, drawVars, dataVars, handoffVars, signalVars
<1>21. CASE DecideTimed
  BY <1>1, <1>21 DEF DecideTimed, frameVars, drawVars, dataVars, handoffVars, signalVars
<1>22. ASSUME epc \in PassPcs, current_target_points_' \in Points,
              UNCHANGED <<wpc, new_extraction_, drawVars, current_pixmap_,
                          currently_extracted_image_>>
       PROVE  Handoff!Detect
  BY <1>18, <1>22 DEF Handoff!Detect, drawVars
<1>23. CASE DecidePose
  <2>1. /\ epc \in PassPcs
        /\ UNCHANGED <<wpc, new_extraction_, drawVars, current_pixmap_,
                       currently_extracted_image_>>
    BY <1>23 DEF DecidePose, PassPcs, frameVars, signalVars
  <2>2. current_target_points_' \in Points
    BY <1>23, PointsType DEF DecidePose, Suggest
  <2> QED BY <1>22, <2>1, <2>2 DEF Handoff!Next
<1>24. CASE Save
  <2>1. /\ epc \in PassPcs /\ current_pixmap_' = {}
        /\ UNCHANGED <<wpc, new_extraction_, drawVars, currently_extracted_image_,
                       current_target_points_>>
    BY <1>24 DEF Save, PassPcs, frameVars, signalVars
  <2> QED BY <1>18, <2>1 DEF Handoff!Next, Handoff!TakeFrame, drawVars
<1>25. CASE SuggestAfterSave
  <2>1. /\ epc \in PassPcs
        /\ UNCHANGED <<wpc, new_extraction_, drawVars, current_pixmap_,
                       currently_extracted_image_>>
    BY <1>25 DEF SuggestAfterSave, PassPcs, frameVars, signalVars
  <2>2. current_target_points_' \in Points
    BY <1>25, PointsType DEF SuggestAfterSave, Suggest
  <2> QED BY <1>22, <2>1, <2>2 DEF Handoff!Next
<1>26. CASE ResetAcquire
  BY <1>1, <1>26 DEF ResetAcquire, frameVars, drawVars, dataVars, handoffVars
<1>27. CASE Publish
  <2>1. /\ epc \in PassPcs /\ new_extraction_'
        /\ UNCHANGED <<wpc, drawVars, handoffVars>>
    BY <1>27 DEF Publish, PassPcs, frameVars, dataVars
  <2>2. CASE Closing
    BY <2>1, <2>2 DEF Handoff!vars, drawVars, handoffVars
  <2>3. CASE ~Closing
    BY <1>18, <2>1, <2>3 DEF Handoff!Next, Handoff!Return, drawVars, handoffVars
  <2> QED BY <2>2, <2>3
<1>29. CASE CalibrationThrows
  BY <1>1, <1>29 DEF CalibrationThrows, frameVars, drawVars, handoffVars, signalVars
<1>28. EventLoop \/ User \/ Stopped \/ UNCHANGED vars => same
  BY EventLoopFrame
  DEF User, PressDone, PressCapture, PressOnGoneRunner, Stopped, vars, threadVars,
      frameVars, drawVars,
      dataVars, handoffVars, signalVars
<1> QED
  BY <1>1, <1>2, <1>3, <1>4, <1>5, <1>6, <1>7, <1>8, <1>9, <1>10, <1>11, <1>12,
     <1>13, <1>15, <1>16, <1>17, <1>19, <1>20, <1>21, <1>23, <1>24, <1>25,
     <1>26, <1>27, <1>28, <1>29
  DEF Next, Worker, Extraction

\* In every mode, of all that is done to the data both threads use without a
\* lock, only the first suggestion, written before the extraction thread's first
\* turn, is not a step of the exclusive hand-over.
THEOREM Handover ==
    Spec => Handoff!Init /\ [][EstimateFirstPose \/ Handoff!Next]_(Handoff!vars)
<1>1. Init => Handoff!Init
  BY DEF Init, Handoff!Init, Closing, NoPoints
<1>2. TypeOK /\ Turns /\ FrameInHand /\ [Next]_vars
      => [EstimateFirstPose \/ Handoff!Next]_(Handoff!vars)
  BY HandoffStep
<1> QED
  BY <1>1, <1>2, TypeCorrect, TurnsAlternate, FrameInHandAlways, PTL DEF Spec

\* Without pose suggestion the four flags implement the exclusive hand-over: the
\* data both threads use without a lock has one owner at a time.
THEOREM Implementation == Mode # "OnSuggestedPose" => (Spec => ImplementsHandoff)
<1> SUFFICES ASSUME Mode # "OnSuggestedPose" PROVE Spec => Handoff!Spec
  BY DEF ImplementsHandoff
<1>1. FirstPoseOnSuggestion /\ [EstimateFirstPose \/ Handoff!Next]_(Handoff!vars)
      => [Handoff!Next]_(Handoff!vars)
  BY DEF FirstPoseOnSuggestion, EstimateFirstPose
<1> QED
  BY <1>1, Handover, FirstPoseOnSuggestionAlways, PTL DEF Handoff!Spec

-----------------------------------------------------------------------------
(* The end of a session: after the join nothing is left of the extraction thread *)

Joined == wpc \in {"calibrate", "returned"} => epc = "exited"

LEMMA ExtractionFrame == Extraction => epc # "exited" /\ UNCHANGED wpc
BY DEF Extraction, Begin, EstimateFirstPose, Test, Wait, Recheck, Extract,
       DecideBasic, DecideTimed, DecidePose, CalibrationThrows, Save,
       SuggestAfterSave, ResetAcquire, Publish

LEMMA RestFrame ==
    EventLoop \/ User \/ Stopped \/ UNCHANGED vars =>
        UNCHANGED <<wpc, epc, pixmap, has_next_, tracker, images>>
BY EventLoopFrame
DEF User, PressDone, PressCapture, PressOnGoneRunner, Stopped, vars, threadVars,
    frameVars,
    extractionVars, calibrationVars, dataVars

LEMMA JoinedStep == Joined /\ [Next]_vars => Joined'
<1> SUFFICES ASSUME Joined, [Next]_vars PROVE Joined' OBVIOUS
<1> USE DEF Joined
<1>1. CASE Worker
  BY <1>1 DEF Worker, Start, ReadFrame, LeaveLoop, CheckExtraction, CopyHandoff,
              ClearNewExtraction, SetExtract, Draw, WakeExtraction, Join, Calibrate,
              extractionVars
<1>2. CASE Extraction BY <1>2, ExtractionFrame
<1> QED BY <1>1, <1>2, RestFrame DEF Next

LEMMA JoinedAlways == Spec => []Joined
<1>1. Init => Joined BY DEF Init, Joined
<1> QED BY <1>1, JoinedStep, PTL DEF Spec

\* No image is added to the calibration once the worker calibrates from it.
THEOREM SettledImages == Spec => CalibratesSettledImages
<1>1. Joined /\ [Next]_vars =>
          [(wpc \in {"calibrate", "returned"}) => UNCHANGED images]_vars
  <2> SUFFICES ASSUME Joined, Next, wpc \in {"calibrate", "returned"}
               PROVE  UNCHANGED images
    OBVIOUS
  <2>1. CASE Worker
    BY <2>1 DEF Worker, Start, ReadFrame, LeaveLoop, CheckExtraction, CopyHandoff,
                ClearNewExtraction, SetExtract, Draw, WakeExtraction, Join, Calibrate
  <2>2. ~Extraction BY ExtractionFrame DEF Joined
  <2> QED BY <2>1, <2>2, RestFrame DEF Next
<1> QED BY <1>1, JoinedAlways, PTL DEF Spec, CalibratesSettledImages

-----------------------------------------------------------------------------
(* The last wake-up, with a camera that stays *)

\* The loop is left for the user's sake only.
LeftByUser ==
    /\ ~Closing => has_next_
    /\ Closing => ~run_extraction_

\* A wake-up that is not the last one comes with a frame.
FrameOnWake ==
    /\ ~Closing /\ (extract_ \/ wpc \in {"clear", "set"}) => current_pixmap_ # {}
    /\ epc = "recheck" /\ run_extraction_ => current_pixmap_ # {}
    /\ epc = "extract" => current_pixmap_ # {}

LEMMA LeftByUserStep ==
    ASSUME ~CameraMayFail, TypeOK, LeftByUser, [Next]_vars
    PROVE  LeftByUser'
<1>0. SignalType BY DEF TypeOK
<1> USE <1>0 DEF LeftByUser, Closing, SignalType, signalVars
<1>1. CASE Worker
  BY <1>1 DEF Worker, Start, ReadFrame, LeaveLoop, CheckExtraction, CopyHandoff,
              ClearNewExtraction, SetExtract, Draw, WakeExtraction, Join, Calibrate,
              frameVars
<1>2. Extraction => UNCHANGED <<wpc, has_next_, run_extraction_>>
  BY DEF Extraction, Begin, EstimateFirstPose, Test, Wait, Recheck, Extract,
         DecideBasic, DecideTimed, DecidePose, CalibrationThrows, Save,
         SuggestAfterSave, ResetAcquire, Publish, frameVars
<1>3. EventLoop => UNCHANGED run_extraction_
  BY EventLoopFrame
<1>4. User => ~run_extraction_' \/ UNCHANGED run_extraction_
  BY DEF User, PressDone, PressCapture, PressOnGoneRunner
<1>5. Stopped \/ UNCHANGED vars => UNCHANGED run_extraction_
  BY DEF Stopped, vars
<1> QED BY <1>1, <1>2, <1>3, <1>4, <1>5, RestFrame DEF Next

LEMMA FrameOnWakeStep ==
    ASSUME Mode = "OnSuggestedPose",
           TypeOK, Turns, FrameInHand, LeftByUser, FrameOnWake, [Next]_vars
    PROVE  FrameOnWake'
<1>0. SignalType BY DEF TypeOK
<1> USE <1>0 DEF FrameOnWake, Closing, SignalType, signalVars, handoffVars
<1>1. CASE Start BY <1>1 DEF Start
<1>2. CASE ReadFrame BY <1>2 DEF ReadFrame, extractionVars, dataVars
<1>3. CASE LeaveLoop BY <1>3 DEF LeaveLoop, extractionVars, dataVars
<1>4. CASE CheckExtraction BY <1>4 DEF CheckExtraction, extractionVars, dataVars, Turns
<1>5. CASE CopyHandoff BY <1>5 DEF CopyHandoff, extractionVars, FrameInHand
<1>6. CASE ClearNewExtraction BY <1>6 DEF ClearNewExtraction, extractionVars, dataVars
<1>7. CASE SetExtract BY <1>7 DEF SetExtract, extractionVars, dataVars
<1>8. CASE Draw BY <1>8 DEF Draw, extractionVars, dataVars
<1>9. CASE WakeExtraction BY <1>9 DEF WakeExtraction, extractionVars, dataVars
<1>10. CASE Join BY <1>10 DEF Join, extractionVars, dataVars
<1>11. CASE Calibrate BY <1>11 DEF Calibrate, extractionVars
<1>12. CASE Begin BY <1>12 DEF Begin
<1>13. CASE EstimateFirstPose BY <1>13 DEF EstimateFirstPose
<1>14. CASE Test BY <1>14 DEF Test, dataVars
<1>15. CASE Wait BY <1>15 DEF Wait, dataVars, LeftByUser
<1>16. CASE Recheck BY <1>16 DEF Recheck, dataVars
<1>17. CASE Extract BY <1>17 DEF Extract
<1>18. CASE DecideBasic BY <1>18 DEF DecideBasic, dataVars
<1>19. CASE DecideTimed BY <1>19 DEF DecideTimed, dataVars
<1>20. CASE DecidePose BY <1>20 DEF DecidePose
<1>21. CASE Save BY <1>21 DEF Save, Turns, PassPcs
<1>22. CASE SuggestAfterSave BY <1>22 DEF SuggestAfterSave
<1>23. CASE ResetAcquire BY <1>23 DEF ResetAcquire, dataVars
<1>24. CASE Publish BY <1>24 DEF Publish, dataVars
<1>25. CASE User
  <2>1. UNCHANGED <<wpc, epc, extract_, current_pixmap_>>
    BY <1>25, UserFrame DEF threadVars, extractionVars
  <2>2. ~run_extraction_' \/ UNCHANGED run_extraction_
    BY <1>25 DEF User, PressDone, PressCapture, PressOnGoneRunner
  <2> QED BY <2>1, <2>2
<1>26. CASE EventLoop BY <1>26, EventLoopFrame DEF threadVars, extractionVars
<1>27. CASE UNCHANGED vars BY <1>27 DEF vars, extractionVars, dataVars
<1>28. CASE CalibrationThrows BY <1>28 DEF CalibrationThrows, extractionVars
<1> QED
  BY <1>1, <1>2, <1>3, <1>4, <1>5, <1>6, <1>7, <1>8, <1>9, <1>10, <1>11, <1>12,
     <1>13, <1>14, <1>15, <1>16, <1>17, <1>18, <1>19, <1>20, <1>21, <1>22, <1>23,
     <1>24, <1>25, <1>26, <1>27, <1>28
  DEF Next, Worker, Extraction, Stopped

\* Pose suggestion tests run_extraction_ once more after its wake-up, so the last
\* wake-up never makes it extract from a pixmap that was saved or never handed
\* over, as long as the camera stays.
THEOREM PoseModeHasPixmap ==
    Mode = "OnSuggestedPose" /\ ~CameraMayFail => (Spec => []NoNullPixmap)
<1> SUFFICES ASSUME Mode = "OnSuggestedPose", ~CameraMayFail
             PROVE  Spec => []NoNullPixmap
  OBVIOUS
<1>1. Init => LeftByUser /\ FrameOnWake /\ NoNullPixmap
  BY DEF Init, LeftByUser, FrameOnWake, NoNullPixmap, Closing
<1>2. TypeOK /\ LeftByUser /\ [Next]_vars => LeftByUser'
  BY LeftByUserStep
<1>3. /\ TypeOK /\ Turns /\ FrameInHand /\ LeftByUser /\ FrameOnWake /\ [Next]_vars
      => FrameOnWake'
  BY FrameOnWakeStep
<1>4. FrameOnWake /\ NoNullPixmap /\ [Next]_vars => NoNullPixmap'
  <2> SUFFICES ASSUME FrameOnWake, NoNullPixmap, [Next]_vars PROVE NoNullPixmap'
    OBVIOUS
  <2> USE DEF NoNullPixmap
  <2>1. CASE Worker
    BY <2>1 DEF Worker, Start, ReadFrame, LeaveLoop, CheckExtraction, CopyHandoff,
                ClearNewExtraction, SetExtract, Draw, WakeExtraction, Join, Calibrate,
                dataVars
  <2>2. CASE Extraction
    BY <2>2 DEF Extraction, Begin, EstimateFirstPose, Test, Wait, Recheck, Extract,
                DecideBasic, DecideTimed, DecidePose, CalibrationThrows, Save,
                SuggestAfterSave, ResetAcquire, Publish, FrameOnWake, dataVars
  <2>3. CASE EventLoop
    BY <2>3 DEF EventLoop, SetLiveStreamImage, AddExtractionItem, AddTimerWidget,
                Transition, EndCalibration
  <2>4. CASE User BY <2>4 DEF User, PressDone, PressCapture, PressOnGoneRunner
  <2>5. CASE UNCHANGED vars BY <2>5 DEF vars, dataVars
  <2> QED BY <2>1, <2>2, <2>3, <2>4, <2>5 DEF Next, Stopped
<1> QED
  BY <1>1, <1>2, <1>3, <1>4, TypeCorrect, TurnsAlternate, FrameInHandAlways, PTL
  DEF Spec

-----------------------------------------------------------------------------
(* The functors queued at the end *)

EndKinds == {"Result", "Error"}
ClosingKinds == {"Transition"} \cup EndKinds

\* Only the join queues the transition and only the end of Run a result, and
\* what follows a transition in the queue is the result.
QueueInv ==
    /\ wpc \notin {"calibrate", "returned"} =>
           /\ extraction_widget = "shown"
           /\ \A i \in 1 .. Len(events) : events[i].kind \notin ClosingKinds
    /\ extraction_widget = "deleted" =>
           \A i \in 1 .. Len(events) : events[i].kind \in EndKinds
    /\ \A i, j \in 1 .. Len(events) :
           i < j /\ events[i].kind \in ClosingKinds => events[j].kind \in EndKinds

\* Indices of a queue a functor was posted to, or taken from.
LEMMA QueueIndices ==
    ASSUME events \in Seq(Events)
    PROVE  /\ \A e \in Events : Post(e) =>
                /\ Len(events') = Len(events) + 1
                /\ events'[Len(events')] = e
                /\ \A i \in 1 .. Len(events) : events'[i] = events[i]
           /\ \A k : Take(k) =>
                /\ Len(events') = Len(events) - 1
                /\ events[1].kind = k
                /\ \A i \in 1 .. Len(events') : events'[i] = events[i + 1]
BY DEF Post, Take

\* Before the join any other functor may be queued.
LEMMA PostBeforeJoin ==
    ASSUME events \in Seq(Events), QueueInv, wpc \notin {"calibrate", "returned"},
           NEW e \in Events, e.kind \notin ClosingKinds, Post(e),
           UNCHANGED extraction_widget
    PROVE  QueueInv'
<1>1. \A i \in 1 .. Len(events') : events'[i].kind \notin ClosingKinds
  BY QueueIndices DEF QueueInv
<1>2. extraction_widget' = "shown" BY DEF QueueInv
<1> QED BY <1>1, <1>2 DEF QueueInv

\* Taking a functor other than the transition, or none, keeps the order.
LEMMA TakeInOrder ==
    ASSUME events \in Seq(Events), QueueInv, NEW k, Take(k),
           UNCHANGED <<wpc, extraction_widget>>
    PROVE  QueueInv'
<1>1. /\ Len(events') = Len(events) - 1
      /\ \A i \in 1 .. Len(events') : events'[i] = events[i + 1]
      /\ Len(events) \in Nat /\ Len(events') \in Nat
  BY QueueIndices DEF Take
<1>2. \A i \in 1 .. Len(events') : i + 1 \in 1 .. Len(events)
  BY <1>1
<1>3. \A i, j \in 1 .. Len(events') :
          i < j /\ events'[i].kind \in ClosingKinds => events'[j].kind \in EndKinds
  <2> TAKE i, j \in 1 .. Len(events')
  <2>1. i + 1 \in 1 .. Len(events) /\ j + 1 \in 1 .. Len(events) /\ (i < j => i + 1 < j + 1)
    BY <1>2
  <2> QED BY <1>1, <2>1 DEF QueueInv
<1> QED BY <1>1, <1>2, <1>3 DEF QueueInv

LEMMA SameQueue ==
    ASSUME QueueInv, UNCHANGED <<events, extraction_widget>>,
           wpc' \in {"calibrate", "returned"} => wpc \in {"calibrate", "returned"},
           wpc \in {"calibrate", "returned"} => wpc' \in {"calibrate", "returned"}
    PROVE  QueueInv'
BY DEF QueueInv

LEMMA QueueStep == TypeOK /\ Joined /\ QueueInv /\ [Next]_vars => QueueInv'
<1> SUFFICES ASSUME TypeOK, Joined, QueueInv, [Next]_vars PROVE QueueInv' OBVIOUS
<1>0. events \in Seq(Events) BY DEF TypeOK
<1> USE <1>0
<1>1. CASE Draw
  <2>1. Event("SetLiveStreamImage", NoPoints) \in Events BY EventsType
  <2>2. Event("SetLiveStreamImage", NoPoints).kind \notin ClosingKinds
    BY DEF Event, ClosingKinds, EndKinds
  <2>3. wpc \notin {"calibrate", "returned"} /\ UNCHANGED extraction_widget
    BY <1>1 DEF Draw, dataVars, guiVars
  <2> QED BY <1>1, <2>1, <2>2, <2>3, PostBeforeJoin DEF Draw
<1>2. CASE Join
  <2> DEFINE e == Event("Transition", NoPoints)
  <2>1. e \in Events BY EventsType
  <2>2. Post(e) /\ wpc = "join" /\ wpc' = "calibrate" /\ UNCHANGED extraction_widget
    BY <1>2 DEF Join, dataVars, guiVars
  <2> HIDE DEF e
  <2>3. /\ Len(events') = Len(events) + 1
        /\ \A i \in 1 .. Len(events) : events'[i].kind \notin ClosingKinds
    BY <2>1, <2>2, QueueIndices DEF QueueInv
  <2>4. extraction_widget' = "shown"
    BY <2>2 DEF QueueInv
  <2>5. \A i, j \in 1 .. Len(events') : i < j => i \in 1 .. Len(events)
    BY <2>3
  <2> QED BY <2>2, <2>3, <2>4, <2>5 DEF QueueInv
<1>3. CASE Calibrate
  <2>1. PICK e \in Events : e.kind \in EndKinds /\ Post(e)
    <3>1. /\ Event("Result", NoPoints) \in Events
          /\ Event("Error", NoPoints) \in Events
      BY EventsType
    <3>2. /\ Event("Result", NoPoints).kind \in EndKinds
          /\ Event("Error", NoPoints).kind \in EndKinds
      BY DEF Event, EndKinds
    <3> QED BY <1>3, <3>1, <3>2 DEF Calibrate
  <2>2. wpc' = "returned" /\ UNCHANGED extraction_widget
    BY <1>3 DEF Calibrate, guiVars
  <2>3. /\ Len(events') = Len(events) + 1 /\ Len(events) \in Nat
        /\ events'[Len(events')].kind \in EndKinds
        /\ \A i \in 1 .. Len(events) : events'[i] = events[i]
    BY <2>1, QueueIndices
  <2>4. \A i \in 1 .. Len(events') : i \in 1 .. Len(events) \/ i = Len(events')
    BY <2>3
  <2>5. \A i, j \in 1 .. Len(events') : i < j => i \in 1 .. Len(events)
    BY <2>3
  <2> QED BY <2>2, <2>3, <2>4, <2>5 DEF QueueInv
<1>4. ASSUME Worker, ~Draw, ~Join, ~Calibrate PROVE QueueInv'
  <2>1. /\ UNCHANGED <<events, extraction_widget>>
        /\ wpc \notin {"calibrate", "returned"} /\ wpc' \notin {"calibrate", "returned"}
    BY <1>4 DEF Worker, Start, ReadFrame, LeaveLoop, CheckExtraction, CopyHandoff,
                ClearNewExtraction, SetExtract, WakeExtraction, dataVars, guiVars
  <2> QED BY <2>1, SameQueue
<1>5. CASE Extraction
  <2>1. wpc \notin {"calibrate", "returned"} /\ wpc' = wpc
    BY <1>5, ExtractionFrame DEF Joined
  <2>2. UNCHANGED extraction_widget
    BY <1>5 DEF Extraction, Begin, EstimateFirstPose, Test, Wait, Recheck, Extract,
           DecideBasic, DecideTimed, DecidePose, CalibrationThrows, Save,
           SuggestAfterSave, ResetAcquire, Publish, dataVars, guiVars
  <2>3. \/ UNCHANGED events
        \/ Post(Event("AddTimerWidget", NoPoints))
        \/ Post(Event("AddExtractionItem", currently_extracted_image_))
    BY <1>5 DEF Extraction, Begin, EstimateFirstPose, Test, Wait, Recheck, Extract,
           DecideBasic, DecideTimed, DecidePose, CalibrationThrows, Save,
           SuggestAfterSave, ResetAcquire, Publish
  <2>4. /\ Event("AddTimerWidget", NoPoints) \in Events
        /\ Event("AddExtractionItem", currently_extracted_image_) \in Events
    BY EventsType DEF TypeOK, HandoffType
  <2>5. \A p : /\ Event("AddTimerWidget", p).kind \notin ClosingKinds
               /\ Event("AddExtractionItem", p).kind \notin ClosingKinds
    BY DEF Event, ClosingKinds, EndKinds
  <2>6. CASE UNCHANGED events BY <2>1, <2>2, <2>6, SameQueue
  <2>7. CASE Post(Event("AddTimerWidget", NoPoints))
    BY <2>1, <2>2, <2>4, <2>5, <2>7, PostBeforeJoin
  <2>8. CASE Post(Event("AddExtractionItem", currently_extracted_image_))
    BY <2>1, <2>2, <2>4, <2>5, <2>8, PostBeforeJoin
  <2> QED BY <2>3, <2>6, <2>7, <2>8
<1>6. CASE Transition
  <2>1. Take("Transition") /\ extraction_widget' = "deleted" /\ UNCHANGED wpc
    BY <1>6 DEF Transition, threadVars
  <2>2. /\ Len(events') = Len(events) - 1 /\ Len(events) \in Nat \ {0}
        /\ events[1].kind = "Transition"
        /\ \A i \in 1 .. Len(events') : events'[i] = events[i + 1]
    BY <2>1, QueueIndices DEF Take
  <2>3. wpc \in {"calibrate", "returned"}
    BY <2>2 DEF QueueInv, ClosingKinds
  <2>4. \A i \in 1 .. Len(events') : events'[i].kind \in EndKinds
    <3> TAKE i \in 1 .. Len(events')
    <3>1. 1 \in 1 .. Len(events) /\ i + 1 \in 1 .. Len(events) /\ 1 < i + 1
      BY <2>2
    <3> QED BY <2>2, <3>1 DEF QueueInv, ClosingKinds
  <2> QED BY <2>1, <2>3, <2>4 DEF QueueInv
<1>7. ASSUME EventLoop, ~Transition PROVE QueueInv'
  <2>1. UNCHANGED wpc BY <1>7, RestFrame
  <2>2. UNCHANGED extraction_widget /\ \E k : Take(k)
    BY <1>7 DEF EventLoop, SetLiveStreamImage, AddExtractionItem, AddTimerWidget,
                EndCalibration
  <2> QED BY <2>1, <2>2, TakeInOrder
<1>8. CASE User \/ Stopped \/ UNCHANGED vars
  <2>1. UNCHANGED <<events, extraction_widget>>
    BY <1>8 DEF User, PressDone, PressCapture, PressOnGoneRunner, Stopped, vars,
                dataVars, guiVars
  <2> QED BY <1>8, <2>1, RestFrame, SameQueue
<1> QED BY <1>1, <1>2, <1>3, <1>4, <1>5, <1>6, <1>7, <1>8 DEF Next

\* When the extraction widget is deleted its users are: the extraction thread has
\* exited, the worker has left its loop, and no functor for the widget is queued.
THEOREM WidgetOutlives == Spec => []WidgetOutlivesUsers
<1>1. Init => QueueInv
  BY DEF Init, QueueInv
<1>2. TypeOK /\ Joined /\ QueueInv => WidgetOutlivesUsers
  <2>1. events \in Seq(Events) => DOMAIN events = 1 .. Len(events) OBVIOUS
  <2> QED BY <2>1 DEF TypeOK, Joined, QueueInv, WidgetOutlivesUsers, EndKinds
<1> QED BY <1>1, <1>2, QueueStep, TypeCorrect, JoinedAlways, PTL DEF Spec

-----------------------------------------------------------------------------
(* What the tracker is compared with: the suggested pose, or the pose the user
   held when the last image was saved *)

LEMMA NothingMatches == \A p : ~Match(NoPoints, p) /\ ~Match(p, NoPoints)
BY DEF Match, NoPoints

LEMMA TrackerFields ==
    ASSUME NEW t \in Trackers, NEW points \in Points
    PROVE  /\ Updated(t, points).stable = Match(points, t.last)
           /\ Updated(t, points).last = points
           /\ Updated(t, points).target = t.target
           /\ Targeting(t, points).target = points
           /\ Targeting(t, points).last = t.last
BY DEF Trackers, Updated, Targeting

-----------------------------------------------------------------------------
(* OnTimedDetection: a held pose is saved once *)

\* Since the last save some pass found no target or another pose.  What the last
\* pass found counts from its decision on.
Away ==
    LET found == seen \cup IF epc = "publish" THEN {currently_extracted_image_} ELSE {}
    IN  \E points \in found : ~Match(points, held)

\* As long as none has, the tracker still compares with the saved pose, and the
\* timer that runs is the one of the last save.
StillHeld ==
    /\ tracker.target = held
    /\ timer_running => tracker.last = NoPoints

HeldInv ==
    images # <<>> => Away \/ (epc # "save" /\ StillHeld)

\* The control points the extraction thread reaches in this mode.
HeldControl ==
    /\ wpc = "start" => epc = "unborn"
    /\ epc \notin {"reset", "suggest"}

LEMMA HeldControlStep ==
    ASSUME Mode = "OnTimedDetection", HeldControl, [Next]_vars
    PROVE  HeldControl'
<1> USE DEF HeldControl
<1>1. CASE Worker
  BY <1>1 DEF Worker, Start, ReadFrame, LeaveLoop, CheckExtraction, CopyHandoff,
              ClearNewExtraction, SetExtract, Draw, WakeExtraction, Join, Calibrate,
              extractionVars
<1>2. CASE Extraction
  <2>1. UNCHANGED wpc /\ epc # "unborn" /\ epc' \notin {"reset", "suggest"}
    BY <1>2 DEF Extraction, Begin, EstimateFirstPose, Test, Wait, Recheck, Extract,
                DecideBasic, DecideTimed, DecidePose, CalibrationThrows, Save,
                SuggestAfterSave, ResetAcquire, Publish
  <2> QED BY <2>1
<1>3. EventLoop \/ User \/ Stopped \/ UNCHANGED vars => UNCHANGED <<wpc, epc>>
  BY EventLoopFrame
  DEF User, PressDone, PressCapture, PressOnGoneRunner, Stopped, vars, threadVars,
      extractionVars
<1> QED BY <1>1, <1>2, <1>3 DEF Next

heldFrame == <<held, tracker, timer_running, images>>

LEMMA HeldUnchanged ==
    ASSUME HeldInv, UNCHANGED heldFrame, seen' = seen,
           epc' # "save", epc # "publish", epc' # "publish"
    PROVE  HeldInv'
BY DEF HeldInv, Away, StillHeld, heldFrame

\* The steps of the other threads.
LEMMA HeldByOthers ==
    ASSUME HeldInv, HeldNext, UNCHANGED <<epc, tracker, timer_running, images>>,
           UNCHANGED currently_extracted_image_
    PROVE  HeldInv'
<1>1. UNCHANGED <<held, seen>>
  BY DEF HeldNext
<1> QED BY <1>1 DEF HeldInv, Away, StillHeld

LEMMA HeldStep ==
    ASSUME Mode = "OnTimedDetection", TypeOK, HeldControl, HeldInv,
           [HeldNext]_heldVars
    PROVE  HeldInv'
<1> DEFINE points == currently_extracted_image_
<1>0. tracker \in Trackers /\ points \in Points /\ NoPoints \in Points
  BY PointsType DEF TypeOK, ExtractionType, HandoffType, Trackers
<1>1. CASE UNCHANGED heldVars
  BY <1>1 DEF heldVars, vars, HeldInv, Away, StillHeld, extractionVars, dataVars,
              handoffVars, calibrationVars
<1>2. CASE HeldNext /\ Worker
  <2>1. CASE Start
    <3>1. epc # "publish" /\ epc' \notin {"save", "publish"} /\ UNCHANGED images
      BY <2>1 DEF Start, HeldControl
    <3>2. UNCHANGED <<held, tracker, timer_running, seen>>
      BY <1>2, <2>1, <3>1 DEF Start, HeldNext
    <3> QED BY <2>1, <3>1, <3>2 DEF HeldInv, Away, StillHeld
  <2>2. Worker /\ ~Start =>
           UNCHANGED <<epc, tracker, timer_running, images, currently_extracted_image_>>
    BY DEF Worker, ReadFrame, LeaveLoop, CheckExtraction, CopyHandoff,
           ClearNewExtraction, SetExtract, Draw, WakeExtraction, Join, Calibrate,
           extractionVars, dataVars, handoffVars, calibrationVars
  <2> QED BY <1>2, <2>1, <2>2, HeldByOthers
<1>3. CASE HeldNext /\ (EventLoop \/ User \/ Stopped)
  <2>1. UNCHANGED <<epc, tracker, timer_running, images, currently_extracted_image_>>
    BY <1>3, EventLoopFrame
    DEF User, PressDone, PressCapture, PressOnGoneRunner, Stopped, vars,
        threadVars, extractionVars,
        calibrationVars, handoffVars, dataVars
  <2> QED BY <1>3, <2>1, HeldByOthers
<1>4. CASE HeldNext /\ (Begin \/ EstimateFirstPose \/ Test \/ Wait \/ Recheck \/ Extract)
  <2>1. /\ UNCHANGED <<tracker, timer_running, images>>
        /\ epc \notin {"publish", "save"}
        /\ epc' \notin {"publish", "save"}
    BY <1>4 DEF Begin, EstimateFirstPose, Test, Wait, Recheck, Extract, dataVars,
                calibrationVars
  <2>2. UNCHANGED <<held, seen>> BY <1>4, <2>1 DEF HeldNext
  <2> QED BY <2>1, <2>2, HeldUnchanged DEF heldFrame
<1>5. CASE HeldNext /\ DecideTimed
  <2> DEFINE t == Updated(IF points = NoPoints THEN Targeting(tracker, points)
                          ELSE tracker, points)
             away == \E p \in seen : ~Match(p, held)
  <2>1. /\ epc = "decide" /\ epc' \in {"publish", "save"}
        /\ UNCHANGED <<images, held, seen>> /\ points' = points
    BY <1>5 DEF DecideTimed, HeldNext, dataVars, calibrationVars, handoffVars
  <2>2. images # <<>> => away \/ StillHeld
    BY <2>1 DEF HeldInv, Away
  <2>3. CASE images = <<>>
    BY <2>1, <2>3 DEF HeldInv
  <2>4. CASE away
    BY <2>1, <2>4 DEF HeldInv, Away
  <2>5. CASE epc' = "publish" /\ ~Match(points, held)
    BY <2>1, <2>5 DEF HeldInv, Away
  <2>6. CASE StillHeld /\ points = NoPoints
    <3>1. Targeting(tracker, points) \in Trackers
      BY <1>0, TrackerType
    <3>2. ~t.stable
      BY <1>0, <2>6, <3>1, TrackerFields, NothingMatches
    <3> HIDE DEF t
    <3>3. epc' = "publish"
      BY <1>5, <3>2 DEF DecideTimed, t
    <3> QED BY <2>5, <2>6, <3>3, NothingMatches
  <2>7. CASE StillHeld /\ points # NoPoints
    <3>1. /\ t = Updated(tracker, points)
          /\ t.stable = Match(points, tracker.last)
          /\ t.last = points /\ t.target = held
      BY <1>0, <2>7, TrackerFields DEF StillHeld
    <3>2. t.stable => ~timer_running
      BY <2>7, <3>1, NothingMatches DEF StillHeld
    <3>3. TargetPointsReached(t) => t.stable
      BY DEF TargetPointsReached
    <3>4. t.stable /\ ~TargetPointsReached(t) => ~Match(points, held)
      BY <3>1 DEF TargetPointsReached
    <3>5. /\ epc' = "save" => timer_running /\ t.stable
          /\ (tracker' = t /\ ~timer_running') \/ t.stable
      BY <1>5, <3>3 DEF DecideTimed
    <3>6. CASE t.stable /\ ~TargetPointsReached(t)
      <4>1. epc' = "publish" BY <2>1, <3>2, <3>5, <3>6
      <4> QED BY <2>5, <3>4, <3>6, <4>1
    <3>7. CASE ~(t.stable /\ ~TargetPointsReached(t))
      <4>1. tracker' = t /\ ~timer_running'
        BY <1>5, <3>2, <3>3, <3>7 DEF DecideTimed
      <4>2. epc' # "save" BY <3>2, <3>5
      <4> QED BY <2>1, <3>1, <4>1, <4>2 DEF HeldInv, StillHeld
    <3> QED BY <3>6, <3>7
  <2> QED BY <2>2, <2>3, <2>4, <2>6, <2>7
<1>6. CASE HeldNext /\ Save
  <2>1. epc' = "publish" /\ tracker' = Updated(tracker, NoPoints)
    BY <1>6 DEF Save
  <2>4. images' # images
    <3>1. images \in Seq(Points) BY DEF TypeOK, CalibrationType
    <3>2. images' = Append(images, points) BY <1>6 DEF Save
    <3>3. Len(images') = Len(images) + 1 /\ Len(images) \in Nat
      BY <1>0, <3>1, <3>2
    <3> QED BY <3>3
  <2>2. held' = tracker.target BY <1>6, <2>4 DEF HeldNext
  <2>3. tracker'.target = held' /\ tracker'.last = NoPoints
    BY <1>0, <2>1, <2>2, TrackerFields
  <2> QED BY <2>1, <2>3 DEF HeldInv, StillHeld
<1>7. CASE HeldNext /\ Publish
  <2>1. /\ epc = "publish" /\ epc' = "head" /\ points' = points
        /\ UNCHANGED <<tracker, timer_running, images>>
    BY <1>7 DEF Publish, dataVars, handoffVars, calibrationVars
  <2>2. held' = held /\ seen' = seen \cup {points}
    BY <1>7, <2>1 DEF HeldNext
  <2> QED BY <2>1, <2>2 DEF HeldInv, Away, StillHeld
<1>8. ~DecideBasic /\ ~DecidePose /\ ~SuggestAfterSave /\ ~ResetAcquire
      /\ ~CalibrationThrows
  BY DEF DecideBasic, DecidePose, SuggestAfterSave, ResetAcquire, CalibrationThrows,
         HeldControl
<1> QED
  BY <1>1, <1>2, <1>3, <1>4, <1>5, <1>6, <1>7, <1>8 DEF HeldNext, Next, Extraction

\* A held target is saved once, for every tolerance and every set of poses.
THEOREM HeldOnce == Mode = "OnTimedDetection" => (HeldSpec => HeldPoseSavedOnce)
<1> SUFFICES ASSUME Mode = "OnTimedDetection" PROVE HeldSpec => HeldPoseSavedOnce
  OBVIOUS
<1>1. HeldInit => Init /\ HeldControl /\ HeldInv
  BY DEF HeldInit, Init, HeldControl, HeldInv
<1>2. [HeldNext]_heldVars => [Next]_vars
  BY DEF HeldNext, heldVars
<1>3. HeldSpec => Spec
  BY <1>1, <1>2, PTL DEF HeldSpec, Spec
<1>4. HeldControl /\ [Next]_vars => HeldControl'
  BY HeldControlStep
<1>5. TypeOK /\ HeldControl /\ HeldInv /\ [HeldNext]_heldVars => HeldInv'
  BY HeldStep
<1>6. HeldInv /\ [HeldNext]_heldVars =>
          [(images' # images /\ images # <<>>)
               => \E points \in seen : ~Match(points, held)]_heldVars
  <2> SUFFICES ASSUME HeldInv, HeldNext, images' # images, images # <<>>
               PROVE  \E points \in seen : ~Match(points, held)
    OBVIOUS
  <2>1. epc = "save"
    <3>1. Worker => UNCHANGED images
      BY DEF Worker, Start, ReadFrame, LeaveLoop, CheckExtraction, CopyHandoff,
             ClearNewExtraction, SetExtract, Draw, WakeExtraction, Join, Calibrate,
             dataVars, calibrationVars
    <3>2. EventLoop \/ User \/ Stopped => UNCHANGED images
      BY EventLoopFrame
      DEF User, PressDone, PressCapture, PressOnGoneRunner, Stopped, vars,
          threadVars, dataVars,
          calibrationVars
    <3>3. Extraction => epc = "save" \/ UNCHANGED images
      BY DEF Extraction, Begin, EstimateFirstPose, Test, Wait, Recheck, Extract,
             DecideBasic, DecideTimed, DecidePose, CalibrationThrows, Save,
             SuggestAfterSave, ResetAcquire, Publish, dataVars, calibrationVars
    <3> QED BY <3>1, <3>2, <3>3 DEF HeldNext, Next
  <2> QED BY <2>1 DEF HeldInv, Away
<1> QED
  BY <1>1, <1>2, <1>3, <1>4, <1>5, <1>6, TypeCorrect, PTL
  DEF HeldSpec, HeldPoseSavedOnce

-----------------------------------------------------------------------------
(* OnSuggestedPose: detections are judged against the pose drawn on their frame *)

\* The thread starts in its init phase, and a save leaves no pixmap behind.
FirstInitPhase ==
    /\ wpc = "start" => epc = "unborn"
    /\ epc \in {"unborn", "begin", "estimate"} => in_init_phase
    /\ epc = "suggest" => current_pixmap_ = {}

\* Out of the init phase a frame at hand was handed over with the pose that is
\* still the suggested one: a new pose is only suggested after a save.
DrawnIsSuggested ==
    ~in_init_phase =>
        /\ tracker.target = current_target_points_
        /\ current_pixmap_ # {} \/ epc \in {"decide", "save"} =>
               current_draw_target_points_ = current_target_points_
        /\ epc = "save" /\ ~acquire_ =>
               Match(currently_extracted_image_, current_target_points_)

LEMMA FirstInitPhaseStep ==
    ASSUME TypeOK, Turns, FirstInitPhase, [Next]_vars
    PROVE  FirstInitPhase'
<1> USE DEF FirstInitPhase
<1>1. CASE CopyHandoff
  BY <1>1 DEF CopyHandoff, Turns, Closing, PassPcs, extractionVars
<1>2. CASE Worker /\ ~CopyHandoff
  BY <1>2 DEF Worker, Start, ReadFrame, LeaveLoop, CheckExtraction,
              ClearNewExtraction, SetExtract, Draw, WakeExtraction, Join, Calibrate,
              extractionVars, dataVars, handoffVars
<1>3. CASE Save
  <2>1. current_pixmap_' = {} /\ epc = "save" /\ epc' \in {"reset", "publish", "suggest"}
    BY <1>3, ModeAssumption DEF Save, Modes
  <2>2. UNCHANGED wpc BY <1>3 DEF Save
  <2> QED BY <2>1, <2>2
<1>4. CASE CalibrationThrows
  BY <1>4 DEF CalibrationThrows, extractionVars, handoffVars
<1>5. CASE Extraction /\ ~Save /\ ~CalibrationThrows
  <2>1. /\ UNCHANGED wpc /\ epc # "unborn"
        /\ epc' \notin {"unborn", "begin", "suggest"}
        /\ epc' = "estimate" => epc = "begin" /\ UNCHANGED in_init_phase
    BY <1>5 DEF Extraction, Begin, EstimateFirstPose, Test, Wait, Recheck, Extract,
                DecideBasic, DecideTimed, DecidePose, SuggestAfterSave,
                ResetAcquire, Publish
  <2> QED BY <2>1
<1>6. EventLoop \/ User \/ Stopped \/ UNCHANGED vars
      => UNCHANGED <<wpc, epc, in_init_phase, current_pixmap_>>
  BY EventLoopFrame
  DEF User, PressDone, PressCapture, PressOnGoneRunner, Stopped, vars, threadVars,
      extractionVars, handoffVars, dataVars
<1> QED BY <1>1, <1>2, <1>3, <1>4, <1>5, <1>6 DEF Next

LEMMA DrawnStep ==
    ASSUME Mode = "OnSuggestedPose", TypeOK, FirstInitPhase, DrawnIsSuggested,
           [Next]_vars
    PROVE  DrawnIsSuggested'
<1>0. /\ tracker \in Trackers /\ NoPoints \in Points /\ acquire_ \in BOOLEAN
      /\ currently_extracted_image_ \in Points
  BY PointsType DEF TypeOK, ExtractionType, HandoffType, SignalType, Trackers
<1> USE DEF DrawnIsSuggested
<1>1. CASE CopyHandoff
  BY <1>1 DEF CopyHandoff, extractionVars, signalVars
<1>2. CASE Worker /\ ~CopyHandoff
  BY <1>2 DEF Worker, Start, ReadFrame, LeaveLoop, CheckExtraction,
              ClearNewExtraction, SetExtract, Draw, WakeExtraction, Join, Calibrate,
              extractionVars, dataVars, handoffVars, frameVars, drawVars, signalVars,
              FirstInitPhase
<1>3. CASE EventLoop \/ User \/ Stopped \/ UNCHANGED vars
  <2>1. /\ UNCHANGED <<epc, tracker, in_init_phase, current_target_points_,
                       current_pixmap_, current_draw_target_points_,
                       currently_extracted_image_>>
        /\ ~acquire_' => ~acquire_
    BY <1>0, <1>3, EventLoopFrame
    DEF User, PressDone, PressCapture, PressOnGoneRunner, Stopped, vars, threadVars,
        extractionVars, frameVars, drawVars, handoffVars, signalVars, dataVars
  <2> QED BY <2>1
<1>4. CASE Begin \/ EstimateFirstPose
  BY <1>4 DEF Begin, EstimateFirstPose, FirstInitPhase
<1>5. CASE Test \/ Wait \/ Recheck \/ DecideBasic \/ ResetAcquire \/ Publish
  BY <1>5 DEF Test, Wait, Recheck, DecideBasic, ResetAcquire, Publish,
              dataVars, handoffVars, frameVars, drawVars, signalVars
<1>6. CASE Extract
  <2>1. /\ epc = "extract" /\ epc' \in {"extract", "decide"}
        /\ current_pixmap_ = {} => epc' = "extract"
        /\ UNCHANGED <<tracker, in_init_phase, current_target_points_,
                       current_pixmap_, current_draw_target_points_>>
    BY <1>6 DEF Extract, frameVars, drawVars
  <2> QED BY <2>1
<1>7. CASE CalibrationThrows
  BY <1>7 DEF CalibrationThrows, extractionVars, frameVars, drawVars, signalVars,
              handoffVars
<1>8. CASE DecidePose
  <2> DEFINE t == Updated(tracker, currently_extracted_image_)
  <2>1. /\ t \in Trackers /\ t.target = tracker.target
        /\ t.last = currently_extracted_image_
    BY <1>0, TrackerType, TrackerFields
  <2>2. SUFFICES ASSUME ~in_init_phase PROVE DrawnIsSuggested'
    BY <1>8 DEF DecidePose
  <2>3. /\ epc = "decide" /\ tracker' = t
        /\ UNCHANGED <<in_init_phase, current_target_points_, current_pixmap_,
                       current_draw_target_points_, currently_extracted_image_,
                       acquire_>>
    BY <1>8, <2>2 DEF DecidePose, frameVars, drawVars, signalVars
  <2>4. epc' = "save" /\ ~acquire_ => TargetPointsReached(tracker')
    BY <1>8 DEF DecidePose
  <2> HIDE DEF t
  <2>5. epc' = "save" /\ ~acquire_ =>
            Match(currently_extracted_image_, current_target_points_)
    BY <2>1, <2>2, <2>3, <2>4 DEF TargetPointsReached
  <2> QED BY <2>1, <2>2, <2>3, <2>5
<1>9. CASE Save
  <2>1. /\ current_pixmap_' = {} /\ epc' = "suggest"
        /\ UNCHANGED <<tracker, in_init_phase, current_target_points_>>
    BY <1>9 DEF Save
  <2> QED BY <2>1
<1>10. CASE SuggestAfterSave
  <2>1. /\ epc = "suggest" /\ epc' = "reset" /\ current_pixmap_' = current_pixmap_
        /\ current_pixmap_ = {}
    BY <1>10 DEF SuggestAfterSave, FirstInitPhase
  <2>2. CASE in_init_phase'
    BY <2>2
  <2>3. CASE ~in_init_phase'
    <3>1. Suggest /\ tracker' = Targeting(tracker, current_target_points_')
      BY <1>10, <2>3 DEF SuggestAfterSave
    <3>2. current_target_points_' \in Points
      BY <3>1, PointsType DEF Suggest
    <3>3. tracker'.target = current_target_points_'
      BY <1>0, <3>1, <3>2, TrackerFields
    <3> QED BY <2>1, <3>3
  <2> QED BY <2>2, <2>3
<1>11. ~DecideTimed
  BY DEF DecideTimed
<1> QED BY <1>1, <1>2, <1>3, <1>4, <1>5, <1>6, <1>7, <1>8, <1>9, <1>10, <1>11
        DEF Next, Extraction

\* Whatever the camera, the poses and the presses: out of the init phase a
\* detection is judged against the pose drawn on its own frame, and is in that
\* pose when it is saved without a press.
THEOREM SavesShownPose == Spec => []SavesPoseOnDisplay
<1>1. CASE Mode # "OnSuggestedPose"
  <2>1. SavesPoseOnDisplay BY <1>1 DEF SavesPoseOnDisplay
  <2> QED BY <2>1, PTL
<1>2. CASE Mode = "OnSuggestedPose"
  <2>1. Init => FirstInitPhase /\ DrawnIsSuggested
    BY DEF Init, FirstInitPhase, DrawnIsSuggested
  <2>2. TypeOK /\ Turns /\ FirstInitPhase /\ [Next]_vars => FirstInitPhase'
    BY FirstInitPhaseStep
  <2>3. TypeOK /\ FirstInitPhase /\ DrawnIsSuggested /\ [Next]_vars => DrawnIsSuggested'
    BY <1>2, DrawnStep
  <2>4. DrawnIsSuggested => SavesPoseOnDisplay
    BY DEF DrawnIsSuggested, SavesPoseOnDisplay
  <2> QED BY <2>1, <2>2, <2>3, <2>4, TypeCorrect, TurnsAlternate, PTL DEF Spec
<1> QED BY <1>1, <1>2

-----------------------------------------------------------------------------
(* Every save is displayed: the side bar and the queue in front of it *)

IsItem(e) == e.kind = "AddExtractionItem"

LEMMA AmongFinite ==
    ASSUME NEW q, NEW n \in Nat
    PROVE  IsFiniteSet(ItemsAmong(q, n)) /\ Cardinality(ItemsAmong(q, n)) \in Nat
<1>1. IsFiniteSet(1 .. n) BY FS_Interval
<1>2. ItemsAmong(q, n) \subseteq 1 .. n BY DEF ItemsAmong
<1> QED BY <1>1, <1>2, FS_Subset, FS_CardinalityType

LEMMA AmongNone == \A q : Cardinality(ItemsAmong(q, 0)) = 0
<1> SUFFICES ASSUME NEW q PROVE Cardinality(ItemsAmong(q, 0)) = 0 OBVIOUS
<1>1. ItemsAmong(q, 0) = {} BY DEF ItemsAmong
<1> QED BY <1>1, FS_EmptySet

\* One functor more, at the end.
LEMMA AmongNext ==
    ASSUME NEW q, NEW n \in Nat
    PROVE  Cardinality(ItemsAmong(q, n + 1)) =
               Cardinality(ItemsAmong(q, n)) + (IF IsItem(q[n + 1]) THEN 1 ELSE 0)
<1>1. IsFiniteSet(ItemsAmong(q, n)) /\ Cardinality(ItemsAmong(q, n)) \in Nat
  BY AmongFinite
<1>2. n + 1 \notin ItemsAmong(q, n) BY DEF ItemsAmong
<1>3. CASE IsItem(q[n + 1])
  <2>1. ItemsAmong(q, n + 1) = ItemsAmong(q, n) \cup {n + 1}
    BY <1>3 DEF ItemsAmong, IsItem
  <2> QED BY <1>1, <1>2, <1>3, <2>1, FS_AddElement
<1>4. CASE ~IsItem(q[n + 1])
  <2>1. ItemsAmong(q, n + 1) = ItemsAmong(q, n)
    BY <1>4 DEF ItemsAmong, IsItem
  <2> QED BY <1>1, <1>4, <2>1
<1> QED BY <1>3, <1>4

\* One functor more, in front.
LEMMA AmongRest ==
    ASSUME NEW q, NEW r, NEW n \in Nat, \A i \in 1 .. n : r[i] = q[i + 1]
    PROVE  Cardinality(ItemsAmong(q, n + 1)) =
               Cardinality(ItemsAmong(r, n)) + (IF IsItem(q[1]) THEN 1 ELSE 0)
<1> DEFINE R == ItemsAmong(r, n)
           T == ItemsAmong(q, n + 1) \ {1}
           f == [j \in R |-> j + 1]
<1>1. IsFiniteSet(R) /\ Cardinality(R) \in Nat BY AmongFinite
<1>2. \A j \in R : j \in 1 .. n /\ j + 1 \in T BY DEF ItemsAmong
<1>3. \A k \in T : k - 1 \in R /\ k = (k - 1) + 1
  <2> TAKE k \in T
  <2>1. k \in 2 .. n + 1 /\ q[k].kind = "AddExtractionItem" BY DEF ItemsAmong
  <2>2. k - 1 \in 1 .. n /\ (k - 1) + 1 = k BY <2>1
  <2>3. r[k - 1] = q[(k - 1) + 1] BY <2>2
  <2>4. r[k - 1].kind = "AddExtractionItem" BY <2>1, <2>2, <2>3
  <2> QED BY <2>2, <2>4 DEF ItemsAmong
<1>4. f \in [R -> T] BY <1>2
<1>5. \A j, k \in R : f[j] = f[k] => j = k BY <1>2
<1>6. \A k \in T : \E j \in R : f[j] = k BY <1>3
<1> HIDE DEF R, T, f
<1>7. f \in Bijection(R, T) BY <1>4, <1>5, <1>6, Fun_IsBij
<1>8. ExistsBijection(R, T) BY <1>7, Fun_ExistsBij
<1>9. IsFiniteSet(T) /\ Cardinality(T) = Cardinality(R) BY <1>1, <1>8, FS_Bijection
<1>10. CASE IsItem(q[1])
  <2>1. ItemsAmong(q, n + 1) = T \cup {1} BY <1>10 DEF ItemsAmong, IsItem, T
  <2>2. 1 \notin T BY DEF T
  <2> QED BY <1>1, <1>9, <1>10, <2>1, <2>2, FS_AddElement DEF R
<1>11. CASE ~IsItem(q[1])
  <2>1. ItemsAmong(q, n + 1) = T BY <1>11 DEF ItemsAmong, IsItem, T
  <2> QED BY <1>1, <1>9, <1>11, <2>1 DEF R
<1> QED BY <1>10, <1>11

\* The queue q, without its first functor, starts with n functors of r.
RestIs(q, r, n) == n \in Nat /\ \A j \in 1 .. n : r[j] = q[j + 1]

LEMMA AmongRests ==
    ASSUME NEW q, NEW r, NEW n, RestIs(q, r, n), NEW d, d = IF IsItem(q[1]) THEN 1 ELSE 0
    PROVE  \A i \in 0 .. n :
               Cardinality(ItemsAmong(q, i + 1)) = Cardinality(ItemsAmong(r, i)) + d
<1> SUFFICES ASSUME NEW i \in 0 .. n
             PROVE  Cardinality(ItemsAmong(q, i + 1)) = Cardinality(ItemsAmong(r, i)) + d
  OBVIOUS
<1>1. i \in Nat /\ \A j \in 1 .. i : r[j] = q[j + 1] BY DEF RestIs
<1> QED BY <1>1, AmongRest

LEMMA AmongMore ==
    ASSUME NEW q, NEW m \in Nat, NEW n \in Nat, m =< n
    PROVE  Cardinality(ItemsAmong(q, m)) =< Cardinality(ItemsAmong(q, n))
<1>1. ItemsAmong(q, m) \subseteq ItemsAmong(q, n) BY DEF ItemsAmong
<1> QED BY <1>1, AmongFinite, FS_Subset

LEMMA AmongSame ==
    ASSUME NEW q, NEW r, NEW n \in Nat, \A i \in 1 .. n : r[i] = q[i]
    PROVE  ItemsAmong(r, n) = ItemsAmong(q, n)
BY DEF ItemsAmong


\* A queue q brings the images im that are not in the side bar it yet, in order.
Displays(q, it, im) ==
    /\ Len(it) + Cardinality(ItemsAmong(q, Len(q))) = Len(im)
    /\ \A k \in DOMAIN it : it[k] = im[k]
    /\ \A j \in ItemsAmong(q, Len(q)) :
           q[j].arg = im[Len(it) + Cardinality(ItemsAmong(q, j))]

\* The place of a queued item among the images is one of them.
LEMMA PlaceOf ==
    ASSUME NEW q \in Seq(Events), NEW it \in Seq(Points), NEW im \in Seq(Points),
           Displays(q, it, im), NEW j \in ItemsAmong(q, Len(q))
    PROVE  /\ j \in 1 .. Len(q)
           /\ Len(it) + Cardinality(ItemsAmong(q, j)) \in Len(it) + 1 .. Len(im)
<1>1. j \in 1 .. Len(q) /\ IsItem(q[j]) BY DEF ItemsAmong, IsItem
<1>2. j \in Nat /\ Len(q) \in Nat /\ j =< Len(q) /\ j - 1 \in Nat /\ (j - 1) + 1 = j BY <1>1
<1>3. Cardinality(ItemsAmong(q, j)) = Cardinality(ItemsAmong(q, j - 1)) + 1
  BY <1>1, <1>2, AmongNext
<1>4. Cardinality(ItemsAmong(q, j)) =< Cardinality(ItemsAmong(q, Len(q)))
  BY <1>2, AmongMore
<1>5. /\ Cardinality(ItemsAmong(q, j - 1)) \in Nat
      /\ Cardinality(ItemsAmong(q, Len(q))) \in Nat
  BY <1>2, AmongFinite
<1>6. Len(it) + Cardinality(ItemsAmong(q, Len(q))) = Len(im) BY DEF Displays
<1>7. Len(it) \in Nat OBVIOUS
<1> QED BY <1>1, <1>3, <1>4, <1>5, <1>6, <1>7

\* A functor of another kind is queued.
LEMMA DisplaysPost ==
    ASSUME NEW q \in Seq(Events), NEW it \in Seq(Points), NEW im \in Seq(Points),
           Displays(q, it, im), NEW e \in Events, ~IsItem(e),
           NEW r, r = Append(q, e)
    PROVE  Displays(r, it, im)
<1>1. /\ Len(r) = Len(q) + 1 /\ r[Len(q) + 1] = e /\ Len(q) \in Nat
      /\ \A i \in 1 .. Len(q) : r[i] = q[i]
  OBVIOUS
<1>2. \A n \in 0 .. Len(q) : ItemsAmong(r, n) = ItemsAmong(q, n)
  <2> TAKE n \in 0 .. Len(q)
  <2>1. n \in Nat /\ \A i \in 1 .. n : r[i] = q[i] BY <1>1
  <2> QED BY <2>1, AmongSame
<1>3. ItemsAmong(r, Len(r)) = ItemsAmong(q, Len(q))
  BY <1>1 DEF ItemsAmong, IsItem
<1>4. \A j \in ItemsAmong(q, Len(q)) : j \in 0 .. Len(q) /\ j \in 1 .. Len(q)
  BY <1>1 DEF ItemsAmong
<1> QED BY <1>1, <1>2, <1>3, <1>4 DEF Displays

\* An image is saved and queued for display.
LEMMA DisplaysSave ==
    ASSUME NEW q \in Seq(Events), NEW it \in Seq(Points), NEW im \in Seq(Points),
           Displays(q, it, im), NEW p \in Points, NEW e \in Events,
           e = Event("AddExtractionItem", p), NEW r, r = Append(q, e),
           NEW more, more = Append(im, p)
    PROVE  Displays(r, it, more)
<1>1. /\ Len(r) = Len(q) + 1 /\ r[Len(q) + 1] = e /\ Len(q) \in Nat
      /\ \A i \in 1 .. Len(q) : r[i] = q[i]
  OBVIOUS
<1>2. IsItem(e) /\ e.arg = p BY DEF IsItem, Event
<1>3. /\ Len(more) = Len(im) + 1 /\ more[Len(im) + 1] = p
      /\ \A k \in 1 .. Len(im) : more[k] = im[k]
  OBVIOUS
<1>4. \A n \in 0 .. Len(q) : ItemsAmong(r, n) = ItemsAmong(q, n)
  <2> TAKE n \in 0 .. Len(q)
  <2>1. n \in Nat /\ \A i \in 1 .. n : r[i] = q[i] BY <1>1
  <2> QED BY <2>1, AmongSame
<1>5. Cardinality(ItemsAmong(r, Len(r))) = Cardinality(ItemsAmong(q, Len(q))) + 1
  <2>1. Cardinality(ItemsAmong(r, Len(q) + 1)) = Cardinality(ItemsAmong(r, Len(q))) + 1
    BY <1>1, <1>2, AmongNext
  <2>2. Len(q) \in 0 .. Len(q) BY <1>1
  <2>3. ItemsAmong(r, Len(q)) = ItemsAmong(q, Len(q)) BY <1>4, <2>2
  <2>4. Len(r) = Len(q) + 1 BY <1>1
  <2> QED BY <2>1, <2>3, <2>4
<1>6. /\ Cardinality(ItemsAmong(q, Len(q))) \in Nat
      /\ Len(it) + Cardinality(ItemsAmong(q, Len(q))) = Len(im)
      /\ Len(im) \in Nat /\ Len(it) \in Nat
  BY <1>1, AmongFinite DEF Displays
<1>7. Len(it) + Cardinality(ItemsAmong(r, Len(r))) = Len(more)
  <2> DEFINE c == Cardinality(ItemsAmong(q, Len(q)))
             d == Cardinality(ItemsAmong(r, Len(r)))
             i == Len(it)
             m == Len(im)
  <2>1. c \in Nat /\ i + c = m /\ m \in Nat /\ i \in Nat /\ d = c + 1
    BY <1>5, <1>6
  <2>2. Len(more) = m + 1 BY <1>3
  <2> HIDE DEF c, d, i, m
  <2>3. i + d = m + 1 BY <2>1
  <2> QED BY <2>2, <2>3 DEF d, i
<1>8. ASSUME NEW k \in DOMAIN it PROVE it[k] = more[k]
  <2>1. k \in 1 .. Len(im) BY <1>6
  <2> QED BY <1>3, <2>1 DEF Displays
<1>9. ASSUME NEW j \in ItemsAmong(r, Len(r))
      PROVE  r[j].arg = more[Len(it) + Cardinality(ItemsAmong(r, j))]
  <2>1. CASE j = Len(q) + 1
    BY <1>1, <1>2, <1>3, <1>7, <2>1
  <2>2. CASE j # Len(q) + 1
    <3>1. j \in ItemsAmong(q, Len(q)) /\ j \in 1 .. Len(q)
      BY <1>1, <2>2 DEF ItemsAmong
    <3>2. Len(it) + Cardinality(ItemsAmong(q, j)) \in 1 .. Len(im)
      BY <1>6, <3>1, PlaceOf
    <3>3. q[j].arg = im[Len(it) + Cardinality(ItemsAmong(q, j))]
      BY <3>1 DEF Displays
    <3> QED BY <1>1, <1>3, <1>4, <3>1, <3>2, <3>3
  <2> QED BY <2>1, <2>2
<1> QED BY <1>7, <1>8, <1>9 DEF Displays

\* A functor is taken: the side bar gets its image, if it has one.
LEMMA DisplaysTake ==
    ASSUME NEW q \in Seq(Events), NEW it \in Seq(Points), NEW im \in Seq(Points),
           Displays(q, it, im), q # <<>>, NEW r, r = Tail(q), NEW more,
           more = IF IsItem(q[1]) THEN Append(it, q[1].arg) ELSE it
    PROVE  Displays(r, more, im)
<1> DEFINE n == Len(r)
           d == IF IsItem(q[1]) THEN 1 ELSE 0
<1>1. /\ n \in Nat /\ Len(q) = n + 1 /\ \A i \in 1 .. n : r[i] = q[i + 1]
      /\ Len(it) \in Nat /\ Len(im) \in Nat /\ d \in {0, 1}
  OBVIOUS
<1>2. q[1].arg \in Points
  BY <1>1, EventArgType
<1>3. /\ Len(more) = Len(it) + d /\ Len(more) \in Nat
      /\ DOMAIN more = 1 .. Len(more)
      /\ \A k \in 1 .. Len(it) : more[k] = it[k]
      /\ d = 1 => more[Len(it) + 1] = q[1].arg
  BY <1>2
<1>4. \A i \in 0 .. n :
          Cardinality(ItemsAmong(q, i + 1)) = Cardinality(ItemsAmong(r, i)) + d
  <2>1. d = IF IsItem(q[1]) THEN 1 ELSE 0 OBVIOUS
  <2>2. RestIs(q, r, n) BY <1>1 DEF RestIs
  <2> HIDE DEF n, d
  <2> QED BY <2>1, <2>2, AmongRests
<1> HIDE DEF n, d
<1>5. /\ Cardinality(ItemsAmong(r, n)) \in Nat
      /\ Cardinality(ItemsAmong(q, n + 1)) = Cardinality(ItemsAmong(r, n)) + d
      /\ Len(it) + Cardinality(ItemsAmong(q, n + 1)) = Len(im)
  <2>1. n \in Nat /\ n \in 0 .. n /\ Len(q) = n + 1 BY <1>1
  <2>2. Cardinality(ItemsAmong(r, n)) \in Nat BY <2>1, AmongFinite
  <2>3. Cardinality(ItemsAmong(q, n + 1)) = Cardinality(ItemsAmong(r, n)) + d BY <1>4, <2>1
  <2>4. Len(it) + Cardinality(ItemsAmong(q, n + 1)) = Len(im) BY <2>1 DEF Displays
  <2> QED BY <2>2, <2>3, <2>4
<1>6. Len(more) + Cardinality(ItemsAmong(r, n)) = Len(im)
  BY <1>1, <1>3, <1>5
<1>7. ASSUME NEW k \in DOMAIN more PROVE more[k] = im[k]
  <2>1. CASE k \in 1 .. Len(it)
    BY <1>3, <2>1 DEF Displays
  <2>2. CASE k \notin 1 .. Len(it)
    <3>1. k = Len(it) + 1 /\ d = 1 BY <1>1, <1>3, <2>2
    <3>2. IsItem(q[1]) /\ 1 \in ItemsAmong(q, Len(q))
      BY <1>1, <3>1 DEF d, ItemsAmong, IsItem
    <3>3. Cardinality(ItemsAmong(q, 1)) = 1
      <4>1. Cardinality(ItemsAmong(q, 0 + 1)) = Cardinality(ItemsAmong(q, 0)) + 1
        BY <3>2, AmongNext
      <4>2. Cardinality(ItemsAmong(q, 0)) = 0 BY AmongNone
      <4> QED BY <4>1, <4>2
    <3>4. q[1].arg = im[Len(it) + 1] BY <3>2, <3>3 DEF Displays
    <3> QED BY <1>3, <3>1, <3>4
  <2> QED BY <2>1, <2>2
<1>8. ASSUME NEW j \in ItemsAmong(r, n)
      PROVE  r[j].arg = im[Len(more) + Cardinality(ItemsAmong(r, j))]
  <2>1. j \in 1 .. n /\ IsItem(r[j]) BY DEF ItemsAmong, IsItem
  <2>2. j + 1 \in ItemsAmong(q, Len(q)) /\ r[j] = q[j + 1]
    <3>1. r[j] = q[j + 1] /\ j + 1 \in 1 .. Len(q) BY <1>1, <2>1
    <3> QED BY <2>1, <3>1 DEF ItemsAmong, IsItem
  <2>3. Cardinality(ItemsAmong(q, j + 1)) = Cardinality(ItemsAmong(r, j)) + d
    BY <1>1, <1>4, <2>1
  <2>4. Cardinality(ItemsAmong(r, j)) \in Nat
    <3>1. j \in Nat BY <1>1, <2>1
    <3> QED BY <3>1, AmongFinite
  <2>5. Len(it) + Cardinality(ItemsAmong(q, j + 1)) = Len(more) + Cardinality(ItemsAmong(r, j))
    BY <1>1, <1>3, <2>3, <2>4
  <2> QED BY <2>2, <2>5 DEF Displays
<1> QED BY <1>6, <1>7, <1>8 DEF Displays, n


OtherKinds == {"AddTimerWidget", "Transition", "Result", "Error"}

shownVars == <<items, images, image_widget_>>

\* What a step does to the queue.
LEMMA QueueMoves ==
    ASSUME TypeOK, [Next]_vars
    PROVE  \/ Save
           \/ Draw /\ UNCHANGED shownVars
           \/ \E e \in Events : e.kind \in OtherKinds /\ Post(e) /\ UNCHANGED shownVars
           \/ EventLoop
           \/ UNCHANGED <<events, shownVars>>
<1> USE DEF shownVars, guiVars, calibrationVars, dataVars
<1>1. \A k \in OtherKinds : Event(k, NoPoints) \in Events /\ Event(k, NoPoints).kind = k
  BY EventsType DEF OtherKinds, Event
<1>2. CASE Begin
  <2>1. Mode = "OnTimedDetection" => Post(Event("AddTimerWidget", NoPoints))
    BY <1>2 DEF Begin
  <2>2. Mode # "OnTimedDetection" => UNCHANGED events
    BY <1>2 DEF Begin
  <2>3. UNCHANGED shownVars BY <1>2 DEF Begin
  <2> QED BY <1>1, <2>1, <2>2, <2>3 DEF OtherKinds
<1>3. CASE Join
  <2>1. Post(Event("Transition", NoPoints)) /\ UNCHANGED shownVars
    BY <1>3 DEF Join
  <2> QED BY <1>1, <2>1 DEF OtherKinds
<1>4. CASE Calibrate
  <2>1. \/ Post(Event("Result", NoPoints))
        \/ Post(Event("Error", NoPoints))
    BY <1>4 DEF Calibrate
  <2>2. UNCHANGED shownVars BY <1>4 DEF Calibrate
  <2> QED BY <1>1, <2>1, <2>2 DEF OtherKinds
<1>5. CASE Draw BY <1>5 DEF Draw
<1>6. CASE Worker /\ ~Join /\ ~Calibrate /\ ~Draw
  <2>1. UNCHANGED <<events, shownVars>>
    BY <1>6 DEF Worker, Start, ReadFrame, LeaveLoop, CheckExtraction, CopyHandoff,
                ClearNewExtraction, SetExtract, WakeExtraction
  <2> QED BY <2>1
<1>7. CASE Extraction /\ ~Begin /\ ~Save
  <2>1. UNCHANGED <<events, shownVars>>
    BY <1>7 DEF Extraction, EstimateFirstPose, Test, Wait, Recheck, Extract,
                DecideBasic, DecideTimed, DecidePose, CalibrationThrows,
                SuggestAfterSave, ResetAcquire, Publish
  <2> QED BY <2>1
<1>8. CASE User \/ Stopped \/ UNCHANGED vars
  <2>1. UNCHANGED <<events, shownVars>>
    BY <1>8 DEF User, PressDone, PressCapture, PressOnGoneRunner, Stopped, vars,
                threadVars
  <2> QED BY <2>1
<1> QED BY <1>2, <1>3, <1>4, <1>5, <1>6, <1>7, <1>8 DEF Next

\* Nothing but the event loop takes from the queue, and it takes the first.
LEMMA QueueTaken ==
    ASSUME TypeOK, EventLoop
    PROVE  \/ /\ Take("AddExtractionItem")
              /\ UNCHANGED images
              /\ fault' = "none" => image_widget_ /\ items' = Append(items, Head(events).arg)
              /\ ~image_widget_ => fault' = "null live image"
              /\ image_widget_ => UNCHANGED fault
              /\ image_widget_' = FALSE
           \/ /\ Take("SetLiveStreamImage")
              /\ image_widget_' = TRUE
              /\ UNCHANGED <<items, images, fault>>
           \/ /\ \E k \in OtherKinds : Take(k)
              /\ UNCHANGED shownVars
              /\ fault' # "null live image"
<1> USE DEF shownVars, threadVars, calibrationVars, OtherKinds
<1>0. fault = "none" /\ image_widget_ \in BOOLEAN BY DEF EventLoop, TypeOK, GuiType
<1>1. CASE SetLiveStreamImage BY <1>1 DEF SetLiveStreamImage
<1>2. CASE AddExtractionItem BY <1>0, <1>2 DEF AddExtractionItem
<1>3. CASE AddTimerWidget BY <1>0, <1>3 DEF AddTimerWidget
<1>4. CASE Transition BY <1>0, <1>4 DEF Transition
<1>5. CASE EndCalibration BY <1>0, <1>5 DEF EndCalibration
<1> QED BY <1>1, <1>2, <1>3, <1>4, <1>5 DEF EventLoop


LEMMA DisplayedMeans == EverySaveDisplayed <=> (fault = "none" => Displays(events, items, images))
BY DEF EverySaveDisplayed, Displays

\* The process is gone from the first fault on.
LEMMA FaultStays == [Next]_vars /\ fault # "none" => UNCHANGED vars
BY DEF Next, Worker, Extraction, EventLoop, User, Stopped

LEMMA DisplayedStep == TypeOK /\ TypeOK' /\ EverySaveDisplayed /\ [Next]_vars => EverySaveDisplayed'
<1> SUFFICES ASSUME TypeOK, TypeOK', EverySaveDisplayed, [Next]_vars, fault' = "none"
             PROVE  Displays(events', items', images')
  BY DisplayedMeans DEF Displays, EverySaveDisplayed
<1>1. fault = "none" BY FaultStays DEF vars, dataVars
<1>2. PICK q \in Seq(Events) : q = events BY DEF TypeOK
<1>3. PICK it \in Seq(Points) : it = items BY DEF TypeOK, GuiType
<1>4. PICK im \in Seq(Points) : im = images BY DEF TypeOK, CalibrationType
<1>5. PICK r \in Seq(Events) : r = events' BY DEF TypeOK
<1>6. PICK it1 \in Seq(Points) : it1 = items' BY DEF TypeOK, GuiType
<1>7. PICK im1 \in Seq(Points) : im1 = images' BY DEF TypeOK, CalibrationType
<1>8. Displays(q, it, im)
  BY <1>1, <1>2, <1>3, <1>4, DisplayedMeans
<1> SUFFICES Displays(r, it1, im1) BY <1>5, <1>6, <1>7
<1>9. CASE Save
  <2>1. PICK p \in Points : p = currently_extracted_image_ BY DEF TypeOK, HandoffType
  <2>2. Event("AddExtractionItem", p) \in Events BY EventsType
  <2>3. r = Append(q, Event("AddExtractionItem", p))
    BY <1>2, <1>5, <1>9, <2>1 DEF Save, Post
  <2>4. im1 = Append(im, p) /\ it1 = it
    BY <1>3, <1>4, <1>6, <1>7, <1>9, <2>1 DEF Save, guiVars
  <2> QED BY <1>8, <2>2, <2>3, <2>4, DisplaysSave
<1>10. ASSUME NEW e \in Events, ~IsItem(e), Post(e), UNCHANGED shownVars
       PROVE  Displays(r, it1, im1)
  <2>1. r = Append(q, e) BY <1>2, <1>5, <1>10 DEF Post
  <2>2. it1 = it /\ im1 = im BY <1>3, <1>4, <1>6, <1>7, <1>10 DEF shownVars
  <2> QED BY <1>8, <1>10, <2>1, <2>2, DisplaysPost
<1>11. CASE Draw /\ UNCHANGED shownVars
  <2>1. /\ Event("SetLiveStreamImage", NoPoints) \in Events
        /\ ~IsItem(Event("SetLiveStreamImage", NoPoints))
    BY EventsType DEF IsItem, Event
  <2> QED BY <1>10, <1>11, <2>1 DEF Draw
<1>12. CASE EventLoop
  <2>1. ASSUME NEW k, Take(k) PROVE q # <<>> /\ r = Tail(q) /\ q[1].kind = k /\ q[1] = Head(events)
    BY <1>2, <1>5, <2>1 DEF Take
  <2>2. CASE /\ Take("AddExtractionItem")
             /\ UNCHANGED images
             /\ items' = Append(items, Head(events).arg)
    <3>1. q # <<>> /\ r = Tail(q) /\ IsItem(q[1]) /\ it1 = Append(it, q[1].arg) /\ im1 = im
      BY <1>3, <1>4, <1>6, <1>7, <2>1, <2>2 DEF IsItem
    <3> QED BY <1>8, <3>1, DisplaysTake
  <2>3. ASSUME NEW k \in OtherKinds \cup {"SetLiveStreamImage"}, Take(k),
               UNCHANGED <<items, images>>
        PROVE  Displays(r, it1, im1)
    <3>1. q # <<>> /\ r = Tail(q) /\ ~IsItem(q[1]) /\ it1 = it /\ im1 = im
      BY <1>3, <1>4, <1>6, <1>7, <2>1, <2>3 DEF IsItem, OtherKinds
    <3> QED BY <1>8, <3>1, DisplaysTake
  <2>4. \/ /\ Take("AddExtractionItem")
           /\ UNCHANGED images
           /\ items' = Append(items, Head(events).arg)
        \/ Take("SetLiveStreamImage") /\ UNCHANGED <<items, images>>
        \/ (\E k \in OtherKinds : Take(k)) /\ UNCHANGED <<items, images>>
    BY <1>12, QueueTaken DEF shownVars
  <2> QED BY <2>2, <2>3, <2>4
<1>13. CASE UNCHANGED <<events, shownVars>>
  <2>1. r = q /\ it1 = it /\ im1 = im
    BY <1>2, <1>3, <1>4, <1>5, <1>6, <1>7, <1>13 DEF shownVars
  <2> QED BY <1>8, <2>1
<1>14. ASSUME NEW e \in Events, e.kind \in OtherKinds, Post(e), UNCHANGED shownVars
       PROVE  Displays(r, it1, im1)
  BY <1>10, <1>14 DEF IsItem, OtherKinds
<1> QED BY <1>9, <1>11, <1>12, <1>13, <1>14, QueueMoves

\* In every mode, and until a null pointer ends the process: what was saved is
\* shown exactly once and in the order of the saves.
THEOREM Displayed == Spec => []EverySaveDisplayed
<1>1. Init => EverySaveDisplayed
  <2> SUFFICES ASSUME Init PROVE EverySaveDisplayed OBVIOUS
  <2>1. events = <<>> /\ items = <<>> /\ images = <<>> BY DEF Init
  <2>2. Len(events) = 0 /\ Len(items) = 0 /\ Len(images) = 0 BY <2>1
  <2>3. ItemsAmong(events, 0) = {} BY DEF ItemsAmong
  <2>4. Cardinality({}) = 0 BY FS_EmptySet
  <2>5. DOMAIN items = {} BY <2>1
  <2>6. ItemsAmong(events, Len(events)) = {} BY <2>2, <2>3
  <2>7. Cardinality(ItemsAmong(events, Len(events))) = 0 BY <2>4, <2>6
  <2>8. Len(items) + Cardinality(ItemsAmong(events, Len(events))) = Len(images)
    BY <2>2, <2>7
  <2> QED BY <2>5, <2>6, <2>8 DEF EverySaveDisplayed
<1> QED BY <1>1, DisplayedStep, TypeCorrect, PTL DEF Spec


-----------------------------------------------------------------------------
(* OnTimedDetection: the live image is in its widget when an item arrives *)

\* With image_widget_ = w at first, the widget holds an image once the first n
\* functors of q have run.
LiveAfter(q, w, n) ==
    \/ w /\ \A j \in 1 .. n : ~IsItem(q[j])
    \/ \E k \in 1 .. n : /\ q[k].kind = "SetLiveStreamImage"
                         /\ \A j \in k + 1 .. n : ~IsItem(q[j])

\* Every queued item will find an image.
Fed(q, w) == \A j \in 1 .. Len(q) : IsItem(q[j]) => LiveAfter(q, w, j - 1)

LEMMA LivePost ==
    ASSUME NEW q \in Seq(Events), NEW w \in BOOLEAN, NEW e \in Events,
           NEW r, r = Append(q, e), Fed(q, w)
    PROVE  /\ e.kind = "SetLiveStreamImage" => LiveAfter(r, w, Len(r))
           /\ ~IsItem(e) /\ LiveAfter(q, w, Len(q)) => LiveAfter(r, w, Len(r))
           /\ (IsItem(e) => LiveAfter(q, w, Len(q))) => Fed(r, w)
<1> DEFINE n == Len(q)
<1>1. /\ n \in Nat /\ Len(r) = n + 1 /\ r[n + 1] = e
      /\ \A i \in 1 .. n : r[i] = q[i]
  OBVIOUS
<1> HIDE DEF n
<1>2. \A m \in 0 .. n : LiveAfter(r, w, m) <=> LiveAfter(q, w, m)
  <2> TAKE m \in 0 .. n
  <2>1. \A i \in 1 .. m : r[i] = q[i] BY <1>1
  <2>2. \A k \in 1 .. m : k + 1 .. m \subseteq 1 .. m OBVIOUS
  <2> QED BY <2>1, <2>2 DEF LiveAfter
<1>3. e.kind = "SetLiveStreamImage" => LiveAfter(r, w, Len(r))
  <2>1. n + 1 \in 1 .. n + 1 /\ \A j \in (n + 1) + 1 .. n + 1 : FALSE BY <1>1
  <2> QED BY <1>1, <2>1 DEF LiveAfter
<1>4. ~IsItem(e) /\ LiveAfter(q, w, n) => LiveAfter(r, w, n + 1)
  <2> SUFFICES ASSUME ~IsItem(e), LiveAfter(r, w, n) PROVE LiveAfter(r, w, n + 1)
    <3>1. n \in 0 .. n BY <1>1
    <3> QED BY <1>2, <3>1
  <2>1. ~IsItem(r[n + 1]) BY <1>1
  <2>2. \A j \in 1 .. n + 1 : j \in 1 .. n \/ j = n + 1 BY <1>1
  <2>3. \A k \in 1 .. n : /\ k \in 1 .. n + 1
                          /\ \A j \in k + 1 .. n + 1 : j \in k + 1 .. n \/ j = n + 1
    BY <1>1
  <2> QED BY <2>1, <2>2, <2>3 DEF LiveAfter
<1>5. (IsItem(e) => LiveAfter(q, w, n)) => Fed(r, w)
  <2> SUFFICES ASSUME IsItem(e) => LiveAfter(q, w, n),
                      NEW j \in 1 .. n + 1, IsItem(r[j])
               PROVE  LiveAfter(r, w, j - 1)
    BY <1>1 DEF Fed
  <2>1. j - 1 \in 0 .. n BY <1>1
  <2>2. CASE j = n + 1
    <3>1. j - 1 = n BY <1>1, <2>2
    <3> QED BY <1>1, <1>2, <2>1, <2>2, <3>1
  <2>3. CASE j # n + 1
    <3>1. j \in 1 .. n BY <1>1, <2>3
    <3>2. LiveAfter(q, w, j - 1) BY <1>1, <3>1 DEF Fed, n
    <3> QED BY <1>2, <2>1, <3>2
  <2> QED BY <2>2, <2>3
<1> QED BY <1>1, <1>3, <1>4, <1>5 DEF n

LEMMA LiveTake ==
    ASSUME NEW q \in Seq(Events), NEW w \in BOOLEAN, q # <<>>, NEW r, r = Tail(q),
           NEW v, v = (IF IsItem(q[1]) THEN FALSE
                       ELSE IF q[1].kind = "SetLiveStreamImage" THEN TRUE ELSE w),
           Fed(q, w)
    PROVE  Fed(r, v) /\ (LiveAfter(q, w, Len(q)) => LiveAfter(r, v, Len(r)))
<1> DEFINE n == Len(r)
<1>1. n \in Nat /\ Len(q) = n + 1 /\ \A i \in 1 .. n : r[i] = q[i + 1]
  OBVIOUS
<1> HIDE DEF n
<1>2. ASSUME NEW m \in 0 .. n, LiveAfter(q, w, m + 1) PROVE LiveAfter(r, v, m)
  <2>1. CASE w /\ \A j \in 1 .. m + 1 : ~IsItem(q[j])
    <3>1. 1 \in 1 .. m + 1 OBVIOUS
    <3>2. v BY <2>1, <3>1
    <3>3. ASSUME NEW j \in 1 .. m PROVE ~IsItem(r[j])
      <4>1. j + 1 \in 1 .. m + 1 /\ r[j] = q[j + 1] BY <1>1
      <4> QED BY <2>1, <4>1
    <3> QED BY <3>2, <3>3 DEF LiveAfter
  <2>2. ASSUME NEW k \in 1 .. m + 1, q[k].kind = "SetLiveStreamImage",
               \A j \in k + 1 .. m + 1 : ~IsItem(q[j])
        PROVE  LiveAfter(r, v, m)
    <3>1. ASSUME NEW j \in 1 .. m, j >= k PROVE ~IsItem(r[j])
      <4>1. j + 1 \in k + 1 .. m + 1 /\ r[j] = q[j + 1] BY <1>1, <3>1
      <4> QED BY <2>2, <4>1
    <3>2. CASE k = 1
      <4>1. v BY <2>2, <3>2 DEF IsItem
      <4>2. ASSUME NEW j \in 1 .. m PROVE ~IsItem(r[j])
        <5>1. j >= k BY <3>2
        <5> QED BY <3>1, <5>1
      <4> QED BY <4>1, <4>2 DEF LiveAfter
    <3>3. CASE k # 1
      <4>1. /\ k - 1 \in 1 .. m /\ k - 1 \in 1 .. n /\ (k - 1) + 1 = k
        BY <1>1, <3>3
      <4>2. r[k - 1].kind = "SetLiveStreamImage" BY <1>1, <2>2, <4>1
      <4>3. \A j \in (k - 1) + 1 .. m : ~IsItem(r[j])
        <5>1. \A j \in (k - 1) + 1 .. m : j \in 1 .. m /\ j >= k BY <4>1
        <5> QED BY <3>1, <5>1
      <4> QED BY <4>1, <4>2, <4>3 DEF LiveAfter
    <3> QED BY <3>2, <3>3
  <2> QED BY <1>2, <2>1, <2>2 DEF LiveAfter
<1>3. ASSUME NEW j \in 1 .. n, IsItem(r[j]) PROVE LiveAfter(r, v, j - 1)
  <2>1. j + 1 \in 1 .. Len(q) /\ (j + 1) - 1 = (j - 1) + 1 /\ j - 1 \in 0 .. n BY <1>1
  <2>2. IsItem(q[j + 1]) BY <1>1, <1>3
  <2>3. LiveAfter(q, w, (j - 1) + 1) BY <2>1, <2>2 DEF Fed
  <2> QED BY <1>2, <2>1, <2>3
<1>4. LiveAfter(q, w, Len(q)) => LiveAfter(r, v, n)
  <2>1. n \in 0 .. n BY <1>1
  <2> QED BY <1>1, <1>2, <2>1
<1> QED BY <1>3, <1>4 DEF Fed, n


Ready == LiveAfter(events, image_widget_, Len(events))

FedInv == Fed(events, image_widget_)

\* Since the last save, or since the start, no frame was queued for display.
\* Then nothing can be saved: of the frames drawn only after they are handed
\* over at most one was looked at, and the tracker is not stable after one.
Unseen ==
    /\ epc \notin {"save", "recheck"}
    /\ current_pixmap_ = {} \/ wpc \in {"clear", "set", "draw"}
    /\ epc = "decide" => wpc = "draw" /\ tracker.last = NoPoints
    /\ extract_ \/ epc = "extract" =>
           tracker.last = NoPoints /\ (wpc = "draw" \/ current_pixmap_ = {})
    /\ tracker.last # NoPoints =>
           wpc = "draw" /\ ~extract_ /\ epc \in {"publish", "head", "wait", "exited"}

NeverUnfed == FedInv /\ (~Ready => Unseen)

LEMMA UnseenSave ==
    ASSUME TypeOK, Mode = "OnTimedDetection", Save PROVE Unseen'
<1>1. epc' = "publish" /\ current_pixmap_' = {}
  BY DEF Save
<1>2. tracker' = Updated(tracker, NoPoints) BY DEF Save
<1>3. tracker'.last = NoPoints
  <2>1. PICK t \in Trackers : t = tracker BY DEF TypeOK, ExtractionType, Trackers
  <2>2. Updated(t, NoPoints).last = NoPoints BY PointsType, TrackerFields
  <2> QED BY <1>2, <2>1, <2>2
<1> QED BY <1>1, <1>3 DEF Unseen

LEMMA UnseenWorker ==
    ASSUME SignalType, Turns, Unseen, Worker, ~Draw PROVE Unseen'
<1> USE DEF Unseen, signalVars, handoffVars, extractionVars, dataVars
<1>1. CASE Start BY <1>1 DEF Start
<1>2. CASE ReadFrame BY <1>2 DEF ReadFrame
<1>3. CASE LeaveLoop BY <1>3 DEF LeaveLoop
<1>4. CASE CheckExtraction BY <1>4 DEF CheckExtraction
<1>5. CASE CopyHandoff
  BY <1>5 DEF CopyHandoff, Turns, Closing, PassPcs
<1>6. CASE ClearNewExtraction
  BY <1>6 DEF ClearNewExtraction
<1>7. CASE SetExtract
  BY <1>7 DEF SetExtract, Turns, Closing, PassPcs
<1>8. CASE WakeExtraction BY <1>8 DEF WakeExtraction
<1>9. CASE Join BY <1>9 DEF Join
<1>10. CASE Calibrate BY <1>10 DEF Calibrate
<1> QED BY <1>1, <1>2, <1>3, <1>4, <1>5, <1>6, <1>7, <1>8, <1>9, <1>10 DEF Worker

LEMMA UnseenExtraction ==
    ASSUME TypeOK, Mode = "OnTimedDetection", Turns, Unseen, Extraction PROVE Unseen'
<1> USE DEF Unseen, signalVars, handoffVars, dataVars
<1>0. SignalType BY DEF TypeOK
<1>1. CASE Begin BY <1>1 DEF Begin
<1>2. CASE EstimateFirstPose BY <1>2 DEF EstimateFirstPose
<1>3. CASE Test BY <1>3 DEF Test
<1>4. CASE Wait BY <1>4 DEF Wait
<1>5. CASE Recheck BY <1>5 DEF Recheck
<1>6. CASE Extract BY <1>6 DEF Extract
<1>7. CASE DecideTimed
  <2> DEFINE points == currently_extracted_image_
             s == IF points = NoPoints THEN Targeting(tracker, points) ELSE tracker
             t == Updated(s, points)
  <2>1. tracker \in Trackers /\ points \in Points
    BY DEF TypeOK, ExtractionType, HandoffType, Trackers
  <2>2. s \in Trackers /\ s.last = NoPoints
    <3>1. tracker.last = NoPoints BY <1>7 DEF DecideTimed
    <3> QED BY <2>1, <3>1, TrackerType, TrackerFields
  <2>3. ~t.stable
    <3>1. t.stable = Match(points, s.last) BY <2>1, <2>2, TrackerFields
    <3> QED BY <2>2, <3>1, NothingMatches
  <2>4. epc = "decide" /\ epc' = "publish" BY <1>7, <2>3 DEF DecideTimed
  <2>5. wpc = "draw" /\ ~extract_
    BY <1>0, <2>4 DEF Turns, Closing, PassPcs, SignalType
  <2>6. UNCHANGED <<wpc, extract_, current_pixmap_>> BY <1>7 DEF DecideTimed
  <2> QED BY <2>4, <2>5, <2>6
<1>8. ~DecideBasic /\ ~DecidePose /\ ~CalibrationThrows /\ ~Save
  BY DEF DecideBasic, DecidePose, CalibrationThrows, Save
<1>9. CASE SuggestAfterSave
  <2>1. /\ epc = "suggest" /\ epc' = "reset"
        /\ UNCHANGED <<wpc, extract_, current_pixmap_>>
        /\ tracker.last = NoPoints
    BY <1>9 DEF SuggestAfterSave
  <2>2. tracker'.last = NoPoints
    <3>1. tracker' \in {tracker, Targeting(tracker, current_target_points_')}
      BY <1>9 DEF SuggestAfterSave
    <3> QED BY <2>1, <3>1 DEF Targeting, TypeOK, ExtractionType
  <2> QED BY <2>1, <2>2
<1>10. CASE ResetAcquire BY <1>10 DEF ResetAcquire
<1>11. CASE Publish BY <1>11 DEF Publish
<1> QED BY <1>1, <1>2, <1>3, <1>4, <1>5, <1>6, <1>7, <1>8, <1>9, <1>10, <1>11
        DEF Extraction

LEMMA UnseenOthers ==
    ASSUME Unseen, EventLoop \/ User \/ Stopped \/ UNCHANGED vars PROVE Unseen'
<1> USE DEF Unseen, extractionVars, handoffVars
<1>1. CASE EventLoop
  BY <1>1, EventLoopFrame DEF threadVars, signalVars
<1>2. CASE User BY <1>2, UserFrame DEF threadVars
<1>3. CASE Stopped \/ UNCHANGED vars BY <1>3 DEF Stopped, vars, signalVars, dataVars
<1> QED BY <1>1, <1>2, <1>3


\* The invariant is kept, and no item is taken without an image in the widget.
LEMMA FedStep ==
    ASSUME Mode = "OnTimedDetection", TypeOK, TypeOK', Turns, NeverUnfed, [Next]_vars
    PROVE  NeverUnfed' /\ (NoNullLiveImage => NoNullLiveImage')
<1>1. PICK q \in Seq(Events) : q = events BY DEF TypeOK
<1>2. PICK w \in BOOLEAN : w = image_widget_ BY DEF TypeOK, GuiType
<1>3. PICK r \in Seq(Events) : r = events' BY DEF TypeOK
<1>4. PICK v \in BOOLEAN : v = image_widget_' BY DEF TypeOK, GuiType
<1>5. /\ Fed(q, w) /\ (Ready <=> LiveAfter(q, w, Len(q)))
      /\ (FedInv' <=> Fed(r, v)) /\ (Ready' <=> LiveAfter(r, v, Len(r)))
  BY <1>1, <1>2, <1>3, <1>4 DEF NeverUnfed, FedInv, Ready
<1>6. ASSUME NEW e \in Events, Post(e), UNCHANGED image_widget_
      PROVE  r = Append(q, e) /\ v = w
  BY <1>1, <1>2, <1>3, <1>4, <1>6 DEF Post
<1>7. CASE Save
  <2>1. PICK e \in Events : IsItem(e) /\ Post(e)
    <3>1. PICK p \in Points : p = currently_extracted_image_ BY DEF TypeOK, HandoffType
    <3>2. Event("AddExtractionItem", p) \in Events /\ IsItem(Event("AddExtractionItem", p))
      BY EventsType DEF IsItem, Event
    <3> QED BY <1>7, <3>1, <3>2 DEF Save
  <2>2. UNCHANGED image_widget_ /\ UNCHANGED fault /\ epc = "save"
    BY <1>7 DEF Save, guiVars
  <2>3. Ready BY <2>2 DEF NeverUnfed, Unseen
  <2>4. FedInv' BY <1>5, <1>6, <2>1, <2>2, <2>3, LivePost
  <2>5. Unseen' BY <1>7, UnseenSave
  <2> QED BY <2>2, <2>4, <2>5 DEF NeverUnfed, NoNullLiveImage
<1>8. CASE Draw /\ UNCHANGED shownVars
  <2>1. PICK e \in Events : e.kind = "SetLiveStreamImage" /\ Post(e)
    BY <1>8, EventsType DEF Draw, Event
  <2>2. UNCHANGED image_widget_ /\ UNCHANGED fault
    BY <1>8 DEF Draw, shownVars, dataVars
  <2>3. FedInv' /\ Ready'
    BY <1>5, <1>6, <2>1, <2>2, LivePost DEF IsItem
  <2> QED BY <2>2, <2>3 DEF NeverUnfed, NoNullLiveImage
<1>9. ASSUME ~Draw, ~Save, Unseen PROVE Unseen'
  BY <1>9, UnseenWorker, UnseenExtraction, UnseenOthers DEF Next, TypeOK
<1>10. ASSUME ~Draw, ~Save, FedInv', Ready => Ready' PROVE NeverUnfed'
  BY <1>9, <1>10 DEF NeverUnfed
<1>11. ASSUME ~EventLoop PROVE NoNullLiveImage => NoNullLiveImage'
  <2>1. Worker => UNCHANGED fault
    BY DEF Worker, Start, ReadFrame, LeaveLoop, CheckExtraction, CopyHandoff,
           ClearNewExtraction, SetExtract, Draw, WakeExtraction, Join, Calibrate, dataVars
  <2>2. Extraction => fault' \in {fault, "null current_pixmap_", "uninitialised timer_widget",
                                  "exception in the extraction thread"}
    BY DEF Extraction, Begin, EstimateFirstPose, Test, Wait, Recheck, Extract,
           DecideBasic, DecideTimed, DecidePose, CalibrationThrows, Save,
           SuggestAfterSave, ResetAcquire, Publish, dataVars
  <2>3. User \/ Stopped \/ UNCHANGED vars => fault' \in {fault, "dangling runner"}
    BY DEF User, PressDone, PressCapture, PressOnGoneRunner, Stopped, vars, dataVars
  <2> QED BY <1>11, <2>1, <2>2, <2>3 DEF Next, NoNullLiveImage
<1>12. ASSUME NEW e \in Events, e.kind \in OtherKinds, Post(e), UNCHANGED shownVars,
              ~Draw, ~Save
       PROVE  NeverUnfed'
  <2>1. ~IsItem(e) /\ UNCHANGED image_widget_
    BY <1>12 DEF IsItem, OtherKinds, shownVars
  <2>2. FedInv' /\ (Ready => Ready')
    BY <1>5, <1>6, <1>12, <2>1, LivePost
  <2> QED BY <1>10, <1>12, <2>2
<1>13. CASE EventLoop
  <2>1. ~Draw /\ ~Save
    <3>1. UNCHANGED wpc /\ UNCHANGED epc
      BY <1>13, EventLoopFrame DEF threadVars, extractionVars
    <3>2. Draw => wpc' # wpc BY DEF Draw
    <3>3. Save => epc' # epc BY DEF Save
    <3> QED BY <3>1, <3>2, <3>3
  <2>2. ASSUME NEW k, Take(k) PROVE q # <<>> /\ r = Tail(q) /\ q[1].kind = k
    BY <1>1, <1>3, <2>2 DEF Take
  <2>3. CASE /\ Take("AddExtractionItem")
             /\ ~image_widget_ => fault' = "null live image"
             /\ image_widget_ => UNCHANGED fault
             /\ image_widget_' = FALSE
    <3>1. q # <<>> /\ r = Tail(q) /\ IsItem(q[1]) /\ v = FALSE
      BY <1>4, <2>2, <2>3 DEF IsItem
    <3>2. w
      <4>1. 1 \in 1 .. Len(q) /\ 1 - 1 = 0 BY <3>1
      <4>2. LiveAfter(q, w, 0) BY <1>5, <3>1, <4>1 DEF Fed
      <4> QED BY <4>2 DEF LiveAfter
    <3>3. FedInv' /\ (Ready => Ready') BY <1>5, <3>1, LiveTake
    <3>4. UNCHANGED fault BY <1>2, <2>3, <3>2
    <3> QED BY <1>10, <2>1, <3>3, <3>4 DEF NoNullLiveImage
  <2>4. CASE Take("SetLiveStreamImage") /\ image_widget_' = TRUE /\ UNCHANGED fault
    <3>1. /\ q # <<>> /\ r = Tail(q) /\ ~IsItem(q[1])
          /\ q[1].kind = "SetLiveStreamImage" /\ v = TRUE
      BY <1>4, <2>2, <2>4 DEF IsItem
    <3>2. FedInv' /\ (Ready => Ready') BY <1>5, <3>1, LiveTake
    <3> QED BY <1>10, <2>1, <2>4, <3>2 DEF NoNullLiveImage
  <2>5. CASE /\ \E k \in OtherKinds : Take(k)
             /\ UNCHANGED shownVars
             /\ fault' # "null live image"
    <3>1. /\ q # <<>> /\ r = Tail(q) /\ q[1].kind \in OtherKinds
      BY <2>2, <2>5
    <3>2. ~IsItem(q[1]) /\ q[1].kind # "SetLiveStreamImage" /\ v = w
      BY <1>2, <1>4, <2>5, <3>1 DEF IsItem, OtherKinds, shownVars
    <3>3. FedInv' /\ (Ready => Ready') BY <1>5, <3>1, <3>2, LiveTake
    <3> QED BY <1>10, <2>1, <2>5, <3>3 DEF NoNullLiveImage
  <2> QED BY <1>13, <2>3, <2>4, <2>5, QueueTaken
<1>14. ASSUME UNCHANGED <<events, shownVars>>, ~Draw, ~Save PROVE NeverUnfed'
  <2>1. r = q /\ v = w BY <1>1, <1>2, <1>3, <1>4, <1>14 DEF shownVars
  <2>2. FedInv' /\ (Ready => Ready') BY <1>5, <2>1
  <2> QED BY <1>10, <1>14, <2>2
<1>15. Draw => wpc = "draw" /\ UNCHANGED shownVars
  BY DEF Draw, shownVars, dataVars, guiVars, calibrationVars
<1>16. ~EventLoop /\ ~Save /\ ~Draw => NeverUnfed'
  BY <1>12, <1>14, QueueMoves
<1>17. CASE Draw BY <1>8, <1>15, <1>17
<1>18. CASE ~EventLoop /\ ~Save /\ ~Draw
  <2>1. NeverUnfed' BY <1>16, <1>18
  <2>2. NoNullLiveImage => NoNullLiveImage' BY <1>11, <1>18
  <2> QED BY <2>1, <2>2
<1> QED BY <1>7, <1>13, <1>17, <1>18

\* In the hands-free mode the heatmap of a saved image is never drawn into a
\* live image that is not there, whatever the camera and the user do and however
\* late the event loop runs: between two saves, and before the first, a frame is
\* queued for display.  (A press of the capture button can be served before the
\* first frame is drawn, so the other modes have no such theorem.)
THEOREM LiveImageThere ==
    ASSUME Mode = "OnTimedDetection"
    PROVE  Spec => []NoNullLiveImage
<1>1. Init => NeverUnfed /\ NoNullLiveImage
  <2> SUFFICES ASSUME Init PROVE NeverUnfed /\ NoNullLiveImage OBVIOUS
  <2>1. Len(events) = 0 BY DEF Init
  <2>2. FedInv BY <2>1 DEF FedInv, Fed
  <2>3. Unseen BY DEF Init, Unseen
  <2>4. NoNullLiveImage BY DEF Init, NoNullLiveImage
  <2> QED BY <2>2, <2>3, <2>4 DEF NeverUnfed
<1>2. TypeOK /\ TypeOK' /\ Turns /\ NeverUnfed /\ NoNullLiveImage /\ [Next]_vars
          => (NeverUnfed /\ NoNullLiveImage)'
  BY FedStep
<1> QED BY <1>1, <1>2, TypeCorrect, TurnsAlternate, PTL DEF Spec

-----------------------------------------------------------------------------
(* The session as one view *)

\* The side bar's items go on in the calibration widget, which is hidden while
\* the stream runs, then shows the progress bar, then the result or the error.
View == INSTANCE CalibrationView WITH
    Messages <- {"error"},
    progress <- calibration_widget = "calibrating",
    result <- IF calibration_widget = "result" THEN "calibration"
              ELSE IF calibration_widget = "error" THEN "error" ELSE "none"

AnEnd(q, i) == q[i].kind \in EndKinds
ATransition(q, i) == q[i].kind = "Transition"

\* The end of Run queues the only result, and from the join on a transition is
\* queued, or done.
LastWord ==
    /\ calibration_widget = "hidden" <=> extraction_widget = "shown"
    /\ wpc # "returned" => calibration_widget \in {"hidden", "calibrating"}
    /\ \A i \in 1 .. Len(events) : AnEnd(events, i) =>
           /\ wpc = "returned" /\ i = Len(events)
           /\ calibration_widget \in {"hidden", "calibrating"}
    /\ wpc \in {"calibrate", "returned"} /\ extraction_widget = "shown" =>
           \E i \in 1 .. Len(events) : ATransition(events, i)

\* Nothing of a result changes but by Join, Calibrate, the transition and the end.
LEMMA LastWordWaits ==
    ASSUME events \in Seq(Events), LastWord, UNCHANGED <<extraction_widget, calibration_widget>>,
           wpc \notin {"calibrate", "returned"}, wpc' \notin {"calibrate", "returned"},
           \/ UNCHANGED events
           \/ \E e \in Events : e.kind \notin EndKinds /\ Post(e)
    PROVE  LastWord'
<1>1. \A i \in 1 .. Len(events') : ~AnEnd(events', i)
  <2>1. \A i \in 1 .. Len(events) : ~AnEnd(events, i) BY DEF LastWord
  <2>2. CASE UNCHANGED events BY <2>1, <2>2
  <2>3. ASSUME NEW e \in Events, e.kind \notin EndKinds, Post(e)
        PROVE  \A i \in 1 .. Len(events') : ~AnEnd(events', i)
    <3>1. /\ Len(events') = Len(events) + 1 /\ Len(events) \in Nat
          /\ events'[Len(events')] = e /\ \A i \in 1 .. Len(events) : events'[i] = events[i]
      BY <2>3, QueueIndices
    <3>2. \A i \in 1 .. Len(events') : i \in 1 .. Len(events) \/ i = Len(events') BY <3>1
    <3> QED BY <2>1, <2>3, <3>1, <3>2 DEF AnEnd
  <2> QED BY <2>2, <2>3
<1> QED BY <1>1 DEF LastWord

\* What a functor taken from the queue leaves of it.
LEMMA LastWordTaken ==
    ASSUME events \in Seq(Events), LastWord, NEW k, Take(k)
    PROVE  /\ Len(events) \in Nat \ {0} /\ Len(events') \in Nat /\ events[1].kind = k
           /\ \A i \in 1 .. Len(events') : AnEnd(events', i) =>
                  /\ wpc = "returned" /\ i = Len(events')
                  /\ calibration_widget \in {"hidden", "calibrating"}
           /\ \A i \in 1 .. Len(events) : i = 1 \/ (ATransition(events, i) =>
                  \E j \in 1 .. Len(events') : ATransition(events', j))
<1>1. /\ Len(events) \in Nat \ {0} /\ Len(events') = Len(events) - 1 /\ events[1].kind = k
      /\ \A i \in 1 .. Len(events') : events'[i] = events[i + 1]
  BY QueueIndices DEF Take
<1>2. /\ Len(events') \in Nat
      /\ \A i \in 1 .. Len(events') : i + 1 \in 1 .. Len(events)
      /\ \A i \in 1 .. Len(events) : i = 1 \/ (i - 1 \in 1 .. Len(events') /\ (i - 1) + 1 = i)
  BY <1>1
<1>3. ASSUME NEW i \in 1 .. Len(events'), AnEnd(events', i)
      PROVE  /\ wpc = "returned" /\ i = Len(events')
             /\ calibration_widget \in {"hidden", "calibrating"}
  <2>0. events'[i] = events[i + 1] BY <1>1
  <2>1. AnEnd(events, i + 1) BY <1>3, <2>0 DEF AnEnd
  <2>2. /\ wpc = "returned" /\ i + 1 = Len(events)
        /\ calibration_widget \in {"hidden", "calibrating"}
    BY <1>2, <2>1 DEF LastWord
  <2> QED BY <1>1, <1>2, <2>2
<1>4. ASSUME NEW i \in 1 .. Len(events), i # 1, ATransition(events, i)
      PROVE  \E j \in 1 .. Len(events') : ATransition(events', j)
  <2>1. i - 1 \in 1 .. Len(events') /\ (i - 1) + 1 = i BY <1>2, <1>4
  <2>2. events'[i - 1] = events[i] BY <1>1, <2>1
  <2> QED BY <1>4, <2>1, <2>2 DEF ATransition
<1> QED BY <1>1, <1>2, <1>3, <1>4

\* The head of the queue: nothing of the extraction is left once its widget is
\* deleted, and a result comes to the progress bar.
LEMMA HeadFound ==
    ASSUME TypeOK, Joined, QueueInv, LastWord, NEW k, Take(k)
    PROVE  /\ k \notin EndKinds => extraction_widget = "shown" /\ calibration_widget = "hidden"
           /\ k \in EndKinds => /\ extraction_widget = "deleted" /\ wpc = "returned"
                                /\ calibration_widget = "calibrating" /\ Len(events) = 1
<1>0. events \in Seq(Events) BY DEF TypeOK
<1>1. 1 \in 1 .. Len(events) /\ events[1].kind = k
  BY <1>0, LastWordTaken
<1>2. extraction_widget \in {"shown", "deleted"} BY DEF TypeOK, GuiType
<1>3. ASSUME k \notin EndKinds PROVE extraction_widget = "shown"
  BY <1>1, <1>2, <1>3 DEF QueueInv
<1>4. ASSUME k \in EndKinds
      PROVE  /\ extraction_widget = "deleted" /\ wpc = "returned"
             /\ calibration_widget = "calibrating" /\ Len(events) = 1
  <2>1. /\ wpc = "returned" /\ 1 = Len(events)
        /\ calibration_widget \in {"hidden", "calibrating"}
    BY <1>1, <1>4 DEF LastWord, AnEnd
  <2>2. ~ATransition(events, 1) BY <1>1, <1>4 DEF ATransition, EndKinds
  <2>3. \A i \in 1 .. Len(events) : i = 1
    <3>1. Len(events) = 1 BY <2>1
    <3> QED BY <3>1
  <2>4. extraction_widget # "shown" BY <2>1, <2>2, <2>3 DEF LastWord
  <2> QED BY <1>2, <2>1, <2>4 DEF LastWord
<1> QED BY <1>3, <1>4 DEF LastWord

LEMMA LastWordStep == TypeOK /\ Joined /\ QueueInv /\ LastWord /\ [Next]_vars => LastWord'
<1> SUFFICES ASSUME TypeOK, Joined, QueueInv, LastWord, [Next]_vars PROVE LastWord' OBVIOUS
<1>0. events \in Seq(Events) BY DEF TypeOK
<1> DEFINE Waits == /\ UNCHANGED <<extraction_widget, calibration_widget>>
                    /\ wpc \notin {"calibrate", "returned"} /\ wpc' \notin {"calibrate", "returned"}
                    /\ UNCHANGED events \/ \E e \in Events : e.kind \notin EndKinds /\ Post(e)
<1>1. Waits => LastWord' BY <1>0, LastWordWaits
<1>2. CASE Worker /\ ~Join /\ ~Calibrate
  <2>1. /\ UNCHANGED <<extraction_widget, calibration_widget>>
        /\ wpc \notin {"calibrate", "returned"} /\ wpc' \notin {"calibrate", "returned"}
        /\ UNCHANGED events \/ Post(Event("SetLiveStreamImage", NoPoints))
    BY <1>2 DEF Worker, Start, ReadFrame, LeaveLoop, CheckExtraction, CopyHandoff,
                ClearNewExtraction, SetExtract, Draw, WakeExtraction, dataVars, guiVars
  <2>2. /\ Event("SetLiveStreamImage", NoPoints) \in Events
        /\ Event("SetLiveStreamImage", NoPoints).kind \notin EndKinds
    <3>1. Event("SetLiveStreamImage", NoPoints).kind \notin EndKinds BY DEF Event, EndKinds
    <3> QED BY <3>1, EventsType
  <2> QED BY <1>1, <2>1, <2>2
<1>3. CASE Join
  <2> DEFINE e == Event("Transition", NoPoints)
  <2>1. e \in Events /\ e.kind = "Transition" BY EventsType DEF Event
  <2>2. /\ Post(e) /\ wpc' = "calibrate" /\ wpc \notin {"calibrate", "returned"}
        /\ UNCHANGED <<extraction_widget, calibration_widget>>
    BY <1>3 DEF Join, dataVars, guiVars
  <2> HIDE DEF e
  <2>3. /\ Len(events') = Len(events) + 1 /\ Len(events) \in Nat
        /\ events'[Len(events')] = e /\ \A i \in 1 .. Len(events) : events'[i] = events[i]
    BY <1>0, <2>1, <2>2, QueueIndices
  <2>4. \A i \in 1 .. Len(events') : i \in 1 .. Len(events) \/ i = Len(events')
    BY <2>3
  <2>5. \A i \in 1 .. Len(events) : ~AnEnd(events, i) BY <2>2 DEF LastWord
  <2>6. \A i \in 1 .. Len(events') : ~AnEnd(events', i)
    BY <2>1, <2>3, <2>4, <2>5 DEF AnEnd, EndKinds
  <2>7. Len(events') \in 1 .. Len(events') /\ ATransition(events', Len(events'))
    <3>1. Len(events') \in 1 .. Len(events') BY <2>3
    <3> QED BY <2>1, <2>3, <3>1 DEF ATransition
  <2> QED BY <2>2, <2>6, <2>7 DEF LastWord
<1>4. CASE Calibrate
  <2>1. PICK e \in Events : e.kind \in EndKinds /\ Post(e)
    <3>1. Event("Result", NoPoints) \in Events /\ Event("Error", NoPoints) \in Events
      BY EventsType
    <3>2. /\ Event("Result", NoPoints).kind \in EndKinds
          /\ Event("Error", NoPoints).kind \in EndKinds
      BY DEF Event, EndKinds
    <3> QED BY <1>4, <3>1, <3>2 DEF Calibrate
  <2>2. /\ wpc = "calibrate" /\ wpc' = "returned"
        /\ UNCHANGED <<extraction_widget, calibration_widget>>
    BY <1>4 DEF Calibrate, guiVars
  <2>3. /\ Len(events') = Len(events) + 1 /\ Len(events) \in Nat
        /\ \A i \in 1 .. Len(events) : events'[i] = events[i]
    BY <1>0, <2>1, QueueIndices
  <2>4. \A i \in 1 .. Len(events') : i \in 1 .. Len(events) \/ i = Len(events')
    BY <2>3
  <2>5. \A i \in 1 .. Len(events) : i \in 1 .. Len(events') /\ ~AnEnd(events, i)
    <3>1. \A i \in 1 .. Len(events) : i \in 1 .. Len(events') BY <2>3
    <3> QED BY <2>2, <3>1 DEF LastWord
  <2>6. \A i \in 1 .. Len(events') : AnEnd(events', i) => i = Len(events')
    BY <2>3, <2>4, <2>5 DEF AnEnd
  <2>7. extraction_widget = "shown" => \E i \in 1 .. Len(events') : ATransition(events', i)
    BY <2>2, <2>3, <2>5 DEF LastWord, ATransition
  <2>8. calibration_widget \in {"hidden", "calibrating"} BY <2>2 DEF LastWord
  <2> QED BY <2>2, <2>6, <2>7, <2>8 DEF LastWord
<1>5. CASE Extraction
  <2>1. wpc \notin {"calibrate", "returned"} /\ wpc' = wpc
    BY <1>5, ExtractionFrame DEF Joined
  <2>2. UNCHANGED <<extraction_widget, calibration_widget>>
    BY <1>5 DEF Extraction, Begin, EstimateFirstPose, Test, Wait, Recheck, Extract,
           DecideBasic, DecideTimed, DecidePose, CalibrationThrows, Save,
           SuggestAfterSave, ResetAcquire, Publish, dataVars, guiVars
  <2>3. \/ UNCHANGED events
        \/ Post(Event("AddTimerWidget", NoPoints))
        \/ Post(Event("AddExtractionItem", currently_extracted_image_))
    BY <1>5 DEF Extraction, Begin, EstimateFirstPose, Test, Wait, Recheck, Extract,
           DecideBasic, DecideTimed, DecidePose, CalibrationThrows, Save,
           SuggestAfterSave, ResetAcquire, Publish
  <2>4. /\ Event("AddTimerWidget", NoPoints) \in Events
        /\ Event("AddExtractionItem", currently_extracted_image_) \in Events
    BY EventsType DEF TypeOK, HandoffType
  <2>5. \A p : /\ Event("AddTimerWidget", p).kind \notin EndKinds
               /\ Event("AddExtractionItem", p).kind \notin EndKinds
    BY DEF Event, EndKinds
  <2> QED BY <1>1, <2>1, <2>2, <2>3, <2>4, <2>5
<1>6. CASE Transition
  <2>1. /\ Take("Transition") /\ extraction_widget' = "deleted"
        /\ calibration_widget' = "calibrating" /\ UNCHANGED wpc
    BY <1>6 DEF Transition, threadVars
  <2>2. \A i \in 1 .. Len(events') : AnEnd(events', i) => wpc = "returned" /\ i = Len(events')
    BY <1>0, <2>1, LastWordTaken
  <2> QED BY <2>1, <2>2 DEF LastWord
<1>7. CASE EndCalibration
  <2>1. PICK k \in EndKinds : Take(k) /\ UNCHANGED <<wpc, extraction_widget>>
                              /\ calibration_widget' \in {"result", "error"}
    BY <1>7 DEF EndCalibration, EndKinds, threadVars
  <2>2. /\ extraction_widget = "deleted" /\ wpc = "returned"
        /\ calibration_widget = "calibrating" /\ Len(events) = 1
    BY <2>1, HeadFound
  <2>3. Len(events') = 0
    <3>1. Len(events') = Len(events) - 1 BY <1>0, <2>1, QueueIndices
    <3> QED BY <2>2, <3>1
  <2>4. \A i \in 1 .. Len(events') : FALSE BY <2>3
  <2> QED BY <2>1, <2>2, <2>4 DEF LastWord
<1>8. CASE SetLiveStreamImage \/ AddExtractionItem \/ AddTimerWidget
  <2>1. PICK k \in {"SetLiveStreamImage", "AddExtractionItem", "AddTimerWidget"} : Take(k)
    BY <1>8 DEF SetLiveStreamImage, AddExtractionItem, AddTimerWidget
  <2>2. UNCHANGED <<wpc, extraction_widget, calibration_widget>>
    BY <1>8 DEF SetLiveStreamImage, AddExtractionItem, AddTimerWidget, threadVars
  <2>3. /\ events[1].kind = k
        /\ \A i \in 1 .. Len(events') : AnEnd(events', i) =>
               /\ wpc = "returned" /\ i = Len(events')
               /\ calibration_widget \in {"hidden", "calibrating"}
        /\ \A i \in 1 .. Len(events) : i = 1 \/ (ATransition(events, i) =>
               \E j \in 1 .. Len(events') : ATransition(events', j))
    BY <1>0, <2>1, LastWordTaken
  <2>4. ~ATransition(events, 1) BY <2>1, <2>3 DEF ATransition
  <2> QED BY <2>2, <2>3, <2>4 DEF LastWord
<1>9. CASE User \/ Stopped \/ UNCHANGED vars
  <2>1. UNCHANGED <<wpc, events, extraction_widget, calibration_widget>>
    BY <1>9 DEF User, PressDone, PressCapture, PressOnGoneRunner, Stopped, vars,
                dataVars, guiVars, threadVars
  <2> QED BY <2>1 DEF LastWord, AnEnd, ATransition
<1> QED BY <1>2, <1>3, <1>4, <1>5, <1>6, <1>7, <1>8, <1>9 DEF Next, EventLoop

\* In every mode the session is a view as CalibrationView promises: every item is
\* added before the progress bar is shown, no step but the transition shows that,
\* and one result replaces it and stays.
THEOREM SessionView == Spec => View!Spec
<1>1. Init => View!Init /\ LastWord /\ QueueInv
  BY DEF Init, View!Init, LastWord, QueueInv
<1>2. ASSUME TypeOK, Joined, QueueInv, LastWord, [Next]_vars
      PROVE  [View!Next]_View!view
  <2>1. CASE SetLiveStreamImage \/ AddTimerWidget
    BY <2>1 DEF SetLiveStreamImage, AddTimerWidget, View!view
  <2>2. CASE AddExtractionItem
    <3>1. calibration_widget = "hidden" /\ calibration_widget' = calibration_widget
      <4>1. Take("AddExtractionItem") /\ calibration_widget' = calibration_widget
        BY <2>2 DEF AddExtractionItem
      <4>2. "AddExtractionItem" \notin EndKinds BY DEF EndKinds
      <4> QED BY <1>2, <4>1, <4>2, HeadFound
    <3>2. CASE UNCHANGED items
      BY <3>1, <3>2 DEF View!view
    <3>3. ASSUME NEW p, items' = Append(items, p) PROVE View!AddItem
      <4>1. items' # <<>> /\ items' = Append(items, items'[Len(items')])
        <5>1. items \in Seq(Points) BY <1>2 DEF TypeOK, GuiType
        <5> QED BY <3>3, <5>1
      <4> QED BY <3>1, <4>1 DEF View!AddItem
    <3> QED BY <2>2, <3>2, <3>3 DEF AddExtractionItem, View!Next
  <2>3. CASE Transition
    <3>1. calibration_widget = "hidden"
      <4>1. Take("Transition") BY <2>3 DEF Transition
      <4>2. "Transition" \notin EndKinds BY DEF EndKinds
      <4> QED BY <1>2, <4>1, <4>2, HeadFound
    <3>2. calibration_widget' = "calibrating" /\ UNCHANGED items
      BY <2>3 DEF Transition
    <3> QED BY <3>1, <3>2 DEF View!StartProgress, View!Next
  <2>4. CASE EndCalibration
    <3>1. calibration_widget = "calibrating"
      <4>1. PICK k \in EndKinds : Take(k) BY <2>4 DEF EndCalibration, EndKinds
      <4> QED BY <1>2, <4>1, HeadFound
    <3>2. calibration_widget' \in {"result", "error"} /\ UNCHANGED items
      BY <2>4 DEF EndCalibration
    <3> QED BY <3>1, <3>2 DEF View!ShowCalibration, View!ShowMessage, View!Next
  <2>5. CASE Worker \/ Extraction \/ User \/ Stopped \/ UNCHANGED vars
    <3>1. UNCHANGED <<items, calibration_widget>>
      <4>1. CASE Worker
        BY <4>1 DEF Worker, Start, ReadFrame, LeaveLoop, CheckExtraction, CopyHandoff,
                    ClearNewExtraction, SetExtract, Draw, WakeExtraction, Join, Calibrate,
                    dataVars, guiVars
      <4>2. CASE Extraction
        BY <4>2 DEF Extraction, Begin, EstimateFirstPose, Test, Wait, Recheck, Extract,
                    DecideBasic, DecideTimed, DecidePose, CalibrationThrows, Save,
                    SuggestAfterSave, ResetAcquire, Publish, dataVars, guiVars
      <4>3. CASE User \/ Stopped \/ UNCHANGED vars
        BY <4>3 DEF User, PressDone, PressCapture, PressOnGoneRunner, Stopped,
                    vars, dataVars, guiVars
      <4> QED BY <2>5, <4>1, <4>2, <4>3
    <3> QED BY <3>1 DEF View!view
  <2> QED BY <1>2, <2>1, <2>2, <2>3, <2>4, <2>5 DEF Next, EventLoop
<1> QED
  BY <1>1, <1>2, QueueStep, LastWordStep, TypeCorrect, JoinedAlways, PTL DEF Spec, View!Spec
=============================================================================
