-------------------------- MODULE CalibrationWidget --------------------------
(***************************************************************************)
(* CalibrationWidget and the event queue it is fed through.  A runner's    *)
(* worker thread never touches the widget's children: it posts functors,   *)
(* and the GUI thread runs them in the order they were posted.  A functor  *)
(* is the record of the call it makes.  `fault' names the first thing that *)
(* ends the process from inside a functor.                                 *)
(***************************************************************************)
EXTENDS Integers, Sequences

CONSTANT
    Messages   \* what CalibrationResultWidget(message) can say

VARIABLES
    events,               \* posted functors, oldest first
    items,                \* children of extraction_images_
    progress,             \* does calibration_widget_ hold the progress bar?
    result,               \* what calibration_widget_ shows at the end
    calibration_ended_,
    target_visualizer_,   \* has SetTargetVisualizer been called?
    fault

widgetVars == <<items, progress, result, calibration_ended_, fault>>

WidgetInit ==
    /\ events = <<>> /\ items = <<>> /\ progress = FALSE /\ result = "none"
    /\ calibration_ended_ = FALSE /\ target_visualizer_ = FALSE
    /\ fault = "none"

Post(event) == events' = Append(events, event)

ItemEvent(item) == [call |-> "AddExtractionItem", arg |-> item]
StartEvent == [call |-> "StartCalibration"]
EndEvent(res) == [call |-> "EndCalibration", arg |-> res]

\* The head of the queue is a call of this name.
Due(call) == fault = "none" /\ events # <<>> /\ Head(events).call = call

\* SetTargetVisualizer is not deferred: the worker makes the call itself.
SetTargetVisualizer == target_visualizer_' = TRUE

\* Builds the item's widget with the visualizer, which it dereferences, and
\* adds it unless the calibration has ended.
AddExtractionItem ==
    /\ Due("AddExtractionItem")
    /\ events' = Tail(events)
    /\ IF target_visualizer_
       THEN /\ items' = IF calibration_ended_ THEN items ELSE Append(items, Head(events).arg)
            /\ UNCHANGED fault
       ELSE fault' = "null target visualizer" /\ UNCHANGED items
    /\ UNCHANGED <<progress, result, calibration_ended_, target_visualizer_>>

StartCalibration ==
    /\ Due("StartCalibration")
    /\ events' = Tail(events) /\ progress' = TRUE
    /\ UNCHANGED <<items, result, calibration_ended_, target_visualizer_, fault>>

EndCalibration ==
    /\ Due("EndCalibration")
    /\ events' = Tail(events)
    /\ calibration_ended_' = TRUE
    /\ progress' = FALSE            \* calibration_widget_ is deleted and made anew
    /\ result' = Head(events).arg
    /\ UNCHANGED <<items, target_visualizer_, fault>>

RunFunctor == AddExtractionItem \/ StartCalibration \/ EndCalibration

View == INSTANCE CalibrationView
=============================================================================
