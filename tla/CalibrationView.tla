--------------------------- MODULE CalibrationView ---------------------------
(***************************************************************************)
(* What the user is promised of a calibration's view, whichever runner     *)
(* feeds it: extraction items appear one after the other, then a progress  *)
(* bar, then one result that stays.  A calibration is only shown after the *)
(* progress bar; a message may come at any point.                          *)
(***************************************************************************)
EXTENDS Sequences

CONSTANT Messages   \* the results that are not a calibration

VARIABLES
    items,      \* the extraction items shown, oldest first
    progress,   \* is the progress bar shown?
    result      \* "none", "calibration" or one of Messages

view == <<items, progress, result>>

Init == items = <<>> /\ progress = FALSE /\ result = "none"

AddItem ==
    /\ result = "none" /\ ~progress
    /\ items' # <<>> /\ items' = Append(items, items'[Len(items')])
    /\ UNCHANGED <<progress, result>>

StartProgress ==
    /\ result = "none" /\ ~progress /\ progress' = TRUE
    /\ UNCHANGED <<items, result>>

ShowCalibration ==
    /\ result = "none" /\ progress
    /\ result' = "calibration" /\ progress' = FALSE
    /\ UNCHANGED items

ShowMessage ==
    /\ result = "none" /\ result' \in Messages /\ progress' = FALSE
    /\ UNCHANGED items

Next == AddItem \/ StartProgress \/ ShowCalibration \/ ShowMessage

Spec == Init /\ [][Next]_view
=============================================================================
