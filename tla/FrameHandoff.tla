---------------------------- MODULE FrameHandoff ----------------------------
(***************************************************************************)
(* What the livestream runner promises about the data its two threads      *)
(* exchange without a lock: it has one owner at a time.  The worker owns   *)
(* it to offer a frame and to copy the last complete result for display,   *)
(* gives it to the extraction thread, and gets it back with a new result.  *)
(***************************************************************************)
CONSTANT Points            \* what a detection may find in a frame

VARIABLES
    owner,                 \* the thread that may touch the other variables
    pixmap,                \* the frame on offer, {} once it was taken away
    result,                \* the points found in it and the suggested pose
    drawn                  \* the worker's copy of a result, on display

vars == <<owner, pixmap, result, drawn>>

Init ==
    /\ owner = "worker"
    /\ pixmap = {}
    /\ result = [points |-> {}, target |-> {}]
    /\ drawn = result

Offer ==
    /\ owner = "worker"
    /\ \E f \in Points : pixmap' = {f}
    /\ drawn' = result
    /\ UNCHANGED <<owner, result>>

Give ==
    /\ owner = "worker"
    /\ owner' = "extraction"
    /\ UNCHANGED <<pixmap, result, drawn>>

\* Points come from the frame on offer; a suggested pose is any pose.
Detect ==
    /\ owner = "extraction"
    /\ \/ \E f \in pixmap : result' = [result EXCEPT !.points = f]
       \/ \E p \in Points : result' = [result EXCEPT !.target = p]
    /\ UNCHANGED <<owner, pixmap, drawn>>

TakeFrame ==
    /\ owner = "extraction"
    /\ pixmap' = {}
    /\ UNCHANGED <<owner, result, drawn>>

Return ==
    /\ owner = "extraction"
    /\ owner' = "worker"
    /\ UNCHANGED <<pixmap, result, drawn>>

Next == Offer \/ Give \/ Detect \/ TakeFrame \/ Return

Spec == Init /\ [][Next]_vars

=============================================================================
