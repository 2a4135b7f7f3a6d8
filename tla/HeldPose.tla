------------------------------ MODULE HeldPose ------------------------------
(***************************************************************************)
(* The hands-free mode of the livestream runner with a history: what was   *)
(* detected since the last save, and the pose the timer was started for.   *)
(***************************************************************************)
EXTENDS LivestreamRunner

VARIABLES
    held,      \* the tracker's target when the last image was saved
    seen       \* the results published since

heldVars == <<vars, held, seen>>

HeldInit == Init /\ held = NoPoints /\ seen = {}

HeldNext ==
    /\ Next
    /\ IF images' # images
       THEN held' = tracker.target /\ seen' = {}
       ELSE /\ UNCHANGED held
            /\ seen' = IF epc = "publish" /\ epc' = "head"
                       THEN seen \cup {currently_extracted_image_}
                       ELSE seen

HeldSpec == HeldInit /\ [][HeldNext]_heldVars

\* A target that is held still is saved once: between two saves some pass saw no
\* target, or saw it away from the pose the first save was timed for
\* (RunTimedExtraction remembers that pose and forces the tracker unstable).
HeldPoseSavedOnce ==
    [][(images' # images /\ images # <<>>)
           => \E points \in seen : ~Match(points, held)]_heldVars

=============================================================================
