---------------------------- MODULE RelativePose ----------------------------
(***************************************************************************)
(* EstimateRelativePose: the pose of camera 2 relative to camera 1, from   *)
(* the target's pose in each camera, view by view.  Rotations are left     *)
(* out: along one axis of a rig without rotation a pose is a number, the   *)
(* product of two poses their sum and the inverse the negation, so the     *)
(* relative pose camera 1 -> camera 2 of a view is pose2 - pose1.  The     *)
(* components of the estimate are computed independently of each other,    *)
(* each as done here for one.  Estimates are counted in halves, since the  *)
(* code may average two values.                                            *)
(***************************************************************************)
EXTENDS Integers, Sequences, FiniteSets

\* A component of every view's relative pose.
Component(abs_poses1, abs_poses2) ==
    [i \in DOMAIN abs_poses1 |-> abs_poses2[i] - abs_poses1[i]]

Below(vec, x) == Cardinality({i \in DOMAIN vec : vec[i] < x})
UpTo(vec, x) == Cardinality({i \in DOMAIN vec : vec[i] =< x})

\* The value at 0-based position k once vec is sorted.
Sorted(vec, k) == CHOOSE x \in {vec[i] : i \in DOMAIN vec} : Below(vec, x) =< k /\ k < UpTo(vec, x)

\* nth_element puts the right value at position k; those behind it are the
\* greater ones, in any order, so each of them may be the next.
Behind(vec, k) == {Sorted(vec, j) : j \in k + 1 .. Len(vec) - 1}

\* Mutant: the vector is not sorted.
MediansUnsorted(vec) ==
    LET median_idx == Len(vec) \div 2 IN
    IF Len(vec) % 2 = 0
    THEN {2 * vec[median_idx + 1]}
    ELSE {Sorted(vec, median_idx) + next : next \in Behind(vec, median_idx)}

\* Twice the values the code can compute for one component.
Medians(vec) ==
    LET median_idx == Len(vec) \div 2 IN
    IF Len(vec) % 2 = 0
    THEN {2 * Sorted(vec, median_idx)}
    ELSE {Sorted(vec, median_idx) + next : next \in Behind(vec, median_idx)}

\* Twice the estimates possible.  One view gives pose1 * Inverse(pose2), from
\* camera 2 to camera 1; more give the median.
EstimateRelativePose(abs_poses1, abs_poses2) ==
    IF Len(abs_poses1) = 1 THEN {2 * (abs_poses1[1] - abs_poses2[1])}
    ELSE Medians(Component(abs_poses1, abs_poses2))
=============================================================================
