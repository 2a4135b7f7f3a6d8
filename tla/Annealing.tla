------------------------------ MODULE Annealing ------------------------------
(***************************************************************************)
(* SimulatedAnnealing, turn by turn, for one component of the solution     *)
(* (the others are treated alike).  A search is a record of the loop's     *)
(* variables.  Solutions and costs are integers; Unusable is a cost that   *)
(* is NaN or the greatest double.  The code averages over 20 changes and   *)
(* asks for 1e-6; here both are constants.                                 *)
(***************************************************************************)
EXTENDS Integers, Sequences

CONSTANTS
    LowerBound, UpperBound,
    Unusable,      \* greater than any other cost
    AvgLimit,      \* changes of the cost that are averaged
    AvgTolerance

ASSUME BoundsAssumption == LowerBound \in Int /\ UpperBound \in Int /\ LowerBound =< UpperBound
ASSUME AverageAssumption == AvgLimit \in Nat \ {0} /\ AvgTolerance \in Nat /\ Unusable \in Int

Solutions == LowerBound .. UpperBound

Distance(a, b) == IF a < b THEN b - a ELSE a - b

\* NextFunction: a step of at most the temperature, projected to somewhere
\* between the current solution and the bound it would exceed.
NextSolutions(current, temperature) ==
    UNION {IF next < LowerBound THEN LowerBound .. current
           ELSE IF next > UpperBound THEN current .. UpperBound
           ELSE {next} : next \in current - temperature .. current + temperature}

\* cost is evaluated at the start, but minf does not hold its value.
Start(x, cost) ==
    [x |-> x, minf |-> Unusable, cost_old |-> cost, cost_new |-> cost,
     rolling_avg_elems |-> <<>>, avg_sum |-> 0, stopped |-> FALSE]

\* CheckRollingAverage: a window of the last changes, their sum, and whether
\* their average asks to stop.
CheckRollingAverage(search, value) ==
    LET elems == Append(search.rolling_avg_elems, value) IN
    IF Len(elems) > AvgLimit
    THEN [search EXCEPT !.rolling_avg_elems = Tail(elems), !.avg_sum = @ + value - Head(elems),
                        !.stopped = search.avg_sum + value - Head(elems) =< AvgTolerance * AvgLimit]
    ELSE [search EXCEPT !.rolling_avg_elems = elems, !.avg_sum = @ + value]

\* exp((cost_old - cost_new) / T) exceeds a random number below 1 surely for
\* equal costs and possibly for greater ones.
Acceptable(search, cost) == IF cost =< search.cost_old THEN {TRUE} ELSE BOOLEAN

\* Mutant: whatever is accepted is kept as the best.
KeepAccepted(search, x_new, cost) ==
    [search EXCEPT !.cost_old = cost, !.minf = cost, !.x = x_new]

Accept(search, x_new, cost) ==
    [search EXCEPT !.cost_old = cost,
                   !.minf = IF cost < @ THEN cost ELSE @,
                   !.x = IF cost < search.minf THEN x_new ELSE @]

\* A turn of the loop with a new solution of a cost, accepted or not.
Turn(search, x_new, cost, accepted) ==
    IF cost = Unusable THEN search
    ELSE CheckRollingAverage(
            [(IF accepted THEN Accept(search, x_new, cost) ELSE search) EXCEPT !.cost_new = cost],
            Distance(search.cost_new, cost))
=============================================================================
