---------------------------- MODULE UtilityProofs ----------------------------
(***************************************************************************)
(* Theorems about the parts of the program that serve the others: the      *)
(* signals the livestream's threads share, for any set of threads, and     *)
(* what Algorithms shows on bounded inputs, for every input.               *)
(***************************************************************************)
EXTENDS Algorithms, AutoResetSignal, FiniteSetTheorems, FunctionTheorems, SequenceTheorems,
        WellFoundedInduction, TLAPS

-----------------------------------------------------------------------------
(* AutoResetSignal keeps its promise.  Type correctness and mutual         *)
(* exclusion are inductive together once a thread that holds the mutex     *)
(* says so (MutexHeld); that no wake-up is lost needs besides that only    *)
(* threads in Wait or WaitFor sleep, and that a thread is pending until it *)
(* is about to unlock (Progress).                                          *)

MutexHeld == \A t \in Threads : Holds(t) => mutex_

Progress ==
    \A t \in Threads :
        /\ pc[t] = "out" <=> call[t] = "none"
        /\ pc[t] \in {"lock", "locked", "asleep"} => result[t] = "pending"
        /\ pc[t] = "unlock" => result[t] # "pending"
        /\ pc[t] = "asleep" => call[t] \in Waits

Safe == TypeOK /\ MutualExclusion /\ MutexHeld /\ Progress

LEMMA SafeInit == SignalInit => Safe
<1> SUFFICES ASSUME SignalInit PROVE Safe
  OBVIOUS
<1>1. TypeOK
  BY Zenon DEF SignalInit, TypeOK
<1>2. \A t \in Threads : pc[t] = "out" /\ call[t] = "none"
  BY DEF SignalInit
<1> QED
  BY <1>1, <1>2 DEF Safe, MutualExclusion, MutexHeld, Progress, Holds

LEMMA SafeStep == Safe /\ [SignalNext]_vars => Safe'
<1> SUFFICES ASSUME Safe, [SignalNext]_vars PROVE Safe'
  OBVIOUS
<1> USE DEF Safe, TypeOK, MutualExclusion, MutexHeld, Progress, Holds, Calls, Waits, GoTo
<1>1. ASSUME NEW t \in Threads, Invoke(t) PROVE Safe'
  BY <1>1 DEF Invoke
<1>2. ASSUME NEW t \in Threads, Lock(t) PROVE Safe'
  BY <1>2 DEF Lock
<1>3. ASSUME NEW t \in Threads, Set(t) PROVE Safe'
  <2>1. CASE Asleep = {} /\ GoTo(t, "unlock")
    BY <1>3, <2>1 DEF Set, Running, Finish
  <2>2. ASSUME NEW s \in Asleep, pc' = [pc EXCEPT ![t] = "unlock", ![s] = "lock"]
        PROVE Safe'
    BY <1>3, <2>2 DEF Set, Running, Finish, Asleep
  <2> QED
    BY <1>3, <2>1, <2>2 DEF Set
<1>4. ASSUME NEW t \in Threads, Reset(t) PROVE Safe'
  BY <1>4 DEF Reset, Running, Finish
<1>5. ASSUME NEW t \in Threads, Take(t) PROVE Safe'
  BY <1>5 DEF Take, Running, Finish
<1>6. ASSUME NEW t \in Threads, GiveUp(t) PROVE Safe'
  BY <1>6 DEF GiveUp, Running, Finish
<1>7. ASSUME NEW t \in Threads, Sleep(t) PROVE Safe'
  <2>1. \A s \in Threads : s # t => ~Holds(s)
    BY <1>7 DEF Sleep, Running
  <2>2. /\ pc'[t] = "asleep" /\ call[t] \in Waits /\ result[t] = "pending"
        /\ \A s \in Threads : s # t => pc'[s] = pc[s]
        /\ UNCHANGED <<call, result>>
    BY <1>7 DEF Sleep, Running
  <2>3. TypeOK'
    BY <1>7 DEF Sleep
  <2>4. MutualExclusion' /\ MutexHeld'
    BY <2>1, <2>2
  <2>5. Progress'
    BY <2>2
  <2> QED
    BY <2>3, <2>4, <2>5
<1>8. ASSUME NEW t \in Threads, Unlock(t) PROVE Safe'
  <2>1. \A s \in Threads : s # t => ~Holds(s)
    BY <1>8 DEF Unlock
  <2>2. /\ pc'[t] = "out" /\ call'[t] = "none"
        /\ \A s \in Threads : s # t => pc'[s] = pc[s] /\ call'[s] = call[s]
        /\ UNCHANGED result
    BY <1>8 DEF Unlock
  <2>3. TypeOK'
    BY <1>8 DEF Unlock
  <2>4. MutualExclusion' /\ MutexHeld'
    BY <2>1, <2>2
  <2>5. Progress'
    BY <2>2
  <2> QED
    BY <2>3, <2>4, <2>5
<1>9. ASSUME NEW t \in Threads, WakeSpuriously(t) PROVE Safe'
  BY <1>9 DEF WakeSpuriously
<1>10. ASSUME NEW t \in Threads, TimeOut(t) PROVE Safe'
  BY <1>10 DEF TimeOut
<1>11. CASE UNCHANGED vars
  BY <1>11 DEF vars
<1> QED
  BY <1>1, <1>2, <1>3, <1>4, <1>5, <1>6, <1>7, <1>8, <1>9, <1>10, <1>11 DEF SignalNext, Proceed

\* The flag is read and written by one thread at a time, and the variables
\* keep their types.
THEOREM Exclusion == SignalSpec => []MutualExclusion /\ []TypeOK
<1>1. Safe => MutualExclusion /\ TypeOK
  BY DEF Safe
<1> QED
  BY SafeInit, SafeStep, <1>1, PTL DEF SignalSpec

LEMMA LostInit == SignalInit => NoLostWakeup
  BY DEF SignalInit, NoLostWakeup, Asleep

LEMMA LostStep == Safe /\ NoLostWakeup /\ [SignalNext]_vars => NoLostWakeup'
<1> SUFFICES ASSUME Safe, NoLostWakeup, [SignalNext]_vars, flag_', Asleep' # {}
             PROVE \E t \in Threads : pc'[t] \in {"lock", "locked"} /\ call'[t] \in Waits
  BY DEF NoLostWakeup
<1> USE DEF Safe, TypeOK, MutualExclusion, MutexHeld, Progress, Holds, NoLostWakeup, Asleep,
            Waits, Calls, GoTo
<1>1. ASSUME NEW t \in Threads, Invoke(t)
      PROVE \E w \in Threads : pc'[w] \in {"lock", "locked"} /\ call'[w] \in Waits
  BY <1>1 DEF Invoke
<1>2. ASSUME NEW t \in Threads, Lock(t)
      PROVE \E w \in Threads : pc'[w] \in {"lock", "locked"} /\ call'[w] \in Waits
  BY <1>2 DEF Lock
<1>3. ASSUME NEW t \in Threads, Set(t)
      PROVE \E w \in Threads : pc'[w] \in {"lock", "locked"} /\ call'[w] \in Waits
  <2>1. CASE Asleep = {} /\ GoTo(t, "unlock")
    BY <1>3, <2>1 DEF Set, Running, Finish
  <2>2. ASSUME NEW s \in Asleep, pc' = [pc EXCEPT ![t] = "unlock", ![s] = "lock"]
        PROVE pc'[s] \in {"lock", "locked"} /\ call'[s] \in Waits
    BY <1>3, <2>2 DEF Set, Running, Finish
  <2> QED
    BY <1>3, <2>1, <2>2 DEF Set
<1>4. ASSUME NEW t \in Threads, Reset(t) \/ Take(t) PROVE FALSE
  BY <1>4 DEF Reset, Take
<1>5. ASSUME NEW t \in Threads, GiveUp(t) \/ Sleep(t) PROVE FALSE
  BY <1>5 DEF GiveUp, Sleep
<1>6. ASSUME NEW t \in Threads, Unlock(t)
      PROVE \E w \in Threads : pc'[w] \in {"lock", "locked"} /\ call'[w] \in Waits
  BY <1>6 DEF Unlock
<1>7. ASSUME NEW t \in Threads, WakeSpuriously(t) \/ TimeOut(t)
      PROVE \E w \in Threads : pc'[w] \in {"lock", "locked"} /\ call'[w] \in Waits
  BY <1>7 DEF WakeSpuriously, TimeOut
<1>8. CASE UNCHANGED vars
  BY <1>8 DEF vars
<1> QED
  BY <1>1, <1>2, <1>3, <1>4, <1>5, <1>6, <1>7, <1>8 DEF SignalNext, Proceed

\* While the flag is up and a thread sleeps on it, a thread that will test the
\* flag is awake.
THEOREM NoneLost == SignalSpec => []NoLostWakeup
  BY SafeInit, SafeStep, LostInit, LostStep, PTL DEF SignalSpec

LEMMA PromiseInit == SignalInit => Promise!Init
  BY DEF SignalInit, Promise!Init

LEMMA PromiseStep == Safe /\ [SignalNext]_vars => [Promise!Next]_(Promise!signal)
<1> SUFFICES ASSUME Safe, [SignalNext]_vars PROVE Promise!Next \/ UNCHANGED Promise!signal
  OBVIOUS
<1> USE DEF Safe, TypeOK, Progress, Running, Finish, Promise!Pending, Promise!Finish
<1>1. ASSUME NEW t \in Threads, Invoke(t) PROVE Promise!Invoke(t)
  BY <1>1 DEF Invoke, Promise!Invoke, Calls, Promise!Calls
<1>2. ASSUME NEW t \in Threads, Set(t) PROVE Promise!Set(t)
  BY <1>2 DEF Set, Promise!Set
<1>3. ASSUME NEW t \in Threads, Reset(t) PROVE Promise!Reset(t)
  BY <1>3 DEF Reset, Promise!Reset
<1>4. ASSUME NEW t \in Threads, Take(t) PROVE Promise!Take(t)
  BY <1>4 DEF Take, Promise!Take, Waits, Promise!Waits
<1>5. ASSUME NEW t \in Threads, GiveUp(t) PROVE Promise!GiveUp(t)
  BY <1>5 DEF GiveUp, Promise!GiveUp
<1>6. ASSUME NEW t \in Threads, Unlock(t) PROVE Promise!Return(t)
  BY <1>6 DEF Unlock, Promise!Return
<1>7. ASSUME NEW t \in Threads, Lock(t) \/ Sleep(t) \/ WakeSpuriously(t) \/ TimeOut(t)
      PROVE UNCHANGED Promise!signal
  BY <1>7 DEF Lock, Sleep, WakeSpuriously, TimeOut, Promise!signal
<1>8. CASE UNCHANGED vars
  BY <1>8 DEF vars, Promise!signal
<1> QED
  BY <1>1, <1>2, <1>3, <1>4, <1>5, <1>6, <1>7, <1>8 DEF SignalNext, Proceed, Promise!Next

\* Every call takes effect at one instant between invocation and return.
THEOREM Atomic == SignalSpec => Linearizable
  BY SafeInit, SafeStep, PromiseInit, PromiseStep, PTL DEF SignalSpec, Linearizable, Promise!Spec

-----------------------------------------------------------------------------
(* Annealing *)

Searches == [x : Solutions, minf : Int, cost_old : Int, cost_new : Int,
             rolling_avg_elems : Seq(Int), avg_sum : Int, stopped : BOOLEAN]

Annealings == [of : {"annealing"}, cost : [Solutions -> Costs], turns : Nat,
               accepted : SUBSET Solutions, totals : Seq(Int), search : Searches]

\* minf is the least cost of what was accepted, and that of x.
Best(cost, accepted, search) ==
    /\ \A x \in accepted : cost[x] # Unusable /\ search.minf =< cost[x]
    /\ accepted = {} => search.minf = Unusable
    /\ accepted # {} => search.x \in accepted /\ search.minf = cost[search.x]

\* The changes of the cost that are averaged, of so many totals.
Window(n) == IF n - 1 =< AvgLimit THEN n - 1 ELSE AvgLimit

\* The elements averaged are the last changes, and avg_sum is their sum.
Averaged(totals, elems, avg_sum) ==
    /\ Len(totals) >= 1
    /\ Len(elems) = Window(Len(totals))
    /\ avg_sum = totals[Len(totals)] - totals[Len(totals) - Window(Len(totals))]
    /\ \A i \in 1 .. Len(elems) :
          elems[i] = totals[Len(totals) - Len(elems) + i] - totals[Len(totals) - Len(elems) + i - 1]

AnnealingInv(s) ==
    s.of = "annealing" =>
        /\ s \in Annealings
        /\ Best(s.cost, s.accepted, s.search)
        /\ Averaged(s.totals, s.search.rolling_avg_elems, s.search.avg_sum)

\* NextFunction stays within the bounds.
LEMMA NextWithin ==
    ASSUME NEW current \in Solutions, NEW temperature \in Int
    PROVE  NextSolutions(current, temperature) \subseteq Solutions
BY BoundsAssumption DEF NextSolutions, Solutions

\* A change averaged before and after a turn: the window moves by one.
LEMMA WindowMoves ==
    ASSUME NEW totals \in Seq(Int), NEW elems \in Seq(Int), NEW avg_sum \in Int, NEW value \in Int,
           NEW search \in Searches, search.rolling_avg_elems = elems, search.avg_sum = avg_sum,
           Averaged(totals, elems, avg_sum)
    PROVE  LET next == CheckRollingAverage(search, value)
               longer == Append(totals, totals[Len(totals)] + value)
           IN /\ next \in Searches
              /\ next.x = search.x /\ next.minf = search.minf
              /\ longer \in Seq(Int)
              /\ Averaged(longer, next.rolling_avg_elems, next.avg_sum)
<1> DEFINE longer == Append(totals, totals[Len(totals)] + value)
           next == CheckRollingAverage(search, value)
           more == Append(elems, value)
           n == Len(totals)
           m == Len(elems)
<1>1. /\ n \in Nat /\ n >= 1 /\ m \in Nat /\ m = Window(n)
      /\ totals \in [1 .. n -> Int] /\ elems \in [1 .. m -> Int]
  BY DEF Averaged
<1>0. n \in Nat /\ n >= 1 /\ m \in Nat
  BY <1>1
<1>2. /\ longer \in Seq(Int) /\ Len(longer) = n + 1 /\ longer[n + 1] = totals[n] + value
      /\ \A i \in 1 .. n : longer[i] = totals[i]
  BY <1>1
<1>3. /\ more \in Seq(Int) /\ Len(more) = m + 1 /\ more[m + 1] = value
      /\ \A i \in 1 .. m : more[i] = elems[i]
  BY <1>1
<1>4. /\ avg_sum = totals[n] - totals[n - m]
      /\ \A i \in 1 .. m : elems[i] = totals[n - m + i] - totals[n - m + i - 1]
  BY <1>1 DEF Averaged
<1>5. AvgLimit \in Nat /\ AvgLimit >= 1
  BY AverageAssumption
<1>6. m = (IF n - 1 =< AvgLimit THEN n - 1 ELSE AvgLimit)
  BY <1>1 DEF Window
<1>7. \A i \in 1 .. m + 1 : more[i] = longer[n - m + i] - longer[n - m + i - 1]
  <2> SUFFICES ASSUME NEW i \in 1 .. m + 1
               PROVE  more[i] = longer[n - m + i] - longer[n - m + i - 1]
    OBVIOUS
  <2> HIDE DEF longer, more, n, m
  <2>1. n - m >= 1
    BY <1>1, <1>5, <1>6
  <2>2. CASE i = m + 1
    <3>1. n - m + i = n + 1 /\ n - m + i - 1 = n
      BY <2>2, <1>1
    <3>2. longer[n + 1] = totals[n] + value /\ longer[n] = totals[n] /\ totals[n] \in Int
      BY <1>1, <1>2
    <3> QED
      BY <3>1, <3>2, <2>2, <1>3
  <2>3. CASE i \in 1 .. m
    <3> DEFINE j == n - m + i
    <3>0. i \in Int /\ 1 =< i /\ i =< m
      BY <2>3, <1>0
    <3>1. j \in 1 .. n /\ j - 1 \in 1 .. n
      BY <2>1, <3>0, <1>0
    <3>2. longer[j] = totals[j] /\ longer[j - 1] = totals[j - 1]
      BY <3>1, <1>2
    <3>5. n - m + i - 1 = j - 1
      BY <3>0, <1>0
    <3>3. more[i] = elems[i] /\ elems[i] = totals[j] - totals[j - 1]
      <4>1. more[i] = elems[i]
        BY <2>3, <1>3
      <4>2. elems[i] = totals[n - m + i] - totals[n - m + i - 1]
        BY <2>3, <1>4
      <4> QED
        BY <4>1, <4>2, <3>5
    <3>4. more[i] = longer[j] - longer[j - 1]
      <4> HIDE DEF j
      <4> QED
        BY <3>2, <3>3
    <3> QED
      BY <3>4, <3>5
  <2> QED
    BY <1>1, <2>2, <2>3
<1>8. CASE Len(more) > AvgLimit
  <2> DEFINE elems_ == Tail(more)
  <2>1. next = [search EXCEPT !.rolling_avg_elems = elems_,
                              !.avg_sum = @ + value - Head(more),
                              !.stopped = search.avg_sum + value - Head(more)
                                             =< AvgTolerance * AvgLimit]
    BY <1>8 DEF CheckRollingAverage
  <2>2. /\ elems_ \in Seq(Int) /\ Len(elems_) = m /\ \A i \in 1 .. m : elems_[i] = more[i + 1]
        /\ Head(more) = more[1] /\ more[1] \in Int
    <3>1. more # <<>>
      <4>1. Len(more) >= 1
        BY <1>0, <1>3
      <4> HIDE DEF more
      <4> QED
        BY <4>1
    <3>2. elems_ \in Seq(Int) /\ Len(elems_) = m
      BY <3>1, <1>1, <1>3, HeadTailProperties
    <3>3. \A i \in 1 .. m : elems_[i] = more[i + 1]
      BY <3>1, <1>1, <1>3, HeadTailProperties
    <3>4. Head(more) = more[1]
      BY <3>1, <1>3
    <3>5. more[1] \in Int
      <4>1. 1 \in 1 .. m + 1 /\ \A i \in 1 .. m + 1 : more[i] \in Int
        BY <1>1, <1>3
      <4> HIDE DEF more, m
      <4> QED
        BY <4>1
    <3> HIDE DEF more, m, elems_
    <3> QED
      BY <3>2, <3>3, <3>4, <3>5
  <2>3. m = AvgLimit /\ n - 1 >= AvgLimit /\ Window(n + 1) = AvgLimit
    <3> HIDE DEF m, n, more
    <3> QED
      BY <1>8, <1>1, <1>3, <1>5, <1>6 DEF Window
  <2>4. AvgTolerance * AvgLimit \in Int
    BY AverageAssumption
  <2>5. /\ next \in Searches /\ next.x = search.x /\ next.minf = search.minf
        /\ next.rolling_avg_elems = elems_ /\ next.avg_sum = avg_sum + value - more[1]
    <3>1. next.avg_sum = avg_sum + value - more[1] /\ next.avg_sum \in Int
      BY <2>1, <2>2 DEF Searches
    <3>2. next.stopped \in BOOLEAN
      BY <2>1 DEF Searches
    <3>3. next.rolling_avg_elems = elems_ /\ next.x = search.x /\ next.minf = search.minf
          /\ next.cost_old = search.cost_old /\ next.cost_new = search.cost_new
      BY <2>1 DEF Searches
    <3>4. next = [x |-> next.x, minf |-> next.minf, cost_old |-> next.cost_old,
                  cost_new |-> next.cost_new, rolling_avg_elems |-> next.rolling_avg_elems,
                  avg_sum |-> next.avg_sum, stopped |-> next.stopped]
      BY <2>1 DEF Searches
    <3> HIDE DEF next, elems_
    <3> QED
      BY <3>1, <3>2, <3>3, <3>4, <2>2 DEF Searches
  <2>6. avg_sum + value - more[1] = longer[n + 1] - longer[n + 1 - m]
    <3> HIDE DEF m, n, more, longer
    <3>1. more[1] = longer[n - m + 1] - longer[n - m]
      <4>1. 1 \in 1 .. m + 1 /\ n - m + 1 - 1 = n - m
        BY <1>0
      <4>2. more[1] = longer[n - m + 1] - longer[n - m + 1 - 1]
        BY <1>7, <4>1
      <4> QED
        BY <4>1, <4>2
    <3>2. n - m \in 1 .. n /\ n - m + 1 = n + 1 - m
      BY <1>1, <1>5, <1>6
    <3>3. longer[n - m] = totals[n - m]
      BY <3>2, <1>2
    <3>4. totals[n] \in Int /\ totals[n - m] \in Int /\ longer[n + 1 - m] \in Int
      BY <3>2, <1>1, <1>2
    <3>5. more[1] = longer[n + 1 - m] - totals[n - m]
      BY <3>1, <3>2, <3>3
    <3>6. avg_sum = totals[n] - totals[n - m] /\ longer[n + 1] = totals[n] + value
      BY <1>2, <1>4
    <3>7. ASSUME NEW a \in Int, NEW b \in Int, NEW c \in Int
          PROVE  a - b + value - (c - b) = a + value - c
      OBVIOUS
    <3> QED
      BY <3>4, <3>5, <3>6, <3>7
  <2>7. \A i \in 1 .. m : elems_[i] = longer[n + 1 - m + i] - longer[n + 1 - m + i - 1]
    <3> SUFFICES ASSUME NEW i \in 1 .. m
                 PROVE  elems_[i] = longer[n + 1 - m + i] - longer[n + 1 - m + i - 1]
      OBVIOUS
    <3> HIDE DEF m, n, more, longer, elems_
    <3>1. elems_[i] = more[i + 1] /\ i + 1 \in 1 .. m + 1
      BY <2>2, <1>1
    <3>2. more[i + 1] = longer[n - m + (i + 1)] - longer[n - m + (i + 1) - 1]
      BY <3>1, <1>7
    <3>3. n - m + (i + 1) = n + 1 - m + i /\ n - m + (i + 1) - 1 = n + 1 - m + i - 1
      BY <1>1
    <3> QED
      BY <3>1, <3>2, <3>3
  <2>8. Averaged(longer, elems_, avg_sum + value - more[1])
    <3> HIDE DEF longer, elems_, more, m, n
    <3>1. Len(longer) = n + 1 /\ Len(elems_) = m /\ n + 1 >= 1
      BY <2>2, <1>0, <1>2
    <3>2. Len(longer) = n + 1 /\ Len(elems_) = m /\ Window(Len(longer)) = m /\ n + 1 >= 1
      BY <2>3, <3>1
    <3> QED
      BY <3>2, <2>6, <2>7, <1>0 DEF Averaged
  <2> QED
    BY <2>5, <2>8, <1>2
<1>9. CASE ~(Len(more) > AvgLimit)
  <2>1. next = [search EXCEPT !.rolling_avg_elems = more, !.avg_sum = @ + value]
    BY <1>9 DEF CheckRollingAverage
  <2>2. /\ next \in Searches /\ next.x = search.x /\ next.minf = search.minf
        /\ next.rolling_avg_elems = more /\ next.avg_sum = avg_sum + value
    <3>1. next.avg_sum = avg_sum + value /\ next.avg_sum \in Int
      BY <2>1 DEF Searches
    <3>2. next.rolling_avg_elems = more /\ next.x = search.x /\ next.minf = search.minf
          /\ next.cost_old = search.cost_old /\ next.cost_new = search.cost_new
          /\ next.stopped = search.stopped
      BY <2>1 DEF Searches
    <3>3. next = [x |-> next.x, minf |-> next.minf, cost_old |-> next.cost_old,
                  cost_new |-> next.cost_new, rolling_avg_elems |-> next.rolling_avg_elems,
                  avg_sum |-> next.avg_sum, stopped |-> next.stopped]
      BY <2>1 DEF Searches
    <3> HIDE DEF next, more
    <3> QED
      BY <3>1, <3>2, <3>3, <1>3 DEF Searches
  <2>3. m = n - 1 /\ Window(n + 1) = n
    <3> HIDE DEF m, n, more
    <3> QED
      BY <1>9, <1>1, <1>3, <1>5, <1>6 DEF Window
  <2>4. longer[1] = totals[1] /\ totals[1] \in Int /\ totals[n] \in Int
    BY <1>1, <1>2
  <2>5. avg_sum + value = longer[n + 1] - longer[1]
    <3> HIDE DEF m, n, more, longer
    <3>1. n - m = 1
      BY <2>3, <1>0
    <3>2. avg_sum = totals[n] - totals[1] /\ longer[n + 1] = totals[n] + value
      BY <3>1, <1>2, <1>4
    <3>3. ASSUME NEW a \in Int, NEW b \in Int PROVE a - b + value = a + value - b
      OBVIOUS
    <3> QED
      BY <2>4, <3>2, <3>3
  <2>6. Averaged(longer, more, avg_sum + value)
    <3>1. \A i \in 1 .. Len(more) :
             more[i] = longer[Len(longer) - Len(more) + i] - longer[Len(longer) - Len(more) + i - 1]
      <4>1. Len(longer) - Len(more) = n - m /\ Len(more) = m + 1
        BY <2>3, <1>1, <1>2, <1>3
      <4> HIDE DEF m, n, more, longer
      <4> QED
        BY <4>1, <1>7
    <3>2. Len(more) = Window(Len(longer)) /\ Len(longer) - Window(Len(longer)) = 1 /\ Len(longer) >= 1
      <4> HIDE DEF m, n, more, longer
      <4> QED
        BY <2>3, <1>1, <1>2, <1>3
    <3> HIDE DEF m, n, more, longer
    <3> QED
      BY <3>1, <3>2, <2>5, <1>2 DEF Averaged
  <2> QED
    BY <2>2, <2>6, <1>2
<1> QED
  BY <1>8, <1>9


\* What is accepted on a turn leaves x the best of it.
LEMMA BestAccepted ==
    ASSUME NEW cost \in [Solutions -> Costs], NEW accepted \in SUBSET Solutions,
           NEW search \in Searches, NEW x_new \in Solutions, cost[x_new] # Unusable,
           Best(cost, accepted, search)
    PROVE  /\ Accept(search, x_new, cost[x_new]) \in Searches
           /\ Best(cost, accepted \cup {x_new}, Accept(search, x_new, cost[x_new]))
<1> DEFINE c == cost[x_new]
           next == Accept(search, x_new, c)
<1>1. c \in Int /\ c =< Unusable /\ c # Unusable /\ Unusable \in Int
  BY NumbersAssumption, AverageAssumption
<1>2. search.minf \in Int /\ search.x \in Solutions
  BY DEF Searches
<1>3. /\ next.minf = (IF c < search.minf THEN c ELSE search.minf)
      /\ next.x = (IF c < search.minf THEN x_new ELSE search.x)
      /\ next.cost_old = c /\ next.cost_new = search.cost_new
      /\ next.rolling_avg_elems = search.rolling_avg_elems
      /\ next.avg_sum = search.avg_sum /\ next.stopped = search.stopped
      /\ next = [x |-> next.x, minf |-> next.minf, cost_old |-> next.cost_old,
                 cost_new |-> next.cost_new, rolling_avg_elems |-> next.rolling_avg_elems,
                 avg_sum |-> next.avg_sum, stopped |-> next.stopped]
  <2>1. next = [search EXCEPT !.cost_old = c,
                              !.minf = IF c < @ THEN c ELSE @,
                              !.x = IF c < search.minf THEN x_new ELSE @]
    BY DEF Accept
  <2> HIDE DEF next, c
  <2>2. next = [x |-> IF c < search.minf THEN x_new ELSE search.x,
                minf |-> IF c < search.minf THEN c ELSE search.minf,
                cost_old |-> c, cost_new |-> search.cost_new,
                rolling_avg_elems |-> search.rolling_avg_elems,
                avg_sum |-> search.avg_sum, stopped |-> search.stopped]
    BY <2>1 DEF Searches
  <2> QED
    BY <2>2
<1>4. next \in Searches
  <2> HIDE DEF next, c
  <2> QED
    BY <1>1, <1>2, <1>3 DEF Searches
<1>5. \A x \in accepted : cost[x] \in Int
  BY NumbersAssumption
<1>6. Best(cost, accepted \cup {x_new}, next)
  <2>1. CASE c < search.minf
    <3>1. next.minf = c /\ next.x = x_new
      BY <1>3, <2>1
    <3>2. \A x \in accepted : cost[x] # Unusable /\ c =< cost[x]
      <4> HIDE DEF c
      <4> QED
        BY <1>1, <1>2, <1>5, <2>1 DEF Best
    <3> HIDE DEF next
    <3> QED
      BY <1>1, <3>1, <3>2 DEF Best
  <2>2. CASE ~(c < search.minf)
    <3>1. next.minf = search.minf /\ next.x = search.x
      BY <1>3, <2>2
    <3>2. search.minf =< c
      <4> HIDE DEF c
      <4> QED
        BY <1>1, <1>2, <2>2
    <3>3. accepted # {}
      <4> HIDE DEF c
      <4> QED
        BY <1>1, <3>2 DEF Best
    <3> HIDE DEF next
    <3> QED
      BY <1>1, <3>1, <3>2, <3>3 DEF Best
  <2> QED
    BY <2>1, <2>2
<1> QED
  BY <1>4, <1>6

-----------------------------------------------------------------------------
(* Layouts.  The loop's place in a row is beyond what lies in the row, and *)
(* the row below what lies above it; the row's height is that of its       *)
(* highest picture.  The loop that only measures is at the same place,     *)
(* counted from another corner.                                            *)

Rects == [x : Int, y : Int, width : Int, height : Int]
Places == [x : Int, y : Int, lineHeight : Nat, placed : Seq(Rects)]
Layouts == [of : {"layout"}, items : Seq(Pictures), rect : Rects, measured : Places, set : Places]

\* A picture in its place, where it ends.
Bottom(r) == r.y + r.height
RightEnd(r) == r.x + r.width

\* What the loop has laid out of n pictures.
Within(area, at, items) ==
    \A i \in DOMAIN at.placed :
        LET r == at.placed[i] IN
        /\ area.x =< r.x /\ RightEnd(r) =< RightEnd(area) /\ area.y =< r.y
        /\ r.width =< items[i].width
        /\ Bottom(r) =< at.y + at.lineHeight
        /\ Bottom(r) =< at.y \/ RightEnd(r) =< at.x

NoneOverlap(placed) == \A i, k \in DOMAIN placed : i # k => ~Overlap(placed[i], placed[k])

Row(area, at) ==
    /\ area.x =< at.x /\ area.y =< at.y
    /\ IF at.placed = <<>> THEN at.x = area.x /\ at.lineHeight = 0
       ELSE /\ at.lineHeight > 0
            /\ \E i \in DOMAIN at.placed : Bottom(at.placed[i]) = at.y + at.lineHeight

LayoutInv(s) ==
    s.of = "layout" =>
        /\ s \in Layouts
        /\ s.rect.width \in Widths
        /\ Len(s.items) = Len(s.set.placed)
        /\ /\ s.measured.x + s.rect.x = s.set.x
           /\ s.measured.y + s.rect.y = s.set.y
           /\ s.measured.lineHeight = s.set.lineHeight
        /\ Within(Effective(s.rect), s.set, s.items)
        /\ NoneOverlap(s.set.placed)
        /\ Row(Effective(s.rect), s.set)

\* Quotient and remainder.
LEMMA Division ==
    ASSUME NEW a \in Nat, NEW w \in Nat \ {0}
    PROVE  a % w \in 0 .. w - 1 /\ a \div w \in Nat /\ a = (a \div w) * w + (a % w)
OBVIOUS

\* Pictures as wide as fill the row are no wider than they ask to be.
LEMMA RowFilled ==
    ASSUME NEW width \in Nat \ {0}, NEW item \in Pictures
    PROVE  /\ TargetWidth(width, item) \in Int
           /\ TargetWidth(width, item) =< item.width
           /\ 0 =< TargetWidth(width, item) + SpaceX
           /\ TargetWidth(width, item) + SpaceX =< width
<1> DEFINE d == item.width + SpaceX
           c == (width + d - 1) \div d
           q == width \div c
<1>1. item.width \in Nat \ {0} /\ SpaceX \in Nat
  BY LayoutAssumption, SpacingAssumption DEF Pictures
<1>2. d \in Nat \ {0}
  BY <1>1
<1>3. TargetWidth(width, item) = q - SpaceX /\ item.width = d - SpaceX
  BY <1>1 DEF TargetWidth, CeilDiv
<1> HIDE DEF d
<1>4. c \in Nat \ {0} /\ width =< c * d
  <2>1. PICK r \in 0 .. d - 1 : c \in Nat /\ width + d - 1 = c * d + r
    <3>1. width + d - 1 \in Nat
      BY <1>2
    <3> QED
      BY <1>2, <3>1, Division
  <2> HIDE DEF c
  <2>2. c * d \in Int
    BY <1>2, <2>1
  <2>3. width =< c * d
    BY <1>2, <2>1, <2>2
  <2>4. c # 0
    <3> SUFFICES ASSUME c = 0 PROVE FALSE
      OBVIOUS
    <3>1. c * d = 0
      BY <1>2
    <3> QED
      BY <2>3, <3>1
  <2> QED
    BY <2>1, <2>3, <2>4
<1> HIDE DEF c
<1>5. PICK r \in 0 .. c - 1 : q \in Nat /\ width = q * c + r
  BY <1>4, Division
<1> HIDE DEF q
<1>6. q =< d
  <2> SUFFICES ASSUME q >= d + 1 PROVE FALSE
    BY <1>2, <1>5
  <2>1. q * c >= (d + 1) * c
    BY <1>2, <1>4, <1>5
  <2>2. (d + 1) * c = c * d + c
    BY <1>2, <1>4
  <2>3. c * d \in Int /\ q * c \in Int /\ c \in Int /\ c >= 1
    BY <1>2, <1>4, <1>5
  <2> QED
    BY <1>4, <1>5, <2>1, <2>2, <2>3
<1>7. q =< width
  <2>1. q * c >= q
    BY <1>4, <1>5
  <2> QED
    BY <1>4, <1>5, <2>1
<1> QED
  BY <1>1, <1>2, <1>3, <1>5, <1>6, <1>7

\* What a turn of the loop does with a picture scaled to w and h.
OneTurn(rect, at, item, w, h) ==
    LET area == Effective(rect)
        wraps == at.x + w > Right(area) /\ at.lineHeight > 0
        r == [x |-> IF wraps THEN area.x ELSE at.x,
              y |-> IF wraps THEN at.y + at.lineHeight + SpaceY ELSE at.y,
              width |-> w, height |-> h]
    IN /\ area.x = rect.x + Margin /\ area.y = rect.y + Margin
       /\ area.width = rect.width - 2 * Margin /\ area.width \in Nat \ {0}
       /\ Right(area) = area.x + area.width - 1
       /\ area.x \in Int /\ area.y \in Int
       /\ w \in Int /\ h \in Nat \ {0} /\ r \in Rects
       /\ w =< item.width /\ 0 =< w + SpaceX /\ w + SpaceX =< area.width
       /\ Place(rect, at, item)
             = [x |-> r.x + w + SpaceX, y |-> r.y,
                lineHeight |-> IF ~wraps /\ h =< at.lineHeight THEN at.lineHeight ELSE h,
                placed |-> Append(at.placed, r)]
       /\ Place(rect, at, item) \in Places

\* The numbers of the picture are as they are scaled.
LEMMA OnePicture ==
    ASSUME NEW rect \in Rects, rect.width \in Widths, NEW at \in Places, NEW item \in Pictures,
           NEW w, w = TargetWidth(rect.width - 2 * Margin, item),
           NEW h, h = TargetHeight(rect.width - 2 * Margin, item)
    PROVE  OneTurn(rect, at, item, w, h)
<1> DEFINE area == Effective(rect)
           wraps == at.x + w > Right(area) /\ at.lineHeight > 0
           r == [x |-> IF wraps THEN area.x ELSE at.x,
                 y |-> IF wraps THEN at.y + at.lineHeight + SpaceY ELSE at.y,
                 width |-> w, height |-> h]
<1>1. /\ rect.x \in Int /\ rect.y \in Int /\ rect.width \in Nat /\ rect.width > 2 * Margin
      /\ Margin \in Nat /\ SpaceX \in Nat /\ SpaceY \in Nat
      /\ TargetHeight(rect.width - 2 * Margin, item) > 0
      /\ item.width \in Nat \ {0} /\ item.height \in Nat \ {0}
  BY LayoutAssumption, SpacingAssumption DEF Rects, Pictures
<1>2. /\ at.x \in Int /\ at.y \in Int /\ at.lineHeight \in Nat /\ at.placed \in Seq(Rects)
  BY DEF Places
<1>3. /\ area.x = rect.x + Margin /\ area.y = rect.y + Margin
      /\ area.width = rect.width - 2 * Margin
      /\ Right(area) = area.x + area.width - 1
  BY DEF Effective, Right
<1>4. area.width \in Nat \ {0} /\ area.x \in Int /\ area.y \in Int
  BY <1>1, <1>3
<1>5. w \in Int /\ w =< item.width /\ 0 =< w + SpaceX /\ w + SpaceX =< area.width
  BY <1>3, <1>4, RowFilled
<1>6. h \in Nat \ {0}
  <2>1. h > 0
    BY <1>1, <1>3
  <2>2. h = (item.height * w) \div item.width
    BY DEF TargetHeight
  <2>3. item.height * w \in Int
    BY <1>1, <1>5
  <2>4. h \in Int
    BY <1>1, <2>2, <2>3
  <2> QED
    BY <2>1, <2>4
<1>7. Place(rect, at, item)
         = [x |-> r.x + w + SpaceX, y |-> r.y,
            lineHeight |-> IF (IF wraps THEN 0 ELSE at.lineHeight) < h
                           THEN h ELSE (IF wraps THEN 0 ELSE at.lineHeight),
            placed |-> Append(at.placed, r)]
  BY <1>3 DEF Place
<1> DEFINE lh == IF (IF wraps THEN 0 ELSE at.lineHeight) < h
                 THEN h ELSE (IF wraps THEN 0 ELSE at.lineHeight)
<1>8. r.x = (IF wraps THEN area.x ELSE at.x)
      /\ r.y = (IF wraps THEN at.y + at.lineHeight + SpaceY ELSE at.y)
  OBVIOUS
<1> HIDE DEF area, wraps
<1>9. r \in Rects
  <2>1. (IF wraps THEN area.x ELSE at.x) \in Int
    BY <1>2, <1>4
  <2>2. (IF wraps THEN at.y + at.lineHeight + SpaceY ELSE at.y) \in Int
    BY <1>1, <1>2
  <2>3. w \in Int /\ h \in Int
    BY <1>5, <1>6
  <2> QED
    BY <2>1, <2>2, <2>3 DEF Rects
<1>10. lh = (IF ~wraps /\ h =< at.lineHeight THEN at.lineHeight ELSE h) /\ lh \in Nat
  BY <1>2, <1>6
<1>11. r.x + w + SpaceX \in Int /\ r.y \in Int
  <2> HIDE DEF r
  <2>1. r.x \in Int /\ r.y \in Int
    BY <1>1, <1>2, <1>4, <1>8
  <2> QED
    BY <1>1, <1>5, <2>1
<1> HIDE DEF r, lh
<1>12. Append(at.placed, r) \in Seq(Rects)
  BY <1>2, <1>9
<1>13. [x |-> r.x + w + SpaceX, y |-> r.y, lineHeight |-> lh, placed |-> Append(at.placed, r)] \in Places
  BY <1>10, <1>11, <1>12 DEF Places
<1>14. Place(rect, at, item) = [x |-> r.x + w + SpaceX, y |-> r.y, lineHeight |-> lh,
                                placed |-> Append(at.placed, r)]
  BY <1>7 DEF lh, r
<1> QED
  BY <1>3, <1>4, <1>5, <1>6, <1>9, <1>10, <1>13, <1>14 DEF OneTurn, area, wraps, r

\* What a turn of the loop keeps of what is laid out.
LEMMA PictureFits ==
    ASSUME NEW rect \in Rects, rect.width \in Widths, NEW at \in Places, NEW item \in Pictures,
           NEW items \in Seq(Pictures), Len(items) = Len(at.placed),
           Within(Effective(rect), at, items), NoneOverlap(at.placed), Row(Effective(rect), at)
    PROVE  LET next == Place(rect, at, item) IN
           /\ Within(Effective(rect), next, Append(items, item))
           /\ NoneOverlap(next.placed)
           /\ Row(Effective(rect), next)
<1> DEFINE area == Effective(rect)
           w == TargetWidth(rect.width - 2 * Margin, item)
           h == TargetHeight(rect.width - 2 * Margin, item)
           wraps == at.x + w > Right(area) /\ at.lineHeight > 0
           r == [x |-> IF wraps THEN area.x ELSE at.x,
                 y |-> IF wraps THEN at.y + at.lineHeight + SpaceY ELSE at.y,
                 width |-> w, height |-> h]
           next == Place(rect, at, item)
           n == Len(at.placed)
<1>1. /\ area.width \in Nat \ {0} /\ Right(area) = area.x + area.width - 1
      /\ area.x \in Int /\ area.y \in Int
      /\ w \in Int /\ h \in Nat \ {0} /\ r \in Rects
      /\ w =< item.width /\ 0 =< w + SpaceX /\ w + SpaceX =< area.width
      /\ next = [x |-> r.x + w + SpaceX, y |-> r.y,
                 lineHeight |-> IF ~wraps /\ h =< at.lineHeight THEN at.lineHeight ELSE h,
                 placed |-> Append(at.placed, r)]
  <2>1. OneTurn(rect, at, item, w, h)
    BY OnePicture
  <2> QED
    BY <2>1 DEF OneTurn
<1>2. /\ r.x = (IF wraps THEN area.x ELSE at.x) /\ r.width = w /\ r.height = h
      /\ r.y = (IF wraps THEN at.y + at.lineHeight + SpaceY ELSE at.y)
  OBVIOUS
<1>3. /\ at.x \in Int /\ at.y \in Int /\ at.lineHeight \in Nat /\ at.placed \in Seq(Rects)
      /\ SpaceX \in Nat /\ SpaceY \in Nat /\ n \in Nat
      /\ DOMAIN at.placed = 1 .. n /\ DOMAIN items = 1 .. n
      /\ \A i \in 1 .. n : at.placed[i] \in Rects /\ items[i] \in Pictures
  BY SpacingAssumption DEF Places
<1> HIDE DEF area, w, h, wraps, r, next
<1>4. /\ next.x = r.x + w + SpaceX /\ next.y = r.y /\ next.placed = Append(at.placed, r)
      /\ next.lineHeight = (IF ~wraps /\ h =< at.lineHeight THEN at.lineHeight ELSE h)
  BY <1>1
<1> HIDE DEF n
<1>5. /\ DOMAIN next.placed = 1 .. n + 1 /\ next.placed # <<>>
      /\ \A i \in 1 .. n : next.placed[i] = at.placed[i] /\ Append(items, item)[i] = items[i]
      /\ next.placed[n + 1] = r /\ Append(items, item)[n + 1] = item
  BY <1>3, <1>4 DEF n
<1>6. wraps <=> at.x + w > area.x + area.width - 1 /\ at.lineHeight > 0
  BY <1>1 DEF wraps
<1>7. area.x =< at.x /\ area.y =< at.y /\ (at.lineHeight = 0 => at.x = area.x)
  <2>1. Row(area, at)
    BY DEF area
  <2> QED
    BY <1>3, <2>1 DEF Row
<1>9. /\ r.x \in Int /\ r.y \in Int /\ next.x \in Int /\ next.y \in Int /\ next.lineHeight \in Nat
  <2>1. r.x \in Int /\ r.y \in Int
    BY <1>1 DEF Rects
  <2>2. next.lineHeight \in Nat
    BY <1>1, <1>3, <1>4
  <2> QED
    BY <1>1, <1>3, <1>4, <2>1, <2>2
\* The picture is inside the area, below the row above or beyond the row's pictures.
<1>8. /\ area.x =< r.x /\ r.x + w =< area.x + area.width /\ area.y =< r.y
      /\ area.x =< next.x /\ r.x + w =< next.x
      /\ at.y =< r.y /\ r.y + h =< next.y + next.lineHeight
      /\ at.y + at.lineHeight =< next.y + next.lineHeight
      /\ wraps => at.y + at.lineHeight =< r.y
      /\ ~wraps => r.x = at.x /\ r.y = at.y /\ at.x =< next.x
  <2>0. /\ area.width \in Int /\ area.x \in Int /\ w \in Int /\ SpaceX \in Int /\ 0 =< SpaceX
        /\ 0 =< w + SpaceX /\ w + SpaceX =< area.width
    BY <1>1, <1>3
  <2>1. /\ at.y \in Int /\ at.lineHeight \in Int /\ 0 =< at.lineHeight
        /\ SpaceY \in Int /\ 0 =< SpaceY /\ h \in Int /\ 0 < h
    BY <1>1, <1>3
  <2>2. CASE wraps
    <3>1. /\ r.x = area.x /\ r.y = at.y + at.lineHeight + SpaceY
          /\ next.x = r.x + w + SpaceX /\ next.y = r.y /\ next.lineHeight = h
      BY <1>2, <1>4, <2>2
    <3>2. /\ area.x =< r.x /\ r.x + w =< area.x + area.width /\ area.x =< next.x
          /\ r.x + w =< next.x
      <4>1. r.x = area.x /\ next.x = area.x + w + SpaceX
        BY <3>1
      <4> QED
        BY <2>0, <4>1
    <3>3. at.y + at.lineHeight =< r.y
      <4>1. r.y = at.y + at.lineHeight + SpaceY
        BY <3>1
      <4> QED
        BY <2>1, <4>1
    <3>4. area.y =< r.y /\ at.y =< r.y
      <4>1. at.y =< at.y + at.lineHeight
        BY <2>1
      <4>2. area.y \in Int /\ at.y \in Int /\ r.y \in Int /\ at.y + at.lineHeight \in Int
        BY <1>1, <1>9, <2>1
      <4> QED
        BY <1>7, <3>3, <4>1, <4>2
    <3>5. r.y + h =< next.y + next.lineHeight /\ at.y + at.lineHeight =< next.y + next.lineHeight
      <4>1. next.y + next.lineHeight = r.y + h
        BY <3>1
      <4>2. r.y \in Int /\ r.y =< r.y + h
        BY <1>9, <2>1
      <4> QED
        BY <2>1, <3>3, <4>1, <4>2
    <3> QED
      BY <2>2, <3>2, <3>3, <3>4, <3>5, Zenon
  <2>3. CASE ~wraps
    <3>1. /\ r.x = at.x /\ r.y = at.y /\ next.x = r.x + w + SpaceX /\ next.y = r.y
      BY <1>2, <1>4, <2>3
    <3>2. h =< next.lineHeight /\ at.lineHeight =< next.lineHeight
      BY <1>4, <2>1, <2>3
    <3>0. at.x \in Int /\ next.lineHeight \in Int /\ r.x = at.x /\ next.x = at.x + w + SpaceX
      BY <1>3, <1>9, <3>1
    <3>3. r.x + w =< area.x + area.width
      <4>1. CASE at.lineHeight > 0
        <5>1. at.x + w =< area.x + area.width - 1
          BY <1>6, <2>0, <2>3, <3>0, <4>1
        <5> QED
          BY <2>0, <3>0, <5>1
      <4>2. CASE at.lineHeight = 0
        <5>1. at.x = area.x
          BY <1>7, <4>2
        <5> QED
          BY <2>0, <3>0, <5>1
      <4> QED
        BY <2>1, <4>1, <4>2
    <3>4. /\ area.x =< r.x /\ area.x =< next.x /\ r.x + w =< next.x /\ at.x =< next.x
      BY <1>7, <2>0, <3>0
    <3>5. /\ area.y =< r.y /\ at.y =< r.y /\ r.y + h =< next.y + next.lineHeight
          /\ at.y + at.lineHeight =< next.y + next.lineHeight
      <4>1. r.y = at.y /\ next.y = at.y
        BY <3>1
      <4>2. area.y =< at.y /\ at.y =< at.y
        BY <1>7, <2>1
      <4>3. at.y + h =< at.y + next.lineHeight /\ at.y + at.lineHeight =< at.y + next.lineHeight
        BY <2>1, <3>0, <3>2
      <4> QED
        BY <4>1, <4>2, <4>3
    <3> QED
      BY <2>3, <3>1, <3>3, <3>4, <3>5, Zenon
  <2> QED
    BY <2>2, <2>3
<1>10. ASSUME NEW i \in 1 .. n
       PROVE  LET p == at.placed[i] IN
              /\ area.x =< p.x /\ RightEnd(p) =< RightEnd(area) /\ area.y =< p.y
              /\ p.width =< items[i].width
              /\ Bottom(p) =< at.y + at.lineHeight
              /\ Bottom(p) =< at.y \/ RightEnd(p) =< at.x
              /\ Bottom(p) \in Int /\ RightEnd(p) \in Int
  <2>1. Within(area, at, items)
    BY DEF area
  <2>2. at.placed[i].x \in Int /\ at.placed[i].y \in Int
        /\ at.placed[i].width \in Int /\ at.placed[i].height \in Int
    BY <1>3 DEF Rects
  <2>3. Bottom(at.placed[i]) \in Int /\ RightEnd(at.placed[i]) \in Int
    <3>1. Bottom(at.placed[i]) = at.placed[i].y + at.placed[i].height
      BY DEF Bottom
    <3>2. RightEnd(at.placed[i]) = at.placed[i].x + at.placed[i].width
      BY DEF RightEnd
    <3> DEFINE x == at.placed[i].x
               y == at.placed[i].y
               wide == at.placed[i].width
               high == at.placed[i].height
    <3>3. x \in Int /\ y \in Int /\ wide \in Int /\ high \in Int
      BY <2>2
    <3> HIDE DEF x, y, wide, high
    <3>4. y + high \in Int /\ x + wide \in Int
      BY <3>3
    <3> QED
      BY <3>1, <3>2, <3>4 DEF x, y, wide, high
  <2> QED
    BY <1>3, <2>1, <2>3 DEF Within
<1>11. Within(area, next, Append(items, item))
  <2> SUFFICES ASSUME NEW i \in 1 .. n + 1
               PROVE  LET p == next.placed[i] IN
                      /\ area.x =< p.x /\ RightEnd(p) =< RightEnd(area) /\ area.y =< p.y
                      /\ p.width =< Append(items, item)[i].width
                      /\ Bottom(p) =< next.y + next.lineHeight
                      /\ Bottom(p) =< next.y \/ RightEnd(p) =< next.x
    BY <1>5 DEF Within
  <2>1. CASE i \in 1 .. n
    <3> DEFINE p == at.placed[i]
               b == Bottom(p)
               e == RightEnd(p)
    <3>1. next.placed[i] = p /\ Append(items, item)[i] = items[i]
      BY <1>5, <2>1
    <3>2. /\ area.x =< p.x /\ e =< RightEnd(area) /\ area.y =< p.y
          /\ p.width =< items[i].width
          /\ b =< at.y + at.lineHeight /\ (b =< at.y \/ e =< at.x)
          /\ b \in Int /\ e \in Int
      BY <1>10, <2>1
    <3> HIDE DEF b, e
    <3>3. b =< next.y + next.lineHeight /\ (b =< next.y \/ e =< next.x)
      <4>1. CASE wraps
        BY <1>3, <1>4, <1>8, <1>9, <3>2, <4>1
      <4>2. CASE ~wraps
        BY <1>3, <1>4, <1>8, <1>9, <3>2, <4>2
      <4> QED
        BY <4>1, <4>2
    <3> QED
      BY <3>1, <3>2, <3>3 DEF b, e
  <2>2. CASE i = n + 1
    <3>1. next.placed[i] = r /\ Append(items, item)[i] = item
      BY <1>5, <2>2
    <3>2. Bottom(r) = r.y + h /\ RightEnd(r) = r.x + w /\ RightEnd(area) = area.x + area.width
      BY <1>2 DEF Bottom, RightEnd
    <3> QED
      BY <1>1, <1>2, <1>8, <3>1, <3>2
  <2>3. i \in 1 .. n \/ i = n + 1
    BY <1>3
  <2> QED
    BY <2>1, <2>2, <2>3
<1>12. NoneOverlap(next.placed)
  <2>1. ASSUME NEW i \in 1 .. n PROVE ~Overlap(at.placed[i], r) /\ ~Overlap(r, at.placed[i])
    <3> DEFINE p == at.placed[i]
    <3>1. Bottom(p) = p.y + p.height /\ RightEnd(p) = p.x + p.width
      BY DEF Bottom, RightEnd
    <3>2. /\ Bottom(p) =< at.y + at.lineHeight /\ (Bottom(p) =< at.y \/ RightEnd(p) =< at.x)
          /\ Bottom(p) \in Int /\ RightEnd(p) \in Int
      BY <1>10
    <3> HIDE DEF p
    <3>3. Bottom(p) =< r.y \/ RightEnd(p) =< r.x
      <4>1. CASE wraps
        BY <1>3, <1>8, <1>9, <3>2, <4>1
      <4>2. CASE ~wraps
        BY <1>8, <3>2, <4>2
      <4> QED
        BY <4>1, <4>2
    <3>4. ~(r.y < p.y + p.height) \/ ~(r.x < p.x + p.width)
      BY <1>9, <3>1, <3>2, <3>3
    <3> QED
      BY <3>4 DEF Overlap, p
  <2>2. \A i, k \in 1 .. n : i # k => ~Overlap(at.placed[i], at.placed[k])
    BY <1>3 DEF NoneOverlap
  <2>3. ASSUME NEW i \in 1 .. n + 1, NEW k \in 1 .. n + 1, i # k
        PROVE  ~Overlap(next.placed[i], next.placed[k])
    <3>1. (i \in 1 .. n \/ i = n + 1) /\ (k \in 1 .. n \/ k = n + 1)
      BY <1>3
    <3> QED
      BY <1>5, <2>1, <2>2, <2>3, <3>1
  <2> QED
    BY <1>5, <2>3 DEF NoneOverlap
<1>13. Row(area, next)
  <2>1. area.x =< next.x /\ area.y =< next.y /\ next.lineHeight > 0
    BY <1>1, <1>3, <1>4, <1>8, <1>9
  <2>2. \E i \in 1 .. n + 1 : Bottom(next.placed[i]) = next.y + next.lineHeight
    <3>1. CASE ~wraps /\ h =< at.lineHeight
      <4>1. at.placed # <<>>
        <5>1. Row(area, at)
          BY DEF area
        <5> QED
          BY <1>1, <1>3, <3>1, <5>1 DEF Row
      <4>2. PICK i \in 1 .. n : Bottom(at.placed[i]) = at.y + at.lineHeight
        <5>1. Row(area, at)
          BY DEF area
        <5> QED
          BY <1>3, <4>1, <5>1 DEF Row
      <4>3. next.y = at.y /\ next.lineHeight = at.lineHeight
        BY <1>4, <1>8, <3>1
      <4>4. i \in 1 .. n + 1 /\ next.placed[i] = at.placed[i]
        BY <1>3, <1>5
      <4> QED
        BY <4>2, <4>3, <4>4
    <3>2. CASE ~(~wraps /\ h =< at.lineHeight)
      <4>1. Bottom(r) = next.y + next.lineHeight
        BY <1>2, <1>4, <3>2 DEF Bottom
      <4>2. n + 1 \in 1 .. n + 1
        BY <1>3
      <4> QED
        BY <1>5, <4>1, <4>2
    <3> QED
      BY <3>1, <3>2
  <2> QED
    BY <1>5, <2>1, <2>2 DEF Row
<1> QED
  BY <1>11, <1>12, <1>13 DEF area, next

\* Nothing is laid out before the first picture.
LEMMA LayoutBegins == BeginLayout => LayoutInv(subject') /\ subject'.of = "layout"
<1> SUFFICES ASSUME BeginLayout PROVE LayoutInv(subject') /\ subject'.of = "layout"
  OBVIOUS
<1>1. PICK x \in Corners, y \in Corners, width \in Widths :
         subject' = [of |-> "layout", items |-> <<>>,
                     rect |-> [x |-> x, y |-> y, width |-> width, height |-> 0],
                     measured |-> Corner(Measured(width)),
                     set |-> Corner([x |-> x, y |-> y, width |-> width, height |-> 0])]
  BY DEF BeginLayout, Compute
<1> DEFINE rect == [x |-> x, y |-> y, width |-> width, height |-> 0]
           measured == Corner(Measured(width))
           given == Corner(rect)
<1>2. x \in Int /\ y \in Int /\ width \in Int /\ Margin \in Int
  BY LayoutAssumption, SpacingAssumption
<1>3. rect \in Rects /\ rect.width = width /\ rect.x = x /\ rect.y = y
  BY <1>2 DEF Rects
<1>4. /\ measured = [x |-> 0 + Margin, y |-> 0 + Margin, lineHeight |-> 0, placed |-> <<>>]
      /\ given = [x |-> x + Margin, y |-> y + Margin, lineHeight |-> 0, placed |-> <<>>]
      /\ Effective(rect).x = x + Margin /\ Effective(rect).y = y + Margin
  BY DEF Corner, Measured, Effective
<1>5. subject' = [of |-> "layout", items |-> <<>>, rect |-> rect, measured |-> measured, set |-> given]
  BY <1>1
<1> HIDE DEF rect, measured, given
<1>6. measured \in Places /\ given \in Places
  BY <1>2, <1>4 DEF Places
<1>7. /\ measured.x + rect.x = given.x /\ measured.y + rect.y = given.y
      /\ measured.lineHeight = given.lineHeight /\ given.placed = <<>>
  BY <1>2, <1>3, <1>4
<1>8. Row(Effective(rect), given)
  BY <1>2, <1>4 DEF Row
<1>9. Within(Effective(rect), given, <<>>) /\ NoneOverlap(given.placed)
  BY <1>7 DEF Within, NoneOverlap
<1>10. subject' \in Layouts
  BY <1>3, <1>5, <1>6 DEF Layouts
<1> QED
  BY <1>3, <1>5, <1>7, <1>8, <1>9, <1>10 DEF LayoutInv

LEMMA LayoutStep == LayoutInv(subject) /\ LayOut => LayoutInv(subject') /\ subject'.of = "layout"
<1> SUFFICES ASSUME LayoutInv(subject), LayOut PROVE LayoutInv(subject') /\ subject'.of = "layout"
  OBVIOUS
<1>1. PICK s \in Layouts : s = subject
  BY DEF LayOut, LayoutInv
<1>2. /\ s.of = "layout" /\ s.items \in Seq(Pictures) /\ s.rect \in Rects
      /\ s.measured \in Places /\ s.set \in Places
      /\ s = [of |-> s.of, items |-> s.items, rect |-> s.rect, measured |-> s.measured,
              set |-> s.set]
  BY DEF Layouts
<1>3. PICK items \in Seq(Pictures), rect \in Rects, measured \in Places, given \in Places :
         items = s.items /\ rect = s.rect /\ measured = s.measured /\ given = s.set
  BY <1>2
<1>4. /\ rect.width \in Widths /\ Len(items) = Len(given.placed)
      /\ measured.x + rect.x = given.x /\ measured.y + rect.y = given.y
      /\ measured.lineHeight = given.lineHeight
      /\ Within(Effective(rect), given, items) /\ NoneOverlap(given.placed)
      /\ Row(Effective(rect), given)
  BY <1>1, <1>2, <1>3 DEF LayoutInv
<1>5. PICK item \in Pictures :
         subject' = [s EXCEPT !.items = Append(@, item),
                              !.measured = Place(Measured(s.rect.width), @, item),
                              !.set = Place(s.rect, @, item)]
  BY <1>1 DEF LayOut
<1>7. PICK asked \in Rects :
         asked = Measured(rect.width) /\ asked.width = rect.width /\ asked.x = 0 /\ asked.y = 0
  <2>1. rect.width \in Int
    BY DEF Rects
  <2>2. [x |-> 0, y |-> 0, width |-> rect.width, height |-> 0] \in Rects
    BY <2>1 DEF Rects
  <2> QED
    BY <2>2 DEF Measured
<1> DEFINE nextMeasured == Place(asked, measured, item)
           nextSet == Place(rect, given, item)
<1>6. subject' = [of |-> "layout", items |-> Append(items, item), rect |-> rect,
                  measured |-> nextMeasured, set |-> nextSet]
  <2> HIDE DEF nextMeasured, nextSet
  <2>1. subject' = [s EXCEPT !.items = Append(items, item), !.measured = nextMeasured,
                             !.set = nextSet]
    BY <1>3, <1>5, <1>7 DEF nextMeasured, nextSet
  <2>2. s = [of |-> "layout", items |-> items, rect |-> rect, measured |-> measured, set |-> given]
    BY <1>2, <1>3
  <2> QED
    BY <2>1, <2>2
<1> DEFINE area == Effective(rect)
           w == TargetWidth(rect.width - 2 * Margin, item)
           h == TargetHeight(rect.width - 2 * Margin, item)
           wraps == given.x + w > Right(area) /\ given.lineHeight > 0
           measuredArea == Effective(asked)
           measuredWraps == measured.x + w > Right(measuredArea) /\ measured.lineHeight > 0
<1>0. OneTurn(rect, given, item, w, h)
  BY <1>4, OnePicture
<1>8. /\ area.x = rect.x + Margin /\ area.y = rect.y + Margin
      /\ measuredArea.x = Margin /\ measuredArea.y = Margin
      /\ area.width = measuredArea.width /\ area.width \in Nat
      /\ Right(area) = area.x + area.width - 1
      /\ Right(measuredArea) = measuredArea.x + measuredArea.width - 1
      /\ Margin \in Nat /\ w \in Int /\ h \in Nat \ {0}
      /\ nextSet \in Places /\ nextMeasured \in Places
  <2>1. /\ area.x = rect.x + Margin /\ area.y = rect.y + Margin
        /\ area.width = rect.width - 2 * Margin /\ area.width \in Nat
        /\ Right(area) = area.x + area.width - 1 /\ w \in Int /\ h \in Nat \ {0}
        /\ nextSet \in Places
    BY <1>0 DEF OneTurn
  <2>2. /\ measuredArea.x = 0 + Margin /\ measuredArea.y = 0 + Margin
        /\ measuredArea.width = rect.width - 2 * Margin
        /\ Right(measuredArea) = measuredArea.x + measuredArea.width - 1
        /\ nextMeasured \in Places
    <3>1. asked.width - 2 * Margin = rect.width - 2 * Margin
      BY <1>7
    <3>2. OneTurn(asked, measured, item, w, h)
      BY <1>4, <1>7, <3>1, OnePicture
    <3> QED
      BY <1>7, <3>2 DEF OneTurn
  <2> HIDE DEF area, measuredArea, w, h, nextSet, nextMeasured
  <2> QED
    BY <2>1, <2>2, SpacingAssumption
<1>9. /\ nextSet.x = (IF wraps THEN area.x ELSE given.x) + w + SpaceX
      /\ nextSet.y = (IF wraps THEN given.y + given.lineHeight + SpaceY ELSE given.y)
      /\ nextSet.lineHeight = (IF ~wraps /\ h =< given.lineHeight THEN given.lineHeight ELSE h)
      /\ nextSet.placed = Append(given.placed, [x |-> IF wraps THEN area.x ELSE given.x,
                                              y |-> IF wraps THEN given.y + given.lineHeight + SpaceY
                                                    ELSE given.y,
                                              width |-> w, height |-> h])
  BY <1>0 DEF OneTurn
<1>10. /\ nextMeasured.x = (IF measuredWraps THEN measuredArea.x ELSE measured.x) + w + SpaceX
       /\ nextMeasured.y = (IF measuredWraps THEN measured.y + measured.lineHeight + SpaceY
                            ELSE measured.y)
       /\ nextMeasured.lineHeight
             = (IF (IF measuredWraps THEN 0 ELSE measured.lineHeight) < h THEN h
                ELSE IF measuredWraps THEN 0 ELSE measured.lineHeight)
  <2> DEFINE ww == TargetWidth(measuredArea.width, item)
             hh == TargetHeight(measuredArea.width, item)
             wwraps == measured.x + ww > Right(measuredArea) /\ measured.lineHeight > 0
  <2>1. ww = w /\ hh = h
    BY <1>7 DEF Effective
  <2>2. /\ nextMeasured.x = (IF wwraps THEN measuredArea.x ELSE measured.x) + ww + SpaceX
        /\ nextMeasured.y = (IF wwraps THEN measured.y + measured.lineHeight + SpaceY
                             ELSE measured.y)
        /\ nextMeasured.lineHeight
              = (IF (IF wwraps THEN 0 ELSE measured.lineHeight) < hh THEN hh
                 ELSE IF wwraps THEN 0 ELSE measured.lineHeight)
    BY DEF Place
  <2>3. wwraps = measuredWraps
    <3> HIDE DEF ww, w
    <3> QED
      BY <2>1
  <2> HIDE DEF ww, hh, wwraps, w, h, measuredWraps, nextMeasured, measuredArea
  <2> QED
    BY <2>1, <2>2, <2>3
<1> HIDE DEF area, measuredArea, w, h, nextSet, nextMeasured
<1>11. /\ given.x \in Int /\ given.y \in Int /\ given.lineHeight \in Nat /\ given.placed \in Seq(Rects)
       /\ measured.x \in Int /\ measured.y \in Int /\ measured.lineHeight \in Nat
       /\ rect.x \in Int /\ rect.y \in Int /\ SpaceX \in Int /\ SpaceY \in Int
  BY SpacingAssumption DEF Places, Rects
<1> DEFINE mx == measured.x
           my == measured.y
           rx == rect.x
           ry == rect.y
           lh == measured.lineHeight
           wide == area.width
<1>12. /\ mx \in Int /\ my \in Int /\ rx \in Int /\ ry \in Int /\ lh \in Int /\ wide \in Int
       /\ given.x = mx + rx /\ given.y = my + ry /\ given.lineHeight = lh
       /\ area.x = rx + Margin /\ measuredArea.x = Margin
       /\ Right(area) = (rx + Margin) + wide - 1 /\ Right(measuredArea) = Margin + wide - 1
       /\ w \in Int
  BY <1>4, <1>8, <1>11
<1>13. /\ nextMeasured.x + rx = nextSet.x /\ nextMeasured.y + ry = nextSet.y
       /\ nextMeasured.lineHeight = nextSet.lineHeight
  <2>1. /\ (mx + rx) + w > (rx + Margin) + wide - 1 <=> mx + w > Margin + wide - 1
        /\ (Margin + w + SpaceX) + rx = (rx + Margin) + w + SpaceX
        /\ (mx + w + SpaceX) + rx = (mx + rx) + w + SpaceX
        /\ (my + lh + SpaceY) + ry = (my + ry) + lh + SpaceY
    <3>1. /\ mx \in Int /\ my \in Int /\ rx \in Int /\ ry \in Int /\ lh \in Int /\ wide \in Int
          /\ w \in Int /\ Margin \in Int /\ SpaceX \in Int /\ SpaceY \in Int
      BY <1>12, SpacingAssumption
    <3> HIDE DEF mx, my, rx, ry, lh, wide
    <3> QED
      BY <3>1
  <2>2. wraps <=> measuredWraps
    BY <1>12, <2>1
  <2> HIDE DEF wraps, measuredWraps
  <2>3. CASE wraps
    <3>0. 0 < h
      BY <1>8
    <3>1. /\ nextSet.x = (rx + Margin) + w + SpaceX /\ nextSet.y = (my + ry) + lh + SpaceY
          /\ nextSet.lineHeight = h
      BY <1>9, <1>12, <2>3
    <3>2. /\ nextMeasured.x = Margin + w + SpaceX /\ nextMeasured.y = my + lh + SpaceY
          /\ nextMeasured.lineHeight = h
      BY <1>10, <1>12, <2>2, <2>3, <3>0
    <3> HIDE DEF mx, my, rx, ry, lh
    <3> QED
      BY <2>1, <3>1, <3>2
  <2>4. CASE ~wraps
    <3>1. /\ nextSet.x = (mx + rx) + w + SpaceX /\ nextSet.y = my + ry
          /\ nextSet.lineHeight = (IF h =< lh THEN lh ELSE h)
      BY <1>9, <1>12, <2>4
    <3>2. /\ nextMeasured.x = mx + w + SpaceX /\ nextMeasured.y = my
          /\ nextMeasured.lineHeight = (IF h =< lh THEN lh ELSE h)
      <4>1. ~measuredWraps
        BY <2>2, <2>4
      <4>2. /\ nextMeasured.x = mx + w + SpaceX /\ nextMeasured.y = my
            /\ nextMeasured.lineHeight = (IF lh < h THEN h ELSE lh)
        BY <1>10, <4>1
      <4> HIDE DEF lh
      <4>3. (IF lh < h THEN h ELSE lh) = (IF h =< lh THEN lh ELSE h)
        BY <1>8, <1>12
      <4> QED
        BY <4>2, <4>3
    <3> HIDE DEF mx, my, rx, ry, lh
    <3> QED
      BY <2>1, <3>1, <3>2
  <2> QED
    BY <2>3, <2>4
<1> HIDE DEF wraps, measuredWraps
<1>14. Len(Append(items, item)) = Len(nextSet.placed) /\ Append(items, item) \in Seq(Pictures)
  BY <1>4, <1>9, <1>11
<1>15. /\ Within(area, nextSet, Append(items, item)) /\ NoneOverlap(nextSet.placed)
       /\ Row(area, nextSet)
  BY <1>4, PictureFits DEF area, nextSet
<1>16. subject' \in Layouts
  BY <1>6, <1>8, <1>14 DEF Layouts
<1> QED
  BY <1>4, <1>6, <1>13, <1>14, <1>15, <1>16 DEF LayoutInv, area

-----------------------------------------------------------------------------
(* Every input and every step *)

\* As many views of each camera.
PosesInv(s) ==
    s.of = "poses" =>
        /\ s \in [of : {"poses"}, abs_poses1 : Seq(Positions), abs_poses2 : Seq(Positions)]
        /\ Len(s.abs_poses1) = Len(s.abs_poses2) /\ Len(s.abs_poses1) > 0

SubjectInv == AnnealingInv(subject) /\ PosesInv(subject) /\ LayoutInv(subject)

LEMMA AnnealStep == AnnealingInv(subject) /\ Anneal => AnnealingInv(subject') /\ subject'.of = "annealing"
<1> SUFFICES ASSUME AnnealingInv(subject), Anneal
             PROVE  AnnealingInv(subject') /\ subject'.of = "annealing"
  OBVIOUS
<1>1. PICK s \in Annealings : s = subject
  BY DEF Anneal, AnnealingInv
<1>2. s.of = "annealing"
  BY DEF Annealings
<1>3. Best(s.cost, s.accepted, s.search) /\ Averaged(s.totals, s.search.rolling_avg_elems, s.search.avg_sum)
  BY <1>1, <1>2 DEF AnnealingInv
<1>4. MaxTurns - s.turns \in Int /\ s.turns \in Nat
  BY NumbersAssumption DEF Annealings
<1>5. /\ s.search \in Searches /\ s.cost \in [Solutions -> Costs]
      /\ s.accepted \in SUBSET Solutions /\ s.totals \in Seq(Int)
  BY DEF Annealings
<1>6. s.search.x \in Solutions
  BY <1>5 DEF Searches
<1>7. PICK x_new \in NextSolutions(s.search.x, MaxTurns - s.turns), accepted \in BOOLEAN :
         subject' = [s EXCEPT
                       !.turns = @ + 1,
                       !.search = Turn(@, x_new, s.cost[x_new], accepted),
                       !.accepted = IF accepted /\ s.cost[x_new] # Unusable
                                    THEN @ \cup {x_new} ELSE @,
                       !.totals =
                          IF s.cost[x_new] = Unusable THEN @
                          ELSE Append(@, @[Len(@)] + Distance(s.search.cost_new, s.cost[x_new]))]
  <2>1. \A search, c : Acceptable(search, c) \subseteq BOOLEAN
    BY DEF Acceptable
  <2> QED
    <3>1. PICK x_new \in NextSolutions(subject.search.x, MaxTurns - subject.turns) :
             \E accepted \in Acceptable(subject.search, subject.cost[x_new]) :
              subject' = [subject EXCEPT
                             !.turns = @ + 1,
                             !.search = Turn(@, x_new, subject.cost[x_new], accepted),
                             !.accepted = IF accepted /\ subject.cost[x_new] # Unusable
                                          THEN @ \cup {x_new} ELSE @,
                             !.totals =
                                IF subject.cost[x_new] = Unusable THEN @
                                ELSE Append(@, @[Len(@)] + Distance(subject.search.cost_new,
                                                                    subject.cost[x_new]))]
      BY Zenon DEF Anneal
    <3>2. x_new \in NextSolutions(s.search.x, MaxTurns - s.turns)
      BY <1>1, <3>1
    <3>3. PICK accepted \in Acceptable(s.search, s.cost[x_new]) :
             subject' = [s EXCEPT
                             !.turns = @ + 1,
                             !.search = Turn(@, x_new, s.cost[x_new], accepted),
                             !.accepted = IF accepted /\ s.cost[x_new] # Unusable
                                          THEN @ \cup {x_new} ELSE @,
                             !.totals =
                                IF s.cost[x_new] = Unusable THEN @
                                ELSE Append(@, @[Len(@)] + Distance(s.search.cost_new,
                                                                   s.cost[x_new]))]
      BY <1>1, <3>1
    <3>4. accepted \in BOOLEAN
      BY <2>1
    <3> QED
      BY <3>2, <3>3, <3>4
<1>8. x_new \in Solutions
  BY <1>4, <1>6, NextWithin
<1> DEFINE c == s.cost[x_new]
           value == Distance(s.search.cost_new, c)
           search == Turn(s.search, x_new, c, accepted)
           accepted_ == IF accepted /\ c # Unusable THEN s.accepted \cup {x_new} ELSE s.accepted
           totals == IF c = Unusable THEN s.totals
                     ELSE Append(s.totals, s.totals[Len(s.totals)] + value)
<1>9. /\ subject' = [of |-> "annealing", cost |-> s.cost, turns |-> s.turns + 1,
                     accepted |-> accepted_, totals |-> totals, search |-> search]
  BY <1>7 DEF Annealings
<1>10. c \in Int /\ s.search.cost_new \in Int /\ value \in Int
  <2>1. c \in Int
    BY <1>5, <1>8, NumbersAssumption
  <2>2. s.search.cost_new \in Int
    BY <1>5 DEF Searches
  <2> HIDE DEF c
  <2> QED
    BY <2>1, <2>2 DEF Distance
<1>11. /\ search \in Searches /\ accepted_ \in SUBSET Solutions /\ totals \in Seq(Int)
       /\ Best(s.cost, accepted_, search)
       /\ Averaged(totals, search.rolling_avg_elems, search.avg_sum)
  <2>1. CASE c = Unusable
    <3>1. search = s.search /\ accepted_ = s.accepted /\ totals = s.totals
      BY <2>1 DEF Turn
    <3> HIDE DEF search, accepted_, totals
    <3> QED
      BY <3>1, <1>3, <1>5
  <2>2. CASE c # Unusable
    <3> DEFINE taken == IF accepted THEN Accept(s.search, x_new, c) ELSE s.search
               paid == [taken EXCEPT !.cost_new = c]
    <3>1. /\ search = CheckRollingAverage(paid, value)
          /\ totals = Append(s.totals, s.totals[Len(s.totals)] + value)
          /\ accepted_ = (IF accepted THEN s.accepted \cup {x_new} ELSE s.accepted)
      BY <2>2 DEF Turn
    <3>2. /\ taken \in Searches /\ Best(s.cost, accepted_, taken)
          /\ taken.rolling_avg_elems = s.search.rolling_avg_elems
          /\ taken.avg_sum = s.search.avg_sum
      <4>1. CASE accepted
        <5>1. taken = Accept(s.search, x_new, c) /\ accepted_ = s.accepted \cup {x_new}
          BY <2>2, <4>1
        <5>2. taken \in Searches /\ Best(s.cost, accepted_, taken)
          <6> HIDE DEF taken, accepted_
          <6> QED
            BY <2>2, <5>1, <1>3, <1>5, <1>8, BestAccepted
        <5> QED
          BY <5>1, <5>2, <1>5 DEF Accept, Searches
      <4>2. CASE ~accepted
        BY <4>2, <1>3, <1>5
      <4> QED
        BY <4>1, <4>2
    <3> HIDE DEF taken
    <3>3. /\ paid \in Searches /\ paid.x = taken.x /\ paid.minf = taken.minf
          /\ paid.rolling_avg_elems = s.search.rolling_avg_elems
          /\ paid.avg_sum = s.search.avg_sum
      BY <3>2, <1>10 DEF Searches
    <3>4. Best(s.cost, accepted_, paid)
      BY <3>2, <3>3 DEF Best
    <3> HIDE DEF paid, value, c, accepted_, search, totals
    <3>5. s.search.rolling_avg_elems \in Seq(Int) /\ s.search.avg_sum \in Int
      BY <1>5 DEF Searches
    <3>6. /\ search \in Searches /\ search.x = paid.x /\ search.minf = paid.minf
          /\ totals \in Seq(Int)
          /\ Averaged(totals, search.rolling_avg_elems, search.avg_sum)
      BY <3>1, <3>3, <3>5, <1>3, <1>5, <1>10, WindowMoves
    <3>7. Best(s.cost, accepted_, search)
      BY <3>4, <3>6 DEF Best
    <3>8. accepted_ \in SUBSET Solutions
      BY <3>1, <1>5, <1>8
    <3> QED
      BY <3>6, <3>7, <3>8
  <2> QED
    BY <2>1, <2>2
<1> HIDE DEF c, value, search, accepted_, totals
<1>12. /\ subject'.of = "annealing" /\ subject'.cost = s.cost /\ subject'.accepted = accepted_
       /\ subject'.totals = totals /\ subject'.search = search
  BY <1>9
<1>13. subject' \in Annealings
  BY <1>4, <1>5, <1>9, <1>11 DEF Annealings
<1> QED
  BY <1>11, <1>12, <1>13 DEF AnnealingInv

LEMMA AnnealingBegins == BeginAnnealing => AnnealingInv(subject') /\ subject'.of = "annealing"
<1> SUFFICES ASSUME BeginAnnealing PROVE AnnealingInv(subject') /\ subject'.of = "annealing"
  OBVIOUS
<1>1. PICK cost \in [Solutions -> Costs], x \in Solutions :
         subject' = [of |-> "annealing", cost |-> cost, turns |-> 0, accepted |-> {},
                     totals |-> <<0>>, search |-> Start(x, cost[x])]
  BY DEF BeginAnnealing, Compute
<1>2. cost[x] \in Int /\ Unusable \in Int
  BY NumbersAssumption, AverageAssumption
<1>3. /\ Start(x, cost[x]) \in Searches /\ Start(x, cost[x]).minf = Unusable
      /\ Start(x, cost[x]).rolling_avg_elems = <<>> /\ Start(x, cost[x]).avg_sum = 0
  BY <1>2 DEF Start, Searches
<1>4. <<0>> \in Seq(Int) /\ Len(<<0>>) = 1 /\ Len(<<>>) = 0 /\ <<0>>[1] = 0
  OBVIOUS
<1>5. Averaged(<<0>>, <<>>, 0)
  BY <1>4, AverageAssumption DEF Averaged, Window
<1>6. Best(cost, {}, Start(x, cost[x]))
  BY <1>3 DEF Best
<1>7. subject' \in Annealings
  BY <1>1, <1>3, <1>4 DEF Annealings
<1>8. /\ subject'.of = "annealing" /\ subject'.cost = cost /\ subject'.accepted = {}
      /\ subject'.totals = <<0>> /\ subject'.search = Start(x, cost[x])
  BY <1>1
<1> QED
  BY <1>3, <1>5, <1>6, <1>7, <1>8 DEF AnnealingInv

LEMMA PosesStep ==
    PosesInv(subject) /\ SeeTarget => PosesInv(subject') /\ subject'.of = "poses"
<1> SUFFICES ASSUME PosesInv(subject), SeeTarget PROVE PosesInv(subject') /\ subject'.of = "poses"
  OBVIOUS
<1>1. PICK p \in Positions, q \in Positions :
         \/ subject' = [of |-> "poses", abs_poses1 |-> <<p>>, abs_poses2 |-> <<q>>]
         \/ /\ subject.of = "poses"
            /\ subject' = [subject EXCEPT !.abs_poses1 = Append(@, p), !.abs_poses2 = Append(@, q)]
  BY DEF SeeTarget, Compute
<1>2. CASE subject' = [of |-> "poses", abs_poses1 |-> <<p>>, abs_poses2 |-> <<q>>]
  <2>1. <<p>> \in Seq(Positions) /\ <<q>> \in Seq(Positions) /\ Len(<<p>>) = Len(<<q>>) /\ Len(<<p>>) > 0
    OBVIOUS
  <2> QED
    BY <1>2, <2>1 DEF PosesInv
<1>3. CASE /\ subject.of = "poses"
           /\ subject' = [subject EXCEPT !.abs_poses1 = Append(@, p), !.abs_poses2 = Append(@, q)]
  <2>1. /\ subject \in [of : {"poses"}, abs_poses1 : Seq(Positions), abs_poses2 : Seq(Positions)]
        /\ Len(subject.abs_poses1) = Len(subject.abs_poses2)
    BY <1>3 DEF PosesInv
  <2>2. PICK v \in Seq(Positions), w \in Seq(Positions) :
           v = subject.abs_poses1 /\ w = subject.abs_poses2
    BY <2>1
  <2>3. subject' = [of |-> "poses", abs_poses1 |-> Append(v, p), abs_poses2 |-> Append(w, q)]
    BY <1>3, <2>1, <2>2
  <2>4. /\ Append(v, p) \in Seq(Positions) /\ Append(w, q) \in Seq(Positions)
        /\ Len(Append(v, p)) = Len(Append(w, q)) /\ Len(Append(v, p)) > 0
    BY <2>1, <2>2
  <2> QED
    BY <2>3, <2>4 DEF PosesInv
<1> QED
  BY <1>1, <1>2, <1>3

\* The other inputs are of something else.
LEMMA OtherInputs ==
    CalibrateAndImport \/ Detect \/ CompareNames
        => subject'.of \notin {"annealing", "poses", "layout"}
BY DEF CalibrateAndImport, Detect, CompareNames, Compute

\* What is computed keeps the invariant of the kind it is of.
LEMMA SubjectInvariant == Spec => []SubjectInv
<1>1. Init => SubjectInv
  BY DEF Init, Idle, SubjectInv, AnnealingInv, PosesInv, LayoutInv
<1>2. SubjectInv /\ [Next]_subject => SubjectInv'
  <2> SUFFICES ASSUME SubjectInv, [Next]_subject
               PROVE  AnnealingInv(subject') /\ PosesInv(subject') /\ LayoutInv(subject')
    BY DEF SubjectInv
  <2>1. CASE CalibrateAndImport \/ Detect \/ CompareNames
    BY <2>1, OtherInputs DEF AnnealingInv, PosesInv, LayoutInv
  <2>2. CASE BeginLayout
    BY <2>2, LayoutBegins DEF AnnealingInv, PosesInv
  <2>3. CASE LayOut
    BY <2>3, LayoutStep DEF SubjectInv, AnnealingInv, PosesInv
  <2>4. CASE SeeTarget
    BY <2>4, PosesStep DEF SubjectInv, AnnealingInv, LayoutInv
  <2>5. CASE BeginAnnealing
    BY <2>5, AnnealingBegins DEF PosesInv, LayoutInv
  <2>6. CASE Anneal
    BY <2>6, AnnealStep DEF SubjectInv, PosesInv, LayoutInv
  <2>7. CASE UNCHANGED subject
    BY <2>7 DEF SubjectInv
  <2> QED
    BY <2>1, <2>2, <2>3, <2>4, <2>5, <2>6, <2>7 DEF Next
<1> QED
  BY <1>1, <1>2, PTL DEF Spec

\* Reports and boards come in one step and stay.
LEMMA InputsStay ==
    SubjectInv /\ [Next]_subject /\ ~CalibrateAndImport /\ ~Detect
        => subject' = subject \/ subject'.of \notin {"import", "board"}
<1> SUFFICES ASSUME SubjectInv, [Next]_subject, ~CalibrateAndImport, ~Detect
             PROVE  subject' = subject \/ subject'.of \notin {"import", "board"}
  OBVIOUS
<1>1. CASE CompareNames
  BY <1>1 DEF CompareNames, Compute
<1>2. CASE BeginLayout \/ LayOut
  BY <1>2, LayoutBegins, LayoutStep DEF SubjectInv
<1>3. CASE SeeTarget
  BY <1>3, PosesStep DEF SubjectInv
<1>4. CASE BeginAnnealing \/ Anneal
  BY <1>4, AnnealingBegins, AnnealStep DEF SubjectInv
<1> QED
  BY <1>1, <1>2, <1>3, <1>4 DEF Next

\* The annealing returns the best of what it accepted, with its cost, and the sum
\* it stops by is that of the last changes: for any costs, bounds and window.
THEOREM BestReturned == Spec => []AnnealingKeepsBest
<1>1. SubjectInv => AnnealingKeepsBest
  <2> SUFFICES ASSUME SubjectInv, subject.of = "annealing"
               PROVE  AnnealingKeepsBest
    BY DEF AnnealingKeepsBest
  <2>1. /\ Best(subject.cost, subject.accepted, subject.search)
        /\ Averaged(subject.totals, subject.search.rolling_avg_elems, subject.search.avg_sum)
        /\ subject.search.x \in Solutions
    BY DEF SubjectInv, AnnealingInv, Annealings, Searches
  <2> QED
    BY <2>1 DEF AnnealingKeepsBest, Best, Averaged, Window
<1> QED
  BY <1>1, SubjectInvariant, PTL


-----------------------------------------------------------------------------
(* Relative poses *)

LEMMA Least ==
    ASSUME NEW S \in SUBSET Nat, S # {}
    PROVE  \E m \in S : \A k \in S : m =< k
<1> DEFINE R == OpToRel(<, Nat)
<1>1. IsWellFoundedOn(R, Nat)
  BY NatLessThanWellFounded
<1>2. \A k \in Nat, m \in Nat : k < m => <<k, m>> \in R
  BY DEF OpToRel
<1> HIDE DEF R
<1>3. PICK m \in S : \A k \in S : ~(<<k, m>> \in R)
  BY <1>1, WFMin
<1>4. ASSUME NEW k \in S PROVE m =< k
  <2>1. m \in Nat /\ k \in Nat
    OBVIOUS
  <2>2. ~(k < m)
    BY <1>2, <1>3, <2>1
  <2> QED
    BY <2>1, <2>2
<1> QED
  BY <1>4

LEMMA Greatest ==
    ASSUME NEW S \in SUBSET Nat, S # {}, NEW n \in Nat, \A k \in S : k =< n
    PROVE  \E m \in S : \A k \in S : k =< m
<1> DEFINE T == {n - k : k \in S}
<1>1. T \in SUBSET Nat /\ T # {}
  <2>1. ASSUME NEW k \in S PROVE n - k \in Nat
    BY k \in Nat
  <2>2. PICK k \in S : n - k \in T
    OBVIOUS
  <2> QED
    BY <2>1, <2>2
<1>2. PICK t \in T : \A u \in T : t =< u
  <2> HIDE DEF T
  <2> QED
    BY <1>1, Least
<1>3. PICK m \in S : t = n - m
  OBVIOUS
<1>4. ASSUME NEW k \in S PROVE k =< m
  <2>1. n - k \in T
    OBVIOUS
  <2>2. n - m =< n - k
    BY <1>2, <1>3, <2>1
  <2> QED
    BY <2>2
<1> QED
  BY <1>4

\* How many are below a value, how many are not above it, and how many are.
LEMMA Counts ==
    ASSUME NEW n \in Nat, NEW vec \in [1 .. n -> Int], NEW x \in Int
    PROVE  /\ Below(vec, x) \in Nat /\ UpTo(vec, x) \in Nat
           /\ Below(vec, x) =< n /\ UpTo(vec, x) =< n
           /\ Cardinality({i \in 1 .. n : vec[i] > x}) = n - UpTo(vec, x)
<1> DEFINE below == {i \in 1 .. n : vec[i] < x}
           upto == {i \in 1 .. n : vec[i] =< x}
           above == {i \in 1 .. n : vec[i] > x}
<1>1. DOMAIN vec = 1 .. n
  OBVIOUS
<1>2. Below(vec, x) = Cardinality(below) /\ UpTo(vec, x) = Cardinality(upto)
  BY <1>1 DEF Below, UpTo
<1>3. IsFiniteSet(1 .. n) /\ Cardinality(1 .. n) = n
  BY FS_Interval
<1>4. below \in SUBSET (1 .. n) /\ upto \in SUBSET (1 .. n) /\ above \in SUBSET (1 .. n)
  OBVIOUS
<1>5. upto \cup above = 1 .. n /\ upto \cap above = {}
  OBVIOUS
<1> HIDE DEF below, upto, above
<1>6. IsFiniteSet(below) /\ IsFiniteSet(upto) /\ IsFiniteSet(above)
  BY <1>3, <1>4, FS_Subset
<1>7. Cardinality(below) =< n /\ Cardinality(upto) =< n
  <2>1. \A S \in SUBSET (1 .. n) : Cardinality(S) =< Cardinality(1 .. n)
    BY <1>3, FS_Subset, Zenon
  <2> QED
    BY <1>3, <1>4, <2>1, Zenon
<1>8. Cardinality(upto) \in Nat /\ Cardinality(above) \in Nat /\ Cardinality(below) \in Nat
  BY <1>6, FS_CardinalityType
<1>9. n = Cardinality(upto) + Cardinality(above) - 0
  <2>1. Cardinality(upto \cup above)
           = Cardinality(upto) + Cardinality(above) - Cardinality(upto \cap above)
    BY <1>6, FS_Union
  <2>2. Cardinality(upto \cap above) = 0 /\ Cardinality(upto \cup above) = n
    BY <1>3, <1>5, FS_EmptySet
  <2> QED
    BY <2>1, <2>2
<1>10. Cardinality(above) = n - Cardinality(upto)
  BY <1>8, <1>9
<1> QED
  BY <1>2, <1>7, <1>8, <1>10 DEF above

\* A greater value has more below or at it, by itself at least.
LEMMA CountsGrow ==
    ASSUME NEW n \in Nat, NEW vec \in [1 .. n -> Int], NEW i \in 1 .. n, NEW j \in 1 .. n,
           vec[i] < vec[j]
    PROVE  UpTo(vec, vec[i]) < UpTo(vec, vec[j])
<1> DEFINE S == {k \in 1 .. n : vec[k] =< vec[i]}
           T == {k \in 1 .. n : vec[k] =< vec[j]}
<1>1. UpTo(vec, vec[i]) = Cardinality(S) /\ UpTo(vec, vec[j]) = Cardinality(T)
  BY DEF UpTo
<1>2. S \in SUBSET T /\ j \in T /\ j \notin S /\ T \in SUBSET (1 .. n)
  OBVIOUS
<1> HIDE DEF S, T
<1>3. IsFiniteSet(T)
  <2>1. IsFiniteSet(1 .. n)
    BY FS_Interval
  <2> QED
    BY <1>2, <2>1, FS_Subset
<1>4. IsFiniteSet(S) /\ Cardinality(S) =< Cardinality(T) /\ Cardinality(S) # Cardinality(T)
  BY <1>2, <1>3, FS_Subset
<1>5. Cardinality(S) \in Nat /\ Cardinality(T) \in Nat
  BY <1>3, <1>4, FS_CardinalityType
<1> QED
  BY <1>1, <1>4, <1>5

\* nth_element: every position of a vector has its value.
LEMMA SortedThere ==
    ASSUME NEW n \in Nat, NEW vec \in [1 .. n -> Int], NEW k \in Nat, k < n
    PROVE  \E i \in 1 .. n :
              /\ vec[i] = Sorted(vec, k)
              /\ Below(vec, vec[i]) =< k /\ k < UpTo(vec, vec[i])
<1> DEFINE Many == {UpTo(vec, vec[i]) : i \in {i \in 1 .. n : k < UpTo(vec, vec[i])}}
           All == {UpTo(vec, vec[i]) : i \in 1 .. n}
<1>1. \A i \in 1 .. n : vec[i] \in Int /\ UpTo(vec, vec[i]) \in Nat /\ UpTo(vec, vec[i]) =< n
  BY Counts
<1>2. Many \in SUBSET Nat /\ All \in SUBSET Nat /\ \A m \in All : m =< n
  BY <1>1
<1>3. All # {}
  <2>1. UpTo(vec, vec[1]) \in All
    OBVIOUS
  <2> QED
    BY <2>1
<1>4. Many # {}
  <2>1. PICK i \in 1 .. n : \A m \in All : m =< UpTo(vec, vec[i])
    <3> HIDE DEF All
    <3>1. PICK m \in All : \A l \in All : l =< m
      BY <1>2, <1>3, Greatest
    <3> QED
      BY <3>1 DEF All
  <2>2. ASSUME NEW j \in 1 .. n PROVE vec[j] =< vec[i]
    <3>1. UpTo(vec, vec[j]) \in All
      OBVIOUS
    <3>2. UpTo(vec, vec[j]) =< UpTo(vec, vec[i])
      <4> HIDE DEF All
      <4> QED
        BY <2>1, <3>1
    <3>3. /\ UpTo(vec, vec[i]) \in Nat /\ UpTo(vec, vec[j]) \in Nat
          /\ vec[i] \in Int /\ vec[j] \in Int
      BY <1>1
    <3>4. ~(UpTo(vec, vec[i]) < UpTo(vec, vec[j]))
      BY <3>2, <3>3
    <3>5. ~(vec[i] < vec[j])
      BY <3>4, CountsGrow
    <3> QED
      BY <3>3, <3>5
  <2>3. {j \in DOMAIN vec : vec[j] =< vec[i]} = 1 .. n
    BY <2>2
  <2>4. UpTo(vec, vec[i]) = n
    <3>1. Cardinality(1 .. n) = n
      BY FS_Interval
    <3> QED
      BY <2>3, <3>1 DEF UpTo
  <2>5. UpTo(vec, vec[i]) \in Many
    BY <2>4
  <2> QED
    BY <2>5
<1>5. PICK i \in 1 .. n :
         /\ k < UpTo(vec, vec[i])
         /\ \A j \in 1 .. n : k < UpTo(vec, vec[j]) => UpTo(vec, vec[i]) =< UpTo(vec, vec[j])
  <2>1. PICK m \in Many : \A l \in Many : m =< l
    <3> HIDE DEF Many
    <3> QED
      BY <1>2, <1>4, Least
  <2>2. PICK i \in 1 .. n : k < UpTo(vec, vec[i]) /\ m = UpTo(vec, vec[i])
    OBVIOUS
  <2>3. \A j \in 1 .. n : k < UpTo(vec, vec[j]) => UpTo(vec, vec[j]) \in Many
    OBVIOUS
  <2> HIDE DEF Many
  <2> QED
    BY <2>1, <2>2, <2>3
<1>6. Below(vec, vec[i]) =< k
  <2>0. Below(vec, vec[i]) \in Nat
    BY <1>1, Counts
  <2> SUFFICES ASSUME k < Below(vec, vec[i]) PROVE FALSE
    BY <2>0
  <2> DEFINE L == {j \in 1 .. n : vec[j] < vec[i]}
             Less == {UpTo(vec, vec[j]) : j \in L}
  <2>1. Below(vec, vec[i]) = Cardinality(L)
    BY DEF Below
  <2>2. L # {}
    <3> HIDE DEF L
    <3>1. Cardinality(L) # 0
      BY <2>0, <2>1
    <3>2. Cardinality({}) = 0
      BY FS_EmptySet
    <3> QED
      BY <3>1, <3>2
  <2>3. PICK j \in L : \A l \in L : UpTo(vec, vec[l]) =< UpTo(vec, vec[j])
    <3>1. Less \in SUBSET Nat /\ Less # {} /\ \A m \in Less : m =< n
      BY <1>1, <2>2
    <3>2. PICK m \in Less : \A l \in Less : l =< m
      <4> HIDE DEF Less
      <4> QED
        BY <3>1, Greatest
    <3>3. PICK j \in L : m = UpTo(vec, vec[j])
      OBVIOUS
    <3>4. \A l \in L : UpTo(vec, vec[l]) \in Less
      OBVIOUS
    <3> HIDE DEF Less, L
    <3> QED
      BY <3>2, <3>3, <3>4
  <2>4. ASSUME NEW l \in L PROVE vec[l] =< vec[j]
    <3>1. l \in 1 .. n /\ j \in 1 .. n
      OBVIOUS
    <3>2. /\ UpTo(vec, vec[l]) \in Nat /\ UpTo(vec, vec[j]) \in Nat
          /\ vec[l] \in Int /\ vec[j] \in Int
      BY <1>1, <3>1
    <3>3. UpTo(vec, vec[l]) =< UpTo(vec, vec[j])
      <4> HIDE DEF L
      <4> QED
        BY <2>3
    <3>4. ~(UpTo(vec, vec[j]) < UpTo(vec, vec[l]))
      BY <3>2, <3>3
    <3>5. ~(vec[j] < vec[l])
      BY <3>1, <3>4, CountsGrow
    <3> QED
      BY <3>2, <3>5
  <2> DEFINE M == {l \in 1 .. n : vec[l] =< vec[j]}
  <2>5. UpTo(vec, vec[j]) = Cardinality(M) /\ L \in SUBSET M /\ M \in SUBSET (1 .. n)
    BY <2>4 DEF UpTo
  <2>6. j \in 1 .. n /\ vec[j] < vec[i]
    OBVIOUS
  <2> HIDE DEF L, M
  <2>7. IsFiniteSet(M)
    <3>1. IsFiniteSet(1 .. n)
      BY FS_Interval
    <3> QED
      BY <2>5, <3>1, FS_Subset
  <2>8. Cardinality(L) =< Cardinality(M)
    BY <2>5, <2>7, FS_Subset
  <2>9. UpTo(vec, vec[j]) < UpTo(vec, vec[i])
    BY <2>6, CountsGrow
  <2>10. Below(vec, vec[i]) \in Nat /\ UpTo(vec, vec[j]) \in Nat /\ UpTo(vec, vec[i]) \in Nat
    BY <1>1, <2>6, Counts
  <2>11. k < UpTo(vec, vec[j])
    BY <2>1, <2>5, <2>8, <2>10
  <2> QED
    BY <1>5, <2>6, <2>9, <2>10, <2>11
<1> DEFINE values == {vec[j] : j \in DOMAIN vec}
           Fits(x) == Below(vec, x) =< k /\ k < UpTo(vec, x)
<1>7. vec[i] \in values /\ Fits(vec[i])
  BY <1>5, <1>6
<1>8. Sorted(vec, k) \in values /\ Fits(Sorted(vec, k))
  <2>1. Sorted(vec, k) = CHOOSE x \in values : Fits(x)
    BY DEF Sorted
  <2> HIDE DEF values, Fits
  <2> QED
    BY <1>7, <2>1
<1> QED
  BY <1>8


\* The value at a position of the sorted vector, as an element of it.
LEMMA SortedElement ==
    ASSUME NEW n \in Nat, NEW vec \in [1 .. n -> Int], Len(vec) = n, NEW k \in Nat, k < n
    PROVE  \E m \in 1 .. n : /\ vec[m] = Sorted(vec, k) /\ vec[m] \in Int
                            /\ Below(vec, vec[m]) \in Nat /\ UpTo(vec, vec[m]) \in Nat
                            /\ Below(vec, vec[m]) =< k /\ k < UpTo(vec, vec[m])
<1>1. PICK m \in 1 .. n : /\ vec[m] = Sorted(vec, k)
                          /\ Below(vec, vec[m]) =< k /\ k < UpTo(vec, vec[m])
  BY SortedThere
<1>2. Below(vec, vec[m]) \in Nat /\ UpTo(vec, vec[m]) \in Nat /\ vec[m] \in Int
  BY <1>1, Counts
<1> QED
  BY <1>1, <1>2

\* Twice an element is twice a median exactly if its neighbours are balanced.
LEMMA ElementIsMedian ==
    ASSUME NEW n \in Nat, NEW vec \in [1 .. n -> Int], Len(vec) = n, NEW m \in 1 .. n
    PROVE  IsMedian(vec, 2 * vec[m]) <=>
               2 * Below(vec, vec[m]) =< n /\ 2 * (n - UpTo(vec, vec[m])) =< n
<1>1. \A i \in 1 .. n : vec[i] \in Int
  OBVIOUS
<1>2. /\ {i \in DOMAIN vec : 2 * vec[i] < 2 * vec[m]} = {i \in DOMAIN vec : vec[i] < vec[m]}
      /\ {i \in DOMAIN vec : 2 * vec[i] > 2 * vec[m]} = {i \in 1 .. n : vec[i] > vec[m]}
  <2>1. \A i \in 1 .. n : /\ 2 * vec[i] < 2 * vec[m] <=> vec[i] < vec[m]
                          /\ 2 * vec[i] > 2 * vec[m] <=> vec[i] > vec[m]
    BY <1>1
  <2> QED
    BY <2>1
<1>3. Cardinality({i \in 1 .. n : vec[i] > vec[m]}) = n - UpTo(vec, vec[m])
  BY <1>1, Counts
<1>4. Cardinality({i \in DOMAIN vec : vec[i] < vec[m]}) = Below(vec, vec[m])
  BY DEF Below
<1> QED
  BY <1>2, <1>3, <1>4 DEF IsMedian

\* One of the greatest values: the others are below it, and none is above.
LEMMA GreatestValue ==
    ASSUME NEW n \in Nat, n > 0, NEW vec \in [1 .. n -> Int], Len(vec) = n
    PROVE  \E g \in 1 .. n : /\ \A i \in 1 .. n : vec[i] =< vec[g]
                            /\ Cardinality(Highest(vec)) \in Nat
                            /\ Below(vec, vec[g]) = n - Cardinality(Highest(vec))
                            /\ UpTo(vec, vec[g]) = n
<1>1. n - 1 \in Nat /\ n - 1 < n
  OBVIOUS
<1>2. PICK g \in 1 .. n : /\ vec[g] \in Int /\ UpTo(vec, vec[g]) \in Nat /\ n - 1 < UpTo(vec, vec[g])
                          /\ Below(vec, vec[g]) \in Nat
  BY <1>1, SortedElement
<1>3. Cardinality({i \in 1 .. n : vec[i] > vec[g]}) = n - UpTo(vec, vec[g])
  BY <1>2, Counts
<1>4. IsFiniteSet(1 .. n) /\ Cardinality(1 .. n) = n
  BY FS_Interval
<1>5. {i \in 1 .. n : vec[i] > vec[g]} = {} /\ UpTo(vec, vec[g]) = n
  <2> DEFINE Above == {i \in 1 .. n : vec[i] > vec[g]}
  <2>1. Above \in SUBSET (1 .. n)
    OBVIOUS
  <2> HIDE DEF Above
  <2>2. IsFiniteSet(Above) /\ Cardinality(Above) \in Nat
    BY <1>4, <2>1, FS_Subset, FS_CardinalityType
  <2>3. Cardinality(Above) = n - UpTo(vec, vec[g])
    BY <1>3 DEF Above
  <2>4. Cardinality(Above) = 0
    BY <1>2, <2>2, <2>3
  <2>5. Above = {}
    BY <2>2, <2>4, FS_EmptySet
  <2> QED
    BY <1>2, <2>3, <2>4, <2>5 DEF Above
<1>6. \A i \in 1 .. n : vec[i] \in Int /\ vec[i] =< vec[g]
  <2>1. \A i \in 1 .. n : vec[i] \in Int /\ ~(vec[i] > vec[g])
    BY <1>5
  <2> QED
    BY <1>2, <2>1
<1>7. Below(vec, vec[g]) = n - Cardinality(Highest(vec)) /\ Cardinality(Highest(vec)) \in Nat
  <2> DEFINE Less == {i \in 1 .. n : vec[i] < vec[g]}
  <2>1. Highest(vec) = (1 .. n) \ Less
    BY <1>6 DEF Highest
  <2>2. Less \in SUBSET (1 .. n) /\ Below(vec, vec[g]) = Cardinality(Less)
    BY DEF Below
  <2> HIDE DEF Less
  <2>3. (1 .. n) \cap Less = Less
    BY <2>2
  <2>4. /\ IsFiniteSet((1 .. n) \ Less)
        /\ Cardinality((1 .. n) \ Less) = Cardinality(1 .. n) - Cardinality((1 .. n) \cap Less)
    BY <1>4, FS_Difference, Zenon
  <2>5. Cardinality((1 .. n) \ Less) \in Nat
    BY <2>4, FS_CardinalityType
  <2>6. Cardinality((1 .. n) \ Less) = n - Cardinality(Less)
    BY <1>4, <2>3, <2>4
  <2> QED
    BY <1>2, <2>1, <2>2, <2>5, <2>6
<1> QED
  BY <1>5, <1>6, <1>7

\* An even number of views gives a median.
LEMMA EvenMedian ==
    ASSUME NEW n \in Nat, n > 1, NEW vec \in [1 .. n -> Int], Len(vec) = n, n % 2 = 0, NEW r \in Medians(vec)
    PROVE  IsMedian(vec, r)
<1> DEFINE half == n \div 2
<1>1. half \in Nat /\ half < n /\ n = 2 * half
  OBVIOUS
<1>2. r = 2 * Sorted(vec, half)
  BY DEF Medians
<1> HIDE DEF half
<1>3. PICK m \in 1 .. n : /\ vec[m] = Sorted(vec, half)
                          /\ Below(vec, vec[m]) \in Nat /\ UpTo(vec, vec[m]) \in Nat
                          /\ Below(vec, vec[m]) =< half /\ half < UpTo(vec, vec[m])
  BY <1>1, SortedElement
<1>4. 2 * Below(vec, vec[m]) =< n /\ 2 * (n - UpTo(vec, vec[m])) =< n
  BY <1>1, <1>3
<1> QED
  BY <1>2, <1>3, <1>4, ElementIsMedian

\* An odd number, of more than one, if most of the views give the greatest value ...
LEMMA OddMedian ==
    ASSUME NEW n \in Nat, n > 1, NEW vec \in [1 .. n -> Int], Len(vec) = n, n % 2 # 0,
           2 * Cardinality(Highest(vec)) > n, NEW r \in Medians(vec)
    PROVE  IsMedian(vec, r)
<1> DEFINE half == n \div 2
<1>1. half \in Nat /\ half < n /\ n = 2 * half + 1
  OBVIOUS
<1>2. PICK k \in half + 1 .. n - 1 : r = Sorted(vec, half) + Sorted(vec, k)
  BY DEF Medians, Behind
<1> HIDE DEF half
<1>3. PICK g \in 1 .. n : /\ \A i \in 1 .. n : vec[i] =< vec[g]
                          /\ Cardinality(Highest(vec)) \in Nat
                          /\ Below(vec, vec[g]) = n - Cardinality(Highest(vec))
                          /\ UpTo(vec, vec[g]) = n
  <2>1. n > 0
    OBVIOUS
  <2> QED
    BY <2>1, GreatestValue
<1>4. Below(vec, vec[g]) \in Nat /\ Below(vec, vec[g]) =< half /\ vec[g] \in Int
  <2>1. vec[g] \in Int
    OBVIOUS
  <2>2. Below(vec, vec[g]) \in Nat
    BY <2>1, Counts
  <2> QED
    BY <1>1, <1>3, <2>1, <2>2
<1>5. ASSUME NEW j \in half .. n - 1 PROVE Sorted(vec, j) = vec[g]
  <2>1. j \in Nat /\ j < n /\ half =< j
    BY <1>1
  <2>2. PICK m \in 1 .. n : /\ vec[m] = Sorted(vec, j) /\ vec[m] \in Int
                            /\ UpTo(vec, vec[m]) \in Nat /\ j < UpTo(vec, vec[m])
    BY <2>1, SortedElement
  <2>3. vec[m] =< vec[g]
    BY <1>3
  <2>4. CASE vec[m] < vec[g]
    <3>1. UpTo(vec, vec[m]) =< Below(vec, vec[g])
      <4> DEFINE L == {i \in 1 .. n : vec[i] < vec[g]}
                 M == {i \in 1 .. n : vec[i] =< vec[m]}
      <4>1. \A i \in 1 .. n : vec[i] \in Int
        OBVIOUS
      <4>2. M \in SUBSET L /\ L \in SUBSET (1 .. n)
        <5>1. \A i \in 1 .. n : vec[i] =< vec[m] => vec[i] < vec[g]
          BY <1>4, <2>2, <2>4, <4>1
        <5> QED
          BY <5>1
      <4>3. UpTo(vec, vec[m]) = Cardinality(M) /\ Below(vec, vec[g]) = Cardinality(L)
        BY DEF UpTo, Below
      <4> HIDE DEF L, M
      <4>4. IsFiniteSet(1 .. n)
        BY FS_Interval
      <4>5. IsFiniteSet(L)
        BY <4>2, <4>4, FS_Subset
      <4> QED
        BY <4>2, <4>3, <4>5, FS_Subset
    <3> QED
      BY <1>1, <1>4, <2>1, <2>2, <3>1
  <2> QED
    BY <1>4, <2>2, <2>3, <2>4
<1>6. half \in half .. n - 1 /\ k \in half .. n - 1
  BY <1>1
<1>7. r = 2 * vec[g]
  BY <1>2, <1>4, <1>5, <1>6
<1>8. 2 * Below(vec, vec[g]) =< n /\ 2 * (n - UpTo(vec, vec[g])) =< n
  BY <1>1, <1>3, <1>4
<1> QED
  BY <1>7, <1>8, ElementIsMedian

\* ... and otherwise it may give a value that is no median.
LEMMA OddNoMedian ==
    ASSUME NEW n \in Nat, n > 1, NEW vec \in [1 .. n -> Int], Len(vec) = n, n % 2 # 0,
           ~(2 * Cardinality(Highest(vec)) > n)
    PROVE  \E r \in Medians(vec) : ~IsMedian(vec, r)
<1> DEFINE half == n \div 2
<1>1. half \in Nat /\ half < n /\ n = 2 * half + 1 /\ n - 1 \in half + 1 .. n - 1 /\ n - 1 \in Nat
  OBVIOUS
<1>2. Sorted(vec, half) + Sorted(vec, n - 1) \in Medians(vec)
  BY <1>1 DEF Medians, Behind
<1> HIDE DEF half
<1>3. PICK g \in 1 .. n : /\ \A i \in 1 .. n : vec[i] =< vec[g]
                          /\ Cardinality(Highest(vec)) \in Nat
                          /\ Below(vec, vec[g]) = n - Cardinality(Highest(vec))
  <2>1. n > 0
    OBVIOUS
  <2> QED
    BY <2>1, GreatestValue
<1>4. PICK m \in 1 .. n : /\ vec[m] = Sorted(vec, half) /\ vec[m] \in Int
                          /\ Below(vec, vec[m]) \in Nat /\ UpTo(vec, vec[m]) \in Nat
                          /\ Below(vec, vec[m]) =< half /\ half < UpTo(vec, vec[m])
  BY <1>1, SortedElement
<1>5. PICK l \in 1 .. n : /\ vec[l] = Sorted(vec, n - 1) /\ vec[l] \in Int
                          /\ UpTo(vec, vec[l]) \in Nat /\ n - 1 < UpTo(vec, vec[l])
  <2>1. n - 1 \in Nat /\ n - 1 < n
    OBVIOUS
  <2> QED
    BY <2>1, SortedElement
<1>6. vec[g] \in Int /\ vec[m] < vec[g]
  <2>1. vec[g] \in Int /\ vec[m] =< vec[g]
    BY <1>3
  <2>2. vec[m] # vec[g]
    BY <1>1, <1>3, <1>4
  <2> QED
    BY <1>4, <2>1, <2>2
<1>7. vec[l] = vec[g]
  <2>1. Cardinality({i \in 1 .. n : vec[i] > vec[l]}) = n - UpTo(vec, vec[l])
    BY <1>5, Counts
  <2> DEFINE Above == {i \in 1 .. n : vec[i] > vec[l]}
  <2>2. Above \in SUBSET (1 .. n)
    OBVIOUS
  <2>3. Cardinality(Above) = n - UpTo(vec, vec[l])
    BY <2>1
  <2>4. vec[g] > vec[l] => g \in Above
    OBVIOUS
  <2> HIDE DEF Above
  <2>5. IsFiniteSet(1 .. n)
    BY FS_Interval
  <2>6. IsFiniteSet(Above)
    BY <2>2, <2>5, FS_Subset
  <2>7. Cardinality(Above) \in Nat
    BY <2>6, FS_CardinalityType
  <2>8. Cardinality(Above) = 0
    BY <1>5, <2>3, <2>7
  <2>9. Above = {}
    BY <2>6, <2>8, FS_EmptySet
  <2>10. vec[l] =< vec[g]
    BY <1>3
  <2> QED
    BY <1>5, <1>6, <2>4, <2>9, <2>10
<1> DEFINE r == vec[m] + vec[g]
           Lower == {i \in 1 .. n : 2 * vec[i] < r}
           Lowest == {i \in 1 .. n : vec[i] =< vec[m]}
<1>8. r \in Medians(vec)
  BY <1>2, <1>4, <1>5, <1>7
<1>9. Lowest \in SUBSET Lower /\ Lower \in SUBSET (1 .. n)
  <2>1. \A i \in 1 .. n : vec[i] \in Int
    OBVIOUS
  <2>2. \A i \in 1 .. n : vec[i] =< vec[m] => 2 * vec[i] < vec[m] + vec[g]
    BY <1>4, <1>6, <2>1
  <2> QED
    BY <2>2
<1>10. UpTo(vec, vec[m]) = Cardinality(Lowest)
  BY DEF UpTo
<1>11. Cardinality({i \in DOMAIN vec : 2 * vec[i] < r}) = Cardinality(Lower)
  OBVIOUS
<1> HIDE DEF Lower, Lowest, r
<1>12. Cardinality(Lowest) =< Cardinality(Lower) /\ Cardinality(Lower) \in Nat
  <2>1. IsFiniteSet(1 .. n)
    BY FS_Interval
  <2>2. IsFiniteSet(Lower)
    BY <1>9, <2>1, FS_Subset
  <2> QED
    BY <1>9, <2>2, FS_Subset, FS_CardinalityType
<1>13. ~(2 * Cardinality(Lower) =< n)
  BY <1>1, <1>4, <1>10, <1>12
<1> QED
  BY <1>8, <1>11, <1>13 DEF IsMedian

\* A single view gives the pose of the opposite direction.
LEMMA SingleView ==
    ASSUME NEW vec \in [1 .. 1 -> Int], Len(vec) = 1
    PROVE  IsMedian(vec, 2 * (0 - vec[1])) <=> vec[1] = 0
<1>1. DOMAIN vec = {1} /\ vec[1] \in Int
  OBVIOUS
<1>2. Cardinality({}) = 0 /\ Cardinality({1}) = 1
  BY FS_EmptySet, FS_Singleton
<1>3. CASE vec[1] = 0
  <2>1. /\ {i \in DOMAIN vec : 2 * vec[i] < 2 * (0 - vec[1])} = {}
        /\ {i \in DOMAIN vec : 2 * vec[i] > 2 * (0 - vec[1])} = {}
    BY <1>1, <1>3
  <2> QED
    BY <1>2, <1>3, <2>1 DEF IsMedian
<1>4. CASE vec[1] < 0
  <2>1. {i \in DOMAIN vec : 2 * vec[i] < 2 * (0 - vec[1])} = {1}
    BY <1>1, <1>4
  <2> QED
    BY <1>1, <1>2, <1>4, <2>1 DEF IsMedian
<1>5. CASE vec[1] > 0
  <2> DEFINE Above == {i \in DOMAIN vec : 2 * vec[i] > 2 * (0 - vec[1])}
  <2>1. Above = {1}
    BY <1>1, <1>5
  <2>2. IsMedian(vec, 2 * (0 - vec[1])) => 2 * Cardinality(Above) =< 1
    BY Zenon DEF IsMedian
  <2> HIDE DEF Above
  <2> QED
    BY <1>1, <1>2, <1>5, <2>1, <2>2
<1> QED
  BY <1>1, <1>3, <1>4, <1>5

\* For any number of views at any positions: the relative pose of two cameras is sure
\* to be a median of the views in exactly the cases that MedianOfViews names.
THEOREM PoseIsMedian == Spec => []MedianOfViews
<1>1. SubjectInv => MedianOfViews
  <2> SUFFICES ASSUME SubjectInv, subject.of = "poses"
               PROVE  MedianOfViews
    BY DEF MedianOfViews
  <2>1. /\ subject \in [of : {"poses"}, abs_poses1 : Seq(Positions), abs_poses2 : Seq(Positions)]
        /\ Len(subject.abs_poses1) = Len(subject.abs_poses2) /\ Len(subject.abs_poses1) > 0
    BY DEF SubjectInv, PosesInv
  <2>2. PICK v \in Seq(Positions), w \in Seq(Positions) :
           v = subject.abs_poses1 /\ w = subject.abs_poses2
    BY <2>1
  <2> DEFINE n == Len(v)
             vec == Component(v, w)
  <2>3. n \in Nat /\ n > 0 /\ v \in [1 .. n -> Int] /\ w \in [1 .. n -> Int]
    BY <2>1, <2>2, NumbersAssumption
  <2>4. vec \in [1 .. n -> Int] /\ Len(vec) = n /\ DOMAIN vec = 1 .. n
    <3> HIDE DEF n
    <3>1. vec = [i \in 1 .. n |-> w[i] - v[i]]
      BY <2>3 DEF Component
    <3>2. vec \in [1 .. n -> Int]
      BY <2>3, <3>1
    <3> HIDE DEF vec
    <3>3. vec \in Seq(Int)
      BY <2>3, <3>2
    <3> QED
      BY <2>3, <3>2, <3>3
  <2>5. n > 1 => EstimateRelativePose(v, w) = Medians(vec)
    <3>1. n > 1 => Len(v) # 1
      BY <2>3
    <3> QED
      BY <3>1, Zenon DEF EstimateRelativePose
  <2>6. n = 1 => EstimateRelativePose(v, w) = {2 * (0 - vec[1])}
    <3> SUFFICES ASSUME n = 1 PROVE EstimateRelativePose(v, w) = {2 * (0 - vec[1])}
      OBVIOUS
    <3>1. EstimateRelativePose(v, w) = {2 * (v[1] - w[1])} /\ vec[1] = w[1] - v[1]
      BY <2>3 DEF EstimateRelativePose, Component
    <3>2. v[1] \in Int /\ w[1] \in Int
      BY <2>3
    <3> QED
      BY <3>1, <3>2
  <2> HIDE DEF n, vec
  <2> DEFINE Certain == \A r \in EstimateRelativePose(v, w) : IsMedian(vec, r)
  <2>7. n > 1 /\ n % 2 = 0 => Certain
    BY <2>3, <2>4, <2>5, EvenMedian
  <2>8. n > 1 /\ n % 2 # 0 => (Certain <=> 2 * Cardinality(Highest(vec)) > n)
    BY <2>3, <2>4, <2>5, OddMedian, OddNoMedian
  <2>9. n = 1 => (Certain <=> vec[1] = 0)
    <3> SUFFICES ASSUME n = 1 PROVE Certain <=> vec[1] = 0
      OBVIOUS
    <3>1. IsMedian(vec, 2 * (0 - vec[1])) <=> vec[1] = 0
      BY <2>4, SingleView
    <3> QED
      BY <2>6, <3>1
  <2>10. (n % 2 = 0 \/ n % 2 = 1) /\ 1 % 2 = 1 /\ (n = 1 \/ n > 1)
    BY <2>3
  <2> HIDE DEF Certain
  <2>11. Certain <=> \/ n % 2 = 0
                     \/ n % 2 = 1 /\ n > 1 /\ 2 * Cardinality(Highest(vec)) > n
                     \/ n = 1 /\ vec[1] = 0
    BY <2>3, <2>7, <2>8, <2>9, <2>10
  <2> QED
    BY <2>2, <2>4, <2>11 DEF MedianOfViews, vec, n, Certain
<1> QED
  BY <1>1, SubjectInvariant, PTL


\* In a layout of any width with any pictures, every picture is inside the margins,
\* no two overlap, and the height asked for is the height taken up.
THEOREM PicturesFit == Spec => []LayoutFits
<1>1. SubjectInv => LayoutFits
  <2> SUFFICES ASSUME LayoutInv(subject), subject.of = "layout", subject.items # <<>>
               PROVE  LayoutFits
    BY DEF SubjectInv, LayoutFits
  <2>1. PICK items \in Seq(Pictures), rect \in Rects, measured \in Places, given \in Places :
           /\ items = subject.items /\ rect = subject.rect
           /\ measured = subject.measured /\ given = subject.set
    BY DEF LayoutInv, Layouts
  <2> DEFINE area == Effective(rect)
             placed == given.placed
             height == LayoutHeight(Measured(rect.width), measured)
             bottom == rect.y + height - Margin
  <2>2. /\ Len(items) = Len(placed) /\ rect.width \in Widths
        /\ measured.y + rect.y = given.y /\ measured.lineHeight = given.lineHeight
        /\ Within(area, given, items) /\ NoneOverlap(placed) /\ Row(area, given)
    BY <2>1 DEF LayoutInv
  <2>3. bottom = given.y + given.lineHeight
    <3> DEFINE my == measured.y
               lh == measured.lineHeight
               ry == rect.y
    <3>1. my \in Int /\ lh \in Int /\ ry \in Int /\ Margin \in Int
      BY SpacingAssumption DEF Places, Rects
    <3>2. height = my + lh - 0 + Margin /\ bottom = ry + height - Margin
      BY DEF LayoutHeight, Measured
    <3>3. given.y = my + ry /\ given.lineHeight = lh
      BY <2>2
    <3> HIDE DEF my, lh, ry, height, bottom
    <3> QED
      BY <3>1, <3>2, <3>3
  <2>4. DOMAIN placed = DOMAIN items /\ placed # <<>>
    BY <2>1, <2>2 DEF Places
  <2>5. bottom \in Int /\ area.x \in Int /\ area.width \in Int
        /\ Right(area) = area.x + area.width - 1 /\ RightEnd(area) = area.x + area.width
    <3>1. /\ rect.x \in Int /\ rect.width \in Int /\ Margin \in Int
          /\ given.y \in Int /\ given.lineHeight \in Int
      BY SpacingAssumption DEF Rects, Places
    <3>2. area.x = rect.x + Margin /\ area.width = rect.width - 2 * Margin
      BY DEF Effective
    <3>3. bottom \in Int
      <4> HIDE DEF bottom
      <4> QED
        BY <2>3, <3>1
    <3> HIDE DEF area
    <3> QED
      BY <3>1, <3>2, <3>3 DEF Right, RightEnd
  <2> HIDE DEF area, bottom
  <2>6. ASSUME NEW i \in DOMAIN placed
        PROVE  /\ area.x =< placed[i].x /\ Right(placed[i]) =< Right(area)
               /\ area.y =< placed[i].y /\ placed[i].y + placed[i].height =< bottom
               /\ placed[i].width =< items[i].width
    <3> DEFINE r == placed[i]
    <3>1. r.x \in Int /\ r.width \in Int
      <4>1. r \in Rects
        BY DEF Places
      <4> HIDE DEF r
      <4> QED
        BY <4>1 DEF Rects
    <3>2. /\ area.x =< r.x /\ RightEnd(r) =< RightEnd(area) /\ area.y =< r.y
          /\ r.width =< items[i].width /\ Bottom(r) =< given.y + given.lineHeight
      BY <2>2 DEF Within
    <3> HIDE DEF r, placed
    <3>3. Right(r) = r.x + r.width - 1 /\ RightEnd(r) = r.x + r.width /\ Bottom(r) = r.y + r.height
      BY DEF Right, RightEnd, Bottom
    <3>4. Right(r) =< Right(area)
      BY <2>5, <3>1, <3>2, <3>3
    <3>5. r.y + r.height =< bottom
      BY <2>3, <3>2, <3>3
    <3> QED
      BY <3>2, <3>4, <3>5 DEF r
  <2>7. \E i \in DOMAIN placed : placed[i].y + placed[i].height = bottom
    BY <2>2, <2>3, <2>4 DEF Row, Bottom
  <2>8. \A i, k \in DOMAIN placed : i # k => ~Overlap(placed[i], placed[k])
    BY <2>2 DEF NoneOverlap
  <2>9. /\ Effective(subject.rect) = area /\ subject.set.placed = placed
        /\ subject.rect.y + LayoutHeight(Measured(subject.rect.width), subject.measured) - Margin
              = bottom
        /\ subject.items = items
    BY <2>1 DEF area, bottom
  <2> HIDE DEF placed
  <2> QED
    BY <2>6, <2>7, <2>8, <2>9 DEF LayoutFits
<1> QED
  BY <1>1, SubjectInvariant, PTL

-----------------------------------------------------------------------------
(* Reports and their import *)

LEMMA RoundedNear ==
    ASSUME NEW x \in Int
    PROVE  Rounded(x) \in Int /\ Rounded(x) - x \in -5 .. 5
BY DEF Rounded

\* The squared inner product of two vectors is at most the product of their
\* squared norms.
LEMMA InnerProduct ==
    ASSUME NEW a \in Int, NEW b \in Int, NEW c \in Int,
           NEW d \in Int, NEW e \in Int, NEW f \in Int
    PROVE  (a * d + b * e + c * f) * (a * d + b * e + c * f)
              =< (a * a + b * b + c * c) * (d * d + e * e + f * f)
<1> DEFINE p == a * e - b * d
           q == a * f - c * d
           r == b * f - c * e
<1>1. (a * a + b * b + c * c) * (d * d + e * e + f * f)
         - (a * d + b * e + c * f) * (a * d + b * e + c * f) = p * p + q * q + r * r
  OBVIOUS
<1>2. p \in Int /\ q \in Int /\ r \in Int
  OBVIOUS
<1>3. \A x \in Int : x * x >= 0
  OBVIOUS
<1> HIDE DEF p, q, r
<1>4. p * p >= 0 /\ q * q >= 0 /\ r * r >= 0
  BY <1>2, <1>3
<1>5. p * p \in Int /\ q * q \in Int /\ r * r \in Int
  BY <1>2
<1>6. /\ (a * a + b * b + c * c) * (d * d + e * e + f * f) \in Int
      /\ (a * d + b * e + c * f) * (a * d + b * e + c * f) \in Int
  OBVIOUS
<1> QED
  BY <1>1, <1>4, <1>5, <1>6

\* An integer whose square is at most 75 m, and m at most k squared, is at most 9 k.
LEMMA RootOfBound ==
    ASSUME NEW s \in Int, NEW m \in Int, NEW k \in Nat, s * s =< 75 * m, m =< k * k
    PROVE  -9 * k =< s /\ s =< 9 * k
<1>1. k * k \in Int /\ s * s =< 75 * (k * k)
  OBVIOUS
<1>2. ASSUME NEW t \in Int, t * t = s * s, t > 9 * k PROVE FALSE
  <2>1. PICK u \in Int : u = t - 9 * k
    OBVIOUS
  <2>2. u >= 1 /\ t = 9 * k + u
    BY <1>2, <2>1
  <2>3. t * t = 81 * (k * k) + 18 * (k * u) + u * u
    BY <2>2
  <2>4. u * u >= 1 /\ k * u >= 0 /\ k * k >= 0
    BY <2>2
  <2>5. u * u \in Int /\ k * u \in Int /\ t * t \in Int
    OBVIOUS
  <2> QED
    BY <1>1, <1>2, <2>3, <2>4, <2>5
<1>3. ~(s > 9 * k)
  BY <1>2
<1>4. ~(-s > 9 * k)
  <2>1. (-s) * (-s) = s * s /\ -s \in Int
    OBVIOUS
  <2> QED
    BY <1>2, <2>1
<1> QED
  BY <1>3, <1>4


\* The normal of a flat port that is of length 1 up to the accuracy of an integer
\* passes as normalised when each component has moved by half a sixth decimal.
LEMMA NormalSurvives ==
    ASSUME NEW a \in Int, NEW b \in Int, NEW c \in Int,
           NEW d \in -5 .. 5, NEW e \in -5 .. 5, NEW f \in -5 .. 5,
           a * a + b * b + c * c > (One - 1) * (One - 1),
           a * a + b * b + c * c < (One + 1) * (One + 1)
    PROVE  LET norm == (a + d) * (a + d) + (b + e) * (b + e) + (c + f) * (c + f)
           IN norm >= (One - 10) * (One - 10) /\ norm =< (One + 10) * (One + 10)
<1> DEFINE n == a * a + b * b + c * c
           s == a * d + b * e + c * f
           m == d * d + e * e + f * f
           norm == (a + d) * (a + d) + (b + e) * (b + e) + (c + f) * (c + f)
           t == (a + d) * d + (b + e) * e + (c + f) * f
<1>1. One \in Nat /\ One >= 10
  BY OneAssumption
<1>2. n \in Int /\ s \in Int /\ m \in Int /\ norm \in Int /\ t \in Int
  OBVIOUS
<1>3. \A x \in -5 .. 5 : x * x >= 0 /\ x * x =< 25 /\ x * x \in Int
  OBVIOUS
<1>4. 0 =< m /\ m =< 75
  <2>1. d * d >= 0 /\ d * d =< 25 /\ e * e >= 0 /\ e * e =< 25 /\ f * f >= 0 /\ f * f =< 25
    BY <1>3
  <2> QED
    BY <2>1
<1>5. \A x \in Int : x * x >= 0 /\ x * x \in Int
  OBVIOUS
<1>6. n >= 0 /\ norm >= 0
  <2>1. a * a >= 0 /\ b * b >= 0 /\ c * c >= 0
    BY <1>5
  <2>2. /\ (a + d) * (a + d) >= 0 /\ (b + e) * (b + e) >= 0 /\ (c + f) * (c + f) >= 0
        /\ (a + d) * (a + d) \in Int /\ (b + e) * (b + e) \in Int /\ (c + f) * (c + f) \in Int
    BY <1>5, a + d \in Int, b + e \in Int, c + f \in Int
  <2> QED
    BY <2>1, <2>2
<1>7. norm = n + 2 * s + m /\ n = norm - 2 * t + m
  OBVIOUS
<1>8. s * s =< n * m /\ t * t =< norm * m
  <2>1. d \in Int /\ e \in Int /\ f \in Int /\ a + d \in Int /\ b + e \in Int /\ c + f \in Int
    OBVIOUS
  <2> QED
    BY <2>1, InnerProduct
<1>9. n > (One - 1) * (One - 1) /\ n < (One + 1) * (One + 1)
  OBVIOUS
<1> HIDE DEF n, s, m, norm, t
<1>10. n * m =< 75 * n /\ norm * m =< 75 * norm
  BY <1>2, <1>4, <1>6
<1>11. s * s \in Int /\ t * t \in Int /\ n * m \in Int /\ norm * m \in Int
  BY <1>2
<1>12. norm =< (One + 10) * (One + 10)
  <2>1. s * s =< 75 * n
    BY <1>2, <1>8, <1>10, <1>11
  <2>2. One + 1 \in Nat /\ n =< (One + 1) * (One + 1)
    BY <1>1, <1>2, <1>9
  <2>3. s =< 9 * (One + 1)
    BY <1>2, <2>1, <2>2, RootOfBound
  <2>4. (One + 1) * (One + 1) = One * One + 2 * One + 1
        /\ (One + 10) * (One + 10) = One * One + 20 * One + 100 /\ One * One \in Int
    BY <1>1
  <2> QED
    BY <1>1, <1>2, <1>4, <1>7, <1>9, <2>3, <2>4
<1>13. norm >= (One - 10) * (One - 10)
  <2> SUFFICES ASSUME norm < (One - 10) * (One - 10) PROVE FALSE
    BY <1>1, <1>2
  <2>1. t * t =< 75 * norm
    BY <1>2, <1>8, <1>10, <1>11
  <2>2. One - 10 \in Nat /\ norm =< (One - 10) * (One - 10)
    BY <1>1, <1>2
  <2>3. -9 * (One - 10) =< t
    BY <1>2, <2>1, <2>2, RootOfBound
  <2>4. (One - 1) * (One - 1) = One * One - 2 * One + 1
        /\ (One - 10) * (One - 10) = One * One - 20 * One + 100 /\ One * One \in Int
    BY <1>1
  <2> QED
    BY <1>1, <1>2, <1>4, <1>7, <1>9, <2>3, <2>4
<1> QED
  BY <1>12, <1>13 DEF norm


\* What the estimate of a housing looks like, and one of a flat port.
LEMMA NormalShape ==
    ASSUME NEW v \in UnitNormals
    PROVE  /\ WithNormal(v) \in [1 .. 8 -> Int]
           /\ Len(WithNormal(v)) = 8
           /\ IsNormalized(VectorToCSV(WithNormal(v)))
<1>1. PICK a \in Int, b \in Int, c \in Int :
         /\ v = <<a, b, c>>
         /\ SquaredNorm(v) > (One - 1) * (One - 1) /\ SquaredNorm(v) < (One + 1) * (One + 1)
  BY OneAssumption DEF UnitNormals
<1> DEFINE rest == [i \in 1 .. 5 |-> 0]
           p == WithNormal(v)
<1>2. v \in Seq(Int) /\ Len(v) = 3 /\ rest \in Seq(Int) /\ Len(rest) = 5
  BY <1>1
<1>3. p \in Seq(Int) /\ Len(p) = 8 /\ p[1] = a /\ p[2] = b /\ p[3] = c
  BY <1>1, <1>2 DEF WithNormal
<1> HIDE DEF p
<1>4. p \in [1 .. 8 -> Int] /\ DOMAIN p = 1 .. 8
  <2>1. \A s \in Seq(Int) : s \in [1 .. Len(s) -> Int]
    OBVIOUS
  <2> QED
    BY <1>3, <2>1
<1> DEFINE q == VectorToCSV(p)
<1>5. q[1] = Rounded(a) /\ q[2] = Rounded(b) /\ q[3] = Rounded(c)
  BY <1>3, <1>4 DEF VectorToCSV
<1>6. PICK d \in -5 .. 5, e \in -5 .. 5, f \in -5 .. 5 :
         Rounded(a) = a + d /\ Rounded(b) = b + e /\ Rounded(c) = c + f
  <2>1. \A x \in Int : Rounded(x) = x + (Rounded(x) - x) /\ Rounded(x) - x \in -5 .. 5
    BY RoundedNear
  <2> QED
    BY <2>1
<1>7. a * a + b * b + c * c > (One - 1) * (One - 1) /\ a * a + b * b + c * c < (One + 1) * (One + 1)
  BY <1>1 DEF SquaredNorm
<1> DEFINE norm == (a + d) * (a + d) + (b + e) * (b + e) + (c + f) * (c + f)
<1>8. norm >= (One - 10) * (One - 10) /\ norm =< (One + 10) * (One + 10)
  BY <1>7, NormalSurvives
<1>9. SquaredNorm(q) = norm
  <2> HIDE DEF q
  <2> QED
    BY <1>5, <1>6 DEF SquaredNorm
<1>10. IsNormalized(q)
  <2> HIDE DEF q, norm
  <2> QED
    BY <1>8, <1>9 DEF IsNormalized
<1> QED
  BY <1>3, <1>4, <1>10 DEF p

LEMMA ParametersOfModels ==
    /\ \A model \in Models : CameraModels[model] \in Nat
    /\ \A type \in {"DOMEPORT", "FLATPORT"} : HousingInterfaces[type] = 8
BY ModelsAssumption DEF CameraModels, HousingInterfaces

LEMMA RoundedVector ==
    ASSUME NEW n \in Nat, NEW p \in [1 .. n -> Int]
    PROVE  VectorToCSV(p) \in [1 .. n -> Int] /\ Len(VectorToCSV(p)) = n
<1>1. VectorToCSV(p) = [i \in 1 .. n |-> Rounded(p[i])]
  BY DEF VectorToCSV
<1>2. VectorToCSV(p) \in [1 .. n -> Int]
  BY <1>1, RoundedNear
<1> QED
  BY <1>2

\* What the estimates of a form's calibration look like.
LEMMA EstimateShape ==
    ASSUME NEW form \in Forms, NEW options, options.camera_model = form.camera_model,
           options.housing_calibration = form.housing, NEW estimate \in Estimates(options)
    PROVE  /\ estimate.camera \in [1 .. CameraModels[form.camera_model] -> Int]
           /\ estimate.housing \in [1 .. 8 -> Int]
           /\ \A h \in form.housing :
                 h.type = "FLATPORT" => IsNormalized(VectorToCSV(estimate.housing))
<1>1. CameraModels[form.camera_model] \in Nat
  BY ParametersOfModels DEF Forms
<1>2. PICK h \in IF \E p \in form.housing : p.type = "FLATPORT"
                 THEN {WithNormal(n) : n \in UnitNormals}
                 ELSE {[i \in 1 .. 8 |-> 3]} :
         estimate = [camera |-> [i \in 1 .. CameraModels[form.camera_model] |-> 14 * i],
                     housing |-> h]
  BY DEF Estimates
<1>3. estimate.housing = h /\ estimate.camera = [i \in 1 .. CameraModels[form.camera_model] |-> 14 * i]
  BY <1>2
<1>4. estimate.camera \in [1 .. CameraModels[form.camera_model] -> Int]
  BY <1>1, <1>3
<1>5. CASE \E p \in form.housing : p.type = "FLATPORT"
  BY <1>2, <1>3, <1>4, <1>5, NormalShape
<1>6. CASE ~ \E p \in form.housing : p.type = "FLATPORT"
  BY <1>2, <1>3, <1>4, <1>6
<1> QED
  BY <1>5, <1>6


LEMMA TargetShape ==
    ASSUME NEW target \in Targets
    PROVE  \/ target = Chessboard(4, 5, 20) \/ target = Target3D
           \/ target = Target3DAruco("5X5", 1500)
           \/ \E origin, direction, bits :
                 target = ArucoBoard("4X4", origin, direction, 3, 2, 10, 5, bits)
BY DEF Targets

LEMMA HousingShape ==
    ASSUME NEW housing \in HousingForms, NEW h \in housing
    PROVE  h.type \in {"DOMEPORT", "FLATPORT"} /\ h = [type |-> h.type, parameters |-> h.parameters]
BY DEF HousingForms

\* The board that a report's import shows: it knows no other origin, direction and
\* border.
Moved(target) == [target EXCEPT !.grid_origin = "TopLeft", !.grid_direction = "Horizontal",
                                !.border_bits = 1]

LEMMA BoardMoves ==
    ASSUME NEW origin, NEW direction, NEW bits
    PROVE  Moved(ArucoBoard("4X4", origin, direction, 3, 2, 10, 5, bits))
              = ArucoBoard("4X4", "TopLeft", "Horizontal", 3, 2, 10, 5, 1)
<1> DEFINE board(o, d, b) == ArucoBoard("4X4", o, d, 3, 2, 10, 5, b)
<1>1. [board(origin, direction, bits) EXCEPT !.grid_origin = "TopLeft"]
         = board("TopLeft", direction, bits)
  BY DEF ArucoBoard
<1>2. [board("TopLeft", direction, bits) EXCEPT !.grid_direction = "Horizontal"]
         = board("TopLeft", "Horizontal", bits)
  BY DEF ArucoBoard
<1>3. [board("TopLeft", "Horizontal", bits) EXCEPT !.border_bits = 1]
         = board("TopLeft", "Horizontal", 1)
  BY DEF ArucoBoard
<1> HIDE DEF board
<1>4. [board(origin, direction, bits) EXCEPT !.grid_origin = "TopLeft",
                                             !.grid_direction = "Horizontal", !.border_bits = 1]
         = board("TopLeft", "Horizontal", 1)
  BY <1>1, <1>2, <1>3
<1> QED
  BY <1>4 DEF board, Moved

\* What ImportRestores says of a calibration and a dialog's members.
Restored(options, estimate, members) ==
    LET yaml == GenerateCalibrationYaml(options, estimate.camera, estimate.housing)
        form == ImportParameters(ImportFromYaml(yaml))
    IN Validate(form) /\ GetOptions(AfterValidate(members, form), form)
                            = Recalibration(options, estimate)

\* A calibration's report imports into a form that validates, and the dialog then
\* has the calibration's options, whatever its members were.
LEMMA FormRestored ==
    ASSUME NEW form \in Forms, Validate(form), NEW members,
           NEW estimate,
           estimate.camera \in [1 .. CameraModels[form.camera_model] -> Int],
           estimate.housing \in [1 .. 8 -> Int],
           \A h \in form.housing :
              h.type = "FLATPORT" => IsNormalized(VectorToCSV(estimate.housing))
    PROVE  Restored(Accepted(form), estimate, members)
<1> DEFINE options == Accepted(form)
           camera == estimate.camera
           housing == estimate.housing
           yaml == GenerateCalibrationYaml(options, camera, housing)
           imported == ImportParameters(ImportFromYaml(yaml))
           target == Recalibration(options, estimate).calibration_target_options
           housings == {[h EXCEPT !.parameters = VectorToCSV(housing)] : h \in form.housing}
<1>1. /\ form.camera_model \in Models /\ form.target \in Targets /\ form.housing \in HousingForms
      /\ CameraModels[form.camera_model] \in Nat
  BY ParametersOfModels DEF Forms
<1>2. options = [camera_model |-> form.camera_model, calibration_target_options |-> form.target,
                 housing_calibration |-> form.housing, initial_camera_parameters |-> form.initial]
  BY DEF Accepted, GetOptions, AfterValidate, Validate
<1>0. /\ camera \in [1 .. CameraModels[form.camera_model] -> Int]
      /\ housing \in [1 .. 8 -> Int]
      /\ \A h \in form.housing : h.type = "FLATPORT" => IsNormalized(VectorToCSV(housing))
  OBVIOUS
<1> HIDE DEF options
<1>3. /\ options.camera_model = form.camera_model
      /\ options.calibration_target_options = form.target
      /\ options.housing_calibration = form.housing
  BY <1>2
<1>4. ImportedTarget(ImportFromYaml(yaml)) = target
  <2>1. CASE form.target = Chessboard(4, 5, 20)
    BY <2>1, <1>3 DEF ImportedTarget, ImportFromYaml, GenerateCalibrationYaml, TargetInfo,
                      Recalibration, Chessboard
  <2>2. CASE form.target = Target3D
    BY <2>2, <1>3 DEF ImportedTarget, ImportFromYaml, GenerateCalibrationYaml, TargetInfo,
                      Recalibration, Target3D
  <2>3. CASE form.target = Target3DAruco("5X5", 1500)
    BY <2>3, <1>3 DEF ImportedTarget, ImportFromYaml, GenerateCalibrationYaml, TargetInfo,
                      Recalibration, Target3DAruco
  <2>4. ASSUME NEW origin, NEW direction, NEW bits,
               form.target = ArucoBoard("4X4", origin, direction, 3, 2, 10, 5, bits)
        PROVE  ImportedTarget(ImportFromYaml(yaml)) = target
    <3> DEFINE board == ArucoBoard("4X4", "TopLeft", "Horizontal", 3, 2, 10, 5, 1)
    <3>1. ImportedTarget(ImportFromYaml(yaml)) = board
      BY <2>4, <1>3 DEF ImportedTarget, ImportFromYaml, GenerateCalibrationYaml, TargetInfo,
                        ArucoBoard
    <3>2. form.target.type = "ArucoGridBoard"
      BY <2>4 DEF ArucoBoard
    <3>3. target = Moved(form.target)
      BY <3>2, <1>3 DEF Recalibration, Moved
    <3> HIDE DEF target
    <3>4. target = board
      BY <2>4, <3>3, BoardMoves
    <3> QED
      BY <3>1, <3>4
  <2>5. \/ form.target = Chessboard(4, 5, 20) \/ form.target = Target3D
        \/ form.target = Target3DAruco("5X5", 1500)
        \/ \E origin, direction, bits :
              form.target = ArucoBoard("4X4", origin, direction, 3, 2, 10, 5, bits)
    BY <1>1, TargetShape
  <2> HIDE DEF yaml, target
  <2>6. CASE \E origin, direction, bits :
                form.target = ArucoBoard("4X4", origin, direction, 3, 2, 10, 5, bits)
    BY <2>4, <2>6
  <2> QED
    BY <2>1, <2>2, <2>3, <2>5, <2>6
<1>5. \A h \in form.housing :
         h.type \in {"DOMEPORT", "FLATPORT"} /\ h = [type |-> h.type, parameters |-> h.parameters]
  BY <1>1, HousingShape
<1>6. imported.housing = housings
  <2>1. imported.housing = FormHousing({[type |-> type, parameters |-> IF form.housing = {} THEN <<>>
                                                                      ELSE housing] :
                                           type \in {h.type : h \in form.housing}})
    BY <1>3 DEF ImportParameters, SetOptions, ImportFromYaml, GenerateCalibrationYaml
  <2>2. CASE form.housing = {}
    BY <2>1, <2>2 DEF FormHousing
  <2>3. CASE form.housing # {}
    <3> DEFINE Read(type) == [type |-> type, parameters |-> housing]
               Shown(type) == [type |-> type, parameters |-> VectorToCSV(housing)]
               types == {h.type : h \in form.housing}
    <3>1. imported.housing = {[g EXCEPT !.parameters = VectorToCSV(@)] :
                                 g \in {Read(type) : type \in types}}
      BY <2>1, <2>3 DEF FormHousing
    <3>2. \A type : [Read(type) EXCEPT !.parameters = VectorToCSV(@)] = Shown(type)
      OBVIOUS
    <3>3. \A h \in form.housing : [h EXCEPT !.parameters = VectorToCSV(housing)] = Shown(h.type)
      BY <1>5
    <3> HIDE DEF imported, Read, Shown
    <3>4. ASSUME NEW x PROVE x \in imported.housing <=> \E type \in types : x = Shown(type)
      BY <3>1, <3>2
    <3>5. ASSUME NEW x PROVE x \in housings <=> \E type \in types : x = Shown(type)
      BY <3>3
    <3> HIDE DEF housings, types
    <3>6. \A x : x \in imported.housing <=> x \in housings
      BY <3>4, <3>5
    <3>7. imported.housing \subseteq housings /\ housings \subseteq imported.housing
      BY <3>6
    <3> QED
      BY <3>7
  <2> QED
    BY <2>2, <2>3
<1>7. /\ imported.camera_model = form.camera_model
      /\ imported.target = target
      /\ imported.initial = {VectorToCSV(camera)}
  <2>1. ImportParameters(ImportFromYaml(yaml)).target = ImportedTarget(ImportFromYaml(yaml))
    BY DEF ImportParameters, SetOptions
  <2> QED
    BY <2>1, <1>3, <1>4 DEF ImportParameters, SetOptions, ImportFromYaml, GenerateCalibrationYaml
<1>8. Recalibration(options, estimate)
         = [camera_model |-> form.camera_model, calibration_target_options |-> target,
            housing_calibration |-> housings,
            initial_camera_parameters |-> {VectorToCSV(camera)}]
  BY <1>3 DEF Recalibration
<1> HIDE DEF imported, target, camera, housing
<1>9. \A g \in housings : /\ g.type \in {"DOMEPORT", "FLATPORT"}
                          /\ g.parameters = VectorToCSV(housing)
                          /\ g.type = "FLATPORT" => IsNormalized(VectorToCSV(housing))
  <2> SUFFICES ASSUME NEW h \in form.housing,
                      NEW g, g = [h EXCEPT !.parameters = VectorToCSV(housing)]
               PROVE  /\ g.type \in {"DOMEPORT", "FLATPORT"}
                      /\ g.parameters = VectorToCSV(housing)
                      /\ g.type = "FLATPORT" => IsNormalized(VectorToCSV(housing))
    OBVIOUS
  <2>1. g = [type |-> h.type, parameters |-> VectorToCSV(housing)]
    BY <1>5
  <2> QED
    BY <2>1, <1>0, <1>5
<1> HIDE DEF housings
<1>10. /\ HousingAccepted(imported.housing) /\ CameraAccepted(imported)
       /\ imported.initial # {}
  <2>1. Len(VectorToCSV(housing)) = 8
    BY <1>0, RoundedVector
  <2>2. Len(VectorToCSV(camera)) = CameraModels[form.camera_model]
    BY <1>0, <1>1, RoundedVector
  <2>3. HousingAccepted(imported.housing)
    BY <2>1, <1>6, <1>9, ParametersOfModels DEF HousingAccepted
  <2> QED
    BY <2>2, <2>3, <1>7 DEF CameraAccepted
<1>11. Validate(imported)
  BY <1>10 DEF Validate
<1>12. GetOptions(AfterValidate(members, imported), imported)
          = [camera_model |-> form.camera_model, calibration_target_options |-> target,
             housing_calibration |-> housings,
             initial_camera_parameters |-> {VectorToCSV(camera)}]
  BY <1>6, <1>7, <1>10 DEF GetOptions, AfterValidate
<1>13. /\ GetOptions(AfterValidate(members, imported), imported) = Recalibration(options, estimate)
       /\ Validate(imported)
  BY <1>8, <1>11, <1>12
<1> QED
  BY <1>13 DEF Restored, imported, options, camera, housing

ImportInv(s) ==
    s.of = "import" =>
        \E form \in Forms, members \in LeftOver :
            /\ Validate(form)
            /\ \E estimate \in Estimates(Accepted(form)) :
                  s = [of |-> "import", options |-> Accepted(form), estimate |-> estimate,
                       members |-> members]

LEMMA ImportInvariant == Spec => []ImportInv(subject)
<1>1. Init => ImportInv(subject)
  BY DEF Init, Idle, ImportInv
<1>2. SubjectInv /\ ImportInv(subject) /\ [Next]_subject => ImportInv(subject)'
  <2> SUFFICES ASSUME SubjectInv, ImportInv(subject), [Next]_subject PROVE ImportInv(subject')
    OBVIOUS
  <2>1. CASE CalibrateAndImport
    BY <2>1 DEF CalibrateAndImport, Compute, ImportInv
  <2>2. CASE Detect
    BY <2>2 DEF Detect, Compute, ImportInv
  <2>3. CASE ~CalibrateAndImport /\ ~Detect
    BY <2>3, InputsStay DEF ImportInv
  <2> QED
    BY <2>1, <2>2, <2>3
<1> QED
  BY <1>1, <1>2, SubjectInvariant, PTL DEF Spec

\* The report of every calibration imports as the options it was made with, to six
\* decimals, and a flat port's normal is still accepted: for any resolution of the
\* numbers, of which the code's is one.
THEOREM ReportsImport == Spec => []ImportRestores
<1>1. ImportInv(subject) => ImportRestores
  <2> SUFFICES ASSUME ImportInv(subject), subject.of = "import" PROVE ImportRestores
    BY DEF ImportRestores
  <2>0. PICK form \in Forms, members \in LeftOver :
           /\ Validate(form)
           /\ \E estimate \in Estimates(Accepted(form)) :
                 subject = [of |-> "import", options |-> Accepted(form), estimate |-> estimate,
                            members |-> members]
    BY DEF ImportInv
  <2>1. PICK estimate \in Estimates(Accepted(form)) :
           subject = [of |-> "import", options |-> Accepted(form), estimate |-> estimate,
                      members |-> members]
    BY <2>0
  <2>2. /\ Accepted(form).camera_model = form.camera_model
        /\ Accepted(form).housing_calibration = form.housing
    BY <2>0 DEF Accepted, GetOptions, AfterValidate, Validate
  <2>3. /\ estimate.camera \in [1 .. CameraModels[form.camera_model] -> Int]
        /\ estimate.housing \in [1 .. 8 -> Int]
        /\ \A h \in form.housing :
              h.type = "FLATPORT" => IsNormalized(VectorToCSV(estimate.housing))
    BY <2>2, EstimateShape
  <2>4. /\ subject.options = Accepted(form) /\ subject.estimate = estimate
        /\ subject.members = members
    BY <2>1
  <2>5. Restored(Accepted(form), estimate, members)
    BY <2>0, <2>3, FormRestored
  <2>6. Restored(subject.options, subject.estimate, subject.members)
    BY <2>4, <2>5
  <2> QED
    BY <2>6 DEF ImportRestores, Restored
<1> QED
  BY <1>1, ImportInvariant, PTL


-----------------------------------------------------------------------------
(* Boards *)

\* Any board and any sequence of detected markers.
AnyBoards == [rows : Nat \ {0}, columns : Nat \ {0}, start_id : Int,
              grid_origin : GridOrigins, grid_direction : GridDirections]
Detections == Seq([id : Int, close_to_border : BOOLEAN])

\* The length of the lines along the grid's direction, and how many there are.
LineLength(board) == IF board.grid_direction = "Horizontal" THEN board.columns ELSE board.rows
Lines(board) == IF board.grid_direction = "Horizontal" THEN board.rows ELSE board.columns

\* A column, or a row, counted from the grid's origin.
FromOrigin(board, at) ==
    <<IF board.grid_origin \in {"TopLeft", "TopRight"} THEN at[1] ELSE (board.rows - 1) - at[1],
      IF board.grid_origin \in {"TopLeft", "BottomLeft"} THEN at[2] ELSE (board.columns - 1) - at[2]>>

\* What is put together of a place on a line and a line has one of each.
LEMMA PlaceAndLine ==
    ASSUME NEW w \in Nat \ {0}, NEW p \in 0 .. w - 1, NEW q \in Nat,
           NEW s \in 0 .. w - 1, NEW t \in Nat, p + q * w = s + t * w
    PROVE  p = s /\ q = t
<1>1. w \in Int /\ w >= 1 /\ q \in Int /\ t \in Int /\ p \in Int /\ s \in Int
      /\ 0 =< p /\ p < w /\ 0 =< s /\ s < w
  OBVIOUS
<1>2. (q - t) * w = s - p
  BY <1>1
<1>3. ASSUME NEW d \in Int, d * w = s - p PROVE d = 0
  <2>1. CASE d >= 1
    <3>1. d * w >= w
      BY <1>1, <2>1
    <3> QED
      BY <1>1, <1>3, <3>1
  <2>2. CASE d =< -1
    <3>1. d * w =< -w
      BY <1>1, <2>2
    <3> QED
      BY <1>1, <1>3, <3>1
  <2> QED
    BY <2>1, <2>2
<1>4. q - t = 0
  BY <1>1, <1>2, <1>3
<1> QED
  BY <1>1, <1>2, <1>4

\* The ids and where they are: the marker with a place on a line and a line.
LEMMA IdOfPlace ==
    ASSUME NEW board \in AnyBoards
    PROVE  /\ LineLength(board) \in Nat \ {0} /\ Lines(board) \in Nat \ {0}
           /\ board.columns * board.rows = Lines(board) * LineLength(board)
           /\ \A at \in Grid(board) :
                 /\ MarkerCol(board, at[1], at[2]) \in 0 .. LineLength(board) - 1
                 /\ MarkerRow(board, at[1], at[2]) \in 0 .. Lines(board) - 1
                 /\ MarkerId(board, at[1], at[2])
                       = board.start_id + (MarkerCol(board, at[1], at[2])
                                             + MarkerRow(board, at[1], at[2]) * LineLength(board))
                 /\ MarkerId(board, at[1], at[2]) \in Int
<1>1. /\ board.rows \in Nat \ {0} /\ board.columns \in Nat \ {0} /\ board.start_id \in Int
      /\ board.grid_direction \in {"Horizontal", "Vertical"}
  BY DEF AnyBoards, GridDirections
<1>2. LineLength(board) \in Nat \ {0} /\ Lines(board) \in Nat \ {0}
  BY <1>1 DEF LineLength, Lines
<1>3. board.columns * board.rows = Lines(board) * LineLength(board)
  BY <1>1 DEF LineLength, Lines
<1>4. ASSUME NEW at \in Grid(board)
      PROVE  /\ MarkerCol(board, at[1], at[2]) \in 0 .. LineLength(board) - 1
             /\ MarkerRow(board, at[1], at[2]) \in 0 .. Lines(board) - 1
             /\ MarkerId(board, at[1], at[2])
                   = board.start_id + (MarkerCol(board, at[1], at[2])
                                         + MarkerRow(board, at[1], at[2]) * LineLength(board))
             /\ MarkerId(board, at[1], at[2]) \in Int
  <2> DEFINE p == MarkerCol(board, at[1], at[2])
             q == MarkerRow(board, at[1], at[2])
  <2>1. at[1] \in 0 .. board.rows - 1 /\ at[2] \in 0 .. board.columns - 1
    BY DEF Grid
  <2>2. p \in 0 .. LineLength(board) - 1
    BY <1>1, <2>1 DEF MarkerCol, LineLength
  <2>3. q \in 0 .. Lines(board) - 1
    BY <1>1, <2>1 DEF MarkerRow, Lines
  <2>4. MarkerId(board, at[1], at[2]) = board.start_id + p + q * LineLength(board)
    BY DEF MarkerId, LineLength
  <2> HIDE DEF p, q
  <2>5. /\ board.start_id + p + q * LineLength(board) = board.start_id + (p + q * LineLength(board))
        /\ board.start_id + p + q * LineLength(board) \in Int
    BY <1>1, <1>2, <2>2, <2>3
  <2> QED
    BY <2>2, <2>3, <2>4, <2>5 DEF p, q
<1> QED
  BY <1>2, <1>3, <1>4

\* No two places of the board have an id.
LEMMA OnePlacePerId ==
    ASSUME NEW board \in AnyBoards, NEW at \in Grid(board), NEW other \in Grid(board),
           MarkerId(board, at[1], at[2]) = MarkerId(board, other[1], other[2])
    PROVE  at = other
<1> DEFINE p == MarkerCol(board, at[1], at[2])
           q == MarkerRow(board, at[1], at[2])
           s == MarkerCol(board, other[1], other[2])
           t == MarkerRow(board, other[1], other[2])
           w == LineLength(board)
<1>1. /\ w \in Nat \ {0} /\ Lines(board) \in Nat \ {0}
      /\ p \in 0 .. w - 1 /\ q \in 0 .. Lines(board) - 1
      /\ s \in 0 .. w - 1 /\ t \in 0 .. Lines(board) - 1
      /\ MarkerId(board, at[1], at[2]) = board.start_id + (p + q * w)
      /\ MarkerId(board, other[1], other[2]) = board.start_id + (s + t * w)
  BY IdOfPlace
<1>2. board.start_id \in Int /\ board.rows \in Nat /\ board.columns \in Nat
  BY DEF AnyBoards
<1>3. p = s /\ q = t
  <2> HIDE DEF p, q, s, t, w
  <2>1. p + q * w = s + t * w
    <3>1. p + q * w \in Int /\ s + t * w \in Int
      BY <1>1
    <3>2. board.start_id + (p + q * w) = board.start_id + (s + t * w)
      BY <1>1
    <3>3. ASSUME NEW x \in Int, NEW y \in Int, board.start_id + x = board.start_id + y
          PROVE  x = y
      BY <1>2, <3>3
    <3> QED
      BY <3>1, <3>2, <3>3
  <2>2. q \in Nat /\ t \in Nat
    BY <1>1
  <2> QED
    BY <1>1, <2>1, <2>2, PlaceAndLine
<1>4. /\ at[1] \in 0 .. board.rows - 1 /\ at[2] \in 0 .. board.columns - 1
      /\ other[1] \in 0 .. board.rows - 1 /\ other[2] \in 0 .. board.columns - 1
      /\ at = <<at[1], at[2]>> /\ other = <<other[1], other[2]>>
  BY DEF Grid
<1>5. at[1] = other[1] /\ at[2] = other[2]
  BY <1>2, <1>3, <1>4 DEF MarkerCol, MarkerRow
<1> QED
  BY <1>4, <1>5

\* Every id from start_id on has a place.
LEMMA PlaceOfId ==
    ASSUME NEW board \in AnyBoards, NEW id \in board.start_id .. MaxId(board)
    PROVE  \E at \in Grid(board) : MarkerId(board, at[1], at[2]) = id
<1> DEFINE w == LineLength(board)
           h == Lines(board)
           p == (id - board.start_id) % w
           q == (id - board.start_id) \div w
<1>1. /\ w \in Nat \ {0} /\ h \in Nat \ {0} /\ board.columns * board.rows = h * w
      /\ board.start_id \in Int /\ board.rows \in Nat \ {0} /\ board.columns \in Nat \ {0}
      /\ board.grid_direction \in {"Horizontal", "Vertical"}
  BY IdOfPlace DEF AnyBoards, GridDirections
<1>2. /\ id \in Int /\ id - board.start_id \in Nat /\ id - board.start_id < h * w
  <2>1. MaxId(board) = h * w + board.start_id - 1 /\ h * w \in Int
    BY <1>1 DEF MaxId
  <2> HIDE DEF h, w
  <2> QED
    BY <1>1, <2>1
<1>3. /\ p \in 0 .. w - 1 /\ q \in Nat /\ id - board.start_id = p + q * w
  <2> HIDE DEF w, h
  <2>1. p \in 0 .. w - 1 /\ q \in Nat /\ id - board.start_id = q * w + p
    BY <1>1, <1>2, Division
  <2> QED
    BY <1>1, <2>1
<1>4. q \in 0 .. h - 1
  <2> HIDE DEF p, q, w, h
  <2> SUFFICES ASSUME q >= h PROVE FALSE
    BY <1>1, <1>3
  <2>1. q * w >= h * w
    BY <1>1, <1>3
  <2> QED
    BY <1>1, <1>2, <1>3, <2>1
<1> DEFINE c == IF board.grid_direction = "Horizontal" THEN p ELSE q
           r == IF board.grid_direction = "Horizontal" THEN q ELSE p
           at == FromOrigin(board, <<r, c>>)
<1>5. c \in 0 .. board.columns - 1 /\ r \in 0 .. board.rows - 1
  <2> HIDE DEF p, q
  <2> QED
    BY <1>1, <1>3, <1>4 DEF LineLength, Lines
<1> HIDE DEF p, q
<1>6. at \in Grid(board)
  <2> HIDE DEF c, r
  <2> QED
    BY <1>1, <1>5 DEF Grid, FromOrigin
<1>7. MarkerCol(board, at[1], at[2]) = p /\ MarkerRow(board, at[1], at[2]) = q
  <2> DEFINE rr == IF board.grid_origin \in {"TopLeft", "TopRight"} THEN at[1]
                   ELSE (board.rows - 1) - at[1]
             cc == IF board.grid_origin \in {"TopLeft", "BottomLeft"} THEN at[2]
                   ELSE (board.columns - 1) - at[2]
  <2>1. rr = r /\ cc = c
    <3> HIDE DEF c, r
    <3> QED
      BY <1>1, <1>5 DEF FromOrigin
  <2>2. /\ MarkerCol(board, at[1], at[2])
              = (IF board.grid_direction = "Horizontal" THEN cc ELSE rr)
        /\ MarkerRow(board, at[1], at[2])
              = (IF board.grid_direction = "Horizontal" THEN rr ELSE cc)
    BY DEF MarkerCol, MarkerRow
  <2> HIDE DEF rr, cc
  <2> QED
    BY <1>1, <2>1, <2>2
<1>8. MarkerId(board, at[1], at[2]) = board.start_id + (p + q * w)
  BY <1>6, <1>7, IdOfPlace
<1>9. board.start_id + (p + q * w) = id
  <2> HIDE DEF w
  <2> QED
    BY <1>1, <1>2, <1>3
<1> QED
  BY <1>6, <1>8, <1>9


\* The ids are those from start_id to the last.
LEMMA IdWithin ==
    ASSUME NEW board \in AnyBoards, NEW at \in Grid(board)
    PROVE  MarkerId(board, at[1], at[2]) \in board.start_id .. MaxId(board)
<1> DEFINE p == MarkerCol(board, at[1], at[2])
           q == MarkerRow(board, at[1], at[2])
           w == LineLength(board)
           h == Lines(board)
<1>1. /\ w \in Nat \ {0} /\ h \in Nat \ {0} /\ board.columns * board.rows = h * w
      /\ p \in 0 .. w - 1 /\ q \in 0 .. h - 1
      /\ MarkerId(board, at[1], at[2]) = board.start_id + (p + q * w)
      /\ board.start_id \in Int
  BY IdOfPlace DEF AnyBoards
<1>2. MaxId(board) = h * w + board.start_id - 1
  BY <1>1 DEF MaxId
<1> HIDE DEF p, q, w, h
<1>3. /\ h * w \in Int /\ q * w \in Int /\ q * w >= 0
      /\ (h - 1) * w = h * w - w /\ q * w =< (h - 1) * w
  BY <1>1
<1> QED
  BY <1>1, <1>2, <1>3

\* A point of the board belongs to a marker and a corner, and its id tells which.
LEMMA PointOfMarker ==
    ASSUME NEW board \in AnyBoards
    PROVE  /\ \A p \in Points3D(board) :
                 /\ <<p.row, p.col>> \in Grid(board) /\ p.corner \in 0 .. 3
                 /\ p.id = (MarkerId(board, p.row, p.col) - board.start_id) * 4 + p.corner
                 /\ p = [id |-> p.id, row |-> p.row, col |-> p.col, corner |-> p.corner]
           /\ \A id \in board.start_id .. MaxId(board), j \in 0 .. 3 : \E p \in Points3D(board) :
                 p.id = MapMarkerCornerToPointId(board, id, j)
<1>1. board.start_id \in Int
  BY DEF AnyBoards
<1>2. ASSUME NEW p \in Points3D(board)
      PROVE  /\ <<p.row, p.col>> \in Grid(board) /\ p.corner \in 0 .. 3
             /\ p.id = (MarkerId(board, p.row, p.col) - board.start_id) * 4 + p.corner
             /\ p = [id |-> p.id, row |-> p.row, col |-> p.col, corner |-> p.corner]
  <2>1. PICK at \in Grid(board), j \in 0 .. 3 :
           p = [id |-> MapMarkerCornerToPointId(board, MarkerId(board, at[1], at[2]), j),
                row |-> at[1], col |-> at[2], corner |-> j]
    BY DEF Points3D
  <2>2. at = <<at[1], at[2]>>
    BY DEF Grid
  <2>3. p.id = MapMarkerCornerToPointId(board, MarkerId(board, at[1], at[2]), j)
        /\ p.row = at[1] /\ p.col = at[2] /\ p.corner = j
    BY <2>1
  <2> QED
    BY <2>1, <2>2, <2>3 DEF MapMarkerCornerToPointId
<1>3. ASSUME NEW id \in board.start_id .. MaxId(board), NEW j \in 0 .. 3
      PROVE  \E p \in Points3D(board) : p.id = MapMarkerCornerToPointId(board, id, j)
  <2>1. PICK at \in Grid(board) : MarkerId(board, at[1], at[2]) = id
    BY PlaceOfId
  <2> DEFINE p == [id |-> MapMarkerCornerToPointId(board, MarkerId(board, at[1], at[2]), j),
                   row |-> at[1], col |-> at[2], corner |-> j]
  <2>2. p \in Points3D(board)
    <3> DEFINE Point(a, k) == [id |-> MapMarkerCornerToPointId(board, MarkerId(board, a[1], a[2]), k),
                               row |-> a[1], col |-> a[2], corner |-> k]
    <3>1. Points3D(board) = {Point(a, k) : a \in Grid(board), k \in 0 .. 3}
      BY DEF Points3D
    <3>2. p = Point(at, j)
      OBVIOUS
    <3> HIDE DEF p, Point
    <3> QED
      BY <3>1, <3>2
  <2>3. p.id = MapMarkerCornerToPointId(board, id, j)
    BY <2>1
  <2> HIDE DEF p
  <2> QED
    BY <2>2, <2>3
<1> QED
  BY <1>2, <1>3

\* The point of a marker's corner is the only one of its id.
LEMMA PointIsMarkers ==
    ASSUME NEW board \in AnyBoards, NEW p \in Points3D(board),
           NEW id \in Int, NEW j \in 0 .. 3, p.id = MapMarkerCornerToPointId(board, id, j)
    PROVE  MarkerId(board, p.row, p.col) = id /\ p.corner = j
<1> DEFINE own == MarkerId(board, p.row, p.col)
<1>1. /\ <<p.row, p.col>> \in Grid(board) /\ p.corner \in 0 .. 3
      /\ p.id = (own - board.start_id) * 4 + p.corner
  BY PointOfMarker
<1>2. own \in Int
  <2> DEFINE at == <<p.row, p.col>>
  <2>1. at \in Grid(board) /\ at[1] = p.row /\ at[2] = p.col
    BY <1>1
  <2> HIDE DEF at
  <2> QED
    BY <2>1, IdOfPlace
<1>3. p.id = (id - board.start_id) * 4 + j /\ board.start_id \in Int
  BY DEF MapMarkerCornerToPointId, AnyBoards
<1> HIDE DEF own
<1>4. own = id /\ p.corner = j
  BY <1>1, <1>2, <1>3
<1> QED
  BY <1>4 DEF own

\* Different corners of the board's markers have different points.
LEMMA OnePointPerId ==
    ASSUME NEW board \in AnyBoards, NEW p \in Points3D(board), NEW q \in Points3D(board),
           p.id = q.id
    PROVE  p = q
<1> DEFINE at == <<p.row, p.col>>
           other == <<q.row, q.col>>
<1>1. /\ at \in Grid(board) /\ p.corner \in 0 .. 3
      /\ p = [id |-> p.id, row |-> p.row, col |-> p.col, corner |-> p.corner]
      /\ q = [id |-> q.id, row |-> q.row, col |-> q.col, corner |-> q.corner]
      /\ other \in Grid(board) /\ q.corner \in 0 .. 3
      /\ p.id = MapMarkerCornerToPointId(board, MarkerId(board, p.row, p.col), p.corner)
  BY PointOfMarker DEF MapMarkerCornerToPointId
<1>2. /\ at[1] = p.row /\ at[2] = p.col /\ other[1] = q.row /\ other[2] = q.col
  OBVIOUS
<1> HIDE DEF at, other
<1>3. MarkerId(board, p.row, p.col) \in Int
  BY <1>1, <1>2, IdOfPlace
<1>4. MarkerId(board, q.row, q.col) = MarkerId(board, p.row, p.col) /\ q.corner = p.corner
  <2>1. q.id = MapMarkerCornerToPointId(board, MarkerId(board, p.row, p.col), p.corner)
    BY <1>1
  <2> QED
    BY <1>1, <1>3, <2>1, PointIsMarkers
<1>5. at = other
  BY <1>1, <1>2, <1>4, OnePlacePerId
<1> QED
  BY <1>1, <1>2, <1>4, <1>5

\* A board of any size is numbered without gaps, in the order its grid asks for.
LEMMA NumbersAnyBoard ==
    ASSUME NEW board \in AnyBoards
    PROVE  NumbersTheBoard(board)
<1> DEFINE Id(at) == MarkerId(board, at[1], at[2])
           w == LineLength(board)
           h == Lines(board)
<1>1. /\ w \in Nat \ {0} /\ h \in Nat \ {0} /\ board.columns * board.rows = h * w
      /\ board.start_id \in Int /\ board.rows \in Nat \ {0} /\ board.columns \in Nat \ {0}
      /\ board.grid_direction \in {"Horizontal", "Vertical"} /\ board.grid_origin \in GridOrigins
  BY IdOfPlace DEF AnyBoards, GridDirections
<1>2. {Id(at) : at \in Grid(board)} = board.start_id .. MaxId(board)
  BY IdWithin, PlaceOfId
<1> DEFINE origin ==
              <<IF board.grid_origin \in {"TopLeft", "TopRight"} THEN 0 ELSE board.rows - 1,
                IF board.grid_origin \in {"TopLeft", "BottomLeft"} THEN 0 ELSE board.columns - 1>>
<1>3. Id(origin) = board.start_id
  <2>1. origin \in Grid(board)
    BY <1>1 DEF Grid
  <2>2. MarkerCol(board, origin[1], origin[2]) = 0 /\ MarkerRow(board, origin[1], origin[2]) = 0
    BY <1>1 DEF MarkerCol, MarkerRow
  <2> HIDE DEF origin
  <2>3. Id(origin) = board.start_id + (0 + 0 * w)
    BY <2>1, <2>2, IdOfPlace
  <2> HIDE DEF w
  <2> QED
    BY <1>1, <2>3
<1>4. ASSUME NEW at \in Grid(board), NEW other \in Grid(board),
             MarkerRow(board, at[1], at[2]) = MarkerRow(board, other[1], other[2])
      PROVE  Id(at) - Id(other) < w
  <2> DEFINE p == MarkerCol(board, at[1], at[2])
             q == MarkerRow(board, at[1], at[2])
             s == MarkerCol(board, other[1], other[2])
  <2>1. /\ p \in 0 .. w - 1 /\ q \in 0 .. h - 1 /\ s \in 0 .. w - 1
        /\ Id(at) = board.start_id + (p + q * w)
        /\ Id(other) = board.start_id + (s + q * w)
    BY <1>4, IdOfPlace
  <2> HIDE DEF p, q, s, w, h
  <2>2. q * w \in Int
    BY <1>1, <2>1
  <2> QED
    BY <1>1, <2>1, <2>2
<1>5. \A at, other \in Grid(board) :
         IF board.grid_direction = "Horizontal"
         THEN at[1] = other[1] => Id(at) - Id(other) < board.columns
         ELSE at[2] = other[2] => Id(at) - Id(other) < board.rows
  <2> SUFFICES ASSUME NEW at \in Grid(board), NEW other \in Grid(board)
               PROVE  IF board.grid_direction = "Horizontal"
                      THEN at[1] = other[1] => Id(at) - Id(other) < board.columns
                      ELSE at[2] = other[2] => Id(at) - Id(other) < board.rows
    OBVIOUS
  <2>1. CASE board.grid_direction = "Horizontal"
    <3>1. at[1] = other[1] => MarkerRow(board, at[1], at[2]) = MarkerRow(board, other[1], other[2])
      BY <2>1 DEF MarkerRow
    <3>2. w = board.columns
      BY <2>1 DEF LineLength
    <3> QED
      BY <2>1, <3>1, <3>2, <1>4
  <2>2. CASE board.grid_direction # "Horizontal"
    <3>1. at[2] = other[2] => MarkerRow(board, at[1], at[2]) = MarkerRow(board, other[1], other[2])
      BY <2>2 DEF MarkerRow
    <3>2. w = board.rows
      BY <2>2 DEF LineLength
    <3> QED
      BY <2>2, <3>1, <3>2, <1>4
  <2> QED
    BY <2>1, <2>2
<1>6. {p.id : p \in Points3D(board)} = 0 .. 4 * board.rows * board.columns - 1
  <2>1. MaxId(board) = h * w + board.start_id - 1 /\ 4 * board.rows * board.columns = 4 * (h * w)
        /\ h * w \in Int
    BY <1>1 DEF MaxId
  <2>2. ASSUME NEW p \in Points3D(board) PROVE p.id \in 0 .. 4 * (h * w) - 1
    <3> DEFINE at == <<p.row, p.col>>
    <3>1. at \in Grid(board) /\ at[1] = p.row /\ at[2] = p.col /\ p.corner \in 0 .. 3
          /\ p.id = (Id(at) - board.start_id) * 4 + p.corner
      BY PointOfMarker
    <3> HIDE DEF at
    <3>2. Id(at) \in board.start_id .. MaxId(board)
      BY <3>1, IdWithin
    <3> HIDE DEF Id, h, w
    <3> QED
      BY <1>1, <2>1, <3>1, <3>2
  <2>3. ASSUME NEW m \in 0 .. 4 * (h * w) - 1 PROVE \E p \in Points3D(board) : p.id = m
    <3> DEFINE id == (m \div 4) + board.start_id
               j == m % 4
    <3>1. j \in 0 .. 3 /\ m \div 4 \in Nat /\ m = (m \div 4) * 4 + j
      <4> HIDE DEF h, w
      <4> QED
        BY <2>1
    <3>2. id \in board.start_id .. MaxId(board)
      <4> HIDE DEF h, w, j
      <4> QED
        BY <1>1, <2>1, <3>1
    <3>3. MapMarkerCornerToPointId(board, id, j) = m
      <4>1. (id - board.start_id) * 4 + j = m
        BY <1>1, <3>1
      <4> QED
        BY <4>1 DEF MapMarkerCornerToPointId
    <3> HIDE DEF id, j
    <3> QED
      BY <3>1, <3>2, <3>3, PointOfMarker
  <2> HIDE DEF h, w
  <2> QED
    BY <2>1, <2>2, <2>3
<1> HIDE DEF w, h
<1> QED
  BY <1>2, <1>3, <1>5, <1>6 DEF NumbersTheBoard


\* As many as are numbered, if each has a number of its own.
LEMMA CountNumbered ==
    ASSUME NEW n \in Nat, NEW T, NEW g \in [0 .. n - 1 -> T],
           \A a, b \in 0 .. n - 1 : g[a] = g[b] => a = b,
           \A x \in T : \E a \in 0 .. n - 1 : g[a] = x
    PROVE  Cardinality(T) = n
<1>1. IsFiniteSet(0 .. n - 1) /\ Cardinality(0 .. n - 1) = n
  <2>1. 0 \in Int /\ n - 1 \in Int
    OBVIOUS
  <2> QED
    BY <2>1, FS_Interval
<1>2. g \in Bijection(0 .. n - 1, T)
  BY DEF Bijection, Injection, Surjection, IsInjective
<1>3. ExistsBijection(0 .. n - 1, T)
  BY <1>2 DEF ExistsBijection
<1> QED
  BY <1>1, <1>3, FS_Bijection

\* Numbers that are different put a finite set in order, one after the other.
LEMMA OrderIsComplete ==
    ASSUME NEW kept, IsFiniteSet(kept), NEW detected,
           \A i \in kept : detected[i].id \in Int,
           \A i, k \in kept : detected[i].id = detected[k].id => i = k
    PROVE  LET markers == InOrder(kept, detected)
           IN /\ Cardinality(kept) \in Nat
              /\ markers \in [1 .. Cardinality(kept) -> kept]
              /\ \A a, b \in 1 .. Cardinality(kept) : markers[a] = markers[b] => a = b
<1> DEFINE n == Cardinality(kept)
           Lower(i) == {k \in kept : detected[k].id < detected[i].id}
           rank == [i \in kept |-> Cardinality(Lower(i))]
           markers == InOrder(kept, detected)
<1>1. n \in Nat
  BY FS_CardinalityType
<1>2. ASSUME NEW i \in kept
      PROVE  IsFiniteSet(Lower(i)) /\ rank[i] \in 0 .. n - 1 /\ rank[i] = Cardinality(Lower(i))
  <2>1. Lower(i) \in SUBSET kept /\ i \notin Lower(i)
    OBVIOUS
  <2>2. rank[i] = Cardinality(Lower(i))
    OBVIOUS
  <2> HIDE DEF Lower, rank
  <2>3. IsFiniteSet(Lower(i)) /\ Cardinality(Lower(i)) =< n /\ (n = Cardinality(Lower(i)) => kept = Lower(i))
    BY <2>1, FS_Subset
  <2>4. Cardinality(Lower(i)) \in Nat /\ Cardinality(Lower(i)) # n
    BY <2>1, <2>3, FS_CardinalityType
  <2> QED
    BY <1>1, <2>2, <2>3, <2>4
<1>3. ASSUME NEW i \in kept, NEW k \in kept, detected[i].id < detected[k].id
      PROVE  rank[i] < rank[k]
  <2>1. Lower(i) \in SUBSET Lower(k) /\ i \in Lower(k) /\ i \notin Lower(i)
    BY <1>3
  <2>2. /\ IsFiniteSet(Lower(k)) /\ IsFiniteSet(Lower(i))
        /\ rank[i] = Cardinality(Lower(i)) /\ rank[k] = Cardinality(Lower(k))
        /\ rank[i] \in Int /\ rank[k] \in Int
    BY <1>2
  <2> HIDE DEF Lower, rank
  <2>3. Cardinality(Lower(i)) =< Cardinality(Lower(k)) /\ Cardinality(Lower(i)) # Cardinality(Lower(k))
    BY <2>1, <2>2, FS_Subset
  <2> QED
    BY <2>2, <2>3
<1>4. \A i, k \in kept : rank[i] = rank[k] => i = k
  <2> SUFFICES ASSUME NEW i \in kept, NEW k \in kept, rank[i] = rank[k] PROVE i = k
    OBVIOUS
  <2>1. ~(detected[i].id < detected[k].id) /\ ~(detected[k].id < detected[i].id)
    <3>1. rank[i] \in 0 .. n - 1 /\ rank[k] \in 0 .. n - 1
      BY <1>2
    <3> HIDE DEF rank, n
    <3> QED
      BY <1>1, <1>3, <3>1
  <2>2. detected[i].id \in Int /\ detected[k].id \in Int
    OBVIOUS
  <2>3. detected[i].id = detected[k].id
    BY <2>1, <2>2
  <2> QED
    BY <2>3
<1>5. rank \in Injection(kept, 0 .. n - 1)
  <2>1. rank \in [kept -> 0 .. n - 1]
    BY <1>2
  <2> HIDE DEF rank, n
  <2> QED
    BY <1>4, <2>1 DEF Injection, IsInjective
<1>6. rank \in Surjection(kept, 0 .. n - 1)
  <2>1. IsFiniteSet(0 .. n - 1) /\ Cardinality(0 .. n - 1) = n
    <3>1. 0 \in Int /\ n - 1 \in Int
      BY <1>1
    <3> HIDE DEF n
    <3> QED
      BY <1>1, <3>1, FS_Interval
  <2> HIDE DEF rank
  <2> QED
    BY <1>5, <2>1, FS_Injection
<1>7. ASSUME NEW a \in 1 .. n
      PROVE  markers[a] \in kept /\ rank[markers[a]] = a - 1
  <2>1. a - 1 \in 0 .. n - 1
    BY <1>1
  <2>2. PICK i \in kept : rank[i] = a - 1
    <3> HIDE DEF rank
    <3> QED
      BY <1>6, <2>1 DEF Surjection
  <2>3. \A k \in kept : rank[k] = Cardinality(Lower(k))
    OBVIOUS
  <2>4. markers[a] = CHOOSE k \in kept : Cardinality(Lower(k)) = a - 1
    BY DEF InOrder
  <2> HIDE DEF rank, Lower, markers
  <2>5. markers[a] \in kept /\ Cardinality(Lower(markers[a])) = a - 1
    BY <2>2, <2>3, <2>4
  <2> QED
    BY <2>3, <2>5
<1>8. markers \in [1 .. n -> kept]
  <2> DEFINE Nth(a) == CHOOSE i \in kept :
                            Cardinality({k \in kept : detected[k].id < detected[i].id}) = a - 1
  <2>1. markers = [a \in 1 .. n |-> Nth(a)]
    BY DEF InOrder
  <2> HIDE DEF markers, n, Nth
  <2> QED
    BY <1>7, <2>1
<1>9. ASSUME NEW a \in 1 .. n, NEW b \in 1 .. n, markers[a] = markers[b] PROVE a = b
  <2>1. a - 1 = b - 1
    <3> HIDE DEF markers, rank
    <3> QED
      BY <1>7, <1>9
  <2> QED
    BY <1>1, <2>1
<1> QED
  BY <1>1, <1>8, <1>9

\* The markers kept are found markers, with ids of the board that are different.
LEMMA KeptOnce ==
    ASSUME NEW board \in AnyBoards, NEW detected \in Detections
    PROVE  LET kept == Kept(board, detected)
           IN /\ IsFiniteSet(kept)
              /\ \A i \in kept : /\ i \in DOMAIN detected
                                 /\ detected[i].id \in board.start_id .. MaxId(board)
                                 /\ detected[i].id \in Int
              /\ \A i, k \in kept : detected[i].id = detected[k].id => i = k
<1> DEFINE kept == Kept(board, detected)
           found == {detected[i].id : i \in DOMAIN detected}
           n == Len(detected)
<1>1. n \in Nat /\ DOMAIN detected = 1 .. n /\ \A i \in 1 .. n : detected[i].id \in Int
  <2>1. n \in Nat /\ DOMAIN detected = 1 .. n
    BY DEF Detections
  <2> DEFINE Detection == [id : Int, close_to_border : BOOLEAN]
  <2>2. \A i \in 1 .. n : detected[i] \in Detection
    <3>1. detected \in Seq(Detection)
      BY DEF Detections
    <3> HIDE DEF Detection
    <3> QED
      BY <3>1
  <2> QED
    BY <2>1, <2>2
<1>2. ASSUME NEW id \in found
      PROVE  IdToIdx(detected)[id] \in DOMAIN detected /\ detected[IdToIdx(detected)[id]].id = id
  <2> DEFINE S == {i \in 1 .. n : detected[i].id = id}
             Final(i) == detected[i].id = id /\ \A k \in DOMAIN detected : detected[k].id = id => k =< i
  <2>1. S \in SUBSET Nat /\ S # {} /\ \A k \in S : k =< n
    BY <1>1
  <2>2. PICK i \in S : \A k \in S : k =< i
    <3> HIDE DEF S, n
    <3> QED
      BY <1>1, <2>1, Greatest
  <2>3. i \in DOMAIN detected /\ Final(i)
    BY <1>1, <2>2
  <2>4. IdToIdx(detected)[id] = CHOOSE k \in DOMAIN detected : Final(k)
    BY DEF IdToIdx
  <2>5. IdToIdx(detected)[id] \in DOMAIN detected /\ Final(IdToIdx(detected)[id])
    <3> HIDE DEF Final
    <3> QED
      BY <2>3, <2>4
  <2> QED
    BY <2>5
<1>3. DOMAIN IdToIdx(detected) = found
  BY DEF IdToIdx
<1>4. ASSUME NEW i \in kept
      PROVE  /\ i \in DOMAIN detected /\ i = IdToIdx(detected)[detected[i].id]
             /\ detected[i].id \in board.start_id .. MaxId(board)
  <2>1. PICK id \in found : i = IdToIdx(detected)[id]
    BY <1>3 DEF Kept
  <2>2. detected[i].id \in board.start_id .. MaxId(board)
    BY DEF Kept
  <2> HIDE DEF found, kept
  <2> QED
    BY <1>2, <2>1, <2>2
<1>5. IsFiniteSet(kept)
  <2>1. kept \in SUBSET (1 .. n)
    <3> HIDE DEF kept, n
    <3> QED
      BY <1>1, <1>4
  <2>2. IsFiniteSet(1 .. n)
    BY <1>1, FS_Interval
  <2> HIDE DEF kept, n
  <2> QED
    BY <2>1, <2>2, FS_Subset
<1> HIDE DEF kept, n
<1>6. \A i, k \in kept : detected[i].id = detected[k].id => i = k
  BY <1>4
<1>7. \A i \in kept : detected[i].id \in Int
  BY <1>1, <1>4
<1> QED
  BY <1>4, <1>5, <1>6, <1>7 DEF kept

\* Each of the n points of an image shows one 3D point, and no two the same.
ShowsOnce(image, points3D, n, shown) ==
    /\ n \in Nat /\ shown \in [0 .. n - 1 -> points3D]
    /\ DOMAIN image.correspondences = 0 .. n - 1
    /\ \A idx \in 0 .. n - 1 : \A p \in points3D :
          p.id = image.correspondences[idx] <=> p = shown[idx]
    /\ \A a, b \in 0 .. n - 1 : shown[a] = shown[b] => a = b

\* Then each is paired with what it shows, once.
LEMMA PairedOnce ==
    ASSUME NEW image, NEW points3D, NEW n, NEW shown, ShowsOnce(image, points3D, n, shown)
    PROVE  LET pairs == GetCorrespondences(<<image>>, points3D)[1]
           IN /\ pairs = {<<Point2D(image, idx), shown[idx]>> : idx \in 0 .. n - 1}
              /\ Cardinality(pairs) = n
              /\ Cardinality({pair[2] : pair \in pairs}) = n
<1> DEFINE pairs == GetCorrespondences(<<image>>, points3D)[1]
           Pair(idx, p) == <<Point2D(image, idx), p>>
           chosen == {c \in (0 .. n - 1) \X points3D : c[2].id = image.correspondences[c[1]]}
           paired == [idx \in 0 .. n - 1 |-> Pair(idx, shown[idx])]
<1>0. /\ n \in Nat /\ shown \in [0 .. n - 1 -> points3D]
      /\ DOMAIN image.correspondences = 0 .. n - 1
      /\ \A idx \in 0 .. n - 1 : \A p \in points3D :
            p.id = image.correspondences[idx] <=> p = shown[idx]
      /\ \A a, b \in 0 .. n - 1 : shown[a] = shown[b] => a = b
  BY DEF ShowsOnce
<1>1. pairs = {Pair(c[1], c[2]) : c \in chosen}
  BY <1>0 DEF GetCorrespondences
<1>2. \A c \in chosen : c[1] \in 0 .. n - 1 /\ c[2] = shown[c[1]]
  BY <1>0
<1>3. pairs = {Pair(idx, shown[idx]) : idx \in 0 .. n - 1}
  <2> DEFINE choice(idx) == <<idx, shown[idx]>>
  <2>1. ASSUME NEW idx \in 0 .. n - 1
        PROVE  /\ choice(idx) \in chosen
               /\ choice(idx)[1] = idx /\ choice(idx)[2] = shown[idx]
    BY <1>0
  <2> HIDE DEF pairs, Pair, chosen, choice
  <2> QED
    BY <1>1, <1>2, <2>1
<1>4. \A idx \in 0 .. n - 1 : Pair(idx, shown[idx])[2] = shown[idx]
  OBVIOUS
<1>5. Cardinality(pairs) = n
  <2>1. /\ paired \in [0 .. n - 1 -> pairs]
        /\ \A idx \in 0 .. n - 1 : paired[idx] = Pair(idx, shown[idx])
    <3> HIDE DEF pairs, Pair
    <3> QED
      BY <1>3
  <2>2. \A a, b \in 0 .. n - 1 : paired[a] = paired[b] => a = b
    <3> HIDE DEF pairs, Pair, paired
    <3> QED
      BY <1>0, <1>4, <2>1
  <2>3. \A x \in pairs : \E a \in 0 .. n - 1 : paired[a] = x
    <3> HIDE DEF pairs, Pair, paired
    <3> QED
      BY <1>3, <2>1
  <2> HIDE DEF pairs, paired
  <2> QED
    BY <1>0, <2>1, <2>2, <2>3, CountNumbered
<1>6. Cardinality({pair[2] : pair \in pairs}) = n
  <2> DEFINE seen == {pair[2] : pair \in pairs}
  <2>1. seen = {shown[idx] : idx \in 0 .. n - 1}
    <3>1. \A idx \in 0 .. n - 1 : Pair(idx, shown[idx]) \in pairs
      <4> HIDE DEF pairs, Pair
      <4> QED
        BY <1>3
    <3>2. \A pair \in pairs : \E idx \in 0 .. n - 1 : pair = Pair(idx, shown[idx])
      <4> HIDE DEF pairs, Pair
      <4> QED
        BY <1>3
    <3> HIDE DEF pairs, Pair
    <3> QED
      BY <3>1, <3>2, <1>4
  <2>2. shown \in [0 .. n - 1 -> seen] /\ \A x \in seen : \E a \in 0 .. n - 1 : shown[a] = x
    <3> HIDE DEF seen, pairs
    <3>1. \A idx \in 0 .. n - 1 : shown[idx] \in seen
      BY <2>1
    <3>2. shown = [idx \in 0 .. n - 1 |-> shown[idx]]
      BY <1>0
    <3>3. shown \in [0 .. n - 1 -> seen]
      BY <3>1, <3>2
    <3>4. \A x \in seen : \E a \in 0 .. n - 1 : shown[a] = x
      BY <2>1, Zenon
    <3> QED
      BY <3>3, <3>4
  <2>3. Cardinality(seen) = n
    <3> HIDE DEF seen
    <3> QED
      BY <1>0, <2>2, CountNumbered
  <2> QED
    BY <2>3
<1> HIDE DEF pairs
<1>7. pairs = {<<Point2D(image, idx), shown[idx]>> : idx \in 0 .. n - 1}
  BY <1>3
<1> QED
  BY <1>5, <1>6, <1>7 DEF pairs

\* The image of the markers kept, in one index instead of two.
LEMMA ImageExtracted ==
    ASSUME NEW board \in AnyBoards, NEW is_apriltag \in BOOLEAN, NEW detected \in Detections,
           NEW n, n = Cardinality(Kept(board, detected)),
           NEW markers, markers = InOrder(Kept(board, detected), detected)
    PROVE  LET image == Extract(board, is_apriltag, detected)
           IN /\ DOMAIN image.correspondences = 0 .. 4 * n - 1
              /\ \A idx \in 0 .. 4 * n - 1 :
                    LET i == markers[idx \div 4 + 1] IN
                    /\ image.correspondences[idx]
                          = MapMarkerCornerToPointId(board, detected[i].id, idx % 4)
                    /\ Point2D(image, idx) = [marker |-> i,
                                              corner |-> CornerInDetection(is_apriltag, idx % 4)]
<1> DEFINE kept == Kept(board, detected)
           corners == [m \in 1 .. 4 * Len(markers) |-> <<markers[(m - 1) \div 4 + 1], (m - 1) % 4>>]
           Found(c) == [marker |-> c[1], corner |-> CornerInDetection(is_apriltag, c[2])]
           Shown(c) == MapMarkerCornerToPointId(board, detected[c[1]].id, c[2])
           points == [m \in DOMAIN corners |-> Found(corners[m])]
           ids == [m \in DOMAIN corners |-> Shown(corners[m])]
           image == Extract(board, is_apriltag, detected)
<1>1. n \in Nat /\ markers \in [1 .. n -> kept]
  <2>1. /\ IsFiniteSet(kept)
        /\ \A i \in kept : detected[i].id \in Int
        /\ \A i, k \in kept : detected[i].id = detected[k].id => i = k
    BY KeptOnce
  <2>2. n = Cardinality(kept) /\ markers = InOrder(kept, detected)
    OBVIOUS
  <2> HIDE DEF kept
  <2> QED
    BY <2>1, <2>2, OrderIsComplete
<1>2. Len(markers) = n
  <2> HIDE DEF kept
  <2> QED
    BY <1>1, LenProperties
<1>3. DOMAIN corners = 1 .. 4 * n
  BY <1>2
<1>4. ASSUME NEW idx \in 0 .. 4 * n - 1
      PROVE  /\ idx + 1 \in 1 .. 4 * n
             /\ corners[idx + 1] = <<markers[idx \div 4 + 1], idx % 4>>
  <2>1. idx + 1 \in 1 .. 4 * n /\ (idx + 1) - 1 = idx
    BY <1>1
  <2> QED
    BY <1>2, <2>1
<1>5. image = [points2D |-> points, correspondences |-> [idx \in 0 .. Len(ids) - 1 |-> ids[idx + 1]]]
  BY DEF Extract, ImageOf
<1> HIDE DEF corners, Found, Shown, image
<1>6. Len(ids) = 4 * n
  BY <1>1, <1>3
<1>7. ASSUME NEW idx \in 0 .. 4 * n - 1
      PROVE  /\ image.correspondences[idx] = Shown(corners[idx + 1])
             /\ Point2D(image, idx) = Found(corners[idx + 1])
  <2>1. idx + 1 \in DOMAIN corners /\ idx \in 0 .. Len(ids) - 1
    BY <1>3, <1>4, <1>6
  <2>2. image.points2D[idx + 1] = points[idx + 1] /\ image.correspondences[idx] = ids[idx + 1]
    <3> HIDE DEF points, ids
    <3> QED
      BY <1>5, <2>1
  <2> QED
    BY <2>1, <2>2 DEF Point2D
<1>8. DOMAIN image.correspondences = 0 .. 4 * n - 1
  <2> HIDE DEF points, ids
  <2> QED
    BY <1>5, <1>6
<1>9. ASSUME NEW idx \in 0 .. 4 * n - 1
      PROVE  LET i == markers[idx \div 4 + 1] IN
             /\ image.correspondences[idx]
                   = MapMarkerCornerToPointId(board, detected[i].id, idx % 4)
             /\ Point2D(image, idx) = [marker |-> i,
                                       corner |-> CornerInDetection(is_apriltag, idx % 4)]
  BY <1>4, <1>7 DEF Found, Shown
<1> QED
  BY <1>8, <1>9 DEF image

\* Whatever is detected of a board, each corner kept is paired with the point it
\* shows, once.
LEMMA PairsTheBoard ==
    ASSUME NEW board \in AnyBoards, NEW is_apriltag \in BOOLEAN, NEW detected \in Detections
    PROVE  LET pairs == GetCorrespondences(<<Extract(board, is_apriltag, detected)>>,
                                           Points3D(board))[1]
           IN /\ \A pair \in pairs :
                    LET seen == pair[1] IN
                    /\ detected[seen.marker].id = MarkerId(board, pair[2].row, pair[2].col)
                    /\ pair[2].corner = CornerSeen(is_apriltag, seen.corner)
              /\ Cardinality(pairs) = 4 * Cardinality(Kept(board, detected))
              /\ Cardinality({pair[2] : pair \in pairs}) = Cardinality(pairs)
<1> DEFINE kept == Kept(board, detected)
           n == Cardinality(kept)
           markers == InOrder(kept, detected)
           image == Extract(board, is_apriltag, detected)
           points3D == Points3D(board)
           pairs == GetCorrespondences(<<image>>, points3D)[1]
           i(idx) == markers[idx \div 4 + 1]
           id(idx) == detected[i(idx)].id
           shown == [idx \in 0 .. 4 * n - 1 |->
                        CHOOSE p \in points3D : p.id = image.correspondences[idx]]
<1>1. /\ n \in Nat /\ markers \in [1 .. n -> kept]
      /\ \A a, b \in 1 .. n : markers[a] = markers[b] => a = b
      /\ \A a, b \in kept : detected[a].id = detected[b].id => a = b
      /\ \A a \in kept : detected[a].id \in board.start_id .. MaxId(board) /\ detected[a].id \in Int
  <2>1. /\ IsFiniteSet(kept)
        /\ \A a \in kept : detected[a].id \in board.start_id .. MaxId(board) /\ detected[a].id \in Int
        /\ \A a, b \in kept : detected[a].id = detected[b].id => a = b
    BY KeptOnce
  <2> HIDE DEF kept
  <2> QED
    BY <2>1, OrderIsComplete
<1>2. /\ DOMAIN image.correspondences = 0 .. 4 * n - 1
      /\ \A idx \in 0 .. 4 * n - 1 :
            /\ image.correspondences[idx] = MapMarkerCornerToPointId(board, id(idx), idx % 4)
            /\ Point2D(image, idx) = [marker |-> i(idx),
                                      corner |-> CornerInDetection(is_apriltag, idx % 4)]
  BY ImageExtracted
<1>3. ASSUME NEW idx \in 0 .. 4 * n - 1
      PROVE  /\ idx \div 4 + 1 \in 1 .. n /\ idx % 4 \in 0 .. 3
             /\ idx = (idx \div 4) * 4 + (idx % 4)
  <2> HIDE DEF n
  <2> QED
    BY <1>1
<1>4. ASSUME NEW idx \in 0 .. 4 * n - 1
      PROVE  i(idx) \in kept /\ id(idx) \in board.start_id .. MaxId(board) /\ id(idx) \in Int
  <2> HIDE DEF n, kept, markers
  <2> QED
    BY <1>1, <1>3
<1> HIDE DEF kept, n, markers, image, i, id
<1>5. ASSUME NEW idx \in 0 .. 4 * n - 1
      PROVE  /\ shown[idx] \in points3D
             /\ shown[idx].id = MapMarkerCornerToPointId(board, id(idx), idx % 4)
             /\ MarkerId(board, shown[idx].row, shown[idx].col) = id(idx)
             /\ shown[idx].corner = idx % 4
  <2>0. idx % 4 \in 0 .. 3
    BY <1>3
  <2>1. \E p \in points3D : p.id = image.correspondences[idx]
    <3>1. \E p \in Points3D(board) : p.id = MapMarkerCornerToPointId(board, id(idx), idx % 4)
      BY <1>4, <2>0, PointOfMarker
    <3> QED
      BY <1>2, <3>1 DEF points3D
  <2>2. shown[idx] = CHOOSE p \in points3D : p.id = image.correspondences[idx]
    OBVIOUS
  <2> HIDE DEF points3D, shown
  <2>3. shown[idx] \in points3D /\ shown[idx].id = MapMarkerCornerToPointId(board, id(idx), idx % 4)
    BY <1>2, <2>1, <2>2
  <2> QED
    BY <1>3, <1>4, <2>3, PointIsMarkers DEF points3D
<1>6. shown \in [0 .. 4 * n - 1 -> points3D]
  <2>1. shown = [idx \in 0 .. 4 * n - 1 |-> shown[idx]]
    OBVIOUS
  <2> HIDE DEF shown, points3D
  <2> QED
    BY <1>5, <2>1
<1> HIDE DEF shown
<1>7. \A a, b \in 0 .. 4 * n - 1 : shown[a] = shown[b] => a = b
  <2> SUFFICES ASSUME NEW a \in 0 .. 4 * n - 1, NEW b \in 0 .. 4 * n - 1, shown[a] = shown[b]
               PROVE  a = b
    OBVIOUS
  <2>1. id(a) = id(b) /\ a % 4 = b % 4
    BY <1>5
  <2>2. i(a) = i(b)
    BY <1>1, <1>4, <2>1 DEF id
  <2>3. a \div 4 + 1 = b \div 4 + 1
    BY <1>1, <1>3, <2>2 DEF i
  <2> QED
    BY <1>1, <1>3, <2>1, <2>3
<1>8. \A idx \in 0 .. 4 * n - 1 : \A p \in points3D :
         p.id = image.correspondences[idx] <=> p = shown[idx]
  <2> SUFFICES ASSUME NEW idx \in 0 .. 4 * n - 1, NEW p \in points3D
               PROVE  p.id = image.correspondences[idx] <=> p = shown[idx]
    OBVIOUS
  <2>1. shown[idx] \in points3D /\ shown[idx].id = image.correspondences[idx]
    BY <1>2, <1>5
  <2> QED
    BY <2>1, OnePointPerId
<1>9. /\ pairs = {<<Point2D(image, idx), shown[idx]>> : idx \in 0 .. 4 * n - 1}
      /\ Cardinality(pairs) = 4 * n /\ Cardinality({pair[2] : pair \in pairs}) = 4 * n
  <2> DEFINE m == 4 * n
  <2>1. /\ m \in Nat /\ shown \in [0 .. m - 1 -> points3D]
        /\ DOMAIN image.correspondences = 0 .. m - 1
        /\ \A a, b \in 0 .. m - 1 : shown[a] = shown[b] => a = b
        /\ \A idx \in 0 .. m - 1 : \A p \in points3D :
              p.id = image.correspondences[idx] <=> p = shown[idx]
    BY <1>1, <1>2, <1>6, <1>7, <1>8
  <2>2. /\ pairs = {<<Point2D(image, idx), shown[idx]>> : idx \in 0 .. m - 1}
        /\ Cardinality(pairs) = m
        /\ Cardinality({pair[2] : pair \in pairs}) = m
    <3> HIDE DEF m, points3D
    <3>1. ShowsOnce(image, points3D, m, shown)
      BY <2>1 DEF ShowsOnce
    <3> QED
      BY <3>1, PairedOnce
  <2> HIDE DEF pairs
  <2> QED
    BY <2>2
<1>10. ASSUME NEW pair \in pairs
       PROVE  /\ detected[pair[1].marker].id = MarkerId(board, pair[2].row, pair[2].col)
              /\ pair[2].corner = CornerSeen(is_apriltag, pair[1].corner)
  <2>1. PICK idx \in 0 .. 4 * n - 1 : pair = <<Point2D(image, idx), shown[idx]>>
    <3> HIDE DEF pairs
    <3> QED
      BY <1>9
  <2>2. /\ pair[1] = [marker |-> i(idx), corner |-> CornerInDetection(is_apriltag, idx % 4)]
        /\ pair[2] = shown[idx]
    BY <1>2, <2>1
  <2>3. /\ pair[1].marker = i(idx) /\ pair[1].corner = CornerInDetection(is_apriltag, idx % 4)
        /\ MarkerId(board, pair[2].row, pair[2].col) = id(idx) /\ pair[2].corner = idx % 4
    BY <1>5, <2>2
  <2>4. CornerSeen(is_apriltag, CornerInDetection(is_apriltag, idx % 4)) = idx % 4
    <3>1. idx % 4 \in {0, 1, 2, 3}
      BY <1>3
    <3> QED
      BY <3>1 DEF CornerSeen, CornerInDetection
  <2> QED
    BY <2>3, <2>4 DEF id
<1> QED
  BY <1>9, <1>10 DEF n, kept, image

\* A board, and what was detected of it.
BoardInv(s) ==
    s.of = "board" =>
        \E board \in AnyBoards, is_apriltag \in BOOLEAN, detected \in Detections :
            s = [of |-> "board", board |-> board, is_apriltag |-> is_apriltag,
                 detected |-> detected]

\* What the detector is said to find is a board's and a sequence of markers.
LEMMA DetectsMarkers == Detect => BoardInv(subject')
<1> SUFFICES ASSUME Detect PROVE BoardInv(subject')
  OBVIOUS
<1>1. PICK board \in Boards, is_apriltag \in BOOLEAN, close_to_border \in BOOLEAN :
         \E at \in Grid(board), id \in {0, board.start_id, MaxId(board), MaxId(board) + 1} :
            subject' = [of |-> "board", board |-> board, is_apriltag |-> is_apriltag,
                        detected |-> <<[id |-> id, close_to_border |-> FALSE],
                                       [id |-> MarkerId(board, at[1], at[2]),
                                        close_to_border |-> FALSE],
                                       [id |-> id, close_to_border |-> close_to_border]>>]
  BY DEF Detect, Compute
<1>2. PICK at \in Grid(board), id \in {0, board.start_id, MaxId(board), MaxId(board) + 1} :
         subject' = [of |-> "board", board |-> board, is_apriltag |-> is_apriltag,
                     detected |-> <<[id |-> id, close_to_border |-> FALSE],
                                    [id |-> MarkerId(board, at[1], at[2]),
                                     close_to_border |-> FALSE],
                                    [id |-> id, close_to_border |-> close_to_border]>>]
  BY <1>1
<1> DEFINE detected == <<[id |-> id, close_to_border |-> FALSE],
                         [id |-> MarkerId(board, at[1], at[2]), close_to_border |-> FALSE],
                         [id |-> id, close_to_border |-> close_to_border]>>
<1>3. board \in AnyBoards
  BY NumbersAssumption DEF Boards, AnyBoards
<1>4. id \in Int /\ MarkerId(board, at[1], at[2]) \in Int
  <2>1. MarkerId(board, at[1], at[2]) \in Int
    BY <1>3, IdOfPlace
  <2>2. MaxId(board) \in Int /\ board.start_id \in Int
    <3>1. board.columns \in Int /\ board.rows \in Int /\ board.start_id \in Int
      BY <1>3 DEF AnyBoards
    <3> QED
      BY <3>1 DEF MaxId
  <2> QED
    BY <2>1, <2>2
<1>5. detected \in Detections
  BY <1>4 DEF Detections
<1>6. subject' = [of |-> "board", board |-> board, is_apriltag |-> is_apriltag,
                  detected |-> detected]
  BY <1>2
<1> HIDE DEF detected
<1> QED
  BY <1>3, <1>5, <1>6 DEF BoardInv

\* Boards come from Detect only.
LEMMA BoardInvariant == Spec => []BoardInv(subject)
<1>1. Init => BoardInv(subject)
  BY DEF Init, Idle, BoardInv
<1>2. SubjectInv /\ BoardInv(subject) /\ [Next]_subject => BoardInv(subject)'
  <2> SUFFICES ASSUME SubjectInv, BoardInv(subject), [Next]_subject PROVE BoardInv(subject')
    OBVIOUS
  <2>1. CASE Detect
    BY <2>1, DetectsMarkers
  <2>2. CASE CalibrateAndImport
    BY <2>2 DEF CalibrateAndImport, Compute, BoardInv
  <2>3. CASE ~CalibrateAndImport /\ ~Detect
    BY <2>3, InputsStay DEF BoardInv
  <2> QED
    BY <2>1, <2>2, <2>3
<1> QED
  BY <1>1, <1>2, SubjectInvariant, PTL DEF Spec

\* A board of any size, with ids from anywhere in any direction, numbers its
\* markers without a gap, and whatever is detected of it, each corner kept is
\* paired with the point of the board it shows, once.
THEOREM BoardPaired == Spec => []BoardIds
<1>1. BoardInv(subject) => BoardIds
  <2> SUFFICES ASSUME BoardInv(subject), subject.of = "board" PROVE BoardIds
    BY DEF BoardIds
  <2>1. PICK board \in AnyBoards, is_apriltag \in BOOLEAN, detected \in Detections :
           subject = [of |-> "board", board |-> board, is_apriltag |-> is_apriltag,
                      detected |-> detected]
    BY DEF BoardInv
  <2>2. /\ subject.board = board /\ subject.is_apriltag = is_apriltag
        /\ subject.detected = detected
    BY <2>1
  <2> QED
    BY <2>2, NumbersAnyBoard, PairsTheBoard DEF BoardIds
<1> QED
  BY <1>1, BoardInvariant, PTL
=============================================================================
