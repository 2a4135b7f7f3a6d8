--------------------------- MODULE AutoResetSignal ---------------------------
(***************************************************************************)
(* AutoResetSignal: a flag, its mutex and a condition variable.  Any number *)
(* of threads call it.  A thread asleep on the condition variable is woken *)
(* by a notification, spuriously, or, in WaitFor, by the time-out; it must *)
(* get the mutex again before it goes on.                                  *)
(*                                                                         *)
(* LivestreamRunner uses the signal as the atomic object of Signal.        *)
(***************************************************************************)
CONSTANT Threads

VARIABLES
    flag_, call, result,   \* as in Signal
    pc,
    mutex_,                \* is it locked?
    timed_out

vars == <<flag_, call, result, pc, mutex_, timed_out>>

Calls == {"Set", "Reset", "Wait", "WaitFor"}
Waits == {"Wait", "WaitFor"}

SignalInit ==
    /\ flag_ \in BOOLEAN
    /\ call = [t \in Threads |-> "none"] /\ result = [t \in Threads |-> "pending"]
    /\ pc = [t \in Threads |-> "out"]
    /\ mutex_ = FALSE
    /\ timed_out = [t \in Threads |-> FALSE]

GoTo(t, label) == pc' = [pc EXCEPT ![t] = label]
Running(t, calls) == pc[t] = "locked" /\ call[t] \in calls
Finish(t, value) ==
    /\ result' = [result EXCEPT ![t] = value]
    /\ UNCHANGED <<call, mutex_, timed_out>>

Invoke(t) ==
    /\ pc[t] = "out"
    /\ \E c \in Calls : call' = [call EXCEPT ![t] = c]
    /\ result' = [result EXCEPT ![t] = "pending"]
    /\ timed_out' = [timed_out EXCEPT ![t] = FALSE]
    /\ GoTo(t, "lock")
    /\ UNCHANGED <<flag_, mutex_>>

\* The lock's constructor, or the end of the sleep.
Lock(t) ==
    /\ pc[t] = "lock" /\ ~mutex_
    /\ mutex_' = TRUE /\ GoTo(t, "locked")
    /\ UNCHANGED <<flag_, call, result, timed_out>>

\* Mutant: nobody is notified.
SetQuietly(t) ==
    /\ Running(t, {"Set"})
    /\ flag_' = TRUE /\ GoTo(t, "unlock") /\ Finish(t, "done")

\* notify_one wakes one of the sleepers, if there are any; it will need the
\* mutex, which is still held here.
Asleep == {t \in Threads : pc[t] = "asleep"}
Set(t) ==
    /\ Running(t, {"Set"})
    /\ flag_' = TRUE /\ Finish(t, "done")
    /\ \/ Asleep = {} /\ GoTo(t, "unlock")
       \/ \E s \in Asleep : pc' = [pc EXCEPT ![t] = "unlock", ![s] = "lock"]

Reset(t) ==
    /\ Running(t, {"Reset"})
    /\ flag_' = FALSE /\ GoTo(t, "unlock") /\ Finish(t, "done")

\* The predicate holds: auto reset.
Take(t) ==
    /\ Running(t, Waits) /\ flag_
    /\ flag_' = FALSE /\ GoTo(t, "unlock") /\ Finish(t, "true")

\* Mutant: WaitFor returns false without another look at the flag.
GiveUpAnyway(t) ==
    /\ Running(t, {"WaitFor"}) /\ timed_out[t]
    /\ GoTo(t, "unlock") /\ Finish(t, "false") /\ UNCHANGED flag_

\* The predicate does not hold after the time-out.
GiveUp(t) ==
    /\ Running(t, {"WaitFor"}) /\ ~flag_ /\ timed_out[t]
    /\ GoTo(t, "unlock") /\ Finish(t, "false") /\ UNCHANGED flag_

\* The predicate does not hold: the mutex is released and the thread put to
\* sleep in one step.
Sleep(t) ==
    /\ Running(t, Waits) /\ ~flag_ /\ ~timed_out[t]
    /\ mutex_' = FALSE /\ GoTo(t, "asleep")
    /\ UNCHANGED <<flag_, call, result, timed_out>>

WakeSpuriously(t) ==
    /\ pc[t] = "asleep" /\ GoTo(t, "lock")
    /\ UNCHANGED <<flag_, call, result, mutex_, timed_out>>

TimeOut(t) ==
    /\ pc[t] = "asleep" /\ call[t] = "WaitFor"
    /\ timed_out' = [timed_out EXCEPT ![t] = TRUE]
    /\ GoTo(t, "lock")
    /\ UNCHANGED <<flag_, call, result, mutex_>>

Unlock(t) ==
    /\ pc[t] = "unlock"
    /\ mutex_' = FALSE /\ GoTo(t, "out")
    /\ call' = [call EXCEPT ![t] = "none"]
    /\ UNCHANGED <<flag_, result, timed_out>>

Proceed(t) == Set(t) \/ Reset(t) \/ Take(t) \/ GiveUp(t) \/ Sleep(t) \/ Unlock(t)

SignalNext == \E t \in Threads :
    Invoke(t) \/ Lock(t) \/ Proceed(t) \/ WakeSpuriously(t) \/ TimeOut(t)

\* A free mutex goes to some thread that asks for it, whichever; a thread that
\* has it goes on.  Nobody owes a call, a spurious wake-up or a time-out.
SignalSpec ==
    /\ SignalInit /\ [][SignalNext]_vars
    /\ WF_vars(\E t \in Threads : Lock(t))
    /\ \A t \in Threads : WF_vars(Proceed(t))

-----------------------------------------------------------------------------
TypeOK ==
    /\ flag_ \in BOOLEAN /\ mutex_ \in BOOLEAN
    /\ call \in [Threads -> Calls \cup {"none"}]
    /\ result \in [Threads -> {"pending", "done", "true", "false"}]
    /\ pc \in [Threads -> {"out", "lock", "locked", "asleep", "unlock"}]
    /\ timed_out \in [Threads -> BOOLEAN]

\* The flag is only read and written under the mutex.
Holds(t) == pc[t] \in {"locked", "unlock"}
MutualExclusion == \A s, t \in Threads : Holds(s) /\ Holds(t) => s = t

\* No wake-up is lost: while the flag is up and a thread sleeps on it, another
\* one is awake and about to test the flag.
NoLostWakeup ==
    flag_ /\ Asleep # {} =>
        \E t \in Threads : pc[t] \in {"lock", "locked"} /\ call[t] \in Waits

\* Every call takes effect atomically, as Signal says.
Promise == INSTANCE Signal
Linearizable == Promise!Spec

\* A flag that is up comes down if anybody waits for it, unless threads that
\* set or reset it come in between.
Waiting == \E t \in Threads : call[t] \in Waits /\ result[t] = "pending"
Setting == \E t \in Threads : call[t] \in {"Set", "Reset"}
SetIsTaken == flag_ /\ Waiting ~> (~flag_ \/ Setting)
=============================================================================
