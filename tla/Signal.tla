------------------------------- MODULE Signal -------------------------------
(***************************************************************************)
(* What an auto-reset signal promises its callers: every call takes effect *)
(* at one instant between its invocation and its return.  Set and Reset    *)
(* always return; Wait returns by taking the flag; WaitFor may also give   *)
(* up, but only while the flag is down.                                    *)
(***************************************************************************)
CONSTANT Threads

VARIABLES
    flag_,
    call,     \* the call every thread is in, "none" outside
    result    \* what it will return: "pending" until it has taken effect

signal == <<flag_, call, result>>

Calls == {"Set", "Reset", "Wait", "WaitFor"}
Waits == {"Wait", "WaitFor"}

Init ==
    /\ flag_ \in BOOLEAN
    /\ call = [t \in Threads |-> "none"] /\ result = [t \in Threads |-> "pending"]

Invoke(t) ==
    /\ call[t] = "none"
    /\ \E c \in Calls : call' = [call EXCEPT ![t] = c]
    /\ result' = [result EXCEPT ![t] = "pending"]
    /\ UNCHANGED flag_

Pending(t, c) == call[t] = c /\ result[t] = "pending"
Finish(t, value) == result' = [result EXCEPT ![t] = value] /\ UNCHANGED call

Set(t) == Pending(t, "Set") /\ flag_' = TRUE /\ Finish(t, "done")
Reset(t) == Pending(t, "Reset") /\ flag_' = FALSE /\ Finish(t, "done")
Take(t) ==
    /\ \E c \in Waits : Pending(t, c)
    /\ flag_ /\ flag_' = FALSE
    /\ Finish(t, "true")
GiveUp(t) == Pending(t, "WaitFor") /\ ~flag_ /\ UNCHANGED flag_ /\ Finish(t, "false")

Return(t) ==
    /\ call[t] # "none" /\ result[t] # "pending"
    /\ call' = [call EXCEPT ![t] = "none"]
    /\ UNCHANGED <<flag_, result>>

Next == \E t \in Threads :
    Invoke(t) \/ Set(t) \/ Reset(t) \/ Take(t) \/ GiveUp(t) \/ Return(t)

Spec == Init /\ [][Next]_signal
=============================================================================
