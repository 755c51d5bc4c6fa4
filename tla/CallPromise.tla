----------------------------- MODULE CallPromise -----------------------------
(***************************************************************************)
(* What the library promises to a call that asks for an answer: it is told *)
(* one outcome, and it has one of a fixed number of places from the time   *)
(* it asks until its answer was collected or its caller was told that it   *)
(* failed.  It is told that there is no place only if there is none.  Only *)
(* the end of its client leaves a call without an outcome, and its place   *)
(* is then lost for good.                                                  *)
(***************************************************************************)
EXTENDS Integers

CONSTANTS
    Asking,       \* the calls
    Fitting,      \* those whose arguments fit a frame
    Capacity      \* the number of places

VARIABLES
    fate,         \* how far each call is, in the end its outcome
    free          \* the number of free places

promiseVars == <<fate, free>>

Becomes(c, what) == fate' = [fate EXCEPT ![c] = what]

Init ==
    /\ fate = [c \in Asking |-> "idle"]
    /\ free = Capacity

Refuse(c) ==
    /\ fate[c] = "idle" /\ c \notin Fitting
    /\ Becomes(c, "InvalidPayload")
    /\ UNCHANGED free

TurnAway(c) ==
    /\ fate[c] = "idle" /\ c \in Fitting /\ free = 0
    /\ Becomes(c, "TransportFailure")
    /\ UNCHANGED free

Ask(c) ==
    /\ fate[c] = "idle" /\ c \in Fitting /\ free > 0
    /\ Becomes(c, "waiting")
    /\ free' = free - 1

\* The answer is taken out of its place, and told later.
Collect(c) ==
    /\ fate[c] = "waiting"
    /\ Becomes(c, "collected")
    /\ free' = free + 1

Tell(c) ==
    /\ fate[c] = "collected"
    /\ Becomes(c, "answered")
    /\ UNCHANGED free

GiveUp(c) ==
    /\ fate[c] = "waiting"
    /\ Becomes(c, "Timeout")
    /\ free' = free + 1

\* A client goes with all its calls that wait.
Forget(S) ==
    /\ \A c \in S : fate[c] = "waiting"
    /\ fate' = [c \in Asking |-> IF c \in S THEN "forgotten" ELSE fate[c]]
    /\ UNCHANGED free

Next ==
    \/ \E c \in Asking :
        Refuse(c) \/ TurnAway(c) \/ Ask(c) \/ Collect(c) \/ Tell(c) \/ GiveUp(c)
    \/ \E S \in SUBSET Asking : Forget(S)

Spec == Init /\ [][Next]_promiseVars

=============================================================================
