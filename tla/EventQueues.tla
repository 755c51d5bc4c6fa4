----------------------------- MODULE EventQueues -----------------------------
(***************************************************************************)
(* What the event space promises: a first-in first-out queue of bounded    *)
(* capacity per registered client.  An event goes to every registered      *)
(* queue with room and is dropped for the others; joining and leaving      *)
(* empty the queue.                                                        *)
(***************************************************************************)
EXTENDS Integers, Sequences

CONSTANTS
    Events,
    Members,      \* those that may register
    Capacity

VARIABLES
    queue,
    registered

queueVars == <<queue, registered>>

Init ==
    /\ queue = [b \in Members |-> <<>>]
    /\ registered = {}

Register(b) ==
    /\ b \notin registered
    /\ registered' = registered \cup {b}
    /\ queue' = [queue EXCEPT ![b] = <<>>]

Unregister(b) ==
    /\ registered' = registered \ {b}
    /\ queue' = [queue EXCEPT ![b] = <<>>]

Broadcast(e) ==
    /\ queue' = [b \in Members |-> IF b \in registered /\ Len(queue[b]) < Capacity
                                   THEN Append(queue[b], e)
                                   ELSE queue[b]]
    /\ UNCHANGED registered

Take(b) ==
    /\ b \in registered
    /\ queue[b] # <<>>
    /\ queue' = [queue EXCEPT ![b] = Tail(@)]
    /\ UNCHANGED registered

Next ==
    \/ \E b \in Members : Register(b) \/ Unregister(b) \/ Take(b)
    \/ \E e \in Events : Broadcast(e)

Spec == Init /\ [][Next]_queueVars

=============================================================================
