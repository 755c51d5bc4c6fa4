--------------------------- MODULE MCClientThreads ---------------------------
(* Instances of ClientThreads for TLC. *)
EXTENDS ClientThreads

CONSTANTS a, b, e

Idle == [f \in Functions |-> "nothing"]

\* The callback of a, or the event's function, does something with the client.
Busy ==
    {Idle, [Idle EXCEPT ![a] = "disconnect"], [Idle EXCEPT ![e] = "disconnect"],
     [Idle EXCEPT ![a] = b], [Idle EXCEPT ![e] = b], [Idle EXCEPT ![e] = a]}

OnlyIdle == {Idle}
=============================================================================
