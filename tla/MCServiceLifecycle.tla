------------------------- MODULE MCServiceLifecycle -------------------------
(* Instances of ServiceLifecycle for TLC. *)
EXTENDS ServiceLifecycle

CONSTANTS s1, s2, c1, c2, p1, p2

\* The process p1 has a server and a client, p2 the others.
TwoProcesses == [o \in Objects |-> IF o \in {s1, c1} THEN p1 ELSE p2]
=============================================================================
