----------------------------- MODULE MCCallFraming -----------------------------
(* Instances of CallFraming for TLC. *)
EXTENDS CallFraming

CONSTANTS none, mixed, full, large, long, unknown, list

\* No arguments; a mixture with an empty string and a vector of strings;
\* arguments that fill a frame to the last byte; too many; a string of more than 65535
\* characters; a method the server does not know; a vector and something behind it.
Args ==
    [c \in Calls |->
        CASE c = none -> <<>>
          [] c = mixed -> <<Pod(4, "x"), Str(0, "none"), Vec(<<Str(3, "abc"), Str(0, "none")>>, 32),
                            Str(7, "seven"), Pod(1, "y")>>
          [] c = full -> <<Pod(8, "u"), Str(480, "page")>>
          [] c = large -> <<Str(491, "book"), Pod(8, "v")>>
          [] c = long -> <<Str(65536 + 5, "novel"), Pod(2, "w")>>
          [] c = unknown -> <<Pod(4, "q")>>
          [] c = list -> <<Vec(<<>>, 4), Str(1, "s")>>]

Replies ==
    [c \in Calls |->
        IF c \in {mixed, full}
        THEN [code |-> 3, message |-> Str(IF c = mixed THEN 0 ELSE 6, "failed"), args |-> <<Pod(4, "x")>>]
        ELSE [code |-> NoError, message |-> Str(0, ""),
              args |-> IF c = none THEN <<>> ELSE <<Vec(<<Pod(4, "p"), Pod(4, "q")>>, 4), Str(2, "ok"), Pod(1, "b")>>]]

KnownCalls == Calls \ {unknown}
=============================================================================
