---------------------------- MODULE FramingProofs ----------------------------
(***************************************************************************)
(* What is read is what was written, for any calls, arguments and answers  *)
(* that fit the buffers they are written in.                               *)
(*                                                                         *)
(* Sums, joins and reads are recursive functions of a length.  A recursion *)
(* has a value because each step has one (RecursionExists); what it is, is *)
(* shown from one length to the next (Induct).                             *)
(***************************************************************************)
EXTENDS CallFraming, FilteringProofs

-----------------------------------------------------------------------------
(* Recursion and induction, from 0 to a length *)

\* What holds at 0, and at each length if at the one before, holds at all of them.
LEMMA Induct ==
    ASSUME NEW m \in Nat, NEW T, 0 \in T, \A n \in 1 .. m : n - 1 \in T => n \in T
    PROVE  \A n \in 0 .. m : n \in T
<1> DEFINE Bad == {n \in 0 .. m : n \notin T}
<1>1. ASSUME Bad # {} PROVE FALSE
  <2>1. PICK n \in Bad : \A o \in Bad : n <= o
    <3>1. Bad \in SUBSET Nat
      OBVIOUS
    <3> HIDE DEF Bad
    <3> QED BY <1>1, <3>1, Least
  <2>2. n \in 0 .. m /\ n \notin T
    OBVIOUS
  <2>3. n \in 1 .. m /\ n - 1 \in 0 .. m /\ ~ (n <= n - 1)
    BY <2>2
  <2>4. n - 1 \in T
    BY <2>1, <2>3
  <2> QED BY <2>2, <2>3, <2>4
<1> QED BY <1>1

\* f[n] is made of n and f[n - 1] by the function F.
Steps(f, v, F, m) == f = [n \in 0 .. m |-> IF n = 0 THEN v ELSE F[<<n, f[n - 1]>>]]

\* A function with such steps exists, as long as F stays in a set.
LEMMA RecursionExists ==
    ASSUME NEW V, NEW v \in V, NEW m \in Nat, NEW F \in [(1 .. m) \X V -> V]
    PROVE  \E f \in [0 .. m -> V] : Steps(f, v, F, m)
<1> DEFINE T == {n \in 0 .. m : \E f \in [0 .. n -> V] : Steps(f, v, F, n)}
<1>1. 0 \in T
  <2> DEFINE f == [n \in 0 .. 0 |-> v]
  <2>1. f \in [0 .. 0 -> V]
    OBVIOUS
  <2>2. f = [n \in 0 .. 0 |-> IF n = 0 THEN v ELSE F[<<n, f[n - 1]>>]]
    OBVIOUS
  <2>3. Steps(f, v, F, 0)
    BY <2>2 DEF Steps
  <2> QED BY <2>1, <2>3
<1>2. ASSUME NEW n \in 1 .. m, n - 1 \in T PROVE n \in T
  <2>1. PICK f \in [0 .. n - 1 -> V] : Steps(f, v, F, n - 1)
    BY <1>2
  <2>2. f[n - 1] \in V /\ <<n, f[n - 1]>> \in (1 .. m) \X V
    BY <2>1
  <2> DEFINE g == [o \in 0 .. n |-> IF o = n THEN F[<<n, f[n - 1]>>] ELSE f[o]]
  <2>3. g \in [0 .. n -> V]
    <3>1. F[<<n, f[n - 1]>>] \in V
      BY <2>2
    <3>2. \A o \in 0 .. n : o # n => o \in 0 .. n - 1
      OBVIOUS
    <3> QED BY <2>1, <3>1, <3>2
  <2>4. g[n] = F[<<n, f[n - 1]>>] /\ \A o \in 0 .. n - 1 : g[o] = f[o]
    OBVIOUS
  <2>5. \A o \in 0 .. n - 1 : f[o] = IF o = 0 THEN v ELSE F[<<o, f[o - 1]>>]
    BY <2>1 DEF Steps
  <2>6. ASSUME NEW o \in 0 .. n PROVE g[o] = IF o = 0 THEN v ELSE F[<<o, g[o - 1]>>]
    <3> HIDE DEF g
    <3>1. CASE o = n
      <4>1. n - 1 \in 0 .. n - 1 /\ o # 0
        BY <3>1
      <4> QED BY <2>4, <3>1, <4>1
    <3>2. CASE o = 0
      <4>1. 0 \in 0 .. n - 1
        OBVIOUS
      <4> QED BY <2>4, <2>5, <3>2, <4>1
    <3>3. CASE o # n /\ o # 0
      <4>1. o \in 0 .. n - 1 /\ o - 1 \in 0 .. n - 1
        BY <3>3
      <4> QED BY <2>4, <2>5, <3>3, <4>1
    <3> QED BY <3>1, <3>2, <3>3
  <2>7. Steps(g, v, F, n)
    <3>1. g = [o \in 0 .. n |-> g[o]]
      OBVIOUS
    <3> HIDE DEF g
    <3> QED BY <2>6, <3>1 DEF Steps
  <2> HIDE DEF g
  <2> QED BY <2>3, <2>7
<1>3. m \in T
  <2> HIDE DEF T
  <2>1. \A n \in 0 .. m : n \in T
    BY <1>1, <1>2, Induct
  <2> QED BY <2>1
<1> QED BY <1>3

-----------------------------------------------------------------------------
(* Sums *)

\* sum[n] is the sum of the first n of s.
Sums(sum, s) == sum[0] = 0 /\ \A n \in 1 .. Len(s) : sum[n] = sum[n - 1] + s[n]

\* Total is the last of the partial sums.
LEMMA TotalSums ==
    ASSUME NEW s \in Seq(Nat)
    PROVE  \E sum \in [0 .. Len(s) -> Nat] : Sums(sum, s) /\ Total(s) = sum[Len(s)]
<1> DEFINE m == Len(s)
           F == [x \in (1 .. m) \X Nat |-> x[2] + s[x[1]]]
           sum == CHOOSE f : f = [n \in 0 .. Len(s) |-> IF n = 0 THEN 0 ELSE f[n - 1] + s[n]]
<1>1. m \in Nat /\ 0 \in 0 .. m
  OBVIOUS
<1>2. F \in [(1 .. m) \X Nat -> Nat]
  OBVIOUS
<1>3. PICK f \in [0 .. m -> Nat] : Steps(f, 0, F, m)
  <2> HIDE DEF F, m
  <2> QED BY <1>1, <1>2, RecursionExists
<1>4. f = [n \in 0 .. Len(s) |-> IF n = 0 THEN 0 ELSE f[n - 1] + s[n]]
  <2>1. ASSUME NEW n \in 0 .. m PROVE f[n] = IF n = 0 THEN 0 ELSE f[n - 1] + s[n]
    <3>1. f[n] = IF n = 0 THEN 0 ELSE F[<<n, f[n - 1]>>]
      BY <1>3 DEF Steps
    <3>2. CASE n # 0
      <4>3. n \in 1 .. m /\ n - 1 \in 0 .. m
        BY <1>1, <3>2
      <4>1. n \in 1 .. m /\ f[n - 1] \in Nat
        BY <4>3
      <4>2. F[<<n, f[n - 1]>>] = f[n - 1] + s[n]
        BY <4>1
      <4> QED BY <3>1, <3>2, <4>2
    <3> QED BY <3>1, <3>2
  <2> QED BY <1>3, <2>1
<1>5. sum = [n \in 0 .. Len(s) |-> IF n = 0 THEN 0 ELSE sum[n - 1] + s[n]]
  BY <1>4
<1> HIDE DEF sum
<1>6. Sums(sum, s)
  <2>1. \A n \in 0 .. Len(s) : sum[n] = IF n = 0 THEN 0 ELSE sum[n - 1] + s[n]
    BY <1>5
  <2> QED BY <2>1 DEF Sums
<1>7. \A n \in 0 .. m : n \in {o \in 0 .. m : sum[o] \in Nat}
  <2> DEFINE T == {o \in 0 .. m : sum[o] \in Nat}
  <2>1. 0 \in T
    BY <1>6 DEF Sums
  <2>2. ASSUME NEW n \in 1 .. m, n - 1 \in T PROVE n \in T
    <3>1. sum[n - 1] \in Nat /\ s[n] \in Nat /\ n \in 0 .. m
      BY <2>2
    <3>2. sum[n] = sum[n - 1] + s[n]
      BY <1>6 DEF Sums
    <3> QED BY <3>1, <3>2
  <2> HIDE DEF T
  <2>3. \A n \in 0 .. m : n \in T
    BY <1>1, <2>1, <2>2, Induct
  <2> QED BY <2>3 DEF T
<1>8. sum \in [0 .. m -> Nat]
  BY <1>5, <1>7
<1>9. Total(s) = sum[Len(s)]
  BY DEF Total, sum
<1> QED BY <1>6, <1>8, <1>9

LEMMA SumsGrow ==
    ASSUME NEW s \in Seq(Nat), NEW sum \in [0 .. Len(s) -> Nat], Sums(sum, s)
    PROVE  \A n \in 1 .. Len(s) : sum[n - 1] + s[n] = sum[n] /\ sum[n] <= sum[Len(s)]
<1> DEFINE T == {n \in 0 .. Len(s) : \A o \in 0 .. n : sum[o] <= sum[n]}
<1>1. 0 \in T
  OBVIOUS
<1>2. ASSUME NEW n \in 1 .. Len(s), n - 1 \in T PROVE n \in T
  <2>1. n - 1 \in 0 .. Len(s) /\ n \in 0 .. Len(s)
    OBVIOUS
  <2>4. sum[n] = sum[n - 1] + s[n] /\ s[n] \in Nat /\ sum[n - 1] \in Nat
    <3>1. sum[n] = sum[n - 1] + s[n]
      BY DEF Sums
    <3>2. s[n] \in Nat /\ sum[n - 1] \in Nat
      BY <2>1
    <3> QED BY <3>1, <3>2
  <2>2. \A o \in 0 .. n : o = n \/ o \in 0 .. n - 1
    OBVIOUS
  <2>3. \A o \in 0 .. n - 1 : sum[o] <= sum[n - 1] /\ sum[o] \in Nat
    <3>1. \A o \in 0 .. n - 1 : o \in 0 .. Len(s)
      BY <2>1
    <3> QED BY <1>2, <3>1
  <2>5. \A o \in 0 .. n : sum[o] <= sum[n]
    BY <2>2, <2>3, <2>4
  <2> QED BY <2>1, <2>5
<1> HIDE DEF T
<1>4. Len(s) \in Nat /\ Len(s) \in 0 .. Len(s)
  OBVIOUS
<1>3. Len(s) \in T
  BY <1>1, <1>2, <1>4, Induct
<1> QED BY <1>3 DEF T, Sums

LEMMA TotalMonotone ==
    ASSUME NEW s \in Seq(Nat), NEW t \in Seq(Nat), Len(s) = Len(t), \A n \in 1 .. Len(s) : s[n] <= t[n]
    PROVE  Total(s) \in Nat /\ Total(t) \in Nat /\ Total(s) <= Total(t)
<1>1. PICK f \in [0 .. Len(s) -> Nat] : Sums(f, s) /\ Total(s) = f[Len(s)]
  BY TotalSums
<1>2. PICK g \in [0 .. Len(t) -> Nat] : Sums(g, t) /\ Total(t) = g[Len(t)]
  BY TotalSums
<1> DEFINE T == {n \in 0 .. Len(s) : f[n] <= g[n]}
<1>3. 0 \in T
  BY <1>1, <1>2 DEF Sums
<1>4. ASSUME NEW n \in 1 .. Len(s), n - 1 \in T PROVE n \in T
  <2>1. f[n] = f[n - 1] + s[n] /\ g[n] = g[n - 1] + t[n] /\ f[n - 1] <= g[n - 1] /\ s[n] <= t[n]
    BY <1>1, <1>2, <1>4 DEF Sums
  <2>2. n - 1 \in 0 .. Len(s) /\ n \in 0 .. Len(s) /\ s[n] \in Nat /\ t[n] \in Nat
    OBVIOUS
  <2>3. f[n - 1] \in Nat /\ g[n - 1] \in Nat
    BY <2>2
  <2> QED BY <2>1, <2>2, <2>3
<1> HIDE DEF T
<1>6. Len(s) \in Nat /\ Len(s) \in 0 .. Len(s)
  OBVIOUS
<1>5. Len(s) \in T
  BY <1>3, <1>4, <1>6, Induct
<1> QED BY <1>1, <1>2, <1>5 DEF T

-----------------------------------------------------------------------------
(* Runs of bytes *)

\* No cell lies beyond the run.
IsRun(b) ==
    /\ b = Bytes(b.cells, b.sz) /\ b.sz \in Nat
    /\ b.cells = [x \in DOMAIN b.cells |-> b.cells[x]] /\ DOMAIN b.cells \subseteq 0 .. b.sz - 1

\* From at on, cells has what f has from 0 on.
Agree(cells, at, f) == \A x \in DOMAIN f : at + x \in DOMAIN cells /\ cells[at + x] = f[x]

\* A run within a run.
LEMMA AgreeWithin ==
    ASSUME NEW cells, NEW at \in Nat, NEW f, NEW o \in Nat, NEW g,
           DOMAIN g \subseteq Nat, Agree(cells, at, f), Agree(f, o, g)
    PROVE  Agree(cells, at + o, g)
<1> SUFFICES ASSUME NEW x \in DOMAIN g PROVE at + o + x \in DOMAIN cells /\ cells[at + o + x] = g[x]
  BY DEF Agree
<1>1. o + x \in DOMAIN f /\ f[o + x] = g[x]
  BY DEF Agree
<1>2. at + (o + x) \in DOMAIN cells /\ cells[at + (o + x)] = f[o + x]
  BY <1>1 DEF Agree
<1>3. at + o + x = at + (o + x)
  OBVIOUS
<1> QED BY <1>1, <1>2, <1>3

LEMMA OneCell ==
    ASSUME NEW v, NEW n \in Nat \ {0}
    PROVE  /\ IsRun(Bytes(Cell(v), n)) /\ Cell(v)[0] = v /\ DOMAIN Cell(v) = {0}
           /\ Bytes(Cell(v), n).cells = Cell(v) /\ Bytes(Cell(v), n).sz = n
<1>2. DOMAIN Cell(v) = {0} /\ Cell(v)[0] = v
  BY DEF Cell
<1>3. Cell(v) = [x \in DOMAIN Cell(v) |-> Cell(v)[x]]
  BY DEF Cell
<1>4. {0} \subseteq 0 .. n - 1
  OBVIOUS
<1> QED BY <1>2, <1>3, <1>4 DEF IsRun, Bytes

\* What is copied behind the first at bytes, if nothing was there.
LEMMA BytesBehindAgree ==
    ASSUME NEW f, NEW at \in Nat, NEW g, NEW n \in Nat,
           DOMAIN f \subseteq 0 .. at - 1, DOMAIN g \subseteq 0 .. n - 1
    PROVE  LET h == BytesBehind(f, at, g)
           IN  /\ h = [o \in DOMAIN h |-> h[o]] /\ DOMAIN h \subseteq 0 .. at + n - 1
               /\ Agree(h, 0, f) /\ Agree(h, at, g)
<1> DEFINE D == {x + at : x \in DOMAIN g}
           h == BytesBehind(f, at, g)
<1>1. h = [o \in DOMAIN f \cup D |-> IF o \in DOMAIN f THEN f[o] ELSE g[o - at]]
  BY DEF BytesBehind
<1>2. ASSUME NEW o \in D PROVE o \in 0 .. at + n - 1
  <2>1. PICK x \in DOMAIN g : o = x + at
    OBVIOUS
  <2> QED BY <2>1
<1>3. \A o \in DOMAIN f : o \in 0 .. at + n - 1
  OBVIOUS
<1> HIDE DEF h
<1>4. DOMAIN h = DOMAIN f \cup D /\ h = [o \in DOMAIN h |-> h[o]]
  BY <1>1
<1>5. Agree(h, 0, f)
  <2>1. \A x \in DOMAIN f : 0 + x = x
    OBVIOUS
  <2> QED BY <1>1, <1>4, <2>1 DEF Agree
<1>6. Agree(h, at, g)
  <2> SUFFICES ASSUME NEW x \in DOMAIN g PROVE at + x \in DOMAIN h /\ h[at + x] = g[x]
    BY DEF Agree
  <2>1. x \in Nat /\ at + x = x + at /\ (at + x) - at = x /\ at + x \notin DOMAIN f
    OBVIOUS
  <2>2. at + x \in D
    BY <2>1
  <2> QED BY <1>1, <1>4, <2>1, <2>2
<1> QED BY <1>2, <1>3, <1>4, <1>5, <1>6 DEF h

\* Behind, as long as 16 bits hold the sum.
LEMMA BehindRun ==
    ASSUME NEW a, NEW b, IsRun(a), IsRun(b), a.sz + b.sz <= MAX_SIZE
    PROVE  /\ IsRun(Behind(a, b)) /\ Behind(a, b).sz = a.sz + b.sz
           /\ Agree(Behind(a, b).cells, 0, a.cells) /\ Agree(Behind(a, b).cells, a.sz, b.cells)
<1> DEFINE f == BytesBehind(a.cells, a.sz, b.cells)
<1>1. a.sz \in Nat /\ b.sz \in Nat /\ DOMAIN a.cells \subseteq 0 .. a.sz - 1
      /\ DOMAIN b.cells \subseteq 0 .. b.sz - 1
  BY DEF IsRun
<1>2. U16(a.sz + b.sz) = a.sz + b.sz
  BY <1>1 DEF U16, MAX_SIZE
<1>3. /\ f = [o \in DOMAIN f |-> f[o]] /\ DOMAIN f \subseteq 0 .. a.sz + b.sz - 1
      /\ Agree(f, 0, a.cells) /\ Agree(f, a.sz, b.cells)
  BY <1>1, BytesBehindAgree
<1>4. Behind(a, b) = Bytes(f, a.sz + b.sz)
  BY <1>2 DEF Behind
<1> HIDE DEF f
<1>5. Behind(a, b).cells = f /\ Behind(a, b).sz = a.sz + b.sz
  BY <1>4 DEF Bytes
<1> QED BY <1>1, <1>3, <1>4, <1>5 DEF IsRun

\* The runs of bytes with cells in X.
Runs(X) == [cells : UNION {[D -> X] : D \in SUBSET Nat}, sz : Nat]

LEMMA RunType ==
    ASSUME NEW X, NEW b, IsRun(b), \A x \in DOMAIN b.cells : b.cells[x] \in X
    PROVE  b \in Runs(X)
<1>1. DOMAIN b.cells \in SUBSET Nat /\ b.cells \in [DOMAIN b.cells -> X]
  BY DEF IsRun
<1> QED BY <1>1 DEF IsRun, Runs, Bytes

LEMMA BehindType ==
    ASSUME NEW X, NEW a \in Runs(X), NEW b \in Runs(X)
    PROVE  Behind(a, b) \in Runs(X)
<1> DEFINE D == {x + a.sz : x \in DOMAIN b.cells}
           f == BytesBehind(a.cells, a.sz, b.cells)
<1>2. PICK A \in SUBSET Nat : a.cells \in [A -> X]
  BY DEF Runs
<1>3. PICK B \in SUBSET Nat : b.cells \in [B -> X]
  BY DEF Runs
<1>4. a.sz \in Nat /\ b.sz \in Nat
  BY DEF Runs
<1>5. ASSUME NEW o \in D PROVE o \in Nat /\ b.cells[o - a.sz] \in X
  <2>1. PICK x \in DOMAIN b.cells : o = x + a.sz
    OBVIOUS
  <2>2. x \in Nat /\ b.cells[x] \in X
    BY <1>3
  <2>3. o - a.sz = x
    BY <1>4, <2>1, <2>2
  <2> QED BY <1>4, <2>1, <2>2, <2>3
<1>6. DOMAIN a.cells \cup D \in SUBSET Nat
  BY <1>2, <1>5
<1>7. f \in [DOMAIN a.cells \cup D -> X]
  BY <1>2, <1>5 DEF BytesBehind
<1>8. U16(a.sz + b.sz) \in Nat
  BY <1>4 DEF U16, MAX_SIZE
<1>9. Behind(a, b) = Bytes(f, U16(a.sz + b.sz))
  BY DEF Behind
<1> HIDE DEF f, D
<1> QED BY <1>6, <1>7, <1>8, <1>9 DEF Runs, Bytes

\* joined[n] are the first n of runs.
JoinsTo(joined, runs) ==
    joined[0] = NoBytes /\ \A n \in 1 .. Len(runs) : joined[n] = Behind(joined[n - 1], runs[n])

\* The run of nothing.
LEMMA NoBytesRun == IsRun(NoBytes) /\ NoBytes.sz = 0
<1>1. <<>> = [x \in DOMAIN <<>> |-> <<>>[x]] /\ DOMAIN <<>> = {}
  OBVIOUS
<1> QED BY <1>1 DEF IsRun, NoBytes, Bytes

\* Joined is the last of the partial joins.
LEMMA JoinedJoins ==
    ASSUME NEW R, NEW runs \in Seq(R), \A n \in 1 .. Len(runs) : IsRun(runs[n])
    PROVE  \E joined : JoinsTo(joined, runs) /\ Joined(runs) = joined[Len(runs)]
<1> DEFINE m == Len(runs)
           X == UNION {{runs[n].cells[x] : x \in DOMAIN runs[n].cells} : n \in 1 .. m}
           F == [x \in (1 .. m) \X Runs(X) |-> Behind(x[2], runs[x[1]])]
           joined == CHOOSE f : f = [n \in 0 .. Len(runs) |->
                                        IF n = 0 THEN NoBytes ELSE Behind(f[n - 1], runs[n])]
<1>1. m \in Nat
  OBVIOUS
<1>2. NoBytes \in Runs(X)
  BY NoBytesRun, RunType DEF NoBytes, Bytes
<1>3. ASSUME NEW n \in 1 .. m PROVE runs[n] \in Runs(X)
  <2>1. \A x \in DOMAIN runs[n].cells : runs[n].cells[x] \in X
    OBVIOUS
  <2> HIDE DEF X
  <2> QED BY <2>1, RunType
<1>4. F \in [(1 .. m) \X Runs(X) -> Runs(X)]
  <2> HIDE DEF X
  <2> QED BY <1>3, BehindType
<1>5. PICK f \in [0 .. m -> Runs(X)] : Steps(f, NoBytes, F, m)
  <2> HIDE DEF F, m, X
  <2> QED BY <1>1, <1>2, <1>4, RecursionExists
<1>6. f = [n \in 0 .. Len(runs) |-> IF n = 0 THEN NoBytes ELSE Behind(f[n - 1], runs[n])]
  <2>1. ASSUME NEW n \in 0 .. m PROVE f[n] = IF n = 0 THEN NoBytes ELSE Behind(f[n - 1], runs[n])
    <3> HIDE DEF X
    <3>1. f[n] = IF n = 0 THEN NoBytes ELSE F[<<n, f[n - 1]>>]
      BY <1>5 DEF Steps
    <3>2. CASE n # 0
      <4>1. n \in 1 .. m /\ n - 1 \in 0 .. m
        BY <1>1, <3>2
      <4>2. n \in 1 .. m /\ f[n - 1] \in Runs(X)
        BY <4>1
      <4>3. F[<<n, f[n - 1]>>] = Behind(f[n - 1], runs[n])
        BY <4>2
      <4> QED BY <3>1, <3>2, <4>3
    <3> QED BY <3>1, <3>2
  <2> QED BY <1>5, <2>1
<1>7. joined = [n \in 0 .. Len(runs) |-> IF n = 0 THEN NoBytes ELSE Behind(joined[n - 1], runs[n])]
  BY <1>6
<1>8. Joined(runs) = joined[Len(runs)]
  BY DEF Joined
<1> HIDE DEF joined
<1>9. JoinsTo(joined, runs)
  <2>1. \A n \in 0 .. Len(runs) : joined[n] = IF n = 0 THEN NoBytes ELSE Behind(joined[n - 1], runs[n])
    BY <1>7
  <2> QED BY <2>1 DEF JoinsTo
<1> QED BY <1>8, <1>9

\* Joined runs lie one behind the other, at the sums of the sizes.
LEMMA JoinedRuns ==
    ASSUME NEW R, NEW runs \in Seq(R), \A n \in 1 .. Len(runs) : IsRun(runs[n]),
           NEW sizes \in Seq(Nat), Len(sizes) = Len(runs), \A n \in 1 .. Len(runs) : runs[n].sz = sizes[n],
           NEW sum \in [0 .. Len(sizes) -> Nat], Sums(sum, sizes), sum[Len(sizes)] <= MAX_SIZE
    PROVE  /\ IsRun(Joined(runs)) /\ Joined(runs).sz = sum[Len(sizes)]
           /\ \A n \in 1 .. Len(runs) : Agree(Joined(runs).cells, sum[n - 1], runs[n].cells)
<1> DEFINE m == Len(runs)
<1>1. PICK j : JoinsTo(j, runs) /\ Joined(runs) = j[m]
  BY JoinedJoins
<1> DEFINE Right(n) == /\ IsRun(j[n]) /\ j[n].sz = sum[n]
                       /\ \A o \in 1 .. n : Agree(j[n].cells, sum[o - 1], runs[o].cells)
           T == {n \in 0 .. m : Right(n)}
<1>2. 0 \in T
  <2>1. j[0] = NoBytes /\ sum[0] = 0
    BY <1>1 DEF JoinsTo, Sums
  <2>2. Right(0)
    BY <2>1, NoBytesRun
  <2> QED BY <2>2
<1>3. ASSUME NEW n \in 1 .. m, n - 1 \in T PROVE n \in T
  <2>1. j[n] = Behind(j[n - 1], runs[n])
    BY <1>1 DEF JoinsTo
  <2>2. Right(n - 1)
    BY <1>3
  <2> HIDE DEF T
  <2>3. sum[n - 1] + sizes[n] = sum[n] /\ sum[n] <= sum[m]
    BY SumsGrow
  <2>4. n - 1 \in 0 .. m /\ n \in 0 .. m /\ m \in 0 .. m /\ m = Len(sizes) /\ n \in 1 .. Len(sizes)
    OBVIOUS
  <2>5. sum[n - 1] \in Nat /\ sum[n] \in Nat /\ sum[m] \in Nat /\ sizes[n] \in Nat
    <3> HIDE DEF m
    <3>1. n - 1 \in 0 .. Len(sizes) /\ n \in 0 .. Len(sizes) /\ m \in 0 .. Len(sizes)
      BY <2>4
    <3>2. sum[n - 1] \in Nat /\ sum[n] \in Nat /\ sum[m] \in Nat
      BY <3>1
    <3>3. sizes[n] \in Nat
      BY <2>4
    <3> QED BY <3>2, <3>3
  <2>6. j[n - 1].sz + runs[n].sz <= MAX_SIZE
    BY <2>2, <2>3, <2>4, <2>5 DEF MAX_SIZE
  <2>7. /\ IsRun(j[n]) /\ j[n].sz = sum[n]
        /\ Agree(j[n].cells, 0, j[n - 1].cells) /\ Agree(j[n].cells, sum[n - 1], runs[n].cells)
    <3>1. IsRun(j[n - 1]) /\ IsRun(runs[n]) /\ j[n - 1].sz = sum[n - 1] /\ runs[n].sz = sizes[n]
      BY <2>2
    <3> QED BY <2>1, <2>3, <2>6, <3>1, BehindRun
  <2>8. ASSUME NEW o \in 1 .. n PROVE Agree(j[n].cells, sum[o - 1], runs[o].cells)
    <3>1. CASE o = n
      BY <2>7, <3>1
    <3>2. CASE o # n
      <4>1. o \in 1 .. n - 1 /\ o - 1 \in 0 .. m /\ o \in 1 .. m
        BY <2>4, <3>2
      <4>2. Agree(j[n - 1].cells, sum[o - 1], runs[o].cells) /\ sum[o - 1] \in Nat
        BY <2>2, <2>4, <4>1
      <4>3. DOMAIN runs[o].cells \subseteq Nat
        <5>1. IsRun(runs[o])
          BY <4>1
        <5>2. DOMAIN runs[o].cells \subseteq 0 .. runs[o].sz - 1
          BY <5>1 DEF IsRun
        <5> QED BY <5>2
      <4>4. 0 + sum[o - 1] = sum[o - 1]
        BY <4>2
      <4>5. Agree(j[n].cells, 0 + sum[o - 1], runs[o].cells)
        BY <2>7, <4>2, <4>3, AgreeWithin
      <4> QED BY <4>4, <4>5
    <3> QED BY <3>1, <3>2
  <2> QED BY <2>4, <2>7, <2>8 DEF T
<1> HIDE DEF T
<1>4. m \in Nat /\ m \in 0 .. m
  OBVIOUS
<1>5. m \in T
  BY <1>2, <1>3, <1>4, Induct
<1> QED BY <1>1, <1>5 DEF T

\* Runs of the given sizes, together no larger than 16 bits can say.
LEMMA RunsTogether ==
    ASSUME NEW R, NEW runs \in Seq(R), NEW sizes \in Seq(Nat), Len(sizes) = Len(runs),
           \A n \in 1 .. Len(runs) : sizes[n] <= MAX_SIZE => IsRun(runs[n]) /\ runs[n].sz = sizes[n],
           Total(sizes) <= MAX_SIZE
    PROVE  \E sum \in [0 .. Len(sizes) -> Nat] :
               /\ Sums(sum, sizes) /\ sum[Len(sizes)] = Total(sizes)
               /\ \A n \in 1 .. Len(sizes) : sizes[n] <= Total(sizes)
               /\ IsRun(Joined(runs)) /\ Joined(runs).sz = Total(sizes)
               /\ \A n \in 1 .. Len(runs) : Agree(Joined(runs).cells, sum[n - 1], runs[n].cells)
<1>1. PICK sum \in [0 .. Len(sizes) -> Nat] : Sums(sum, sizes) /\ Total(sizes) = sum[Len(sizes)]
  BY TotalSums
<1>2. ASSUME NEW n \in 1 .. Len(sizes) PROVE sizes[n] <= sum[Len(sizes)]
  <2>1. sum[n - 1] + sizes[n] = sum[n] /\ sum[n] <= sum[Len(sizes)]
    BY <1>1, SumsGrow
  <2>2. n - 1 \in 0 .. Len(sizes) /\ n \in 0 .. Len(sizes) /\ Len(sizes) \in 0 .. Len(sizes)
    OBVIOUS
  <2>3. sum[n - 1] \in Nat /\ sum[n] \in Nat /\ sum[Len(sizes)] \in Nat
    <3>1. \A o \in 0 .. Len(sizes) : sum[o] \in Nat
      OBVIOUS
    <3> QED BY <2>2, <3>1
  <2>4. sizes[n] \in Nat
    OBVIOUS
  <2> QED BY <2>1, <2>3, <2>4
<1>3. Len(sizes) \in 0 .. Len(sizes)
  OBVIOUS
<1>4. sum[Len(sizes)] \in Nat
  BY <1>3
<1>5. \A n \in 1 .. Len(runs) : IsRun(runs[n]) /\ runs[n].sz = sizes[n]
  <2> SUFFICES ASSUME NEW n \in 1 .. Len(runs) PROVE sizes[n] <= MAX_SIZE
    OBVIOUS
  <2>1. sizes[n] \in Nat /\ sizes[n] <= sum[Len(sizes)] /\ sum[Len(sizes)] <= MAX_SIZE
    BY <1>1, <1>2
  <2> QED BY <1>4, <2>1 DEF MAX_SIZE
<1>6. /\ IsRun(Joined(runs)) /\ Joined(runs).sz = sum[Len(sizes)]
      /\ \A n \in 1 .. Len(runs) : Agree(Joined(runs).cells, sum[n - 1], runs[n].cells)
  <2>1. /\ \A n \in 1 .. Len(runs) : IsRun(runs[n])
        /\ \A n \in 1 .. Len(runs) : runs[n].sz = sizes[n]
        /\ sum[Len(sizes)] <= MAX_SIZE
    BY <1>1, <1>5
  <2> QED BY <1>1, <2>1, JoinedRuns
<1> QED BY <1>1, <1>2, <1>6

-----------------------------------------------------------------------------
(* Arguments as runs *)

LEMMA ScalarSize == ASSUME NEW a, IsScalar(a) PROVE ScalarBytes(a) \in Nat \ {0}
BY DEF IsScalar, ScalarBytes, U16, MAX_SIZE, STRING_HEADER_SIZE

LEMMA ScalarRun ==
    ASSUME NEW a, IsScalar(a), ScalarBytes(a) <= MAX_SIZE
    PROVE  IsRun(SerializedScalar(a)) /\ SerializedScalar(a).sz = ScalarBytes(a)
<1>1. CASE a.kind = "pod"
  BY <1>1, OneCell DEF IsScalar, SerializedScalar, ScalarBytes
<1>2. CASE a.kind # "pod"
  <2> DEFINE n == U16(a.len)
             head == Bytes(Cell(n), STRING_HEADER_SIZE)
             body == IF n = 0 THEN NoBytes ELSE Bytes(Cell(FirstOf(a)), n)
  <2>1. n \in Nat
    BY <1>2 DEF IsScalar, U16, MAX_SIZE
  <2>2. IsRun(head) /\ head.sz = 8
    BY OneCell DEF STRING_HEADER_SIZE
  <2>3. IsRun(body) /\ body.sz = n
    BY <2>1, OneCell, NoBytesRun
  <2>4. SerializedScalar(a) = Behind(head, body) /\ ScalarBytes(a) = 8 + n
    BY <1>2 DEF SerializedScalar, ScalarBytes, STRING_HEADER_SIZE
  <2> HIDE DEF head, body
  <2> QED BY <2>2, <2>3, <2>4, BehindRun
<1> QED BY <1>1, <1>2

\* A scalar is read where it was written.
LEMMA ScalarRead ==
    ASSUME NEW a, IsScalar(a), IsShort(a), NEW cells, NEW at \in Nat, at + ScalarBytes(a) <= MAX_SIZE,
           Agree(cells, at, SerializedScalar(a).cells)
    PROVE  ReadScalar(a, cells, at) = Got(ScalarValue(a), at + ScalarBytes(a))
<1>1. CASE a.kind = "pod"
  <2>1. SerializedScalar(a) = Bytes(Cell(a.value), a.size) /\ a.size \in Nat \ {0}
    BY <1>1 DEF SerializedScalar, IsScalar
  <2>2. cells[at] = a.value
    <3>1. 0 \in DOMAIN SerializedScalar(a).cells /\ SerializedScalar(a).cells[0] = a.value
      BY <2>1, OneCell
    <3>2. cells[at + 0] = a.value
      BY <3>1 DEF Agree
    <3>3. at + 0 = at
      OBVIOUS
    <3> QED BY <3>2, <3>3
  <2>3. U16(at + a.size) = at + a.size
    BY <1>1, <2>1 DEF U16, MAX_SIZE, ScalarBytes
  <2> QED BY <1>1, <2>2, <2>3 DEF ReadScalar, ScalarBytes, ScalarValue
<1>2. CASE a.kind # "pod"
  <2> DEFINE n == U16(a.len)
             head == Bytes(Cell(n), 8)
             body == IF n = 0 THEN NoBytes ELSE Bytes(Cell(FirstOf(a)), n)
  <2>1. n = a.len /\ n \in Nat /\ n <= MAX_SIZE /\ a.kind = "string"
    BY <1>2 DEF IsScalar, IsShort, U16, MAX_SIZE
  <2>2. IsRun(head) /\ head.sz = 8 /\ head.cells = Cell(n)
    BY OneCell
  <2>3. IsRun(body) /\ body.sz = n
    BY <2>1, OneCell, NoBytesRun
  <2>4. SerializedScalar(a) = Behind(head, body) /\ ScalarBytes(a) = 8 + n
    BY <1>2 DEF SerializedScalar, ScalarBytes, STRING_HEADER_SIZE
  <2>5. at + 8 + n <= MAX_SIZE
    BY <2>1, <2>4
  <2>6. /\ Agree(SerializedScalar(a).cells, 0, Cell(n))
        /\ Agree(SerializedScalar(a).cells, 8, body.cells)
    <3> HIDE DEF head, body, n
    <3>1. 8 + n <= MAX_SIZE
      BY <2>1, <2>5 DEF MAX_SIZE
    <3> QED BY <2>2, <2>3, <2>4, <3>1, BehindRun
  <2>7. cells[at] = n
    <3>1. DOMAIN Cell(n) = {0} /\ Cell(n)[0] = n
      BY OneCell
    <3>2. Agree(cells, at + 0, Cell(n))
      BY <2>6, <3>1, AgreeWithin
    <3>3. at + 0 + 0 = at
      OBVIOUS
    <3>4. cells[at + 0 + 0] = Cell(n)[0]
      BY <3>1, <3>2 DEF Agree
    <3> QED BY <3>1, <3>3, <3>4
  <2>8. U16(at + 8) = at + 8 /\ U16(at + 8 + n) = at + 8 + n
    BY <2>1, <2>5 DEF U16, MAX_SIZE
  <2>9. CASE n = 0
    BY <1>2, <2>1, <2>4, <2>7, <2>8, <2>9 DEF ReadScalar, ScalarValue, NoLength, STRING_HEADER_SIZE
  <2>10. CASE n # 0
    <3>1. body.cells = Cell(FirstOf(a)) /\ DOMAIN Cell(FirstOf(a)) = {0} /\ Cell(FirstOf(a))[0] = FirstOf(a)
      BY <2>1, <2>10, OneCell
    <3>2. Agree(cells, at + 8, Cell(FirstOf(a)))
      BY <2>6, <3>1, AgreeWithin
    <3>3. cells[at + 8 + 0] = FirstOf(a) /\ at + 8 + 0 = at + 8
      BY <3>1, <3>2 DEF Agree
    <3>4. FirstOf(a) = ScalarValue(a)
      BY <1>2, <2>1, <2>10 DEF FirstOf, ScalarValue
    <3> HIDE DEF n, head, body
    <3>5. ~ NoLength(n)
      BY <2>1, <2>10 DEF NoLength, MAX_SIZE
    <3>6. ReadScalar(a, cells, at) = Got(cells[U16(at + 8)], U16(U16(at + 8) + cells[at]))
      BY <1>2, <2>7, <3>5 DEF ReadScalar, STRING_HEADER_SIZE
    <3>7. at + (8 + n) = at + 8 + n
      BY <2>1
    <3> QED BY <2>4, <2>7, <2>8, <3>3, <3>4, <3>6, <3>7
  <2> QED BY <2>9, <2>10
<1> QED BY <1>1, <1>2

\* A run behind a header of eight bytes or a field of a frame.
LEMMA Headed ==
    ASSUME NEW v, NEW k \in Nat \ {0}, NEW b, IsRun(b), k + b.sz <= MAX_SIZE
    PROVE  LET h == Behind(Bytes(Cell(v), k), b)
           IN  /\ IsRun(h) /\ h.sz = k + b.sz
               /\ 0 \in DOMAIN h.cells /\ h.cells[0] = v /\ Agree(h.cells, k, b.cells)
<1> DEFINE head == Bytes(Cell(v), k)
           h == Behind(head, b)
<1>1. IsRun(head) /\ head.sz = k /\ head.cells = Cell(v) /\ DOMAIN Cell(v) = {0} /\ Cell(v)[0] = v
  BY OneCell
<1> HIDE DEF head
<1>2. IsRun(h) /\ h.sz = k + b.sz /\ Agree(h.cells, 0, Cell(v)) /\ Agree(h.cells, k, b.cells)
  BY <1>1, BehindRun
<1>3. 0 + 0 \in DOMAIN h.cells /\ h.cells[0 + 0] = v /\ 0 + 0 = 0
  <2> HIDE DEF h
  <2> QED BY <1>1, <1>2 DEF Agree
<1> QED BY <1>2, <1>3 DEF head

-----------------------------------------------------------------------------
(* What is got one after the other *)

\* The first n of vals.
First(vals, n) == [k \in 1 .. n |-> vals[k]]

\* One value more.
LEMMA FirstMore ==
    ASSUME NEW m \in Nat, NEW n \in 1 .. m, NEW vals
    PROVE  Append(First(vals, n - 1), vals[n]) = First(vals, n)
<1> DEFINE V == {vals[k] : k \in 1 .. n}
           s == First(vals, n - 1)
<1>1. s \in [1 .. n - 1 -> V] /\ n - 1 \in Nat /\ vals[n] \in V
  <2>1. \A k \in 1 .. n - 1 : k \in 1 .. n
    OBVIOUS
  <2> QED BY <2>1 DEF First
<1>2. s \in Seq(V) /\ Len(s) = n - 1
  <2> HIDE DEF s, V
  <2> QED BY <1>1
<1>3. Append(s, vals[n]) = [k \in 1 .. n |-> IF k = n THEN vals[n] ELSE s[k]]
  <2> HIDE DEF s, V
  <2> QED BY <1>1, <1>2
<1>4. \A k \in 1 .. n : k = n \/ k \in 1 .. n - 1
  OBVIOUS
<1>5. \A k \in 1 .. n : (IF k = n THEN vals[n] ELSE s[k]) = vals[k]
  BY <1>4 DEF First
<1> HIDE DEF s
<1> QED BY <1>3, <1>5 DEF First, s

\* A reader that was right so far gets the next value, and is where the one after it lies.
GotOn(f, m, vals, offs) ==
    /\ f[0] = Got(<<>>, offs[0])
    /\ \A n \in 1 .. m : f[n - 1] = Got(First(vals, n - 1), offs[n - 1])
            => f[n] = GotMore(f[n - 1], Got(vals[n], offs[n]))

\* Such a reader has all values in the end.
LEMMA GotAll ==
    ASSUME NEW m \in Nat, NEW vals, NEW offs, NEW f, GotOn(f, m, vals, offs)
    PROVE  f[m] = Got(First(vals, m), offs[m])
<1> USE DEF GotOn
<1> DEFINE T == {n \in 0 .. m : f[n] = Got(First(vals, n), offs[n])}
<1>1. 0 \in T
  <2>1. First(vals, 0) = <<>>
    BY DEF First
  <2> QED BY <2>1
<1>2. ASSUME NEW n \in 1 .. m, n - 1 \in T PROVE n \in T
  <2>1. f[n] = GotMore(Got(First(vals, n - 1), offs[n - 1]), Got(vals[n], offs[n]))
    BY <1>2
  <2>2. Append(First(vals, n - 1), vals[n]) = First(vals, n)
    BY FirstMore
  <2>3. f[n] = Got(First(vals, n), offs[n])
    BY <2>1, <2>2 DEF GotMore, Got
  <2> QED BY <2>3
<1> HIDE DEF T
<1>3. m \in 0 .. m
  OBVIOUS
<1>4. m \in T
  BY <1>1, <1>2, <1>3, Induct
<1> QED BY <1>4 DEF T

\* A reader that gets value after value.
GotBy(f, m, vals, offs) ==
    /\ f = [n \in 0 .. m |-> f[n]] /\ f[0] = Got(<<>>, offs[0])
    /\ \A n \in 1 .. m : f[n - 1].next = offs[n - 1]
                         /\ f[n] = GotMore(f[n - 1], Got(vals[n], offs[n]))

\* The reader that gets them exists.
LEMMA GotExists ==
    ASSUME NEW m \in Nat, NEW vals, NEW offs
    PROVE  \E f : GotBy(f, m, vals, offs)
<1> DEFINE f == [n \in 0 .. m |-> Got(First(vals, n), offs[n])]
<1>1. First(vals, 0) = <<>>
  BY DEF First
<1>2. ASSUME NEW n \in 1 .. m
      PROVE  f[n - 1].next = offs[n - 1] /\ f[n] = GotMore(f[n - 1], Got(vals[n], offs[n]))
  <2>1. n - 1 \in 0 .. m /\ n \in 0 .. m
    OBVIOUS
  <2>2. f[n - 1] = Got(First(vals, n - 1), offs[n - 1]) /\ f[n] = Got(First(vals, n), offs[n])
    BY <2>1
  <2>3. Append(First(vals, n - 1), vals[n]) = First(vals, n)
    BY FirstMore
  <2> HIDE DEF f
  <2>4. f[n - 1].value = First(vals, n - 1) /\ f[n - 1].next = offs[n - 1]
    BY <2>2 DEF Got
  <2>5. GotMore(f[n - 1], Got(vals[n], offs[n])) = Got(Append(First(vals, n - 1), vals[n]), offs[n])
    BY <2>4 DEF Got, GotMore
  <2> QED BY <2>2, <2>3, <2>4, <2>5
<1>3. f[0] = Got(<<>>, offs[0])
  <2>1. 0 \in 0 .. m
    OBVIOUS
  <2> QED BY <1>1, <2>1
<1>4. f = [n \in 0 .. m |-> f[n]]
  OBVIOUS
<1> HIDE DEF f
<1>5. GotBy(f, m, vals, offs)
  BY <1>2, <1>3, <1>4 DEF GotBy
<1> QED BY <1>5

-----------------------------------------------------------------------------
(* Vectors *)

LEMMA SumsAtLeast ==
    ASSUME NEW s \in Seq(Nat), NEW sum \in [0 .. Len(s) -> Nat], Sums(sum, s), NEW w \in Nat,
           \A n \in 1 .. Len(s) : s[n] >= w
    PROVE  Len(s) * w <= sum[Len(s)]
<1> DEFINE T == {n \in 0 .. Len(s) : n * w <= sum[n]}
<1>1. 0 \in T
  BY DEF Sums
<1>2. ASSUME NEW n \in 1 .. Len(s), n - 1 \in T PROVE n \in T
  <2>1. n - 1 \in 0 .. Len(s) /\ n \in 0 .. Len(s)
    OBVIOUS
  <2>2. \A o \in 0 .. Len(s) : sum[o] \in Nat
    OBVIOUS
  <2>3. sum[n] = sum[n - 1] + s[n] /\ s[n] >= w /\ (n - 1) * w <= sum[n - 1]
    BY <1>2 DEF Sums
  <2>4. s[n] \in Nat
    OBVIOUS
  <2>5. (n - 1) * w + w = n * w /\ (n - 1) * w \in Int
    OBVIOUS
  <2> HIDE DEF T
  <2>6. sum[n] \in Nat /\ sum[n - 1] \in Nat
    BY <2>1, <2>2
  <2>7. n * w <= sum[n]
    BY <2>3, <2>4, <2>5, <2>6
  <2> QED BY <2>1, <2>7 DEF T
<1> HIDE DEF T
<1>3. Len(s) \in Nat /\ Len(s) \in 0 .. Len(s)
  OBVIOUS
<1>4. Len(s) \in T
  BY <1>1, <1>2, <1>3, Induct
<1> QED BY <1>4 DEF T

LEMMA Divided ==
    ASSUME NEW n \in Nat, NEW k \in Nat \ {0}, n * k <= MAX_SIZE
    PROVE  ~ (n > MAX_SIZE \div k)
<1> DEFINE q == MAX_SIZE \div k
<1>1. q \in Nat /\ MAX_SIZE < (q + 1) * k
  BY DEF MAX_SIZE
<1> HIDE DEF q
<1>2. ASSUME n > q PROVE FALSE
  <2>1. (q + 1) * k <= n * k
    BY <1>1, <1>2
  <2>2. (q + 1) * k \in Nat /\ n * k \in Nat
    BY <1>1
  <2> QED BY <1>1, <2>1, <2>2 DEF MAX_SIZE
<1> QED BY <1>2 DEF q

\* sum[n] are the bytes of the first n elements, behind the header.
LEMMA VectorRun ==
    ASSUME NEW a, IsVector(a), ArgBytes(a) <= MAX_SIZE
    PROVE  LET v == SerializedVector(a)
               m == Len(a.elements)
           IN  /\ IsRun(v) /\ v.sz = ArgBytes(a) /\ ArgBytes(a) \in Nat
               /\ m \in Nat /\ DOMAIN a.elements = 1 .. m
               /\ 0 \in DOMAIN v.cells /\ v.cells[0] = m
               /\ \A w \in Nat : (\A n \in 1 .. m : ScalarBytes(a.elements[n]) >= w)
                                    => VECTOR_HEADER_SIZE + m * w <= ArgBytes(a)
               /\ \E sum \in [0 .. m -> Nat] :
                    /\ sum[0] = 0 /\ VECTOR_HEADER_SIZE + sum[m] = ArgBytes(a)
                    /\ \A n \in 1 .. m :
                        /\ sum[n] = sum[n - 1] + ScalarBytes(a.elements[n]) /\ sum[n] <= sum[m]
                        /\ Agree(v.cells, VECTOR_HEADER_SIZE + sum[n - 1],
                                 SerializedScalar(a.elements[n]).cells)
<1> DEFINE m == Len(a.elements)
           v == SerializedVector(a)
           runs == [n \in DOMAIN a.elements |-> SerializedScalar(a.elements[n])]
           sizes == [n \in DOMAIN a.elements |-> ScalarBytes(a.elements[n])]
           R == {SerializedScalar(a.elements[n]) : n \in DOMAIN a.elements}
<1>1. m \in Nat /\ DOMAIN a.elements = 1 .. m
  <2> DEFINE S == {a.elements[n] : n \in DOMAIN a.elements}
  <2>1. a.elements \in Seq(S)
    BY DEF IsVector
  <2> HIDE DEF S
  <2> QED BY <2>1
<1>2. \A n \in 1 .. m : IsScalar(a.elements[n])
  BY <1>1 DEF IsVector
<1>3. runs \in Seq(R) /\ Len(runs) = m
  BY <1>1
<1>4. sizes \in Seq(Nat) /\ Len(sizes) = m
  <2>1. \A n \in 1 .. m : ScalarBytes(a.elements[n]) \in Nat
    BY <1>2, ScalarSize
  <2> QED BY <1>1, <2>1
<1>5. \A n \in 1 .. m : runs[n] = SerializedScalar(a.elements[n]) /\ sizes[n] = ScalarBytes(a.elements[n])
  BY <1>1
<1>6. ArgBytes(a) = 8 + Total(sizes) /\ v = Behind(Bytes(Cell(m), 8), Joined(runs))
  BY DEF ArgBytes, SerializedVector, VECTOR_HEADER_SIZE, IsVector
<1> HIDE DEF runs, sizes, R, m, v
<1>7. Total(sizes) \in Nat
  <2>1. \A n \in 1 .. Len(sizes) : sizes[n] <= sizes[n]
    BY <1>4
  <2> QED BY <1>4, <2>1, TotalMonotone
<1>8. Total(sizes) <= MAX_SIZE
  BY <1>6, <1>7 DEF MAX_SIZE
<1>9. \A n \in 1 .. Len(runs) : sizes[n] <= MAX_SIZE => IsRun(runs[n]) /\ runs[n].sz = sizes[n]
  BY <1>2, <1>3, <1>5, ScalarRun
<1>10. PICK sum \in [0 .. Len(sizes) -> Nat] :
           /\ Sums(sum, sizes) /\ sum[Len(sizes)] = Total(sizes)
           /\ IsRun(Joined(runs)) /\ Joined(runs).sz = Total(sizes)
           /\ \A n \in 1 .. Len(runs) : Agree(Joined(runs).cells, sum[n - 1], runs[n].cells)
  BY <1>3, <1>4, <1>8, <1>9, RunsTogether
<1>11. /\ IsRun(v) /\ v.sz = 8 + Total(sizes)
       /\ 0 \in DOMAIN v.cells /\ v.cells[0] = m /\ Agree(v.cells, 8, Joined(runs).cells)
  <2>1. 8 + Joined(runs).sz <= MAX_SIZE
    BY <1>6, <1>10
  <2> QED BY <1>6, <1>10, <2>1, Headed
<1>12. ASSUME NEW n \in 1 .. m
       PROVE  /\ sum[n] = sum[n - 1] + ScalarBytes(a.elements[n]) /\ sum[n] <= sum[m]
              /\ Agree(v.cells, 8 + sum[n - 1], SerializedScalar(a.elements[n]).cells)
  <2>1. sum[n - 1] + sizes[n] = sum[n] /\ sum[n] <= sum[m]
    BY <1>4, <1>10, SumsGrow
  <2>2. n - 1 \in 0 .. Len(sizes) /\ sum[n - 1] \in Nat
    <3>1. n - 1 \in 0 .. Len(sizes)
      BY <1>1, <1>4
    <3> QED BY <3>1
  <2>3. Agree(Joined(runs).cells, sum[n - 1], runs[n].cells)
    BY <1>3, <1>10
  <2>4. DOMAIN runs[n].cells \subseteq Nat
    <3>1. sizes[n] \in Nat /\ sizes[n] <= MAX_SIZE
      <4>1. \A o \in 0 .. Len(sizes) : sum[o] \in Nat
        OBVIOUS
      <4>2. n \in 0 .. Len(sizes) /\ m \in 0 .. Len(sizes) /\ n \in 1 .. Len(sizes)
        BY <1>1, <1>4
      <4>3. sizes[n] \in Nat
        BY <1>4, <4>2
      <4>4. sum[m] <= MAX_SIZE
        BY <1>4, <1>8, <1>10
      <4> QED BY <2>1, <2>2, <4>1, <4>2, <4>3, <4>4 DEF MAX_SIZE
    <3>2. IsRun(runs[n])
      BY <1>3, <1>9, <3>1
    <3>3. DOMAIN runs[n].cells \subseteq 0 .. runs[n].sz - 1
      BY <3>2 DEF IsRun
    <3> QED BY <3>3
  <2>5. Agree(v.cells, 8 + sum[n - 1], runs[n].cells)
    BY <1>11, <2>2, <2>3, <2>4, AgreeWithin
  <2> QED BY <1>5, <2>1, <2>5
<1>13. ASSUME NEW w \in Nat, \A n \in 1 .. m : ScalarBytes(a.elements[n]) >= w
       PROVE  8 + m * w <= ArgBytes(a)
  <2>1. \A n \in 1 .. Len(sizes) : sizes[n] >= w
    BY <1>4, <1>5, <1>13
  <2>2. Len(sizes) * w <= sum[Len(sizes)]
    BY <1>4, <1>10, <2>1, SumsAtLeast
  <2>3. m * w \in Nat
    BY <1>1
  <2> QED BY <1>4, <1>6, <1>7, <1>10, <2>2, <2>3
<1>14. sum[0] = 0 /\ 8 + sum[m] = ArgBytes(a) /\ sum \in [0 .. m -> Nat]
  BY <1>4, <1>6, <1>10 DEF Sums
<1>15. v.sz = ArgBytes(a) /\ ArgBytes(a) \in Nat
  BY <1>6, <1>7, <1>11
<1> QED BY <1>1, <1>11, <1>12, <1>13, <1>14, <1>15 DEF v, m, VECTOR_HEADER_SIZE

LEMMA VectorBytes == ASSUME NEW a, IsVector(a) PROVE ArgBytes(a) \in Nat
<1> DEFINE m == Len(a.elements)
           S == {a.elements[n] : n \in DOMAIN a.elements}
           sizes == [n \in DOMAIN a.elements |-> ScalarBytes(a.elements[n])]
<1>1. m \in Nat /\ DOMAIN a.elements = 1 .. m
  <2>1. a.elements \in Seq(S)
    BY DEF IsVector
  <2> HIDE DEF S
  <2> QED BY <2>1
<1>2. sizes \in Seq(Nat)
  <2>1. \A n \in DOMAIN a.elements : ScalarBytes(a.elements[n]) \in Nat
    BY ScalarSize DEF IsVector
  <2> QED BY <1>1, <2>1
<1>3. ArgBytes(a) = 8 + Total(sizes)
  BY DEF ArgBytes, VECTOR_HEADER_SIZE, IsVector
<1> HIDE DEF sizes
<1>4. \A n \in 1 .. Len(sizes) : sizes[n] <= sizes[n]
  BY <1>2
<1>5. Total(sizes) \in Nat
  BY <1>2, <1>4, TotalMonotone
<1> QED BY <1>3, <1>5

\* A vector that was written has a length deserializeType accepts.
LEMMA VectorLength ==
    ASSUME NEW a, IsVector(a), ArgBytes(a) <= ReadableSize
    PROVE  ~ (Len(a.elements) > MAX_SIZE \div a.size)
<1> DEFINE m == Len(a.elements)
           w == IF a.size = StringObjectSize THEN STRING_HEADER_SIZE ELSE a.size
<1> USE DEF StringObjectSize, STRING_HEADER_SIZE, VECTOR_HEADER_SIZE
<1>1. ReadableSize = 16376
  BY DEF ReadableSize, MAX_SIZE
<1>2. /\ ArgBytes(a) \in Nat /\ m \in Nat /\ DOMAIN a.elements = 1 .. m
      /\ \A k \in Nat : (\A n \in 1 .. m : ScalarBytes(a.elements[n]) >= k) => 8 + m * k <= ArgBytes(a)
  <2>1. ArgBytes(a) <= MAX_SIZE
    <3>1. 4 \in Nat
      OBVIOUS
    <3>2. ArgBytes(a) \in Nat
      BY VectorBytes
    <3> QED BY <1>1, <3>2 DEF MAX_SIZE
  <2> QED BY <2>1, VectorRun
<1>3. a.size \in Nat \ {0} /\ w \in Nat
  BY DEF IsVector
<1>4. ASSUME NEW n \in 1 .. m PROVE ScalarBytes(a.elements[n]) >= w
  <2>1. /\ IsScalar(a.elements[n])
        /\ a.size = IF a.elements[n].kind = "pod" THEN a.elements[n].size ELSE 32
    BY <1>2 DEF IsVector
  <2>2. CASE a.elements[n].kind = "pod"
    BY <1>3, <2>1, <2>2 DEF ScalarBytes
  <2>3. CASE a.elements[n].kind # "pod"
    <3>1. U16(a.elements[n].len) \in Nat
      BY <2>1, <2>3 DEF IsScalar, U16, MAX_SIZE
    <3> QED BY <2>1, <2>3, <3>1 DEF ScalarBytes
  <2> QED BY <2>2, <2>3
<1>5. 8 + m * w <= 16376
  <2>1. 8 + m * w <= ArgBytes(a)
    BY <1>2, <1>3, <1>4
  <2>2. m * w \in Nat
    BY <1>2, <1>3
  <2> QED BY <1>1, <1>2, <2>1, <2>2
<1>6. CASE a.size = 32
  <2>1. m <= 2046
    BY <1>2, <1>5, <1>6
  <2>2. MAX_SIZE \div 32 = 2047
    BY DEF MAX_SIZE
  <2> QED BY <1>2, <1>6, <2>1, <2>2
<1>7. CASE a.size # 32
  <2>1. m * a.size <= MAX_SIZE
    <3>1. m * a.size \in Nat /\ m * a.size = m * w
      BY <1>2, <1>3, <1>7
    <3> QED BY <1>5, <3>1 DEF MAX_SIZE
  <2> QED BY <1>2, <1>3, <2>1, Divided
<1> QED BY <1>6, <1>7

\* A vector is read where it was written.
LEMMA VectorRead ==
    ASSUME NEW a, IsVector(a), \A n \in DOMAIN a.elements : IsShort(a.elements[n]),
           ArgBytes(a) <= ReadableSize, NEW cells, NEW at \in Nat, at + ArgBytes(a) <= MAX_SIZE,
           Agree(cells, at, SerializedVector(a).cells)
    PROVE  ReadVector(a, cells, at) = Got(ValueOf(a), at + ArgBytes(a))
<1> DEFINE m == Len(a.elements)
           v == SerializedVector(a)
<1>0. ArgBytes(a) \in Nat /\ ArgBytes(a) <= MAX_SIZE
  <2>1. ArgBytes(a) \in Nat
    BY VectorBytes
  <2> QED BY <2>1 DEF MAX_SIZE
<1>1. m \in Nat /\ DOMAIN a.elements = 1 .. m /\ 0 \in DOMAIN v.cells /\ v.cells[0] = m
  BY <1>0, VectorRun
<1>2. PICK sum \in [0 .. m -> Nat] :
          /\ sum[0] = 0 /\ 8 + sum[m] = ArgBytes(a)
          /\ \A n \in 1 .. m :
              /\ sum[n] = sum[n - 1] + ScalarBytes(a.elements[n]) /\ sum[n] <= sum[m]
              /\ Agree(v.cells, 8 + sum[n - 1], SerializedScalar(a.elements[n]).cells)
  BY <1>0, VectorRun DEF VECTOR_HEADER_SIZE
<1> HIDE DEF v
<1>3. cells[at] = m
  <2>1. at + 0 \in DOMAIN cells /\ cells[at + 0] = m /\ at + 0 = at
    BY <1>1 DEF Agree, v
  <2> QED BY <2>1
<1>13. PICK offs : \A n \in 0 .. m : offs[n] = at + 8 + sum[n]
  <2> DEFINE f == [n \in 0 .. m |-> at + 8 + sum[n]]
  <2>1. \A n \in 0 .. m : f[n] = at + 8 + sum[n]
    OBVIOUS
  <2> HIDE DEF f
  <2> QED BY <2>1
<1>4. U16(at + 8) = offs[0] /\ offs[m] = at + ArgBytes(a)
  <2>1. sum[m] \in Nat /\ 0 \in 0 .. m /\ m \in 0 .. m
    BY <1>1
  <2>2. at + 8 <= MAX_SIZE
    BY <1>0, <1>2, <2>1 DEF MAX_SIZE
  <2>3. U16(at + 8) = at + 8
    BY <2>2 DEF U16, MAX_SIZE
  <2>4. sum[0] = 0 /\ 8 + sum[m] = ArgBytes(a)
    BY <1>2
  <2>5. offs[0] = at + 8 + sum[0] /\ offs[m] = at + 8 + sum[m]
    BY <1>13, <2>1
  <2> HIDE DEF m
  <2>6. offs[0] = at + 8
    BY <2>4, <2>5
  <2>7. offs[m] = at + ArgBytes(a)
    BY <1>0, <2>1, <2>4, <2>5
  <2> QED BY <2>3, <2>6, <2>7
<1>5. PICK vals : /\ vals = ValueOf(a) /\ vals = First(vals, m)
                  /\ \A n \in 1 .. m : vals[n] = ScalarValue(a.elements[n])
  <2>1. /\ ValueOf(a) = First(ValueOf(a), m)
        /\ \A n \in 1 .. m : ValueOf(a)[n] = ScalarValue(a.elements[n])
    BY <1>1 DEF ValueOf, First, IsVector
  <2> QED BY <2>1
<1>6. ASSUME NEW n \in 1 .. m
      PROVE  ReadScalar(a.elements[n], cells, offs[n - 1]) = Got(vals[n], offs[n])
  <2> DEFINE e == a.elements[n]
  <2>1. IsScalar(e) /\ IsShort(e)
    BY <1>1 DEF IsVector
  <2>2. n - 1 \in 0 .. m /\ n \in 0 .. m /\ m \in 0 .. m
    BY <1>1
  <2>3. sum[n - 1] \in Nat /\ sum[n] \in Nat /\ sum[m] \in Nat
    <3>1. \A o \in 0 .. m : sum[o] \in Nat
      BY <1>2
    <3> QED BY <2>2, <3>1
  <2>4. sum[n] = sum[n - 1] + ScalarBytes(e) /\ sum[n] <= sum[m]
        /\ Agree(v.cells, 8 + sum[n - 1], SerializedScalar(e).cells)
    BY <1>2
  <2>5. ScalarBytes(e) \in Nat \ {0}
    BY <2>1, ScalarSize
  <2>6. offs[n - 1] = at + 8 + sum[n - 1] /\ offs[n] = offs[n - 1] + ScalarBytes(e)
        /\ offs[n - 1] \in Nat /\ offs[n - 1] + ScalarBytes(e) <= MAX_SIZE
    <3>1. offs[n - 1] = at + 8 + sum[n - 1] /\ offs[n] = at + 8 + sum[n]
      BY <1>13, <2>2
    <3>2. 8 + sum[m] = ArgBytes(a) /\ sum[n] = sum[n - 1] + ScalarBytes(e) /\ sum[n] <= sum[m]
      BY <1>2, <2>4
    <3>3. /\ sum[n - 1] \in Nat /\ ScalarBytes(e) \in Nat /\ ArgBytes(a) \in Nat /\ sum[m] \in Nat
          /\ sum[n] \in Nat /\ at + ArgBytes(a) <= MAX_SIZE
      BY <1>0, <2>3, <2>5
    <3> DEFINE x == sum[n - 1]
               y == sum[n]
               z == sum[m]
               s == ScalarBytes(e)
               w == ArgBytes(a)
    <3>4. /\ x \in Nat /\ y \in Nat /\ z \in Nat /\ s \in Nat /\ w \in Nat
          /\ 8 + z = w /\ y = x + s /\ y <= z /\ at + w <= MAX_SIZE
          /\ offs[n - 1] = at + 8 + x /\ offs[n] = at + 8 + y
      BY <3>1, <3>2, <3>3
    <3> HIDE DEF e, m, x, y, z, s, w
    <3>5. at + 8 + y = at + 8 + x + s /\ at + 8 + x \in Nat /\ at + 8 + x + s <= 65535
      BY <3>4 DEF MAX_SIZE
    <3>6. offs[n - 1] = at + 8 + x /\ offs[n] = offs[n - 1] + s
          /\ offs[n - 1] \in Nat /\ offs[n - 1] + s <= MAX_SIZE
      BY <3>4, <3>5 DEF MAX_SIZE
    <3> QED BY <3>6 DEF x, s
  <2>7. Agree(cells, offs[n - 1], SerializedScalar(e).cells)
    <3>1. DOMAIN SerializedScalar(e).cells \subseteq Nat
      <4>1. ScalarBytes(e) <= MAX_SIZE
        <5> HIDE DEF e
        <5> QED BY <2>5, <2>6 DEF MAX_SIZE
      <4>2. IsRun(SerializedScalar(e))
        BY <2>1, <4>1, ScalarRun
      <4>3. DOMAIN SerializedScalar(e).cells \subseteq 0 .. SerializedScalar(e).sz - 1
        BY <4>2 DEF IsRun
      <4> QED BY <4>3
    <3>2. at + (8 + sum[n - 1]) = offs[n - 1] /\ 8 + sum[n - 1] \in Nat
      <4> DEFINE x == sum[n - 1]
      <4>1. offs[n - 1] = at + 8 + x /\ x \in Nat
        BY <2>3, <2>6
      <4> HIDE DEF x
      <4>2. at + (8 + x) = at + 8 + x /\ 8 + x \in Nat
        BY <4>1
      <4>3. at + (8 + x) = offs[n - 1]
        BY <4>1, <4>2
      <4> QED BY <4>2, <4>3 DEF x
    <3>3. Agree(cells, at + (8 + sum[n - 1]), SerializedScalar(e).cells)
      BY <2>4, <3>1, <3>2, AgreeWithin DEF v
    <3> QED BY <3>2, <3>3
  <2> HIDE DEF e
  <2>8. ReadScalar(e, cells, offs[n - 1]) = Got(ScalarValue(e), offs[n - 1] + ScalarBytes(e))
    BY <2>1, <2>6, <2>7, ScalarRead
  <2> QED BY <1>5, <2>6, <2>8 DEF e
<1> DEFINE Step(f) == f = [n \in 0 .. m |-> IF n = 0 THEN Got(<<>>, U16(at + 8))
                            ELSE GotMore(f[n - 1], ReadScalar(a.elements[n], cells, f[n - 1].next))]
           got == CHOOSE f : Step(f)
<1>7. \E f : Step(f)
  <2> HIDE DEF m
  <2>1. PICK f : GotBy(f, m, vals, offs)
    BY <1>1, GotExists
  <2>3. ASSUME NEW n \in 0 .. m
        PROVE f[n] = IF n = 0 THEN Got(<<>>, U16(at + 8))
                     ELSE GotMore(f[n - 1], ReadScalar(a.elements[n], cells, f[n - 1].next))
    <3>1. CASE n = 0
      BY <1>4, <2>1, <3>1 DEF GotBy
    <3>2. CASE n # 0
      <4>1. n \in 1 .. m
        BY <1>1, <3>2
      <4> QED BY <1>6, <2>1, <3>2, <4>1 DEF GotBy
    <3> QED BY <3>1, <3>2
  <2> QED BY <2>1, <2>3 DEF GotBy
<1>8. Step(got)
  BY <1>7
<1> HIDE DEF got
<1>9. got[m] = Got(vals, at + ArgBytes(a))
  <2> HIDE DEF m
  <2>1. \A n \in 0 .. m : got[n] = IF n = 0 THEN Got(<<>>, U16(at + 8))
                     ELSE GotMore(got[n - 1], ReadScalar(a.elements[n], cells, got[n - 1].next))
    BY <1>8
  <2>2. got[0] = Got(<<>>, offs[0])
    <3>1. 0 \in 0 .. m
      BY <1>1
    <3> QED BY <1>4, <2>1, <3>1
  <2>3. ASSUME NEW n \in 1 .. m, got[n - 1] = Got(First(vals, n - 1), offs[n - 1])
        PROVE  got[n] = GotMore(got[n - 1], Got(vals[n], offs[n]))
    <3>1. got[n - 1].next = offs[n - 1]
      BY <2>3 DEF Got
    <3>2. n \in 0 .. m /\ n # 0
      OBVIOUS
    <3> QED BY <1>6, <2>1, <3>1, <3>2
  <2>4. got[m] = Got(First(vals, m), offs[m])
    <3>1. GotOn(got, m, vals, offs)
      BY <2>2, <2>3 DEF GotOn
    <3> QED BY <1>1, <3>1, GotAll
  <2> QED BY <1>4, <1>5, <2>4
<1>10. ReadVector(a, cells, at) = IF m = 0 \/ m > MAX_SIZE \div a.size THEN Got(<<>>, U16(at + 8)) ELSE got[m]
  BY <1>3 DEF ReadVector, got, VECTOR_HEADER_SIZE
<1>11. ~ (m > MAX_SIZE \div a.size)
  BY VectorLength
<1>12. m = 0 => Got(<<>>, U16(at + 8)) = got[m]
  <2>1. 0 \in 0 .. m
    BY <1>1
  <2> QED BY <1>8, <2>1
<1> QED BY <1>9, <1>10, <1>11, <1>5, <1>12

-----------------------------------------------------------------------------
(* Arguments, one behind the other *)

LEMMA ArgBytesNat == ASSUME NEW a, IsScalar(a) \/ IsVector(a) PROVE ArgBytes(a) \in Nat
<1>1. CASE a.kind = "vector"
  BY <1>1, VectorBytes DEF IsScalar
<1>2. CASE a.kind # "vector"
  BY <1>2, ScalarSize DEF IsVector, ArgBytes
<1> QED BY <1>1, <1>2

LEMMA ArgRun ==
    ASSUME NEW a, IsScalar(a) \/ IsVector(a), ArgBytes(a) <= MAX_SIZE
    PROVE  IsRun(Serialized(a)) /\ Serialized(a).sz = ArgBytes(a)
<1>1. CASE a.kind = "vector"
  <2>1. IsVector(a) /\ Serialized(a) = SerializedVector(a)
    BY <1>1 DEF IsScalar, Serialized
  <2> QED BY <2>1, VectorRun
<1>2. CASE a.kind # "vector"
  BY <1>2, ScalarRun DEF IsVector, ArgBytes, Serialized
<1> QED BY <1>1, <1>2

\* All strings of an argument are short enough.
ShortArg(a) ==
    IF a.kind = "vector" THEN \A m \in DOMAIN a.elements : IsShort(a.elements[m]) ELSE IsShort(a)

LEMMA ArgRead ==
    ASSUME NEW a, IsScalar(a) \/ IsVector(a), ShortArg(a), ArgBytes(a) <= ReadableSize,
           NEW cells, NEW at \in Nat, at + ArgBytes(a) <= MAX_SIZE,
           Agree(cells, at, Serialized(a).cells)
    PROVE  ReadArg(a, cells, at) = Got(ValueOf(a), at + ArgBytes(a))
<1>1. CASE a.kind = "vector"
  <2>1. IsVector(a) /\ Serialized(a) = SerializedVector(a)
    BY <1>1 DEF IsScalar, Serialized
  <2>2. ReadArg(a, cells, at) = ReadVector(a, cells, at)
    BY <1>1 DEF ReadArg
  <2>3. \A n \in DOMAIN a.elements : IsShort(a.elements[n])
    BY <1>1 DEF ShortArg
  <2> QED BY <2>1, <2>2, <2>3, VectorRead
<1>2. CASE a.kind # "vector"
  <2>1. IsScalar(a) /\ Serialized(a) = SerializedScalar(a) /\ ArgBytes(a) = ScalarBytes(a)
        /\ ValueOf(a) = ScalarValue(a) /\ IsShort(a)
    BY <1>2 DEF IsVector, Serialized, ArgBytes, ValueOf, ShortArg
  <2>2. ReadArg(a, cells, at) = ReadScalar(a, cells, at)
    BY <1>2 DEF ReadArg
  <2> QED BY <2>1, <2>2, ScalarRead
<1> QED BY <1>1, <1>2

LEMMA ArgsBytes ==
    ASSUME NEW args, IsArgs(args)
    PROVE  /\ WrittenBytes(args) \in Nat /\ Len(args) \in Nat /\ DOMAIN args = 1 .. Len(args)
           /\ [n \in DOMAIN args |-> ArgBytes(args[n])] \in Seq(Nat)
<1> DEFINE S == {args[n] : n \in DOMAIN args}
           sizes == [n \in DOMAIN args |-> ArgBytes(args[n])]
<1>1. Len(args) \in Nat /\ DOMAIN args = 1 .. Len(args)
  <2>1. args \in Seq(S)
    BY DEF IsArgs
  <2> HIDE DEF S
  <2> QED BY <2>1
<1>2. sizes \in Seq(Nat)
  <2>1. \A n \in DOMAIN args : ArgBytes(args[n]) \in Nat
    BY ArgBytesNat DEF IsArgs
  <2> QED BY <1>1, <2>1
<1>3. WrittenBytes(args) = Total(sizes)
  BY DEF WrittenBytes
<1>4. Total(sizes) \in Nat
  <2> HIDE DEF sizes
  <2>1. \A n \in 1 .. Len(sizes) : sizes[n] <= sizes[n]
    BY <1>2
  <2> QED BY <1>2, <2>1, TotalMonotone
<1> QED BY <1>1, <1>2, <1>3, <1>4

\* sum[n] are the bytes of the first n arguments.
LEMMA TupleRun ==
    ASSUME NEW args, IsArgs(args), WrittenBytes(args) <= MAX_SIZE
    PROVE  LET t == SerializedTuple(args)
               m == Len(args)
           IN  /\ IsRun(t) /\ t.sz = WrittenBytes(args)
               /\ \E sum \in [0 .. m -> Nat] :
                    /\ sum[0] = 0 /\ sum[m] = WrittenBytes(args)
                    /\ \A n \in 1 .. m :
                        /\ sum[n] = sum[n - 1] + ArgBytes(args[n]) /\ sum[n] <= sum[m]
                        /\ IsRun(Serialized(args[n]))
                        /\ Agree(t.cells, sum[n - 1], Serialized(args[n]).cells)
<1> DEFINE m == Len(args)
           t == SerializedTuple(args)
           runs == [n \in DOMAIN args |-> Serialized(args[n])]
           sizes == [n \in DOMAIN args |-> ArgBytes(args[n])]
           R == {Serialized(args[n]) : n \in DOMAIN args}
<1>1. m \in Nat /\ DOMAIN args = 1 .. m /\ sizes \in Seq(Nat) /\ WrittenBytes(args) \in Nat
  BY ArgsBytes
<1>2. \A n \in 1 .. m : IsScalar(args[n]) \/ IsVector(args[n])
  BY <1>1 DEF IsArgs
<1>3. runs \in Seq(R) /\ Len(runs) = m /\ Len(sizes) = m
  BY <1>1
<1>5. \A n \in 1 .. m : runs[n] = Serialized(args[n]) /\ sizes[n] = ArgBytes(args[n])
  BY <1>1
<1>6. WrittenBytes(args) = Total(sizes) /\ t = Joined(runs)
  BY DEF WrittenBytes, SerializedTuple
<1> HIDE DEF runs, sizes, R, m, t
<1>9. \A n \in 1 .. Len(runs) : sizes[n] <= MAX_SIZE => IsRun(runs[n]) /\ runs[n].sz = sizes[n]
  BY <1>2, <1>3, <1>5, ArgRun
<1>10. PICK sum \in [0 .. Len(sizes) -> Nat] :
           /\ Sums(sum, sizes) /\ sum[Len(sizes)] = Total(sizes)
           /\ IsRun(Joined(runs)) /\ Joined(runs).sz = Total(sizes)
           /\ \A n \in 1 .. Len(sizes) : sizes[n] <= Total(sizes)
           /\ \A n \in 1 .. Len(runs) : Agree(Joined(runs).cells, sum[n - 1], runs[n].cells)
  BY <1>1, <1>3, <1>6, <1>9, RunsTogether
<1>12. ASSUME NEW n \in 1 .. m
       PROVE  /\ sum[n] = sum[n - 1] + ArgBytes(args[n]) /\ sum[n] <= sum[m]
              /\ IsRun(Serialized(args[n]))
              /\ Agree(t.cells, sum[n - 1], Serialized(args[n]).cells)
  <2>1. sum[n - 1] + sizes[n] = sum[n] /\ sum[n] <= sum[m]
    BY <1>1, <1>3, <1>10, SumsGrow
  <2>2. sizes[n] \in Nat /\ sizes[n] <= WrittenBytes(args)
    BY <1>1, <1>3, <1>6, <1>10
  <2>3. IsRun(runs[n])
    BY <1>1, <1>3, <1>9, <2>2 DEF MAX_SIZE
  <2>4. Agree(t.cells, sum[n - 1], runs[n].cells)
    BY <1>3, <1>6, <1>10
  <2> QED BY <1>5, <2>1, <2>3, <2>4
<1>14. sum[0] = 0 /\ sum[m] = WrittenBytes(args) /\ sum \in [0 .. m -> Nat]
  BY <1>3, <1>6, <1>10 DEF Sums
<1>15. IsRun(t) /\ t.sz = WrittenBytes(args)
  BY <1>6, <1>10
<1> QED BY <1>12, <1>14, <1>15 DEF t, m

\* Arguments are read as they were written.
LEMMA TupleRead ==
    ASSUME NEW args, IsArgs(args), Short(args), WrittenBytes(args) <= ReadableSize,
           NEW cells, NEW at \in Nat, at + WrittenBytes(args) <= MAX_SIZE,
           Agree(cells, at, SerializedTuple(args).cells)
    PROVE  ReadTuple(args, cells, at) = Values(args)
<1> DEFINE m == Len(args)
           t == SerializedTuple(args)
<1>0. WrittenBytes(args) \in Nat /\ WrittenBytes(args) <= MAX_SIZE /\ m \in Nat
      /\ DOMAIN args = 1 .. m
  <2>1. WrittenBytes(args) \in Nat
    BY ArgsBytes
  <2> QED BY <2>1, ArgsBytes DEF MAX_SIZE
<1>2. PICK sum \in [0 .. m -> Nat] :
          /\ sum[0] = 0 /\ sum[m] = WrittenBytes(args)
          /\ \A n \in 1 .. m :
              /\ sum[n] = sum[n - 1] + ArgBytes(args[n]) /\ sum[n] <= sum[m]
              /\ IsRun(Serialized(args[n]))
              /\ Agree(t.cells, sum[n - 1], Serialized(args[n]).cells)
  BY <1>0, TupleRun
<1> HIDE DEF t
<1>13. PICK offs : \A n \in 0 .. m : offs[n] = at + sum[n]
  <2> DEFINE f == [n \in 0 .. m |-> at + sum[n]]
  <2>1. \A n \in 0 .. m : f[n] = at + sum[n]
    OBVIOUS
  <2> HIDE DEF f
  <2> QED BY <2>1
<1>4. offs[0] = at
  <2>1. 0 \in 0 .. m /\ sum[0] = 0
    BY <1>0, <1>2
  <2>2. offs[0] = at + sum[0]
    BY <1>13, <2>1
  <2> HIDE DEF m
  <2> QED BY <2>1, <2>2
<1>5. PICK vals : /\ vals = Values(args) /\ vals = First(vals, m)
                  /\ \A n \in 1 .. m : vals[n] = ValueOf(args[n])
  <2>1. /\ Values(args) = First(Values(args), m)
        /\ \A n \in 1 .. m : Values(args)[n] = ValueOf(args[n])
    BY <1>0 DEF Values, First
  <2> QED BY <2>1
<1>6. ASSUME NEW n \in 1 .. m
      PROVE  ReadArg(args[n], cells, offs[n - 1]) = Got(vals[n], offs[n])
  <2> DEFINE e == args[n]
  <2>1. (IsScalar(e) \/ IsVector(e)) /\ ShortArg(e)
    BY <1>0 DEF IsArgs, Short, ShortArg
  <2>2. n - 1 \in 0 .. m /\ n \in 0 .. m /\ m \in 0 .. m
    BY <1>0
  <2>3. sum[n - 1] \in Nat /\ sum[n] \in Nat /\ sum[m] \in Nat
    <3>1. \A o \in 0 .. m : sum[o] \in Nat
      BY <1>2
    <3> QED BY <2>2, <3>1
  <2>4. sum[n] = sum[n - 1] + ArgBytes(e) /\ sum[n] <= sum[m] /\ IsRun(Serialized(e))
        /\ Agree(t.cells, sum[n - 1], Serialized(e).cells)
    BY <1>2
  <2>5. ArgBytes(e) \in Nat
    BY <2>1, ArgBytesNat
  <2>6. offs[n - 1] = at + sum[n - 1] /\ offs[n] = offs[n - 1] + ArgBytes(e)
        /\ offs[n - 1] \in Nat /\ offs[n - 1] + ArgBytes(e) <= MAX_SIZE /\ ArgBytes(e) <= ReadableSize
    <3>1. offs[n - 1] = at + sum[n - 1] /\ offs[n] = at + sum[n]
      BY <1>13, <2>2
    <3>2. sum[m] = WrittenBytes(args) /\ sum[n] = sum[n - 1] + ArgBytes(e) /\ sum[n] <= sum[m]
      BY <1>2, <2>4
    <3>3. /\ sum[n - 1] \in Nat /\ ArgBytes(e) \in Nat /\ sum[m] \in Nat /\ sum[n] \in Nat
          /\ at + sum[m] <= MAX_SIZE /\ sum[m] <= ReadableSize
      BY <2>3, <2>5, <3>2
    <3> HIDE DEF e, m
    <3>4. offs[n] = offs[n - 1] + ArgBytes(e) /\ offs[n - 1] \in Nat
      BY <3>1, <3>2, <3>3
    <3>5. at + sum[n - 1] + ArgBytes(e) <= at + sum[m] /\ ArgBytes(e) <= sum[m]
      BY <3>2, <3>3
    <3> QED BY <3>1, <3>3, <3>4, <3>5 DEF MAX_SIZE, ReadableSize, STRING_HEADER_SIZE, StringObjectSize
  <2>7. Agree(cells, offs[n - 1], Serialized(e).cells)
    <3>1. DOMAIN Serialized(e).cells \subseteq Nat
      <4>3. DOMAIN Serialized(e).cells \subseteq 0 .. Serialized(e).sz - 1
        BY <2>4 DEF IsRun
      <4> QED BY <4>3
    <3>3. Agree(cells, at + sum[n - 1], Serialized(e).cells)
      BY <2>3, <2>4, <3>1, AgreeWithin DEF t
    <3> QED BY <2>6, <3>3
  <2> HIDE DEF e
  <2>8. ReadArg(e, cells, offs[n - 1]) = Got(ValueOf(e), offs[n - 1] + ArgBytes(e))
    BY <2>1, <2>6, <2>7, ArgRead
  <2> QED BY <1>5, <2>6, <2>8 DEF e
<1> DEFINE Step(f) == f = [n \in 0 .. m |-> IF n = 0 THEN Got(<<>>, at)
                            ELSE GotMore(f[n - 1], ReadArg(args[n], cells, f[n - 1].next))]
           got == CHOOSE f : Step(f)
<1>7. \E f : Step(f)
  <2> HIDE DEF m
  <2>1. PICK f : GotBy(f, m, vals, offs)
    BY <1>0, GotExists
  <2>3. ASSUME NEW n \in 0 .. m
        PROVE f[n] = IF n = 0 THEN Got(<<>>, at)
                     ELSE GotMore(f[n - 1], ReadArg(args[n], cells, f[n - 1].next))
    <3>1. CASE n = 0
      BY <1>4, <2>1, <3>1 DEF GotBy
    <3>2. CASE n # 0
      <4>1. n \in 1 .. m
        BY <1>0, <3>2
      <4> QED BY <1>6, <2>1, <3>2, <4>1 DEF GotBy
    <3> QED BY <3>1, <3>2
  <2> QED BY <2>1, <2>3 DEF GotBy
<1>8. Step(got)
  BY <1>7
<1> HIDE DEF got
<1>9. got[m] = Got(vals, offs[m])
  <2> HIDE DEF m
  <2>1. \A n \in 0 .. m : got[n] = IF n = 0 THEN Got(<<>>, at)
                     ELSE GotMore(got[n - 1], ReadArg(args[n], cells, got[n - 1].next))
    BY <1>8
  <2>2. got[0] = Got(<<>>, offs[0])
    <3>1. 0 \in 0 .. m
      BY <1>0
    <3> QED BY <1>4, <2>1, <3>1
  <2>3. ASSUME NEW n \in 1 .. m, got[n - 1] = Got(First(vals, n - 1), offs[n - 1])
        PROVE  got[n] = GotMore(got[n - 1], Got(vals[n], offs[n]))
    <3>1. got[n - 1].next = offs[n - 1]
      BY <2>3 DEF Got
    <3>2. n \in 0 .. m /\ n # 0
      OBVIOUS
    <3> QED BY <1>6, <2>1, <3>1, <3>2
  <2>4. got[m] = Got(First(vals, m), offs[m])
    <3>1. GotOn(got, m, vals, offs)
      BY <2>2, <2>3 DEF GotOn
    <3> QED BY <1>0, <3>1, GotAll
  <2> QED BY <1>5, <2>4
<1>10. ReadTuple(args, cells, at) = got[m].value
  BY DEF ReadTuple, got
<1> QED BY <1>5, <1>9, <1>10 DEF Got

-----------------------------------------------------------------------------
(* Frames *)

\* The calls that are not refused.
Accepted == {c \in Calls : validateCall(c)}

\* The bytes of a frame.
FrameSize(c) == HEAD_SZ + LEN_SZ + WrittenBytes(ArgsOf[c])

\* What the sizes of frames are worth, whatever they are exactly.
LEMMA Sizes ==
    /\ MAX_CALL_SZ \in Nat /\ MAX_CALL_SZ <= ReadableSize /\ ReadableSize \in Nat
    /\ ReadableSize <= MAX_SIZE /\ HEAD_SZ = 14 /\ LEN_SZ = 2
<1>1. ReadableSize = 8 * 2047
  <2>1. 65535 \div 32 = 2047
    OBVIOUS
  <2> QED BY <2>1 DEF ReadableSize, STRING_HEADER_SIZE, StringObjectSize, MAX_SIZE
<1>2. HEAD_SZ = 14 /\ LEN_SZ = 2
  BY DEF HEAD_SZ, LEN_SZ
<1>3. MAX_CALL_SZ \in 16 .. ReadableSize
  BY <1>2, CallFramingAssumption
<1> QED BY <1>1, <1>2, <1>3 DEF MAX_SIZE

\* A frame: its call, the size of the arguments, the arguments.
LEMMA FrameRun ==
    ASSUME NEW c \in Accepted
    PROVE  LET f == Frame(c)
               args == SerializedTuple(ArgsOf[c])
           IN  /\ IsRun(f) /\ f.sz = FrameSize(c) /\ FrameSize(c) \in 16 .. MAX_CALL_SZ
               /\ 0 \in DOMAIN f.cells /\ f.cells[0] = c
               /\ 14 \in DOMAIN f.cells /\ f.cells[14] = FrameSize(c) - 16
               /\ IsRun(args) /\ args.sz = FrameSize(c) - 16 /\ Agree(f.cells, 16, args.cells)
<1> DEFINE args == SerializedTuple(ArgsOf[c])
           w == WrittenBytes(ArgsOf[c])
           head == Bytes(Cell(c), 14)
           length == Bytes(Cell(args.sz), 2)
           first == Behind(head, length)
           f == Frame(c)
<1>1. IsArgs(ArgsOf[c]) /\ 16 + w <= MAX_CALL_SZ /\ w \in Nat
  <2>1. IsArgs(ArgsOf[c]) /\ HEAD_SZ + LEN_SZ + w <= MAX_CALL_SZ
    BY CallFramingAssumption DEF Accepted
  <2>2. w \in Nat
    BY <2>1, ArgsBytes
  <2> HIDE DEF w
  <2> QED BY <2>1, <2>2, Sizes
<1>2. w <= MAX_SIZE /\ 16 + w <= MAX_SIZE
  <2> HIDE DEF w
  <2> QED BY <1>1, Sizes DEF MAX_SIZE
<1>3. IsRun(args) /\ args.sz = w
  BY <1>1, <1>2, TupleRun
<1>4. f = Behind(first, args) /\ FrameSize(c) = 16 + w
  <2>1. f = Behind(first, args)
    BY DEF Frame, HEAD_SZ, LEN_SZ
  <2>2. FrameSize(c) = 16 + w
    <3>1. FrameSize(c) = HEAD_SZ + LEN_SZ + w
      BY DEF FrameSize
    <3> HIDE DEF w
    <3> QED BY <1>1, <3>1, Sizes
  <2> QED BY <2>1, <2>2
<1> HIDE DEF args, w, f
<1>5. IsRun(length) /\ length.sz = 2 /\ length.cells = Cell(args.sz) /\ DOMAIN Cell(args.sz) = {0}
      /\ Cell(args.sz)[0] = args.sz
  BY OneCell
<1>6. /\ IsRun(first) /\ first.sz = 16 /\ 0 \in DOMAIN first.cells /\ first.cells[0] = c
      /\ Agree(first.cells, 14, Cell(args.sz))
  <2>1. 14 + length.sz <= MAX_SIZE /\ 14 + length.sz = 16
    BY <1>5 DEF MAX_SIZE
  <2> HIDE DEF length
  <2> QED BY <1>5, <2>1, Headed
<1>7. 14 \in DOMAIN first.cells /\ first.cells[14] = args.sz
  <2>1. 14 + 0 \in DOMAIN first.cells /\ first.cells[14 + 0] = args.sz
    BY <1>5, <1>6 DEF Agree
  <2> QED BY <2>1
<1> HIDE DEF head, length, first
<1>8. /\ IsRun(f) /\ f.sz = 16 + w /\ Agree(f.cells, 0, first.cells) /\ Agree(f.cells, 16, args.cells)
  <2>1. first.sz + args.sz <= MAX_SIZE
    BY <1>2, <1>3, <1>6
  <2> QED BY <1>3, <1>4, <1>6, <2>1, BehindRun
<1>9. /\ 0 + 0 \in DOMAIN f.cells /\ f.cells[0 + 0] = c
      /\ 0 + 14 \in DOMAIN f.cells /\ f.cells[0 + 14] = w
  BY <1>3, <1>6, <1>7, <1>8 DEF Agree
<1>10. FrameSize(c) \in 16 .. MAX_CALL_SZ /\ FrameSize(c) - 16 = w
  BY <1>1, <1>4, Sizes
<1> QED BY <1>3, <1>4, <1>8, <1>9, <1>10 DEF args, f

\* From `from' to `to' lie the frames of b, one behind the other.
Laid(cells, from, to, b) ==
    \E at \in [1 .. Len(b) + 1 -> Nat] :
        /\ at[1] = from /\ at[Len(b) + 1] = to
        /\ \A n \in 1 .. Len(b) : /\ at[n + 1] = at[n] + FrameSize(b[n])
                                  /\ Agree(cells, at[n], Frame(b[n]).cells)

\* No frame lies between a place and itself.
LEMMA LaidNone ==
    ASSUME NEW cells, NEW from \in Nat
    PROVE  Laid(cells, from, from, <<>>)
<1> DEFINE at == [n \in 1 .. 1 |-> from]
<1>1. at \in [1 .. 1 -> Nat] /\ at[1] = from
  OBVIOUS
<1> HIDE DEF at
<1>2. Len(<<>>) = 0 /\ 0 + 1 = 1 /\ 1 .. 0 = {}
  OBVIOUS
<1> QED BY <1>1, <1>2 DEF Laid

LEMMA LaidGrows ==
    ASSUME NEW cells, NEW from, NEW to, NEW b \in Seq(Accepted), Laid(cells, from, to, b)
    PROVE  from \in Nat /\ to \in Nat /\ from <= to
<1> DEFINE m == Len(b)
<1>1. PICK at \in [1 .. m + 1 -> Nat] :
          at[1] = from /\ at[m + 1] = to /\ \A n \in 1 .. m : at[n + 1] = at[n] + FrameSize(b[n])
  BY DEF Laid
<1>2. m \in Nat
  OBVIOUS
<1>3. \A n \in 1 .. m : FrameSize(b[n]) \in Nat
  <2> SUFFICES ASSUME NEW n \in 1 .. m PROVE FrameSize(b[n]) \in Nat
    OBVIOUS
  <2>1. b[n] \in Accepted
    OBVIOUS
  <2>2. FrameSize(b[n]) \in 16 .. MAX_CALL_SZ
    BY <2>1, FrameRun
  <2> QED BY <2>2, Sizes
<1> HIDE DEF m
<1>4. \A n \in 1 .. m + 1 : at[n] \in Nat
  BY <1>1
<1> DEFINE T == {n \in 0 .. m : from <= at[n + 1]}
<1>5. 0 \in T
  <2>1. 0 + 1 = 1 /\ 1 \in 1 .. m + 1 /\ 0 \in 0 .. m
    BY <1>2
  <2>2. at[1] \in Nat
    BY <1>4, <2>1
  <2> QED BY <1>1, <2>1, <2>2
<1>6. ASSUME NEW n \in 1 .. m, n - 1 \in T PROVE n \in T
  <2>1. (n - 1) + 1 = n /\ n \in 0 .. m /\ n \in 1 .. m + 1 /\ n + 1 \in 1 .. m + 1 /\ 1 \in 1 .. m + 1
    BY <1>2
  <2>2. from <= at[n]
    BY <1>6, <2>1
  <2>3. at[n + 1] = at[n] + FrameSize(b[n]) /\ at[n] \in Nat /\ FrameSize(b[n]) \in Nat
    BY <1>1, <1>3, <1>4, <2>1
  <2>4. from \in Nat
    BY <1>1, <1>4, <2>1
  <2>5. from <= at[n + 1]
    BY <2>2, <2>3, <2>4
  <2> QED BY <2>1, <2>5
<1> HIDE DEF T
<1>7. m \in 0 .. m /\ 1 \in 1 .. m + 1 /\ m + 1 \in 1 .. m + 1
  BY <1>2
<1>8. m \in T
  BY <1>2, <1>5, <1>6, <1>7, Induct
<1> QED BY <1>1, <1>4, <1>7, <1>8 DEF T

\* The first frame, and those behind it.
LEMMA LaidFirst ==
    ASSUME NEW cells, NEW from, NEW to, NEW b \in Seq(Accepted), b # <<>>, Laid(cells, from, to, b)
    PROVE  /\ from \in Nat /\ to \in Nat /\ FrameSize(Head(b)) \in Nat
           /\ from + FrameSize(Head(b)) <= to
           /\ Agree(cells, from, Frame(Head(b)).cells)
           /\ Laid(cells, from + FrameSize(Head(b)), to, Tail(b))
<1> DEFINE m == Len(b)
           c == Head(b)
           t == Tail(b)
<1>1. PICK at \in [1 .. m + 1 -> Nat] :
          /\ at[1] = from /\ at[m + 1] = to
          /\ \A n \in 1 .. m : at[n + 1] = at[n] + FrameSize(b[n]) /\ Agree(cells, at[n], Frame(b[n]).cells)
  BY DEF Laid
<1>2. m \in Nat \ {0} /\ c = b[1] /\ c \in Accepted /\ t \in Seq(Accepted) /\ Len(t) = m - 1
      /\ \A n \in 1 .. m - 1 : t[n] = b[n + 1]
  OBVIOUS
<1> HIDE DEF m, c, t
<1>3. FrameSize(c) \in Nat
  <2>1. FrameSize(c) \in 16 .. MAX_CALL_SZ
    BY <1>2, FrameRun
  <2> QED BY <2>1, Sizes
<1>4. 1 \in 1 .. m /\ 1 \in 1 .. m + 1 /\ 2 \in 1 .. m + 1 /\ 1 + 1 = 2 /\ m + 1 \in 1 .. m + 1
  BY <1>2
<1>5. at[2] = from + FrameSize(c) /\ Agree(cells, from, Frame(c).cells) /\ at[2] \in Nat
      /\ from \in Nat /\ to \in Nat
  <2>1. at[1 + 1] = at[1] + FrameSize(b[1]) /\ Agree(cells, at[1], Frame(b[1]).cells)
    BY <1>1, <1>4
  <2>2. at[1] \in Nat /\ at[2] \in Nat /\ at[m + 1] \in Nat
    BY <1>1, <1>4
  <2> QED BY <1>1, <1>2, <1>4, <2>1, <2>2
<1>6. Laid(cells, at[2], to, t)
  <2> DEFINE next == [n \in 1 .. m |-> at[n + 1]]
  <2>1. next \in [1 .. m -> Nat] /\ \A n \in 1 .. m : next[n] = at[n + 1]
    <3>1. \A n \in 1 .. m : n + 1 \in 1 .. m + 1
      BY <1>2
    <3> QED BY <1>1, <3>1
  <2> HIDE DEF next
  <2>2. next[1] = at[2] /\ next[m] = to
    <3>1. m \in 1 .. m
      BY <1>2
    <3> QED BY <1>1, <1>4, <2>1, <3>1
  <2>3. ASSUME NEW n \in 1 .. m - 1
        PROVE  next[n + 1] = next[n] + FrameSize(t[n]) /\ Agree(cells, next[n], Frame(t[n]).cells)
    <3>1. n \in 1 .. m /\ n + 1 \in 1 .. m
      BY <1>2
    <3>2. next[n] = at[n + 1] /\ next[n + 1] = at[(n + 1) + 1] /\ t[n] = b[n + 1]
      BY <1>2, <2>1, <3>1
    <3> QED BY <1>1, <3>1, <3>2
  <2>4. (m - 1) + 1 = m
    BY <1>2
  <2> QED BY <1>2, <2>1, <2>2, <2>3, <2>4 DEF Laid
<1>7. at[2] <= to
  BY <1>2, <1>6, LaidGrows
<1> QED BY <1>3, <1>5, <1>6, <1>7 DEF c, t

\* One frame more.
LEMMA LaidMore ==
    ASSUME NEW f, NEW g, NEW from, NEW to, NEW b \in Seq(Accepted), Laid(f, from, to, b), Agree(g, 0, f),
           NEW c \in Accepted, Agree(g, to, Frame(c).cells)
    PROVE  Laid(g, from, to + FrameSize(c), Append(b, c))
<1> DEFINE m == Len(b)
           d == Append(b, c)
<1>1. PICK at \in [1 .. m + 1 -> Nat] :
          /\ at[1] = from /\ at[m + 1] = to
          /\ \A n \in 1 .. m : at[n + 1] = at[n] + FrameSize(b[n]) /\ Agree(f, at[n], Frame(b[n]).cells)
  BY DEF Laid
<1>2. m \in Nat /\ Len(d) = m + 1 /\ d[m + 1] = c /\ \A n \in 1 .. m : d[n] = b[n] /\ b[n] \in Accepted
  OBVIOUS
<1> HIDE DEF m, d
<1>3. FrameSize(c) \in Nat
  <2>1. FrameSize(c) \in 16 .. MAX_CALL_SZ
    BY FrameRun
  <2> QED BY <2>1, Sizes
<1>4. to \in Nat
  <2>1. m + 1 \in 1 .. m + 1
    BY <1>2
  <2> QED BY <1>1, <2>1
<1> DEFINE next == [n \in 1 .. m + 2 |-> IF n = m + 2 THEN to + FrameSize(c) ELSE at[n]]
<1>5. next \in [1 .. m + 2 -> Nat]
  <2>1. \A n \in 1 .. m + 2 : n = m + 2 \/ n \in 1 .. m + 1
    BY <1>2
  <2>2. \A n \in 1 .. m + 1 : at[n] \in Nat
    BY <1>1
  <2> QED BY <1>3, <1>4, <2>1, <2>2
<1>6. next[m + 2] = to + FrameSize(c) /\ \A n \in 1 .. m + 1 : next[n] = at[n]
  <2>1. m + 2 \in 1 .. m + 2 /\ \A n \in 1 .. m + 1 : n \in 1 .. m + 2 /\ n # m + 2
    BY <1>2
  <2> QED BY <2>1
<1> HIDE DEF next
<1>7. next[1] = from
  <2>1. 1 \in 1 .. m + 1
    BY <1>2
  <2> QED BY <1>1, <1>6, <2>1
<1>8. ASSUME NEW n \in 1 .. m + 1
      PROVE  next[n + 1] = next[n] + FrameSize(d[n]) /\ Agree(g, next[n], Frame(d[n]).cells)
  <2>1. CASE n = m + 1
    <3>1. n + 1 = m + 2 /\ n \in 1 .. m + 1
      BY <1>2, <2>1
    <3>2. next[n] = to /\ d[n] = c
      BY <1>1, <1>2, <1>6, <2>1, <3>1
    <3> QED BY <1>6, <3>1, <3>2
  <2>2. CASE n # m + 1
    <3>1. n \in 1 .. m /\ n + 1 \in 1 .. m + 1
      BY <1>2, <2>2
    <3>2. next[n] = at[n] /\ next[n + 1] = at[n + 1] /\ d[n] = b[n] /\ b[n] \in Accepted
      BY <1>2, <1>6, <3>1
    <3>3. Agree(f, at[n], Frame(b[n]).cells) /\ at[n] \in Nat
      BY <1>1, <3>1
    <3>4. DOMAIN Frame(b[n]).cells \subseteq Nat
      <4>1. IsRun(Frame(b[n]))
        BY <3>2, FrameRun
      <4>2. DOMAIN Frame(b[n]).cells \subseteq 0 .. Frame(b[n]).sz - 1
        BY <4>1 DEF IsRun
      <4> QED BY <4>2
    <3>5. Agree(g, 0 + at[n], Frame(b[n]).cells) /\ 0 + at[n] = at[n]
      BY <3>3, <3>4, AgreeWithin
    <3> QED BY <1>1, <3>1, <3>2, <3>5
  <2> QED BY <2>1, <2>2
<1>9. (m + 1) + 1 = m + 2
  BY <1>2
<1>10. /\ next \in [1 .. Len(d) + 1 -> Nat]
       /\ next[1] = from /\ next[Len(d) + 1] = to + FrameSize(c)
       /\ \A n \in 1 .. Len(d) : /\ next[n + 1] = next[n] + FrameSize(d[n])
                                 /\ Agree(g, next[n], Frame(d[n]).cells)
  BY <1>2, <1>5, <1>6, <1>7, <1>8, <1>9
<1>11. Laid(g, from, to + FrameSize(c), d)
  BY <1>10 DEF Laid
<1> QED BY <1>11 DEF d

-----------------------------------------------------------------------------
(* The answer *)

\* Of what is read, the shape says only of which kind it is.
LEMMA StringRead ==
    ASSUME NEW a, a.kind = "string", NEW cells, NEW at
    PROVE  ReadScalar(Str(0, ""), cells, at) = ReadScalar(a, cells, at)
BY DEF ReadScalar, Str

LEMMA ErrorRead ==
    ASSUME NEW c \in Calls, ReplyOf[c].code # NoError, IsShort(ReplyOf[c].message)
    PROVE  Answered(ErrorBytes(ReplyOf[c]).cells, ReplyOf[c].args)
                = [code |-> ReplyOf[c].code, message |-> ScalarValue(ReplyOf[c].message)]
<1> DEFINE r == ReplyOf[c]
           a == r.message
           head == Bytes(Cell(r.code), 2)
           e == ErrorBytes(r)
<1>1. a.kind = "string" /\ IsScalar(a) /\ 2 + ScalarBytes(a) <= MAX_CALL_SZ
  BY CallFramingAssumption
<1>2. ScalarBytes(a) \in Nat
  BY <1>1, ScalarSize
<1>3. 2 + ScalarBytes(a) <= MAX_SIZE /\ ScalarBytes(a) <= MAX_SIZE
  <2> HIDE DEF a
  <2> QED BY <1>1, <1>2, Sizes DEF MAX_SIZE
<1>4. e = Behind(head, SerializedScalar(a))
  BY <1>1 DEF ErrorBytes, Serialized
<1>5. IsRun(SerializedScalar(a)) /\ SerializedScalar(a).sz = ScalarBytes(a)
  BY <1>1, <1>3, ScalarRun
<1> HIDE DEF a, e
<1>6. e.cells[0] = r.code /\ Agree(e.cells, 2, SerializedScalar(a).cells)
  <2>1. 2 + SerializedScalar(a).sz <= MAX_SIZE
    BY <1>3, <1>5
  <2> QED BY <1>4, <1>5, <2>1, Headed
<1>7. ReadScalar(a, e.cells, 2) = Got(ScalarValue(a), 2 + ScalarBytes(a))
  BY <1>1, <1>3, <1>6, ScalarRead DEF a
<1>8. ReadScalar(Str(0, ""), e.cells, 2).value = ScalarValue(a)
  <2>1. ReadScalar(Str(0, ""), e.cells, 2) = ReadScalar(a, e.cells, 2)
    BY <1>1, StringRead
  <2>2. \A v, o : Got(v, o).value = v
    BY DEF Got
  <2> QED BY <1>7, <2>1, <2>2
<1>9. Answered(e.cells, r.args) = [code |-> r.code, message |-> ScalarValue(a)]
  BY <1>6, <1>8 DEF Answered
<1> QED BY <1>9 DEF a, e

LEMMA SuccessRead ==
    ASSUME NEW c \in Calls, ReplyOf[c].code = NoError, Short(ReplyOf[c].args)
    PROVE  Answered(SuccessBytes(ReplyOf[c]).cells, ReplyOf[c].args)
                = [code |-> NoError, args |-> Values(ReplyOf[c].args)]
<1> DEFINE r == ReplyOf[c]
           args == SerializedTuple(r.args)
           w == WrittenBytes(r.args)
           head == Bytes(Cell(r.code), 2)
           length == Bytes(Cell(args.sz), 2)
           first == Behind(head, length)
           e == SuccessBytes(r)
<1>1. IsArgs(r.args) /\ 4 + w <= MAX_CALL_SZ /\ w \in Nat
  <2>1. IsArgs(r.args) /\ 4 + w <= MAX_CALL_SZ
    BY CallFramingAssumption
  <2> QED BY <2>1, ArgsBytes
<1>2. w <= MAX_SIZE /\ 4 + w <= MAX_SIZE /\ w <= ReadableSize
  <2> HIDE DEF w
  <2> QED BY <1>1, Sizes DEF MAX_SIZE
<1>3. IsRun(args) /\ args.sz = w
  BY <1>1, <1>2, TupleRun
<1>4. e = Behind(first, args)
  BY DEF SuccessBytes
<1> HIDE DEF args, e, w
<1>5. IsRun(length) /\ length.sz = 2
  BY OneCell
<1>6. IsRun(first) /\ first.sz = 4 /\ 0 \in DOMAIN first.cells /\ first.cells[0] = r.code
  <2>1. 2 + length.sz <= MAX_SIZE /\ 2 + length.sz = 4
    BY <1>5 DEF MAX_SIZE
  <2> HIDE DEF length
  <2> QED BY <1>5, <2>1, Headed
<1> HIDE DEF head, length, first
<1>7. Agree(e.cells, 0, first.cells) /\ Agree(e.cells, 4, args.cells)
  <2>1. first.sz + args.sz <= MAX_SIZE
    BY <1>2, <1>3, <1>6
  <2> QED BY <1>3, <1>4, <1>6, <2>1, BehindRun
<1>8. e.cells[0] = NoError
  <2>1. e.cells[0 + 0] = r.code
    BY <1>6, <1>7 DEF Agree
  <2> QED BY <2>1
<1>9. ReadTuple(r.args, e.cells, 4) = Values(r.args)
  BY <1>1, <1>2, <1>7, TupleRead DEF args, w
<1>10. Answered(e.cells, r.args) = [code |-> NoError, args |-> Values(r.args)]
  BY <1>8, <1>9 DEF Answered
<1> QED BY <1>10 DEF e

-----------------------------------------------------------------------------
(* Properties of the specification *)

\* In a slot lies the whole answer to the slot's call.
SlotsHoldAnswers == \A c \in Calls : slot[c] \in {NoSlot, ReplyBytes(ReplyOf[c]).cells}

\* The inductive invariant of the answers: slots and callbacks.
AnswerInv ==
    /\ slot = [c \in Calls |-> slot[c]] /\ answered = [c \in Calls |-> answered[c]]
    /\ SlotsHoldAnswers /\ AnswersArrive

\* A callback gets what the method answered, the error and its message or the values,
\* whatever else the call space, the buffer and the other slots hold.
THEOREM AnswersComeBack == Spec => []AnswersArrive
<1>1. Init => AnswerInv
  BY DEF Init, AnswerInv, SlotsHoldAnswers, AnswersArrive
<1>2. AnswerInv /\ [Next]_vars => AnswerInv'
  <2> SUFFICES ASSUME AnswerInv, [Next]_vars PROVE AnswerInv'
    OBVIOUS
  <2>1. CASE UNCHANGED <<slot, answered>>
    BY <2>1 DEF AnswerInv, SlotsHoldAnswers, AnswersArrive
  <2>2. ASSUME NEW c \in Calls, Reply(c) PROVE AnswerInv'
    <3>1. slot' = [slot EXCEPT ![c] = ReplyBytes(ReplyOf[c]).cells] /\ answered' = answered
      BY <2>2 DEF Reply
    <3>2. SlotsHoldAnswers'
      <4>1. \A d \in Calls : slot'[d] = IF d = c THEN ReplyBytes(ReplyOf[c]).cells ELSE slot[d]
        BY <3>1 DEF AnswerInv
      <4> QED BY <4>1 DEF AnswerInv, SlotsHoldAnswers
    <3>3. slot' = [d \in Calls |-> slot'[d]] /\ answered' = [d \in Calls |-> answered'[d]]
      BY <3>1 DEF AnswerInv
    <3> QED BY <3>1, <3>2, <3>3 DEF AnswerInv, AnswersArrive
  <2>3. ASSUME NEW c \in Calls, ReadReply(c) PROVE AnswerInv'
    <3> DEFINE r == ReplyOf[c]
    <3>1. slot[c] # NoSlot /\ slot' = [slot EXCEPT ![c] = NoSlot]
          /\ answered' = [answered EXCEPT ![c] = Answered(slot[c], r.args)]
      BY <2>3 DEF ReadReply
    <3>2. slot' = [d \in Calls |-> slot'[d]] /\ answered' = [d \in Calls |-> answered'[d]]
          /\ \A d \in Calls : /\ slot'[d] = IF d = c THEN NoSlot ELSE slot[d]
                              /\ answered'[d] = IF d = c THEN Answered(slot[c], r.args) ELSE answered[d]
      BY <3>1 DEF AnswerInv
    <3>3. SlotsHoldAnswers'
      BY <3>2 DEF AnswerInv, SlotsHoldAnswers
    <3>4. slot[c] = ReplyBytes(r).cells
      BY <3>1 DEF AnswerInv, SlotsHoldAnswers
    <3>5. CASE r.code # NoError
      <4>1. slot[c] = ErrorBytes(r).cells
        BY <3>4, <3>5 DEF ReplyBytes
      <4>2. IsShort(r.message) => answered'[c] = [code |-> r.code, message |-> ScalarValue(r.message)]
        BY <3>2, <3>5, <4>1, ErrorRead
      <4>3. AnswersArrive'
        BY <3>2, <3>5, <4>2 DEF AnswerInv, AnswersArrive
      <4> QED BY <3>2, <3>3, <4>3 DEF AnswerInv
    <3>6. CASE r.code = NoError
      <4>1. slot[c] = SuccessBytes(r).cells
        BY <3>4, <3>6 DEF ReplyBytes
      <4>2. Short(r.args) => answered'[c] = [code |-> NoError, args |-> Values(r.args)]
        BY <3>2, <3>6, <4>1, SuccessRead
      <4>3. AnswersArrive'
        BY <3>2, <3>6, <4>2 DEF AnswerInv, AnswersArrive
      <4> QED BY <3>2, <3>3, <4>3 DEF AnswerInv
    <3> QED BY <3>5, <3>6
  <2>4. ASSUME NEW c \in Calls, Refuse(c) \/ PushCall(c) PROVE AnswerInv'
    BY <2>1, <2>4 DEF Refuse, PushCall
  <2>5. CASE ReadMemory \/ ParseFrame
    BY <2>1, <2>5 DEF ReadMemory, ParseFrame
  <2>6. CASE UNCHANGED vars
    BY <2>1, <2>6 DEF vars
  <2> QED BY <2>2, <2>3, <2>4, <2>5, <2>6 DEF Next
<1>3. AnswerInv => AnswersArrive
  BY DEF AnswerInv
<1> QED BY <1>1, <1>2, <1>3, PTL DEF Spec

LEMMA MeasuredWritten ==
    ASSUME NEW args, IsArgs(args), ~ HasVector(args)
    PROVE  sizeOfArgs(args) \in Nat /\ sizeOfArgs(args) <= WrittenBytes(args)
<1> DEFINE s == [n \in DOMAIN args |-> SizeOf(args[n])]
           t == [n \in DOMAIN args |-> ArgBytes(args[n])]
<1>1. DOMAIN args = 1 .. Len(args) /\ Len(args) \in Nat /\ t \in Seq(Nat)
  BY ArgsBytes
<1>2. ASSUME NEW n \in 1 .. Len(args)
      PROVE  SizeOf(args[n]) \in Nat /\ SizeOf(args[n]) <= ArgBytes(args[n])
  <2> DEFINE a == args[n]
  <2>1. a.kind # "vector" /\ IsScalar(a)
    BY <1>1 DEF HasVector, IsArgs, IsVector
  <2>2. ArgBytes(a) = ScalarBytes(a)
    BY <2>1 DEF ArgBytes
  <2> HIDE DEF a
  <2>3. a.kind = "pod" => SizeOf(a) \in Nat /\ SizeOf(a) <= ArgBytes(a)
    BY <2>1, <2>2 DEF IsScalar, SizeOf, ScalarBytes
  <2>4. ASSUME a.kind = "string" PROVE SizeOf(a) \in Nat /\ SizeOf(a) <= ArgBytes(a)
    <3>1. U16(a.len) \in Nat
      BY <2>1, <2>4 DEF IsScalar, U16, MAX_SIZE
    <3>2. U16(8 + U16(a.len)) \in Nat /\ U16(8 + U16(a.len)) <= 8 + U16(a.len)
      <4> DEFINE k == U16(a.len)
      <4> HIDE DEF k
      <4>1. U16(8 + k) \in Nat /\ U16(8 + k) <= 8 + k
        BY <3>1 DEF k, U16, MAX_SIZE
      <4> QED BY <4>1 DEF k
    <3>3. SizeOf(a) = U16(8 + U16(a.len)) /\ ScalarBytes(a) = 8 + U16(a.len)
      BY <2>4 DEF SizeOf, StringSize, ScalarBytes, STRING_HEADER_SIZE
    <3> QED BY <2>2, <3>2, <3>3
  <2> QED BY <2>1, <2>3, <2>4 DEF a, IsScalar
<1>3. s \in Seq(Nat) /\ Len(s) = Len(t) /\ Len(s) = Len(args)
      /\ \A n \in 1 .. Len(args) : s[n] = SizeOf(args[n]) /\ t[n] = ArgBytes(args[n])
  BY <1>1, <1>2
<1>4. Total(s) \in Nat /\ Total(t) \in Nat /\ Total(s) <= Total(t)
  <2> HIDE DEF s, t
  <2>1. \A n \in 1 .. Len(s) : s[n] <= t[n]
    BY <1>2, <1>3
  <2> QED BY <1>1, <1>3, <2>1, TotalMonotone
<1>5. sizeOfArgs(args) = U16(Total(s)) /\ WrittenBytes(args) = Total(t)
  BY DEF sizeOfArgs, WrittenBytes
<1> HIDE DEF s, t
<1>6. U16(Total(s)) \in Nat /\ U16(Total(s)) <= Total(s)
  BY <1>4 DEF U16, MAX_SIZE
<1> QED BY <1>4, <1>5, <1>6

RefusedInv ==
    /\ caller = [c \in Calls |-> caller[c]]
    /\ \A c \in Calls : caller[c] = "refused" => ~ validateCall(c)

\* A call is refused only if it could not be sent: though lengths wrap at 16 bits and
\* the check forgets a field of the frame, it is never the check that is too strict,
\* as long as no argument is a vector.
THEOREM RefusedJustly == Spec => []RefusedTooBig
<1>1. Init => RefusedInv
  BY DEF Init, RefusedInv
<1>2. RefusedInv /\ [Next]_vars => RefusedInv'
  <2> SUFFICES ASSUME RefusedInv, [Next]_vars PROVE RefusedInv'
    OBVIOUS
  <2>1. CASE UNCHANGED caller
    BY <2>1 DEF RefusedInv, validateCall
  <2>2. ASSUME NEW c \in Calls, Refuse(c) PROVE RefusedInv'
    BY <2>2 DEF Refuse, RefusedInv, validateCall
  <2>3. ASSUME NEW c \in Calls, PushCall(c) PROVE RefusedInv'
    BY <2>3 DEF PushCall, RefusedInv, validateCall
  <2>4. ASSUME NEW c \in Calls, Reply(c) \/ ReadReply(c) PROVE RefusedInv'
    BY <2>1, <2>4 DEF Reply, ReadReply
  <2>5. CASE ReadMemory \/ ParseFrame
    BY <2>1, <2>5 DEF ReadMemory, ParseFrame
  <2>6. CASE UNCHANGED vars
    BY <2>1, <2>6 DEF vars
  <2> QED BY <2>2, <2>3, <2>4, <2>5, <2>6 DEF Next
<1>3. RefusedInv => RefusedTooBig
  <2> SUFFICES ASSUME RefusedInv, NEW c \in Calls, caller[c] = "refused", ~ HasVector(ArgsOf[c])
               PROVE  HEAD_SZ + LEN_SZ + WrittenBytes(ArgsOf[c]) > MAX_CALL_SZ
    BY DEF RefusedTooBig
  <2> DEFINE w == WrittenBytes(ArgsOf[c])
             s == sizeOfArgs(ArgsOf[c])
  <2>1. IsArgs(ArgsOf[c])
    BY CallFramingAssumption
  <2>2. s \in Nat /\ s <= w /\ w \in Nat
    BY <2>1, MeasuredWritten, ArgsBytes
  <2>3. ~ (s <= MAX_CALL_SZ - HEAD_SZ)
    BY DEF RefusedInv, validateCall
  <2> HIDE DEF w, s
  <2>4. HEAD_SZ + LEN_SZ + w > MAX_CALL_SZ
    BY <2>2, <2>3, Sizes
  <2> QED BY <2>4 DEF w
<1> QED BY <1>1, <1>2, <1>3, PTL DEF Spec

-----------------------------------------------------------------------------
(* The bytes between the client and the server *)

\* What is read of a frame at a place.
LEMMA FrameRead ==
    ASSUME NEW c \in Accepted, NEW cells, NEW at \in Nat, Agree(cells, at, Frame(c).cells)
    PROVE  /\ cells[at] = c /\ cells[at + HEAD_SZ] = FrameSize(c) - 16
           /\ Agree(cells, at + 16, SerializedTuple(ArgsOf[c]).cells)
<1> DEFINE f == Frame(c)
           args == SerializedTuple(ArgsOf[c])
<1>1. /\ 0 \in DOMAIN f.cells /\ f.cells[0] = c
      /\ 14 \in DOMAIN f.cells /\ f.cells[14] = FrameSize(c) - 16
      /\ IsRun(args) /\ Agree(f.cells, 16, args.cells)
  BY FrameRun
<1> HIDE DEF f, args
<1>2. cells[at + 0] = c /\ cells[at + 14] = FrameSize(c) - 16
  BY <1>1 DEF Agree, f
<1>3. DOMAIN args.cells \subseteq Nat
  <2>1. DOMAIN args.cells \subseteq 0 .. args.sz - 1
    BY <1>1 DEF IsRun
  <2> QED BY <2>1
<1>4. Agree(cells, at + 16, args.cells)
  BY <1>1, <1>3, AgreeWithin DEF f
<1>5. at + 0 = at
  OBVIOUS
<1> QED BY <1>2, <1>4, <1>5, Sizes DEF args

\* The bytes a method is given.
LEMMA DataRead ==
    ASSUME NEW c \in Accepted, NEW cells, NEW at \in Nat,
           Agree(cells, at, SerializedTuple(ArgsOf[c]).cells), Short(ArgsOf[c])
    PROVE  LET sz == FrameSize(c) - 16
               callData == [o \in {x - at : x \in {y \in DOMAIN cells : y >= at /\ y < at + sz}} |->
                                cells[o + at]]
           IN  ReadTuple(ArgsOf[c], callData, 0) = Values(ArgsOf[c])
<1> DEFINE sz == FrameSize(c) - 16
           args == SerializedTuple(ArgsOf[c])
           Within == {y \in DOMAIN cells : y >= at /\ y < at + sz}
           callData == [o \in {x - at : x \in Within} |-> cells[o + at]]
<1>1. IsRun(args) /\ args.sz = sz /\ FrameSize(c) \in 16 .. MAX_CALL_SZ
  BY FrameRun
<1>2. c \in Calls /\ IsArgs(ArgsOf[c])
  BY CallFramingAssumption DEF Accepted
<1>3. sz \in Nat /\ sz <= ReadableSize /\ sz <= MAX_SIZE
  <2> DEFINE s == FrameSize(c)
  <2> HIDE DEF s
  <2>1. s \in 16 .. MAX_CALL_SZ
    BY <1>1 DEF s
  <2>2. s - 16 \in Nat /\ s - 16 <= ReadableSize /\ s - 16 <= MAX_SIZE
    BY <2>1, Sizes DEF MAX_SIZE
  <2> QED BY <2>2 DEF s
<1>4. WrittenBytes(ArgsOf[c]) = sz
  <2>1. WrittenBytes(ArgsOf[c]) \in Nat
    BY <1>2, ArgsBytes
  <2>2. FrameSize(c) = HEAD_SZ + LEN_SZ + WrittenBytes(ArgsOf[c])
    BY DEF FrameSize
  <2> QED BY <2>1, <2>2, Sizes
<1> HIDE DEF sz, args
<1>5. ASSUME NEW x \in DOMAIN args.cells
      PROVE  0 + x \in DOMAIN callData /\ callData[0 + x] = args.cells[x]
  <2>1. x \in 0 .. sz - 1
    BY <1>1 DEF IsRun
  <2>2. at + x \in DOMAIN cells /\ cells[at + x] = args.cells[x]
    BY DEF Agree, args
  <2>3. at + x \in Within /\ (at + x) - at = x /\ x + at = at + x /\ 0 + x = x
    BY <1>3, <2>1, <2>2
  <2>4. x \in {y - at : y \in Within}
    BY <2>3
  <2> QED BY <2>2, <2>3, <2>4
<1> HIDE DEF callData
<1>6. Agree(callData, 0, args.cells)
  BY <1>5 DEF Agree
<1>7. ReadTuple(ArgsOf[c], callData, 0) = Values(ArgsOf[c])
  <2>1. 0 + WrittenBytes(ArgsOf[c]) <= MAX_SIZE
    BY <1>3, <1>4
  <2> QED BY <1>2, <1>3, <1>4, <1>6, <2>1, TupleRead DEF args
<1> QED BY <1>7 DEF callData, sz

LEMMA AppendIs ==
    ASSUME NEW T, NEW s \in Seq(T), NEW x \in T
    PROVE  Append(s, x) = [n \in 1 .. Len(s) + 1 |-> IF n = Len(s) + 1 THEN x ELSE s[n]]
<1> DEFINE t == Append(s, x)
           m == Len(s)
<1>1. m \in Nat /\ t \in Seq(T) /\ Len(t) = m + 1 /\ t[m + 1] = x /\ \A n \in 1 .. m : t[n] = s[n]
  OBVIOUS
<1>2. t = [n \in 1 .. Len(t) |-> t[n]]
  <2> HIDE DEF t
  <2> QED BY <1>1
<1> HIDE DEF t, m
<1>3. \A n \in 1 .. m + 1 : t[n] = IF n = m + 1 THEN x ELSE s[n]
  <2>1. \A n \in 1 .. m + 1 : n = m + 1 \/ n \in 1 .. m
    BY <1>1
  <2> QED BY <1>1, <2>1
<1>4. t = [n \in 1 .. m + 1 |-> IF n = m + 1 THEN x ELSE s[n]]
  BY <1>1, <1>2, <1>3
<1> QED BY <1>4 DEF t, m

\* A sequence, of whatever.
IsSequence(r) == r \in Seq({r[n] : n \in DOMAIN r})

\* The calls of what was received.
CallsOf(r) == [n \in DOMAIN r |-> r[n][1]]

\* One call more.
LEMMA CalledMore ==
    ASSUME NEW r, IsSequence(r), NEW c, NEW v
    PROVE  LET s == Append(r, <<c, v>>)
           IN  /\ IsSequence(s)
               /\ \A n \in DOMAIN s : s[n] = <<c, v>> \/ (n \in DOMAIN r /\ s[n] = r[n])
               /\ CallsOf(s) = Append(CallsOf(r), c)
<1> DEFINE R == {r[n] : n \in DOMAIN r}
           x == <<c, v>>
           s == Append(r, x)
           S == {s[n] : n \in DOMAIN s}
           f == [n \in DOMAIN r |-> r[n][1]]
           g == [n \in DOMAIN s |-> s[n][1]]
           m == Len(r)
<1>1. m \in Nat /\ DOMAIN r = 1 .. m
  <2>1. r \in Seq(R)
    BY DEF IsSequence
  <2> HIDE DEF R
  <2> QED BY <2>1
<1>2. Len(s) = m + 1 /\ DOMAIN s = 1 .. m + 1 /\ s[m + 1] = x /\ \A n \in 1 .. m : s[n] = r[n]
  <2>1. r \in Seq(R \cup {x}) /\ x \in R \cup {x}
    <3>1. \A n \in 1 .. m : r[n] \in R \cup {x}
      BY <1>1
    <3>2. r \in Seq(R)
      BY DEF IsSequence
    <3> HIDE DEF R, x
    <3> QED BY <3>2
  <2>2. PICK T : r \in Seq(T) /\ x \in T
    BY <2>1
  <2> HIDE DEF R, x
  <2> QED BY <2>2
<1>3. s = [n \in 1 .. m + 1 |-> s[n]]
  BY <1>1, <1>2
<1> HIDE DEF s
<1>4. s \in Seq(S)
  <2>1. \A n \in 1 .. m + 1 : s[n] \in S
    BY <1>2
  <2>2. m + 1 \in Nat
    BY <1>1
  <2> HIDE DEF S
  <2>3. s \in [1 .. m + 1 -> S]
    BY <1>3, <2>1
  <2> QED BY <2>2, <2>3
<1>5. ASSUME NEW n \in DOMAIN s PROVE s[n] = x \/ (n \in DOMAIN r /\ s[n] = r[n])
  <2>1. n = m + 1 \/ n \in 1 .. m
    BY <1>1, <1>2
  <2> QED BY <1>1, <1>2, <2>1
<1>6. g = Append(f, c)
  <2> DEFINE F == {f[n] : n \in DOMAIN f} \cup {c}
  <2>1. f \in Seq(F) /\ Len(f) = m /\ c \in F
    <3>1. \A n \in 1 .. m : f[n] \in F
      BY <1>1
    <3>2. f = [n \in 1 .. m |-> f[n]]
      BY <1>1
    <3>3. c \in F
      OBVIOUS
    <3> HIDE DEF f, F
    <3>4. f \in [1 .. m -> F]
      BY <3>1, <3>2
    <3> QED BY <1>1, <3>3, <3>4
  <2>2. Append(f, c) = [n \in 1 .. m + 1 |-> IF n = m + 1 THEN c ELSE f[n]]
    <3>1. Append(f, c) = [n \in 1 .. Len(f) + 1 |-> IF n = Len(f) + 1 THEN c ELSE f[n]]
      <4> HIDE DEF f, F
      <4> QED BY <2>1, AppendIs
    <3> HIDE DEF f, m
    <3> QED BY <2>1, <3>1
  <2>3. ASSUME NEW n \in 1 .. m + 1 PROVE s[n][1] = IF n = m + 1 THEN c ELSE f[n]
    <3>1. n = m + 1 \/ n \in 1 .. m
      BY <1>1
    <3>2. CASE n = m + 1
      BY <1>2, <3>2
    <3>3. CASE n # m + 1
      BY <1>1, <1>2, <3>1, <3>3
    <3> QED BY <3>2, <3>3
  <2> HIDE DEF f
  <2> QED BY <1>2, <2>2, <2>3
<1>7. IsSequence(s)
  BY <1>4 DEF IsSequence
<1> QED BY <1>5, <1>6, <1>7 DEF s, CallsOf

\* The first of two joined sequences is a prefix.
LEMMA PrefixOfConcat ==
    ASSUME NEW X, NEW s \in Seq(X), NEW t \in Seq(X)
    PROVE  IsPrefix(s, s \o t)
<1>1. s \o t \in Seq(X) /\ Len(s) <= Len(s \o t) /\ Len(s) \in Nat
  OBVIOUS
<1>2. SubSeq(s, 1, Len(s)) = s /\ SubSeq(s \o t, 1, Len(s)) = s
  OBVIOUS
<1> QED BY <1>1, <1>2 DEF IsPrefix

\* One frame more behind three parts of a sequence belongs to the last.
JoinsLast(p, b, q, c) ==
    Append(q, c) \in Seq(Accepted) /\ Append(p \o (b \o q), c) = p \o (b \o Append(q, c))

LEMMA AppendLast == \A p, b, q \in Seq(Accepted) : \A c \in Accepted : JoinsLast(p, b, q, c)
<1> TAKE p, b, q \in Seq(Accepted)
<1> TAKE c \in Accepted
<1>1. /\ b \o q \in Seq(Accepted) /\ p \o (b \o q) \in Seq(Accepted)
      /\ <<c>> \in Seq(Accepted) /\ Append(q, c) \in Seq(Accepted)
  OBVIOUS
<1>2. Append(p \o (b \o q), c) = (p \o (b \o q)) \o <<c>> /\ Append(q, c) = q \o <<c>>
  BY <1>1, AppendIsConcat
<1>3. (p \o (b \o q)) \o <<c>> = p \o ((b \o q) \o <<c>>)
  BY <1>1, ConcatAssociative
<1>4. (b \o q) \o <<c>> = b \o (q \o <<c>>)
  BY <1>1, ConcatAssociative
<1> QED BY <1>1, <1>2, <1>3, <1>4 DEF JoinsLast

\* The first frame of the second part goes over to the first.
GoesOver(p, b, q) ==
    /\ Append(p, Head(b)) \in Seq(Accepted) /\ Tail(b) \in Seq(Accepted)
    /\ p \o (b \o q) = Append(p, Head(b)) \o (Tail(b) \o q)

LEMMA HeadGoesOver == \A p, b, q \in Seq(Accepted) : b # <<>> => GoesOver(p, b, q)
<1> TAKE p, b, q \in Seq(Accepted)
<1> HAVE b # <<>>
<1> DEFINE c == Head(b)
           s == Tail(b)
<1>1. /\ c \in Accepted /\ s \in Seq(Accepted) /\ <<c>> \in Seq(Accepted)
      /\ b = <<c>> \o s /\ Append(p, c) \in Seq(Accepted)
  OBVIOUS
<1> HIDE DEF c, s
<1> DEFINE r == s \o q
<1>2. r \in Seq(Accepted)
  BY <1>1
<1>3. b \o q = <<c>> \o r
  BY <1>1, ConcatAssociative
<1>4. Append(p, c) \o r = p \o (<<c>> \o r)
  <2> HIDE DEF r
  <2> QED BY <1>1, <1>2, AppendBetween
<1> QED BY <1>1, <1>3, <1>4 DEF GoesOver, c, s

\* The frames in the order of the pushes: those the server has parsed, those in its
\* copy from i on, and those in the call space.
FramesInOrder ==
    \E p, b, q \in Seq(Accepted) :
        /\ accepted = p \o (b \o q)
        /\ CallsOf(received) = Only(p, Supported)
        /\ Laid(buffer, i, queueSz, b)
        /\ Laid(m_data, 0, m_currentWriteIndex, q)

\* The inductive invariant: the frames in their order, each where the server looks for it.
FramesInv ==
    /\ IsSequence(received)
    /\ DOMAIN m_data \subseteq 0 .. m_currentWriteIndex - 1
    /\ FramesInOrder
    /\ ArgsArrive

\* Nothing was pushed yet.
LEMMA FramesInit == Init => FramesInv
<1> SUFFICES ASSUME Init PROVE FramesInv
  OBVIOUS
<1> USE DEF Init
<1>1. received = <<>> /\ DOMAIN received = {} /\ accepted = <<>> /\ <<>> \in Seq(Accepted)
  OBVIOUS
<1>2. IsSequence(received)
  BY <1>1 DEF IsSequence
<1>3. PICK e \in Seq(Accepted) : e = <<>>
  BY <1>1
<1>4. accepted = e \o (e \o e) /\ CallsOf(received) = e
  BY <1>1, <1>3 DEF CallsOf
<1>5. Only(e, Supported) = e /\ Laid(buffer, i, queueSz, e) /\ Laid(m_data, 0, m_currentWriteIndex, e)
  BY <1>3, OnlyEmpty, LaidNone
<1>6. FramesInOrder
  BY <1>4, <1>5 DEF FramesInOrder
<1>7. DOMAIN m_data \subseteq 0 .. m_currentWriteIndex - 1
  OBVIOUS
<1> QED BY <1>1, <1>2, <1>6, <1>7 DEF FramesInv, ArgsArrive

LEMMA FramesPush ==
    ASSUME FramesInv, NEW c \in Calls, PushCall(c)
    PROVE  FramesInv'
<1>1. UNCHANGED <<buffer, queueSz, i, received>> /\ c \in Accepted
  BY DEF PushCall, Accepted
<1>2. ArgsArrive' /\ IsSequence(received)'
  BY <1>1 DEF FramesInv, ArgsArrive
<1> DEFINE f == Frame(c)
<1>3. CASE Room(f.sz)
  <2>1. /\ m_data' = BytesBehind(m_data, m_currentWriteIndex, f.cells)
        /\ m_currentWriteIndex' = m_currentWriteIndex + f.sz
        /\ accepted' = Append(accepted, c)
    BY <1>3 DEF PushCall
  <2>2. PICK p, b, q \in Seq(Accepted) :
            /\ accepted = p \o (b \o q)
            /\ CallsOf(received) = Only(p, Supported)
            /\ Laid(buffer, i, queueSz, b)
            /\ Laid(m_data, 0, m_currentWriteIndex, q)
    BY DEF FramesInv, FramesInOrder
  <2>3. IsRun(f) /\ f.sz = FrameSize(c) /\ f.sz \in 16 .. MAX_CALL_SZ
    BY <1>1, FrameRun
  <2>4. m_currentWriteIndex \in Nat /\ f.sz \in Nat
    BY <2>2, <2>3, LaidGrows, Sizes
  <2>5. DOMAIN f.cells \subseteq 0 .. f.sz - 1
    BY <2>3 DEF IsRun
  <2>6. /\ DOMAIN m_data' \subseteq 0 .. m_currentWriteIndex + f.sz - 1
        /\ Agree(m_data', 0, m_data) /\ Agree(m_data', m_currentWriteIndex, f.cells)
    <3> HIDE DEF f
    <3> QED BY <2>1, <2>4, <2>5, BytesBehindAgree DEF FramesInv
  <2>7. Laid(m_data', 0, m_currentWriteIndex', Append(q, c))
    BY <1>1, <2>1, <2>2, <2>3, <2>6, LaidMore
  <2>8. Append(q, c) \in Seq(Accepted) /\ accepted' = p \o (b \o Append(q, c))
    <3>1. JoinsLast(p, b, q, c)
      BY <1>1, AppendLast
    <3> QED BY <2>1, <2>2, <3>1 DEF JoinsLast
  <2>9. FramesInOrder'
    BY <1>1, <2>2, <2>7, <2>8 DEF FramesInOrder
  <2>10. DOMAIN m_data' \subseteq 0 .. m_currentWriteIndex' - 1
    <3> HIDE DEF f
    <3> QED BY <2>1, <2>4, <2>6
  <2> QED BY <1>2, <2>9, <2>10 DEF FramesInv
<1>4. CASE ~ Room(f.sz)
  <2>1. UNCHANGED <<m_data, m_currentWriteIndex, accepted>>
    BY <1>4 DEF PushCall
  <2>2. FramesInOrder'
    BY <1>1, <2>1 DEF FramesInv, FramesInOrder
  <2> QED BY <1>2, <2>1, <2>2 DEF FramesInv
<1> QED BY <1>3, <1>4

\* Behind the last frame there are no bytes.
LEMMA LaidThrough ==
    ASSUME NEW cells, NEW from, NEW to, NEW b \in Seq(Accepted), Laid(cells, from, to, b)
    PROVE  from >= to <=> b = <<>>
<1>1. ASSUME b # <<>> PROVE ~ (from >= to)
  <2> DEFINE s == FrameSize(Head(b))
  <2>1. from \in Nat /\ to \in Nat /\ s \in Nat /\ from + s <= to
    BY <1>1, LaidFirst
  <2>2. s \in 16 .. MAX_CALL_SZ
    <3>1. Head(b) \in Accepted
      BY <1>1
    <3> QED BY <3>1, FrameRun
  <2> HIDE DEF s
  <2> QED BY <2>1, <2>2, Sizes
<1>2. ASSUME b = <<>> PROVE from >= to
  <2>1. from = to /\ from \in Nat
    <3>1. Len(b) + 1 = 1
      BY <1>2
    <3>2. from \in Nat
      BY LaidGrows
    <3> QED BY <3>1, <3>2 DEF Laid
  <2> QED BY <2>1
<1> QED BY <1>1, <1>2

LEMMA FramesTaken ==
    ASSUME FramesInv, ReadMemory
    PROVE  FramesInv'
<1>1. /\ i >= queueSz /\ UNCHANGED <<accepted, received>>
      /\ buffer' = m_data /\ queueSz' = m_currentWriteIndex /\ i' = 0
      /\ m_data' = <<>> /\ m_currentWriteIndex' = 0
  BY DEF ReadMemory
<1>2. PICK p, b, q \in Seq(Accepted) :
          /\ accepted = p \o (b \o q)
          /\ CallsOf(received) = Only(p, Supported)
          /\ Laid(buffer, i, queueSz, b)
          /\ Laid(m_data, 0, m_currentWriteIndex, q)
  BY DEF FramesInv, FramesInOrder
<1>3. b = <<>>
  BY <1>1, <1>2, LaidThrough
<1>4. PICK e \in Seq(Accepted) : e = <<>>
  <2>1. <<>> \in Seq(Accepted)
    OBVIOUS
  <2> QED BY <2>1
<1>5. accepted' = p \o (q \o e) /\ Laid(m_data', 0, m_currentWriteIndex', e)
  <2>1. Laid(m_data', 0, 0, <<>>)
    BY LaidNone
  <2>2. accepted' = p \o (q \o e)
    BY <1>1, <1>2, <1>3, <1>4
  <2> QED BY <1>1, <1>4, <2>1, <2>2
<1>6. FramesInOrder'
  BY <1>1, <1>2, <1>5 DEF FramesInOrder
<1>7. ArgsArrive' /\ IsSequence(received)'
  BY <1>1 DEF FramesInv, ArgsArrive
<1>8. DOMAIN m_data' \subseteq 0 .. m_currentWriteIndex' - 1
  BY <1>1
<1> QED BY <1>6, <1>7, <1>8 DEF FramesInv

\* The server never finds a frame beyond the buffer, and one round takes one frame.
LEMMA FramesParsed ==
    ASSUME FramesInv, ParseFrame
    PROVE  FramesInv'
<1>1. i < queueSz /\ UNCHANGED <<accepted, buffer, queueSz, m_data, m_currentWriteIndex>>
  BY DEF ParseFrame
<1>2. PICK p, b, q \in Seq(Accepted) :
          /\ accepted = p \o (b \o q)
          /\ CallsOf(received) = Only(p, Supported)
          /\ Laid(buffer, i, queueSz, b)
          /\ Laid(m_data, 0, m_currentWriteIndex, q)
  BY DEF FramesInv, FramesInOrder
<1>3. i \in Nat /\ queueSz \in Nat
  BY <1>2, LaidGrows
<1>4. b # <<>>
  <2>1. ~ (i >= queueSz)
    BY <1>1, <1>3
  <2> QED BY <1>2, <2>1, LaidThrough
<1> DEFINE c == Head(b)
           s == FrameSize(c)
<1>5. c \in Accepted /\ Tail(b) \in Seq(Accepted)
  BY <1>4
<1>6. /\ Agree(buffer, i, Frame(c).cells) /\ Laid(buffer, i + s, queueSz, Tail(b))
      /\ i + s <= queueSz
  BY <1>2, <1>4, LaidFirst
<1>7. s \in Nat /\ s >= 16
  <2>1. s \in 16 .. MAX_CALL_SZ
    BY <1>5, FrameRun
  <2> HIDE DEF s
  <2> QED BY <2>1, Sizes
<1>8. /\ buffer[i] = c /\ buffer[i + HEAD_SZ] = s - 16
      /\ Agree(buffer, i + 16, SerializedTuple(ArgsOf[c]).cells)
  BY <1>3, <1>5, <1>6, FrameRead
<1> HIDE DEF s, c
<1> DEFINE at == i + HEAD_SZ + LEN_SZ
           callData == [o \in {x - at : x \in {y \in DOMAIN buffer :
                            y >= at /\ y < at + (s - 16)}} |-> buffer[o + at]]
<1>9. at = i + 16 /\ at + (s - 16) = i + s /\ i + HEAD_SZ = i + 14
  BY <1>3, <1>7, Sizes
<1>10. ~ Beyond(i + HEAD_SZ) /\ ~ Beyond(at) /\ ~ Beyond(at + (s - 16))
  <2>1. ~ (i + 14 > queueSz) /\ ~ (i + 16 > queueSz) /\ ~ (i + s > queueSz)
    BY <1>3, <1>6, <1>7
  <2> HIDE DEF at
  <2> QED BY <1>9, <2>1 DEF Beyond
<1>11. /\ i' = i + s
       /\ received' = IF c \in Supported
                      THEN Append(received, <<c, ReadTuple(ArgsOf[c], callData, 0)>>)
                      ELSE received
  <2>1. /\ i' = at + (s - 16)
        /\ received' = IF c \in Supported
                       THEN Append(received, <<c, ReadTuple(ArgsOf[c], callData, 0)>>)
                       ELSE received
    BY <1>8, <1>10 DEF ParseFrame
  <2> QED BY <1>9, <2>1
<1>12. Short(ArgsOf[c]) => ReadTuple(ArgsOf[c], callData, 0) = Values(ArgsOf[c])
  <2>1. i + 16 \in Nat
    BY <1>3
  <2>2. Agree(buffer, at, SerializedTuple(ArgsOf[c]).cells) /\ at \in Nat
    BY <1>8, <1>9, <2>1
  <2> HIDE DEF at
  <2> QED BY <1>5, <2>2, DataRead DEF s
<1> HIDE DEF at, callData
<1>13. PICK v : /\ received' = IF c \in Supported THEN Append(received, <<c, v>>) ELSE received
                /\ Short(ArgsOf[c]) => v = Values(ArgsOf[c])
  BY <1>11, <1>12
<1>14. /\ IsSequence(received)' /\ ArgsArrive'
       /\ CallsOf(received') = Only(Append(p, c), Supported)
  <2>1. Only(Append(p, c), Supported)
            = IF c \in Supported THEN Append(Only(p, Supported), c) ELSE Only(p, Supported)
    BY <1>5, OnlyAppend
  <2>2. CASE c \in Supported
    <3>1. received' = Append(received, <<c, v>>)
      BY <1>13, <2>2
    <3>2. /\ IsSequence(received')
          /\ \A n \in DOMAIN received' :
                received'[n] = <<c, v>> \/ (n \in DOMAIN received /\ received'[n] = received[n])
          /\ CallsOf(received') = Append(CallsOf(received), c)
      <4>1. IsSequence(received)
        BY DEF FramesInv
      <4> QED BY <3>1, <4>1, CalledMore
    <3>3. ArgsArrive'
      <4> SUFFICES ASSUME NEW n \in DOMAIN received', Short(ArgsOf[received'[n][1]])
                   PROVE  received'[n][2] = Values(ArgsOf[received'[n][1]])
        BY DEF ArgsArrive
      <4>1. CASE received'[n] = <<c, v>>
        <5>1. received'[n][1] = c /\ received'[n][2] = v
          BY <4>1
        <5> QED BY <1>13, <5>1
      <4>2. CASE n \in DOMAIN received /\ received'[n] = received[n]
        BY <4>2 DEF FramesInv, ArgsArrive
      <4> QED BY <3>2, <4>1, <4>2
    <3> QED BY <1>2, <2>1, <2>2, <3>2, <3>3
  <2>3. CASE c \notin Supported
    BY <1>2, <1>13, <2>1, <2>3 DEF FramesInv, ArgsArrive
  <2> QED BY <2>2, <2>3
<1>15. Append(p, c) \in Seq(Accepted) /\ accepted' = Append(p, c) \o (Tail(b) \o q)
  <2>1. GoesOver(p, b, q)
    BY <1>4, HeadGoesOver
  <2> QED BY <1>1, <1>2, <2>1 DEF GoesOver, c
<1>16. FramesInOrder'
  BY <1>1, <1>2, <1>5, <1>6, <1>11, <1>14, <1>15 DEF FramesInOrder
<1> QED BY <1>1, <1>14, <1>16 DEF FramesInv

LEMMA FramesKept ==
    ASSUME FramesInv, UNCHANGED <<m_data, m_currentWriteIndex, buffer, queueSz, i, accepted, received>>
    PROVE  FramesInv'
<1>1. FramesInOrder' /\ ArgsArrive'
  BY DEF FramesInv, FramesInOrder, ArgsArrive
<1> QED BY <1>1 DEF FramesInv

LEMMA FramesNext == FramesInv /\ [Next]_vars => FramesInv'
<1> SUFFICES ASSUME FramesInv, [Next]_vars PROVE FramesInv'
  OBVIOUS
<1>1. ASSUME NEW c \in Calls, Refuse(c) PROVE FramesInv'
  BY <1>1, FramesKept DEF Refuse
<1>2. ASSUME NEW c \in Calls, PushCall(c) PROVE FramesInv'
  BY <1>2, FramesPush
<1>3. ASSUME NEW c \in Calls, Reply(c) PROVE FramesInv'
  BY <1>3, FramesKept DEF Reply
<1>4. ASSUME NEW c \in Calls, ReadReply(c) PROVE FramesInv'
  BY <1>4, FramesKept DEF ReadReply
<1>5. CASE ReadMemory
  BY <1>5, FramesTaken
<1>6. CASE ParseFrame
  BY <1>6, FramesParsed
<1>7. CASE UNCHANGED vars
  BY <1>7, FramesKept DEF vars
<1> QED BY <1>1, <1>2, <1>3, <1>4, <1>5, <1>6, <1>7 DEF Next

\* Every method is called with the values the client passed: no frame before, behind or
\* around them disturbs them, whatever their sizes.
THEOREM ArgumentsArrive == Spec => []ArgsArrive
<1>1. FramesInv => ArgsArrive
  BY DEF FramesInv
<1> QED BY <1>1, FramesInit, FramesNext, PTL DEF Spec

\* The bytes are cut into the frames that were pushed, in their order, none lost, split
\* or invented, for any number of frames of any size that fit.
THEOREM BytesParsedInFull == Spec => []ParsedInFull
<1>1. FramesInv => ParsedInFull
  <2> SUFFICES ASSUME FramesInv PROVE ParsedInFull
    OBVIOUS
  <2> DEFINE done == [n \in DOMAIN received |-> received[n][1]]
             due == Only(accepted, Supported)
  <2>1. PICK p, b, q \in Seq(Accepted) :
            /\ accepted = p \o (b \o q) /\ done = Only(p, Supported)
            /\ Laid(buffer, i, queueSz, b) /\ Laid(m_data, 0, m_currentWriteIndex, q)
    BY DEF FramesInv, FramesInOrder, CallsOf
  <2> HIDE DEF done
  <2>2. b \o q \in Seq(Accepted)
    OBVIOUS
  <2>3. due = done \o Only(b \o q, Supported)
    BY <2>1, <2>2, OnlyConcat
  <2>4. done \in Seq(Accepted) /\ Only(b \o q, Supported) \in Seq(Accepted)
    BY <2>1, <2>2, OnlyType
  <2>5. IsPrefix(done, due)
    BY <2>3, <2>4, PrefixOfConcat
  <2>6. i >= queueSz /\ m_currentWriteIndex = 0 => done = due
    <3> SUFFICES ASSUME i >= queueSz, m_currentWriteIndex = 0 PROVE done = due
      OBVIOUS
    <3>1. b = <<>> /\ q = <<>>
      <4>1. 0 >= m_currentWriteIndex
        OBVIOUS
      <4> QED BY <2>1, <4>1, LaidThrough
    <3>2. accepted = p
      BY <2>1, <3>1
    <3> QED BY <2>1, <3>2
  <2> QED BY <2>5, <2>6 DEF ParsedInFull, done
<1> QED BY <1>1, FramesInit, FramesNext, PTL DEF Spec

=============================================================================
