--------------------------- MODULE FilteringProofs ---------------------------
(***************************************************************************)
(* What the filter computes for every sequence.  It is defined by          *)
(* recursion on the length, so the proofs look at a least length at which  *)
(* a claim would fail; that there is one comes from the well-foundedness   *)
(* of the naturals.                                                        *)
(***************************************************************************)
EXTENDS Filtering, SequenceTheorems, WellFoundedInduction, TLAPS

\* A non-empty set of naturals has a least element.
LEMMA Least ==
    ASSUME NEW T \in SUBSET Nat, T # {}
    PROVE  \E n \in T : \A m \in T : n <= m
<1>1. PICK n \in T : \A m \in T : ~ (<<m, n>> \in OpToRel(<, Nat))
  BY NatLessThanWellFounded, WFMin
<1>2. \A m \in T : ~ (m < n)
  BY <1>1 DEF OpToRel
<1> QED BY <1>2

\* f keeps, for each n up to m, the elements of S among the first n of s.
KeptAt(f, s, S, n) ==
    IF n = 0 THEN <<>> ELSE IF s[n] \in S THEN Append(f[n - 1], s[n]) ELSE f[n - 1]
Keeps(f, s, S, m) == f = [n \in 0 .. m |-> KeptAt(f, s, S, n)]

LEMMA KeepsUnfold ==
    ASSUME NEW S, NEW s, NEW m \in Nat, NEW f, Keeps(f, s, S, m)
    PROVE  \A n \in 0 .. m : f[n] = KeptAt(f, s, S, n)
BY DEF Keeps

LEMMA KeepsExists ==
    ASSUME NEW S, NEW s, NEW m \in Nat
    PROVE  \E f : Keeps(f, s, S, m)
<1> DEFINE Bad == {n \in Nat : ~ \E f : Keeps(f, s, S, n)}
<1>1. ASSUME Bad # {} PROVE FALSE
  <2>1. PICK n \in Bad : \A o \in Bad : n <= o
    <3>1. Bad \in SUBSET Nat
      OBVIOUS
    <3> HIDE DEF Bad
    <3> QED BY <1>1, <3>1, Least
  <2>2. n \in Nat /\ ~ \E f : Keeps(f, s, S, n)
    OBVIOUS
  <2>3. CASE n = 0
    <3> DEFINE g == [i \in 0 .. 0 |-> <<>>]
    <3>1. \A i \in 0 .. 0 : KeptAt(g, s, S, i) = <<>>
      BY DEF KeptAt
    <3>2. Keeps(g, s, S, 0)
      BY <3>1 DEF Keeps
    <3> QED BY <2>2, <2>3, <3>2
  <2>4. CASE n # 0
    <3>1. n - 1 \in Nat /\ ~ (n <= n - 1)
      BY <2>2, <2>4
    <3>2. PICK f : Keeps(f, s, S, n - 1)
      BY <2>1, <3>1
    <3> DEFINE last == IF s[n] \in S THEN Append(f[n - 1], s[n]) ELSE f[n - 1]
               g == [i \in 0 .. n |-> IF i = n THEN last ELSE f[i]]
    <3>3. \A i \in 0 .. n - 1 : f[i] = KeptAt(f, s, S, i)
      BY <3>1, <3>2, KeepsUnfold
    <3>4. g[n] = last /\ \A i \in 0 .. n - 1 : g[i] = f[i]
      BY <2>2
    <3>5. ASSUME NEW i \in 0 .. n PROVE g[i] = KeptAt(g, s, S, i)
      <4> HIDE DEF g
      <4>1. CASE i = n
        <5>1. n - 1 \in 0 .. n - 1
          BY <2>2, <2>4
        <5> QED BY <2>4, <3>4, <4>1, <5>1 DEF KeptAt
      <4>2. CASE i = 0
        <5>1. i \in 0 .. n - 1
          BY <2>2, <2>4, <4>2
        <5> QED BY <3>3, <3>4, <4>2, <5>1 DEF KeptAt
      <4>3. CASE i # n /\ i # 0
        <5>1. i \in 0 .. n - 1 /\ i - 1 \in 0 .. n - 1
          BY <2>2, <3>5, <4>3
        <5> QED BY <3>3, <3>4, <4>3, <5>1 DEF KeptAt
      <4> QED BY <4>1, <4>2, <4>3
    <3>6. g = [i \in 0 .. n |-> KeptAt(g, s, S, i)]
      <4>1. g = [i \in 0 .. n |-> g[i]]
        OBVIOUS
      <4> HIDE DEF g
      <4> QED BY <3>5, <4>1
    <3>7. Keeps(g, s, S, n)
      BY <3>6 DEF Keeps
    <3> QED BY <2>2, <3>7
  <2> QED BY <2>3, <2>4
<1> QED BY <1>1

\* Two functions that keep the same agree, also if one goes further.
LEMMA KeepsUnique ==
    ASSUME NEW S, NEW s, NEW t, NEW m \in Nat, NEW o \in Nat, m <= o,
           \A n \in 1 .. m : s[n] = t[n],
           NEW f, NEW g, Keeps(f, s, S, m), Keeps(g, t, S, o)
    PROVE  f[m] = g[m]
<1> DEFINE Bad == {n \in 0 .. m : f[n] # g[n]}
<1>1. ASSUME Bad # {} PROVE FALSE
  <2>1. PICK n \in Bad : \A i \in Bad : n <= i
    <3>1. Bad \in SUBSET Nat
      OBVIOUS
    <3> HIDE DEF Bad
    <3> QED BY <1>1, <3>1, Least
  <2>2. n \in 0 .. m /\ n \in 0 .. o /\ f[n] # g[n]
    OBVIOUS
  <2>3. f[n] = KeptAt(f, s, S, n) /\ g[n] = KeptAt(g, t, S, n)
    BY <2>2, KeepsUnfold
  <2>4. n # 0
    BY <2>2, <2>3 DEF KeptAt
  <2>5. n - 1 \in 0 .. m /\ ~ (n <= n - 1)
    BY <2>2, <2>4
  <2>6. f[n - 1] = g[n - 1]
    BY <2>1, <2>5
  <2>7. n \in 1 .. m
    BY <2>2, <2>4
  <2>8. s[n] = t[n]
    BY <2>7
  <2> QED BY <2>2, <2>3, <2>6, <2>8 DEF KeptAt
<1> QED BY <1>1

LEMMA OnlyKeeps ==
    ASSUME NEW S, NEW s, Len(s) \in Nat
    PROVE  \E f : Keeps(f, s, S, Len(s)) /\ Only(s, S) = f[Len(s)]
<1> DEFINE f == CHOOSE f : Keeps(f, s, S, Len(s))
<1>1. Keeps(f, s, S, Len(s))
  BY KeepsExists
<1>2. Only(s, S) = f[Len(s)]
  BY DEF Only, Keeps, KeptAt
<1> QED BY <1>1, <1>2

-----------------------------------------------------------------------------
(* What the filter computes *)

LEMMA OnlyEmpty == ASSUME NEW S PROVE Only(<<>>, S) = <<>>
<1>1. PICK f : Keeps(f, <<>>, S, 0) /\ Only(<<>>, S) = f[0]
  BY OnlyKeeps
<1>2. f[0] = KeptAt(f, <<>>, S, 0)
  BY <1>1, KeepsUnfold
<1> QED BY <1>1, <1>2 DEF KeptAt

\* One element more.
LEMMA OnlyAppend ==
    ASSUME NEW X, NEW S, NEW s \in Seq(X), NEW x \in X
    PROVE  Only(Append(s, x), S) = IF x \in S THEN Append(Only(s, S), x) ELSE Only(s, S)
<1> DEFINE t == Append(s, x)
           n == Len(s) + 1
<1>1. Len(s) \in Nat /\ n \in Nat /\ Len(t) = n /\ t[n] = x /\ \A i \in 1 .. Len(s) : s[i] = t[i]
  OBVIOUS
<1> HIDE DEF t
<1>2. PICK f : Keeps(f, s, S, Len(s)) /\ Only(s, S) = f[Len(s)]
  BY <1>1, OnlyKeeps
<1>3. PICK g : Keeps(g, t, S, Len(t)) /\ Only(t, S) = g[Len(t)]
  BY <1>1, OnlyKeeps
<1>4. f[Len(s)] = g[Len(s)]
  BY <1>1, <1>2, <1>3, KeepsUnique
<1>5. g[n] = KeptAt(g, t, S, n)
  BY <1>1, <1>3, KeepsUnfold
<1>6. n # 0 /\ n - 1 = Len(s)
  BY <1>1
<1>7. g[n] = IF x \in S THEN Append(g[Len(s)], x) ELSE g[Len(s)]
  BY <1>1, <1>5, <1>6 DEF KeptAt
<1> QED BY <1>1, <1>2, <1>3, <1>4, <1>7 DEF t

LEMMA OnlyType ==
    ASSUME NEW X, NEW S, NEW s \in Seq(X)
    PROVE  Only(s, S) \in Seq(X) /\ Only(s, S) \in Seq(S)
<1>1. Len(s) \in Nat
  OBVIOUS
<1>2. PICK f : Keeps(f, s, S, Len(s)) /\ Only(s, S) = f[Len(s)]
  BY <1>1, OnlyKeeps
<1> DEFINE Bad == {n \in 0 .. Len(s) : ~ (f[n] \in Seq(X) /\ f[n] \in Seq(S))}
<1>3. ASSUME Bad # {} PROVE FALSE
  <2>1. PICK n \in Bad : \A i \in Bad : n <= i
    <3>1. Bad \in SUBSET Nat
      OBVIOUS
    <3> HIDE DEF Bad
    <3> QED BY <1>3, <3>1, Least
  <2>2. n \in 0 .. Len(s) /\ ~ (f[n] \in Seq(X) /\ f[n] \in Seq(S))
    OBVIOUS
  <2>3. f[n] = KeptAt(f, s, S, n)
    BY <1>1, <1>2, <2>2, KeepsUnfold
  <2>4. n # 0
    BY <2>2, <2>3 DEF KeptAt
  <2>5. n - 1 \in 0 .. Len(s) /\ ~ (n <= n - 1) /\ s[n] \in X
    BY <1>1, <2>2, <2>4
  <2>6. f[n - 1] \in Seq(X) /\ f[n - 1] \in Seq(S)
    BY <2>1, <2>5
  <2> QED BY <2>2, <2>3, <2>4, <2>5, <2>6 DEF KeptAt
<1>4. Len(s) \in 0 .. Len(s)
  BY <1>1
<1> QED BY <1>2, <1>3, <1>4

\* The filter of a concatenation.
LEMMA OnlyConcat ==
    ASSUME NEW X, NEW S, NEW s \in Seq(X), NEW t \in Seq(X)
    PROVE  Only(s \o t, S) = Only(s, S) \o Only(t, S)
<1> DEFINE Bad == {n \in Nat : \E u \in Seq(X) :
                      Len(u) = n /\ Only(s \o u, S) # Only(s, S) \o Only(u, S)}
<1>1. ASSUME Bad # {} PROVE FALSE
  <2>1. PICK n \in Bad : \A i \in Bad : n <= i
    <3>1. Bad \in SUBSET Nat
      OBVIOUS
    <3> HIDE DEF Bad
    <3> QED BY <1>1, <3>1, Least
  <2>2. PICK u \in Seq(X) : Len(u) = n /\ Only(s \o u, S) # Only(s, S) \o Only(u, S)
    OBVIOUS
  <2>3. Only(s, S) \in Seq(X)
    BY OnlyType
  <2>4. u # <<>>
    <3>1. ASSUME u = <<>> PROVE FALSE
      <4>1. s \o u = s /\ Only(u, S) = <<>> /\ Only(s, S) \o <<>> = Only(s, S)
        BY <2>3, <3>1, OnlyEmpty
      <4> QED BY <2>2, <4>1
    <3> QED BY <3>1
  <2>5. PICK v \in Seq(X), x \in X : u = Append(v, x)
    BY <2>4, SequenceEmptyOrAppend
  <2>6. Len(v) \in Nat /\ ~ (n <= Len(v))
    BY <2>2, <2>5
  <2>7. Only(s \o v, S) = Only(s, S) \o Only(v, S)
    BY <2>1, <2>6
  <2>8. s \o u = Append(s \o v, x) /\ s \o v \in Seq(X)
    BY <2>5
  <2>9. Only(v, S) \in Seq(X)
    BY OnlyType
  <2>10. Only(s \o u, S) = IF x \in S THEN Append(Only(s \o v, S), x) ELSE Only(s \o v, S)
    <3> DEFINE w == s \o v
    <3>1. w \in Seq(X) /\ s \o u = Append(w, x)
      BY <2>8
    <3> HIDE DEF w
    <3>2. Only(Append(w, x), S) = IF x \in S THEN Append(Only(w, S), x) ELSE Only(w, S)
      BY <3>1, OnlyAppend
    <3> QED BY <3>1, <3>2 DEF w
  <2>11. Only(u, S) = IF x \in S THEN Append(Only(v, S), x) ELSE Only(v, S)
    BY <2>5, OnlyAppend
  <2>12. Append(Only(s, S) \o Only(v, S), x) = Only(s, S) \o Append(Only(v, S), x)
    BY <2>3, <2>9
  <2> QED BY <2>2, <2>7, <2>10, <2>11, <2>12
<1>2. Len(t) \in Nat
  OBVIOUS
<1> QED BY <1>1, <1>2

LEMMA OnlyOne ==
    ASSUME NEW S, NEW x
    PROVE  Only(<<x>>, S) = IF x \in S THEN <<x>> ELSE <<>>
<1>0. <<>> \in Seq({x})
  OBVIOUS
<1>1. PICK e \in Seq({x}) : e = <<>>
  BY <1>0, Zenon
<1>2. Only(Append(e, x), S) = IF x \in S THEN Append(Only(e, S), x) ELSE Only(e, S)
  BY OnlyAppend
<1>3. Append(e, x) = <<x>> /\ Only(e, S) = e
  BY <1>1, OnlyEmpty
<1> QED BY <1>1, <1>2, <1>3

\* The filter of a sequence, from its first element on.
LEMMA OnlyHead ==
    ASSUME NEW X, NEW S, NEW s \in Seq(X), s # <<>>
    PROVE  Only(s, S) = IF Head(s) \in S THEN <<Head(s)>> \o Only(Tail(s), S) ELSE Only(Tail(s), S)
<1>1. Head(s) \in X /\ Tail(s) \in Seq(X) /\ <<Head(s)>> \in Seq(X) /\ s = <<Head(s)>> \o Tail(s)
  OBVIOUS
<1>2. Only(s, S) = Only(<<Head(s)>>, S) \o Only(Tail(s), S)
  BY <1>1, OnlyConcat
<1>3. Only(<<Head(s)>>, S) = IF Head(s) \in S THEN <<Head(s)>> ELSE <<>>
  BY OnlyOne
<1>4. Only(Tail(s), S) \in Seq(X)
  BY <1>1, OnlyType
<1>5. <<>> \o Only(Tail(s), S) = Only(Tail(s), S)
  BY <1>4
<1> QED BY <1>2, <1>3, <1>5

\* What two filters in a row keep.
LEMMA OnlyTwice ==
    ASSUME NEW X, NEW S, NEW T, NEW s \in Seq(X)
    PROVE  Only(Only(s, S), T) = Only(s, S \cap T)
<1> DEFINE Bad == {n \in Nat : \E u \in Seq(X) :
                      Len(u) = n /\ Only(Only(u, S), T) # Only(u, S \cap T)}
<1>1. ASSUME Bad # {} PROVE FALSE
  <2>1. PICK n \in Bad : \A i \in Bad : n <= i
    <3>1. Bad \in SUBSET Nat
      OBVIOUS
    <3> HIDE DEF Bad
    <3> QED BY <1>1, <3>1, Least
  <2>2. PICK u \in Seq(X) : Len(u) = n /\ Only(Only(u, S), T) # Only(u, S \cap T)
    OBVIOUS
  <2>3. u # <<>>
    BY <2>2, OnlyEmpty
  <2>4. PICK v \in Seq(X), x \in X : u = Append(v, x)
    BY <2>3, SequenceEmptyOrAppend
  <2>5. Len(v) \in Nat /\ ~ (n <= Len(v))
    BY <2>2, <2>4
  <2>6. Only(Only(v, S), T) = Only(v, S \cap T)
    BY <2>1, <2>5
  <2>7. Only(v, S) \in Seq(X)
    BY OnlyType
  <2>8. Only(u, S) = IF x \in S THEN Append(Only(v, S), x) ELSE Only(v, S)
    BY <2>4, OnlyAppend
  <2>9. Only(u, S \cap T) = IF x \in S \cap T THEN Append(Only(v, S \cap T), x)
                            ELSE Only(v, S \cap T)
    BY <2>4, OnlyAppend
  <2>10. Only(Append(Only(v, S), x), T) = IF x \in T THEN Append(Only(Only(v, S), T), x)
                                         ELSE Only(Only(v, S), T)
    BY <2>7, OnlyAppend
  <2> QED BY <2>2, <2>6, <2>8, <2>9, <2>10
<1>2. Len(s) \in Nat
  OBVIOUS
<1> QED BY <1>1, <1>2

\* A filter that keeps all.
LEMMA OnlyAll ==
    ASSUME NEW X, NEW s \in Seq(X)
    PROVE  Only(s, X) = s
<1> DEFINE Bad == {n \in Nat : \E u \in Seq(X) : Len(u) = n /\ Only(u, X) # u}
<1>1. ASSUME Bad # {} PROVE FALSE
  <2>1. PICK n \in Bad : \A i \in Bad : n <= i
    <3>1. Bad \in SUBSET Nat
      OBVIOUS
    <3> HIDE DEF Bad
    <3> QED BY <1>1, <3>1, Least
  <2>2. PICK u \in Seq(X) : Len(u) = n /\ Only(u, X) # u
    OBVIOUS
  <2>3. u # <<>>
    BY <2>2, OnlyEmpty
  <2>4. PICK v \in Seq(X), x \in X : u = Append(v, x)
    BY <2>3, SequenceEmptyOrAppend
  <2>5. Len(v) \in Nat /\ ~ (n <= Len(v))
    BY <2>2, <2>4
  <2>6. Only(v, X) = v
    BY <2>1, <2>5
  <2>7. Only(u, X) = Append(Only(v, X), x)
    BY <2>4, OnlyAppend
  <2> QED BY <2>2, <2>4, <2>6, <2>7
<1>2. Len(s) \in Nat
  OBVIOUS
<1> QED BY <1>1, <1>2

\* Filters that agree on what a sequence has.
LEMMA OnlyAgree ==
    ASSUME NEW X, NEW S, NEW T, NEW s \in Seq(X),
           \A n \in 1 .. Len(s) : s[n] \in S <=> s[n] \in T
    PROVE  Only(s, S) = Only(s, T)
<1> DEFINE Y == {s[n] : n \in 1 .. Len(s)}
<1>1. s \in Seq(Y) /\ Y \cap S = Y \cap T
  OBVIOUS
<1> HIDE DEF Y
<1>2. Only(s, Y) = s
  BY <1>1, OnlyAll
<1>3. Only(Only(s, Y), S) = Only(s, Y \cap S) /\ Only(Only(s, Y), T) = Only(s, Y \cap T)
  BY <1>1, OnlyTwice
<1> QED BY <1>1, <1>2, <1>3

\* A filter that keeps nothing.
LEMMA OnlyNone ==
    ASSUME NEW X, NEW S, NEW s \in Seq(X), \A n \in 1 .. Len(s) : s[n] \notin S
    PROVE  Only(s, S) = <<>>
<1>1. Only(s, S) = Only(s, {})
  BY OnlyAgree
<1>2. Only(s, {}) \in Seq({})
  BY OnlyType
<1>3. \A t \in Seq({}) : t = <<>>
  OBVIOUS
<1> QED BY <1>1, <1>2, <1>3

-----------------------------------------------------------------------------
(* An element that goes behind s was ahead of t *)

LEMMA AppendBetween ==
    ASSUME NEW X, NEW s \in Seq(X), NEW t \in Seq(X), NEW x \in X
    PROVE  Append(s, x) \o t = s \o (<<x>> \o t)
<1>1. Append(s, x) = s \o <<x>> /\ <<x>> \in Seq(X)
  BY AppendIsConcat
<1> QED BY <1>1, ConcatAssociative

=============================================================================
