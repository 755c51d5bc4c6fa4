--------------------------- MODULE LifecycleProofs ---------------------------
(***************************************************************************)
(* Theorems about ServiceLifecycle.                                        *)
(***************************************************************************)
EXTENDS ServiceLifecycle, FiniteSetTheorems, TLAPS

\* What the proof needs of the variables' types.
FlagTypes ==
    /\ m_isAvailable \in [Spaces -> BOOLEAN]
    /\ at \in [Objects -> Constructing \cup Ended \cup {"new", "up", "lower", "closing"}]
    /\ space \in [Objects -> Spaces]

\* A server that is constructed will begin its destructor at the first space.
StartsAtFirst == \A v \in Servers : at[v] = "up" => space[v] = 1

\* A server that was constructed without a space is past it.
BareBehind ==
    \A v \in Servers : \A s \in Spaces : <<v, s>> \in bare =>
        at[v] # "new" /\ (at[v] \in Constructing => s < space[v])

FlagInv == FlagTypes /\ StartsAtFirst /\ BareBehind /\ NoPhantomServer

LEMMA SpacesFact == 1 \in Spaces /\ EventSpace \in Spaces /\ Spaces \subseteq Int
  BY LifecycleAssumption DEF Spaces, EventSpace

LEMMA FlagInvInit == ASSUME Init PROVE FlagInv
<1>1. FlagTypes
  BY SpacesFact DEF Init, FlagTypes
<1>2. StartsAtFirst
  BY DEF Init, StartsAtFirst, Objects
<1>3. \A s \in Spaces : ~ m_isAvailable[s]
  BY DEF Init
<1>4. BareBehind
  BY DEF Init, BareBehind
<1> QED BY <1>1, <1>2, <1>3, <1>4 DEF FlagInv, NoPhantomServer

\* A step that constructs no server without a space, and moves none back.
LEMMA BareStays ==
    ASSUME FlagInv, FlagTypes', bare' = bare,
           \A v \in Servers :
               \/ at'[v] = at[v] /\ space'[v] >= space[v]
               \/ at[v] = "new" \/ at'[v] \notin Constructing \cup {"new"}
               \/ at[v] \in Constructing /\ at'[v] # "new" /\ space'[v] >= space[v]
    PROVE  BareBehind'
<1>1. \A v \in Servers : space[v] \in Int /\ space'[v] \in Int
  BY SpacesFact DEF FlagInv, FlagTypes, Objects
<1>2. Spaces \subseteq Int
  BY SpacesFact
<1> QED BY <1>1, <1>2 DEF FlagInv, BareBehind

\* A step after which the same flags are up and the same servers have raised them.
LEMMA SameFlags ==
    ASSUME FlagInv, FlagTypes', m_isAvailable' = m_isAvailable, left \subseteq left',
           \A v \in Servers : \A s \in Spaces : Raised(v, s) => Raised(v, s)' \/ s \in left'
    PROVE  NoPhantomServer'
  BY DEF FlagInv, NoPhantomServer

LEMMA FlagInvStep == ASSUME FlagInv, [Next]_vars PROVE FlagInv'
<1> USE SpacesFact, LifecycleAssumption
<1> USE DEF FlagInv
<1>1. ASSUME NEW o \in Objects, isShared(o) PROVE FlagInv'
  <2>1. FlagTypes'
    BY <1>1 DEF isShared, FlagTypes, Goto, spaceVars, Constructing
  <2>2. StartsAtFirst'
    BY <1>1 DEF isShared, FlagTypes, StartsAtFirst, Goto
  <2>3. NoPhantomServer'
    BY <1>1, <2>1, SameFlags
    DEF isShared, FlagTypes, Goto, spaceVars, Raised, Constructing, Spaces
  <2>4. BareBehind'
    BY <1>1, <2>1, BareStays DEF isShared, FlagTypes, Goto, Constructing, Spaces, Objects
  <2> QED BY <2>1, <2>2, <2>3, <2>4
<1>2. ASSUME NEW o \in Objects, loadToShared(o) PROVE FlagInv'
  <2>1. FlagTypes'
    <3>1. m_isAvailable' \in [Spaces -> BOOLEAN]
      <4>1. m_isAvailable' \in {m_isAvailable, [m_isAvailable EXCEPT ![space[o]] = FlagAtCreation(o)]}
        BY <1>2 DEF loadToShared
      <4>2. FlagAtCreation(o) \in BOOLEAN
        BY DEF FlagAtCreation
      <4> QED BY <4>1, <4>2 DEF FlagTypes
    <3> QED BY <1>2, <3>1 DEF loadToShared, FlagTypes, Advance, Goto, Constructing, Spaces, EventSpace
  <2>2. StartsAtFirst'
    BY <1>2 DEF loadToShared, FlagTypes, StartsAtFirst, Advance, Goto
  <2>3. ASSUME NEW v \in Servers, NEW s \in Spaces, ~ (v = o /\ s = space[o])
        PROVE  <<v, s>> \in bare' <=> <<v, s>> \in bare
    <3>1. bare' = bare \/ bare' = bare \cup {<<o, space[o]>>}
      BY <1>2 DEF loadToShared
    <3> QED BY <2>3, <3>1
  <2>4. /\ at[o] = "make"
        /\ \/ at'[o] = "check" /\ space'[o] = space[o] + 1
           \/ at'[o] \in {"up", "register"} /\ space[o] = EventSpace
        /\ \A w \in Objects : w # o => at'[w] = at[w] /\ space'[w] = space[w]
    BY <1>2 DEF loadToShared, Advance, Goto, FlagTypes
  <2>5. BareBehind'
    <3> SUFFICES ASSUME NEW v \in Servers, NEW s \in Spaces, <<v, s>> \in bare'
                 PROVE  at'[v] # "new" /\ (at'[v] \in Constructing => s < space'[v])
      BY DEF BareBehind
    <3>1. CASE v # o
      BY <2>3, <2>4, <3>1 DEF BareBehind, Objects
    <3>2. CASE v = o
      <4>1. s <= space[o] /\ s \in Int /\ space[o] \in Int
        <5>1. s \in Int /\ space[o] \in Int /\ at[o] \in Constructing
          BY <2>4 DEF FlagTypes, Constructing
        <5>2. CASE s # space[o]
          <6>1. <<v, s>> \in bare
            BY <2>3, <5>2
          <6> QED BY <3>2, <5>1, <6>1 DEF BareBehind
        <5> QED BY <5>1, <5>2
      <4>2. at'[o] # "register"
        BY <1>2, <2>4, <3>2 DEF loadToShared, Advance, Goto, FlagTypes
      <4> QED BY <2>4, <3>2, <4>1, <4>2 DEF Constructing
    <3> QED BY <3>1, <3>2
  <2>6. NoPhantomServer'
    <3>1. left' = left
      BY <1>2 DEF loadToShared
    <3>2. ASSUME NEW v \in Servers, NEW s \in Spaces, Raised(v, s) PROVE Raised(v, s)'
      <4>1. ~ (v = o /\ s = space[o])
        <5>1. space[o] \in Int
          BY DEF FlagTypes
        <5> QED BY <2>4, <3>2, <5>1 DEF Raised
      <4>2. CASE v # o
        BY <2>3, <2>4, <3>2, <4>1, <4>2 DEF Raised, Objects
      <4>3. CASE v = o
        <5>1. <<v, s>> \notin bare' /\ s < space[o] /\ s \in Int /\ space[o] \in Int
          BY <2>3, <2>4, <3>2, <4>1, <4>3 DEF Raised, FlagTypes
        <5>2. at'[o] # "register"
          BY <1>2, <2>4, <4>3 DEF loadToShared, Advance, Goto, FlagTypes
        <5> QED BY <2>4, <4>3, <5>1, <5>2 DEF Raised, Constructing
      <4> QED BY <4>2, <4>3
    <3>3. ASSUME NEW s \in Spaces, m_isAvailable'[s]
          PROVE  s \in left' \/ \E v \in Servers : Raised(v, s)'
      <4>1. CASE s = space[o] /\ NowMapped(o)
        <5>1. o \in Servers /\ bare' = bare
          BY <1>2, <3>3, <4>1 DEF loadToShared, FlagAtCreation, FlagTypes
        <5>2. <<o, s>> \notin bare
          <6>1. at[o] \in Constructing /\ space[o] \in Int
            BY <2>4 DEF Constructing, FlagTypes
          <6> QED BY <4>1, <5>1, <6>1 DEF BareBehind
        <5>3. at'[o] = "up" \/ (at'[o] = "check" /\ space'[o] = s + 1)
          BY <1>2, <4>1, <5>1 DEF loadToShared, Advance, Goto, FlagTypes
        <5>4. Raised(o, s)'
          BY <5>1, <5>2, <5>3 DEF Raised, Constructing
        <5> QED BY <5>1, <5>4
      <4>2. CASE s # space[o] \/ ~ NowMapped(o)
        <5>1. m_isAvailable[s]
          BY <1>2, <3>3, <4>2 DEF loadToShared, FlagTypes
        <5> QED BY <3>1, <3>2, <5>1 DEF NoPhantomServer
      <4> QED BY <4>1, <4>2
    <3> QED BY <3>3 DEF NoPhantomServer
  <2> QED BY <2>1, <2>2, <2>5, <2>6
<1>3. ASSUME NEW o \in Objects, HangInLoadToShared(o) PROVE FlagInv'
  <2>1. FlagTypes'
    BY <1>3 DEF HangInLoadToShared, FlagTypes, Goto, spaceVars, Constructing
  <2>2. StartsAtFirst'
    BY <1>3 DEF HangInLoadToShared, FlagTypes, StartsAtFirst, Goto
  <2>3. NoPhantomServer'
    BY <1>3, <2>1, SameFlags
    DEF HangInLoadToShared, FlagTypes, Goto, spaceVars, disturbances, Raised, Constructing, Objects
  <2>4. BareBehind'
    BY <1>3, <2>1, BareStays
    DEF HangInLoadToShared, FlagTypes, Goto, disturbances, Constructing, Spaces, Objects
  <2> QED BY <2>1, <2>2, <2>3, <2>4
<1>4. ASSUME NEW o \in Objects, loadFromShared(o) PROVE FlagInv'
  <2>1. FlagTypes'
    BY <1>4 DEF loadFromShared, FlagTypes, Advance, Goto, spaceVars, Constructing, Spaces, EventSpace
  <2>2. StartsAtFirst'
    <3>1. CASE o \in Servers
      <4>1. at' = [at EXCEPT ![o] = "raise"] /\ space' = space
        BY <1>4, <3>1 DEF loadFromShared, Goto
      <4> QED BY <4>1 DEF FlagTypes, StartsAtFirst, Objects
    <3>2. CASE o \notin Servers
      BY <1>4, <3>2 DEF loadFromShared, FlagTypes, StartsAtFirst, Advance, Goto, Objects
    <3> QED BY <3>1, <3>2
  <2>3. NoPhantomServer'
    BY <1>4, <2>1, SameFlags
    DEF loadFromShared, FlagTypes, Advance, Goto, spaceVars, disturbances, Raised, Constructing, Objects
  <2>4. BareBehind'
    <3>1. \A v \in Servers : \/ at'[v] = at[v] /\ space'[v] = space[v]
                             \/ at[v] = "load" /\ at'[v] = "raise" /\ space'[v] = space[v]
      BY <1>4 DEF loadFromShared, FlagTypes, Advance, Goto, Objects
    <3>2. bare' = bare /\ \A v \in Servers : space[v] \in Int
      BY <1>4 DEF loadFromShared, disturbances, FlagTypes, Objects
    <3> QED BY <2>1, <3>1, <3>2, BareStays DEF Constructing
  <2> QED BY <2>1, <2>2, <2>3, <2>4
<1>5. ASSUME NEW v \in Servers, Raise(v) PROVE FlagInv'
  <2>1. FlagTypes'
    BY <1>5 DEF Raise, FlagTypes, Advance, Goto, Constructing, Spaces, EventSpace, Objects
  <2>2. StartsAtFirst'
    BY <1>5 DEF Raise, FlagTypes, StartsAtFirst, Advance, Goto, Objects
  <2>3. NoPhantomServer'
    <3>1. left' = left
      BY <1>5 DEF Raise, disturbances
    <3>2. ASSUME NEW w \in Servers, NEW s \in Spaces, Raised(w, s) PROVE Raised(w, s)'
      <4>1. CASE w = v
        BY <1>5, <3>2, <4>1
        DEF Raise, disturbances, FlagTypes, Raised, Advance, Goto, Constructing, Spaces, EventSpace, Objects
      <4>2. CASE w # v
        <5>1. at'[w] = at[w] /\ space'[w] = space[w]
          BY <1>5, <4>2 DEF Raise, FlagTypes, Advance, Goto, Objects
        <5> QED BY <1>5, <3>2, <5>1 DEF Raise, disturbances, Raised
      <4> QED BY <4>1, <4>2
    <3>3. \A s \in Spaces : s = space[v] => Raised(v, s)'
      <4>1. \A s \in Spaces : s = space[v] => <<v, s>> \notin bare
        BY <1>5 DEF Raise, BareBehind, FlagTypes, Constructing, Objects
      <4>2. at'[v] = "up" \/ (at'[v] = "check" /\ space'[v] = space[v] + 1)
        BY <1>5 DEF Raise, FlagTypes, Advance, Goto, Objects
      <4>3. bare' = bare /\ space[v] \in Int
        BY <1>5 DEF Raise, disturbances, FlagTypes, Objects
      <4> QED BY <4>1, <4>2, <4>3 DEF Raised, Constructing
    <3>4. \A s \in Spaces : s # space[v] => m_isAvailable'[s] = m_isAvailable[s]
      BY <1>5 DEF Raise, FlagTypes
    <3>5. ASSUME NEW s \in Spaces, m_isAvailable'[s]
          PROVE  s \in left' \/ \E w \in Servers : Raised(w, s)'
      <4>1. CASE s = space[v]
        BY <3>3, <4>1
      <4>2. CASE s # space[v]
        <5>1. m_isAvailable[s]
          BY <3>4, <3>5, <4>2
        <5> QED BY <3>1, <3>2, <5>1 DEF NoPhantomServer
      <4> QED BY <4>1, <4>2
    <3> QED BY <3>5 DEF NoPhantomServer
  <2>4. BareBehind'
    <3>1. \A w \in Servers : \/ at'[w] = at[w] /\ space'[w] = space[w]
                             \/ at'[w] = "up"
                             \/ at[w] = "raise" /\ at'[w] = "check" /\ space'[w] = space[w] + 1
      BY <1>5 DEF Raise, FlagTypes, Advance, Goto, Objects
    <3>2. bare' = bare /\ \A w \in Servers : space[w] \in Int
      BY <1>5 DEF Raise, disturbances, FlagTypes, Objects
    <3> QED BY <2>1, <3>1, <3>2, BareStays DEF Constructing
  <2> QED BY <2>1, <2>2, <2>3, <2>4
<1>6. ASSUME NEW v \in Servers, Lower(v) PROVE FlagInv'
  <2>1. FlagTypes'
    BY <1>6 DEF Lower, LastLowered, FlagTypes, Goto, Ended, Spaces, EventSpace, Objects
  <2>2. StartsAtFirst'
    BY <1>6 DEF Lower, FlagTypes, StartsAtFirst, Goto, Objects
  <2>3. NoPhantomServer'
    <3>1. left' = left
      BY <1>6 DEF Lower
    <3>2. ASSUME NEW w \in Servers, NEW s \in Spaces, Raised(w, s), s # space[v] PROVE Raised(w, s)'
      BY <1>6, <3>2 DEF Lower, LastLowered, FlagTypes, Raised, Goto, Constructing, Ended, Spaces, EventSpace, Objects
    <3>3. \A s \in Spaces : m_isAvailable'[s] => m_isAvailable[s] /\ s # space[v]
      BY <1>6 DEF Lower, FlagTypes, Objects
    <3> QED BY <3>1, <3>2, <3>3 DEF NoPhantomServer
  <2>4. BareBehind'
    <3>1. \A w \in Servers : \/ at'[w] = at[w] /\ space'[w] = space[w]
                             \/ at'[w] \in {"lower", "gone"}
      BY <1>6 DEF Lower, FlagTypes, Goto, Objects
    <3>2. bare' = bare /\ \A w \in Servers : space[w] \in Int
      BY <1>6 DEF Lower, FlagTypes, Objects
    <3> QED BY <2>1, <3>1, <3>2, BareStays DEF Constructing
  <2> QED BY <2>1, <2>2, <2>3, <2>4
<1>7. ASSUME NEW o \in Objects, BeginDestroy(o) PROVE FlagInv'
  <2>1. FlagTypes'
    BY <1>7 DEF BeginDestroy, FlagTypes, Goto, spaceVars
  <2>2. StartsAtFirst'
    BY <1>7 DEF BeginDestroy, FlagTypes, StartsAtFirst, Goto
  <2>3. NoPhantomServer'
    <3>1. ASSUME NEW v \in Servers, NEW s \in Spaces, Raised(v, s) PROVE Raised(v, s)'
      BY <1>7, <3>1
      DEF BeginDestroy, disturbances, FlagTypes, StartsAtFirst, Raised, Goto, Constructing, Spaces, Objects
    <3> QED BY <1>7, <2>1, <3>1, SameFlags DEF BeginDestroy, spaceVars, disturbances
  <2>4. BareBehind'
    <3>1. \A w \in Servers : \/ at'[w] = at[w] /\ space'[w] = space[w]
                             \/ at'[w] \in {"lower", "closing"}
      BY <1>7 DEF BeginDestroy, FlagTypes, Goto, Objects
    <3>2. bare' = bare /\ \A w \in Servers : space[w] \in Int
      BY <1>7 DEF BeginDestroy, disturbances, FlagTypes, Objects
    <3> QED BY <2>1, <3>1, <3>2, BareStays DEF Constructing
  <2> QED BY <2>1, <2>2, <2>3, <2>4
<1>8. ASSUME NEW c \in Clients, ClientStep(c) PROVE FlagInv'
  <2>1. /\ UNCHANGED <<m_isAvailable, space, left, bare>>
        /\ at' = at \/ \E place \in {"first", "up", "gone"} : at' = [at EXCEPT ![c] = place]
    BY <1>8
    DEF ClientStep, PollStep, Register, TakesId, idVars, ReadFlag, ReadLastFlag, ConnectionThreadEnds, Goto, spaceVars, disturbances
  <2>2. FlagTypes'
    BY <2>1 DEF FlagTypes, Constructing, Ended, Objects
  <2>3. \A v \in Servers : at'[v] = at[v]
    BY <2>1 DEF FlagTypes, Objects
  <2>4. StartsAtFirst'
    BY <2>1, <2>3 DEF StartsAtFirst
  <2>5. NoPhantomServer'
    BY <2>1, <2>2, <2>3, SameFlags DEF Raised
  <2>6. BareBehind'
    BY <2>1, <2>3 DEF BareBehind
  <2> QED BY <2>2, <2>4, <2>5, <2>6
<1>9. ASSUME NEW p \in Processes, Crash(p) PROVE FlagInv'
  <2> DEFINE dies == {o \in Objects : ProcessOf[o] = p /\ Live(o)}
  <2>1. /\ UNCHANGED <<m_isAvailable, space, bare>>
        /\ at' = [o \in Objects |-> IF o \in dies THEN "dead" ELSE at[o]]
        /\ left' = left \cup {s \in Spaces : \E v \in dies \cap Servers : Raised(v, s)}
    BY <1>9 DEF Crash, spaceVars
  <2>2. FlagTypes'
    BY <2>1 DEF FlagTypes, Ended
  <2>3. StartsAtFirst'
    BY <2>1 DEF StartsAtFirst, Objects
  <2>4. ASSUME NEW v \in Servers, NEW s \in Spaces, Raised(v, s) PROVE Raised(v, s)' \/ s \in left'
    <3>1. CASE v \in dies
      BY <2>1, <2>4, <3>1
    <3>2. CASE v \notin dies
      BY <2>1, <2>4, <3>2 DEF Raised, Objects
    <3> QED BY <3>1, <3>2
  <2>5. NoPhantomServer'
    BY <2>1, <2>2, <2>4, SameFlags
  <2>6. BareBehind'
    <3>1. \A v \in Servers : at'[v] \in {at[v], "dead"}
      BY <2>1 DEF Objects
    <3> QED BY <2>1, <3>1 DEF BareBehind, Constructing
  <2> QED BY <2>2, <2>3, <2>5, <2>6
<1>10. CASE UNCHANGED vars
  <2>1. UNCHANGED <<m_isAvailable, at, space, left, bare>>
    BY <1>10 DEF vars, spaceVars, disturbances
  <2> QED BY <2>1 DEF FlagTypes, StartsAtFirst, BareBehind, NoPhantomServer, Raised
<1> QED
  BY <1>1, <1>2, <1>3, <1>4, <1>5, <1>6, <1>7, <1>8, <1>9, <1>10 DEF Next, ConstructStep, ServerStep

\* The flags of the three spaces never announce a server that is not there, for any
\* number of servers, clients, processes, crashes and descriptors, except for those
\* a server died with.
THEOREM NoPhantoms == Spec => []NoPhantomServer
<1>1. FlagInv => NoPhantomServer
  BY DEF FlagInv
<1> QED BY <1>1, FlagInvInit, FlagInvStep, PTL DEF Spec

-----------------------------------------------------------------------------
(***************************************************************************)
(* Nothing a live object relies on is overwritten.  An object makes a      *)
(* space only when it found none.  If the space exists by the time it      *)
(* writes it, either it had no descriptor to look, or another object was   *)
(* making it too, and one of them saw the other.  Whoever raised a flag,   *)
(* or was given an id, had the space mapped, and so the space exists.      *)
(***************************************************************************)

KeptTypes ==
    /\ exists \subseteq Spaces
    /\ mapping \in [Processes -> [Spaces -> Objects \cup {None}]]
    /\ holds \in [Clients -> [Spaces -> Objects \cup {None}]]
    /\ registered \subseteq Clients
    /\ m_evClientId \subseteq Clients

MappedExist ==
    /\ \A p \in Processes : \A s \in Spaces : mapping[p][s] # None => s \in exists
    /\ \A c \in Clients : \A s \in Spaces : holds[c][s] # None => s \in exists

FoundExist == \A o \in Objects : at[o] \in {"load", "raise"} => space[o] \in exists
RaisedExist == \A v \in Servers : \A s \in Spaces : Raised(v, s) => s \in exists
IdsExist == m_evClientId # {} => EventSpace \in exists

FreshAtFirst == \A o \in Objects : at[o] = "new" => space[o] = 1

Undone == raced \cup starved
LateMaker == \A o \in Objects : at[o] = "make" /\ space[o] \in exists => space[o] \in Undone
TwoMakers ==
    \A o, w \in Objects : o # w /\ at[o] = "make" /\ at[w] = "make" /\ space[o] = space[w]
        => space[o] \in Undone

FlagsKept ==
    \A v \in Servers : \A s \in Spaces : Raised(v, s) => m_isAvailable[s] \/ s \in Undone \cup overlapped

IdsKept == \A c \in m_evClientId : c \in registered \/ EventSpace \in Undone

KeptInv ==
    /\ FlagTypes /\ StartsAtFirst /\ KeptTypes
    /\ FreshAtFirst /\ MappedExist /\ FoundExist /\ RaisedExist /\ IdsExist
    /\ LateMaker /\ TwoMakers /\ FlagsKept /\ IdsKept

LEMMA KeptInvInit == ASSUME Init PROVE KeptInv
<1>1. FlagTypes /\ StartsAtFirst
  BY FlagInvInit DEF FlagInv
<1>2. KeptTypes /\ MappedExist
  BY DEF Init, KeptTypes, MappedExist, NoMappings
<1>3. \A o \in Objects : at[o] = "new"
  BY DEF Init
<1>4. FreshAtFirst /\ FoundExist /\ LateMaker /\ TwoMakers
  BY <1>3 DEF Init, FreshAtFirst, FoundExist, LateMaker, TwoMakers
<1>5. FlagsKept /\ RaisedExist
  BY <1>3 DEF FlagsKept, RaisedExist, Raised, Objects, Constructing
<1>6. IdsKept /\ IdsExist
  BY DEF Init, IdsKept, IdsExist
<1> QED BY <1>1, <1>2, <1>4, <1>5, <1>6 DEF KeptInv

\* A step that moves no object except from one place beyond all spaces to another,
\* or out of the system, and changes nothing else the invariant is about.
LEMMA KeptElsewhere ==
    ASSUME KeptInv, FlagTypes', StartsAtFirst', KeptTypes', MappedExist',
           exists' = exists, Undone \subseteq Undone', registered \subseteq registered',
           \A o \in Objects : at'[o] \in {"load", "raise"} =>
               at[o] \in {"load", "raise"} /\ space'[o] = space[o],
           \A o \in Objects : at'[o] = "make" => at[o] = "make" /\ space'[o] = space[o],
           \A v \in Servers : \A s \in Spaces : Raised(v, s)' =>
               Raised(v, s) /\ (m_isAvailable[s] => m_isAvailable'[s] \/ s \in overlapped'),
           overlapped \subseteq overlapped',
           \A c \in m_evClientId' : c \in m_evClientId \/ (c \in registered' /\ EventSpace \in exists),
           \A o \in Objects : at'[o] = "new" => at[o] = "new" /\ space'[o] = space[o]
    PROVE  KeptInv'
<1>1. FoundExist' /\ RaisedExist' /\ IdsExist'
  BY DEF KeptInv, FoundExist, RaisedExist, IdsExist
<1>2. LateMaker'
  BY DEF KeptInv, LateMaker
<1>3. TwoMakers'
  BY DEF KeptInv, TwoMakers
<1>4. FlagsKept'
  BY DEF KeptInv, FlagsKept
<1>5. IdsKept'
  BY DEF KeptInv, IdsKept
<1>6. FreshAtFirst'
  BY DEF KeptInv, FreshAtFirst
<1> QED BY <1>1, <1>2, <1>3, <1>4, <1>5, <1>6 DEF KeptInv

\* An object that asks for a mapping leaves the space in existence, if it has one.
LEMMA CreatedExists ==
    ASSUME KeptInv, NEW o \in Objects, createImpl(o), Keep(o) \/ holds' = holds
    PROVE  /\ exists \subseteq exists' /\ exists' \subseteq exists \cup {space[o]}
           /\ NowMapped(o) => space[o] \in exists'
           /\ MappedExist'
<1> USE LifecycleAssumption
<1> DEFINE p == ProcessOf[o]
<1>1. p \in Processes /\ space[o] \in Spaces
  BY DEF KeptInv, FlagTypes
<1>2. /\ exists \subseteq exists' /\ exists' \subseteq exists \cup {space[o]}
      /\ \A q \in Processes : \A s \in Spaces : mapping'[q][s] # None => s \in exists'
  <2>1. CASE FdLeft(p)
    <3>1. exists' = exists \cup {space[o]} /\ mapping' = [mapping EXCEPT ![p][space[o]] = o]
      BY <2>1 DEF createImpl
    <3> QED BY <1>1, <3>1 DEF KeptInv, KeptTypes, MappedExist
  <2>2. CASE ~ FdLeft(p)
    BY <2>2 DEF createImpl, KeptInv, MappedExist
  <2> QED BY <2>1, <2>2
<1>3. ASSUME NEW c \in Clients, NEW s \in Spaces, holds'[c][s] # None PROVE s \in exists'
  <2>1. holds'[c][s] = holds[c][s] \/ (s = space[o] /\ holds'[c][s] = mapping'[p][s])
    BY <1>1 DEF Keep, KeptInv, KeptTypes
  <2> QED BY <1>1, <1>2, <1>3, <2>1 DEF KeptInv, MappedExist
<1> QED BY <1>1, <1>2, <1>3 DEF MappedExist, NowMapped

LEMMA CreatedOnce ==
    ASSUME NEW o, createImpl(o), FdLeft(ProcessOf[o])
    PROVE  /\ exists' = exists \cup {space[o]}
           /\ mapping' = [mapping EXCEPT ![ProcessOf[o]][space[o]] = o]
BY DEF createImpl

LEMMA CreatedTypes ==
    ASSUME KeptInv, NEW o \in Objects, createImpl(o), Keep(o) \/ holds' = holds
    PROVE  /\ exists' \subseteq Spaces
           /\ mapping' \in [Processes -> [Spaces -> Objects \cup {None}]]
           /\ holds' \in [Clients -> [Spaces -> Objects \cup {None}]]
<1>1. ProcessOf[o] \in Processes /\ space[o] \in Spaces
  BY LifecycleAssumption DEF KeptInv, FlagTypes
<1>2. exists' \subseteq Spaces /\ mapping' \in [Processes -> [Spaces -> Objects \cup {None}]]
  <2>1. CASE FdLeft(ProcessOf[o])
    <3>1. /\ exists' = exists \cup {space[o]}
          /\ mapping' = [mapping EXCEPT ![ProcessOf[o]][space[o]] = o]
      BY <2>1, CreatedOnce
    <3> QED BY <1>1, <3>1 DEF KeptInv, KeptTypes
  <2>2. CASE ~ FdLeft(ProcessOf[o])
    BY <2>2 DEF createImpl, KeptInv, KeptTypes
  <2> QED BY <2>1, <2>2
<1>3. mapping'[ProcessOf[o]][space[o]] \in Objects \cup {None}
  BY <1>1, <1>2
<1>4. \/ holds' = holds
      \/ holds' = [holds EXCEPT ![o][space[o]] = mapping'[ProcessOf[o]][space[o]]]
  BY DEF Keep
<1>5. holds' \in [Clients -> [Spaces -> Objects \cup {None}]]
  BY <1>1, <1>3, <1>4 DEF KeptInv, KeptTypes
<1> QED BY <1>2, <1>5

LEMMA IsSharedKeeps ==
    ASSUME KeptInv, FlagInv', NEW o \in Objects, isShared(o) PROVE KeptInv'
<1> USE SpacesFact
<1> DEFINE s0 == space[o]
<1>1. /\ UNCHANGED <<exists, registered, m_evClientId, mapping, holds, space, m_isAvailable,
                     overlapped, bare>>
      /\ at[o] \in {"new", "check"}
      /\ at' = [at EXCEPT ![o] = IF Found(o) THEN "load" ELSE "make"]
  BY DEF isShared, spaceVars, idVars, Goto
<1>2. Undone \subseteq Undone'
  BY DEF isShared, Undone
<1>3. FlagTypes /\ FlagTypes' /\ StartsAtFirst'
  BY DEF KeptInv, FlagInv
<1>4. KeptTypes' /\ MappedExist'
  BY <1>1 DEF KeptInv, KeptTypes, MappedExist
<1>5. \A w \in Objects : w # o => at'[w] = at[w]
  BY <1>1, <1>3 DEF FlagTypes
<1>6. at'[o] = IF Found(o) THEN "load" ELSE "make"
  BY <1>1, <1>3 DEF FlagTypes
<1>7. FoundExist' /\ IdsExist'
  <2>1. at'[o] = "load" => s0 \in exists
    BY <1>6 DEF Found
  <2>2. at'[o] # "raise"
    BY <1>6
  <2> QED BY <1>1, <1>5, <2>1, <2>2 DEF KeptInv, FoundExist, IdsExist
<1>8. LateMaker'
  <2>1. ASSUME at'[o] = "make", s0 \in exists PROVE s0 \in Undone'
    <3>1. ~ Found(o)
      BY <1>6, <2>1
    <3> QED BY <2>1, <3>1 DEF Found, isShared, Undone
  <2>2. ASSUME NEW w \in Objects, w # o, at'[w] = "make", space[w] \in exists PROVE space[w] \in Undone'
    BY <1>2, <1>5, <2>2 DEF KeptInv, LateMaker
  <2> QED BY <1>1, <2>1, <2>2 DEF LateMaker
<1>9. TwoMakers'
  <2>1. ASSUME NEW w \in Objects, w # o, at'[w] = "make", at'[o] = "make", space[w] = s0
        PROVE  s0 \in Undone'
    <3>1. ~ Found(o) /\ at[w] = "make"
      BY <1>5, <1>6, <2>1
    <3> QED BY <2>1, <3>1 DEF isShared, Undone
  <2>2. ASSUME NEW x \in Objects, NEW w \in Objects, x # w, x # o, w # o,
               at'[x] = "make", at'[w] = "make", space[x] = space[w]
        PROVE  space[x] \in Undone'
    BY <1>2, <1>5, <2>2 DEF KeptInv, TwoMakers
  <2> QED BY <1>1, <2>1, <2>2 DEF TwoMakers
<1>10. FlagsKept' /\ RaisedExist'
  <2>1. ASSUME NEW v \in Servers, NEW s \in Spaces, Raised(v, s)' PROVE Raised(v, s)
    BY <1>1, <1>5, <1>6, <2>1 DEF KeptInv, FreshAtFirst, Raised, Constructing, Objects, Spaces
  <2> QED BY <1>1, <1>2, <2>1 DEF KeptInv, FlagsKept, RaisedExist
<1>11. IdsKept'
  BY <1>1, <1>2 DEF KeptInv, IdsKept
<1>12. FreshAtFirst'
  BY <1>1, <1>5, <1>6 DEF KeptInv, FreshAtFirst
<1> QED BY <1>3, <1>4, <1>7, <1>8, <1>9, <1>10, <1>11, <1>12 DEF KeptInv

\* The two steps that make a space: the space of the object is written, or will be.
LEMMA MakingKeeps ==
    ASSUME KeptInv, FlagInv', NEW o \in Objects, loadToShared(o) \/ HangInLoadToShared(o)
    PROVE  KeptInv'
<1> USE SpacesFact
<1> DEFINE s0 == space[o]
<1>1. /\ createImpl(o)
      /\ Keep(o) \/ holds' = holds
      /\ at[o] = "make"
      /\ UNCHANGED <<raced, starved, overlapped, m_evClientId>>
      /\ bare' = bare \/ bare' = bare \cup {<<o, s0>>}
  BY DEF loadToShared, HangInLoadToShared, spaceVars, idVars, disturbances
<1>2. /\ exists \subseteq exists' /\ exists' \subseteq exists \cup {s0} /\ MappedExist'
      /\ NowMapped(o) => s0 \in exists'
  BY <1>1, CreatedExists
<1>3. FlagTypes /\ FlagTypes' /\ StartsAtFirst' /\ s0 \in Spaces
  BY DEF KeptInv, FlagInv, FlagTypes
<1>4. s0 \in exists => s0 \in Undone
  BY <1>1 DEF KeptInv, LateMaker
<1>5. Undone' = Undone
  BY <1>1 DEF Undone
<1>6. /\ at'[o] \in {"check", "up", "register", "hung"}
      /\ at'[o] = "check" => space'[o] = s0 + 1
      /\ at'[o] = "hung" => space'[o] = s0
      /\ \A w \in Objects : w # o => at'[w] = at[w] /\ space'[w] = space[w]
  BY <1>3 DEF loadToShared, HangInLoadToShared, Advance, Goto, FlagTypes
<1>7. at'[o] \in {"up", "register"} => s0 = EventSpace
  BY <1>3 DEF loadToShared, HangInLoadToShared, Advance, Goto, FlagTypes
<1>8. KeptTypes'
  <2>1. registered' \subseteq Clients /\ m_evClientId' \subseteq Clients
    BY <1>1 DEF loadToShared, HangInLoadToShared, spaceVars, idVars, KeptInv, KeptTypes
  <2> QED BY <1>1, <2>1, CreatedTypes DEF KeptTypes
\* What is raised after the step was raised before it, or is a flag just written.
<1>9. ASSUME NEW v \in Servers, NEW s \in Spaces, Raised(v, s)'
      PROVE  Raised(v, s) \/ (v = o /\ s = s0 /\ loadToShared(o) /\ NowMapped(o))
  <2>1. <<v, s>> \notin bare
    BY <1>1, <1>9 DEF Raised
  <2>2. CASE v # o
    BY <1>6, <1>9, <2>1, <2>2 DEF Raised, Objects
  <2>3. CASE v = o
    <3>1. s \in Int /\ s0 \in Int /\ s <= EventSpace
      BY <1>3 DEF Spaces, EventSpace
    <3>2. s < s0 \/ (s = s0 /\ at'[o] # "hung")
      BY <1>6, <1>7, <1>9, <2>3, <3>1 DEF Raised, Constructing
    <3>3. s < s0 => Raised(o, s)
      BY <1>1, <2>1, <2>3 DEF Raised, Constructing
    <3>4. at'[o] # "hung" => loadToShared(o)
      BY <1>3 DEF HangInLoadToShared, Goto, FlagTypes
    <3>5. s = s0 /\ loadToShared(o) => NowMapped(o)
      BY <1>9, <2>3 DEF loadToShared, Raised
    <3> QED BY <2>3, <3>2, <3>3, <3>4, <3>5
  <2> QED BY <2>2, <2>3
<1>10. FoundExist' /\ IdsExist' /\ RaisedExist'
  <2>1. FoundExist'
    BY <1>2, <1>6 DEF KeptInv, FoundExist
  <2>2. IdsExist'
    BY <1>1, <1>2 DEF KeptInv, IdsExist
  <2>3. RaisedExist'
    BY <1>2, <1>9 DEF KeptInv, RaisedExist
  <2> QED BY <2>1, <2>2, <2>3
<1>11. LateMaker'
  <2>1. ASSUME NEW w \in Objects, at'[w] = "make", space'[w] \in exists' PROVE space'[w] \in Undone
    <3>1. w # o /\ at[w] = "make" /\ space'[w] = space[w]
      BY <1>6, <2>1
    <3>2. CASE space[w] = s0
      BY <1>1, <3>1, <3>2 DEF KeptInv, TwoMakers
    <3>3. CASE space[w] # s0
      BY <1>2, <2>1, <3>1, <3>3 DEF KeptInv, LateMaker
    <3> QED BY <3>2, <3>3
  <2> QED BY <1>5, <2>1 DEF LateMaker
<1>12. TwoMakers'
  BY <1>5, <1>6 DEF KeptInv, TwoMakers
<1>13. FlagsKept'
  <2>1. ASSUME NEW v \in Servers, NEW s \in Spaces, Raised(v, s)'
        PROVE  m_isAvailable'[s] \/ s \in Undone \cup overlapped
    <3>1. CASE loadToShared(o) /\ NowMapped(o) /\ s = s0
      <4>1. CASE v = o
        BY <1>3, <3>1, <4>1 DEF loadToShared, FlagAtCreation, FlagTypes
      <4>2. CASE v # o
        <5>1. s0 \in exists
          BY <1>9, <2>1, <3>1, <4>2 DEF KeptInv, RaisedExist
        <5> QED BY <1>4, <3>1, <5>1
      <4> QED BY <4>1, <4>2
    <3>2. CASE ~ (loadToShared(o) /\ NowMapped(o) /\ s = s0)
      <4>1. m_isAvailable'[s] = m_isAvailable[s]
        BY <1>3, <3>2 DEF loadToShared, HangInLoadToShared, spaceVars, FlagTypes
      <4> QED BY <1>9, <2>1, <3>2, <4>1 DEF KeptInv, FlagsKept
    <3> QED BY <3>1, <3>2
  <2> QED BY <1>1, <1>5, <2>1 DEF FlagsKept
<1>14. IdsKept'
  <2>1. ASSUME NEW c \in m_evClientId PROVE c \in registered' \/ EventSpace \in Undone
    <3>1. CASE registered' = registered
      BY <3>1 DEF KeptInv, IdsKept
    <3>2. CASE registered' # registered
      <4>1. s0 = EventSpace
        BY <3>2 DEF loadToShared, HangInLoadToShared, spaceVars, idVars
      <4>2. EventSpace \in exists
        BY DEF KeptInv, IdsExist
      <4> QED BY <1>4, <4>1, <4>2
    <3> QED BY <3>1, <3>2
  <2> QED BY <1>1, <1>5, <2>1 DEF IdsKept
<1>15. FreshAtFirst'
  BY <1>6 DEF KeptInv, FreshAtFirst
<1> QED BY <1>2, <1>3, <1>8, <1>10, <1>11, <1>12, <1>13, <1>14, <1>15 DEF KeptInv

LEMMA LoadKeeps ==
    ASSUME KeptInv, FlagInv', NEW o \in Objects, loadFromShared(o) PROVE KeptInv'
<1> USE SpacesFact
<1>1. createImpl(o) /\ Keep(o) /\ at[o] = "load"
      /\ UNCHANGED <<registered, m_evClientId, m_isAvailable, raced, starved, overlapped, bare>>
  BY DEF loadFromShared, spaceVars, idVars, disturbances
<1>2. FlagTypes /\ FlagTypes' /\ StartsAtFirst'
  BY DEF KeptInv, FlagInv
<1>3. exists' = exists /\ MappedExist'
  <2>1. space[o] \in exists
    BY <1>1 DEF KeptInv, FoundExist
  <2> QED BY <1>1, <2>1, CreatedExists
<1>4. KeptTypes'
  BY <1>1, CreatedTypes DEF KeptInv, KeptTypes
<1>5. /\ at'[o] \in {"raise", "check", "register"}
      /\ at'[o] = "raise" => space'[o] = space[o]
      /\ at'[o] = "check" => space'[o] = space[o] + 1
      /\ at'[o] = "register" => space[o] = EventSpace
      /\ \A w \in Objects : w # o => at'[w] = at[w] /\ space'[w] = space[w]
      /\ o \in Servers => at'[o] = "raise"
  <2>1. CASE o \in Servers
    BY <1>2, <2>1 DEF loadFromShared, Goto, FlagTypes
  <2>2. CASE o \notin Servers
    BY <1>2, <2>2 DEF loadFromShared, Advance, Goto, FlagTypes
  <2> QED BY <2>1, <2>2
<1>6. \A w \in Objects : at'[w] \in {"load", "raise"} =>
          at[w] \in {"load", "raise"} /\ space'[w] = space[w]
  BY <1>1, <1>5
<1>7. ASSUME NEW v \in Servers, NEW s \in Spaces, Raised(v, s)' PROVE Raised(v, s)
  <2>1. CASE v = o
    BY <1>1, <1>5, <1>7, <2>1 DEF Raised, Constructing
  <2>2. CASE v # o
    BY <1>1, <1>5, <1>7, <2>2 DEF Raised, Objects
  <2> QED BY <2>1, <2>2
<1>8. Undone' = Undone
  BY <1>1 DEF Undone
<1>9. \A w \in Objects : /\ at'[w] = "make" => at[w] = "make" /\ space'[w] = space[w]
                         /\ at'[w] = "new" => at[w] = "new" /\ space'[w] = space[w]
  BY <1>5
<1> QED BY <1>1, <1>2, <1>3, <1>4, <1>6, <1>7, <1>8, <1>9, KeptElsewhere

LEMMA RaiseKeeps ==
    ASSUME KeptInv, FlagInv', NEW v \in Servers, Raise(v) PROVE KeptInv'
<1> USE SpacesFact
<1>1. /\ at[v] = "raise"
      /\ UNCHANGED <<exists, mapping, holds, registered, m_evClientId, raced, starved, overlapped, bare>>
  BY DEF Raise, osVars, idVars, disturbances
<1>2. FlagTypes /\ FlagTypes' /\ StartsAtFirst' /\ v \in Objects
  BY DEF KeptInv, FlagInv, Objects
<1>3. KeptTypes' /\ MappedExist'
  BY <1>1 DEF KeptInv, KeptTypes, MappedExist
<1>4. /\ at'[v] \in {"check", "up"}
      /\ at'[v] = "check" => space'[v] = space[v] + 1
      /\ at'[v] = "up" => space[v] = EventSpace
      /\ \A w \in Objects : w # v => at'[w] = at[w] /\ space'[w] = space[w]
      /\ m_isAvailable' = [m_isAvailable EXCEPT ![space[v]] = TRUE]
  BY <1>2 DEF Raise, Advance, Goto, FlagTypes
<1>5. FoundExist' /\ IdsExist'
  BY <1>1, <1>2, <1>4 DEF KeptInv, FoundExist, IdsExist
<1>6. Undone' = Undone
  BY <1>1 DEF Undone
<1>7. LateMaker' /\ TwoMakers' /\ FreshAtFirst'
  BY <1>1, <1>2, <1>4, <1>6 DEF KeptInv, LateMaker, TwoMakers, FreshAtFirst
<1>8. FlagsKept' /\ RaisedExist'
  <2>1. ASSUME NEW w \in Servers, NEW s \in Spaces, Raised(w, s)', s # space[v] PROVE Raised(w, s)
    <3>1. CASE w = v
      BY <1>1, <1>2, <1>4, <2>1, <3>1 DEF Raised, FlagTypes, Spaces, EventSpace, Constructing
    <3>2. CASE w # v
      BY <1>1, <1>4, <2>1, <3>2 DEF Raised, Objects
    <3> QED BY <3>1, <3>2
  <2>2. \A s \in Spaces : m_isAvailable'[s] <=> s = space[v] \/ m_isAvailable[s]
    BY <1>2, <1>4 DEF FlagTypes
  <2>3. FlagsKept'
    BY <1>1, <1>6, <2>1, <2>2 DEF KeptInv, FlagsKept
  <2>4. space[v] \in exists
    BY <1>1, <1>2 DEF KeptInv, FoundExist
  <2>5. RaisedExist'
    BY <1>1, <2>1, <2>4 DEF KeptInv, RaisedExist
  <2> QED BY <2>3, <2>5
<1>9. IdsKept'
  BY <1>1, <1>6 DEF KeptInv, IdsKept
<1> QED BY <1>2, <1>3, <1>5, <1>7, <1>8, <1>9 DEF KeptInv

LEMMA LowerKeeps ==
    ASSUME KeptInv, FlagInv', NEW v \in Servers, Lower(v) PROVE KeptInv'
<1> USE SpacesFact
<1>1. /\ at[v] = "lower"
      /\ UNCHANGED <<exists, mapping, holds, registered, m_evClientId, raced, starved, bare>>
      /\ m_isAvailable' = [m_isAvailable EXCEPT ![space[v]] = FALSE]
      /\ overlapped' = IF \E w \in Servers \ {v} : Raised(w, space[v])
                       THEN overlapped \cup {space[v]} ELSE overlapped
  BY DEF Lower, osVars, idVars
<1>2. FlagTypes /\ FlagTypes' /\ StartsAtFirst' /\ v \in Objects
  BY DEF KeptInv, FlagInv, Objects
<1>3. KeptTypes' /\ MappedExist' /\ Undone' = Undone
  BY <1>1 DEF KeptInv, KeptTypes, MappedExist, Undone
<1>4. /\ at'[v] \in {"lower", "gone"}
      /\ at'[v] = "lower" => space'[v] = space[v] + 1
      /\ \A w \in Objects : w # v => at'[w] = at[w] /\ space'[w] = space[w]
  BY <1>1, <1>2 DEF Lower, Goto, FlagTypes
<1>5. \A w \in Objects : at'[w] \in {"load", "raise"} =>
          at[w] \in {"load", "raise"} /\ space'[w] = space[w]
  BY <1>1, <1>4
<1>6. ASSUME NEW w \in Servers, NEW s \in Spaces, Raised(w, s)'
      PROVE  Raised(w, s) /\ (m_isAvailable[s] => m_isAvailable'[s] \/ s \in overlapped')
  <2>1. CASE w = v
    <3>1. Raised(v, s) /\ s # space[v]
      BY <1>1, <1>2, <1>4, <1>6, <2>1 DEF Raised, FlagTypes, Spaces, Constructing
    <3> QED BY <1>1, <1>2, <2>1, <3>1 DEF FlagTypes
  <2>2. CASE w # v
    <3>1. Raised(w, s)
      BY <1>1, <1>4, <1>6, <2>2 DEF Raised, Objects
    <3>2. CASE s = space[v]
      BY <1>1, <2>2, <3>1, <3>2
    <3>3. CASE s # space[v]
      BY <1>1, <1>2, <3>1, <3>3 DEF FlagTypes
    <3> QED BY <3>2, <3>3
  <2> QED BY <2>1, <2>2
<1>7. \A w \in Objects : /\ at'[w] = "make" => at[w] = "make" /\ space'[w] = space[w]
                         /\ at'[w] = "new" => at[w] = "new" /\ space'[w] = space[w]
  BY <1>1, <1>4
<1>8. overlapped \subseteq overlapped'
  BY <1>1
<1> QED BY <1>1, <1>2, <1>3, <1>5, <1>6, <1>7, <1>8, KeptElsewhere

LEMMA ClientKeeps ==
    ASSUME KeptInv, FlagInv', NEW c \in Clients, ClientStep(c) PROVE KeptInv'
<1> USE SpacesFact
<1>1. /\ UNCHANGED <<exists, mapping, space, m_isAvailable, raced, starved, overlapped, bare>>
      /\ holds' \in {holds, [holds EXCEPT ![c] = NoMappings]}
      /\ registered' = registered \/ registered' = registered \cup {c}
      /\ \/ m_evClientId' = m_evClientId
         \/ m_evClientId' = m_evClientId \cup {c} /\ c \in registered' /\ holds[c][EventSpace] # None
      /\ \/ at' = at
         \/ at[c] = "register" /\ at' = [at EXCEPT ![c] = "first"]
         \/ at[c] = "first" /\ at' = [at EXCEPT ![c] = "up"]
         \/ at' = [at EXCEPT ![c] = "gone"]
  BY DEF ClientStep, PollStep, Register, TakesId, ReadFlag, ReadLastFlag, ConnectionThreadEnds, Goto,
         osVars, spaceVars, idVars, disturbances
<1>2. FlagTypes /\ FlagTypes' /\ StartsAtFirst' /\ c \in Objects
  BY DEF KeptInv, FlagInv, Objects
<1>3. KeptTypes' /\ MappedExist' /\ Undone' = Undone
  <2>1. KeptTypes'
    BY <1>1 DEF KeptInv, KeptTypes, NoMappings
  <2>2. MappedExist'
    BY <1>1 DEF KeptInv, KeptTypes, MappedExist, NoMappings
  <2> QED BY <1>1, <2>1, <2>2 DEF Undone
<1>4. \A w \in Objects : w # c => at'[w] = at[w]
  BY <1>1, <1>2 DEF FlagTypes
<1>5. \/ at'[c] = at[c]
      \/ at[c] = "register" /\ at'[c] = "first"
      \/ at[c] = "first" /\ at'[c] = "up"
      \/ at'[c] = "gone"
  BY <1>1, <1>2 DEF FlagTypes
<1>6. \A w \in Objects : at'[w] \in {"load", "raise"} =>
          at[w] \in {"load", "raise"} /\ space'[w] = space[w]
  BY <1>1, <1>4, <1>5
<1>7. \A v \in Servers : at'[v] = at[v]
  BY <1>4, LifecycleAssumption DEF Objects
<1>8. \A v \in Servers : \A s \in Spaces : Raised(v, s)' => Raised(v, s)
  BY <1>1, <1>7 DEF Raised
<1>9. \A w \in Objects : /\ at'[w] = "make" => at[w] = "make" /\ space'[w] = space[w]
                         /\ at'[w] = "new" => at[w] = "new" /\ space'[w] = space[w]
  BY <1>1, <1>4, <1>5
<1>10. \A x \in m_evClientId' : x \in m_evClientId \/ (x \in registered' /\ EventSpace \in exists)
  BY <1>1 DEF KeptInv, MappedExist
<1> QED BY <1>1, <1>2, <1>3, <1>6, <1>8, <1>9, <1>10, KeptElsewhere

LEMMA LeavingKeeps ==
    ASSUME KeptInv, FlagInv',
           (\E o \in Objects : BeginDestroy(o)) \/ (\E p \in Processes : Crash(p)) \/ UNCHANGED vars
    PROVE  KeptInv'
<1> USE SpacesFact
<1>1. UNCHANGED <<exists, registered, m_evClientId, m_isAvailable, space, raced, starved, overlapped, bare>>
  BY DEF BeginDestroy, Crash, vars, osVars, spaceVars, idVars, disturbances
<1>2. FlagTypes /\ FlagTypes' /\ StartsAtFirst /\ StartsAtFirst'
  BY DEF KeptInv, FlagInv
<1>3. KeptTypes' /\ MappedExist'
  <2>1. CASE \E p \in Processes : Crash(p)
    <3>1. PICK p \in Processes : mapping' = [mapping EXCEPT ![p] = NoMappings]
      BY <2>1 DEF Crash
    <3>2. PICK gone \in SUBSET Objects :
              holds' = [c \in Clients |-> IF c \in gone THEN NoMappings ELSE holds[c]]
      BY <2>1 DEF Crash
    <3>3. KeptTypes'
      BY <1>1, <3>1, <3>2 DEF KeptInv, KeptTypes, NoMappings
    <3> QED BY <1>1, <3>1, <3>2, <3>3 DEF KeptInv, KeptTypes, MappedExist, NoMappings
  <2>2. CASE mapping' = mapping /\ holds' = holds
    BY <1>1, <2>2 DEF KeptInv, KeptTypes, MappedExist
  <2> QED BY <2>1, <2>2 DEF BeginDestroy, vars
<1>4. \A w \in Objects : \/ at'[w] = at[w]
                         \/ at'[w] = "dead"
                         \/ at[w] = "up" /\ at'[w] = "lower" /\ w \in Servers
                         \/ at[w] = "up" /\ at'[w] = "closing"
  <2>1. ASSUME NEW o \in Objects, BeginDestroy(o), NEW w \in Objects
        PROVE  \/ at'[w] = at[w]
               \/ at[w] = "up" /\ at'[w] = "lower" /\ w \in Servers
               \/ at[w] = "up" /\ at'[w] = "closing"
    BY <1>2, <2>1 DEF BeginDestroy, Goto, FlagTypes
  <2>2. ASSUME NEW p \in Processes, Crash(p), NEW w \in Objects
        PROVE  at'[w] = at[w] \/ at'[w] = "dead"
    BY <2>2 DEF Crash
  <2> QED BY <2>1, <2>2 DEF vars
<1>5. \A w \in Objects : at'[w] \in {"load", "raise"} =>
          at[w] \in {"load", "raise"} /\ space'[w] = space[w]
  BY <1>1, <1>4
<1>6. ASSUME NEW v \in Servers, NEW s \in Spaces, Raised(v, s)' PROVE Raised(v, s)
  BY <1>1, <1>4, <1>6 DEF Raised, Constructing, Objects
<1>7. \A w \in Objects : /\ at'[w] = "make" => at[w] = "make" /\ space'[w] = space[w]
                         /\ at'[w] = "new" => at[w] = "new" /\ space'[w] = space[w]
  BY <1>1, <1>4
<1>8. Undone' = Undone
  BY <1>1 DEF Undone
<1> QED BY <1>1, <1>2, <1>3, <1>5, <1>6, <1>7, <1>8, KeptElsewhere

LEMMA NextKeeps == ASSUME FlagInv, KeptInv, [Next]_vars PROVE FlagInv' /\ KeptInv'
<1>1. FlagInv'
  BY FlagInvStep
<1>2. KeptInv'
  BY <1>1, IsSharedKeeps, MakingKeeps, LoadKeeps, RaiseKeeps, LowerKeeps, ClientKeeps, LeavingKeeps
  DEF Next, ConstructStep, ServerStep
<1> QED BY <1>1, <1>2

\* The flags servers raised and the ids clients were given for events stay, for any
\* number of servers, clients, ids, processes, crashes and descriptors, unless two
\* constructors found a space missing at once, one had no descriptor to look, or
\* servers overlap; a server lacks a flag else only where it could make no space.
THEOREM NothingOverwritten == Spec => []KeptUndisturbed
<1>1. Init => FlagInv /\ KeptInv
  BY FlagInvInit, KeptInvInit
<1>2. FlagInv /\ KeptInv /\ [Next]_vars => FlagInv' /\ KeptInv'
  BY NextKeeps
<1>3. KeptInv => KeptUndisturbed
  <2> SUFFICES ASSUME KeptInv PROVE KeptUndisturbed
    OBVIOUS
  <2>1. ASSUME NEW v \in Servers, at[v] = "up", NEW s \in Spaces \ (Undone \cup overlapped)
        PROVE  m_isAvailable[s] \/ <<v, s>> \in bare
    BY <2>1 DEF KeptInv, FlagsKept, Raised
  <2> QED BY <2>1 DEF KeptInv, KeptUndisturbed, IdsKept, Undone
<1> QED BY <1>1, <1>2, <1>3, PTL DEF Spec

-----------------------------------------------------------------------------
(***************************************************************************)
(* Types, and the descriptors of a process.  An object that is made adds   *)
(* one mapping, and only if there is a descriptor left; a client keeps     *)
(* what its process's manager has mapped already.                          *)
(***************************************************************************)

VarTypes == SystemTypeOK /\ SpaceTypeOK /\ ObjectTypeOK /\ PollTypeOK /\ HistoryTypeOK

LimitInv == \A p \in Processes : IsFiniteSet(Mappings(p)) /\ Fds(p) <= FdLimit

LifecycleTypeInv == VarTypes /\ LimitInv

LEMMA WatchType == ASSUME Watch, VarTypes PROVE moment' \in [Clients -> BOOLEAN]
BY DEF Watch, VarTypes, HistoryTypeOK, Available

LEMMA InitTypes == ASSUME Init PROVE LifecycleTypeInv
<1> USE LifecycleAssumption, SpacesFact
<1>1. SystemTypeOK /\ SpaceTypeOK
  BY DEF Init, SystemTypeOK, SpaceTypeOK, NoMappings
<1>2. ObjectTypeOK /\ PollTypeOK /\ HistoryTypeOK
  BY DEF Init, ObjectTypeOK, PollTypeOK, HistoryTypeOK, NoMappings
<1>3. ASSUME NEW p \in Processes PROVE IsFiniteSet(Mappings(p)) /\ Fds(p) <= FdLimit
  <2>1. Mappings(p) = {}
    BY DEF Init, Mappings, NoMappings
  <2> QED BY <2>1, FS_EmptySet DEF Init, Fds
<1> QED BY <1>1, <1>2, <1>3 DEF LifecycleTypeInv, VarTypes, LimitInv

\* No process has more mappings, nor more descriptors forgotten.
LEMMA LimitKept ==
    ASSUME VarTypes, VarTypes', LimitInv,
           \A p \in Processes : Mappings(p)' \subseteq Mappings(p) /\ leaked'[p] <= leaked[p]
    PROVE  LimitInv'
<1> SUFFICES ASSUME NEW p \in Processes PROVE IsFiniteSet(Mappings(p))' /\ Fds(p)' <= FdLimit
  BY DEF LimitInv
<1>1. IsFiniteSet(Mappings(p)) /\ leaked[p] \in Nat /\ leaked'[p] \in Nat
      /\ leaked[p] + Cardinality(Mappings(p)) <= FdLimit
  BY DEF LimitInv, Fds, VarTypes, SystemTypeOK
<1>2. IsFiniteSet(Mappings(p)') /\ Cardinality(Mappings(p)') <= Cardinality(Mappings(p))
  BY <1>1, FS_Subset
<1>3. Cardinality(Mappings(p)) \in Nat /\ Cardinality(Mappings(p)') \in Nat
  BY <1>1, <1>2, FS_CardinalityType
<1> QED BY <1>1, <1>2, <1>3, LifecycleAssumption DEF Fds

\* One process gets a mapping x, with a descriptor it had left.
LEMMA LimitGrown ==
    ASSUME VarTypes, LimitInv, leaked' = leaked, NEW q \in Processes, FdLeft(q), NEW x,
           Mappings(q)' \subseteq Mappings(q) \cup {x},
           \A p \in Processes \ {q} : Mappings(p)' \subseteq Mappings(p)
    PROVE  LimitInv'
<1> SUFFICES ASSUME NEW p \in Processes PROVE IsFiniteSet(Mappings(p))' /\ Fds(p)' <= FdLimit
  BY DEF LimitInv
<1>1. IsFiniteSet(Mappings(p)) /\ leaked[p] \in Nat
      /\ leaked[p] + Cardinality(Mappings(p)) <= FdLimit
  BY DEF LimitInv, Fds, VarTypes, SystemTypeOK
<1>2. Cardinality(Mappings(p)) \in Nat
  BY <1>1, FS_CardinalityType
<1>3. CASE p # q
  <2>1. IsFiniteSet(Mappings(p)') /\ Cardinality(Mappings(p)') <= Cardinality(Mappings(p))
    BY <1>1, <1>3, FS_Subset
  <2>2. Cardinality(Mappings(p)') \in Nat
    BY <2>1, FS_CardinalityType
  <2> QED BY <1>1, <1>2, <2>1, <2>2, LifecycleAssumption DEF Fds
<1>4. CASE p = q
  <2> DEFINE more == Mappings(p) \cup {x}
  <2>1. IsFiniteSet(more) /\ Cardinality(more) <= Cardinality(Mappings(p)) + 1
    <3>1. /\ IsFiniteSet(more)
          /\ Cardinality(more) =
               IF x \in Mappings(p) THEN Cardinality(Mappings(p)) ELSE Cardinality(Mappings(p)) + 1
      BY <1>1, FS_AddElement
    <3> QED BY <1>2, <3>1
  <2>2. IsFiniteSet(Mappings(p)') /\ Cardinality(Mappings(p)') <= Cardinality(more)
    BY <1>4, <2>1, FS_Subset
  <2>3. Cardinality(Mappings(p)') \in Nat /\ Cardinality(more) \in Nat
    BY <2>1, <2>2, FS_CardinalityType
  <2>4. leaked[p] + Cardinality(Mappings(p)) < FdLimit
    BY <1>4 DEF FdLeft, Fds
  <2> HIDE DEF more
  <2> QED BY <1>1, <1>2, <2>1, <2>2, <2>3, <2>4, LifecycleAssumption DEF Fds
<1> QED BY <1>3, <1>4

LEMMA SameMappings ==
    ASSUME mapping' = mapping, holds' = holds
    PROVE  \A p \in Processes : Mappings(p)' = Mappings(p)
BY DEF Mappings

LEMMA FewerMappings ==
    ASSUME \A q \in Processes : \A s \in Spaces : mapping'[q][s] \in {mapping[q][s], None},
           \A c \in Clients : \A s \in Spaces : holds'[c][s] \in {holds[c][s], None}
    PROVE  \A p \in Processes : Mappings(p)' \subseteq Mappings(p)
<1> SUFFICES ASSUME NEW p \in Processes, NEW x \in Mappings(p)' PROVE x \in Mappings(p)
  OBVIOUS
<1>1. /\ x \in Spaces \X Objects
      /\ \/ mapping'[p][x[1]] = x[2]
         \/ \E c \in Clients : ProcessOf[c] = p /\ holds'[c][x[1]] = x[2]
  BY DEF Mappings
<1>2. x[1] \in Spaces /\ x[2] # None
  BY <1>1, LifecycleAssumption
<1>3. \/ mapping[p][x[1]] = x[2]
      \/ \E c \in Clients : ProcessOf[c] = p /\ holds[c][x[1]] = x[2]
  BY <1>1, <1>2
<1> QED BY <1>1, <1>3 DEF Mappings

LEMMA IsSharedTypes ==
    ASSUME LifecycleTypeInv, NEW o \in Objects, isShared(o) PROVE LifecycleTypeInv'
<1> USE LifecycleAssumption DEF LifecycleTypeInv, VarTypes
<1>1. /\ UNCHANGED <<exists, stuck, crashes, mapping, m_isAvailable, registered, m_evClientId, space,
                     holds, attr, polled, allUp, overlapped, left, bare, moment>>
      /\ at' = [at EXCEPT ![o] = IF Found(o) THEN "load" ELSE "make"]
      /\ leaked' = IF Found(o) THEN [leaked EXCEPT ![ProcessOf[o]] = @ + 1] ELSE leaked
  BY DEF isShared, spaceVars, idVars, pollVars, Goto
<1>2. raced' \subseteq Spaces /\ starved' \subseteq Spaces
  BY DEF isShared, HistoryTypeOK, ObjectTypeOK
<1>3. VarTypes'
  BY <1>1, <1>2
  DEF SystemTypeOK, SpaceTypeOK, ObjectTypeOK, PollTypeOK, HistoryTypeOK, Constructing
<1>4. \A p \in Processes : Mappings(p)' = Mappings(p)
  BY <1>1, SameMappings
<1>5. \A p \in Processes : leaked[p] \in Nat
  BY DEF SystemTypeOK
<1>6. LimitInv'
  <2>1. CASE ~ Found(o)
    BY <1>1, <1>3, <1>4, <1>5, <2>1, LimitKept
  <2>2. CASE Found(o)
    <3> SUFFICES ASSUME NEW p \in Processes PROVE IsFiniteSet(Mappings(p))' /\ Fds(p)' <= FdLimit
      BY DEF LimitInv
    <3>1. IsFiniteSet(Mappings(p)) /\ Cardinality(Mappings(p)) \in Nat /\ Fds(p) <= FdLimit
      BY FS_CardinalityType DEF LimitInv
    <3>2. CASE p = ProcessOf[o]
      <4>1. leaked'[p] = leaked[p] + 1 /\ Fds(p) < FdLimit
        BY <1>1, <2>2, <3>2 DEF SystemTypeOK, Found, FdLeft
      <4> QED BY <1>4, <1>5, <3>1, <4>1 DEF Fds
    <3>3. CASE p # ProcessOf[o]
      <4>1. leaked'[p] = leaked[p]
        BY <1>1, <2>2, <3>3 DEF SystemTypeOK
      <4> QED BY <1>4, <3>1, <4>1 DEF Fds
    <3> QED BY <3>2, <3>3
  <2> QED BY <2>1, <2>2
<1> QED BY <1>3, <1>6

\* What createImpl maps, and a client keeps, is one mapping more if there is a
\* descriptor, and none otherwise.
LEMMA CreatedLimit ==
    ASSUME VarTypes, VarTypes', LimitInv, NEW o \in Objects, createImpl(o), leaked' = leaked,
           Keep(o) \/ holds' = holds
    PROVE  LimitInv'
<1> USE LifecycleAssumption DEF VarTypes
<1> DEFINE q == ProcessOf[o]
           x == <<space[o], o>>
<1>1. q \in Processes /\ space[o] \in Spaces
  BY DEF ObjectTypeOK
<1>2. \A p \in Processes \ {q} : mapping'[p] = mapping[p]
  BY <1>1 DEF createImpl, SystemTypeOK
<1>3. \A c \in Clients : \A s \in Spaces :
          holds'[c][s] = holds[c][s] \/ (c = o /\ s = space[o] /\ holds'[c][s] = mapping'[q][s])
  BY <1>1 DEF Keep, ObjectTypeOK
<1>4. ASSUME NEW p \in Processes \ {q} PROVE Mappings(p)' \subseteq Mappings(p)
  BY <1>2, <1>3, <1>4 DEF Mappings
<1>5. leaked[q] \in Nat /\ \A p \in Processes : leaked'[p] <= leaked[p]
  BY <1>1 DEF SystemTypeOK
<1>6. CASE FdLeft(q)
  <2>1. \A s \in Spaces : mapping'[q][s] = mapping[q][s] \/ (s = space[o] /\ mapping'[q][s] = o)
    BY <1>1, <1>6 DEF createImpl, SystemTypeOK
  <2>2. Mappings(q)' \subseteq Mappings(q) \cup {x}
    <3> SUFFICES ASSUME NEW y \in Mappings(q)', y \notin Mappings(q) PROVE y = x
      OBVIOUS
    <3>1. /\ y \in Spaces \X Objects /\ mapping[q][y[1]] # y[2]
          /\ \A c \in Clients : ProcessOf[c] = q => holds[c][y[1]] # y[2]
          /\ \/ mapping'[q][y[1]] = y[2]
             \/ \E c \in Clients : ProcessOf[c] = q /\ holds'[c][y[1]] = y[2]
      BY DEF Mappings
    <3>2. mapping'[q][y[1]] = y[2]
      BY <1>3, <3>1
    <3>3. y[1] = space[o] /\ y[2] = o
      BY <2>1, <3>1, <3>2
    <3> QED BY <3>1, <3>3
  <2> HIDE DEF q, x
  <2> QED BY <1>1, <1>4, <1>6, <2>2, LimitGrown
<1>7. CASE ~ FdLeft(q)
  <2>1. mapping' = mapping
    BY <1>7 DEF createImpl
  <2>2. Mappings(q)' \subseteq Mappings(q)
    BY <1>1, <1>3, <2>1 DEF Mappings
  <2> HIDE DEF q, x
  <2> QED BY <1>4, <1>5, <2>2, LimitKept
<1> QED BY <1>6, <1>7

LEMMA MakingTypes ==
    ASSUME LifecycleTypeInv, NEW o \in Objects,
           loadToShared(o) \/ HangInLoadToShared(o) \/ loadFromShared(o)
    PROVE  LifecycleTypeInv'
<1> USE LifecycleAssumption, SpacesFact DEF LifecycleTypeInv, VarTypes
<1>1. /\ createImpl(o) /\ (Keep(o) \/ holds' = holds)
      /\ UNCHANGED <<leaked, crashes, m_evClientId, attr, polled, allUp, raced, starved, overlapped, left>>
      /\ stuck' \subseteq stuck \cup {Manager}
      /\ bare' = bare \/ (o \in Servers /\ bare' = bare \cup {<<o, space[o]>>})
  BY DEF loadToShared, HangInLoadToShared, loadFromShared, spaceVars, idVars, pollVars, disturbances
<1>2. ProcessOf[o] \in Processes /\ space[o] \in Spaces
  BY DEF ObjectTypeOK
<1>3. SystemTypeOK'
  <2>1. exists' \subseteq Spaces /\ mapping' \in [Processes -> [Spaces -> Objects \cup {None}]]
    <3>1. CASE FdLeft(ProcessOf[o])
      <4>1. /\ exists' = exists \cup {space[o]}
            /\ mapping' = [mapping EXCEPT ![ProcessOf[o]][space[o]] = o]
        BY <1>1, <3>1, CreatedOnce
      <4> QED BY <1>2, <4>1 DEF SystemTypeOK
    <3>2. CASE ~ FdLeft(ProcessOf[o])
      BY <1>1, <3>2 DEF createImpl, SystemTypeOK
    <3> QED BY <3>1, <3>2
  <2> QED BY <1>1, <2>1 DEF SystemTypeOK
<1>4. SpaceTypeOK'
  <2>1. CASE loadToShared(o)
    <3>1. /\ m_isAvailable' \in {m_isAvailable, [m_isAvailable EXCEPT ![space[o]] = FlagAtCreation(o)]}
          /\ registered' \subseteq registered
      BY <2>1 DEF loadToShared
    <3>2. FlagAtCreation(o) \in BOOLEAN
      BY DEF FlagAtCreation
    <3> QED BY <1>1, <3>1, <3>2 DEF SpaceTypeOK
  <2>2. CASE HangInLoadToShared(o) \/ loadFromShared(o)
    BY <2>2 DEF HangInLoadToShared, loadFromShared, spaceVars, idVars, SpaceTypeOK
  <2> QED BY <2>1, <2>2
<1>5. holds' \in [Clients -> [Spaces -> Objects \cup {None}]]
  <2>1. mapping'[ProcessOf[o]][space[o]] \in Objects \cup {None}
    BY <1>2, <1>3 DEF SystemTypeOK
  <2> QED BY <1>1, <1>2, <2>1 DEF Keep, ObjectTypeOK
<1>6. /\ at' \in [Objects -> Constructing \cup Ended \cup {"new", "up", "lower", "closing"}]
      /\ space' \in [Objects -> Spaces]
  <2>1. CASE Advance(o)
    BY <1>2, <2>1 DEF Advance, Goto, ObjectTypeOK, Constructing, Spaces, EventSpace
  <2>2. ASSUME NEW place \in {"hung", "raise"}, Goto(o, place), space' = space
        PROVE  at' \in [Objects -> Constructing \cup Ended \cup {"new", "up", "lower", "closing"}]
    BY <2>2 DEF Goto, ObjectTypeOK, Constructing
  <2> QED BY <2>1, <2>2 DEF loadToShared, HangInLoadToShared, loadFromShared, ObjectTypeOK
<1>7. PollTypeOK'
  BY <1>1 DEF PollTypeOK
<1>8. HistoryTypeOK'
  <2>1. bare' \subseteq Servers \X Spaces
    BY <1>1, <1>2 DEF HistoryTypeOK
  <2>2. moment' \in [Clients -> BOOLEAN]
    BY WatchType DEF loadToShared, HangInLoadToShared, loadFromShared, HistoryTypeOK
  <2> QED BY <1>1, <2>1, <2>2 DEF HistoryTypeOK
<1>9. VarTypes'
  BY <1>3, <1>4, <1>5, <1>6, <1>7, <1>8 DEF ObjectTypeOK
<1>10. LimitInv'
  BY <1>1, <1>9, CreatedLimit
<1> QED BY <1>9, <1>10

LEMMA RaiseTypes ==
    ASSUME LifecycleTypeInv, NEW v \in Servers, Raise(v) PROVE LifecycleTypeInv'
<1> USE LifecycleAssumption, SpacesFact DEF LifecycleTypeInv, VarTypes
<1>1. /\ UNCHANGED <<exists, stuck, leaked, crashes, registered, m_evClientId, mapping, holds, attr,
                     polled, allUp, raced, starved, overlapped, left, bare>>
      /\ v \in Objects /\ space[v] \in Spaces
  BY DEF Raise, osVars, idVars, pollVars, disturbances, Objects, ObjectTypeOK
<1>2. SpaceTypeOK'
  BY <1>1 DEF Raise, SpaceTypeOK
<1>3. ObjectTypeOK'
  BY <1>1 DEF Raise, Advance, Goto, ObjectTypeOK, Constructing, Spaces, EventSpace
<1>4. SystemTypeOK' /\ PollTypeOK' /\ HistoryTypeOK'
  BY <1>1, WatchType DEF Raise, SystemTypeOK, PollTypeOK, HistoryTypeOK
<1>5. \A p \in Processes : Mappings(p)' = Mappings(p) /\ leaked'[p] <= leaked[p]
  BY <1>1, SameMappings DEF SystemTypeOK
<1> QED BY <1>2, <1>3, <1>4, <1>5, LimitKept

LEMMA DestructorTypes ==
    ASSUME LifecycleTypeInv,
           (\E o \in Objects : BeginDestroy(o)) \/ (\E v \in Servers : Lower(v))
    PROVE  LifecycleTypeInv'
<1> USE LifecycleAssumption, SpacesFact DEF LifecycleTypeInv, VarTypes
<1>1. /\ UNCHANGED <<exists, stuck, leaked, crashes, registered, m_evClientId, mapping, holds, attr,
                     polled, allUp, raced, starved, left, bare, moment>>
  BY DEF BeginDestroy, Lower, osVars, spaceVars, idVars, pollVars, disturbances
<1>2. ASSUME NEW o \in Objects, BeginDestroy(o) PROVE SpaceTypeOK' /\ ObjectTypeOK' /\ HistoryTypeOK'
  BY <1>2 DEF BeginDestroy, Goto, spaceVars, idVars, disturbances, SpaceTypeOK, ObjectTypeOK, HistoryTypeOK
<1>3. ASSUME NEW v \in Servers, Lower(v) PROVE SpaceTypeOK' /\ ObjectTypeOK' /\ HistoryTypeOK'
  <2>1. v \in Objects /\ space[v] \in Spaces
    BY DEF Objects, ObjectTypeOK
  <2>2. SpaceTypeOK'
    BY <1>1, <1>3, <2>1 DEF Lower, SpaceTypeOK
  <2>3. overlapped' \subseteq Spaces
    BY <1>3, <2>1 DEF Lower, HistoryTypeOK
  <2>4. ObjectTypeOK'
    <3>1. CASE space[v] = EventSpace
      <4>1. at' = [at EXCEPT ![v] = "gone"] /\ space' = space
        BY <1>3, <3>1 DEF Lower, LastLowered, Goto
      <4> QED BY <1>1, <4>1 DEF ObjectTypeOK, Ended
    <3>2. CASE space[v] # EventSpace
      <4>1. space' = [space EXCEPT ![v] = space[v] + 1] /\ at' = at
        BY <1>3, <3>2 DEF Lower, LastLowered
      <4>2. space[v] + 1 \in Spaces
        BY <2>1, <3>2 DEF Spaces, EventSpace
      <4> QED BY <1>1, <4>1, <4>2 DEF ObjectTypeOK
    <3> QED BY <3>1, <3>2
  <2> QED BY <1>1, <2>2, <2>3, <2>4 DEF HistoryTypeOK
<1>4. SystemTypeOK' /\ PollTypeOK'
  BY <1>1 DEF SystemTypeOK, PollTypeOK
<1>5. \A p \in Processes : Mappings(p)' = Mappings(p) /\ leaked'[p] <= leaked[p]
  BY <1>1, SameMappings DEF SystemTypeOK
<1> QED BY <1>2, <1>3, <1>4, <1>5, LimitKept

LEMMA ClientTypes ==
    ASSUME LifecycleTypeInv, NEW c \in Clients, ClientStep(c) PROVE LifecycleTypeInv'
<1> USE LifecycleAssumption, SpacesFact DEF LifecycleTypeInv, VarTypes
<1>1. /\ UNCHANGED <<exists, stuck, leaked, crashes, m_isAvailable, mapping, space,
                     raced, starved, overlapped, left, bare>>
      /\ registered' \subseteq registered \cup {c} /\ m_evClientId' \subseteq m_evClientId \cup {c}
      /\ holds' \in {holds, [holds EXCEPT ![c] = NoMappings]}
  BY DEF ClientStep, PollStep, Register, TakesId, ReadFlag, ReadLastFlag, ConnectionThreadEnds, osVars,
         spaceVars, idVars, disturbances
<1>2. SystemTypeOK' /\ SpaceTypeOK'
  BY <1>1 DEF SystemTypeOK, SpaceTypeOK
<1>3. at' \in [Objects -> Constructing \cup Ended \cup {"new", "up", "lower", "closing"}]
  BY DEF ClientStep, PollStep, Register, ReadFlag, ReadLastFlag, ConnectionThreadEnds, Goto,
         ObjectTypeOK, Constructing, Ended
<1>4. ObjectTypeOK'
  BY <1>1, <1>3 DEF ObjectTypeOK, NoMappings
<1>5. PollTypeOK'
  <2>1. CASE ReadFlag(c)
    <3>1. /\ polled' = [polled EXCEPT ![c] = @ + 1] /\ polled[c] < NumSpaces - 1 /\ attr' = attr
          /\ allUp' = [allUp EXCEPT ![c] = @ /\ m_isAvailable[ReadNext(polled[c])]]
      BY <2>1 DEF ReadFlag
    <3>2. polled' \in [Clients -> 0 .. NumSpaces - 1]
      BY <3>1 DEF PollTypeOK
    <3>3. allUp' \in [Clients -> BOOLEAN]
      <4>1. ReadNext(polled[c]) \in Spaces
        BY <3>1 DEF PollTypeOK, ReadNext, Spaces
      <4>2. (allUp[c] /\ m_isAvailable[ReadNext(polled[c])]) \in BOOLEAN
        OBVIOUS
      <4>3. allUp \in [Clients -> BOOLEAN]
        BY DEF PollTypeOK
      <4> QED BY <3>1, <4>2, <4>3
    <3> QED BY <3>1, <3>2, <3>3 DEF PollTypeOK
  <2>2. CASE ReadLastFlag(c)
    <3>1. /\ polled' = [polled EXCEPT ![c] = 0] /\ allUp' = [allUp EXCEPT ![c] = TRUE]
          /\ attr' = [attr EXCEPT ![c] = NewStatus(c)]
      BY <2>2 DEF ReadLastFlag
    <3>2. NewStatus(c) \in BOOLEAN
      BY DEF NewStatus
    <3>3. attr' \in [Clients -> BOOLEAN]
      BY <3>1, <3>2 DEF PollTypeOK
    <3> QED BY <3>1, <3>3 DEF PollTypeOK
  <2>3. CASE Register(c) \/ ConnectionThreadEnds(c)
    BY <2>3 DEF Register, ConnectionThreadEnds, pollVars, PollTypeOK
  <2> QED BY <2>1, <2>2, <2>3 DEF ClientStep, PollStep
<1>6. HistoryTypeOK'
  <2>1. moment' = moment \/ Watch
    BY DEF ClientStep, PollStep, Register, ReadFlag, ReadLastFlag, ConnectionThreadEnds
  <2> QED BY <1>1, <2>1, WatchType DEF HistoryTypeOK
<1>7. VarTypes'
  BY <1>2, <1>4, <1>5, <1>6
<1>8. \A p \in Processes : Mappings(p)' \subseteq Mappings(p) /\ leaked'[p] <= leaked[p]
  <2>1. \A x \in Clients : \A s \in Spaces : holds'[x][s] \in {holds[x][s], None}
    BY <1>1 DEF ObjectTypeOK, NoMappings
  <2> QED BY <1>1, <2>1, FewerMappings DEF SystemTypeOK
<1> QED BY <1>7, <1>8, LimitKept

LEMMA CrashTypes ==
    ASSUME LifecycleTypeInv, NEW p \in Processes, Crash(p) PROVE LifecycleTypeInv'
<1> USE LifecycleAssumption, SpacesFact DEF LifecycleTypeInv, VarTypes
<1> DEFINE dies == {o \in Objects : ProcessOf[o] = p /\ Live(o)}
<1>1. /\ UNCHANGED <<exists, m_isAvailable, registered, m_evClientId, space, allUp, raced, starved,
                     overlapped, bare>>
      /\ crashes < MaxCrashes /\ crashes' = crashes + 1
      /\ stuck' \in {stuck} \cup {stuck \cup {s} : s \in MayHold(p)}
      /\ at' = [o \in Objects |-> IF o \in dies THEN "dead" ELSE at[o]]
      /\ holds' = [c \in Clients |-> IF c \in dies THEN NoMappings ELSE holds[c]]
      /\ attr' = [c \in Clients |-> attr[c] /\ c \notin dies]
      /\ polled' = [c \in Clients |-> IF c \in dies THEN 0 ELSE polled[c]]
      /\ left' = left \cup {s \in Spaces : \E v \in dies \cap Servers : Raised(v, s)}
      /\ leaked' = [leaked EXCEPT ![p] = 0]
      /\ mapping' = [mapping EXCEPT ![p] = NoMappings]
  BY DEF Crash, spaceVars, idVars
<1> HIDE DEF dies
<1>2. SystemTypeOK'
  <2>1. stuck' \subseteq Spaces \cup {Manager}
    <3>1. MayHold(p) \subseteq Spaces \cup {Manager}
      BY DEF MayHold
    <3> QED BY <1>1, <3>1 DEF SystemTypeOK
  <2>2. mapping' \in [Processes -> [Spaces -> Objects \cup {None}]]
    BY <1>1 DEF SystemTypeOK, NoMappings
  <2> QED BY <1>1, <2>1, <2>2 DEF SystemTypeOK
<1>3. ObjectTypeOK'
  BY <1>1 DEF ObjectTypeOK, NoMappings, Ended
<1>4. PollTypeOK'
  BY <1>1 DEF PollTypeOK
<1>5. HistoryTypeOK' /\ SpaceTypeOK'
  BY <1>1, WatchType DEF Crash, HistoryTypeOK, SpaceTypeOK
<1>6. \A q \in Processes : Mappings(q)' \subseteq Mappings(q) /\ leaked'[q] <= leaked[q]
  <2>1. \A c \in Clients : \A s \in Spaces : holds'[c][s] \in {holds[c][s], None}
    BY <1>1 DEF NoMappings
  <2>2. \A q \in Processes : \A s \in Spaces : mapping'[q][s] \in {mapping[q][s], None}
    BY <1>1 DEF NoMappings, SystemTypeOK
  <2>3. \A q \in Processes : Mappings(q)' \subseteq Mappings(q)
    BY <2>1, <2>2, FewerMappings
  <2> QED BY <1>1, <2>3 DEF SystemTypeOK
<1> QED BY <1>2, <1>3, <1>4, <1>5, <1>6, LimitKept

LEMMA StepTypes == ASSUME LifecycleTypeInv, [Next]_vars PROVE LifecycleTypeInv'
<1>1. CASE UNCHANGED vars
  <2>1. VarTypes'
    BY <1>1
    DEF LifecycleTypeInv, VarTypes, SystemTypeOK, SpaceTypeOK, ObjectTypeOK, PollTypeOK, HistoryTypeOK,
        vars, osVars, spaceVars, idVars, pollVars, disturbances
  <2>2. \A p \in Processes : Mappings(p)' = Mappings(p) /\ leaked'[p] <= leaked[p]
    BY <1>1, SameMappings DEF vars, osVars, LifecycleTypeInv, VarTypes, SystemTypeOK
  <2> QED BY <2>1, <2>2, LimitKept DEF LifecycleTypeInv
<1> QED
  BY <1>1, IsSharedTypes, MakingTypes, RaiseTypes, DestructorTypes, ClientTypes, CrashTypes
  DEF Next, ConstructStep, ServerStep

LEMMA LifecycleTypeInvariant == Spec => []LifecycleTypeInv
BY InitTypes, StepTypes, PTL DEF Spec

\* Type correctness of the life cycle: no process has more descriptors than it may,
\* those isShared forgets included, for any number of objects and crashes.
THEOREM LifecycleTypes == Spec => []TypeOK
<1>1. LifecycleTypeInv => TypeOK
  BY DEF LifecycleTypeInv, VarTypes, LimitInv, TypeOK, WithinLimit
<1> QED BY <1>1, LifecycleTypeInvariant, PTL

-----------------------------------------------------------------------------
(***************************************************************************)
(* The poll of a client is a snapshot.  While all flags read so far were   *)
(* up and they were not all up at once, a flag is down that is still to be *)
(* read: the server that raises the last such flag raised those before it, *)
(* and so raises the last flag that was down at all.                       *)
(***************************************************************************)

Calm == raced \cup starved \cup overlapped = {} /\ bare = {}
DownAhead(c) == \E s \in Spaces : s > polled[c] /\ ~ m_isAvailable[s]
SnapshotInv == Calm => \A c \in Clients : polled[c] # 0 /\ allUp[c] => moment[c] \/ DownAhead(c)

LEMMA WatchedMoment ==
    ASSUME Watch, NEW c \in Clients, polled'[c] # 0
    PROVE  (moment[c] => moment'[c]) /\ (Available' => moment'[c])
BY DEF Watch

\* A step that raises no flag and reads none.
LEMMA SnapshotStays ==
    ASSUME SnapshotInv, Calm' => Calm,
           \A s \in Spaces : m_isAvailable'[s] => m_isAvailable[s],
           \A c \in Clients : polled'[c] # 0 =>
               polled'[c] = polled[c] /\ allUp'[c] = allUp[c] /\ (moment[c] => moment'[c])
    PROVE  SnapshotInv'
BY DEF SnapshotInv, DownAhead

\* The flag s0 is raised by a server that raised those before it.
LEMMA SnapshotRaised ==
    ASSUME LifecycleTypeInv, SnapshotInv, Calm' => Calm, Watch, polled' = polled, allUp' = allUp,
           NEW s0 \in Spaces, \A s \in Spaces \ {s0} : m_isAvailable'[s] = m_isAvailable[s],
           m_isAvailable'[s0], Calm => \A s \in Spaces : s < s0 => m_isAvailable[s]
    PROVE  SnapshotInv'
<1> SUFFICES ASSUME Calm', NEW c \in Clients, polled'[c] # 0, allUp'[c], ~ DownAhead(c)'
             PROVE  moment'[c]
  BY DEF SnapshotInv
<1>1. Calm /\ (moment[c] \/ DownAhead(c))
  BY DEF SnapshotInv
<1>2. CASE moment[c]
  BY <1>2, WatchedMoment
<1>3. polled[c] \in Int
  BY LifecycleAssumption DEF LifecycleTypeInv, VarTypes, PollTypeOK
<1>4. CASE DownAhead(c)
  <2>1. s0 > polled[c]
    <3>1. PICK s \in Spaces : s > polled[c] /\ ~ m_isAvailable[s]
      BY <1>4 DEF DownAhead
    <3>2. m_isAvailable'[s]
      BY <3>1 DEF DownAhead
    <3>3. s = s0
      BY <3>1, <3>2
    <3> QED BY <3>1, <3>3
  <2>2. ASSUME NEW s \in Spaces PROVE m_isAvailable'[s]
    <3>1. s \in Int /\ s0 \in Int /\ polled'[c] = polled[c]
      BY SpacesFact
    <3>2. CASE s < s0
      <4>1. s # s0 /\ m_isAvailable[s]
        BY <1>1, <3>1, <3>2
      <4> QED BY <4>1
    <3>3. CASE s = s0
      BY <3>3
    <3>4. CASE s > s0
      <4>1. s > polled'[c]
        BY <1>3, <2>1, <3>1, <3>4
      <4> QED BY <4>1 DEF DownAhead
    <3> QED BY <3>1, <3>2, <3>3, <3>4
  <2>3. Available'
    BY <2>2 DEF Available
  <2> QED BY <2>3, WatchedMoment
<1> QED BY <1>1, <1>2, <1>4

LEMMA ReadFlagSnapshot ==
    ASSUME LifecycleTypeInv, SnapshotInv, NEW c \in Clients, ReadFlag(c) PROVE SnapshotInv'
<1> USE DEF LifecycleTypeInv, VarTypes, PollTypeOK
<1>1. /\ polled[c] < NumSpaces - 1 /\ polled[c] \in Nat
      /\ allUp'[c] => allUp[c] /\ m_isAvailable[polled[c] + 1]
      /\ polled'[c] = polled[c] + 1
      /\ \A x \in Clients \ {c} : polled'[x] = polled[x] /\ allUp'[x] = allUp[x]
      /\ UNCHANGED <<m_isAvailable, raced, starved, overlapped, bare>>
      /\ Watch
  <2>1. /\ allUp' = [allUp EXCEPT ![c] = allUp[c] /\ m_isAvailable[polled[c] + 1]]
        /\ allUp \in [Clients -> BOOLEAN]
    BY DEF ReadFlag, ReadNext
  <2>2. allUp'[c] = (allUp[c] /\ m_isAvailable[polled[c] + 1])
    BY <2>1, Zenon
  <2>3. \A x \in Clients \ {c} : allUp'[x] = allUp[x]
    BY <2>1, Zenon
  <2>4. /\ polled[c] < NumSpaces - 1 /\ polled[c] \in Nat /\ polled'[c] = polled[c] + 1
        /\ \A x \in Clients \ {c} : polled'[x] = polled[x]
    BY DEF ReadFlag
  <2>5. UNCHANGED <<m_isAvailable, raced, starved, overlapped, bare>> /\ Watch
    BY DEF ReadFlag, spaceVars, disturbances
  <2> QED BY <2>2, <2>3, <2>4, <2>5, Zenon
<1>2. ASSUME Calm, NEW x \in Clients, polled'[x] # 0, allUp'[x] PROVE moment'[x] \/ DownAhead(x)'
  <2>1. CASE x # c
    <3>1. moment[x] \/ DownAhead(x)
      BY <1>1, <1>2, <2>1 DEF SnapshotInv
    <3> QED BY <1>1, <1>2, <2>1, <3>1, WatchedMoment DEF DownAhead
  <2>2. CASE x = c /\ polled[c] = 0
    <3>1. CASE Available'
      BY <1>1, <1>2, <3>1, WatchedMoment
    <3>2. CASE ~ Available'
      <4>1. PICK s \in Spaces : ~ m_isAvailable'[s]
        BY <3>2 DEF Available
      <4>2. s # 1 /\ s \in Int /\ s >= 1
        BY <1>1, <1>2, <2>2, <4>1 DEF Spaces
      <4> QED BY <1>1, <2>2, <4>1, <4>2 DEF DownAhead
    <3> QED BY <3>1, <3>2
  <2>3. CASE x = c /\ polled[c] # 0
    <3>1. moment[c] \/ DownAhead(c)
      BY <1>1, <1>2, <2>3 DEF SnapshotInv
    <3>2. CASE DownAhead(c)
      <4>1. PICK s \in Spaces : s > polled[c] /\ ~ m_isAvailable[s]
        BY <3>2 DEF DownAhead
      <4>2. s # polled[c] + 1 /\ s \in Int
        BY <1>1, <1>2, <2>3, <4>1 DEF Spaces
      <4> QED BY <1>1, <2>3, <4>1, <4>2 DEF DownAhead
    <3> QED BY <1>1, <1>2, <2>3, <3>1, <3>2, WatchedMoment
  <2> QED BY <2>1, <2>2, <2>3
<1>3. Calm' => Calm
  BY <1>1 DEF Calm
<1> QED BY <1>2, <1>3 DEF SnapshotInv

\* The constructors, which raise flags.
LEMMA ConstructSnapshot ==
    ASSUME LifecycleTypeInv, KeptInv, SnapshotInv,
           (\E o \in Objects : ConstructStep(o)) \/ (\E v \in Servers : Raise(v))
    PROVE  SnapshotInv'
<1> USE SpacesFact
<1>1. /\ UNCHANGED <<polled, allUp, overlapped>> /\ raced \subseteq raced' /\ starved \subseteq starved'
      /\ bare \subseteq bare'
  BY DEF ConstructStep, isShared, loadToShared, HangInLoadToShared, loadFromShared, Raise, pollVars,
         disturbances
<1>2. Calm' => Calm
  BY <1>1 DEF Calm
<1>3. ASSUME NEW o \in Objects, isShared(o) \/ HangInLoadToShared(o) \/ loadFromShared(o)
      PROVE  SnapshotInv'
  <2>1. UNCHANGED <<m_isAvailable, moment>>
    BY <1>3 DEF isShared, HangInLoadToShared, loadFromShared, spaceVars
  <2> QED BY <1>1, <1>2, <2>1, SnapshotStays
<1>4. ASSUME NEW v \in Servers, at[v] \in {"make", "raise"}, Watch,
             m_isAvailable' = [m_isAvailable EXCEPT ![space[v]] = TRUE]
      PROVE  SnapshotInv'
  <2>1. space[v] \in Spaces /\ m_isAvailable \in [Spaces -> BOOLEAN]
    BY DEF LifecycleTypeInv, VarTypes, ObjectTypeOK, SpaceTypeOK, Objects
  <2>2. /\ \A s \in Spaces \ {space[v]} : m_isAvailable'[s] = m_isAvailable[s]
        /\ m_isAvailable'[space[v]]
    BY <1>4, <2>1
  <2>3. Calm => \A s \in Spaces : s < space[v] => m_isAvailable[s]
    BY <1>4 DEF KeptInv, FlagsKept, Raised, Constructing, Calm, Undone
  <2> DEFINE s0 == space[v]
  <2> HIDE DEF s0
  <2> QED BY <1>1, <1>2, <1>4, <2>1, <2>2, <2>3, SnapshotRaised
<1>5. ASSUME NEW o \in Objects, loadToShared(o) PROVE SnapshotInv'
  <2>1. CASE o \in Servers
    <3>1. FlagAtCreation(o) = TRUE
      BY <2>1 DEF FlagAtCreation
    <3>2. CASE NowMapped(o)
      BY <1>4, <1>5, <2>1, <3>1, <3>2 DEF loadToShared
    <3>3. CASE ~ NowMapped(o)
      <4>1. m_isAvailable' = m_isAvailable /\ Watch
        BY <1>5, <3>3 DEF loadToShared
      <4> QED BY <1>1, <1>2, <4>1, SnapshotStays, WatchedMoment
    <3> QED BY <3>2, <3>3
  <2>2. CASE o \notin Servers
    <3>1. \A s \in Spaces : m_isAvailable'[s] => m_isAvailable[s]
      BY <1>5, <2>2 DEF loadToShared, FlagAtCreation, LifecycleTypeInv, VarTypes, SpaceTypeOK
    <3> QED BY <1>1, <1>2, <1>5, <3>1, SnapshotStays, WatchedMoment DEF loadToShared
  <2> QED BY <2>1, <2>2
<1> QED BY <1>3, <1>4, <1>5 DEF ConstructStep, Raise

LEMMA SnapshotStep ==
    ASSUME LifecycleTypeInv, KeptInv, SnapshotInv, [Next]_vars PROVE SnapshotInv'
<1>1. ASSUME NEW c \in Clients, ClientStep(c) PROVE SnapshotInv'
  <2>1. CASE ReadLastFlag(c)
    <3>1. /\ UNCHANGED <<m_isAvailable, raced, starved, overlapped, bare>> /\ polled'[c] = 0 /\ Watch
          /\ \A x \in Clients \ {c} : polled'[x] = polled[x] /\ allUp'[x] = allUp[x]
      BY <2>1 DEF ReadLastFlag, spaceVars, disturbances, LifecycleTypeInv, VarTypes, PollTypeOK
    <3>2. Calm' => Calm
      BY <3>1 DEF Calm
    <3> QED BY <3>1, <3>2, SnapshotStays, WatchedMoment
  <2>2. CASE Register(c) \/ ConnectionThreadEnds(c)
    <3>1. UNCHANGED <<m_isAvailable, raced, starved, overlapped, bare, polled, allUp, moment>>
      BY <2>2 DEF Register, ConnectionThreadEnds, spaceVars, pollVars, disturbances
    <3>2. Calm' => Calm
      BY <3>1 DEF Calm
    <3> QED BY <3>1, <3>2, SnapshotStays
  <2> QED BY <1>1, <2>1, <2>2, ReadFlagSnapshot DEF ClientStep, PollStep
<1>2. ASSUME (\E o \in Objects : BeginDestroy(o)) \/ (\E v \in Servers : Lower(v)) \/ UNCHANGED vars
      PROVE  SnapshotInv'
  <2>1. /\ UNCHANGED <<raced, starved, bare, polled, allUp, moment>> /\ overlapped \subseteq overlapped'
    BY <1>2 DEF BeginDestroy, Lower, vars, pollVars, disturbances
  <2>2. \A s \in Spaces : m_isAvailable'[s] => m_isAvailable[s]
    BY <1>2 DEF BeginDestroy, Lower, vars, spaceVars, LifecycleTypeInv, VarTypes, SpaceTypeOK
  <2>3. Calm' => Calm
    BY <2>1 DEF Calm
  <2> QED BY <2>1, <2>2, <2>3, SnapshotStays
<1>3. ASSUME NEW p \in Processes, Crash(p) PROVE SnapshotInv'
  <2>1. /\ UNCHANGED <<m_isAvailable, allUp, raced, starved, overlapped, bare>> /\ Watch
        /\ \A c \in Clients : polled'[c] \in {0, polled[c]}
    BY <1>3 DEF Crash, spaceVars
  <2>2. Calm' => Calm
    BY <2>1 DEF Calm
  <2> QED BY <2>1, <2>2, SnapshotStays, WatchedMoment
<1> QED BY <1>1, <1>2, <1>3, ConstructSnapshot DEF Next, ServerStep

LEMMA ReportsAreSnapshots ==
    ASSUME LifecycleTypeInv, SnapshotInv, [Next]_vars, NEW c \in Clients,
           ~ attr[c], attr'[c], raced \cup overlapped = {}, starved = {}, bare = {}
    PROVE  moment[c] \/ Available
<1> USE LifecycleAssumption DEF LifecycleTypeInv, VarTypes, PollTypeOK
<1>1. ReadLastFlag(c)
  <2>1. ASSUME NEW d \in Clients, ReadLastFlag(d) PROVE d = c
    BY <2>1 DEF ReadLastFlag
  <2>2. ASSUME NEW d \in Clients, ClientStep(d), ~ ReadLastFlag(d) PROVE FALSE
    BY <2>2 DEF ClientStep, PollStep, Register, ReadFlag, ConnectionThreadEnds, pollVars
  <2>3. ASSUME NEW p \in Processes, Crash(p) PROVE FALSE
    BY <2>3 DEF Crash
  <2>4. ASSUME NEW o \in Objects, ConstructStep(o) \/ BeginDestroy(o) PROVE FALSE
    BY <2>4 DEF ConstructStep, isShared, loadToShared, HangInLoadToShared, loadFromShared,
                BeginDestroy, pollVars
  <2>5. ASSUME NEW v \in Servers, ServerStep(v) PROVE FALSE
    BY <2>5 DEF ServerStep, Raise, Lower, pollVars
  <2>6. ~ UNCHANGED vars
    BY DEF vars, pollVars
  <2> QED BY <2>1, <2>2, <2>3, <2>4, <2>5, <2>6 DEF Next
<1>2. allUp[c] /\ m_isAvailable[NumSpaces] /\ polled[c] = NumSpaces - 1
  BY <1>1 DEF ReadLastFlag, NewStatus, ReadNext
<1>3. CASE polled[c] = 0
  <2>1. \A s \in Spaces : s = NumSpaces
    BY <1>2, <1>3 DEF Spaces
  <2> QED BY <1>2, <2>1 DEF Available
<1>4. CASE polled[c] # 0
  <2>1. moment[c] \/ DownAhead(c)
    BY <1>2, <1>4 DEF SnapshotInv, Calm
  <2>2. \A s \in Spaces : s > polled[c] => s = NumSpaces
    BY <1>2 DEF Spaces
  <2> QED BY <1>2, <2>1, <2>2 DEF DownAhead
<1> QED BY <1>3, <1>4

\* A client that reports the server as available has seen a moment at which all flags
\* were up, for any number of spaces, servers, clients and crashes, unless servers
\* raced, overlapped or had no descriptor left to look or to make a space.
THEOREM ReportsWereTrue == Spec => ReportedWasAvailable
<1>1. Init => SnapshotInv
  BY DEF Init, SnapshotInv
<1>2. Init => FlagInv /\ KeptInv
  BY FlagInvInit, KeptInvInit
<1>3. FlagInv /\ KeptInv /\ [Next]_vars => FlagInv' /\ KeptInv'
  BY NextKeeps
<1>4. LifecycleTypeInv /\ KeptInv /\ SnapshotInv /\ [Next]_vars => SnapshotInv'
  BY SnapshotStep
<1>5. LifecycleTypeInv /\ SnapshotInv /\ [Next]_vars =>
          [\A c \in Clients : ~ attr[c] /\ attr'[c] /\ raced \cup overlapped = {}
              /\ starved = {} /\ bare = {} => moment[c] \/ Available]_vars
  BY ReportsAreSnapshots
<1> QED
  BY <1>1, <1>2, <1>3, <1>4, <1>5, LifecycleTypeInvariant, PTL DEF Spec, ReportedWasAvailable

=============================================================================
