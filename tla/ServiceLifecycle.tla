--------------------------- MODULE ServiceLifecycle ---------------------------
(***************************************************************************)
(* Servers and clients of one service come and go, in several processes.   *)
(*                                                                         *)
(* Each constructor goes through the service's spaces in order.  It asks   *)
(* the manager of the space in its process whether the shared memory       *)
(* exists, and then either maps it or creates it and fills it with a new   *)
(* space.  A server raises the flag m_isAvailable of every space and       *)
(* lowers it again in its destructor; a client reads all flags, first in   *)
(* its constructor and then every second on a thread, and sets an          *)
(* attribute to their conjunction.  The shared memory is never unlinked.   *)
(*                                                                         *)
(* A constructor that gets no mapping of a space, for lack of a            *)
(* descriptor, goes on without one: a server has then raised no flag       *)
(* there.  What uses the missing mapping later dereferences a null         *)
(* pointer; it has no step here but the crash of its process.              *)
(*                                                                         *)
(* One semaphore guards each space and one, of the managers, guards        *)
(* creation.  A region under a semaphore is a step, which is not possible  *)
(* once a process has died inside a region of the same semaphore.          *)
(*                                                                         *)
(* The ids for events that listeners take and give back later are those    *)
(* of EventDelivery.                                                       *)
(***************************************************************************)
EXTENDS Integers, FiniteSets

CONSTANTS
    Servers, Clients,  \* objects, each constructed at most once
    Processes,
    ProcessOf,         \* the process of each object
    NumSpaces,         \* 3: the call space, the callback space, the event space
    CLIENTS_SIZE,      \* the ids for events there are
    FdLimit,           \* the descriptors a process may have for shared memory
    MaxCrashes,        \* bound: the processes that die
    None               \* no mapping

Objects == Servers \cup Clients
Spaces == 1 .. NumSpaces
EventSpace == NumSpaces
Manager == 0           \* the semaphore of the managers; a space's is its number

ASSUME LifecycleAssumption ==
    /\ ProcessOf \in [Objects -> Processes]
    /\ Servers \cap Clients = {}
    /\ None \notin Objects
    /\ NumSpaces \in Nat \ {0}
    /\ CLIENTS_SIZE \in Nat
    /\ FdLimit \in Nat
    /\ MaxCrashes \in Nat

VARIABLES
    \* the operating system
    exists,          \* the shared memory objects there are
    stuck,           \* the semaphores that dead processes took with them
    leaked,          \* the descriptors isShared opened and forgot
    crashes,
    \* the spaces
    m_isAvailable,
    registered,      \* the clients the event space has an id for
    \* a process's managers
    mapping,         \* m_sharedObject, named after the object that had it made
    \* an object
    at,              \* where it is
    space,           \* the space a constructor or destructor is at
    holds,           \* the mappings a client keeps
    m_evClientId,    \* the clients that were given an id for events
    attr,            \* a client's attribute
    polled,          \* the flags the poll under way has read
    allUp,           \* whether all of them were up
    \* history
    raced,           \* spaces that two constructors found missing at once
    starved,         \* spaces found missing for lack of a descriptor
    overlapped,      \* flags a server lowered that another had raised
    left,            \* flags a server died with
    bare,            \* servers and the spaces they were constructed without
    moment           \* all flags were up at one moment of the poll under way

osVars == <<exists, stuck, leaked, crashes>>
idVars == <<registered, m_evClientId>>
spaceVars == <<m_isAvailable, idVars>>
pollVars == <<attr, polled, allUp>>
disturbances == <<raced, starved, overlapped, left, bare>>
vars == <<osVars, spaceVars, mapping, at, space, holds, pollVars, disturbances, moment>>

Constructing == {"check", "make", "load", "raise", "register", "first", "hung"}
Ended == {"gone", "dead"}
Live(o) == at[o] \notin Ended \cup {"new"}

NoMappings == [s \in Spaces |-> None]

\* The mappings a process has: those of its managers and those its clients keep.
Mappings(p) ==
    {x \in Spaces \X Objects :
        \/ mapping[p][x[1]] = x[2]
        \/ \E c \in Clients : ProcessOf[c] = p /\ holds[c][x[1]] = x[2]}

Fds(p) == leaked[p] + Cardinality(Mappings(p))

SystemTypeOK ==
    /\ exists \subseteq Spaces
    /\ stuck \subseteq Spaces \cup {Manager}
    /\ leaked \in [Processes -> Nat]
    /\ crashes \in 0 .. MaxCrashes
    /\ mapping \in [Processes -> [Spaces -> Objects \cup {None}]]

SpaceTypeOK ==
    /\ m_isAvailable \in [Spaces -> BOOLEAN]
    /\ registered \subseteq Clients
    /\ m_evClientId \subseteq Clients

ObjectTypeOK ==
    /\ at \in [Objects -> Constructing \cup Ended \cup {"new", "up", "lower", "closing"}]
    /\ space \in [Objects -> Spaces]
    /\ holds \in [Clients -> [Spaces -> Objects \cup {None}]]

PollTypeOK ==
    /\ attr \in [Clients -> BOOLEAN]
    /\ polled \in [Clients -> 0 .. NumSpaces - 1]
    /\ allUp \in [Clients -> BOOLEAN]

HistoryTypeOK ==
    /\ raced \cup starved \cup overlapped \cup left \subseteq Spaces
    /\ bare \subseteq Servers \X Spaces
    /\ moment \in [Clients -> BOOLEAN]

WithinLimit == \A p \in Processes : Fds(p) <= FdLimit

TypeOK ==
    /\ SystemTypeOK
    /\ SpaceTypeOK
    /\ ObjectTypeOK
    /\ PollTypeOK
    /\ HistoryTypeOK
    /\ WithinLimit

Init ==
    /\ exists = {} /\ stuck = {} /\ crashes = 0
    /\ leaked = [p \in Processes |-> 0]
    /\ m_isAvailable = [s \in Spaces |-> FALSE]
    /\ registered = {} /\ m_evClientId = {}
    /\ mapping = [p \in Processes |-> NoMappings]
    /\ at = [o \in Objects |-> "new"]
    /\ space = [o \in Objects |-> 1]
    /\ holds = [c \in Clients |-> NoMappings]
    /\ attr = [c \in Clients |-> FALSE]
    /\ polled = [c \in Clients |-> 0]
    /\ allUp = [c \in Clients |-> TRUE]
    /\ raced = {} /\ starved = {} /\ overlapped = {} /\ left = {} /\ bare = {}
    /\ moment = [c \in Clients |-> FALSE]

-----------------------------------------------------------------------------
(* The constructors: one space after the other *)

Available == \A s \in Spaces : m_isAvailable[s]

\* For the polls that are under way after the step.
Watch == moment' = [c \in Clients |-> polled'[c] # 0 /\ (moment[c] \/ Available')]

Goto(o, place) == at' = [at EXCEPT ![o] = place]
Free(semaphore) == semaphore \notin stuck

\* Mutant: the descriptors are not counted.
FdLeftAlways(p) == p \in Processes

FdLeft(p) == Fds(p) < FdLimit

\* Mutant: only what this process has mapped counts as shared.
FoundHere(o) == mapping[ProcessOf[o]][space[o]] # None

\* shm_open succeeds: the object exists and there is a descriptor for it.
Found(o) == space[o] \in exists /\ FdLeft(ProcessOf[o])

\* isShared answers and releases the managers' semaphore; the descriptor it
\* opened is never closed.
isShared(o) ==
    /\ at[o] \in {"new", "check"}
    /\ Free(Manager)
    /\ Goto(o, IF Found(o) THEN "load" ELSE "make")
    /\ leaked' = IF Found(o) THEN [leaked EXCEPT ![ProcessOf[o]] = @ + 1] ELSE leaked
    /\ starved' = IF ~ FdLeft(ProcessOf[o]) /\ space[o] \in exists
                  THEN starved \cup {space[o]} ELSE starved
    /\ raced' = IF ~ Found(o) /\ (\E x \in Objects : at[x] = "make" /\ space[x] = space[o])
                THEN raced \cup {space[o]} ELSE raced
    /\ UNCHANGED <<exists, stuck, crashes, spaceVars, mapping, space, holds, pollVars,
                   overlapped, left, bare, moment>>

\* createImpl replaces the manager's mapping by a new one, or leaves what there
\* is, a mapping or none, when there is no descriptor.
createImpl(o) ==
    LET p == ProcessOf[o]
    IN  IF FdLeft(p)
        THEN /\ mapping' = [mapping EXCEPT ![p][space[o]] = o]
             /\ exists' = exists \cup {space[o]}
        ELSE UNCHANGED <<mapping, exists>>

Mapped(o) == mapping[ProcessOf[o]][space[o]] # None
NowMapped(o) == mapping'[ProcessOf[o]][space[o]] # None

\* A client keeps the mapping it was given, and so keeps it open.
Keep(o) ==
    holds' = IF o \in Clients
             THEN [holds EXCEPT ![o][space[o]] = mapping'[ProcessOf[o]][space[o]]]
             ELSE holds

\* The constructor goes on to the next space, or is done with the spaces.
Advance(o) ==
    /\ Goto(o, IF space[o] # EventSpace THEN "check"
               ELSE IF o \in Servers THEN "up" ELSE "register")
    /\ space' = [space EXCEPT ![o] = IF @ # EventSpace THEN @ + 1 ELSE 1]

\* Mutant: the space a server creates is not marked available.
FlagDown(o) == o \notin Objects

\* The flag in the new space an object writes.
FlagAtCreation(o) == o \in Servers

\* loadToShared: a whole new space is written, under both semaphores, whatever
\* the shared memory holds by now; nothing is written without a mapping.
loadToShared(o) ==
    /\ at[o] = "make"
    /\ Free(Manager)
    /\ createImpl(o)
    /\ Keep(o)
    /\ \/ /\ NowMapped(o) /\ Free(space[o])
          /\ m_isAvailable' = [m_isAvailable EXCEPT ![space[o]] = FlagAtCreation(o)]
          /\ registered' = IF space[o] = EventSpace THEN {} ELSE registered
          /\ UNCHANGED bare
       \/ /\ ~ NowMapped(o)
          /\ bare' = IF o \in Servers THEN bare \cup {<<o, space[o]>>} ELSE bare
          /\ UNCHANGED <<m_isAvailable, registered>>
    /\ Advance(o)
    /\ UNCHANGED <<stuck, leaked, crashes, m_evClientId, pollVars, raced, starved, overlapped, left>>
    /\ Watch

\* loadToShared waits for a space's semaphore with the managers' in its hands.
HangInLoadToShared(o) ==
    /\ at[o] = "make"
    /\ Free(Manager) /\ ~ Free(space[o])
    /\ createImpl(o)
    /\ NowMapped(o)
    /\ stuck' = stuck \cup {Manager}
    /\ Goto(o, "hung")
    /\ UNCHANGED <<leaked, crashes, spaceVars, space, holds, pollVars, disturbances, moment>>

\* loadFromShared maps what is there.
loadFromShared(o) ==
    /\ at[o] = "load"
    /\ Free(Manager)
    /\ createImpl(o)
    /\ Keep(o)
    /\ IF o \in Servers THEN Goto(o, "raise") /\ UNCHANGED space ELSE Advance(o)
    /\ UNCHANGED <<stuck, leaked, crashes, spaceVars, pollVars, disturbances, moment>>

\* A server that found the space raises its flag.
Raise(v) ==
    /\ at[v] = "raise"
    /\ Mapped(v) /\ Free(space[v])
    /\ m_isAvailable' = [m_isAvailable EXCEPT ![space[v]] = TRUE]
    /\ Advance(v)
    /\ UNCHANGED <<osVars, idVars, mapping, holds, pollVars, disturbances>>
    /\ Watch

\* registerClient fails when all ids are taken; the constructor goes on without.
TakesId(c) ==
    IF Cardinality(registered) < CLIENTS_SIZE
    THEN registered' = registered \cup {c} /\ m_evClientId' = m_evClientId \cup {c}
    ELSE UNCHANGED idVars

\* A client asks for an id for events, then polls once before it is constructed.
Register(c) ==
    /\ at[c] = "register"
    /\ holds[c][EventSpace] # None /\ Free(EventSpace)
    /\ TakesId(c)
    /\ Goto(c, "first")
    /\ UNCHANGED <<osVars, m_isAvailable, mapping, space, holds, pollVars, disturbances, moment>>

-----------------------------------------------------------------------------
(* The destructors *)

\* Mutant: a server's destructor forgets the event space.
LastLoweredEarly == EventSpace - 1

LastLowered == EventSpace

\* What a live server has raised and not lowered yet.
Raised(v, s) ==
    /\ <<v, s>> \notin bare
    /\ \/ at[v] = "up"
       \/ at[v] \in Constructing /\ s < space[v]
       \/ at[v] = "lower" /\ s >= space[v]

\* The server thread or the connection thread is told to end.
BeginDestroy(o) ==
    /\ at[o] = "up"
    /\ Goto(o, IF o \in Servers THEN "lower" ELSE "closing")
    /\ UNCHANGED <<osVars, spaceVars, mapping, space, holds, pollVars, disturbances, moment>>

\* freeMemory lowers one flag, whoever else has raised it.
Lower(v) ==
    LET s == space[v]
    IN  /\ at[v] = "lower"
        /\ Mapped(v) /\ Free(s)
        /\ m_isAvailable' = [m_isAvailable EXCEPT ![s] = FALSE]
        /\ overlapped' = IF \E w \in Servers \ {v} : Raised(w, s)
                         THEN overlapped \cup {s} ELSE overlapped
        /\ IF s = LastLowered THEN Goto(v, "gone") /\ UNCHANGED space
           ELSE space' = [space EXCEPT ![v] = s + 1] /\ UNCHANGED at
        /\ UNCHANGED <<osVars, idVars, mapping, holds, pollVars, raced, starved, left, bare, moment>>

\* The connection thread ends between two polls and withdraws the attribute.
\* The id for events is not given back.
ConnectionThreadEnds(c) ==
    /\ at[c] = "closing"
    /\ polled[c] = 0
    /\ attr' = [attr EXCEPT ![c] = FALSE]
    /\ holds' = [holds EXCEPT ![c] = NoMappings]
    /\ Goto(c, "gone")
    /\ UNCHANGED <<osVars, spaceVars, mapping, space, polled, allUp, disturbances, moment>>

-----------------------------------------------------------------------------
(* updateConnectionStatus *)

\* Mutant: the flags are read in the opposite order.
ReadReversed(n) == NumSpaces - n

\* The space whose flag is read when n flags have been.
ReadNext(n) == n + 1

Polling(c) == at[c] \in {"first", "up"} \/ (at[c] = "closing" /\ polled[c] # 0)

\* The next flag can be read: the client has the space mapped and gets its semaphore.
Readable(c) == holds[c][ReadNext(polled[c])] # None /\ Free(ReadNext(polled[c]))

\* One flag is read, under its own semaphore.
ReadFlag(c) ==
    /\ Polling(c)
    /\ polled[c] < NumSpaces - 1
    /\ Readable(c)
    /\ allUp' = [allUp EXCEPT ![c] = @ /\ m_isAvailable[ReadNext(polled[c])]]
    /\ polled' = [polled EXCEPT ![c] = @ + 1]
    /\ UNCHANGED <<osVars, spaceVars, mapping, at, space, holds, attr, disturbances>>
    /\ Watch

\* Mutant: an available server stays available.
StatusSticky(c) == attr[c] \/ (allUp[c] /\ m_isAvailable[ReadNext(polled[c])])

NewStatus(c) == allUp[c] /\ m_isAvailable[ReadNext(polled[c])]

\* The last flag is read and the attribute set to the conjunction.
ReadLastFlag(c) ==
    /\ Polling(c)
    /\ polled[c] = NumSpaces - 1
    /\ Readable(c)
    /\ attr' = [attr EXCEPT ![c] = NewStatus(c)]
    /\ polled' = [polled EXCEPT ![c] = 0]
    /\ allUp' = [allUp EXCEPT ![c] = TRUE]
    /\ IF at[c] = "first" THEN Goto(c, "up") ELSE UNCHANGED at
    /\ UNCHANGED <<osVars, spaceVars, mapping, space, holds, disturbances>>
    /\ Watch

-----------------------------------------------------------------------------
(* A process dies, with all its objects *)

\* The semaphore one of its threads may be inside of: objects that are constructed
\* use that of the managers, all use those of the spaces.
MayHold(p) ==
    (IF \E o \in Objects : ProcessOf[o] = p /\ at[o] \in Constructing THEN {Manager} ELSE {})
        \cup Spaces

Crash(p) ==
    /\ crashes < MaxCrashes
    /\ \E o \in Objects : ProcessOf[o] = p /\ Live(o)
    /\ crashes' = crashes + 1
    /\ stuck' \in {stuck} \cup {stuck \cup {s} : s \in MayHold(p)}
    /\ LET dies == {o \in Objects : ProcessOf[o] = p /\ Live(o)}
       IN  /\ at' = [o \in Objects |-> IF o \in dies THEN "dead" ELSE at[o]]
           /\ holds' = [c \in Clients |-> IF c \in dies THEN NoMappings ELSE holds[c]]
           /\ attr' = [c \in Clients |-> attr[c] /\ c \notin dies]
           /\ polled' = [c \in Clients |-> IF c \in dies THEN 0 ELSE polled[c]]
           /\ left' = left \cup {s \in Spaces : \E v \in dies \cap Servers : Raised(v, s)}
    /\ leaked' = [leaked EXCEPT ![p] = 0]
    /\ mapping' = [mapping EXCEPT ![p] = NoMappings]
    /\ UNCHANGED <<exists, spaceVars, space, allUp, raced, starved, overlapped, bare>>
    /\ Watch

-----------------------------------------------------------------------------
ConstructStep(o) ==
    isShared(o) \/ loadToShared(o) \/ HangInLoadToShared(o) \/ loadFromShared(o)
ServerStep(v) == Raise(v) \/ Lower(v)
PollStep(c) == ReadFlag(c) \/ ReadLastFlag(c)
ClientStep(c) == Register(c) \/ PollStep(c) \/ ConnectionThreadEnds(c)

Next ==
    \/ \E o \in Objects : ConstructStep(o) \/ BeginDestroy(o)
    \/ \E v \in Servers : ServerStep(v)
    \/ \E c \in Clients : ClientStep(c)
    \/ \E p \in Processes : Crash(p)

Spec == Init /\ [][Next]_vars

\* The connection threads run: they wait a second at most between two polls.
FairSpec == Spec /\ \A c \in Clients : WF_vars(PollStep(c))

-----------------------------------------------------------------------------
(* Properties *)

\* The check and the creation of a space are two regions, yet nothing a live
\* object relies on is overwritten - neither a flag a server raised nor an id for
\* events a client was given - unless two constructors found the same space missing
\* at once or a process had no descriptor to look at a space there was; and only
\* an overlapping server lowers a flag that is not its own.  A server is constructed
\* without a flag only where its process had no descriptor to make the space.
KeptUndisturbed ==
    /\ \A v \in Servers : at[v] = "up" =>
        \A s \in Spaces \ (raced \cup starved \cup overlapped) :
            m_isAvailable[s] \/ <<v, s>> \in bare
    /\ \A c \in m_evClientId : at[c] \in {"first", "up", "closing"} =>
        c \in registered \/ EventSpace \in raced \cup starved

\* A flag is never up without a server that raised it and has not lowered it,
\* through races, overlapping servers and exhausted descriptors, except for the
\* flags a server died with.
NoPhantomServer ==
    \A s \in Spaces : m_isAvailable[s] => s \in left \/ \E v \in Servers : Raised(v, s)

\* A client reads each flag at another moment, but when it reports the
\* server as available then all flags were up at one moment in between, because
\* flags are raised, lowered and read in the same order.
ReportedWasAvailable ==
    [][\A c \in Clients : ~ attr[c] /\ attr'[c] /\ raced \cup overlapped = {}
        /\ starved = {} /\ bare = {} => moment[c] \/ Available]_vars

NoServer == \A v \in Servers : at[v] \in {"new", "gone"}

\* A client notices in the end that the server was destroyed, unless something
\* else happens to either, or a dead process keeps a space.
DestructionNoticed ==
    \A c \in Clients : at[c] = "up" /\ NoServer
        ~> (~ attr[c] \/ at[c] # "up" \/ ~ NoServer \/ stuck # {} \/ left # {})

\* A client notices in the end that a server is up, under the same conditions.
ServerNoticed ==
    \A c \in Clients : \A v \in Servers : at[c] = "up" /\ at[v] = "up"
        ~> (attr[c] \/ at[c] # "up" \/ at[v] # "up" \/ stuck # {}
            \/ raced \cup starved \cup overlapped # {} \/ bare # {})

\* The test server_available_when_running: a service is available once its
\* server is constructed and until it is destroyed.
AvailableWhenRunning ==
    \A v \in Servers : at[v] = "up" => Available

=============================================================================
