--------------------------- MODULE EventRingBuffer ---------------------------
(***************************************************************************)
(* One client's ring of events: a fixed array of slots between a read and  *)
(* a write index, one slot always left unused.  An event stands for its    *)
(* id, its size and its payload, which fill one slot.  The operations are  *)
(* functions of the ring; EventSpace keeps a ring per client.              *)
(***************************************************************************)
EXTENDS Integers, Sequences

CONSTANTS
    Events,            \* the events that may be sent
    NoEvent,           \* the content of a slot never written
    EventSize,         \* the bytes of each event's payload
    MAX_DATA_LENGTH,   \* 512 in the code
    MAX_QUEUE_SIZE     \* 1024 in the code

ASSUME EventRingBufferAssumption ==
    /\ NoEvent \notin Events
    /\ EventSize \in [Events -> Nat]
    /\ MAX_DATA_LENGTH \in Nat
    /\ MAX_QUEUE_SIZE \in Nat \ {0}

Index == 0 .. MAX_QUEUE_SIZE - 1

Ring == [m_storage : [Index -> Events \cup {NoEvent}], m_read : Index, m_write : Index]

NewRing == [m_storage |-> [i \in Index |-> NoEvent], m_read |-> 0, m_write |-> 0]

\* Mutant: the index does not wrap.
FollowingUnwrapped(i) == i + 1

Following(i) == (i + 1) % MAX_QUEUE_SIZE

isEmpty(r) == r.m_read = r.m_write

\* Mutant: a full ring goes unnoticed.
neverFull(r) == FALSE

isFull(r) == Following(r.m_write) = r.m_read

ringPush(r, e) ==
    IF EventSize[e] > MAX_DATA_LENGTH \/ isFull(r)
    THEN r
    ELSE [r EXCEPT !.m_storage[r.m_write] = e, !.m_write = Following(@)]

\* What pop points at, and the ring it leaves: the slot is not copied.
front(r) == r.m_storage[r.m_read]
ringPop(r) == [r EXCEPT !.m_read = Following(@)]

\* Mutant: only the read index goes back.
resetRead(r) == [r EXCEPT !.m_read = 0]

\* The slots keep their bytes.
reset(r) == [r EXCEPT !.m_read = 0, !.m_write = 0]

\* The events a ring holds, oldest first.
Held(r) == (r.m_write - r.m_read) % MAX_QUEUE_SIZE
Contents(r) ==
    [n \in 1 .. Held(r) |-> r.m_storage[(r.m_read + (n - 1)) % MAX_QUEUE_SIZE]]

=============================================================================
