----------------------------- MODULE EventProofs -----------------------------
(***************************************************************************)
(* Proofs about the event space and the delivery of events, for any number *)
(* of clients, listeners and events and any size of the rings.             *)
(***************************************************************************)
EXTENDS EventDelivery, TLAPS

-----------------------------------------------------------------------------
(* Arithmetic of the indices *)

LEMMA Mod ==
    /\ \A i \in Index : Following(i) = IF i + 1 = MAX_QUEUE_SIZE THEN 0 ELSE i + 1
    /\ \A i, j \in Index : (i + j) % MAX_QUEUE_SIZE =
                              IF i + j >= MAX_QUEUE_SIZE THEN i + j - MAX_QUEUE_SIZE ELSE i + j
    /\ \A i, j \in Index : (i - j) % MAX_QUEUE_SIZE =
                              IF i >= j THEN i - j ELSE i + MAX_QUEUE_SIZE - j
<1>1. \A i \in Index : i % MAX_QUEUE_SIZE = i
  BY EventRingBufferAssumption DEF Index
<1>2. MAX_QUEUE_SIZE % MAX_QUEUE_SIZE = 0
  BY EventRingBufferAssumption
<1>3. \A i \in Index : Following(i) = IF i + 1 = MAX_QUEUE_SIZE THEN 0 ELSE i + 1
  BY <1>1, <1>2, EventRingBufferAssumption DEF Index, Following
<1>4. \A i, j \in Index : (i + j) % MAX_QUEUE_SIZE =
          IF i + j >= MAX_QUEUE_SIZE THEN i + j - MAX_QUEUE_SIZE ELSE i + j
  BY <1>1, <1>2, EventRingBufferAssumption DEF Index
<1>5. \A i, j \in Index : (i - j) % MAX_QUEUE_SIZE =
          IF i >= j THEN i - j ELSE i + MAX_QUEUE_SIZE - j
  BY <1>1, <1>2, EventRingBufferAssumption DEF Index
<1> QED BY <1>3, <1>4, <1>5

LEMMA ZeroIsIndex == 0 \in Index
BY EventRingBufferAssumption DEF Index

LEMMA FollowingType == ASSUME NEW i \in Index PROVE Following(i) \in Index
<1>1. Following(i) = IF i + 1 = MAX_QUEUE_SIZE THEN 0 ELSE i + 1
  BY Mod
<1> QED BY <1>1, EventRingBufferAssumption DEF Index

LEMMA SumIsIndex ==
    ASSUME NEW i \in Index, NEW j \in Index PROVE (i + j) % MAX_QUEUE_SIZE \in Index
<1>1. (i + j) % MAX_QUEUE_SIZE =
          IF i + j >= MAX_QUEUE_SIZE THEN i + j - MAX_QUEUE_SIZE ELSE i + j
  BY Mod
<1> QED BY <1>1, EventRingBufferAssumption DEF Index

-----------------------------------------------------------------------------
(* The operations of a ring *)

LEMMA NewRingType == NewRing \in Ring
BY ZeroIsIndex DEF NewRing, Ring

LEMMA ResetRing ==
    ASSUME NEW r \in Ring
    PROVE  /\ reset(r) \in Ring
           /\ reset(r).m_storage = r.m_storage
           /\ reset(r).m_read = 0 /\ reset(r).m_write = 0
BY ZeroIsIndex DEF reset, Ring

LEMMA PopRing ==
    ASSUME NEW r \in Ring
    PROVE  /\ ringPop(r) \in Ring
           /\ ringPop(r).m_storage = r.m_storage
           /\ ringPop(r).m_read = Following(r.m_read)
           /\ ringPop(r).m_write = r.m_write
BY FollowingType DEF ringPop, Ring

LEMMA PushRing ==
    ASSUME NEW r \in Ring, NEW e \in Events
    PROVE  /\ ringPush(r, e) \in Ring
           /\ ringPush(r, e).m_read = r.m_read
           /\ \/ ringPush(r, e) = r
              \/ /\ ~ isFull(r)
                 /\ ringPush(r, e).m_write = Following(r.m_write)
                 /\ ringPush(r, e).m_storage = [r.m_storage EXCEPT ![r.m_write] = e]
<1>1. CASE EventSize[e] > MAX_DATA_LENGTH \/ isFull(r)
  BY <1>1 DEF ringPush
<1>2. CASE ~ (EventSize[e] > MAX_DATA_LENGTH \/ isFull(r))
  BY <1>2, FollowingType DEF ringPush, Ring
<1> QED BY <1>1, <1>2

\* What a ring holds, as a sequence.
LEMMA ContentsLength ==
    ASSUME NEW r \in Ring
    PROVE  /\ Held(r) \in Nat /\ Held(r) <= MAX_QUEUE_SIZE - 1
           /\ Len(Contents(r)) = Held(r)
           /\ Contents(r) \in Seq(Events \cup {NoEvent})
<1>1. Held(r) \in 0 .. MAX_QUEUE_SIZE - 1
  <2>1. r.m_read \in Index /\ r.m_write \in Index
    BY DEF Ring
  <2>2. Held(r) = IF r.m_write >= r.m_read THEN r.m_write - r.m_read
                  ELSE r.m_write + MAX_QUEUE_SIZE - r.m_read
    BY <2>1, Mod DEF Held
  <2> QED BY <2>1, <2>2, EventRingBufferAssumption DEF Index
<1>2. ASSUME NEW n \in 1 .. Held(r)
      PROVE  r.m_storage[(r.m_read + (n - 1)) % MAX_QUEUE_SIZE] \in Events \cup {NoEvent}
  <2>1. r.m_read \in Index /\ n - 1 \in Index
    BY <1>1, EventRingBufferAssumption DEF Ring, Index
  <2>2. (r.m_read + (n - 1)) % MAX_QUEUE_SIZE \in Index
    BY <2>1, SumIsIndex
  <2> QED BY <2>2 DEF Ring
<1>3. Contents(r) \in [1 .. Held(r) -> Events \cup {NoEvent}]
  BY <1>2 DEF Contents
<1> QED BY <1>1, <1>3, EventRingBufferAssumption

LEMMA ResetContents ==
    ASSUME NEW r \in Ring PROVE Contents(reset(r)) = <<>>
<1>1. Held(reset(r)) = 0
  BY ResetRing, Mod, ZeroIsIndex DEF Held
<1>2. Len(Contents(reset(r))) = 0 /\ Contents(reset(r)) \in Seq(Events \cup {NoEvent})
  BY <1>1, ResetRing, ContentsLength
<1> QED BY <1>2

\* The slot of the n-th event a ring holds.
SlotOf(r, n) == (r.m_read + (n - 1)) % MAX_QUEUE_SIZE

LEMMA IndexesOf ==
    ASSUME NEW r \in Ring
    PROVE  /\ r.m_read \in Index /\ r.m_write \in Index
           /\ Held(r) = IF r.m_write >= r.m_read THEN r.m_write - r.m_read
                        ELSE r.m_write + MAX_QUEUE_SIZE - r.m_read
           /\ \A i \in Index : (r.m_read + i) % MAX_QUEUE_SIZE =
                IF r.m_read + i >= MAX_QUEUE_SIZE THEN r.m_read + i - MAX_QUEUE_SIZE
                ELSE r.m_read + i
<1>1. r.m_read \in Index /\ r.m_write \in Index
  BY DEF Ring
<1> QED BY <1>1, Mod DEF Held

LEMMA HeldNone == ASSUME NEW r \in Ring PROVE isEmpty(r) <=> Held(r) = 0
BY IndexesOf, EventRingBufferAssumption DEF isEmpty, Index

LEMMA HeldAll == ASSUME NEW r \in Ring PROVE isFull(r) <=> Held(r) = MAX_QUEUE_SIZE - 1
<1>1. Following(r.m_write) = IF r.m_write + 1 = MAX_QUEUE_SIZE THEN 0 ELSE r.m_write + 1
  BY IndexesOf, Mod
<1>2. /\ r.m_read \in Index /\ r.m_write \in Index
      /\ Held(r) = IF r.m_write >= r.m_read THEN r.m_write - r.m_read
                   ELSE r.m_write + MAX_QUEUE_SIZE - r.m_read
  BY IndexesOf
<1> QED BY <1>1, <1>2, EventRingBufferAssumption DEF isFull, Index

LEMMA PopContents ==
    ASSUME NEW r \in Ring, ~ isEmpty(r)
    PROVE  /\ Contents(r) # <<>>
           /\ front(r) = Head(Contents(r))
           /\ Contents(ringPop(r)) = Tail(Contents(r))
<1> DEFINE p == ringPop(r)
<1>1. p \in Ring /\ p.m_storage = r.m_storage /\ p.m_read = Following(r.m_read)
      /\ p.m_write = r.m_write
  BY PopRing
<1>2. Following(r.m_read) = IF r.m_read + 1 = MAX_QUEUE_SIZE THEN 0 ELSE r.m_read + 1
  BY IndexesOf, Mod
<1> HIDE DEF p
<1>3. Held(r) \in Nat /\ Held(r) > 0 /\ Held(r) <= MAX_QUEUE_SIZE - 1
  BY HeldNone, ContentsLength
<1>held.
      /\ r.m_read \in Index /\ r.m_write \in Index /\ p.m_read \in Index /\ p.m_write \in Index
      /\ Held(r) = IF r.m_write >= r.m_read THEN r.m_write - r.m_read
                   ELSE r.m_write + MAX_QUEUE_SIZE - r.m_read
      /\ Held(p) = IF p.m_write >= p.m_read THEN p.m_write - p.m_read
                   ELSE p.m_write + MAX_QUEUE_SIZE - p.m_read
  BY <1>1, IndexesOf
<1>4. Held(p) = Held(r) - 1
  BY <1>1, <1>2, <1>3, <1>held, EventRingBufferAssumption DEF Index
<1>5. \A n \in 1 .. Held(r) - 1 : SlotOf(p, n) = SlotOf(r, n + 1)
  <2>1. TAKE n \in 1 .. Held(r) - 1
  <2>2. n - 1 \in Index /\ n \in Index /\ (n + 1) - 1 = n
    BY <1>3, EventRingBufferAssumption DEF Index
  <2>3. SlotOf(p, n) = IF p.m_read + (n - 1) >= MAX_QUEUE_SIZE
                       THEN p.m_read + (n - 1) - MAX_QUEUE_SIZE ELSE p.m_read + (n - 1)
    BY <1>1, <2>2, IndexesOf DEF SlotOf
  <2>4. SlotOf(r, n + 1) = IF r.m_read + n >= MAX_QUEUE_SIZE
                           THEN r.m_read + n - MAX_QUEUE_SIZE ELSE r.m_read + n
    BY <2>2, IndexesOf DEF SlotOf
  <2> QED BY <1>1, <1>2, <1>3, <1>held, <2>2, <2>3, <2>4, EventRingBufferAssumption DEF Index
<1>6. SlotOf(r, 1) = r.m_read
  BY IndexesOf, ZeroIsIndex, EventRingBufferAssumption DEF SlotOf, Index
<1>7. /\ Contents(r) \in Seq(Events \cup {NoEvent}) /\ Len(Contents(r)) = Held(r)
      /\ Contents(p) \in Seq(Events \cup {NoEvent}) /\ Len(Contents(p)) = Held(r) - 1
  BY <1>1, <1>4, ContentsLength
<1>8. /\ \A n \in 1 .. Held(r) : Contents(r)[n] = r.m_storage[SlotOf(r, n)]
      /\ \A n \in 1 .. Held(p) : Contents(p)[n] = p.m_storage[SlotOf(p, n)]
  BY DEF Contents, SlotOf
<1>9. Contents(r) # <<>> /\ front(r) = Head(Contents(r))
  BY <1>3, <1>6, <1>7, <1>8 DEF front
<1>10. Contents(p) = Tail(Contents(r))
  <2>1. /\ Tail(Contents(r)) \in Seq(Events \cup {NoEvent})
        /\ Len(Tail(Contents(r))) = Held(r) - 1
        /\ \A n \in 1 .. Held(r) - 1 : Tail(Contents(r))[n] = Contents(r)[n + 1]
    BY <1>3, <1>7
  <2>2. \A n \in 1 .. Held(r) - 1 : Contents(p)[n] = Tail(Contents(r))[n]
    <3>1. TAKE n \in 1 .. Held(r) - 1
    <3>2. n \in 1 .. Held(p) /\ n + 1 \in 1 .. Held(r)
      BY <1>3, <1>4
    <3> QED BY <1>1, <1>5, <1>8, <2>1, <3>2
  <2> QED BY <1>7, <2>1, <2>2
<1> QED BY <1>9, <1>10 DEF p

LEMMA PushContents ==
    ASSUME NEW r \in Ring, NEW e \in Events, EventSize[e] <= MAX_DATA_LENGTH, ~ isFull(r)
    PROVE  Contents(ringPush(r, e)) = Append(Contents(r), e)
<1> DEFINE p == ringPush(r, e)
<1>1. /\ p \in Ring /\ p.m_read = r.m_read /\ p.m_write = Following(r.m_write)
      /\ p.m_storage = [r.m_storage EXCEPT ![r.m_write] = e]
  <2>1. EventSize[e] \in Nat
    BY EventRingBufferAssumption
  <2>2. p = [r EXCEPT !.m_storage[r.m_write] = e, !.m_write = Following(@)]
    BY <2>1, EventRingBufferAssumption DEF ringPush
  <2>3. p.m_write = Following(r.m_write) /\ p.m_read = r.m_read
        /\ p.m_storage = [r.m_storage EXCEPT ![r.m_write] = e]
    BY <2>2 DEF Ring
  <2> QED BY <2>3, PushRing
<1> HIDE DEF p
<1>2. Following(r.m_write) = IF r.m_write + 1 = MAX_QUEUE_SIZE THEN 0 ELSE r.m_write + 1
  BY IndexesOf, Mod
<1>3. Held(r) \in Nat /\ Held(r) < MAX_QUEUE_SIZE - 1
  BY HeldAll, ContentsLength, EventRingBufferAssumption
<1>held.
      /\ r.m_read \in Index /\ r.m_write \in Index /\ p.m_read \in Index /\ p.m_write \in Index
      /\ Held(r) = IF r.m_write >= r.m_read THEN r.m_write - r.m_read
                   ELSE r.m_write + MAX_QUEUE_SIZE - r.m_read
      /\ Held(p) = IF p.m_write >= p.m_read THEN p.m_write - p.m_read
                   ELSE p.m_write + MAX_QUEUE_SIZE - p.m_read
  BY <1>1, IndexesOf
<1>4. Held(p) = Held(r) + 1
  BY <1>1, <1>2, <1>3, <1>held, EventRingBufferAssumption DEF Index
<1>5. \A n \in 1 .. Held(r) + 1 :
          /\ SlotOf(p, n) = SlotOf(r, n) /\ SlotOf(r, n) \in Index
          /\ SlotOf(r, n) = r.m_write <=> n = Held(r) + 1
  <2>1. TAKE n \in 1 .. Held(r) + 1
  <2>2. n - 1 \in Index
    BY <1>3, EventRingBufferAssumption DEF Index
  <2>3. SlotOf(r, n) = IF r.m_read + (n - 1) >= MAX_QUEUE_SIZE
                       THEN r.m_read + (n - 1) - MAX_QUEUE_SIZE ELSE r.m_read + (n - 1)
    BY <2>2, IndexesOf DEF SlotOf
  <2>4. SlotOf(p, n) = SlotOf(r, n)
    BY <1>1 DEF SlotOf
  <2>5. SlotOf(r, n) \in Index
    BY <1>held, <2>2, <2>3, EventRingBufferAssumption DEF Index
  <2>6. n \in Nat /\ n >= 1 /\ n <= Held(r) + 1
    BY <1>3, <2>1
  <2>7. SlotOf(r, n) = r.m_write <=> n = Held(r) + 1
    <3>1. CASE r.m_write >= r.m_read
      <4>1. Held(r) = r.m_write - r.m_read
        BY <1>held, <3>1
      <4>2. r.m_read + (n - 1) <= r.m_write /\ r.m_write < MAX_QUEUE_SIZE
        BY <1>held, <2>6, <4>1, EventRingBufferAssumption DEF Index
      <4>3. SlotOf(r, n) = r.m_read + (n - 1)
        BY <1>held, <2>3, <2>6, <4>2, EventRingBufferAssumption DEF Index
      <4> QED BY <1>held, <2>6, <4>1, <4>3 DEF Index
    <3>2. CASE ~ (r.m_write >= r.m_read)
      BY <1>3, <1>held, <2>3, <2>6, <3>2, EventRingBufferAssumption DEF Index
    <3> QED BY <3>1, <3>2
  <2> QED BY <2>4, <2>5, <2>7
<1>6. /\ Contents(r) \in Seq(Events \cup {NoEvent}) /\ Len(Contents(r)) = Held(r)
      /\ Contents(p) \in Seq(Events \cup {NoEvent}) /\ Len(Contents(p)) = Held(r) + 1
  BY <1>1, <1>4, ContentsLength
<1>7. /\ \A n \in 1 .. Held(r) : Contents(r)[n] = r.m_storage[SlotOf(r, n)]
      /\ \A n \in 1 .. Held(r) + 1 : Contents(p)[n] = p.m_storage[SlotOf(p, n)]
  BY <1>4 DEF Contents, SlotOf
<1>8. r.m_storage \in [Index -> Events \cup {NoEvent}] /\ r.m_write \in Index
  BY DEF Ring
<1>9. \A n \in 1 .. Held(r) : Contents(p)[n] = Contents(r)[n]
  <2>1. TAKE n \in 1 .. Held(r)
  <2>2. n \in 1 .. Held(r) + 1 /\ n # Held(r) + 1
    BY <1>3
  <2>3. SlotOf(p, n) = SlotOf(r, n) /\ SlotOf(r, n) \in Index /\ SlotOf(r, n) # r.m_write
    BY <1>5, <2>2
  <2>4. p.m_storage[SlotOf(r, n)] = r.m_storage[SlotOf(r, n)]
    BY <1>1, <1>8, <2>3
  <2> QED BY <1>7, <2>2, <2>3, <2>4
<1>10. Contents(p)[Held(r) + 1] = e
  <2>1. Held(r) + 1 \in 1 .. Held(r) + 1
    BY <1>3
  <2>2. SlotOf(p, Held(r) + 1) = r.m_write
    BY <1>5, <2>1
  <2> QED BY <1>1, <1>7, <1>8, <2>1, <2>2
<1>11. Contents(p) = Append(Contents(r), e)
  <2>1. /\ Append(Contents(r), e) \in Seq(Events \cup {NoEvent})
        /\ Len(Append(Contents(r), e)) = Held(r) + 1
        /\ \A n \in 1 .. Held(r) : Append(Contents(r), e)[n] = Contents(r)[n]
        /\ Append(Contents(r), e)[Held(r) + 1] = e
    BY <1>3, <1>6
  <2>2. \A n \in 1 .. Held(r) + 1 : Contents(p)[n] = Append(Contents(r), e)[n]
    <3>1. TAKE n \in 1 .. Held(r) + 1
    <3>2. CASE n = Held(r) + 1
      BY <1>10, <2>1, <3>2
    <3>3. CASE n \in 1 .. Held(r)
      BY <1>9, <2>1, <3>3
    <3>4. n = Held(r) + 1 \/ n \in 1 .. Held(r)
      BY <1>3, <3>1
    <3> QED BY <3>2, <3>3, <3>4
  <2> QED BY <1>6, <2>1, <2>2
<1> QED BY <1>11 DEF p

LEMMA PushedContents ==
    ASSUME NEW r \in Ring, NEW e \in Events
    PROVE  Contents(ringPush(r, e)) =
             IF EventSize[e] <= MAX_DATA_LENGTH /\ Len(Contents(r)) < MAX_QUEUE_SIZE - 1
             THEN Append(Contents(r), e) ELSE Contents(r)
<1>1. isFull(r) <=> ~ (Len(Contents(r)) < MAX_QUEUE_SIZE - 1)
  BY HeldAll, ContentsLength, EventRingBufferAssumption
<1>2. EventSize[e] > MAX_DATA_LENGTH <=> ~ (EventSize[e] <= MAX_DATA_LENGTH)
  BY EventRingBufferAssumption
<1>3. CASE EventSize[e] <= MAX_DATA_LENGTH /\ ~ isFull(r)
  BY <1>1, <1>3, PushContents
<1>4. CASE ~ (EventSize[e] <= MAX_DATA_LENGTH /\ ~ isFull(r))
  BY <1>1, <1>2, <1>4 DEF ringPush
<1> QED BY <1>3, <1>4

LEMMA NewContents == Contents(NewRing) = <<>>
<1>1. Held(NewRing) = 0
  BY Mod, ZeroIsIndex DEF Held, NewRing
<1>2. Len(Contents(NewRing)) = 0 /\ Contents(NewRing) \in Seq(Events \cup {NoEvent})
  BY <1>1, NewRingType, ContentsLength
<1> QED BY <1>2

-----------------------------------------------------------------------------
(* Types *)

\* Threads and listeners at work have an id, and a view only while they copy.
IdInv ==
    /\ \A k \in Clients : life[k] = "new" => m_evClientId[k] = NoClient
    /\ \A k \in Clients : evThread[k] \in {"pop", "copy"} => m_evClientId[k] # NoClient
    /\ \A l \in Listeners :
        lsn[l] \in {"adding", "subscribed"} => m_evClientId[ClientOf[l]] # NoClient

ViewInv == \A k \in Clients : view[k] # NoView <=> evThread[k] = "copy"

\* No slot between the indices is one never written.
RingsFilled == \A b \in Bits : Contents(m_clients[b]) \in Seq(Events)

TypeInv == TypeOK /\ IdInv /\ ViewInv /\ RingsFilled

(* The operations of the event space *)

LEMMA PushType ==
    ASSUME EventSpaceTypeOK, RingsFilled, NEW e \in Events, push(e)
    PROVE  EventSpaceTypeOK' /\ RingsFilled'
<1>1. ASSUME NEW b \in Bits
      PROVE  m_clients'[b] \in Ring /\ Contents(m_clients'[b]) \in Seq(Events)
  <2>1. m_clients[b] \in Ring /\ Contents(m_clients[b]) \in Seq(Events)
    BY DEF EventSpaceTypeOK, RingsFilled
  <2>2. m_clients'[b] \in {m_clients[b], ringPush(m_clients[b], e)}
    BY DEF push
  <2>3. ringPush(m_clients[b], e) \in Ring
    BY <2>1, PushRing
  <2>4. Contents(ringPush(m_clients[b], e)) \in
            {Append(Contents(m_clients[b]), e), Contents(m_clients[b])}
    BY <2>1, PushedContents
  <2>5. Contents(ringPush(m_clients[b], e)) \in Seq(Events)
    BY <2>1, <2>4
  <2> QED BY <2>1, <2>2, <2>3, <2>5
<1>2. m_clients' \in [Bits -> Ring]
  BY <1>1 DEF push
<1> QED BY <1>1, <1>2 DEF push, EventSpaceTypeOK, RingsFilled

LEMMA PopType ==
    ASSUME EventSpaceTypeOK, RingsFilled, NEW b \in Bits, pop(b)
    PROVE  /\ EventSpaceTypeOK' /\ RingsFilled'
           /\ front(m_clients[b]) \in Events /\ m_clients[b].m_read \in Index
<1>1. m_clients[b] \in Ring /\ Contents(m_clients[b]) \in Seq(Events)
  BY DEF EventSpaceTypeOK, RingsFilled
<1>2. m_clients' = [m_clients EXCEPT ![b] = ringPop(m_clients[b])]
  BY DEF pop
<1>3. /\ ringPop(m_clients[b]) \in Ring
      /\ Contents(m_clients[b]) # <<>>
      /\ front(m_clients[b]) = Head(Contents(m_clients[b]))
      /\ Contents(ringPop(m_clients[b])) = Tail(Contents(m_clients[b]))
  BY <1>1, PopRing, PopContents DEF pop, HasEvent
<1>4. front(m_clients[b]) \in Events
  BY <1>1, <1>3
<1>5. Contents(ringPop(m_clients[b])) \in Seq(Events)
  BY <1>1, <1>3
<1>6. RingsFilled'
  BY <1>2, <1>5 DEF RingsFilled, EventSpaceTypeOK
<1> QED BY <1>1, <1>2, <1>3, <1>4, <1>6, IndexesOf DEF pop, EventSpaceTypeOK

LEMMA ResetType ==
    ASSUME EventSpaceTypeOK, RingsFilled, NEW b \in Bits,
           m_clients' = [m_clients EXCEPT ![b] = reset(@)]
    PROVE  m_clients' \in [Bits -> Ring] /\ RingsFilled'
<1>1. m_clients' = [m_clients EXCEPT ![b] = reset(m_clients[b])]
  OBVIOUS
<1>2. reset(m_clients[b]) \in Ring /\ Contents(reset(m_clients[b])) = <<>>
  BY ResetRing, ResetContents DEF EventSpaceTypeOK
<1>3. <<>> \in Seq(Events)
  OBVIOUS
<1>4. \A a \in Bits : m_clients'[a] = IF a = b THEN reset(m_clients[b]) ELSE m_clients[a]
  BY <1>1 DEF EventSpaceTypeOK
<1>5. RingsFilled'
  BY <1>2, <1>3, <1>4 DEF RingsFilled
<1>6. m_clients' \in [Bits -> Ring]
  BY <1>1, <1>2 DEF EventSpaceTypeOK
<1> QED BY <1>5, <1>6

LEMMA RegisterType ==
    ASSUME EventSpaceTypeOK, RingsFilled, NEW b \in Bits, registerClient(b) \/ unregisterClient(b)
    PROVE  EventSpaceTypeOK' /\ RingsFilled'
<1>1. m_clients' = [m_clients EXCEPT ![b] = reset(@)]
  BY DEF registerClient, unregisterClient
<1> QED BY <1>1, ResetType DEF registerClient, unregisterClient, EventSpaceTypeOK

-----------------------------------------------------------------------------
(* Type correctness *)

LEMMA InitType == Init => TypeInv
<1> SUFFICES ASSUME Init PROVE TypeInv
  OBVIOUS
<1>1. EventSpaceTypeOK
  BY NewRingType DEF Init, EventSpaceInit, EventSpaceTypeOK
<1>2. RingsFilled
  <2>1. <<>> \in Seq(Events)
    OBVIOUS
  <2> QED BY <2>1, NewContents DEF Init, EventSpaceInit, RingsFilled
<1>3. ClientTypeOK /\ ThreadTypeOK /\ ListenerTypeOK /\ HistoryTypeOK
  BY DEF Init, ClientTypeOK, ThreadTypeOK, ListenerTypeOK, HistoryTypeOK
<1>4. IdInv /\ ViewInv
  BY DEF Init, IdInv, ViewInv
<1> QED BY <1>1, <1>2, <1>3, <1>4 DEF TypeInv, TypeOK

LEMMA ServerType == ASSUME TypeInv, ServerStep PROVE TypeInv'
<1> USE DEF TypeInv, TypeOK, clientVars, threadVars, listenerVars, historyVars
<1>1. CASE ServerStart \/ ServerExit
  <2>1. EventSpaceTypeOK' /\ RingsFilled'
    BY <1>1 DEF ServerStart, ServerExit, setAvailable, EventSpaceTypeOK, RingsFilled
  <2>2. UNCHANGED <<clientVars, threadVars, listenerVars, historyVars>>
    BY <1>1 DEF ServerStart, ServerExit
  <2>3. /\ ClientTypeOK' /\ ThreadTypeOK' /\ ListenerTypeOK' /\ HistoryTypeOK'
        /\ IdInv' /\ ViewInv'
    BY <2>2 DEF ClientTypeOK, ThreadTypeOK, ListenerTypeOK, HistoryTypeOK, IdInv, ViewInv
  <2> QED BY <2>1, <2>3
<1>2. ASSUME NEW e \in Events, Notify(e) PROVE TypeInv'
  <2>1. EventSpaceTypeOK' /\ RingsFilled'
    BY <1>2, PushType DEF Notify
  <2>2. UNCHANGED <<clientVars, threadVars, listenerVars, unregistered, taken, heard, late>>
    BY <1>2 DEF Notify
  <2>3. ClientTypeOK' /\ ThreadTypeOK' /\ ListenerTypeOK' /\ IdInv' /\ ViewInv'
    BY <2>2 DEF ClientTypeOK, ThreadTypeOK, ListenerTypeOK, IdInv, ViewInv
  <2>4. notified' \in Seq(Events) /\ sent' \in [Bits -> Seq(Events)]
    BY <1>2 DEF Notify, HistoryTypeOK
  <2> QED BY <2>1, <2>2, <2>3, <2>4 DEF HistoryTypeOK
<1> QED BY <1>1, <1>2 DEF ServerStep

\* Register leaves the space well-typed and, if it finds a free bit, gives it to k.
LEMMA RegisterStepType ==
    ASSUME TypeInv, NEW k \in Clients, Register(k)
    PROVE  /\ EventSpaceTypeOK' /\ RingsFilled'
           /\ m_evClientId' \in [Clients -> Bits \cup {NoClient}]
           /\ sent' \in [Bits -> Seq(Events)]
           /\ FreeBits # {} => m_evClientId'[k] \in Bits
           /\ \A j \in Clients \ {k} : m_evClientId'[j] = m_evClientId[j]
           /\ FreeBits = {} => m_evClientId'[k] = m_evClientId[k]
<1> USE DEF TypeInv, TypeOK, ClientTypeOK, HistoryTypeOK
<1>1. ASSUME NEW b \in Bits, registerClient(b),
             m_evClientId' = [m_evClientId EXCEPT ![k] = b],
             sent' = [sent EXCEPT ![b] = <<>>]
      PROVE  /\ EventSpaceTypeOK' /\ RingsFilled'
             /\ m_evClientId' \in [Clients -> Bits \cup {NoClient}]
             /\ sent' \in [Bits -> Seq(Events)]
             /\ FreeBits # {} /\ m_evClientId'[k] \in Bits
             /\ \A j \in Clients \ {k} : m_evClientId'[j] = m_evClientId[j]
  <2>1. EventSpaceTypeOK' /\ RingsFilled'
    BY <1>1, RegisterType
  <2>2. FreeBits # {}
    BY <1>1 DEF registerClient, IsNextBit
  <2>3. sent' \in [Bits -> Seq(Events)]
    BY <1>1
  <2> QED BY <1>1, <2>1, <2>2, <2>3
<1>2. ASSUME FreeBits = {}, UNCHANGED <<eventSpaceVars, m_evClientId, sent>>
      PROVE  /\ EventSpaceTypeOK' /\ RingsFilled'
             /\ m_evClientId' = m_evClientId /\ sent' = sent
  BY <1>2 DEF eventSpaceVars, EventSpaceTypeOK, RingsFilled
<1>3. CASE FreeBits # {}
  BY <1>1, <1>2, <1>3 DEF Register
<1>4. CASE FreeBits = {}
  BY <1>1, <1>2, <1>4 DEF Register
<1> QED BY <1>3, <1>4

LEMMA ObjectType == ASSUME TypeInv, NEW k \in Clients, ObjectStep(k) PROVE TypeInv'
<1> USE DEF TypeInv, TypeOK, eventSpaceVars, threadVars, listenerVars, historyVars
<1>1. CASE Construct(k)
  <2>1. /\ life[k] = "new" /\ life' = [life EXCEPT ![k] = "alive"] /\ Register(k)
        /\ UNCHANGED <<active, threadVars, listenerVars, notified, unregistered, taken, heard, late>>
    BY <1>1 DEF Construct
  <2>2. /\ EventSpaceTypeOK' /\ RingsFilled'
        /\ m_evClientId' \in [Clients -> Bits \cup {NoClient}]
        /\ sent' \in [Bits -> Seq(Events)]
        /\ \A j \in Clients \ {k} : m_evClientId'[j] = m_evClientId[j]
        /\ m_evClientId[k] # NoClient => m_evClientId'[k] # NoClient
    BY <2>1, RegisterStepType, EventDeliveryAssumption
  <2>3. ClientTypeOK' /\ ThreadTypeOK' /\ ListenerTypeOK' /\ HistoryTypeOK' /\ ViewInv'
    BY <2>1, <2>2 DEF ClientTypeOK, ThreadTypeOK, ListenerTypeOK, HistoryTypeOK, ViewInv
  <2>4. IdInv'
    BY <2>1, <2>2, EventDeliveryAssumption DEF IdInv, ClientTypeOK
  <2> QED BY <2>2, <2>3, <2>4
<1>2. CASE Connect(k) \/ Disconnect(k) \/ Destroy(k)
  <2>1. EventSpaceTypeOK' /\ RingsFilled' /\ HistoryTypeOK' /\ UNCHANGED m_evClientId
    BY <1>2 DEF Connect, Disconnect, Destroy, EventSpaceTypeOK, RingsFilled, HistoryTypeOK
  <2>2. ClientTypeOK' /\ ThreadTypeOK' /\ ListenerTypeOK'
    BY <1>2 DEF Connect, Disconnect, Destroy, ClientTypeOK, ThreadTypeOK, ListenerTypeOK
  <2>3. IdInv' /\ ViewInv'
    BY <1>2 DEF Connect, Disconnect, Destroy, IdInv, ViewInv, ClientTypeOK, ThreadTypeOK
  <2> QED BY <2>1, <2>2, <2>3
<1> QED BY <1>1, <1>2 DEF ObjectStep

LEMMA ListenerType == ASSUME TypeInv, NEW l \in Listeners, ListenerStep(l) PROVE TypeInv'
<1> USE DEF TypeInv, TypeOK, clientVars, threadVars, historyVars
<1>1. CASE SubscribeRegister(l)
  <2>1. /\ life[ClientOf[l]] = "alive" /\ Register(ClientOf[l]) /\ lsn[l] = "new"
        /\ lsn' = [lsn EXCEPT ![l] = IF FreeBits = {} THEN "failed" ELSE "adding"]
        /\ UNCHANGED <<life, active, threadVars, m_evDataListeners, notified, unregistered,
                       taken, heard, late>>
    BY <1>1 DEF SubscribeRegister
  <2>2. /\ EventSpaceTypeOK' /\ RingsFilled'
        /\ m_evClientId' \in [Clients -> Bits \cup {NoClient}]
        /\ sent' \in [Bits -> Seq(Events)]
        /\ FreeBits # {} => m_evClientId'[ClientOf[l]] # NoClient
        /\ \A j \in Clients \ {ClientOf[l]} : m_evClientId'[j] = m_evClientId[j]
        /\ FreeBits = {} => m_evClientId'[ClientOf[l]] = m_evClientId[ClientOf[l]]
        /\ m_evClientId[ClientOf[l]] = NoClient
    BY <1>1, <2>1, RegisterStepType, EventDeliveryAssumption DEF SubscribeRegister
  <2>3. ClientTypeOK' /\ ThreadTypeOK' /\ HistoryTypeOK' /\ ViewInv'
    BY <2>1, <2>2 DEF ClientTypeOK, ThreadTypeOK, HistoryTypeOK, ViewInv
  <2>4. ListenerTypeOK'
    BY <2>1 DEF ListenerTypeOK
  <2>5. IdInv'
    BY <2>1, <2>2, EventDeliveryAssumption DEF IdInv, ListenerTypeOK
  <2> QED BY <2>2, <2>3, <2>4, <2>5
<1>2. CASE AddListener(l)
  <2>1. EventSpaceTypeOK' /\ RingsFilled' /\ ClientTypeOK' /\ ThreadTypeOK' /\ HistoryTypeOK'
        /\ ViewInv'
    BY <1>2 DEF AddListener, eventSpaceVars, EventSpaceTypeOK, RingsFilled, ClientTypeOK,
                ThreadTypeOK, HistoryTypeOK, ViewInv
  <2>2. ListenerTypeOK'
    BY <1>2 DEF AddListener, ListenerTypeOK
  <2>3. IdInv'
    BY <1>2 DEF AddListener, IdInv, ListenerTypeOK
  <2> QED BY <2>1, <2>2, <2>3
<1>3. CASE DestroyListener(l)
  <2>1. m_evClientId[ClientOf[l]] \in Bits
    BY <1>3, EventDeliveryAssumption DEF DestroyListener, IdInv, ClientTypeOK
  <2>2. EventSpaceTypeOK' /\ RingsFilled'
    BY <1>3, <2>1, RegisterType DEF DestroyListener
  <2>3. ClientTypeOK' /\ ThreadTypeOK' /\ ListenerTypeOK' /\ ViewInv'
    BY <1>3 DEF DestroyListener, ClientTypeOK, ThreadTypeOK, ListenerTypeOK, ViewInv
  <2>4. HistoryTypeOK'
    BY <1>3, <2>1 DEF DestroyListener, HistoryTypeOK
  <2>5. IdInv'
    BY <1>3 DEF DestroyListener, IdInv, ListenerTypeOK
  <2> QED BY <2>2, <2>3, <2>4, <2>5
<1> QED BY <1>1, <1>2, <1>3 DEF ListenerStep

\* Running a task gives its payload to its targets.
LEMMA RunType ==
    ASSUME HistoryTypeOK, NEW t \in Task, Run(t)
    PROVE  heard' \in [Listeners -> Seq(Events \cup {NoEvent})]
<1>1. t.data \in Events \cup {NoEvent}
  BY DEF Task
<1> QED BY <1>1 DEF Run, HistoryTypeOK

LEMMA ThreadType ==
    ASSUME TypeInv, NEW k \in Clients, ThreadStep(k) \/ RunPosted(k) PROVE TypeInv'
<1> USE DEF TypeInv, TypeOK, clientVars, listenerVars, historyVars, eventSpaceVars
<1>1. ASSUME UNCHANGED <<eventSpaceVars, clientVars, listenerVars>>,
             ThreadTypeOK', HistoryTypeOK', IdInv', ViewInv'
      PROVE  TypeInv'
  BY <1>1 DEF EventSpaceTypeOK, RingsFilled, ClientTypeOK, ListenerTypeOK
<1>2. CASE LoopTop(k) \/ Wake(k) \/ Drained(k)
  <2>1. ThreadTypeOK' /\ HistoryTypeOK'
    BY <1>2 DEF LoopTop, Wake, Drained, Goto, AfterDrain, ThreadTypeOK, HistoryTypeOK
  <2>2. IdInv' /\ ViewInv'
    BY <1>2 DEF LoopTop, Wake, Drained, Goto, AfterDrain, ThreadTypeOK, IdInv, ViewInv
  <2>3. UNCHANGED <<eventSpaceVars, clientVars, listenerVars>>
    BY <1>2 DEF LoopTop, Wake, Drained
  <2> QED BY <1>1, <2>1, <2>2, <2>3
<1>3. CASE Pop(k)
  <2>1. m_evClientId[k] \in Bits
    BY <1>3 DEF Pop, IdInv, ClientTypeOK
  <2> DEFINE r == m_clients[m_evClientId[k]]
  <2>2. /\ EventSpaceTypeOK' /\ RingsFilled'
        /\ front(r) \in Events /\ r.m_read \in Index
    BY <1>3, <2>1, PopType DEF Pop
  <2>3. /\ evThread[k] = "pop" /\ evThread' = [evThread EXCEPT ![k] = "copy"]
        /\ view' = [view EXCEPT ![k] = [event |-> front(r), slot |-> r.m_read]]
        /\ taken' = [taken EXCEPT ![k] = Append(@, front(r))]
        /\ UNCHANGED <<clientVars, tasks, posted, listenerVars, notified, unregistered, sent,
                       heard, late>>
    BY <1>3 DEF Pop, Goto
  <2> HIDE DEF r
  <2>4. [event |-> front(r), slot |-> r.m_read] \in View
    BY <2>2 DEF View
  <2>5. ThreadTypeOK'
    BY <2>3, <2>4 DEF ThreadTypeOK
  <2>6. HistoryTypeOK'
    BY <2>2, <2>3 DEF HistoryTypeOK
  <2>7. IdInv' /\ ViewInv'
    BY <2>1, <2>3, <2>4, NoViewAssumption DEF IdInv, ViewInv, ThreadTypeOK
  <2>8. ClientTypeOK' /\ ListenerTypeOK'
    BY <2>3 DEF ClientTypeOK, ListenerTypeOK
  <2> QED BY <2>2, <2>5, <2>6, <2>7, <2>8
<1>4. CASE Copy(k)
  <2>1. /\ m_evClientId[k] \in Bits /\ view[k] \in View
    BY <1>4 DEF Copy, IdInv, ViewInv, ClientTypeOK, ThreadTypeOK
  <2>2. /\ view[k].event \in Events
        /\ m_clients[m_evClientId[k]].m_storage[view[k].slot] \in Events \cup {NoEvent}
    BY <2>1 DEF View, EventSpaceTypeOK, Ring
  <2> DEFINE t == [event |-> view[k].event,
                   data |-> m_clients[m_evClientId[k]].m_storage[view[k].slot],
                   targets |-> Targets(k, view[k].event)]
  <2>3. t \in Task
    BY <2>2 DEF Task, Targets, Of
  <2>4. tasks' \in {tasks, [tasks EXCEPT ![k] = Append(@, t)]}
    BY <1>4 DEF Copy, Queued
  <2> HIDE DEF t
  <2>5. ThreadTypeOK'
    <3>1. tasks \in [Clients -> Seq(Task)] /\ Append(tasks[k], t) \in Seq(Task)
      BY <2>3 DEF ThreadTypeOK
    <3>2. tasks' \in [Clients -> Seq(Task)]
      BY <2>4, <3>1
    <3> QED BY <1>4, <3>2 DEF Copy, Goto, ThreadTypeOK
  <2>6. IdInv' /\ ViewInv' /\ HistoryTypeOK'
    BY <1>4 DEF Copy, Goto, IdInv, ViewInv, ThreadTypeOK, HistoryTypeOK
  <2> QED BY <1>1, <1>4, <2>5, <2>6 DEF Copy
<1>5. CASE RunTask(k)
  <2>1. Head(tasks[k]) \in Task /\ Tail(tasks[k]) \in Seq(Task)
    BY <1>5 DEF RunTask, ThreadTypeOK
  <2>2. heard' \in [Listeners -> Seq(Events \cup {NoEvent})]
    BY <1>5, <2>1, RunType DEF RunTask
  <2>3. ThreadTypeOK' /\ HistoryTypeOK'
    BY <1>5, <2>1, <2>2 DEF RunTask, ThreadTypeOK, HistoryTypeOK
  <2>4. IdInv' /\ ViewInv'
    BY <1>5 DEF RunTask, IdInv, ViewInv
  <2> QED BY <1>1, <1>5, <2>3, <2>4 DEF RunTask
<1>6. CASE EndRun(k)
  <2>1. posted[k] \o tasks[k] \in Seq(Task) /\ <<>> \in Seq(Task)
    BY DEF ThreadTypeOK
  <2>2. ThreadTypeOK' /\ HistoryTypeOK'
    BY <1>6, <2>1 DEF EndRun, Goto, ThreadTypeOK, HistoryTypeOK
  <2>3. IdInv' /\ ViewInv'
    BY <1>6 DEF EndRun, Goto, IdInv, ViewInv, ThreadTypeOK
  <2> QED BY <1>1, <1>6, <2>2, <2>3 DEF EndRun
<1>7. CASE RunPosted(k)
  <2>1. Head(posted[k]) \in Task /\ Tail(posted[k]) \in Seq(Task)
    BY <1>7 DEF RunPosted, ThreadTypeOK
  <2>2. heard' \in [Listeners -> Seq(Events \cup {NoEvent})]
    BY <1>7, <2>1, RunType DEF RunPosted
  <2>3. ThreadTypeOK' /\ HistoryTypeOK'
    BY <1>7, <2>1, <2>2 DEF RunPosted, ThreadTypeOK, HistoryTypeOK
  <2>4. IdInv' /\ ViewInv'
    BY <1>7 DEF RunPosted, IdInv, ViewInv
  <2> QED BY <1>1, <1>7, <2>3, <2>4 DEF RunPosted
<1> QED BY <1>2, <1>3, <1>4, <1>5, <1>6, <1>7 DEF ThreadStep

LEMMA NextType == TypeInv /\ [Next]_vars => TypeInv'
<1> SUFFICES ASSUME TypeInv, [Next]_vars PROVE TypeInv'
  OBVIOUS
<1>1. CASE UNCHANGED vars
  <2>1. EventSpaceTypeOK' /\ RingsFilled'
    BY <1>1 DEF TypeInv, TypeOK, vars, eventSpaceVars, EventSpaceTypeOK, RingsFilled
  <2>2. ClientTypeOK' /\ ThreadTypeOK' /\ ListenerTypeOK' /\ HistoryTypeOK' /\ IdInv' /\ ViewInv'
    BY <1>1 DEF TypeInv, TypeOK, vars, clientVars, threadVars, listenerVars, historyVars,
                ClientTypeOK, ThreadTypeOK, ListenerTypeOK, HistoryTypeOK, IdInv, ViewInv
  <2> QED BY <2>1, <2>2 DEF TypeInv, TypeOK
<1> QED BY <1>1, ServerType, ObjectType, ListenerType, ThreadType DEF Next

\* Type correctness of the event delivery: ids are bits of the space, indices stay
\* in the ring, and no event is popped from a slot that was never written.
THEOREM EventTypeCorrect == Spec => []TypeOK
<1>1. TypeInv => TypeOK
  BY DEF TypeInv
<1> QED BY <1>1, InitType, NextType, PTL DEF Spec

-----------------------------------------------------------------------------
(* Views stay intact and events in order *)

\* An id was given by the space, and is registered unless it was given back.
GivenInv ==
    \A k \in Clients : m_evClientId[k] # NoClient =>
        m_evClientId[k] \in m_registeredClients \cup unregistered

\* Only one client has an id nobody gave back.
SoleInv ==
    \A j, k \in Clients : j # k /\ Undisturbed(k) => m_evClientId[j] # m_evClientId[k]

\* The slot in view is the one just behind the read index, still as it was.
BehindInv ==
    \A k \in Clients : Undisturbed(k) /\ view[k] # NoView =>
        /\ Following(view[k].slot) = RingOf(k).m_read
        /\ RingOf(k).m_storage[view[k].slot] = view[k].event

FreshInv == \A k \in Clients : m_evClientId[k] = NoClient => taken[k] = <<>>

DeliveryInv == GivenInv /\ SoleInv /\ BehindInv /\ FreshInv /\ EventsInOrder

LEMMA TakeOne ==
    ASSUME NEW S, NEW s \in Seq(S), NEW t \in Seq(S), t # <<>>
    PROVE  s \o t = Append(s, Head(t)) \o Tail(t)
OBVIOUS

LEMMA QuietDelivery ==
    ASSUME DeliveryInv,
           UNCHANGED <<m_clients, m_registeredClients, m_evClientId, unregistered, taken, sent>>,
           \A k \in Clients : view'[k] \in {view[k], NoView}
    PROVE  DeliveryInv'
BY DEF DeliveryInv, GivenInv, SoleInv, BehindInv, FreshInv, EventsInOrder, Undisturbed, RingOf

\* A push leaves the slot in view alone: it is the one a full ring does not use.
LEMMA PushLeaves ==
    ASSUME NEW r \in Ring, NEW e \in Events, NEW i \in Index, Following(i) = r.m_read
    PROVE  ringPush(r, e).m_storage[i] = r.m_storage[i]
<1>1. CASE ringPush(r, e) = r
  BY <1>1
<1>2. CASE /\ ~ isFull(r)
           /\ ringPush(r, e).m_storage = [r.m_storage EXCEPT ![r.m_write] = e]
  <2>1. r.m_write # i
    BY <1>2 DEF isFull
  <2>2. r.m_storage \in [Index -> Events \cup {NoEvent}]
    BY DEF Ring
  <2> QED BY <1>2, <2>1, <2>2
<1> QED BY <1>1, <1>2, PushRing

\* A push changes the ring exactly if it adds the event.
LEMMA PushChanges ==
    ASSUME NEW r \in Ring, NEW e \in Events
    PROVE  Contents(ringPush(r, e)) =
             IF ringPush(r, e) # r THEN Append(Contents(r), e) ELSE Contents(r)
<1>1. CASE ringPush(r, e) = r
  BY <1>1
<1>2. CASE ringPush(r, e) # r
  <2>1. EventSize[e] <= MAX_DATA_LENGTH /\ ~ isFull(r)
    BY <1>2, EventRingBufferAssumption DEF ringPush
  <2> QED BY <1>2, <2>1, PushContents
<1> QED BY <1>1, <1>2

LEMMA NotifyDelivery ==
    ASSUME TypeInv, DeliveryInv, NEW e \in Events, Notify(e) PROVE DeliveryInv'
<1> USE DEF TypeInv, TypeOK, clientVars, threadVars
<1>1. /\ UNCHANGED <<m_registeredClients, m_evClientId, unregistered, view, taken>>
      /\ \A b \in Bits : m_clients'[b] \in {m_clients[b], ringPush(m_clients[b], e)}
      /\ \A b \in Bits : sent'[b] = IF m_clients'[b] # m_clients[b]
                                    THEN Append(sent[b], e) ELSE sent[b]
  BY DEF Notify, push
<1>2. \A k \in Clients : Undisturbed(k)' <=> Undisturbed(k)
  BY <1>1 DEF Undisturbed
<1>3. \A b \in Bits : m_clients[b] \in Ring
  BY DEF EventSpaceTypeOK
<1>4. ASSUME NEW k \in Clients, Undisturbed(k)
      PROVE  /\ m_evClientId[k] \in Bits /\ m_evClientId'[k] = m_evClientId[k]
             /\ RingOf(k) \in Ring /\ RingOf(k) = m_clients[m_evClientId[k]]
             /\ RingOf(k)' = m_clients'[m_evClientId[k]]
             /\ RingOf(k)' \in {RingOf(k), ringPush(RingOf(k), e)}
  BY <1>1, <1>3, <1>4 DEF Undisturbed, ClientTypeOK, RingOf
<1>5. ASSUME NEW k \in Clients, Undisturbed(k), view[k] # NoView
      PROVE  /\ Following(view[k].slot) = RingOf(k)'.m_read
             /\ RingOf(k)'.m_storage[view[k].slot] = view[k].event
  <2>1. view[k].slot \in Index /\ Following(view[k].slot) = RingOf(k).m_read
        /\ RingOf(k).m_storage[view[k].slot] = view[k].event
    BY <1>5 DEF DeliveryInv, BehindInv, ThreadTypeOK, View
  <2>2. RingOf(k) \in Ring /\ RingOf(k)' \in {RingOf(k), ringPush(RingOf(k), e)}
    BY <1>4, <1>5
  <2>3. ringPush(RingOf(k), e).m_read = RingOf(k).m_read
    BY <2>2, PushRing
  <2>4. ringPush(RingOf(k), e).m_storage[view[k].slot] = RingOf(k).m_storage[view[k].slot]
    BY <2>1, <2>2, PushLeaves
  <2> QED BY <2>1, <2>2, <2>3, <2>4
<1>6. BehindInv'
  BY <1>1, <1>2, <1>5 DEF BehindInv
<1>7. GivenInv' /\ SoleInv' /\ FreshInv'
  BY <1>1, <1>2 DEF DeliveryInv, GivenInv, SoleInv, FreshInv
<1>8. ASSUME NEW k \in Clients, Undisturbed(k)
      PROVE  sent'[m_evClientId[k]] = taken[k] \o Contents(RingOf(k)')
  <2> DEFINE b == m_evClientId[k]
  <2>1. b \in Bits /\ RingOf(k) = m_clients[b] /\ RingOf(k)' = m_clients'[b]
        /\ m_clients[b] \in Ring /\ Contents(m_clients[b]) \in Seq(Events)
    BY <1>4, <1>8 DEF RingsFilled
  <2>2. sent[b] = taken[k] \o Contents(m_clients[b]) /\ taken[k] \in Seq(Events)
    BY <1>8, <2>1 DEF DeliveryInv, EventsInOrder, HistoryTypeOK
  <2> HIDE DEF b
  <2>3. CASE m_clients'[b] = m_clients[b]
    BY <1>1, <2>1, <2>2, <2>3 DEF b
  <2>4. CASE m_clients'[b] # m_clients[b]
    <3>1. m_clients'[b] = ringPush(m_clients[b], e) /\ sent'[b] = Append(sent[b], e)
      BY <1>1, <2>1, <2>4
    <3>2. Contents(m_clients'[b]) = Append(Contents(m_clients[b]), e)
      BY <2>1, <2>4, <3>1, PushChanges
    <3>3. taken[k] \o Append(Contents(m_clients[b]), e) =
              Append(taken[k] \o Contents(m_clients[b]), e)
      <4>1. PICK s \in Seq(Events) : s = taken[k]
        BY <2>2
      <4>2. PICK t \in Seq(Events) : t = Contents(m_clients[b])
        BY <2>1
      <4>3. s \o Append(t, e) = Append(s \o t, e)
        OBVIOUS
      <4> QED BY <4>1, <4>2, <4>3
    <3> QED BY <2>1, <2>2, <3>1, <3>2, <3>3 DEF b
  <2> QED BY <2>3, <2>4
<1>9. EventsInOrder'
  BY <1>1, <1>2, <1>8 DEF EventsInOrder
<1> QED BY <1>6, <1>7, <1>9 DEF DeliveryInv

LEMMA PopDelivery ==
    ASSUME TypeInv, DeliveryInv, NEW k \in Clients, Pop(k) PROVE DeliveryInv'
<1> USE DEF TypeInv, TypeOK, clientVars
<1> DEFINE b == m_evClientId[k]
<1>1. b \in Bits /\ b # NoClient
  BY DEF Pop, IdInv, ClientTypeOK
<1>2. m_clients[b] \in Ring /\ ~ isEmpty(m_clients[b])
      /\ Contents(m_clients[b]) \in Seq(Events)
  BY <1>1 DEF Pop, pop, HasEvent, EventSpaceTypeOK, RingsFilled
<1>3. /\ m_clients' = [m_clients EXCEPT ![b] = ringPop(@)]
      /\ view' = [view EXCEPT ![k] = [event |-> front(m_clients[b]),
                                      slot |-> m_clients[b].m_read]]
      /\ taken' = [taken EXCEPT ![k] = Append(@, front(m_clients[b]))]
      /\ UNCHANGED <<m_registeredClients, m_evClientId, unregistered, sent>>
  BY DEF Pop, pop
<1> HIDE DEF b
<1>4. m_clients'[b] = ringPop(m_clients[b]) /\ \A a \in Bits \ {b} : m_clients'[a] = m_clients[a]
  BY <1>1, <1>3 DEF EventSpaceTypeOK
<1>5. \A j \in Clients : Undisturbed(j)' <=> Undisturbed(j)
  BY <1>3 DEF Undisturbed
<1>6. ASSUME NEW j \in Clients, j # k, Undisturbed(j)
      PROVE  RingOf(j)' = RingOf(j) /\ view'[j] = view[j] /\ taken'[j] = taken[j]
             /\ m_evClientId'[j] = m_evClientId[j]
  <2>1. m_evClientId[j] \in Bits \ {b}
    BY <1>6 DEF Undisturbed, ClientTypeOK, DeliveryInv, SoleInv, b
  <2> QED BY <1>3, <1>4, <1>6, <2>1 DEF RingOf, ThreadTypeOK, HistoryTypeOK
<1>7. /\ RingOf(k) = m_clients[b] /\ RingOf(k)' = ringPop(m_clients[b])
      /\ view'[k] = [event |-> front(m_clients[b]), slot |-> m_clients[b].m_read]
      /\ taken'[k] = Append(taken[k], front(m_clients[b]))
  BY <1>3, <1>4 DEF RingOf, ThreadTypeOK, HistoryTypeOK, b
<1>8. /\ ringPop(m_clients[b]).m_storage = m_clients[b].m_storage
      /\ ringPop(m_clients[b]).m_read = Following(m_clients[b].m_read)
  BY <1>2, PopRing
<1>9. BehindInv'
  <2>1. ASSUME NEW j \in Clients, Undisturbed(j), view'[j] # NoView
        PROVE  /\ Following(view'[j].slot) = RingOf(j)'.m_read
               /\ RingOf(j)'.m_storage[view'[j].slot] = view'[j].event
    <3>1. CASE j = k
      BY <1>7, <1>8, <3>1 DEF front
    <3>2. CASE j # k
      BY <1>6, <2>1, <3>2 DEF DeliveryInv, BehindInv
    <3> QED BY <3>1, <3>2
  <2> QED BY <1>5, <2>1 DEF BehindInv
<1>10. EventsInOrder'
  <2>1. ASSUME NEW j \in Clients, Undisturbed(j)
        PROVE  sent'[m_evClientId'[j]] = taken'[j] \o Contents(RingOf(j)')
    <3>1. CASE j = k
      <4>1. sent[b] = taken[k] \o Contents(m_clients[b]) /\ taken[k] \in Seq(Events)
        BY <1>7, <2>1, <3>1 DEF DeliveryInv, EventsInOrder, HistoryTypeOK, b
      <4>2. /\ Contents(m_clients[b]) # <<>>
            /\ front(m_clients[b]) = Head(Contents(m_clients[b]))
            /\ Contents(ringPop(m_clients[b])) = Tail(Contents(m_clients[b]))
        BY <1>2, PopContents
      <4>3. taken[k] \o Contents(m_clients[b]) =
              Append(taken[k], Head(Contents(m_clients[b]))) \o Tail(Contents(m_clients[b]))
        BY <1>2, <4>1, <4>2, TakeOne
      <4>4. sent[b] = taken'[k] \o Contents(RingOf(k)')
        BY <1>7, <4>1, <4>2, <4>3
      <4> QED BY <1>3, <3>1, <4>4 DEF b
    <3>2. CASE j # k
      BY <1>3, <1>6, <2>1, <3>2 DEF DeliveryInv, EventsInOrder
    <3> QED BY <3>1, <3>2
  <2> QED BY <1>5, <2>1 DEF EventsInOrder
<1>11. GivenInv' /\ SoleInv'
  BY <1>3, <1>5 DEF DeliveryInv, GivenInv, SoleInv
<1>12. FreshInv'
  BY <1>1, <1>3 DEF DeliveryInv, FreshInv, HistoryTypeOK, b
<1> QED BY <1>9, <1>10, <1>11, <1>12 DEF DeliveryInv

LEMMA RegisterDelivery ==
    ASSUME TypeInv, DeliveryInv, NEW k \in Clients, m_evClientId[k] = NoClient, Register(k),
           UNCHANGED <<unregistered, view, taken>>
    PROVE  DeliveryInv'
<1> USE DEF TypeInv, TypeOK
<1>1. CASE UNCHANGED <<eventSpaceVars, m_evClientId, sent>>
  BY <1>1, QuietDelivery DEF eventSpaceVars
<1>2. ASSUME NEW b \in Bits, registerClient(b),
             m_evClientId' = [m_evClientId EXCEPT ![k] = b],
             sent' = [sent EXCEPT ![b] = <<>>]
      PROVE  DeliveryInv'
  <2>1. /\ b \notin m_registeredClients
        /\ m_registeredClients' = m_registeredClients \cup {b}
        /\ m_clients'[b] = reset(m_clients[b]) /\ m_clients[b] \in Ring
        /\ \A a \in Bits \ {b} : m_clients'[a] = m_clients[a] /\ sent'[a] = sent[a]
        /\ sent'[b] = <<>>
    BY <1>2 DEF registerClient, IsNextBit, FreeBits, EventSpaceTypeOK, HistoryTypeOK
  <2>2. m_evClientId'[k] = b /\ \A j \in Clients \ {k} : m_evClientId'[j] = m_evClientId[j]
    BY <1>2 DEF ClientTypeOK
  <2>3. b # NoClient /\ view[k] = NoView /\ taken[k] = <<>>
    BY EventDeliveryAssumption DEF ViewInv, IdInv, DeliveryInv, FreshInv
  <2>4. \A j \in Clients : m_evClientId[j] = b => b \in unregistered
    BY <2>1, <2>3 DEF DeliveryInv, GivenInv
  <2>5. ASSUME NEW j \in Clients \ {k}, Undisturbed(j)'
        PROVE  /\ Undisturbed(j) /\ RingOf(j)' = RingOf(j)
               /\ sent'[m_evClientId'[j]] = sent[m_evClientId[j]]
    <3>1. Undisturbed(j) /\ m_evClientId'[j] = m_evClientId[j]
      BY <2>2, <2>5 DEF Undisturbed
    <3>2. m_evClientId[j] \in Bits \ {b}
      BY <2>4, <3>1 DEF Undisturbed, ClientTypeOK
    <3> QED BY <2>1, <3>1, <3>2 DEF RingOf
  <2>6. BehindInv'
    BY <2>3, <2>5 DEF DeliveryInv, BehindInv
  <2>7. EventsInOrder'
    <3>1. CASE Undisturbed(k)'
      <4>1. Contents(RingOf(k)') = <<>>
        BY <2>1, <2>2, ResetContents DEF RingOf
      <4>2. <<>> = <<>> \o <<>>
        OBVIOUS
      <4>3. sent'[m_evClientId'[k]] = taken'[k] \o Contents(RingOf(k)')
        BY <2>1, <2>2, <2>3, <4>1, <4>2
      <4> QED BY <2>5, <4>3 DEF DeliveryInv, EventsInOrder
    <3>2. CASE ~ Undisturbed(k)'
      BY <2>5, <3>2 DEF DeliveryInv, EventsInOrder
    <3> QED BY <3>1, <3>2
  <2>8. GivenInv'
    BY <2>1, <2>2 DEF DeliveryInv, GivenInv
  <2>9. FreshInv'
    BY <2>2, <2>3 DEF DeliveryInv, FreshInv
  <2>10. SoleInv'
    <3>1. ASSUME NEW i \in Clients, NEW j \in Clients, i # j, Undisturbed(j)'
          PROVE  m_evClientId'[i] # m_evClientId'[j]
      <4>1. CASE j = k
        BY <2>2, <2>4, <3>1, <4>1 DEF Undisturbed
      <4>2. CASE i = k
        <5>1. Undisturbed(j) /\ m_evClientId'[j] = m_evClientId[j] /\ m_evClientId'[i] = b
          BY <2>2, <2>5, <3>1, <4>2
        <5> QED BY <2>4, <5>1 DEF Undisturbed
      <4>3. CASE j # k /\ i # k
        BY <2>2, <2>5, <3>1, <4>3 DEF DeliveryInv, SoleInv
      <4> QED BY <4>1, <4>2, <4>3
    <3> QED BY <3>1 DEF SoleInv
  <2> QED BY <2>6, <2>7, <2>8, <2>9, <2>10 DEF DeliveryInv
<1> QED BY <1>1, <1>2 DEF Register

LEMMA DestroyListenerDelivery ==
    ASSUME TypeInv, DeliveryInv, NEW l \in Listeners, DestroyListener(l) PROVE DeliveryInv'
<1> USE DEF TypeInv, TypeOK, clientVars, threadVars
<1> DEFINE b == m_evClientId[ClientOf[l]]
<1>1. /\ b \in Bits
      /\ UNCHANGED <<m_evClientId, view, taken, sent>>
      /\ unregistered' = unregistered \cup {b}
      /\ m_registeredClients' = m_registeredClients \ {b}
      /\ m_clients' = [m_clients EXCEPT ![b] = reset(@)]
  BY EventDeliveryAssumption DEF DestroyListener, unregisterClient, IdInv, ClientTypeOK
<1> HIDE DEF b
<1>2. ASSUME NEW k \in Clients, Undisturbed(k)'
      PROVE  Undisturbed(k) /\ RingOf(k)' = RingOf(k)
  <2>1. Undisturbed(k) /\ m_evClientId[k] \in Bits \ {b} /\ m_evClientId'[k] = m_evClientId[k]
    BY <1>1, <1>2 DEF Undisturbed, ClientTypeOK
  <2> QED BY <1>1, <2>1 DEF RingOf, EventSpaceTypeOK
<1>3. BehindInv'
  BY <1>1, <1>2 DEF DeliveryInv, BehindInv
<1>4. EventsInOrder'
  BY <1>1, <1>2 DEF DeliveryInv, EventsInOrder
<1>5. GivenInv' /\ FreshInv'
  BY <1>1 DEF DeliveryInv, GivenInv, FreshInv
<1>6. SoleInv'
  BY <1>1, <1>2 DEF DeliveryInv, SoleInv
<1> QED BY <1>3, <1>4, <1>5, <1>6 DEF DeliveryInv

LEMMA NextDelivery ==
    ASSUME TypeInv, DeliveryInv, [Next]_vars PROVE DeliveryInv'
<1> USE DEF eventSpaceVars, clientVars, threadVars, listenerVars, historyVars
<1>1. CASE UNCHANGED vars
  BY <1>1, QuietDelivery DEF vars
<1>2. CASE ServerStep
  <2>1. CASE ServerStart \/ ServerExit
    BY <2>1, QuietDelivery DEF ServerStart, ServerExit, setAvailable
  <2> QED BY <1>2, <2>1, NotifyDelivery DEF ServerStep
<1>3. ASSUME NEW k \in Clients, ObjectStep(k) PROVE DeliveryInv'
  <2>1. CASE Construct(k)
    BY <2>1, RegisterDelivery DEF Construct, TypeInv, IdInv
  <2>2. CASE Connect(k) \/ Disconnect(k) \/ Destroy(k)
    BY <2>2, QuietDelivery DEF Connect, Disconnect, Destroy
  <2> QED BY <1>3, <2>1, <2>2 DEF ObjectStep
<1>4. ASSUME NEW k \in Clients, ThreadStep(k) \/ RunPosted(k) PROVE DeliveryInv'
  <2>1. CASE LoopTop(k) \/ Wake(k) \/ Drained(k) \/ RunTask(k) \/ EndRun(k) \/ RunPosted(k)
    BY <2>1, QuietDelivery DEF LoopTop, Wake, Drained, RunTask, EndRun, RunPosted
  <2>2. CASE Copy(k)
    <3>1. \A j \in Clients : view'[j] \in {view[j], NoView}
      BY <2>2 DEF Copy, TypeInv, TypeOK, ThreadTypeOK
    <3> QED BY <2>2, <3>1, QuietDelivery DEF Copy
  <2> QED BY <1>4, <2>1, <2>2, PopDelivery DEF ThreadStep
<1>5. ASSUME NEW l \in Listeners, ListenerStep(l) PROVE DeliveryInv'
  <2>1. CASE SubscribeRegister(l)
    BY <2>1, RegisterDelivery, EventDeliveryAssumption DEF SubscribeRegister
  <2>2. CASE AddListener(l)
    BY <2>2, QuietDelivery DEF AddListener
  <2> QED BY <1>5, <2>1, <2>2, DestroyListenerDelivery DEF ListenerStep
<1> QED BY <1>1, <1>2, <1>3, <1>4, <1>5 DEF Next

LEMMA InitDelivery == Init => DeliveryInv
BY DEF Init, DeliveryInv, GivenInv, SoleInv, BehindInv, FreshInv, EventsInOrder, Undisturbed

LEMMA DeliveryInvariant == Spec => [](TypeInv /\ DeliveryInv)
<1>1. TypeInv /\ DeliveryInv /\ [Next]_vars => (TypeInv /\ DeliveryInv)'
  BY NextType, NextDelivery
<1> QED BY <1>1, InitType, InitDelivery, PTL DEF Spec

\* The event thread may copy the payload after it has released the mutex: the slot
\* it points at is not written before, for rings of any size and any number of
\* clients, as long as nobody gave the client's id back.
THEOREM ViewsIntact == Spec => []ViewIntact
<1>1. DeliveryInv => ViewIntact
  BY DEF DeliveryInv, BehindInv, ViewIntact
<1> QED BY <1>1, DeliveryInvariant, PTL

\* What a ring took is what its client has popped, followed by what the ring holds.
THEOREM InOrder == Spec => []EventsInOrder
<1>1. DeliveryInv => EventsInOrder
  BY DEF DeliveryInv
<1> QED BY <1>1, DeliveryInvariant, PTL

-----------------------------------------------------------------------------
(* The rings implement bounded queues *)

queueOf == [b \in Bits |-> Contents(m_clients[b])]

LEMMA SameQueues ==
    ASSUME UNCHANGED <<m_clients, m_registeredClients>> PROVE UNCHANGED Queues!queueVars
BY DEF Queues!queueVars

\* Resetting the ring of b empties its queue.
LEMMA ResetQueue ==
    ASSUME EventSpaceTypeOK, NEW b \in Bits, m_clients' = [m_clients EXCEPT ![b] = reset(@)]
    PROVE  queueOf' = [queueOf EXCEPT ![b] = <<>>]
<1>1. m_clients'[b] = reset(m_clients[b]) /\ \A a \in Bits \ {b} : m_clients'[a] = m_clients[a]
  BY DEF EventSpaceTypeOK
<1>2. Contents(m_clients'[b]) = <<>>
  BY <1>1, ResetContents DEF EventSpaceTypeOK
<1>3. \A a \in Bits : Contents(m_clients'[a]) = IF a = b THEN <<>> ELSE Contents(m_clients[a])
  BY <1>1, <1>2
<1> QED BY <1>3 DEF queueOf

LEMMA NotifyQueues ==
    ASSUME TypeInv, NEW e \in Events, Notify(e) PROVE [Queues!Next]_Queues!queueVars
<1>1. /\ UNCHANGED m_registeredClients
      /\ \A b \in Bits : m_clients'[b] = IF b \in m_registeredClients
                                         THEN ringPush(m_clients[b], e) ELSE m_clients[b]
  BY DEF Notify, push
<1>2. \A b \in Bits : m_clients[b] \in Ring
  BY DEF TypeInv, TypeOK, EventSpaceTypeOK
<1>3. CASE EventSize[e] <= MAX_DATA_LENGTH
  <2>1. \A b \in Bits : Contents(m_clients'[b]) =
            IF b \in m_registeredClients /\ Len(Contents(m_clients[b])) < MAX_QUEUE_SIZE - 1
            THEN Append(Contents(m_clients[b]), e) ELSE Contents(m_clients[b])
    <3>1. TAKE b \in Bits
    <3>2. Contents(ringPush(m_clients[b], e)) =
            IF Len(Contents(m_clients[b])) < MAX_QUEUE_SIZE - 1
            THEN Append(Contents(m_clients[b]), e) ELSE Contents(m_clients[b])
      BY <1>2, <1>3, PushedContents
    <3>3. CASE b \in m_registeredClients
      BY <1>1, <3>2, <3>3
    <3>4. CASE b \notin m_registeredClients
      BY <1>1, <3>4
    <3> QED BY <3>3, <3>4
  <2>2. queueOf' = [b \in Bits |->
            IF b \in m_registeredClients /\ Len(queueOf[b]) < MAX_QUEUE_SIZE - 1
            THEN Append(queueOf[b], e) ELSE queueOf[b]]
    BY <2>1 DEF queueOf
  <2>3. Queues!Broadcast(e)
    BY <1>1, <2>2 DEF Queues!Broadcast, queueOf
  <2> QED BY <2>3 DEF Queues!Next
<1>4. CASE ~ (EventSize[e] <= MAX_DATA_LENGTH)
  <2>0. EventSize[e] > MAX_DATA_LENGTH
    BY <1>4, EventRingBufferAssumption
  <2>1. \A b \in Bits : m_clients'[b] = m_clients[b]
    BY <1>1, <2>0 DEF ringPush
  <2>2. queueOf' = queueOf
    BY <2>1 DEF queueOf
  <2> QED BY <1>1, <2>2 DEF Queues!queueVars, queueOf
<1> QED BY <1>3, <1>4

LEMMA PopQueues ==
    ASSUME TypeInv, NEW b \in Bits, pop(b) PROVE Queues!Next
<1>1. m_clients[b] \in Ring /\ ~ isEmpty(m_clients[b]) /\ b \in m_registeredClients
  BY DEF TypeInv, TypeOK, EventSpaceTypeOK, pop, HasEvent
<1>2. /\ m_clients'[b] = ringPop(m_clients[b])
      /\ \A a \in Bits \ {b} : m_clients'[a] = m_clients[a]
      /\ UNCHANGED m_registeredClients
  BY DEF TypeInv, TypeOK, EventSpaceTypeOK, pop
<1>3. /\ Contents(m_clients[b]) # <<>>
      /\ Contents(m_clients'[b]) = Tail(Contents(m_clients[b]))
  BY <1>1, <1>2, PopContents
<1>4. queueOf' = [queueOf EXCEPT ![b] = Tail(queueOf[b])] /\ queueOf[b] # <<>>
  BY <1>2, <1>3 DEF queueOf
<1>5. Queues!Take(b)
  BY <1>1, <1>2, <1>4 DEF Queues!Take, queueOf
<1> QED BY <1>5 DEF Queues!Next

LEMMA RegisterQueues ==
    ASSUME TypeInv, NEW k \in Clients, Register(k) PROVE [Queues!Next]_Queues!queueVars
<1>1. CASE UNCHANGED <<eventSpaceVars, m_evClientId, sent>>
  BY <1>1, SameQueues DEF eventSpaceVars
<1>2. ASSUME NEW b \in Bits, registerClient(b) PROVE Queues!Next
  <2>1. queueOf' = [queueOf EXCEPT ![b] = <<>>]
    BY <1>2, ResetQueue DEF registerClient, TypeInv, TypeOK
  <2>2. Queues!Register(b)
    BY <1>2, <2>1 DEF registerClient, IsNextBit, FreeBits, Queues!Register, queueOf
  <2> QED BY <2>2 DEF Queues!Next
<1> QED BY <1>1, <1>2 DEF Register

LEMMA UnregisterQueues ==
    ASSUME TypeInv, NEW b \in Bits, unregisterClient(b) PROVE Queues!Next
<1>1. queueOf' = [queueOf EXCEPT ![b] = <<>>]
  BY ResetQueue DEF unregisterClient, TypeInv, TypeOK
<1>2. Queues!Unregister(b)
  BY <1>1 DEF unregisterClient, Queues!Unregister, queueOf
<1> QED BY <1>2 DEF Queues!Next

LEMMA NextQueues ==
    ASSUME TypeInv, [Next]_vars PROVE [Queues!Next]_Queues!queueVars
<1> USE DEF eventSpaceVars, clientVars
<1>1. CASE UNCHANGED vars
  BY <1>1, SameQueues DEF vars
<1>2. CASE ServerStep
  <2>1. CASE ServerStart \/ ServerExit
    BY <2>1, SameQueues DEF ServerStart, ServerExit, setAvailable
  <2> QED BY <1>2, <2>1, NotifyQueues DEF ServerStep
<1>3. ASSUME NEW k \in Clients, ObjectStep(k) PROVE [Queues!Next]_Queues!queueVars
  <2>1. CASE Construct(k)
    BY <2>1, RegisterQueues DEF Construct
  <2>2. CASE Connect(k) \/ Disconnect(k) \/ Destroy(k)
    BY <2>2, SameQueues DEF Connect, Disconnect, Destroy
  <2> QED BY <1>3, <2>1, <2>2 DEF ObjectStep
<1>4. ASSUME NEW k \in Clients, ThreadStep(k) \/ RunPosted(k)
      PROVE  [Queues!Next]_Queues!queueVars
  <2>1. CASE \/ LoopTop(k) \/ Wake(k) \/ Copy(k) \/ Drained(k)
             \/ RunTask(k) \/ EndRun(k) \/ RunPosted(k)
    BY <2>1, SameQueues DEF LoopTop, Wake, Copy, Drained, RunTask, EndRun, RunPosted
  <2>2. CASE Pop(k)
    <3>1. m_evClientId[k] \in Bits /\ pop(m_evClientId[k])
      BY <2>2 DEF Pop, TypeInv, TypeOK, IdInv, ClientTypeOK
    <3> QED BY <3>1, PopQueues
  <2> QED BY <1>4, <2>1, <2>2 DEF ThreadStep
<1>5. ASSUME NEW l \in Listeners, ListenerStep(l) PROVE [Queues!Next]_Queues!queueVars
  <2>1. CASE SubscribeRegister(l)
    BY <2>1, RegisterQueues, EventDeliveryAssumption DEF SubscribeRegister
  <2>2. CASE AddListener(l)
    BY <2>2, SameQueues DEF AddListener
  <2>3. CASE DestroyListener(l)
    <3>1. m_evClientId[ClientOf[l]] \in Bits /\ unregisterClient(m_evClientId[ClientOf[l]])
      BY <2>3, EventDeliveryAssumption DEF DestroyListener, TypeInv, TypeOK, IdInv, ClientTypeOK
    <3> QED BY <3>1, UnregisterQueues
  <2> QED BY <1>5, <2>1, <2>2, <2>3 DEF ListenerStep
<1> QED BY <1>1, <1>2, <1>3, <1>4, <1>5 DEF Next

\* Whatever servers, threads and listeners do, the rings of the event space behave
\* as one bounded queue per registered client, for rings of any size.
THEOREM RingsImplementQueues == Spec => RingsAreQueues
<1>1. Init => Queues!Init
  <2>1. SUFFICES ASSUME Init PROVE Queues!Init
    OBVIOUS
  <2>2. queueOf = [b \in Bits |-> <<>>]
    BY <2>1, NewContents DEF Init, EventSpaceInit, queueOf
  <2> QED BY <2>1, <2>2 DEF Init, EventSpaceInit, Queues!Init, queueOf
<1>2. TypeInv /\ [Next]_vars => [Queues!Next]_Queues!queueVars
  BY NextQueues
<1>3. Spec => []TypeInv
  BY InitType, NextType, PTL DEF Spec
<1> QED BY <1>1, <1>2, <1>3, PTL DEF Spec, RingsAreQueues, Queues!Spec
=============================================================================
