------------------------------ MODULE EventSpace ------------------------------
(***************************************************************************)
(* The shared memory that carries events from the server to the clients: a *)
(* ring per registered client.  A client is known by its bit; nothing      *)
(* checks that the caller of pop or unregisterClient is the client the bit *)
(* was given to.  The space's named mutex is held around each operation.   *)
(***************************************************************************)
EXTENDS EventRingBuffer

CONSTANT MAX_CLIENTS_SIZE     \* 16 in the code

ASSUME EventSpaceAssumption == MAX_CLIENTS_SIZE \in Nat

VARIABLES
    m_clients,
    m_registeredClients,
    m_isAvailable

eventSpaceVars == <<m_clients, m_registeredClients, m_isAvailable>>

Bits == 0 .. MAX_CLIENTS_SIZE - 1

EventSpaceTypeOK ==
    /\ m_clients \in [Bits -> Ring]
    /\ m_registeredClients \subseteq Bits
    /\ m_isAvailable \in BOOLEAN

EventSpaceInit ==
    /\ m_clients = [b \in Bits |-> NewRing]
    /\ m_registeredClients = {}
    /\ m_isAvailable = FALSE

setAvailable(value) ==
    /\ m_isAvailable' = value
    /\ UNCHANGED <<m_clients, m_registeredClients>>

\* Mutant: a registered bit is given out again.
AllBits == Bits

FreeBits == Bits \ m_registeredClients

IsNextBit(b) == b \in FreeBits /\ \A other \in FreeBits : b <= other

\* The lowest free bit, with an empty ring.
registerClient(b) ==
    /\ IsNextBit(b)
    /\ m_registeredClients' = m_registeredClients \cup {b}
    /\ m_clients' = [m_clients EXCEPT ![b] = reset(@)]
    /\ UNCHANGED m_isAvailable

unregisterClient(b) ==
    /\ m_registeredClients' = m_registeredClients \ {b}
    /\ m_clients' = [m_clients EXCEPT ![b] = reset(@)]
    /\ UNCHANGED m_isAvailable

\* The event goes to every registered client whose ring has room.
push(e) ==
    /\ m_clients' = [b \in Bits |-> IF m_isAvailable /\ b \in m_registeredClients
                                    THEN ringPush(m_clients[b], e)
                                    ELSE m_clients[b]]
    /\ UNCHANGED <<m_registeredClients, m_isAvailable>>

HasEvent(b) == b \in m_registeredClients /\ ~ isEmpty(m_clients[b])

pop(b) ==
    /\ HasEvent(b)
    /\ m_clients' = [m_clients EXCEPT ![b] = ringPop(@)]
    /\ UNCHANGED <<m_registeredClients, m_isAvailable>>

=============================================================================
