---------------------------- MODULE CallbackSpace ----------------------------
(***************************************************************************)
(* The shared memory that carries answers back: an array of slots.  A      *)
(* client takes a free slot before it calls, the server writes the answer  *)
(* into it, and the client takes the answer out, which frees the slot.     *)
(* A slot holds a status and the bytes of the last answer written, here    *)
(* the call that answer is for.  Nothing in a slot says which call took    *)
(* it.  The space's named mutex is held around each operation.             *)
(***************************************************************************)
EXTENDS Integers

CONSTANTS
    Answers,        \* the answers a slot can hold
    QUEUE_SIZE,     \* the number of slots, 1024 in the code
    NoAnswer        \* the content of a slot filled with zeros

ASSUME CallbackSpaceAssumption ==
    /\ QUEUE_SIZE \in Nat \ {0}
    /\ NoAnswer \notin Answers

VARIABLE m_cbData

Slots == 0 .. QUEUE_SIZE - 1

DataState == {"NoData", "Pending", "Ready"}

EmptySlot == [status |-> "NoData", answer |-> NoAnswer]

CallbackSpaceTypeOK ==
    m_cbData \in [Slots -> [status : DataState, answer : Answers \cup {NoAnswer}]]

CallbackSpaceInit == m_cbData = [i \in Slots |-> EmptySlot]

\* Mutant: a slot whose answer was not taken yet counts as free.
NotPendingSlots == {i \in Slots : m_cbData[i].status # "Pending"}

FreeSlots == {i \in Slots : m_cbData[i].status = "NoData"}

\* pushCallback gives out the lowest free slot.
IsNextSlot(i) == i \in FreeSlots /\ \A j \in FreeSlots : i <= j

pushCallback(i) ==
    /\ IsNextSlot(i)
    /\ m_cbData' = [m_cbData EXCEPT ![i].status = "Pending"]

\* Mutant: an answer is written whatever the slot's status.
AcceptsAlways(i) == i \in Slots

\* Only a slot that waits for an answer takes one; otherwise it is dropped.
AcceptsAnswer(i) == m_cbData[i].status = "Pending"

updateCallback(i, answer) ==
    m_cbData' = IF AcceptsAnswer(i)
                THEN [m_cbData EXCEPT ![i] = [status |-> "Ready", answer |-> answer]]
                ELSE m_cbData

isCallbackAvailable(i) == m_cbData[i].status = "Ready"

\* Taking the answer frees the slot and leaves the bytes where they are.
popCallback(i) ==
    /\ isCallbackAvailable(i)
    /\ m_cbData' = [m_cbData EXCEPT ![i].status = "NoData"]

\* Mutant: a call that is given up keeps its slot.
ClearNothing(i) == i \in Slots /\ UNCHANGED m_cbData

clearCallback(i) == m_cbData' = [m_cbData EXCEPT ![i] = EmptySlot]

=============================================================================
