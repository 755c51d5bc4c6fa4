------------------------------ MODULE CallSpace ------------------------------
(***************************************************************************)
(* The shared memory that carries calls from every client to the server:   *)
(* one byte buffer that clients append frames to and that the server takes *)
(* whole.  A frame is represented by the call it belongs to; its size is a *)
(* constant of the call.  The buffer's bytes are the sequence m_data, and  *)
(* m_currentWriteIndex counts them.  All users of the space hold its named *)
(* mutex around each operation, so an operation is one step.               *)
(***************************************************************************)
EXTENDS Integers, Sequences

CONSTANTS
    Calls,               \* the calls that may be made
    FrameSize,           \* the bytes each call's frame takes, [Calls -> Nat]
    MAX_DATA_LENGTH,     \* the largest frame
    MAX_QUEUE_SIZE,      \* frames of that size the buffer has room for
    MAX_CLIENT_ID        \* 65535 in the code: what a uint16_t holds

ASSUME CallSpaceAssumption ==
    /\ FrameSize \in [Calls -> Nat]
    /\ MAX_DATA_LENGTH \in Nat
    /\ MAX_QUEUE_SIZE \in Nat
    /\ MAX_CLIENT_ID \in Nat

VARIABLES
    m_data,
    m_currentWriteIndex,
    m_lastClientId

callSpaceVars == <<m_data, m_currentWriteIndex, m_lastClientId>>

DATA_LENGTH == MAX_DATA_LENGTH * MAX_QUEUE_SIZE

CallSpaceTypeOK ==
    /\ m_data \in Seq(Calls)
    /\ m_currentWriteIndex \in Nat
    /\ m_lastClientId \in 0 .. MAX_CLIENT_ID

CallSpaceInit ==
    /\ m_data = <<>>
    /\ m_currentWriteIndex = 0
    /\ m_lastClientId = 0

\* The three refusals of push.
Fits(sz) ==
    /\ sz # 0
    /\ sz <= MAX_DATA_LENGTH
    /\ m_currentWriteIndex + sz <= DATA_LENGTH

\* push copies the frame behind the ones already there, or changes nothing.
push(c) ==
    /\ IF Fits(FrameSize[c])
       THEN /\ m_data' = Append(m_data, c)
            /\ m_currentWriteIndex' = m_currentWriteIndex + FrameSize[c]
       ELSE UNCHANGED <<m_data, m_currentWriteIndex>>
    /\ UNCHANGED m_lastClientId

\* Mutant: the server reads only a full buffer.
isDataFull == m_currentWriteIndex = DATA_LENGTH

isDataAvailable == m_currentWriteIndex > 0

\* Mutant: only the first frame is taken before the buffer is cleared.
popFirst == SubSeq(m_data, 1, 1)

\* Mutant: the write index is not reset.
clearNothing == UNCHANGED callSpaceVars

\* pop hands out the whole buffer and leaves it; clear makes it empty.
pop == m_data

clear ==
    /\ m_data' = <<>>
    /\ m_currentWriteIndex' = 0
    /\ UNCHANGED m_lastClientId

\* Mutant: no check that an id is left.
generateClientIdUnchecked ==
    /\ m_lastClientId' = m_lastClientId + 1
    /\ UNCHANGED <<m_data, m_currentWriteIndex>>

\* The next client id, unless all of them have been given out.
generateClientId ==
    /\ m_lastClientId # MAX_CLIENT_ID
    /\ m_lastClientId' = m_lastClientId + 1
    /\ UNCHANGED <<m_data, m_currentWriteIndex>>

=============================================================================
