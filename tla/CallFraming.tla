------------------------------ MODULE CallFraming ------------------------------
(***************************************************************************)
(* Calls and answers as bytes.  A client checks the size of a call's       *)
(* arguments, writes a frame - head, size of the arguments, arguments -    *)
(* and pushes it behind the frames in the call space.  The server copies   *)
(* the bytes out and cuts them into frames again, one after the other, by  *)
(* the sizes it reads; each method reads its arguments from the bytes it   *)
(* is given and answers with bytes of its own, in a slot.                  *)
(*                                                                         *)
(* RequestReply has the same calls as whole frames, with everything that   *)
(* can interleave; here are the bytes, with one client and one server.     *)
(***************************************************************************)
EXTENDS ArgSizes, Filtering, SequencesExt

CONSTANTS
    Calls,
    ArgsOf,          \* the arguments of each call
    ReplyOf,         \* [code, message, args] of each call
    Supported,       \* calls whose method is in m_fnServiceMap
    MAX_CALL_SZ,     \* 512: the largest frame, and the buffer it is written in
    MAX_QUEUE_SIZE   \* frames of that size the call space has room for

HEAD_SZ == 14        \* call id, method id, client id, slot
LEN_SZ == 2          \* m_args_sz
NoError == 0         \* IPCError::None

\* Mutant: the head is subtracted twice.
validateCallTwice(c) == sizeOfArgs(ArgsOf[c]) <= MAX_CALL_SZ - 2 * HEAD_SZ

\* validateCall: the length field is forgotten.
validateCall(c) == sizeOfArgs(ArgsOf[c]) <= MAX_CALL_SZ - HEAD_SZ

ASSUME CallFramingAssumption ==
    /\ DOMAIN ArgsOf = Calls /\ DOMAIN ReplyOf = Calls
    /\ Supported \subseteq Calls
    /\ MAX_CALL_SZ \in HEAD_SZ + LEN_SZ .. ReadableSize
    /\ MAX_QUEUE_SIZE \in Nat
    /\ \A c \in Calls :
        /\ IsArgs(ArgsOf[c]) /\ IsArgs(ReplyOf[c].args)
        /\ ReplyOf[c].message.kind = "string" /\ IsScalar(ReplyOf[c].message)
        \* no frame and no answer is written past the buffer it is written in
        /\ validateCall(c) => HEAD_SZ + LEN_SZ + WrittenBytes(ArgsOf[c]) <= MAX_CALL_SZ
        /\ 4 + WrittenBytes(ReplyOf[c].args) <= MAX_CALL_SZ
        /\ 2 + ScalarBytes(ReplyOf[c].message) <= MAX_CALL_SZ

VARIABLES
    caller,                \* ready, refused, pushed, dropped
    m_data,                \* the bytes in the call space
    m_currentWriteIndex,
    buffer,                \* the server's copy of them
    queueSz,
    i,                     \* where the server is in it
    slot,                  \* the answers' bytes, none yet or no longer
    accepted,              \* history: the frames push took, in order
    received,              \* what methods were called with, in order
    answered               \* what callbacks were invoked with

vars == <<caller, m_data, m_currentWriteIndex, buffer, queueSz, i, slot, accepted, received,
          answered>>

NoSlot == <<>>
NotAnswered == [code |-> -1]

Init ==
    /\ caller = [c \in Calls |-> "ready"]
    /\ m_data = <<>> /\ m_currentWriteIndex = 0
    /\ buffer = <<>> /\ queueSz = 0 /\ i = 0
    /\ slot = [c \in Calls |-> NoSlot]
    /\ accepted = <<>> /\ received = <<>>
    /\ answered = [c \in Calls |-> NotAnswered]

-----------------------------------------------------------------------------
(* The client *)

\* serialize and serialize_with_args; the head names the call.
Frame(c) ==
    LET args == SerializedTuple(ArgsOf[c])
    IN  Behind(Behind(Bytes(Cell(c), HEAD_SZ), Bytes(Cell(args.sz), LEN_SZ)), args)

Refuse(c) ==
    /\ caller[c] = "ready"
    /\ ~ validateCall(c)
    /\ caller' = [caller EXCEPT ![c] = "refused"]
    /\ UNCHANGED <<m_data, m_currentWriteIndex, buffer, queueSz, i, slot, accepted, received, answered>>

Room(sz) == sz <= MAX_CALL_SZ /\ m_currentWriteIndex + sz <= MAX_CALL_SZ * MAX_QUEUE_SIZE

PushCall(c) ==
    /\ caller[c] = "ready"
    /\ validateCall(c)
    /\ LET f == Frame(c)
       IN  IF Room(f.sz)
           THEN /\ m_data' = BytesBehind(m_data, m_currentWriteIndex, f.cells)
                /\ m_currentWriteIndex' = m_currentWriteIndex + f.sz
                /\ accepted' = Append(accepted, c)
                /\ caller' = [caller EXCEPT ![c] = "pushed"]
           ELSE /\ caller' = [caller EXCEPT ![c] = "dropped"]
                /\ UNCHANGED <<m_data, m_currentWriteIndex, accepted>>
    /\ UNCHANGED <<buffer, queueSz, i, slot, received, answered>>

-----------------------------------------------------------------------------
(* The server *)

\* readMemory copies all bytes and clears the space.
ReadMemory ==
    /\ i >= queueSz
    /\ m_currentWriteIndex > 0
    /\ buffer' = m_data /\ queueSz' = m_currentWriteIndex /\ i' = 0
    /\ m_data' = <<>> /\ m_currentWriteIndex' = 0
    /\ UNCHANGED <<caller, slot, accepted, received, answered>>

\* Mutant: a frame that ends where the buffer does is taken for a broken one.
BeyondOrAt(n) == n >= queueSz

Beyond(n) == n > queueSz

\* One round of onReadCallMemory; whatever lies beyond the buffer ends the loop.
ParseFrame ==
    LET args == i + HEAD_SZ + LEN_SZ
        callSz == buffer[i + HEAD_SZ]
        c == buffer[i]
    IN  /\ i < queueSz
        /\ IF Beyond(i + HEAD_SZ) \/ Beyond(args) \/ Beyond(args + callSz)
           THEN i' = queueSz /\ UNCHANGED received
           ELSE /\ i' = args + callSz
                /\ received' =
                    IF c \in Supported
                    THEN LET callData == [o \in {x - args : x \in {y \in DOMAIN buffer :
                                            y >= args /\ y < args + callSz}} |-> buffer[o + args]]
                         IN  Append(received, <<c, ReadTuple(ArgsOf[c], callData, 0)>>)
                    ELSE received
        /\ UNCHANGED <<caller, m_data, m_currentWriteIndex, buffer, queueSz, slot, accepted, answered>>

-----------------------------------------------------------------------------
(* The answer: IPCCallback *)

\* Mutant: an error's message is written where the payload would be.
ErrorBehindSize(r) ==
    Behind(Behind(Bytes(Cell(r.code), 2), Bytes(Cell(0), 2)), Serialized(r.message))

\* An error has a message and no payload.
ErrorBytes(r) == Behind(Bytes(Cell(r.code), 2), Serialized(r.message))

\* Success has the size of its payload, and the payload.
SuccessBytes(r) ==
    LET args == SerializedTuple(r.args)
    IN  Behind(Behind(Bytes(Cell(r.code), 2), Bytes(Cell(args.sz), 2)), args)

ReplyBytes(r) == IF r.code # NoError THEN ErrorBytes(r) ELSE SuccessBytes(r)

Reply(c) ==
    /\ slot[c] = NoSlot
    /\ answered[c] = NotAnswered
    /\ \E j \in DOMAIN received : received[j][1] = c
    /\ slot' = [slot EXCEPT ![c] = ReplyBytes(ReplyOf[c]).cells]
    /\ UNCHANGED <<caller, m_data, m_currentWriteIndex, buffer, queueSz, i, accepted, received,
                   answered>>

\* The callback of a failed call gets the error, that of another the values.
Answered(cells, shapes) ==
    IF cells[0] # NoError
    THEN [code |-> cells[0], message |-> ReadScalar(Str(0, ""), cells, 2).value]
    ELSE [code |-> NoError, args |-> ReadTuple(shapes, cells, 4)]

ReadReply(c) ==
    /\ slot[c] # NoSlot
    /\ answered' = [answered EXCEPT ![c] = Answered(slot[c], ReplyOf[c].args)]
    /\ slot' = [slot EXCEPT ![c] = NoSlot]
    /\ UNCHANGED <<caller, m_data, m_currentWriteIndex, buffer, queueSz, i, accepted, received>>

-----------------------------------------------------------------------------
Next ==
    \/ \E c \in Calls : Refuse(c) \/ PushCall(c) \/ Reply(c) \/ ReadReply(c)
    \/ ReadMemory
    \/ ParseFrame

Spec == Init /\ [][Next]_vars

-----------------------------------------------------------------------------
(* Properties *)

IsShort(a) == a.kind = "string" => a.len <= MAX_SIZE
Short(args) ==
    \A n \in DOMAIN args :
        IF args[n].kind = "vector"
        THEN \A m \in DOMAIN args[n].elements : IsShort(args[n].elements[m])
        ELSE IsShort(args[n])

\* A method is called with the values the client passed, whatever lies before its
\* frame in the buffer, if no string is longer than 16 bits can say.
ArgsArrive ==
    \A n \in DOMAIN received :
        LET args == ArgsOf[received[n][1]] IN Short(args) => received[n][2] = Values(args)

\* The server cuts the bytes into the frames that were pushed, in order, to the last
\* one: when it is through with its copy, no frame is missing but those in the space.
ParsedInFull ==
    LET due == Only(accepted, Supported)
        done == [n \in DOMAIN received |-> received[n][1]]
    IN  /\ IsPrefix(done, due)
        /\ i >= queueSz /\ m_currentWriteIndex = 0 => done = due

HasVector(args) == \E n \in DOMAIN args : args[n].kind = "vector"

\* A call without vectors is refused only if its frame would be too big.
RefusedTooBig ==
    \A c \in Calls : caller[c] = "refused" /\ ~ HasVector(ArgsOf[c]) =>
        HEAD_SZ + LEN_SZ + WrittenBytes(ArgsOf[c]) > MAX_CALL_SZ

\* A callback gets the error and its message, or the values, that the method gave,
\* if no string is longer than 16 bits can say.
AnswersArrive ==
    \A c \in Calls : answered[c] # NotAnswered =>
        LET r == ReplyOf[c]
        IN  IF r.code # NoError
            THEN IsShort(r.message) =>
                    answered[c] = [code |-> r.code, message |-> ScalarValue(r.message)]
            ELSE Short(r.args) => answered[c] = [code |-> NoError, args |-> Values(r.args)]

\* The test SizeOfArgsMatchesSerialize: the arguments take the bytes sizeOfArgs says.
SizeOfArgsMatchesSerialize ==
    \A c \in Calls : caller[c] # "ready" =>
        sizeOfArgs(ArgsOf[c]) = SerializedTuple(ArgsOf[c]).sz

=============================================================================
