---------------------------- MODULE RequestReply ----------------------------
(***************************************************************************)
(* Calls from client processes to a service and the answers back, over the *)
(* call space and the callback space.                                      *)
(*                                                                         *)
(* A client object has user threads that make calls, one callback thread   *)
(* that polls the slots of the calls still waiting, and possibly a loop    *)
(* that runs the callbacks.  The server has one thread that drains the     *)
(* call space and runs the methods, on a loop if it has one.  A step is    *)
(* what one thread does between two points where another can interfere:    *)
(* the regions under a named mutex are single steps, the pass of the       *)
(* callback thread over its waiting calls is many.                         *)
(***************************************************************************)
EXTENDS CallSpace, CallbackSpace, Filtering, FiniteSets

CONSTANTS
    Clients,         \* client objects, each in a process of its own
    ClientOf,        \* the client that makes each call
    WithCallback,    \* calls made with a callback (or a return value)
    Answering,       \* calls whose method answers
    Supported,       \* calls whose method is in the service's map
    Looped,          \* clients constructed with a loop
    ServerLooped,    \* whether the server was constructed with a loop
    MaxAnswers,      \* bound: the answers one method invocation gives
    MaxExits         \* bound: the times the server exits or crashes

HEAD_SZ == 14                        \* call, method, client id, slot
LEN_SZ == 2                          \* the length of the arguments
ArgsSize(c) == FrameSize[c] - HEAD_SZ - LEN_SZ

\* The arguments are measured against the frame less its head, forgetting
\* the length field; CallFits excludes the sizes that fall in between.
validateCall(c) == ArgsSize(c) <= MAX_DATA_LENGTH - HEAD_SZ
CallFits(c) == validateCall(c) => FrameSize[c] <= MAX_DATA_LENGTH

ASSUME RequestReplyAssumption ==
    /\ Answers = Calls
    /\ ClientOf \in [Calls -> Clients]
    /\ WithCallback \subseteq Calls
    /\ Answering \subseteq Calls
    /\ Supported \subseteq Calls
    /\ Looped \subseteq Clients
    /\ ServerLooped \in BOOLEAN
    /\ MaxAnswers \in Nat
    /\ MaxExits \in Nat
    /\ \A c \in Calls : ArgsSize(c) >= 0 /\ CallFits(c)

\* What a failing call gives its callback instead of an answer.
Errors == {"InvalidPayload", "TransportFailure", "Timeout"}

ASSUME ErrorsAreNotAnswers ==
    /\ Errors \cap Calls = {}
    /\ NoAnswer \notin Errors

VARIABLES
    \* one call, as its user thread sees it
    caller,          \* where callServer is: ready, slot, push or returned
    slotOf,          \* the slot index its frame carries
    delivered,       \* what its callback was invoked with
    \* one client
    alive,           \* the object exists
    active,          \* m_isActive
    clientId,        \* m_clientId
    cbThread,        \* the callback thread: stopped, top, wait, scan, run
    subs,            \* m_cbDataSubs of all clients
    expired,         \* the waiting calls whose deadline has passed
    toVisit,         \* the waiting calls a pass has not looked at yet
    todo,            \* closures taken out of m_cbDataSubs, not run yet
    abandoned,       \* calls whose client was destroyed while they waited
    \* the server
    serverUp,
    batch,           \* drained frames not yet parsed
    posted,          \* methods given to the server's loop
    handling,        \* invocations that still hold their callback object
    answers,         \* answers each invocation has given
    exits,
    \* history
    accepted,        \* the frames push took, in order
    served,          \* the methods run, in order
    lost             \* frames a server had drained or posted when it ended

callVars == <<caller, slotOf, delivered>>
connectionVars == <<alive, active, clientId>>
waitingVars == <<cbThread, subs, expired, toVisit, todo>>
clientVars == <<connectionVars, waitingVars, abandoned>>
serverVars == <<serverUp, batch, posted, handling, answers, exits, served, lost>>
vars == <<callSpaceVars, m_cbData, callVars, clientVars, serverVars, accepted>>

Of(S, k) == {c \in S : ClientOf[c] = k}
Closure == [call : WithCallback, data : Answers \cup {NoAnswer}]
PendingClosures(k) == {x \in todo : ClientOf[x.call] = k}

CallTypeOK ==
    /\ caller \in [Calls -> {"ready", "slot", "push", "returned"}]
    /\ slotOf \in [Calls -> Slots]
    /\ delivered \in [Calls -> Seq(Calls \cup Errors)]

ConnectionTypeOK ==
    /\ alive \in [Clients -> BOOLEAN]
    /\ active \in [Clients -> BOOLEAN]
    /\ clientId \in [Clients -> 0 .. MAX_CLIENT_ID]

WaitingTypeOK ==
    /\ cbThread \in [Clients -> {"stopped", "top", "wait", "scan", "run"}]
    /\ subs \subseteq WithCallback
    /\ expired \subseteq subs
    /\ toVisit \subseteq subs
    /\ todo \subseteq Closure
    /\ abandoned \subseteq WithCallback

ServerTypeOK ==
    /\ serverUp \in BOOLEAN
    /\ batch \in Seq(Calls)
    /\ posted \in Seq(Calls)
    /\ handling \subseteq Calls
    /\ answers \in [Calls -> 0 .. MaxAnswers]
    /\ exits \in 0 .. MaxExits
    /\ served \in Seq(Calls)
    /\ lost \subseteq Calls

TypeOK ==
    /\ CallSpaceTypeOK
    /\ CallbackSpaceTypeOK
    /\ CallTypeOK
    /\ ConnectionTypeOK
    /\ WaitingTypeOK
    /\ ServerTypeOK
    /\ accepted \in Seq(Calls)

Init ==
    /\ CallSpaceInit
    /\ CallbackSpaceInit
    /\ caller = [c \in Calls |-> "ready"]
    /\ slotOf = [c \in Calls |-> 0]
    /\ delivered = [c \in Calls |-> <<>>]
    /\ alive = [k \in Clients |-> TRUE]
    /\ active = [k \in Clients |-> FALSE]
    /\ clientId = [k \in Clients |-> 0]
    /\ cbThread = [k \in Clients |-> "stopped"]
    /\ subs = {} /\ expired = {} /\ toVisit = {} /\ todo = {} /\ abandoned = {}
    /\ serverUp = TRUE
    /\ batch = <<>> /\ posted = <<>> /\ handling = {}
    /\ answers = [c \in Calls |-> 0]
    /\ exits = 0
    /\ accepted = <<>> /\ served = <<>> /\ lost = {}

-----------------------------------------------------------------------------
(* callServer, on a user thread *)

Goto(c, place) == caller' = [caller EXCEPT ![c] = place]
Deliver(c, what) == delivered' = [delivered EXCEPT ![c] = Append(@, what)]

\* A call begins on an object that exists, connected or not.
CanStart(c) == caller[c] = "ready" /\ alive[ClientOf[c]]

\* The arguments are too big: the callback, if any, fails at once.
Reject(c) ==
    /\ CanStart(c)
    /\ ~ validateCall(c)
    /\ Goto(c, "returned")
    /\ IF c \in WithCallback THEN Deliver(c, "InvalidPayload") ELSE UNCHANGED delivered
    /\ UNCHANGED <<callSpaceVars, m_cbData, slotOf, clientVars, serverVars, accepted>>

\* A call without callback names slot 0, which it has not taken.
StartOneWay(c) ==
    /\ CanStart(c)
    /\ validateCall(c)
    /\ c \notin WithCallback
    /\ Goto(c, "push")
    /\ slotOf' = [slotOf EXCEPT ![c] = 0]
    /\ UNCHANGED <<callSpaceVars, m_cbData, delivered, clientVars, serverVars, accepted>>

\* pushCb, first half: take a slot.
TakeSlot(c) ==
    /\ CanStart(c)
    /\ validateCall(c)
    /\ c \in WithCallback
    /\ \E i \in Slots :
        /\ pushCallback(i)
        /\ slotOf' = [slotOf EXCEPT ![c] = i]
    /\ Goto(c, "slot")
    /\ UNCHANGED <<callSpaceVars, delivered, clientVars, serverVars, accepted>>

NoSlotLeft(c) ==
    /\ CanStart(c)
    /\ validateCall(c)
    /\ c \in WithCallback
    /\ FreeSlots = {}
    /\ Goto(c, "returned")
    /\ Deliver(c, "TransportFailure")
    /\ UNCHANGED <<callSpaceVars, m_cbData, slotOf, clientVars, serverVars, accepted>>

\* pushCb, second half: wait for the mutex the callback thread holds during
\* a pass, then add the call to those waiting.
Register(c) ==
    /\ caller[c] = "slot"
    /\ cbThread[ClientOf[c]] # "scan"
    /\ subs' = subs \cup {c}
    /\ Goto(c, "push")
    /\ UNCHANGED <<callSpaceVars, m_cbData, slotOf, delivered, connectionVars,
                   cbThread, expired, toVisit, todo, abandoned, serverVars, accepted>>

\* The frame is pushed; that push may refuse it is ignored.
PushCall(c) ==
    /\ caller[c] = "push"
    /\ push(c)
    /\ accepted' = IF Fits(FrameSize[c]) THEN Append(accepted, c) ELSE accepted
    /\ Goto(c, "returned")
    /\ UNCHANGED <<m_cbData, slotOf, delivered, clientVars, serverVars>>

-----------------------------------------------------------------------------
(* connect, disconnect and the destructor, on the thread that owns the client *)

Connect(k) ==
    /\ alive[k] /\ ~ active[k] /\ cbThread[k] = "stopped"
    /\ generateClientId
    /\ clientId' = [clientId EXCEPT ![k] = m_lastClientId']
    /\ active' = [active EXCEPT ![k] = TRUE]
    /\ cbThread' = [cbThread EXCEPT ![k] = "top"]
    /\ UNCHANGED <<m_cbData, callVars, alive, subs, expired, toVisit, todo,
                   abandoned, serverVars, accepted>>

\* disconnect lowers the flag; the join that follows ends at "stopped".
Disconnect(k) ==
    /\ active[k]
    /\ active' = [active EXCEPT ![k] = FALSE]
    /\ UNCHANGED <<callSpaceVars, m_cbData, callVars, alive, clientId, waitingVars,
                   abandoned, serverVars, accepted>>

\* The object goes once its callback thread has been joined.  No thread may be
\* inside a call on it, nor its loop hold a closure: both would use it after.
Destroy(k) ==
    /\ alive[k] /\ ~ active[k] /\ cbThread[k] = "stopped"
    /\ \A c \in Of(Calls, k) : caller[c] \in {"ready", "returned"}
    /\ PendingClosures(k) = {}
    /\ alive' = [alive EXCEPT ![k] = FALSE]
    /\ abandoned' = abandoned \cup Of(subs, k)
    /\ subs' = subs \ Of(subs, k)
    /\ expired' = expired \ Of(subs, k)
    /\ UNCHANGED <<callSpaceVars, m_cbData, callVars, active, clientId, cbThread,
                   toVisit, todo, serverVars, accepted>>

-----------------------------------------------------------------------------
(* The callback thread, readCbData *)

\* The deadline of a waiting call passes.
Expire(c) ==
    /\ c \in subs \ expired
    /\ expired' = expired \cup {c}
    /\ UNCHANGED <<callSpaceVars, m_cbData, callVars, connectionVars, cbThread, subs,
                   toVisit, todo, abandoned, serverVars, accepted>>

LoopTop(k) ==
    /\ cbThread[k] = "top"
    /\ cbThread' = [cbThread EXCEPT ![k] = IF active[k] THEN "wait" ELSE "stopped"]
    /\ UNCHANGED <<callSpaceVars, m_cbData, callVars, connectionVars, subs, expired,
                   toVisit, todo, abandoned, serverVars, accepted>>

\* The wait ends with a call waiting, which starts a pass, or on disconnect.
Wake(k) ==
    /\ cbThread[k] = "wait"
    /\ Of(subs, k) # {} \/ ~ active[k]
    /\ cbThread' = [cbThread EXCEPT ![k] = IF Of(subs, k) = {} THEN "top" ELSE "scan"]
    /\ toVisit' = toVisit \cup Of(subs, k)
    /\ UNCHANGED <<callSpaceVars, m_cbData, callVars, connectionVars, subs, expired,
                   todo, abandoned, serverVars, accepted>>

\* Mutant: a deadline that passes is not noticed.
DueOnDisconnectOnly(c) == ~ active[ClientOf[c]]

\* A call is given up before its slot is looked at.
Due(c) == c \in expired \/ ~ active[ClientOf[c]]

Visiting(c) == cbThread[ClientOf[c]] = "scan" /\ c \in toVisit

\* Mutant: the call is not erased from the waiting list.
TakeOutWithoutErase(c, data) ==
    /\ todo' = todo \cup {[call |-> c, data |-> data]}
    /\ toVisit' = toVisit \ {c}
    /\ UNCHANGED <<subs, expired>>

\* The call leaves the waiting list with a closure to run.
TakeOut(c, data) ==
    /\ todo' = todo \cup {[call |-> c, data |-> data]}
    /\ subs' = subs \ {c}
    /\ expired' = expired \ {c}
    /\ toVisit' = toVisit \ {c}

VisitDue(c) ==
    /\ Visiting(c)
    /\ Due(c)
    /\ TakeOut(c, NoAnswer)
    /\ UNCHANGED <<callSpaceVars, m_cbData, callVars, connectionVars, cbThread,
                   abandoned, serverVars, accepted>>

VisitAnswered(c) ==
    /\ Visiting(c)
    /\ ~ Due(c)
    /\ popCallback(slotOf[c])
    /\ TakeOut(c, m_cbData[slotOf[c]].answer)
    /\ UNCHANGED <<callSpaceVars, callVars, connectionVars, cbThread, abandoned,
                   serverVars, accepted>>

VisitWaiting(c) ==
    /\ Visiting(c)
    /\ ~ Due(c)
    /\ ~ isCallbackAvailable(slotOf[c])
    /\ toVisit' = toVisit \ {c}
    /\ UNCHANGED <<callSpaceVars, m_cbData, callVars, connectionVars, cbThread, subs,
                   expired, todo, abandoned, serverVars, accepted>>

EndPass(k) ==
    /\ cbThread[k] = "scan"
    /\ Of(toVisit, k) = {}
    /\ cbThread' = [cbThread EXCEPT ![k] = "run"]
    /\ UNCHANGED <<callSpaceVars, m_cbData, callVars, connectionVars, subs, expired,
                   toVisit, todo, abandoned, serverVars, accepted>>

\* A client without a loop runs its closures on the callback thread.
MayRun(x) ==
    /\ x \in todo
    /\ ClientOf[x.call] \in Looped \/ cbThread[ClientOf[x.call]] = "run"

\* The closure gives the callback its answer ...
RunAnswered(x) ==
    /\ MayRun(x)
    /\ x.data # NoAnswer
    /\ Deliver(x.call, x.data)
    /\ todo' = todo \ {x}
    /\ UNCHANGED <<callSpaceVars, m_cbData, caller, slotOf, connectionVars, cbThread,
                   subs, expired, toVisit, abandoned, serverVars, accepted>>

\* ... or frees the slot and fails the callback.
RunTimeout(x) ==
    /\ MayRun(x)
    /\ x.data = NoAnswer
    /\ clearCallback(slotOf[x.call])
    /\ Deliver(x.call, "Timeout")
    /\ todo' = todo \ {x}
    /\ UNCHANGED <<callSpaceVars, caller, slotOf, connectionVars, cbThread, subs,
                   expired, toVisit, abandoned, serverVars, accepted>>

\* The thread loops once its closures have run, or are with the loop.
EndRun(k) ==
    /\ cbThread[k] = "run"
    /\ PendingClosures(k) = {} \/ k \in Looped
    /\ cbThread' = [cbThread EXCEPT ![k] = "top"]
    /\ UNCHANGED <<callSpaceVars, m_cbData, callVars, connectionVars, subs, expired,
                   toVisit, todo, abandoned, serverVars, accepted>>

-----------------------------------------------------------------------------
(* The server *)

\* readMemory: the whole call space is taken in one critical section.
ReadMemory ==
    /\ serverUp
    /\ batch = <<>>
    /\ isDataAvailable
    /\ batch' = pop
    /\ clear
    /\ UNCHANGED <<m_cbData, callVars, clientVars, serverUp, posted, handling, answers,
                   exits, served, lost, accepted>>

\* The method of call c runs, and keeps its callback object if it has one.
Invoke(c) ==
    /\ served' = Append(served, c)
    /\ handling' = handling \cup (Answering \cap {c})

\* onReadCallMemory, one frame: an unknown method is skipped.
Dispatch ==
    /\ serverUp
    /\ batch # <<>>
    /\ batch' = Tail(batch)
    /\ IF Head(batch) \in Supported /\ ServerLooped
       THEN posted' = Append(posted, Head(batch))
       ELSE UNCHANGED posted
    /\ IF Head(batch) \in Supported /\ ~ ServerLooped
       THEN Invoke(Head(batch))
       ELSE UNCHANGED <<served, handling>>
    /\ UNCHANGED <<callSpaceVars, m_cbData, callVars, clientVars, serverUp, answers,
                   exits, lost, accepted>>

\* The server's loop runs the method posted first.
RunPosted ==
    /\ serverUp
    /\ posted # <<>>
    /\ posted' = Tail(posted)
    /\ Invoke(Head(posted))
    /\ UNCHANGED <<callSpaceVars, m_cbData, callVars, clientVars, serverUp, batch,
                   answers, exits, lost, accepted>>

\* onCallback: a method answers, now or later, on any thread, even again.
Answer(c) ==
    /\ serverUp
    /\ c \in handling
    /\ answers[c] < MaxAnswers
    /\ updateCallback(slotOf[c], c)
    /\ answers' = [answers EXCEPT ![c] = @ + 1]
    /\ UNCHANGED <<callSpaceVars, callVars, clientVars, serverUp, batch, posted,
                   handling, exits, served, lost, accepted>>

In(frames) == {frames[n] : n \in DOMAIN frames}

\* The destructor joins the server thread, so a batch is finished first.  What
\* is with the loop or holds a callback object finds its server gone.
ServerExit ==
    /\ serverUp
    /\ batch = <<>>
    /\ exits < MaxExits
    /\ exits' = exits + 1
    /\ serverUp' = FALSE
    /\ posted' = <<>>
    /\ handling' = {}
    /\ lost' = lost \cup In(posted)
    /\ UNCHANGED <<callSpaceVars, m_cbData, callVars, clientVars, batch, answers,
                   served, accepted>>

\* The process dies outside the critical sections.
ServerCrash ==
    /\ serverUp
    /\ exits < MaxExits
    /\ exits' = exits + 1
    /\ serverUp' = FALSE
    /\ batch' = <<>>
    /\ posted' = <<>>
    /\ handling' = {}
    /\ lost' = lost \cup In(batch) \cup In(posted)
    /\ UNCHANGED <<callSpaceVars, m_cbData, callVars, clientVars, answers, served,
                   accepted>>

\* The next server finds both spaces as they were left.
ServerStart ==
    /\ ~ serverUp
    /\ serverUp' = TRUE
    /\ UNCHANGED <<callSpaceVars, m_cbData, callVars, clientVars, batch, posted,
                   handling, answers, exits, served, lost, accepted>>

-----------------------------------------------------------------------------
CallStep(c) ==
    \/ Reject(c) \/ StartOneWay(c) \/ TakeSlot(c) \/ NoSlotLeft(c)
    \/ Register(c) \/ PushCall(c)

ConnectionStep(k) == Connect(k) \/ Disconnect(k) \/ Destroy(k)

VisitStep(c) == VisitDue(c) \/ VisitAnswered(c) \/ VisitWaiting(c)

CallbackThreadStep(k) == LoopTop(k) \/ Wake(k) \/ EndPass(k) \/ EndRun(k)

ServerStep ==
    \/ ReadMemory \/ Dispatch \/ RunPosted
    \/ ServerExit \/ ServerCrash \/ ServerStart

Next ==
    \/ \E c \in Calls : CallStep(c) \/ Expire(c) \/ VisitStep(c) \/ Answer(c)
    \/ \E k \in Clients : ConnectionStep(k) \/ CallbackThreadStep(k)
    \/ \E x \in todo : RunAnswered(x) \/ RunTimeout(x)
    \/ ServerStep

Spec == Init /\ [][Next]_vars

(* The callback thread runs, deadlines pass, and a client's loop runs what it
   is given.  Wake is fair only with a call waiting: registering notifies
   under the mutex, disconnect does not.  The server's thread and loop run;
   nothing obliges a method to answer, a server to start or a user to act. *)
ClientFairness ==
    /\ \A c \in Calls : WF_vars(Expire(c)) /\ WF_vars(VisitStep(c))
    /\ \A k \in Clients :
        /\ WF_vars(LoopTop(k)) /\ WF_vars(EndPass(k)) /\ WF_vars(EndRun(k))
        /\ WF_vars(Wake(k) /\ Of(subs, k) # {})
    /\ \A x \in Closure : WF_vars(RunAnswered(x) \/ RunTimeout(x))

ServerFairness == WF_vars(ReadMemory) /\ WF_vars(Dispatch) /\ WF_vars(RunPosted)

FairSpec == Spec /\ ClientFairness /\ ServerFairness

-----------------------------------------------------------------------------
(* Properties *)

\* A call has its slot from pushCallback until the answer is taken or the
\* timeout closure clears it; a destroyed client never gives it back.
Holds(c) ==
    /\ c \in WithCallback
    /\ \/ caller[c] = "slot"
       \/ c \in subs
       \/ [call |-> c, data |-> NoAnswer] \in todo
       \/ c \in abandoned

Holders(i) == {c \in Calls : Holds(c) /\ slotOf[c] = i}

\* A slot is in use exactly as long as one call holds it: pushCallback never
\* hands out a slot a call still relies on, a late answer or a late timeout
\* closure (IClientIPC.hpp:290) never disturbs the slot's next holder's claim,
\* and no slot leaks except through a destroyed client.
SlotOwnership ==
    /\ \A i \in Slots : m_cbData[i].status = "NoData" <=> Holders(i) = {}
    /\ \A c, d \in Calls : Holds(c) /\ Holds(d) /\ slotOf[c] = slotOf[d] => c = d

\* Whatever races between a deadline, an answer, a disconnect and a reconnect,
\* a callback is invoked at most once: by the caller that failed, or by the
\* one closure made when the call left m_cbDataSubs.
AtMostOnce == \A c \in Calls : Len(delivered[c]) <= 1

Failed(c, error) == delivered[c] # <<>> /\ delivered[c][1] = error

\* No call has timed out, no method has answered twice and none has answered a
\* call that asked for no answer.
Undisturbed ==
    /\ \A c \in Calls : ~ Failed(c, "Timeout")
    /\ \A c \in Calls : answers[c] <= 1
    /\ \A c \in Calls \ WithCallback : answers[c] = 0

\* The answer a callback gets is its own call's.
AnswersMatch ==
    \A c \in Calls : \A n \in DOMAIN delivered[c] :
        delivered[c][n] \in Calls => delivered[c][n] = c

\* Slots carry no call id, yet as long as nothing has timed out, answered twice
\* or answered unasked, every callback gets the answer of its own call, whatever
\* the order of calls, answers, passes, restarts of the server and reuse of slots.
AnswersMatchUndisturbed == Undisturbed => AnswersMatch

Place(c) == CHOOSE n \in DOMAIN accepted : accepted[n] = c

\* Methods run in the order the frames entered the call space, each at most once,
\* also over exits, crashes and restarts of the server.
ServedInOrder ==
    \A m, n \in DOMAIN served : m < n => Place(served[m]) < Place(served[n])

Known(frames) == Only(frames, Supported)

\* Every frame push took, save those a server had drained or given to its loop
\* when it ended, has been served or is with the loop, in the batch or in the call
\* space, in this order and once: draining loses and invents nothing, and what a
\* server has not drained when it exits or dies is there for the next one.
NothingLost ==
    Only(accepted, Supported \ lost) = served \o posted \o Known(batch \o m_data)

\* A call that waits is answered or fails in the end, though its frame was
\* refused, its server died or its method never answers, unless its client
\* disconnects first.
WaitingEnds ==
    \A c \in Calls : c \in subs ~> (delivered[c] # <<>> \/ ~ active[ClientOf[c]])

\* A frame in the call space with a known method is served in the end, unless
\* the server goes away first.
CallsReachTheServer ==
    \A c \in Supported :
        (\E n \in DOMAIN m_data : m_data[n] = c)
            ~> ((\E n \in DOMAIN served : served[n] = c) \/ exits > 0)

\* How far a call is that asks for an answer.
Fate(c) ==
    IF delivered[c] # <<>>
    THEN IF delivered[c][1] \in Calls THEN "answered" ELSE delivered[c][1]
    ELSE IF c \in abandoned THEN "forgotten"
    ELSE IF \E x \in todo : x.call = c /\ x.data # NoAnswer THEN "collected"
    ELSE IF Holds(c) THEN "waiting" ELSE "idle"

\* Calls, slots and closures, over passes, deadlines, late answers, disconnects
\* and restarts, keep the promise: one outcome per call, a slot per call as long
\* as it waits and no longer, and "Not enough space for callback processing"
\* (IClientIPC.hpp:108) only if no slot is free.
Promise == INSTANCE CallPromise WITH
    Asking <- WithCallback,
    Fitting <- {c \in Calls : validateCall(c)},
    Capacity <- QUEUE_SIZE,
    fate <- [c \in WithCallback |-> Fate(c)],
    free <- Cardinality(FreeSlots)

PromisesKept == Promise!Spec

=============================================================================
