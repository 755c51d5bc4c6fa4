---------------------------- MODULE EventDelivery ----------------------------
(***************************************************************************)
(* Events from the server to the listeners of the client objects, over the *)
(* event space.                                                            *)
(*                                                                         *)
(* The server notifies.  A client object registers for events when it is   *)
(* constructed; its event thread, while connected, pops the client's ring  *)
(* until it is empty and then runs what it collected, itself or on the     *)
(* client's loop.  pop only points into the ring: the thread copies the    *)
(* payload after it has released the space's mutex.  User threads add and  *)
(* destroy Listeners.                                                      *)
(***************************************************************************)
EXTENDS EventSpace

CONSTANTS
    Clients,       \* client objects, of any process
    Listeners,     \* subscriptions that may be made
    ClientOf,      \* the client each listener is made on
    Hears,         \* the events each listener's function is for
    Looped,        \* clients constructed with a loop
    NoClient,      \* no id in m_evClientId
    NoView         \* the event thread looks at no slot

ASSUME EventDeliveryAssumption ==
    /\ ClientOf \in [Listeners -> Clients]
    /\ Hears \in [Listeners -> SUBSET Events]
    /\ Looped \subseteq Clients
    /\ NoClient \notin Bits

View == [event : Events, slot : Index]
ASSUME NoViewAssumption == NoView \notin View

VARIABLES
    \* a client
    life,              \* new, alive or gone
    active,            \* m_isActive
    m_evClientId,
    evThread,          \* the event thread: stopped, top, wait, pop, copy, run
    view,              \* event_view
    tasks,             \* collected, not run yet
    posted,            \* with the loop
    \* its listeners
    lsn,               \* new, adding, failed, subscribed or dropped
    m_evDataListeners, \* of all clients
    \* history
    notified,          \* the events sent, in order
    unregistered,      \* the bits unregisterClient was called for
    sent,              \* what each ring was given since it was registered
    taken,             \* what each client popped
    heard,             \* the payloads each listener's function was given
    late               \* the events sent after each listener was destroyed

threadVars == <<evThread, view, tasks, posted>>
clientVars == <<life, active, m_evClientId>>
listenerVars == <<lsn, m_evDataListeners>>
historyVars == <<notified, unregistered, sent, taken, heard, late>>
vars == <<eventSpaceVars, clientVars, threadVars, listenerVars, historyVars>>

Task == [event : Events, data : Events \cup {NoEvent}, targets : SUBSET Listeners]
Of(k) == {l \in Listeners : ClientOf[l] = k}
Sent(e) == \E n \in DOMAIN notified : notified[n] = e

ClientTypeOK ==
    /\ life \in [Clients -> {"new", "alive", "gone"}]
    /\ active \in [Clients -> BOOLEAN]
    /\ m_evClientId \in [Clients -> Bits \cup {NoClient}]

ThreadTypeOK ==
    /\ evThread \in [Clients -> {"stopped", "top", "wait", "pop", "copy", "run"}]
    /\ view \in [Clients -> View \cup {NoView}]
    /\ tasks \in [Clients -> Seq(Task)]
    /\ posted \in [Clients -> Seq(Task)]

ListenerTypeOK ==
    /\ lsn \in [Listeners -> {"new", "adding", "failed", "subscribed", "dropped"}]
    /\ m_evDataListeners \subseteq Listeners

HistoryTypeOK ==
    /\ notified \in Seq(Events)
    /\ unregistered \subseteq Bits
    /\ sent \in [Bits -> Seq(Events)]
    /\ taken \in [Clients -> Seq(Events)]
    /\ heard \in [Listeners -> Seq(Events \cup {NoEvent})]
    /\ late \in [Listeners -> SUBSET Events]

TypeOK ==
    /\ EventSpaceTypeOK
    /\ ClientTypeOK
    /\ ThreadTypeOK
    /\ ListenerTypeOK
    /\ HistoryTypeOK

Init ==
    /\ EventSpaceInit
    /\ life = [k \in Clients |-> "new"]
    /\ active = [k \in Clients |-> FALSE]
    /\ m_evClientId = [k \in Clients |-> NoClient]
    /\ evThread = [k \in Clients |-> "stopped"]
    /\ view = [k \in Clients |-> NoView]
    /\ tasks = [k \in Clients |-> <<>>]
    /\ posted = [k \in Clients |-> <<>>]
    /\ lsn = [l \in Listeners |-> "new"]
    /\ m_evDataListeners = {}
    /\ notified = <<>>
    /\ unregistered = {}
    /\ sent = [b \in Bits |-> <<>>]
    /\ taken = [k \in Clients |-> <<>>]
    /\ heard = [l \in Listeners |-> <<>>]
    /\ late = [l \in Listeners |-> {}]

-----------------------------------------------------------------------------
(* The server *)

ServerStart ==
    /\ ~ m_isAvailable
    /\ setAvailable(TRUE)
    /\ UNCHANGED <<clientVars, threadVars, listenerVars, historyVars>>

ServerExit ==
    /\ m_isAvailable
    /\ setAvailable(FALSE)
    /\ UNCHANGED <<clientVars, threadVars, listenerVars, historyVars>>

\* A server exists exactly while the space is available.  Each event stands
\* for one notification.
Notify(e) ==
    /\ m_isAvailable
    /\ ~ Sent(e)
    /\ push(e)
    /\ notified' = Append(notified, e)
    /\ sent' = [b \in Bits |-> IF m_clients'[b] # m_clients[b]
                               THEN Append(sent[b], e) ELSE sent[b]]
    /\ UNCHANGED <<clientVars, threadVars, listenerVars, unregistered, taken, heard, late>>

-----------------------------------------------------------------------------
(* The client object: constructor, connect, disconnect, destructor *)

\* Take an id from the event space; there may be none left.
Register(k) ==
    \/ \E b \in Bits :
        /\ registerClient(b)
        /\ m_evClientId' = [m_evClientId EXCEPT ![k] = b]
        /\ sent' = [sent EXCEPT ![b] = <<>>]
    \/ /\ FreeBits = {}
       /\ UNCHANGED <<eventSpaceVars, m_evClientId, sent>>

Construct(k) ==
    /\ life[k] = "new"
    /\ life' = [life EXCEPT ![k] = "alive"]
    /\ Register(k)
    /\ UNCHANGED <<active, threadVars, listenerVars, notified, unregistered, taken, heard, late>>

Connect(k) ==
    /\ life[k] = "alive" /\ ~ active[k] /\ evThread[k] = "stopped"
    /\ active' = [active EXCEPT ![k] = TRUE]
    /\ evThread' = [evThread EXCEPT ![k] = "top"]
    /\ UNCHANGED <<eventSpaceVars, life, m_evClientId, view, tasks, posted, listenerVars, historyVars>>

Disconnect(k) ==
    /\ active[k]
    /\ active' = [active EXCEPT ![k] = FALSE]
    /\ UNCHANGED <<eventSpaceVars, life, m_evClientId, threadVars, listenerVars, historyVars>>

\* The object goes after its event thread is joined, its Listeners (which refer
\* to it) are destroyed and its loop has run what it was given.
Destroy(k) ==
    /\ life[k] = "alive" /\ ~ active[k] /\ evThread[k] = "stopped"
    /\ \A l \in Of(k) : lsn[l] \notin {"adding", "subscribed"}
    /\ posted[k] = <<>>
    /\ life' = [life EXCEPT ![k] = "gone"]
    /\ m_evDataListeners' = m_evDataListeners \ Of(k)
    /\ UNCHANGED <<eventSpaceVars, active, m_evClientId, threadVars, lsn, historyVars>>

-----------------------------------------------------------------------------
(* subscribe and ~Listener, on user threads *)

\* A client without id tries again to get one.
SubscribeRegister(l) ==
    /\ lsn[l] = "new"
    /\ life[ClientOf[l]] = "alive"
    /\ m_evClientId[ClientOf[l]] = NoClient
    /\ Register(ClientOf[l])
    /\ lsn' = [lsn EXCEPT ![l] = IF FreeBits = {} THEN "failed" ELSE "adding"]
    /\ UNCHANGED <<life, active, threadVars, m_evDataListeners, notified, unregistered,
                   taken, heard, late>>

AddListener(l) ==
    /\ \/ lsn[l] = "adding"
       \/ /\ lsn[l] = "new"
          /\ life[ClientOf[l]] = "alive"
          /\ m_evClientId[ClientOf[l]] # NoClient
    /\ lsn' = [lsn EXCEPT ![l] = "subscribed"]
    /\ m_evDataListeners' = m_evDataListeners \cup {l}
    /\ UNCHANGED <<eventSpaceVars, clientVars, threadVars, historyVars>>

\* The client's id is given back; the function stays in m_evDataListeners.
DestroyListener(l) ==
    /\ lsn[l] = "subscribed"
    /\ unregisterClient(m_evClientId[ClientOf[l]])
    /\ lsn' = [lsn EXCEPT ![l] = "dropped"]
    /\ unregistered' = unregistered \cup {m_evClientId[ClientOf[l]]}
    /\ late' = [late EXCEPT ![l] = {e \in Events : ~ Sent(e)}]
    /\ UNCHANGED <<clientVars, threadVars, m_evDataListeners, notified, sent, taken, heard>>

-----------------------------------------------------------------------------
(* The event thread, readEvData *)

Goto(k, place) == evThread' = [evThread EXCEPT ![k] = place]

LoopTop(k) ==
    /\ evThread[k] = "top"
    /\ Goto(k, IF active[k] THEN "wait" ELSE "stopped")
    /\ UNCHANGED <<eventSpaceVars, clientVars, view, tasks, posted, listenerVars, historyVars>>

\* The wait lasts 50 microseconds at most, whatever its predicate says.
Wake(k) ==
    /\ evThread[k] = "wait"
    /\ Goto(k, IF active[k] /\ m_evClientId[k] # NoClient THEN "pop" ELSE "top")
    /\ UNCHANGED <<eventSpaceVars, clientVars, view, tasks, posted, listenerVars, historyVars>>

Pop(k) ==
    /\ evThread[k] = "pop"
    /\ pop(m_evClientId[k])
    /\ LET r == m_clients[m_evClientId[k]]
       IN  /\ view' = [view EXCEPT ![k] = [event |-> front(r), slot |-> r.m_read]]
           /\ taken' = [taken EXCEPT ![k] = Append(@, front(r))]
    /\ Goto(k, "copy")
    /\ UNCHANGED <<clientVars, tasks, posted, listenerVars, notified, unregistered, sent,
                   heard, late>>

\* Mutant: the newest task comes first.
QueuedFirst(t, ts) == <<t>> \o ts

Queued(t, ts) == Append(ts, t)

Targets(k, e) == {l \in m_evDataListeners \cap Of(k) : e \in Hears[l]}

\* The payload is read from the slot, without the mutex.
Copy(k) ==
    /\ evThread[k] = "copy"
    /\ LET e == view[k].event
           d == m_clients[m_evClientId[k]].m_storage[view[k].slot]
       IN  tasks' = IF Targets(k, e) = {} THEN tasks
                    ELSE [tasks EXCEPT
                        ![k] = Queued([event |-> e, data |-> d, targets |-> Targets(k, e)], @)]
    /\ view' = [view EXCEPT ![k] = NoView]
    /\ Goto(k, "pop")
    /\ UNCHANGED <<eventSpaceVars, clientVars, posted, listenerVars, historyVars>>

\* Mutant: an empty ring ends the round before the tasks are run.
AfterDrainForget(k) == "top"

AfterDrain(k) == "run"

Drained(k) ==
    /\ evThread[k] = "pop"
    /\ ~ HasEvent(m_evClientId[k])
    /\ Goto(k, AfterDrain(k))
    /\ UNCHANGED <<eventSpaceVars, clientVars, view, tasks, posted, listenerVars, historyVars>>

\* Every target's function is given the payload.
Run(t) == heard' = [l \in Listeners |-> IF l \in t.targets THEN Append(heard[l], t.data)
                                        ELSE heard[l]]

RunTask(k) ==
    /\ evThread[k] = "run" /\ k \notin Looped /\ tasks[k] # <<>>
    /\ Run(Head(tasks[k]))
    /\ tasks' = [tasks EXCEPT ![k] = Tail(@)]
    /\ UNCHANGED <<eventSpaceVars, clientVars, evThread, view, posted, listenerVars,
                   notified, unregistered, sent, taken, late>>

\* The round ends with every task run, or given to the loop.
EndRun(k) ==
    /\ evThread[k] = "run"
    /\ tasks[k] = <<>> \/ k \in Looped
    /\ posted' = [posted EXCEPT ![k] = @ \o tasks[k]]
    /\ tasks' = [tasks EXCEPT ![k] = <<>>]
    /\ Goto(k, "top")
    /\ UNCHANGED <<eventSpaceVars, clientVars, view, listenerVars, historyVars>>

RunPosted(k) ==
    /\ posted[k] # <<>>
    /\ Run(Head(posted[k]))
    /\ posted' = [posted EXCEPT ![k] = Tail(@)]
    /\ UNCHANGED <<eventSpaceVars, clientVars, evThread, view, tasks, listenerVars,
                   notified, unregistered, sent, taken, late>>

-----------------------------------------------------------------------------
ServerStep == ServerStart \/ ServerExit \/ \E e \in Events : Notify(e)
ObjectStep(k) == Construct(k) \/ Connect(k) \/ Disconnect(k) \/ Destroy(k)
ListenerStep(l) == SubscribeRegister(l) \/ AddListener(l) \/ DestroyListener(l)
ThreadStep(k) ==
    \/ LoopTop(k) \/ Wake(k) \/ Pop(k) \/ Copy(k) \/ Drained(k)
    \/ RunTask(k) \/ EndRun(k)

Next ==
    \/ ServerStep
    \/ \E k \in Clients : ObjectStep(k) \/ ThreadStep(k) \/ RunPosted(k)
    \/ \E l \in Listeners : ListenerStep(l)

Spec == Init /\ [][Next]_vars

(* The event thread and the loop run; the rest need not happen. *)
Fairness == \A k \in Clients : WF_vars(ThreadStep(k)) /\ WF_vars(RunPosted(k))

FairSpec == Spec /\ Fairness

-----------------------------------------------------------------------------
(* Properties *)

\* Client k has an id that unregisterClient was never called for, by whichever
\* client: its ring has been its own since it registered.
Undisturbed(k) == m_evClientId[k] # NoClient /\ m_evClientId[k] \notin unregistered

RingOf(k) == m_clients[m_evClientId[k]]

\* The slot the event thread points at is not written before it is copied: the
\* mutex is released, but the slot behind the read index is the one push leaves
\* unused, as long as nobody resets the ring and no other client pops from it.
ViewIntact ==
    \A k \in Clients : Undisturbed(k) /\ view[k] # NoView =>
        RingOf(k).m_storage[view[k].slot] = view[k].event

\* What a ring took comes out of it complete and in order, to its client alone:
\* full rings, wrap-around, other clients coming and going, reconnects and
\* restarts of the server lose nothing, duplicate nothing and reorder nothing.
EventsInOrder ==
    \A k \in Clients : Undisturbed(k) =>
        sent[m_evClientId[k]] = taken[k] \o Contents(RingOf(k))

Position(e) == CHOOSE n \in DOMAIN notified : notified[n] = e

\* A listener's function is given payloads of its own kind of event, in the order
\* of the notifications and each at most once, through the view, the copy, the
\* collected tasks and the loop.
HeardInOrder ==
    \A l \in Listeners : Undisturbed(ClientOf[l]) =>
        /\ \A n \in DOMAIN heard[l] : heard[l][n] \in Hears[l] /\ Sent(heard[l][n])
        /\ \A m, n \in DOMAIN heard[l] :
            m < n => Position(heard[l][m]) < Position(heard[l][n])

InRing(e, b) == \E n \in DOMAIN Contents(m_clients[b]) : Contents(m_clients[b])[n] = e

\* An event in the ring of a connected client is given to its subscribed listener
\* in the end, unless the client disconnects or loses its id.
EventsHeard ==
    \A l \in Listeners : \A e \in Hears[l] :
        LET k == ClientOf[l]
        IN  (lsn[l] = "subscribed" /\ Undisturbed(k) /\ InRing(e, m_evClientId[k]))
                ~> (\/ \E n \in DOMAIN heard[l] : heard[l][n] = e
                    \/ ~ active[k] \/ ~ Undisturbed(k))

\* The rings of the event space, driven by servers, threads and listeners, are
\* bounded queues.
Queues == INSTANCE EventQueues WITH
    Members <- Bits,
    Capacity <- MAX_QUEUE_SIZE - 1,
    queue <- [b \in Bits |-> Contents(m_clients[b])],
    registered <- m_registeredClients

RingsAreQueues == Queues!Spec

\* The comment on Listener: destroying it unsubscribes, so that its function is
\* given no event sent later.
SilentAfterUnsubscribe ==
    \A l \in Listeners : \A n \in DOMAIN heard[l] : heard[l][n] \notin late[l]

=============================================================================
