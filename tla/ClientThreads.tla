----------------------------- MODULE ClientThreads -----------------------------
(***************************************************************************)
(* The threads of one client object and what they wait for.                *)
(*                                                                         *)
(* connect starts the callback thread and the event thread, disconnect     *)
(* joins them.  The callback thread sleeps on m_conditionCbData until a    *)
(* call is registered or the client is disconnected; then it makes         *)
(* passes over the registered calls, and runs the callbacks of those that  *)
(* are due.  The event thread never sleeps long; it runs the functions of  *)
(* the events it pops.  With a loop, both give the loop what they would    *)
(* run.  A callback or an event's function is the user's code: it may make *)
(* a call, wait for that call's return value, or disconnect.               *)
(*                                                                         *)
(* RequestReply and EventDelivery have the slots, frames and rings; here a *)
(* call is due when its answer is there or its deadline has passed.        *)
(***************************************************************************)
EXTENDS Filtering, FiniteSets

CONSTANTS
    Calls,          \* calls with a callback, each made at most once
    Events,
    Blocking,       \* the calls made by callServerWithReturn
    Programs,       \* what callbacks and events' functions may do, see below
    MaxConnects,    \* bound: the times connect is called
    None

Functions == Calls \cup Events

\* A function does nothing that matters here, or in the end disconnects, or makes a call.
\* The callback of a blocking call is the library's own and only sets the value.
Program == [Functions -> {"nothing", "disconnect"} \cup Calls]

ASSUME ClientThreadsAssumption ==
    /\ Calls \cap Events = {}
    /\ {None, "nothing", "disconnect"} \cap Functions = {}
    /\ Blocking \subseteq Calls
    /\ Programs \subseteq Program
    /\ \A p \in Programs : \A c \in Blocking : p[c] = "nothing"
    /\ MaxConnects \in Nat

VARIABLES
    looped,         \* the client was constructed with a loop
    does,           \* what each function does
    m_isActive,
    cbThread,       \* where the callback thread is
    evThread,       \* where the event thread is
    m_cbDataSubs,   \* the registered calls, in order
    due,            \* the calls whose answer is there or whose time is up
    arrived,        \* the events in the client's ring
    caller,         \* where the user code is that makes a call
    queue,          \* the functions a thread is to run, in order
    running,        \* the function a thread is in
    disconnecting,  \* where disconnect is
    who,            \* the thread that disconnects
    connects,
    terminated,     \* the process ended with std::terminate
    missed          \* history: a notification found the thread about to sleep

vars == <<looped, does, m_isActive, cbThread, evThread, m_cbDataSubs, due, arrived, caller,
          queue, running, disconnecting, who, connects, terminated, missed>>
cbVars == <<m_cbDataSubs, due, arrived, caller>>
runVars == <<queue, running>>
disconnectVars == <<disconnecting, who, terminated, missed>>
fixed == <<looped, does>>

\* The threads that run functions; "user" is the one that connects the client.
Runners == {"cb", "ev", "loop"}

TypeOK ==
    /\ looped \in BOOLEAN
    /\ does \in Programs
    /\ m_isActive \in BOOLEAN
    /\ cbThread \in {"stopped", "top", "check", "block", "waiting", "scan", "flush", "run"}
    /\ evThread \in {"stopped", "top", "drain", "run"}
    /\ m_cbDataSubs \in Seq(Calls)
    /\ due \subseteq Calls
    /\ arrived \subseteq Events
    /\ caller \in [Calls -> {"ready", "waiting", "returned"}]
    /\ queue \in [Runners -> Seq(Functions)]
    /\ running \in [Runners -> Functions \cup {None}]
    /\ disconnecting \in {"no", "notifyCb", "joinCb", "notifyEv", "joinEv"}
    /\ who \in Runners \cup {"user"}
    /\ connects \in 0 .. MaxConnects
    /\ terminated \in BOOLEAN
    /\ missed \in BOOLEAN
    \* callbacks and events' functions run where they should
    /\ IF looped THEN \A t \in {"cb", "ev"} : queue[t] = <<>> /\ running[t] = None
                 ELSE queue["loop"] = <<>> /\ running["loop"] = None

Init ==
    /\ looped \in BOOLEAN
    /\ does \in Programs
    /\ m_isActive = FALSE
    /\ cbThread = "stopped" /\ evThread = "stopped"
    /\ m_cbDataSubs = <<>> /\ due = {} /\ arrived = {}
    /\ caller = [c \in Calls |-> "ready"]
    /\ queue = [t \in Runners |-> <<>>]
    /\ running = [t \in Runners |-> None]
    /\ disconnecting = "no" /\ who = "user"
    /\ connects = 0
    /\ terminated = FALSE /\ missed = FALSE

\* A thread is at a place, in a process that still exists.
CbAt(place) == ~ terminated /\ cbThread = place
EvAt(place) == ~ terminated /\ evThread = place

-----------------------------------------------------------------------------
(* The condition variable of the callback thread *)

\* Mutant: the predicate is looked at without the mutex.
CbMutexIgnored == cbThread \notin {"scan", "flush"}

\* Whoever holds m_mtxCbData keeps the others out; pushCb holds it for one step.
CbMutexFree == cbThread \notin {"block", "scan", "flush"}

\* Mutant: the notification is forgotten.
NotifyNobody == UNCHANGED cbThread

\* notify_one and notify_all: only a thread that is waiting hears it.
NotifyCb == cbThread' = IF cbThread = "waiting" THEN "check" ELSE cbThread

-----------------------------------------------------------------------------
(* callServer and callServerWithReturn *)

\* Calls that no function makes are made by a user's thread each.
ByUser(c) == \A f \in Functions : does[f] # c

\* The user code registers the call and, if it wants the value, waits for it.
Push(c) ==
    /\ ~ terminated
    /\ caller[c] = "ready"
    /\ CbMutexFree
    /\ m_cbDataSubs' = Append(m_cbDataSubs, c)
    /\ NotifyCb
    /\ caller' = [caller EXCEPT ![c] = IF c \in Blocking THEN "waiting" ELSE "returned"]
    /\ UNCHANGED <<fixed, m_isActive, evThread, due, arrived, runVars, disconnectVars, connects>>

UserPush(c) == ByUser(c) /\ Push(c)

FunctionPush(t) == \E c \in Calls : running[t] # None /\ does[running[t]] = c /\ Push(c)

\* The server's answer is in its slot, or the deadline has passed.
BecomesDue(c) ==
    /\ ~ terminated
    /\ \E i \in DOMAIN m_cbDataSubs : m_cbDataSubs[i] = c
    /\ c \notin due
    /\ due' = due \cup {c}
    /\ UNCHANGED <<fixed, m_isActive, cbThread, evThread, m_cbDataSubs, arrived, caller, runVars,
                   disconnectVars, connects>>

Arrive(e) ==
    /\ ~ terminated
    /\ e \notin arrived
    /\ \A t \in Runners : running[t] # e /\ \A i \in DOMAIN queue[t] : queue[t][i] # e
    /\ arrived' = arrived \cup {e}
    /\ UNCHANGED <<fixed, m_isActive, cbThread, evThread, m_cbDataSubs, due, caller, runVars,
                   disconnectVars, connects>>

-----------------------------------------------------------------------------
(* The callback thread *)

\* Mutant: the loop is ignored.
RunnerItself(t) == t

\* The thread t, or the loop if there is one.
RunnerFor(t) == IF looped THEN "loop" ELSE t
Give(t, fs) == queue' = [queue EXCEPT ![RunnerFor(t)] = @ \o fs]

CbTop ==
    /\ CbAt("top")
    /\ cbThread' = IF m_isActive THEN "check" ELSE "stopped"
    /\ UNCHANGED <<fixed, m_isActive, evThread, cbVars, runVars, disconnectVars, connects>>

\* With the mutex: look at the predicate, then go to sleep or make a pass.
Check ==
    /\ CbAt("check")
    /\ cbThread' = IF m_cbDataSubs # <<>> THEN (IF m_isActive THEN "scan" ELSE "flush")
                   ELSE IF m_isActive THEN "block" ELSE "top"
    /\ UNCHANGED <<fixed, m_isActive, evThread, cbVars, runVars, disconnectVars, connects>>

\* The thread starts to wait and releases the mutex, in one step.
Sleep ==
    /\ CbAt("block")
    /\ cbThread' = "waiting"
    /\ UNCHANGED <<fixed, m_isActive, evThread, cbVars, runVars, disconnectVars, connects>>

SpuriousWakeup ==
    /\ CbAt("waiting")
    /\ cbThread' = "check"
    /\ UNCHANGED <<fixed, m_isActive, evThread, cbVars, runVars, disconnectVars, connects>>

\* A pass takes the calls that are due; and, from the point where it finds the
\* client disconnected, every call.
EndPass ==
    /\ CbAt("scan") \/ CbAt("flush")
    /\ \E n \in 0 .. Len(m_cbDataSubs) :
        LET seen == SubSeq(m_cbDataSubs, 1, n)
            flushed == SubSeq(m_cbDataSubs, n + 1, Len(m_cbDataSubs))
        IN  /\ m_isActive => flushed = <<>>
            /\ cbThread = "flush" => seen = <<>>
            /\ Give("cb", Only(seen, due) \o flushed)
            /\ m_cbDataSubs' = Only(seen, Calls \ due)
    /\ cbThread' = "run"
    /\ UNCHANGED <<fixed, m_isActive, evThread, due, arrived, caller, running, disconnectVars, connects>>

\* All closures have run, or are with the loop.
CbEndRun ==
    /\ CbAt("run")
    /\ queue["cb"] = <<>> /\ running["cb"] = None
    /\ cbThread' = "top"
    /\ UNCHANGED <<fixed, m_isActive, evThread, cbVars, runVars, disconnectVars, connects>>

-----------------------------------------------------------------------------
(* The event thread: it sleeps 50 microseconds at most *)

EvTop ==
    /\ EvAt("top")
    /\ evThread' = IF m_isActive THEN "drain" ELSE "stopped"
    /\ UNCHANGED <<fixed, m_isActive, cbThread, cbVars, runVars, disconnectVars, connects>>

\* The ring is drained, unless the client was disconnected meanwhile.
Drain ==
    /\ EvAt("drain")
    /\ IF m_isActive
       THEN /\ \E fs \in [1 .. Cardinality(arrived) -> arrived] :
                /\ \A e \in arrived : \E i \in DOMAIN fs : fs[i] = e
                /\ Give("ev", fs)
            /\ arrived' = {}
            /\ evThread' = "run"
       ELSE evThread' = "top" /\ UNCHANGED <<arrived, queue>>
    /\ UNCHANGED <<fixed, m_isActive, cbThread, m_cbDataSubs, due, caller, running, disconnectVars,
                   connects>>

EvEndRun ==
    /\ EvAt("run")
    /\ queue["ev"] = <<>> /\ running["ev"] = None
    /\ evThread' = "top"
    /\ UNCHANGED <<fixed, m_isActive, cbThread, cbVars, runVars, disconnectVars, connects>>

-----------------------------------------------------------------------------
(* Functions run, on the thread t *)

StartFunction(t) ==
    /\ ~ terminated
    /\ running[t] = None
    /\ queue[t] # <<>>
    /\ t = "cb" => cbThread = "run"
    /\ t = "ev" => evThread = "run"
    /\ running' = [running EXCEPT ![t] = Head(queue[t])]
    /\ queue' = [queue EXCEPT ![t] = Tail(@)]
    /\ UNCHANGED <<fixed, m_isActive, cbThread, evThread, cbVars, disconnectVars, connects>>

\* The user code returns, unless it disconnects and is still there (see JoinEv).
\* The callback of a blocking call sets the value its caller waits for.
EndFunction(t) ==
    /\ ~ terminated
    /\ running[t] # None
    /\ LET f == running[t]
       IN  /\ does[f] \in Calls => caller[does[f]] = "returned"
           /\ does[f] = "disconnect" => ~ m_isActive /\ (disconnecting = "no" \/ who # t)
           /\ caller' = IF f \in Blocking THEN [caller EXCEPT ![f] = "returned"] ELSE caller
    /\ running' = [running EXCEPT ![t] = None]
    /\ UNCHANGED <<fixed, m_isActive, cbThread, evThread, m_cbDataSubs, due, arrived, queue,
                   disconnectVars, connects>>

-----------------------------------------------------------------------------
(* connect, by the user, and disconnect, by the user or a function *)

connect ==
    /\ ~ terminated
    /\ connects < MaxConnects
    /\ ~ m_isActive /\ disconnecting = "no"
    /\ connects' = connects + 1
    /\ m_isActive' = TRUE
    /\ cbThread' = "top" /\ evThread' = "top"
    /\ UNCHANGED <<fixed, cbVars, runVars, disconnectVars>>

\* A second disconnect finds m_isActive cleared and returns at once.
disconnect(t) ==
    /\ ~ terminated
    /\ m_isActive
    /\ m_isActive' = FALSE
    /\ disconnecting' = "notifyCb"
    /\ who' = t
    /\ UNCHANGED <<fixed, cbThread, evThread, cbVars, runVars, terminated, missed, connects>>

FunctionDisconnects(t) == running[t] # None /\ does[running[t]] = "disconnect" /\ disconnect(t)

\* notify_all, without m_mtxCbData.
NotifyCbThread ==
    /\ ~ terminated
    /\ disconnecting = "notifyCb"
    /\ NotifyCb
    /\ missed' = (missed \/ cbThread = "block")
    /\ disconnecting' = "joinCb"
    /\ UNCHANGED <<fixed, m_isActive, evThread, cbVars, runVars, who, terminated, connects>>

\* Mutant: the callback thread is not joined.
JoinedAlready == cbThread \in {"stopped", cbThread}

CbThreadEnded == cbThread = "stopped"

\* A thread that joins itself gets an exception nobody catches.
JoinCb ==
    /\ ~ terminated
    /\ disconnecting = "joinCb"
    /\ IF who = "cb" THEN terminated' = TRUE /\ UNCHANGED disconnecting
       ELSE CbThreadEnded /\ disconnecting' = "joinEv" /\ UNCHANGED terminated
    /\ UNCHANGED <<fixed, m_isActive, cbThread, evThread, cbVars, runVars, who, missed, connects>>

\* disconnect returns, and with it the function that called it on the loop.
JoinEv ==
    /\ ~ terminated
    /\ disconnecting = "joinEv"
    /\ IF who = "ev" THEN terminated' = TRUE /\ UNCHANGED <<disconnecting, running>>
       ELSE /\ evThread = "stopped"
            /\ disconnecting' = "no"
            /\ running' = IF who = "loop" THEN [running EXCEPT !["loop"] = None] ELSE running
            /\ UNCHANGED terminated
    /\ UNCHANGED <<fixed, m_isActive, cbThread, evThread, cbVars, queue, who, missed, connects>>

-----------------------------------------------------------------------------
CbStep == CbTop \/ Check \/ Sleep \/ EndPass \/ CbEndRun
EvStep == EvTop \/ Drain \/ EvEndRun
RunStep(t) == StartFunction(t) \/ EndFunction(t) \/ FunctionDisconnects(t)
DisconnectStep == NotifyCbThread \/ JoinCb \/ JoinEv

Next ==
    \/ CbStep \/ EvStep \/ DisconnectStep
    \/ SpuriousWakeup
    \/ connect \/ disconnect("user")
    \/ \E t \in Runners : RunStep(t) \/ FunctionPush(t)
    \/ \E c \in Calls : UserPush(c) \/ BecomesDue(c)
    \/ \E e \in Events : Arrive(e)

Spec == Init /\ [][Next]_vars

\* Threads run on, and deadlines pass.  A thread that asks for m_mtxCbData again and
\* again gets it in the end, although the callback thread takes it in every round.
FairSpec ==
    /\ Spec
    /\ WF_vars(CbStep)
    /\ WF_vars(EvStep)
    /\ WF_vars(DisconnectStep)
    /\ \A t \in Runners : WF_vars(RunStep(t)) /\ SF_vars(FunctionPush(t))
    /\ \A c \in Calls : WF_vars(BecomesDue(c))

-----------------------------------------------------------------------------
(* Properties *)

\* Once disconnect has returned, and until the next connect, no thread of the
\* client runs and no callback or event's function does, except on the loop.
QuietAfterDisconnect ==
    ~ m_isActive /\ disconnecting = "no" =>
        /\ cbThread = "stopped" /\ evThread = "stopped"
        /\ \A t \in {"cb", "ev"} : running[t] = None /\ queue[t] = <<>>

\* A callback or an event's function that waits for a call's return value.
Nested == \E t \in Runners : running[t] # None /\ does[running[t]] \in Blocking

\* disconnect returns, unless its notification came between the predicate and the
\* wait of the callback thread, or a function waits for a return value, or a
\* thread disconnects that would be joined.
DisconnectReturns ==
    disconnecting # "no" ~> (disconnecting = "no" \/ missed \/ Nested \/ terminated)

\* A call's return value comes, unless the client is disconnected meanwhile or
\* the call is waited for where its callback should run.
BlockingReturns ==
    \A c \in Blocking : caller[c] = "waiting" ~>
        (caller[c] = "returned" \/ ~ m_isActive \/ terminated
         \/ \E t \in {RunnerFor("cb"), "cb"} : running[t] # None /\ does[running[t]] \in Blocking)

\* The example's main ends: the destructor of a client disconnects, and returns.
DisconnectEnds == disconnecting # "no" ~> disconnecting = "no"

=============================================================================
