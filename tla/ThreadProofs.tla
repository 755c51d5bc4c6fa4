----------------------------- MODULE ThreadProofs -----------------------------
(***************************************************************************)
(* Theorems about ClientThreads.                                           *)
(***************************************************************************)
EXTENDS ClientThreads, FilteringProofs, FiniteSetTheorems

Domains == DOMAIN queue = Runners /\ DOMAIN running = Runners

\* A thread has functions to run only at the end of its round.
IdleUnlessRun ==
    /\ cbThread # "run" => queue["cb"] = <<>> /\ running["cb"] = None
    /\ evThread # "run" => queue["ev"] = <<>> /\ running["ev"] = None

\* disconnect is under way on an inactive client only, has joined the callback
\* thread before it joins the event thread, and both before it returns.
JoinedInOrder ==
    /\ disconnecting \in {"no", "notifyCb", "joinCb", "joinEv"}
    /\ disconnecting # "no" => ~ m_isActive
    /\ disconnecting = "joinEv" => cbThread = "stopped"
    /\ ~ m_isActive /\ disconnecting = "no" => cbThread = "stopped" /\ evThread = "stopped"

QuietInv == Domains /\ IdleUnlessRun /\ JoinedInOrder

LEMMA QuietInvInit == ASSUME Init PROVE QuietInv
  BY DEF Init, QuietInv, Domains, IdleUnlessRun, JoinedInOrder, Runners

\* Nobody gives a thread functions but itself, or the loop.
LEMMA GiveElsewhere ==
    ASSUME Domains, NEW t \in {"cb", "ev"}, NEW fs, Give(t, fs)
    PROVE  /\ DOMAIN queue' = Runners
           /\ \A u \in {"cb", "ev"} \ {t} : queue'[u] = queue[u]
  BY DEF Domains, Give, RunnerFor, Runners

\* The callback thread, without what it runs.
LEMMA CbStepQuiet == ASSUME QuietInv, CbStep PROVE QuietInv'
<1> USE DEF QuietInv
<1>1. CASE CbTop
  BY <1>1 DEF CbTop, CbAt, runVars, cbVars, disconnectVars, Domains, IdleUnlessRun, JoinedInOrder
<1>2. CASE Check
  BY <1>2 DEF Check, CbAt, runVars, cbVars, disconnectVars, Domains, IdleUnlessRun, JoinedInOrder
<1>3. CASE Sleep
  BY <1>3 DEF Sleep, CbAt, runVars, cbVars, disconnectVars, Domains, IdleUnlessRun, JoinedInOrder
<1>4. CASE EndPass
  <2>1. cbThread # "stopped" /\ cbThread' = "run"
    BY <1>4 DEF EndPass, CbAt
  <2>2. DOMAIN queue' = Runners /\ queue'["ev"] = queue["ev"]
    <3>1. PICK n \in 0 .. Len(m_cbDataSubs) :
            Give("cb", Only(SubSeq(m_cbDataSubs, 1, n), due)
                            \o SubSeq(m_cbDataSubs, n + 1, Len(m_cbDataSubs)))
      BY <1>4 DEF EndPass
    <3> QED BY <3>1, GiveElsewhere
  <2> QED
    BY <1>4, <2>1, <2>2 DEF EndPass, disconnectVars, Domains, IdleUnlessRun, JoinedInOrder
<1>5. CASE CbEndRun
  BY <1>5 DEF CbEndRun, CbAt, runVars, cbVars, disconnectVars, Domains, IdleUnlessRun, JoinedInOrder
<1> QED BY <1>1, <1>2, <1>3, <1>4, <1>5 DEF CbStep

LEMMA EvStepQuiet == ASSUME QuietInv, EvStep PROVE QuietInv'
<1> USE DEF QuietInv
<1>1. CASE EvTop
  BY <1>1 DEF EvTop, EvAt, runVars, cbVars, disconnectVars, Domains, IdleUnlessRun, JoinedInOrder
<1>2. CASE Drain
  <2>1. CASE m_isActive
    <3>1. PICK fs \in [1 .. Cardinality(arrived) -> arrived] : Give("ev", fs)
      BY <1>2, <2>1 DEF Drain
    <3>2. DOMAIN queue' = Runners /\ queue'["cb"] = queue["cb"]
      BY <3>1, GiveElsewhere
    <3> QED
      BY <1>2, <2>1, <3>2 DEF Drain, EvAt, disconnectVars, Domains, IdleUnlessRun, JoinedInOrder
  <2>2. CASE ~ m_isActive
    BY <1>2, <2>2 DEF Drain, EvAt, disconnectVars, Domains, IdleUnlessRun, JoinedInOrder
  <2> QED BY <2>1, <2>2
<1>3. CASE EvEndRun
  BY <1>3 DEF EvEndRun, EvAt, runVars, cbVars, disconnectVars, Domains, IdleUnlessRun, JoinedInOrder
<1> QED BY <1>1, <1>2, <1>3 DEF EvStep

\* What threads and the loop run.
LEMMA RunStepQuiet == ASSUME QuietInv, NEW t \in Runners, RunStep(t) PROVE QuietInv'
<1> USE DEF QuietInv
<1>1. CASE StartFunction(t)
  BY <1>1 DEF StartFunction, cbVars, disconnectVars, Domains, IdleUnlessRun, JoinedInOrder, Runners
<1>2. CASE EndFunction(t)
  BY <1>2 DEF EndFunction, disconnectVars, Domains, IdleUnlessRun, JoinedInOrder, Runners
<1>3. CASE FunctionDisconnects(t)
  BY <1>3 DEF FunctionDisconnects, disconnect, runVars, cbVars, Domains, IdleUnlessRun, JoinedInOrder
<1> QED BY <1>1, <1>2, <1>3 DEF RunStep

LEMMA PushQuiet == ASSUME QuietInv, NEW c \in Calls, Push(c) PROVE QuietInv'
  BY DEF Push, NotifyCb, CbMutexFree, runVars, disconnectVars, QuietInv, Domains, IdleUnlessRun,
         JoinedInOrder

\* The joins: disconnect goes on only when the thread has ended.
LEMMA DisconnectStepQuiet == ASSUME QuietInv, DisconnectStep PROVE QuietInv'
<1> USE DEF QuietInv
<1>1. CASE NotifyCbThread
  BY <1>1 DEF NotifyCbThread, NotifyCb, runVars, cbVars, Domains, IdleUnlessRun, JoinedInOrder
<1>2. CASE JoinCb
  BY <1>2 DEF JoinCb, CbThreadEnded, runVars, cbVars, Domains, IdleUnlessRun, JoinedInOrder
<1>3. CASE JoinEv
  <2>1. DOMAIN running' = Runners /\ running'["cb"] = running["cb"] /\ running'["ev"] = running["ev"]
    BY <1>3 DEF JoinEv, Domains, Runners
  <2> QED BY <1>3, <2>1 DEF JoinEv, cbVars, Domains, IdleUnlessRun, JoinedInOrder
<1> QED BY <1>1, <1>2, <1>3 DEF DisconnectStep

LEMMA QuietInvStep == ASSUME QuietInv, [Next]_vars PROVE QuietInv'
<1> USE DEF QuietInv
<1>1. CASE CbStep \/ EvStep \/ DisconnectStep
  BY <1>1, CbStepQuiet, EvStepQuiet, DisconnectStepQuiet
<1>2. CASE SpuriousWakeup
  BY <1>2 DEF SpuriousWakeup, CbAt, runVars, cbVars, disconnectVars, Domains, IdleUnlessRun, JoinedInOrder
<1>3. CASE connect
  BY <1>3 DEF connect, runVars, cbVars, disconnectVars, Domains, IdleUnlessRun, JoinedInOrder
<1>4. CASE disconnect("user")
  BY <1>4 DEF disconnect, runVars, cbVars, Domains, IdleUnlessRun, JoinedInOrder
<1>5. ASSUME NEW t \in Runners, RunStep(t) \/ FunctionPush(t) PROVE QuietInv'
  BY <1>5, RunStepQuiet, PushQuiet DEF FunctionPush
<1>6. ASSUME NEW c \in Calls, UserPush(c) \/ BecomesDue(c) PROVE QuietInv'
  <2>1. CASE UserPush(c)
    BY <2>1, PushQuiet DEF UserPush
  <2>2. CASE BecomesDue(c)
    BY <2>2 DEF BecomesDue, runVars, disconnectVars, Domains, IdleUnlessRun, JoinedInOrder
  <2> QED BY <1>6, <2>1, <2>2
<1>7. ASSUME NEW e \in Events, Arrive(e) PROVE QuietInv'
  BY <1>7 DEF Arrive, runVars, disconnectVars, Domains, IdleUnlessRun, JoinedInOrder
<1>8. CASE UNCHANGED vars
  BY <1>8 DEF vars, Domains, IdleUnlessRun, JoinedInOrder
<1> QED BY <1>1, <1>2, <1>3, <1>4, <1>5, <1>6, <1>7, <1>8 DEF Next

\* When disconnect has returned (ClientIPC.cpp:57), both threads have ended and
\* neither has left anything to run, whatever callbacks and events' functions do.
THEOREM QuietAfter == Spec => []QuietAfterDisconnect
<1>1. Init => QuietInv
  BY QuietInvInit
<1>2. QuietInv /\ [Next]_vars => QuietInv'
  BY QuietInvStep
<1>3. QuietInv => QuietAfterDisconnect
  BY DEF QuietInv, IdleUnlessRun, JoinedInOrder, QuietAfterDisconnect
<1> QED BY <1>1, <1>2, <1>3, PTL DEF Spec

-----------------------------------------------------------------------------
(* Types, and where functions run *)

\* Each event arrives by itself, so the ring's events are finitely many.
TypeInv == TypeOK /\ IsFiniteSet(arrived)

\* With a loop its thread runs all functions, without one the two threads do.
Placed(q, r) ==
    IF looped THEN \A t \in {"cb", "ev"} : q[t] = <<>> /\ r[t] = None
    ELSE q["loop"] = <<>> /\ r["loop"] = None

RunTypes(q, r) ==
    /\ q \in [Runners -> Seq(Functions)]
    /\ r \in [Runners -> Functions \cup {None}]
    /\ Placed(q, r)

Rest ==
    /\ looped \in BOOLEAN
    /\ does \in Programs
    /\ m_isActive \in BOOLEAN
    /\ cbThread \in {"stopped", "top", "check", "block", "waiting", "scan", "flush", "run"}
    /\ evThread \in {"stopped", "top", "drain", "run"}
    /\ m_cbDataSubs \in Seq(Calls)
    /\ due \subseteq Calls
    /\ arrived \subseteq Events /\ IsFiniteSet(arrived)
    /\ caller \in [Calls -> {"ready", "waiting", "returned"}]
    /\ disconnecting \in {"no", "notifyCb", "joinCb", "notifyEv", "joinEv"}
    /\ who \in Runners \cup {"user"}
    /\ connects \in 0 .. MaxConnects
    /\ terminated \in BOOLEAN
    /\ missed \in BOOLEAN

LEMMA TypeParts == TypeInv <=> Rest /\ RunTypes(queue, running)
BY DEF TypeInv, TypeOK, Rest, RunTypes, Placed

LEMMA TypePartsNext == TypeInv' <=> Rest' /\ RunTypes(queue, running)'
BY DEF TypeInv, TypeOK, Rest, RunTypes, Placed

LEMMA TypeInvInit == ASSUME Init PROVE TypeInv
<1>1. IsFiniteSet(arrived)
  BY FS_EmptySet DEF Init
<1>2. Rest
  <2>1. connects \in 0 .. MaxConnects
    BY ClientThreadsAssumption DEF Init
  <2>2. m_cbDataSubs \in Seq(Calls) /\ caller \in [Calls -> {"ready", "waiting", "returned"}]
    BY DEF Init
  <2> QED BY <1>1, <2>1, <2>2 DEF Init, Rest
<1>3. RunTypes(queue, running)
  BY ClientThreadsAssumption DEF Init, RunTypes, Placed, Runners
<1> QED BY <1>2, <1>3, TypeParts

\* Functions given to the thread t go behind the others of whoever runs them.
LEMMA GiveTypes ==
    ASSUME RunTypes(queue, running), looped \in BOOLEAN, UNCHANGED <<looped, running>>,
           NEW t \in {"cb", "ev"}, NEW fs \in Seq(Functions), Give(t, fs)
    PROVE  RunTypes(queue, running)'
<1>1. RunnerFor(t) \in Runners
  BY DEF RunnerFor, Runners
<1>2. queue' = [queue EXCEPT ![RunnerFor(t)] = queue[RunnerFor(t)] \o fs]
  BY DEF Give
<1>3. queue[RunnerFor(t)] \o fs \in Seq(Functions)
  BY <1>1 DEF RunTypes
<1>4. queue' \in [Runners -> Seq(Functions)]
  BY <1>1, <1>2, <1>3 DEF RunTypes
<1>5. Placed(queue', running)
  BY <1>2 DEF RunTypes, Placed, RunnerFor, Runners
<1> QED BY <1>4, <1>5 DEF RunTypes, Placed

LEMMA CbStepTypes == ASSUME TypeInv, CbStep PROVE TypeInv'
<1> USE TypeParts, TypePartsNext
<1>1. CASE CbTop \/ Check \/ Sleep \/ CbEndRun
  <2>1. /\ UNCHANGED <<fixed, m_isActive, evThread, cbVars, runVars, disconnectVars, connects>>
        /\ cbThread' \in {"stopped", "top", "check", "block", "waiting", "scan", "flush", "run"}
    BY <1>1 DEF CbTop, Check, Sleep, CbEndRun
  <2>2. Rest'
    BY <2>1 DEF Rest, fixed, cbVars, disconnectVars
  <2>3. RunTypes(queue, running)'
    BY <2>1 DEF fixed, runVars, RunTypes, Placed
  <2> QED BY <2>2, <2>3
<1>2. CASE EndPass
  <2>1. PICK n \in 0 .. Len(m_cbDataSubs) :
          /\ Give("cb", Only(SubSeq(m_cbDataSubs, 1, n), due)
                          \o SubSeq(m_cbDataSubs, n + 1, Len(m_cbDataSubs)))
          /\ m_cbDataSubs' = Only(SubSeq(m_cbDataSubs, 1, n), Calls \ due)
    BY <1>2 DEF EndPass
  <2> DEFINE seen == SubSeq(m_cbDataSubs, 1, n)
             flushed == SubSeq(m_cbDataSubs, n + 1, Len(m_cbDataSubs))
  <2>2. seen \in Seq(Calls) /\ flushed \in Seq(Calls)
    BY DEF Rest
  <2> HIDE DEF seen, flushed
  <2>3. Only(seen, due) \in Seq(Calls) /\ Only(seen, Calls \ due) \in Seq(Calls)
    BY <2>2, OnlyType
  <2>4. Only(seen, due) \o flushed \in Seq(Calls)
    BY <2>2, <2>3
  <2>5. Only(seen, due) \o flushed \in Seq(Functions)
    BY <2>4, SeqMonotonic DEF Functions
  <2>6. /\ UNCHANGED <<fixed, m_isActive, evThread, due, arrived, caller, running, disconnectVars, connects>>
        /\ cbThread' = "run"
    BY <1>2 DEF EndPass
  <2>7. Rest'
    BY <2>1, <2>3, <2>6 DEF Rest, fixed, disconnectVars, seen
  <2>8. RunTypes(queue, running)'
    BY <2>1, <2>5, <2>6, GiveTypes DEF Rest, fixed, seen, flushed
  <2> QED BY <2>7, <2>8
<1> QED BY <1>1, <1>2 DEF CbStep

LEMMA EvStepTypes == ASSUME TypeInv, EvStep PROVE TypeInv'
<1> USE TypeParts, TypePartsNext
<1>1. CASE EvTop \/ EvEndRun \/ (Drain /\ ~ m_isActive)
  <2>1. /\ UNCHANGED <<fixed, m_isActive, cbThread, cbVars, runVars, disconnectVars, connects>>
        /\ evThread' \in {"stopped", "top", "drain", "run"}
    BY <1>1 DEF EvTop, EvEndRun, Drain, cbVars, runVars
  <2>2. Rest'
    BY <2>1 DEF Rest, fixed, cbVars, disconnectVars
  <2>3. RunTypes(queue, running)'
    BY <2>1 DEF fixed, runVars, RunTypes, Placed
  <2> QED BY <2>2, <2>3
<1>2. CASE Drain /\ m_isActive
  <2>1. PICK fs \in [1 .. Cardinality(arrived) -> arrived] : Give("ev", fs)
    BY <1>2 DEF Drain
  <2>2. Cardinality(arrived) \in Nat
    BY FS_CardinalityType DEF Rest
  <2>3. fs \in Seq(Functions)
    BY <2>2 DEF Rest, Functions
  <2>4. /\ UNCHANGED <<fixed, m_isActive, cbThread, m_cbDataSubs, due, caller, running,
                       disconnectVars, connects>>
        /\ arrived' = {} /\ evThread' = "run"
    BY <1>2 DEF Drain
  <2>5. IsFiniteSet(arrived')
    BY <2>4, FS_EmptySet
  <2>6. Rest'
    BY <2>4, <2>5 DEF Rest, fixed, disconnectVars
  <2>7. RunTypes(queue, running)'
    BY <2>1, <2>3, <2>4, GiveTypes DEF Rest, fixed
  <2> QED BY <2>6, <2>7
<1> QED BY <1>1, <1>2 DEF EvStep

LEMMA RunStepTypes == ASSUME TypeInv, NEW t \in Runners, RunStep(t) PROVE TypeInv'
<1> USE TypeParts, TypePartsNext
<1>1. CASE StartFunction(t)
  <2>1. /\ UNCHANGED <<fixed, m_isActive, cbThread, evThread, cbVars, disconnectVars, connects>>
        /\ queue[t] # <<>>
        /\ running' = [running EXCEPT ![t] = Head(queue[t])]
        /\ queue' = [queue EXCEPT ![t] = Tail(queue[t])]
    BY <1>1 DEF StartFunction
  <2>2. queue[t] \in Seq(Functions)
    BY DEF RunTypes
  <2>3. Head(queue[t]) \in Functions /\ Tail(queue[t]) \in Seq(Functions)
    BY <2>1, <2>2
  <2>4. Placed(queue', running')
    BY <2>1 DEF RunTypes, Placed
  <2>5. RunTypes(queue, running)'
    BY <2>1, <2>3, <2>4 DEF RunTypes, Placed, fixed
  <2>6. Rest'
    BY <2>1 DEF Rest, fixed, cbVars, disconnectVars
  <2> QED BY <2>5, <2>6
<1>2. CASE EndFunction(t)
  <2>1. /\ UNCHANGED <<fixed, m_isActive, cbThread, evThread, m_cbDataSubs, due, arrived, queue,
                       disconnectVars, connects>>
        /\ running' = [running EXCEPT ![t] = None]
        /\ \/ caller' = caller
           \/ caller' = [caller EXCEPT ![running[t]] = "returned"]
    BY <1>2 DEF EndFunction
  <2>2. RunTypes(queue, running)'
    BY <2>1 DEF RunTypes, Placed, fixed
  <2>3. Rest'
    BY <2>1 DEF Rest, fixed, disconnectVars
  <2> QED BY <2>2, <2>3
<1>3. CASE FunctionDisconnects(t)
  <2>1. Rest'
    BY <1>3 DEF FunctionDisconnects, disconnect, Rest, fixed, cbVars
  <2>2. RunTypes(queue, running)'
    BY <1>3 DEF FunctionDisconnects, disconnect, fixed, runVars, RunTypes, Placed
  <2> QED BY <2>1, <2>2
<1> QED BY <1>1, <1>2, <1>3 DEF RunStep

LEMMA PushTypes == ASSUME TypeInv, NEW c \in Calls, Push(c) PROVE TypeInv'
<1> USE TypeParts, TypePartsNext
<1>1. Rest'
  BY DEF Push, NotifyCb, Rest, fixed, disconnectVars
<1>2. RunTypes(queue, running)'
  BY DEF Push, fixed, runVars, RunTypes, Placed
<1> QED BY <1>1, <1>2

LEMMA DisconnectStepTypes == ASSUME TypeInv, DisconnectStep PROVE TypeInv'
<1> USE TypeParts, TypePartsNext
<1>1. CASE NotifyCbThread
  <2>1. Rest'
    BY <1>1 DEF NotifyCbThread, NotifyCb, Rest, fixed, cbVars
  <2>2. RunTypes(queue, running)'
    BY <1>1 DEF NotifyCbThread, fixed, runVars, RunTypes, Placed
  <2> QED BY <2>1, <2>2
<1>2. CASE JoinCb
  <2>1. Rest'
    BY <1>2 DEF JoinCb, Rest, fixed, cbVars
  <2>2. RunTypes(queue, running)'
    BY <1>2 DEF JoinCb, fixed, runVars, RunTypes, Placed
  <2> QED BY <2>1, <2>2
<1>3. CASE JoinEv
  <2>1. Rest'
    BY <1>3 DEF JoinEv, Rest, fixed, cbVars
  <2>2. RunTypes(queue, running)'
    BY <1>3 DEF JoinEv, fixed, RunTypes, Placed, Runners
  <2> QED BY <2>1, <2>2
<1> QED BY <1>1, <1>2, <1>3 DEF DisconnectStep

LEMMA TypeInvStep == ASSUME TypeInv, [Next]_vars PROVE TypeInv'
<1> USE TypeParts, TypePartsNext
<1>1. CASE CbStep \/ EvStep \/ DisconnectStep
  BY <1>1, CbStepTypes, EvStepTypes, DisconnectStepTypes
<1>2. CASE SpuriousWakeup \/ connect \/ disconnect("user")
  <2>0. connects' \in 0 .. MaxConnects
    <3>1. MaxConnects \in Nat /\ connects \in 0 .. MaxConnects
      BY ClientThreadsAssumption DEF Rest
    <3> QED BY <1>2, <3>1 DEF SpuriousWakeup, connect, disconnect
  <2>1. Rest'
    BY <1>2, <2>0 DEF SpuriousWakeup, connect, disconnect, Rest, fixed, cbVars, disconnectVars
  <2>2. RunTypes(queue, running)'
    BY <1>2 DEF SpuriousWakeup, connect, disconnect, fixed, runVars, RunTypes, Placed
  <2> QED BY <2>1, <2>2
<1>3. ASSUME NEW t \in Runners, RunStep(t) \/ FunctionPush(t) PROVE TypeInv'
  BY <1>3, RunStepTypes, PushTypes DEF FunctionPush
<1>4. ASSUME NEW c \in Calls, UserPush(c) \/ BecomesDue(c) PROVE TypeInv'
  <2>1. CASE UserPush(c)
    BY <2>1, PushTypes DEF UserPush
  <2>2. CASE BecomesDue(c)
    <3>1. Rest'
      BY <2>2 DEF BecomesDue, Rest, fixed, disconnectVars
    <3>2. RunTypes(queue, running)'
      BY <2>2 DEF BecomesDue, fixed, runVars, RunTypes, Placed
    <3> QED BY <3>1, <3>2
  <2> QED BY <1>4, <2>1, <2>2
<1>5. ASSUME NEW e \in Events, Arrive(e) PROVE TypeInv'
  <2>1. IsFiniteSet(arrived \cup {e})
    BY FS_AddElement DEF Rest
  <2>2. Rest'
    BY <1>5, <2>1 DEF Arrive, Rest, fixed, disconnectVars
  <2>3. RunTypes(queue, running)'
    BY <1>5 DEF Arrive, fixed, runVars, RunTypes, Placed
  <2> QED BY <2>2, <2>3
<1>6. CASE UNCHANGED vars
  <2>1. Rest'
    BY <1>6 DEF vars, Rest
  <2>2. RunTypes(queue, running)'
    BY <1>6 DEF vars, RunTypes, Placed
  <2> QED BY <2>1, <2>2
<1> QED BY <1>1, <1>2, <1>3, <1>4, <1>5, <1>6 DEF Next

\* Every variable of the threads keeps its type, and callbacks and events' functions
\* run on the loop if the client has one (ClientIPC.cpp:66), else on its two threads.
THEOREM ThreadTypes == Spec => []TypeOK
<1>1. TypeInv => TypeOK
  BY DEF TypeInv
<1>2. Init => TypeInv
  BY TypeInvInit
<1>3. TypeInv /\ [Next]_vars => TypeInv'
  BY TypeInvStep
<1> QED BY <1>1, <1>2, <1>3, PTL DEF Spec

=============================================================================
