---------------------------- MODULE HearingProofs ----------------------------
(***************************************************************************)
(* Listeners are given the events in the order of the notifications, for   *)
(* any number of clients, listeners and events and any size of the rings.  *)
(*                                                                         *)
(* What a client collected is a queue, of which the loop may hold the      *)
(* front: Copy appends a task, running one takes the first, and handing    *)
(* the tasks to the loop moves nothing.  A task carries what was popped    *)
(* before whatever the event thread looks at now.                          *)
(***************************************************************************)
EXTENDS EventProofs

\* The tasks of client k, those the loop holds first.
Line(k) == posted[k] \o tasks[k]

Among(s, x) == \E n \in 1 .. Len(s) : s[n] = x

\* In the sequence s, a is nowhere but before b.
Earlier(s, a, b) == \A m, n \in 1 .. Len(s) : s[m] = a /\ s[n] = b => m < n

\* x was popped before the event in view.
Passed(k, x) ==
    Among(taken[k], x) /\ (view[k] # NoView => Earlier(notified, x, view[k].event))

\* Each ring is given the events in the order of the notifications.
SentInv ==
    \A b \in Bits :
        /\ \A i \in 1 .. Len(sent[b]) : Among(notified, sent[b][i])
        /\ \A i, j \in 1 .. Len(sent[b]) : i < j => Earlier(notified, sent[b][i], sent[b][j])

\* A task is for listeners of the client that collected it.
TargetInv == \A k \in Clients : \A i \in 1 .. Len(Line(k)) : Line(k)[i].targets \subseteq Of(k)

LooplessInv == \A k \in Clients \ Looped : posted[k] = <<>>

\* Without an id nothing is collected or heard.
UnusedInv ==
    \A k \in Clients : m_evClientId[k] = NoClient =>
        Line(k) = <<>> /\ \A l \in Of(k) : heard[l] = <<>>

LineInv ==
    \A k \in Clients : Undisturbed(k) =>
        /\ view[k] # NoView => Among(taken[k], view[k].event)
        /\ \A i \in 1 .. Len(Line(k)) :
            /\ Passed(k, Line(k)[i].data)
            /\ \A l \in Line(k)[i].targets : Line(k)[i].data \in Hears[l]
        /\ \A i, j \in 1 .. Len(Line(k)) : i < j => Earlier(notified, Line(k)[i].data, Line(k)[j].data)

HeardInv ==
    \A l \in Listeners : Undisturbed(ClientOf[l]) =>
        /\ \A n \in 1 .. Len(heard[l]) : heard[l][n] \in Hears[l] /\ Passed(ClientOf[l], heard[l][n])
        /\ \A m, n \in 1 .. Len(heard[l]) : m < n => Earlier(notified, heard[l][m], heard[l][n])
        /\ \A n \in 1 .. Len(heard[l]) : \A i \in 1 .. Len(Line(ClientOf[l])) :
            Earlier(notified, heard[l][n], Line(ClientOf[l])[i].data)

HearingInv == SentInv /\ TargetInv /\ LooplessInv /\ UnusedInv /\ LineInv /\ HeardInv

-----------------------------------------------------------------------------
(* The queue of tasks *)

LEMMA LineAppend ==
    \A s, t \in Seq(Task) : \A x \in Task : s \o Append(t, x) = Append(s \o t, x)
OBVIOUS

LEMMA LineType == ASSUME TypeInv, NEW k \in Clients PROVE Line(k) \in Seq(Task)
BY DEF TypeInv, TypeOK, ThreadTypeOK, Line

\* The first of t goes away.
LEMMA TailAt ==
    ASSUME NEW t \in Seq(Task), t # <<>>
    PROVE  /\ Len(Tail(t)) \in Nat
           /\ \A i \in 1 .. Len(Tail(t)) : i + 1 \in 1 .. Len(t) /\ Tail(t)[i] = t[i + 1]
           /\ 1 \in 1 .. Len(t) /\ Head(t) = t[1]
<1>1. Len(Tail(t)) = Len(t) - 1 /\ \A i \in 1 .. Len(t) - 1 : Tail(t)[i] = t[i + 1]
  OBVIOUS
<1> QED BY <1>1

LEMMA AppendAt ==
    ASSUME NEW t \in Seq(Task), NEW x \in Task
    PROVE  /\ Append(t, x)[Len(t) + 1] = x
           /\ \A i \in 1 .. Len(t) : Append(t, x)[i] = t[i]
           /\ \A i \in 1 .. Len(Append(t, x)) : i \in 1 .. Len(t) \/ i = Len(t) + 1
           /\ Len(t) \in Nat
OBVIOUS

\* Without a loop the thread's tasks are the client's.
LEMMA LooplessLine ==
    ASSUME TypeInv, LooplessInv, NEW k \in Clients, k \notin Looped
    PROVE  Line(k) = tasks[k]
<1>1. posted[k] = <<>> /\ tasks[k] \in Seq(Task)
  BY DEF LooplessInv, TypeInv, TypeOK, ThreadTypeOK
<1>2. PICK s \in Seq(Task) : s = tasks[k]
  BY <1>1
<1>3. <<>> \o s = s
  OBVIOUS
<1> QED BY <1>1, <1>2, <1>3 DEF Line

-----------------------------------------------------------------------------
(* What was popped was sent, before what is still in the ring *)

LEMMA TookSent ==
    ASSUME TypeInv, EventsInOrder, SentInv, NEW k \in Clients, Undisturbed(k), NEW x, Among(taken[k], x)
    PROVE  /\ Among(notified, x)
           /\ Contents(RingOf(k)) # <<>> => Earlier(notified, x, Head(Contents(RingOf(k))))
<1> DEFINE b == m_evClientId[k]
           s == taken[k]
           r == Contents(RingOf(k))
<1>1. b \in Bits /\ s \in Seq(Events) /\ r \in Seq(Events)
  BY DEF Undisturbed, TypeInv, TypeOK, ClientTypeOK, HistoryTypeOK, RingsFilled, RingOf
<1>2. sent[b] = s \o r
  BY DEF EventsInOrder
<1>3. PICK n \in 1 .. Len(s) : s[n] = x
  BY DEF Among
<1> HIDE DEF b, s, r
<1>4. sent[b][n] = x /\ n \in 1 .. Len(sent[b])
  BY <1>1, <1>2, <1>3
<1>5. CASE r # <<>>
  <2>1. /\ sent[b][Len(s) + 1] = Head(r) /\ Len(s) + 1 \in 1 .. Len(sent[b])
        /\ n < Len(s) + 1
    BY <1>1, <1>2, <1>3, <1>5
  <2>2. Earlier(notified, x, Head(r))
    BY <1>1, <1>4, <2>1 DEF SentInv
  <2> QED BY <1>1, <1>4, <2>2 DEF SentInv, r
<1>6. CASE r = <<>>
  BY <1>1, <1>4, <1>6 DEF SentInv, r
<1> QED BY <1>5, <1>6

-----------------------------------------------------------------------------
(* The steps *)

\* Steps that move no event; ids may have been given back.
LEMMA QuietHearing ==
    ASSUME HearingInv, UNCHANGED <<m_evClientId, view, notified, sent, taken, heard>>,
           unregistered \subseteq unregistered', LooplessInv',
           \A k \in Clients : Line(k)' = Line(k)
    PROVE  HearingInv'
<1>1. \A k \in Clients : Undisturbed(k)' => Undisturbed(k)
  BY DEF Undisturbed
<1>2. \A a, b : Earlier(notified', a, b) <=> Earlier(notified, a, b)
  BY DEF Earlier
<1>3. \A k \in Clients : \A x : Passed(k, x) => Passed(k, x)'
  BY <1>2 DEF Passed
<1>4. SentInv'
  BY <1>2 DEF HearingInv, SentInv
<1>5. TargetInv' /\ UnusedInv'
  BY DEF HearingInv, TargetInv, UnusedInv
<1>6. LineInv'
  BY <1>1, <1>2, <1>3 DEF HearingInv, LineInv
<1>7. HeardInv'
  BY <1>1, <1>2, <1>3, EventDeliveryAssumption DEF HearingInv, HeardInv
<1> QED BY <1>4, <1>5, <1>6, <1>7 DEF HearingInv

LEMMA NotifyHearing ==
    ASSUME TypeInv, DeliveryInv, HearingInv, NEW e \in Events, Notify(e) PROVE HearingInv'
<1> USE DEF TypeInv, TypeOK, HistoryTypeOK, clientVars, threadVars
<1>1. /\ ~ Among(notified, e) /\ notified' = Append(notified, e) /\ notified \in Seq(Events)
      /\ UNCHANGED <<m_evClientId, unregistered, view, taken, heard, posted, tasks>>
      /\ \A b \in Bits : sent'[b] \in {sent[b], Append(sent[b], e)} /\ sent[b] \in Seq(Events)
  BY DEF Notify, Sent, Among
<1>2. /\ Len(notified') = Len(notified) + 1 /\ Len(notified) \in Nat
      /\ \A n \in 1 .. Len(notified) : notified'[n] = notified[n] /\ notified[n] # e
      /\ notified'[Len(notified) + 1] = e
  BY <1>1 DEF Among
<1>3. \A a, b : a # e /\ Earlier(notified, a, b) => Earlier(notified', a, b)
  BY <1>2 DEF Earlier
<1>4. \A a : a # e => Earlier(notified', a, e)
  BY <1>2 DEF Earlier
<1>5. \A a : Among(notified, a) => a # e /\ Among(notified', a)
  BY <1>1, <1>2 DEF Among
<1>6. Among(notified', e)
  BY <1>1, <1>2 DEF Among
<1>7. \A k \in Clients : (Undisturbed(k)' <=> Undisturbed(k)) /\ Line(k)' = Line(k)
  BY <1>1 DEF Undisturbed, Line
<1>8. \A k \in Clients : \A x : Undisturbed(k) /\ Among(taken[k], x) => Among(taken'[k], x) /\ x # e
  BY <1>1, <1>5, TookSent DEF DeliveryInv, HearingInv
<1>9. \A k \in Clients : \A x : Undisturbed(k) /\ Passed(k, x) => Passed(k, x)' /\ x # e
  BY <1>1, <1>3, <1>8 DEF Passed
<1>10. SentInv'
  <2> SUFFICES ASSUME NEW b \in Bits
               PROVE  /\ \A i \in 1 .. Len(sent'[b]) : Among(notified', sent'[b][i])
                      /\ \A i, j \in 1 .. Len(sent'[b]) :
                            i < j => Earlier(notified', sent'[b][i], sent'[b][j])
    BY DEF SentInv
  <2>1. /\ \A i \in 1 .. Len(sent[b]) : Among(notified', sent[b][i]) /\ sent[b][i] # e
        /\ \A i, j \in 1 .. Len(sent[b]) : i < j => Earlier(notified', sent[b][i], sent[b][j])
    BY <1>3, <1>5 DEF HearingInv, SentInv
  <2>2. CASE sent'[b] = Append(sent[b], e)
    <3>1. /\ \A i \in 1 .. Len(sent[b]) : sent'[b][i] = sent[b][i]
          /\ sent'[b][Len(sent[b]) + 1] = e /\ Len(sent[b]) \in Nat
          /\ \A i \in 1 .. Len(sent'[b]) : i \in 1 .. Len(sent[b]) \/ i = Len(sent[b]) + 1
      BY <1>1, <2>2
    <3>2. \A i \in 1 .. Len(sent'[b]) : Among(notified', sent'[b][i])
      BY <1>6, <2>1, <3>1
    <3>3. ASSUME NEW i \in 1 .. Len(sent'[b]), NEW j \in 1 .. Len(sent'[b]), i < j
          PROVE  Earlier(notified', sent'[b][i], sent'[b][j])
      <4>1. i \in 1 .. Len(sent[b])
        BY <3>1, <3>3
      <4>2. CASE j \in 1 .. Len(sent[b])
        BY <2>1, <3>1, <3>3, <4>1, <4>2
      <4>3. CASE j = Len(sent[b]) + 1
        BY <1>4, <2>1, <3>1, <4>1, <4>3
      <4> QED BY <3>1, <4>2, <4>3
    <3> QED BY <3>2, <3>3
  <2>3. CASE sent'[b] = sent[b]
    BY <2>1, <2>3
  <2> QED BY <1>1, <2>2, <2>3
<1>11. TargetInv' /\ LooplessInv' /\ UnusedInv'
  BY <1>1, <1>7 DEF HearingInv, TargetInv, LooplessInv, UnusedInv
<1>12. LineInv'
  BY <1>1, <1>3, <1>7, <1>8, <1>9 DEF HearingInv, LineInv
<1>13. HeardInv'
  BY <1>1, <1>3, <1>7, <1>9, EventDeliveryAssumption DEF HearingInv, HeardInv
<1> QED BY <1>10, <1>11, <1>12, <1>13 DEF HearingInv

\* A client that gets an id has collected nothing and heard nothing.
LEMMA RegisterHearing ==
    ASSUME TypeInv, DeliveryInv, HearingInv, NEW k \in Clients, m_evClientId[k] = NoClient,
           Register(k), UNCHANGED <<unregistered, view, notified, taken, heard, posted, tasks>>
    PROVE  HearingInv'
<1>1. \A j \in Clients : Line(j)' = Line(j)
  BY DEF Line
<1>2. LooplessInv'
  BY DEF HearingInv, LooplessInv
<1>3. CASE UNCHANGED <<eventSpaceVars, m_evClientId, sent>>
  BY <1>1, <1>2, <1>3, QuietHearing
<1>4. ASSUME NEW b \in Bits, m_evClientId' = [m_evClientId EXCEPT ![k] = b],
             sent' = [sent EXCEPT ![b] = <<>>]
      PROVE  HearingInv'
  <2>1. /\ \A j \in Clients \ {k} : m_evClientId'[j] = m_evClientId[j]
        /\ m_evClientId'[k] # NoClient
        /\ sent'[b] = <<>> /\ \A a \in Bits \ {b} : sent'[a] = sent[a]
    BY <1>4, EventDeliveryAssumption DEF TypeInv, TypeOK, ClientTypeOK, HistoryTypeOK
  <2>2. \A j \in Clients \ {k} : Undisturbed(j)' => Undisturbed(j)
    BY <2>1 DEF Undisturbed
  <2>3. \A j \in Clients : \A x : Passed(j, x) => Passed(j, x)'
    BY DEF Passed
  <2>4. view[k] = NoView /\ Line(k) = <<>> /\ \A l \in Of(k) : heard[l] = <<>>
    BY DEF TypeInv, IdInv, ViewInv, HearingInv, UnusedInv
  <2>5. SentInv'
    BY <2>1 DEF HearingInv, SentInv
  <2>6. TargetInv' /\ UnusedInv'
    BY <1>1, <2>1 DEF HearingInv, TargetInv, UnusedInv
  <2>7. LineInv'
    BY <1>1, <2>2, <2>3, <2>4 DEF HearingInv, LineInv
  <2>8. HeardInv'
    <3> SUFFICES ASSUME NEW l \in Listeners, Undisturbed(ClientOf[l])'
                 PROVE  HeardInv!(l)'
      BY DEF HeardInv
    <3>1. CASE ClientOf[l] = k
      <4>1. heard'[l] = <<>>
        BY <2>4, <3>1 DEF Of
      <4> QED BY <4>1
    <3>2. CASE ClientOf[l] # k
      BY <1>1, <2>2, <2>3, <3>2, EventDeliveryAssumption DEF HearingInv, HeardInv
    <3> QED BY <3>1, <3>2
  <2> QED BY <1>2, <2>5, <2>6, <2>7, <2>8 DEF HearingInv
<1> QED BY <1>3, <1>4 DEF Register

\* What was popped before is ahead of what is in the ring.
LEMMA PopHearing ==
    ASSUME TypeInv, DeliveryInv, HearingInv, NEW k \in Clients, Pop(k) PROVE HearingInv'
<1> USE DEF TypeInv, TypeOK, clientVars
<1> DEFINE b == m_evClientId[k]
           e == front(m_clients[b])
<1>1. /\ view' = [view EXCEPT ![k] = [event |-> e, slot |-> m_clients[b].m_read]]
      /\ taken' = [taken EXCEPT ![k] = Append(@, e)]
      /\ UNCHANGED <<m_evClientId, unregistered, notified, sent, heard, posted, tasks>>
  BY DEF Pop
<1>2. e \in Events /\ ~ isEmpty(m_clients[b]) /\ m_clients[b] \in Ring
  BY PopType DEF Pop, pop, HasEvent, IdInv, ClientTypeOK, EventSpaceTypeOK
<1>3. Contents(RingOf(k)) # <<>> /\ e = Head(Contents(RingOf(k)))
  BY <1>2, PopContents DEF RingOf
<1> HIDE DEF b, e
<1>4. /\ view'[k].event = e /\ taken'[k] = Append(taken[k], e) /\ taken[k] \in Seq(Events)
      /\ \A j \in Clients \ {k} : view'[j] = view[j] /\ taken'[j] = taken[j]
  BY <1>1 DEF ThreadTypeOK, HistoryTypeOK
<1>5. \A x : Among(taken[k], x) => Among(taken'[k], x)
  BY <1>2, <1>4 DEF Among
<1>6. Among(taken'[k], e)
  <2>1. Len(taken'[k]) = Len(taken[k]) + 1 /\ taken'[k][Len(taken[k]) + 1] = e
        /\ Len(taken[k]) \in Nat
    BY <1>2, <1>4
  <2> QED BY <2>1 DEF Among
<1>7. \A j \in Clients : (Undisturbed(j)' <=> Undisturbed(j)) /\ Line(j)' = Line(j)
  BY <1>1 DEF Undisturbed, Line
<1>8. ASSUME NEW j \in Clients, Undisturbed(j), NEW x, Passed(j, x) PROVE Passed(j, x)'
  <2>1. CASE j = k
    <3>1. Earlier(notified, x, e)
      BY <1>3, <1>8, <2>1, TookSent DEF DeliveryInv, HearingInv, Passed
    <3> QED BY <1>1, <1>4, <1>5, <1>8, <2>1, <3>1 DEF Passed
  <2>2. CASE j # k
    BY <1>1, <1>4, <1>8, <2>2 DEF Passed
  <2> QED BY <2>1, <2>2
<1>9. SentInv' /\ TargetInv' /\ LooplessInv' /\ UnusedInv'
  BY <1>1, <1>7 DEF HearingInv, SentInv, TargetInv, LooplessInv, UnusedInv
<1>10. ASSUME NEW j \in Clients, Undisturbed(j), view'[j] # NoView
       PROVE  Among(taken'[j], view'[j].event)
  BY <1>4, <1>6, <1>10 DEF HearingInv, LineInv
<1>11. LineInv'
  BY <1>1, <1>7, <1>8, <1>10 DEF HearingInv, LineInv
<1>12. HeardInv'
  BY <1>1, <1>7, <1>8, EventDeliveryAssumption DEF HearingInv, HeardInv
<1> QED BY <1>9, <1>11, <1>12 DEF HearingInv

\* The payload in the task is the event in view, behind all the others.
LEMMA CopyHearing ==
    ASSUME TypeInv, DeliveryInv, HearingInv, NEW k \in Clients, Copy(k) PROVE HearingInv'
<1> USE DEF TypeInv, TypeOK, clientVars, historyVars
<1> DEFINE e == view[k].event
           d == m_clients[m_evClientId[k]].m_storage[view[k].slot]
           made == [event |-> e, data |-> d, targets |-> Targets(k, e)]
<1>1. /\ view' = [view EXCEPT ![k] = NoView] /\ view[k] # NoView /\ m_evClientId[k] # NoClient
      /\ tasks' \in {tasks, [tasks EXCEPT ![k] = Append(@, made)]}
      /\ UNCHANGED <<m_evClientId, unregistered, notified, sent, taken, heard, posted>>
  BY DEF Copy, Queued, ViewInv, IdInv
<1>2. made \in Task
  <2>1. view[k] \in View /\ m_evClientId[k] \in Bits
    BY <1>1 DEF ThreadTypeOK, ClientTypeOK
  <2>2. e \in Events /\ d \in Events \cup {NoEvent}
    BY <2>1 DEF View, EventSpaceTypeOK, Ring
  <2> QED BY <2>2 DEF Task, Targets, Of
<1>t. PICK t \in Task : t = made
  BY <1>2
<1>3. t.targets \subseteq Of(k) /\ \A l \in t.targets : e \in Hears[l]
  BY <1>t DEF Targets
<1>4. Undisturbed(k) => t.data = e
  BY <1>1, <1>t DEF DeliveryInv, BehindInv, RingOf
<1> HIDE DEF made
<1>5. \A j \in Clients : Undisturbed(j)' <=> Undisturbed(j)
  BY <1>1 DEF Undisturbed
<1>6. \A j \in Clients : view'[j] \in {view[j], NoView}
  BY <1>1 DEF ThreadTypeOK
<1>7. \A j \in Clients : \A x : Passed(j, x) => Passed(j, x)'
  BY <1>1, <1>6 DEF Passed
<1>8. SentInv' /\ LooplessInv'
  BY <1>1 DEF HearingInv, SentInv, LooplessInv
<1>9. CASE tasks' = tasks
  <2>1. \A j \in Clients : Line(j)' = Line(j)
    BY <1>1, <1>9 DEF Line
  <2>2. TargetInv' /\ UnusedInv'
    BY <1>1, <2>1 DEF HearingInv, TargetInv, UnusedInv
  <2>3. LineInv'
    BY <1>1, <1>5, <1>6, <1>7, <2>1 DEF HearingInv, LineInv
  <2>4. HeardInv'
    BY <1>1, <1>5, <1>7, <2>1, EventDeliveryAssumption DEF HearingInv, HeardInv
  <2> QED BY <1>8, <2>2, <2>3, <2>4 DEF HearingInv
<1>10. CASE tasks' = [tasks EXCEPT ![k] = Append(@, t)]
  <2>1. \A j \in Clients \ {k} : Line(j)' = Line(j)
    BY <1>1, <1>10 DEF Line, ThreadTypeOK
  <2>2. Line(k)' = Append(Line(k), t)
    <3>1. /\ tasks'[k] = Append(tasks[k], t) /\ posted'[k] = posted[k]
          /\ tasks[k] \in Seq(Task) /\ posted[k] \in Seq(Task)
      BY <1>1, <1>10 DEF ThreadTypeOK
    <3>2. posted[k] \o Append(tasks[k], t) = Append(posted[k] \o tasks[k], t)
      BY <3>1, LineAppend, Zenon
    <3> QED BY <3>1, <3>2 DEF Line
  <2>3. /\ Line(k)'[Len(Line(k)) + 1] = t
        /\ \A i \in 1 .. Len(Line(k)) : Line(k)'[i] = Line(k)[i]
        /\ \A i \in 1 .. Len(Line(k)') : i \in 1 .. Len(Line(k)) \/ i = Len(Line(k)) + 1
        /\ Len(Line(k)) \in Nat
    BY <2>2, LineType, AppendAt
  <2>4. TargetInv'
    BY <1>3, <2>1, <2>3 DEF HearingInv, TargetInv
  <2>5. UnusedInv'
    BY <1>1, <2>1 DEF HearingInv, UnusedInv
  <2>6. ASSUME Undisturbed(k)
        PROVE  /\ Passed(k, t.data)'
               /\ \A i \in 1 .. Len(Line(k)) : Earlier(notified, Line(k)[i].data, t.data)
               /\ \A l \in Of(k) : \A n \in 1 .. Len(heard[l]) : Earlier(notified, heard[l][n], t.data)
    <3>1. t.data = e /\ Among(taken[k], e) /\ view'[k] = NoView
      BY <1>1, <1>4, <2>6 DEF HearingInv, LineInv, ThreadTypeOK
    <3>2. \A i \in 1 .. Len(Line(k)) : Earlier(notified, Line(k)[i].data, e)
      BY <1>1, <2>6 DEF HearingInv, LineInv, Passed
    <3>3. \A l \in Of(k) : \A n \in 1 .. Len(heard[l]) : Earlier(notified, heard[l][n], e)
      BY <1>1, <2>6 DEF HearingInv, HeardInv, Passed, Of
    <3>4. Passed(k, t.data)'
      BY <1>1, <3>1 DEF Passed
    <3> QED BY <3>1, <3>2, <3>3, <3>4
  <2>7. LineInv'
    <3> SUFFICES ASSUME NEW j \in Clients, Undisturbed(j)'
                 PROVE  LineInv!(j)'
      BY DEF LineInv
    <3>1. CASE j # k
      BY <1>1, <1>5, <1>6, <1>7, <2>1, <3>1 DEF HearingInv, LineInv
    <3>2. CASE j = k
      <4>1. ASSUME NEW i \in 1 .. Len(Line(k)')
            PROVE  /\ Passed(k, Line(k)[i].data)'
                   /\ \A l \in Line(k)'[i].targets : Line(k)'[i].data \in Hears[l]
        <5>1. CASE i \in 1 .. Len(Line(k))
          BY <1>5, <1>7, <2>3, <3>2, <5>1 DEF HearingInv, LineInv
        <5>2. CASE i = Len(Line(k)) + 1
          BY <1>3, <1>4, <1>5, <2>3, <2>6, <3>2, <5>2
        <5> QED BY <2>3, <4>1, <5>1, <5>2
      <4>2. ASSUME NEW i \in 1 .. Len(Line(k)'), NEW m \in 1 .. Len(Line(k)'), i < m
            PROVE  Earlier(notified', Line(k)'[i].data, Line(k)'[m].data)
        <5>1. i \in 1 .. Len(Line(k))
          BY <2>3, <4>2
        <5>2. CASE m \in 1 .. Len(Line(k))
          BY <1>1, <1>5, <2>3, <3>2, <4>2, <5>1, <5>2 DEF HearingInv, LineInv
        <5>3. CASE m = Len(Line(k)) + 1
          BY <1>1, <1>5, <2>3, <2>6, <3>2, <5>1, <5>3
        <5> QED BY <2>3, <4>2, <5>2, <5>3
      <4>3. view'[k] = NoView
        BY <1>1 DEF ThreadTypeOK
      <4> QED BY <3>2, <4>1, <4>2, <4>3
    <3> QED BY <3>1, <3>2
  <2>8. HeardInv'
    <3> SUFFICES ASSUME NEW l \in Listeners, Undisturbed(ClientOf[l])'
                 PROVE  HeardInv!(l)'
      BY DEF HeardInv
    <3>1. /\ \A n \in 1 .. Len(heard'[l]) : heard'[l][n] \in Hears[l] /\ Passed(ClientOf[l], heard[l][n])'
          /\ \A m, n \in 1 .. Len(heard'[l]) : m < n => Earlier(notified', heard'[l][m], heard'[l][n])
      BY <1>1, <1>5, <1>7, EventDeliveryAssumption DEF HearingInv, HeardInv
    <3>2. ASSUME NEW n \in 1 .. Len(heard[l]), NEW i \in 1 .. Len(Line(ClientOf[l])')
          PROVE  Earlier(notified, heard[l][n], Line(ClientOf[l])'[i].data)
      <4>0. Undisturbed(ClientOf[l]) /\ ClientOf[l] \in Clients
        BY <1>5, EventDeliveryAssumption
      <4>1. CASE ClientOf[l] # k
        BY <2>1, <3>2, <4>0, <4>1 DEF HearingInv, HeardInv
      <4>2. CASE ClientOf[l] = k /\ i \in 1 .. Len(Line(k))
        BY <2>3, <3>2, <4>0, <4>2 DEF HearingInv, HeardInv
      <4>3. CASE ClientOf[l] = k /\ i = Len(Line(k)) + 1
        BY <2>3, <2>6, <3>2, <4>0, <4>3 DEF Of
      <4> QED BY <2>3, <3>2, <4>1, <4>2, <4>3
    <3> QED BY <1>1, <3>1, <3>2
  <2> QED BY <1>8, <2>4, <2>5, <2>7, <2>8 DEF HearingInv
<1> QED BY <1>1, <1>t, <1>9, <1>10

\* The first task of the client is run: its listeners hear what comes before the rest.
LEMMA RunHearing ==
    ASSUME TypeInv, HearingInv, LooplessInv', NEW k \in Clients, NEW t \in Task, Line(k) # <<>>,
           t = Head(Line(k)), Run(t), Line(k)' = Tail(Line(k)),
           \A j \in Clients \ {k} : Line(j)' = Line(j),
           UNCHANGED <<m_evClientId, unregistered, view, notified, sent, taken>>
    PROVE  HearingInv'
<1>1. /\ \A i \in 1 .. Len(Line(k)') : i + 1 \in 1 .. Len(Line(k)) /\ Line(k)'[i] = Line(k)[i + 1]
      /\ 1 \in 1 .. Len(Line(k)) /\ t = Line(k)[1] /\ Len(Line(k)') \in Nat
  BY LineType, TailAt
<1>2. \A j \in Clients : Undisturbed(j)' <=> Undisturbed(j)
  BY DEF Undisturbed
<1>3. \A j \in Clients : \A x : Passed(j, x) => Passed(j, x)'
  BY DEF Passed
<1>4. t.targets \subseteq Of(k)
  BY <1>1 DEF HearingInv, TargetInv
<1>5. \A l \in Listeners :
        /\ heard'[l] = IF l \in t.targets THEN Append(heard[l], t.data) ELSE heard[l]
        /\ heard[l] \in Seq(Events \cup {NoEvent})
  BY DEF Run, TypeInv, TypeOK, HistoryTypeOK
<1>6. SentInv'
  BY DEF HearingInv, SentInv
<1>7. TargetInv'
  BY <1>1 DEF HearingInv, TargetInv
<1>8. UnusedInv'
  <2>1. \A j \in Clients : m_evClientId[j] = NoClient => j # k
    BY DEF HearingInv, UnusedInv
  <2>2. \A j \in Clients \ {k} : \A l \in Of(j) : heard'[l] = heard[l]
    BY <1>4, <1>5 DEF Of
  <2> QED BY <2>1, <2>2 DEF HearingInv, UnusedInv
<1>9. LineInv'
  <2> SUFFICES ASSUME NEW j \in Clients, Undisturbed(j)'
               PROVE  LineInv!(j)'
    BY DEF LineInv
  <2>1. CASE j # k
    BY <1>2, <1>3, <2>1 DEF HearingInv, LineInv
  <2>2. CASE j = k
    <3>1. \A i \in 1 .. Len(Line(k)') :
              /\ Passed(k, Line(k)[i].data)'
              /\ \A l \in Line(k)'[i].targets : Line(k)'[i].data \in Hears[l]
      BY <1>1, <1>2, <1>3, <2>2 DEF HearingInv, LineInv
    <3>2. \A i, m \in 1 .. Len(Line(k)') :
              i < m => Earlier(notified', Line(k)'[i].data, Line(k)'[m].data)
      BY <1>1, <1>2, <2>2 DEF HearingInv, LineInv
    <3> QED BY <1>2, <2>2, <3>1, <3>2 DEF HearingInv, LineInv
  <2> QED BY <2>1, <2>2
<1>10. HeardInv'
  <2> SUFFICES ASSUME NEW l \in Listeners, Undisturbed(ClientOf[l])'
               PROVE  HeardInv!(l)'
    BY DEF HeardInv
  <2>0. Undisturbed(ClientOf[l]) /\ ClientOf[l] \in Clients
    BY <1>2, EventDeliveryAssumption
  <2>1. CASE ClientOf[l] # k
    <3>1. heard'[l] = heard[l]
      BY <1>4, <1>5, <2>1 DEF Of
    <3> QED BY <1>3, <2>0, <2>1, <3>1 DEF HearingInv, HeardInv
  <2>2. CASE ClientOf[l] = k /\ l \notin t.targets
    <3>1. heard'[l] = heard[l]
      BY <1>5, <2>2
    <3>2. \A n \in 1 .. Len(heard[l]) : \A i \in 1 .. Len(Line(k)') :
              Earlier(notified', heard[l][n], Line(k)'[i].data)
      BY <1>1, <2>0, <2>2 DEF HearingInv, HeardInv
    <3> QED BY <1>3, <2>0, <2>2, <3>1, <3>2 DEF HearingInv, HeardInv
  <2>3. CASE ClientOf[l] = k /\ l \in t.targets
    <3>1. /\ \A n \in 1 .. Len(heard[l]) : heard'[l][n] = heard[l][n]
          /\ heard'[l][Len(heard[l]) + 1] = t.data
          /\ \A n \in 1 .. Len(heard'[l]) : n \in 1 .. Len(heard[l]) \/ n = Len(heard[l]) + 1
          /\ Len(heard[l]) \in Nat
      <4>1. PICK d \in Events \cup {NoEvent} : d = t.data
        BY DEF Task
      <4>2. heard'[l] = Append(heard[l], d) /\ heard[l] \in Seq(Events \cup {NoEvent})
        BY <1>5, <2>3, <4>1
      <4> QED BY <4>1, <4>2
    <3>2. /\ t.data \in Hears[l] /\ Passed(k, t.data)
          /\ \A i \in 1 .. Len(Line(k)') : Earlier(notified', t.data, Line(k)'[i].data)
      <4>1. t.data \in Hears[l] /\ Passed(k, t.data)
        BY <1>1, <2>0, <2>3 DEF HearingInv, LineInv
      <4>2. \A i \in 2 .. Len(Line(k)) : Earlier(notified, t.data, Line(k)[i].data)
        BY <1>1, <2>0, <2>3 DEF HearingInv, LineInv
      <4>3. \A i \in 1 .. Len(Line(k)') : i + 1 \in 2 .. Len(Line(k)) /\ Line(k)'[i] = Line(k)[i + 1]
        BY <1>1
      <4> QED BY <4>1, <4>2, <4>3
    <3>3. ASSUME NEW n \in 1 .. Len(heard'[l])
          PROVE  heard'[l][n] \in Hears[l] /\ Passed(k, heard[l][n])'
      <4>1. CASE n \in 1 .. Len(heard[l])
        BY <1>3, <2>0, <2>3, <3>1, <4>1 DEF HearingInv, HeardInv
      <4>2. CASE n = Len(heard[l]) + 1
        BY <1>3, <3>1, <3>2, <4>2
      <4> QED BY <3>1, <4>1, <4>2
    <3>4. ASSUME NEW m \in 1 .. Len(heard'[l]), NEW n \in 1 .. Len(heard'[l]), m < n
          PROVE  Earlier(notified', heard'[l][m], heard'[l][n])
      <4>1. m \in 1 .. Len(heard[l])
        BY <3>1, <3>4
      <4>2. CASE n \in 1 .. Len(heard[l])
        BY <2>0, <3>1, <3>4, <4>1, <4>2 DEF HearingInv, HeardInv
      <4>3. CASE n = Len(heard[l]) + 1
        BY <1>1, <2>0, <2>3, <3>1, <4>1, <4>3 DEF HearingInv, HeardInv
      <4> QED BY <3>1, <4>2, <4>3
    <3>5. ASSUME NEW n \in 1 .. Len(heard'[l]), NEW i \in 1 .. Len(Line(k)')
          PROVE  Earlier(notified', heard'[l][n], Line(k)'[i].data)
      <4>1. CASE n \in 1 .. Len(heard[l])
        BY <1>1, <2>0, <2>3, <3>1, <4>1 DEF HearingInv, HeardInv
      <4>2. CASE n = Len(heard[l]) + 1
        BY <3>1, <3>2, <4>2
      <4> QED BY <3>1, <4>1, <4>2
    <3> QED BY <2>3, <3>3, <3>4, <3>5
  <2> QED BY <2>1, <2>2, <2>3
<1> QED BY <1>6, <1>7, <1>8, <1>9, <1>10 DEF HearingInv

LEMMA RunTaskHearing ==
    ASSUME TypeInv, HearingInv, NEW k \in Clients, RunTask(k) PROVE HearingInv'
<1>1. /\ k \notin Looped /\ tasks[k] # <<>> /\ tasks[k] \in Seq(Task)
      /\ Run(Head(tasks[k])) /\ tasks' = [tasks EXCEPT ![k] = Tail(@)]
      /\ UNCHANGED <<m_evClientId, unregistered, view, notified, sent, taken, posted>>
  BY DEF RunTask, clientVars, TypeInv, TypeOK, ThreadTypeOK
<1>2. PICK t \in Task : t = Head(tasks[k])
  BY <1>1
<1>3. LooplessInv'
  BY <1>1 DEF HearingInv, LooplessInv
<1>4. Line(k) = tasks[k] /\ Line(k)' = tasks'[k]
  <2>1. TypeInv'
    BY ThreadType DEF ThreadStep
  <2>2. posted'[k] = <<>> /\ tasks'[k] \in Seq(Task)
    BY <1>1, <1>3, <2>1 DEF LooplessInv, TypeInv, TypeOK, ThreadTypeOK
  <2>3. PICK s \in Seq(Task) : s = tasks'[k]
    BY <2>2
  <2>4. <<>> \o s = s
    OBVIOUS
  <2> QED BY <1>1, <2>2, <2>3, <2>4, LooplessLine DEF Line, HearingInv
<1>5. \A j \in Clients \ {k} : Line(j)' = Line(j)
  BY <1>1 DEF Line, TypeInv, TypeOK, ThreadTypeOK
<1>6. tasks'[k] = Tail(tasks[k])
  BY <1>1 DEF TypeInv, TypeOK, ThreadTypeOK
<1> QED BY <1>1, <1>2, <1>3, <1>4, <1>5, <1>6, RunHearing

LEMMA RunPostedHearing ==
    ASSUME TypeInv, HearingInv, NEW k \in Clients, RunPosted(k) PROVE HearingInv'
<1>1. /\ posted[k] # <<>> /\ posted[k] \in Seq(Task) /\ tasks[k] \in Seq(Task)
      /\ Run(Head(posted[k])) /\ posted' = [posted EXCEPT ![k] = Tail(@)]
      /\ UNCHANGED <<m_evClientId, unregistered, view, notified, sent, taken, tasks>>
  BY DEF RunPosted, clientVars, TypeInv, TypeOK, ThreadTypeOK
<1>2. PICK t \in Task : t = Head(posted[k])
  BY <1>1
<1>3. \A j \in Clients : posted'[j] = IF j = k THEN Tail(posted[k]) ELSE posted[j]
  BY <1>1 DEF TypeInv, TypeOK, ThreadTypeOK
<1>4. LooplessInv'
  BY <1>1, <1>3 DEF HearingInv, LooplessInv
<1>5. Line(k) # <<>> /\ Head(Line(k)) = t /\ Line(k)' = Tail(Line(k))
  <2>1. PICK s, u \in Seq(Task) : s = posted[k] /\ u = tasks[k]
    BY <1>1
  <2>2. s # <<>> /\ Line(k) = s \o u /\ Line(k)' = Tail(s) \o u /\ t = Head(s)
    BY <1>1, <1>2, <1>3, <2>1 DEF Line
  <2> QED BY <2>2
<1>6. \A j \in Clients \ {k} : Line(j)' = Line(j)
  BY <1>1, <1>3 DEF Line
<1> QED BY <1>1, <1>2, <1>4, <1>5, <1>6, RunHearing

\* Handing the tasks to the loop moves none of them in the queue.
LEMMA EndRunHearing ==
    ASSUME TypeInv, HearingInv, NEW k \in Clients, EndRun(k) PROVE HearingInv'
<1>1. /\ posted[k] \in Seq(Task) /\ tasks[k] \in Seq(Task)
      /\ tasks[k] = <<>> \/ k \in Looped
      /\ posted' = [posted EXCEPT ![k] = @ \o tasks[k]] /\ tasks' = [tasks EXCEPT ![k] = <<>>]
      /\ UNCHANGED <<m_evClientId, unregistered, view, notified, sent, taken, heard>>
  BY DEF EndRun, clientVars, historyVars, TypeInv, TypeOK, ThreadTypeOK
<1>2. \A j \in Clients :
        /\ posted'[j] = IF j = k THEN posted[k] \o tasks[k] ELSE posted[j]
        /\ tasks'[j] = IF j = k THEN <<>> ELSE tasks[j]
  BY <1>1 DEF TypeInv, TypeOK, ThreadTypeOK
<1>3. Line(k)' = Line(k)
  <2>1. PICK s, u \in Seq(Task) : s = posted[k] /\ u = tasks[k]
    BY <1>1
  <2>2. (s \o u) \o <<>> = s \o u
    OBVIOUS
  <2> QED BY <1>2, <2>1, <2>2 DEF Line
<1>4. \A j \in Clients : Line(j)' = Line(j)
  BY <1>2, <1>3 DEF Line
<1>5. LooplessInv'
  <2>1. k \notin Looped => posted[k] \o tasks[k] = <<>>
    BY <1>1 DEF HearingInv, LooplessInv
  <2> QED BY <1>2, <2>1 DEF HearingInv, LooplessInv
<1> QED BY <1>1, <1>4, <1>5, QuietHearing

LEMMA NextHearing ==
    ASSUME TypeInv, DeliveryInv, HearingInv, [Next]_vars PROVE HearingInv'
<1> USE DEF eventSpaceVars, clientVars, threadVars, listenerVars, historyVars
<1>1. ASSUME UNCHANGED <<m_evClientId, view, tasks, posted, notified, sent, taken, heard>>,
             unregistered \subseteq unregistered'
      PROVE  HearingInv'
  <2>1. \A k \in Clients : Line(k)' = Line(k)
    BY <1>1 DEF Line
  <2>2. LooplessInv'
    BY <1>1 DEF HearingInv, LooplessInv
  <2> QED BY <1>1, <2>1, <2>2, QuietHearing
<1>2. CASE UNCHANGED vars
  BY <1>1, <1>2 DEF vars
<1>3. CASE ServerStep
  BY <1>1, <1>3, NotifyHearing DEF ServerStep, ServerStart, ServerExit
<1>4. ASSUME NEW k \in Clients, ObjectStep(k) PROVE HearingInv'
  <2>1. CASE Construct(k)
    BY <2>1, RegisterHearing DEF Construct, TypeInv, IdInv
  <2>2. CASE Connect(k) \/ Disconnect(k) \/ Destroy(k)
    BY <1>1, <2>2 DEF Connect, Disconnect, Destroy
  <2> QED BY <1>4, <2>1, <2>2 DEF ObjectStep
<1>5. ASSUME NEW k \in Clients, ThreadStep(k) \/ RunPosted(k) PROVE HearingInv'
  <2>1. CASE LoopTop(k) \/ Wake(k) \/ Drained(k)
    BY <1>1, <2>1 DEF LoopTop, Wake, Drained
  <2> QED
    BY <1>5, <2>1, PopHearing, CopyHearing, RunTaskHearing, EndRunHearing, RunPostedHearing
    DEF ThreadStep
<1>6. ASSUME NEW l \in Listeners, ListenerStep(l) PROVE HearingInv'
  <2>1. CASE SubscribeRegister(l)
    BY <2>1, RegisterHearing, EventDeliveryAssumption DEF SubscribeRegister
  <2>2. CASE AddListener(l) \/ DestroyListener(l)
    BY <1>1, <2>2 DEF AddListener, DestroyListener
  <2> QED BY <1>6, <2>1, <2>2 DEF ListenerStep
<1> QED BY <1>2, <1>3, <1>4, <1>5, <1>6 DEF Next

LEMMA InitHearing == Init => HearingInv
<1> SUFFICES ASSUME Init PROVE HearingInv
  OBVIOUS
<1>1. \A k \in Clients : ~ Undisturbed(k) /\ Line(k) = <<>>
  BY DEF Init, Undisturbed, Line
<1>2. SentInv /\ LooplessInv
  BY DEF Init, SentInv, LooplessInv
<1>3. TargetInv /\ LineInv
  BY <1>1 DEF TargetInv, LineInv
<1>4. HeardInv
  BY <1>1, EventDeliveryAssumption DEF HeardInv
<1>5. UnusedInv
  BY <1>1 DEF Init, UnusedInv, Of
<1> QED BY <1>2, <1>3, <1>4, <1>5 DEF HearingInv

LEMMA HearingInOrder ==
    ASSUME TypeInv, DeliveryInv, HearingInv PROVE HeardInOrder
<1> SUFFICES ASSUME NEW l \in Listeners, Undisturbed(ClientOf[l])
             PROVE  HeardInOrder!(l)
  BY DEF HeardInOrder
<1>1. heard[l] \in Seq(Events \cup {NoEvent}) /\ notified \in Seq(Events)
  BY DEF TypeInv, TypeOK, HistoryTypeOK
<1>2. DOMAIN heard[l] = 1 .. Len(heard[l]) /\ DOMAIN notified = 1 .. Len(notified)
  BY <1>1
<1>3. \A n \in 1 .. Len(heard[l]) : heard[l][n] \in Hears[l] /\ Among(notified, heard[l][n])
  BY TookSent, EventDeliveryAssumption DEF DeliveryInv, HearingInv, HeardInv, Passed
<1>4. \A x : Among(notified, x) => Position(x) \in 1 .. Len(notified) /\ notified[Position(x)] = x
  BY <1>2 DEF Among, Position
<1>5. \A m, n \in 1 .. Len(heard[l]) : m < n => Earlier(notified, heard[l][m], heard[l][n])
  BY DEF HearingInv, HeardInv
<1>6. \A m, n \in 1 .. Len(heard[l]) :
          m < n => Position(heard[l][m]) < Position(heard[l][n])
  BY <1>3, <1>4, <1>5 DEF Earlier
<1>7. \A x : Among(notified, x) => Sent(x)
  BY <1>2 DEF Among, Sent
<1> QED BY <1>2, <1>3, <1>6, <1>7

\* Listeners are given payloads of their events, in the order of the notifications
\* and each once: through rings of any size, the view, the copy, the tasks and the
\* loop, for as long as nobody gave the client's id back.
THEOREM EventsHeardInOrder == Spec => []HeardInOrder
<1>1. TypeInv /\ DeliveryInv /\ HearingInv /\ [Next]_vars => HearingInv'
  BY NextHearing
<1>2. TypeInv /\ DeliveryInv /\ HearingInv => HeardInOrder
  BY HearingInOrder
<1>3. Spec => Init /\ [][Next]_vars
  BY DEF Spec
<1> QED BY <1>1, <1>2, <1>3, DeliveryInvariant, InitHearing, PTL

=============================================================================
