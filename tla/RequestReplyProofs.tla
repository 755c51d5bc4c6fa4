------------------------- MODULE RequestReplyProofs -------------------------
(* Type correctness and the safety of slots and answers, for any calls,     *)
(* clients, sizes and bounds.                                               *)
EXTENDS RequestReply, TLAPS

\* Only a pass has calls to visit, a Ready slot has an answer, and only calls
\* with a callback take slots.
PassInv == \A c \in toVisit : cbThread[ClientOf[c]] = "scan"
ReadyInv == \A i \in Slots : m_cbData[i].status = "Ready" => m_cbData[i].answer \in Calls
TakerInv == \A c \in Calls : caller[c] = "slot" => c \in WithCallback

TypeInv == TypeOK /\ PassInv /\ ReadyInv /\ TakerInv

-----------------------------------------------------------------------------
(* What a step leaves alone keeps its type. *)

LEMMA SameCallSpace ==
    CallSpaceTypeOK /\ UNCHANGED callSpaceVars => CallSpaceTypeOK'
BY DEF CallSpaceTypeOK, callSpaceVars

LEMMA SameCallbackSpace ==
    /\ CallbackSpaceTypeOK /\ UNCHANGED m_cbData => CallbackSpaceTypeOK'
    /\ ReadyInv /\ UNCHANGED m_cbData => ReadyInv'
BY DEF CallbackSpaceTypeOK, ReadyInv

LEMMA SameCalls ==
    /\ CallTypeOK /\ UNCHANGED callVars => CallTypeOK'
    /\ TakerInv /\ UNCHANGED caller => TakerInv'
    /\ TakerInv /\ UNCHANGED callVars => TakerInv'
BY DEF CallTypeOK, TakerInv, callVars

LEMMA SameClients ==
    /\ ConnectionTypeOK /\ UNCHANGED connectionVars => ConnectionTypeOK'
    /\ WaitingTypeOK /\ UNCHANGED <<waitingVars, abandoned>> => WaitingTypeOK'
    /\ PassInv /\ UNCHANGED waitingVars => PassInv'
BY DEF ConnectionTypeOK, WaitingTypeOK, PassInv, connectionVars, waitingVars

LEMMA SameServer == ServerTypeOK /\ UNCHANGED serverVars => ServerTypeOK'
BY DEF ServerTypeOK, serverVars

-----------------------------------------------------------------------------
LEMMA ZeroIsASlot == 0 \in Slots
BY CallbackSpaceAssumption DEF Slots

LEMMA InitTypeInv == Init => TypeInv
<1> SUFFICES ASSUME Init PROVE TypeInv
  OBVIOUS
<1>1. CallSpaceTypeOK
  BY CallSpaceAssumption DEF Init, CallSpaceInit, CallSpaceTypeOK
<1>2. CallbackSpaceTypeOK /\ ReadyInv
  BY DEF Init, CallbackSpaceInit, CallbackSpaceTypeOK, ReadyInv, EmptySlot, DataState
<1>3. CallTypeOK /\ TakerInv
  BY ZeroIsASlot DEF Init, CallTypeOK, TakerInv
<1>4. ConnectionTypeOK
  BY CallSpaceAssumption DEF Init, ConnectionTypeOK
<1>5. WaitingTypeOK /\ PassInv
  BY DEF Init, WaitingTypeOK, PassInv
<1>6. ServerTypeOK
  <2>1. answers \in [Calls -> 0 .. MaxAnswers] /\ exits \in 0 .. MaxExits
    BY RequestReplyAssumption DEF Init
  <2>2. batch \in Seq(Calls) /\ posted \in Seq(Calls) /\ served \in Seq(Calls)
    BY DEF Init
  <2> QED BY <2>1, <2>2 DEF Init, ServerTypeOK
<1>7. accepted \in Seq(Calls)
  BY DEF Init
<1> QED BY <1>1, <1>2, <1>3, <1>4, <1>5, <1>6, <1>7 DEF TypeInv, TypeOK

LEMMA CallStepTypeInv ==
    ASSUME TypeInv, NEW c \in Calls, CallStep(c)
    PROVE  TypeInv'
<1> USE SameCallSpace, SameCallbackSpace, SameCalls, SameClients, SameServer
    DEF TypeInv, TypeOK, clientVars
<1>1. CASE Reject(c)
  <2>1. CallTypeOK' /\ TakerInv'
    <3>1. CASE c \in WithCallback
      <4>1. Goto(c, "returned") /\ Deliver(c, "InvalidPayload") /\ UNCHANGED slotOf
        BY <1>1, <3>1 DEF Reject
      <4> QED BY <4>1 DEF CallTypeOK, TakerInv, Goto, Deliver, Errors
    <3>2. CASE c \notin WithCallback
      BY <1>1, <3>2 DEF Reject, CallTypeOK, TakerInv, Goto
    <3> QED BY <3>1, <3>2
  <2> QED BY <1>1, <2>1 DEF Reject
<1>2. CASE StartOneWay(c)
  <2>1. CallTypeOK' /\ TakerInv'
    BY <1>2, ZeroIsASlot DEF StartOneWay, CallTypeOK, TakerInv, Goto
  <2> QED BY <1>2, <2>1 DEF StartOneWay
<1>3. CASE TakeSlot(c)
  <2>1. PICK i \in Slots : pushCallback(i) /\ slotOf' = [slotOf EXCEPT ![c] = i]
    BY <1>3 DEF TakeSlot
  <2>2. CallTypeOK' /\ TakerInv'
    BY <1>3, <2>1 DEF TakeSlot, CallTypeOK, TakerInv, Goto
  <2>3. CallbackSpaceTypeOK' /\ ReadyInv'
    BY <2>1 DEF pushCallback, CallbackSpaceTypeOK, ReadyInv, DataState
  <2> QED BY <1>3, <2>2, <2>3 DEF TakeSlot
<1>4. CASE NoSlotLeft(c)
  <2>1. CallTypeOK' /\ TakerInv'
    BY <1>4 DEF NoSlotLeft, CallTypeOK, TakerInv, Goto, Deliver, Errors
  <2> QED BY <1>4, <2>1 DEF NoSlotLeft
<1>5. CASE Register(c)
  <2>1. CallTypeOK' /\ TakerInv'
    BY <1>5 DEF Register, CallTypeOK, TakerInv, Goto
  <2>2. WaitingTypeOK' /\ PassInv'
    BY <1>5 DEF Register, WaitingTypeOK, TakerInv, PassInv
  <2> QED BY <1>5, <2>1, <2>2 DEF Register
<1>6. CASE PushCall(c)
  <2>1. CallTypeOK' /\ TakerInv'
    BY <1>6 DEF PushCall, CallTypeOK, TakerInv, Goto
  <2>2. CallSpaceTypeOK' /\ accepted' \in Seq(Calls)
    <3>1. CASE Fits(FrameSize[c])
      <4>1. /\ m_data' = Append(m_data, c)
            /\ m_currentWriteIndex' = m_currentWriteIndex + FrameSize[c]
            /\ UNCHANGED m_lastClientId
            /\ accepted' = Append(accepted, c)
        BY <1>6, <3>1 DEF PushCall, push
      <4>2. FrameSize[c] \in Nat
        BY CallSpaceAssumption
      <4> QED BY <4>1, <4>2 DEF CallSpaceTypeOK
    <3>2. CASE ~ Fits(FrameSize[c])
      BY <1>6, <3>2 DEF PushCall, push, CallSpaceTypeOK
    <3> QED BY <3>1, <3>2
  <2> QED BY <1>6, <2>1, <2>2 DEF PushCall
<1> QED BY <1>1, <1>2, <1>3, <1>4, <1>5, <1>6 DEF CallStep

LEMMA ConnectionStepTypeInv ==
    ASSUME TypeInv, NEW k \in Clients, ConnectionStep(k)
    PROVE  TypeInv'
<1> USE SameCallSpace, SameCallbackSpace, SameCalls, SameClients, SameServer
    DEF TypeInv, TypeOK
<1>1. CASE Connect(k)
  <2>1. CallSpaceTypeOK'
    BY <1>1, CallSpaceAssumption DEF Connect, generateClientId, CallSpaceTypeOK
  <2>2. ConnectionTypeOK'
    BY <1>1, <2>1 DEF Connect, ConnectionTypeOK, CallSpaceTypeOK
  <2>3. WaitingTypeOK' /\ PassInv'
    BY <1>1 DEF Connect, WaitingTypeOK, PassInv
  <2> QED BY <1>1, <2>1, <2>2, <2>3 DEF Connect
<1>2. CASE Disconnect(k)
  <2>1. ConnectionTypeOK'
    BY <1>2 DEF Disconnect, ConnectionTypeOK
  <2> QED BY <1>2, <2>1 DEF Disconnect
<1>3. CASE Destroy(k)
  <2>1. ConnectionTypeOK'
    BY <1>3 DEF Destroy, ConnectionTypeOK
  <2>2. Of(subs, k) \cap toVisit = {}
    BY <1>3 DEF Destroy, PassInv, Of
  <2>3. WaitingTypeOK' /\ PassInv'
    BY <1>3, <2>2 DEF Destroy, WaitingTypeOK, PassInv, Of
  <2> QED BY <1>3, <2>1, <2>3 DEF Destroy
<1> QED BY <1>1, <1>2, <1>3 DEF ConnectionStep

LEMMA CallbackThreadStepTypeInv ==
    ASSUME TypeInv, NEW k \in Clients, CallbackThreadStep(k)
    PROVE  TypeInv'
<1> USE SameCallSpace, SameCallbackSpace, SameCalls, SameClients, SameServer
    DEF TypeInv, TypeOK
<1>1. CASE LoopTop(k)
  <2>1. WaitingTypeOK' /\ PassInv'
    BY <1>1 DEF LoopTop, WaitingTypeOK, PassInv
  <2> QED BY <1>1, <2>1 DEF LoopTop
<1>2. CASE Wake(k)
  <2>1. WaitingTypeOK'
    BY <1>2 DEF Wake, WaitingTypeOK, Of
  <2>2. PassInv'
    BY <1>2 DEF Wake, WaitingTypeOK, PassInv, Of
  <2> QED BY <1>2, <2>1, <2>2 DEF Wake
<1>3. CASE EndPass(k)
  <2>1. WaitingTypeOK' /\ PassInv'
    BY <1>3 DEF EndPass, WaitingTypeOK, PassInv, Of
  <2> QED BY <1>3, <2>1 DEF EndPass
<1>4. CASE EndRun(k)
  <2>1. WaitingTypeOK' /\ PassInv'
    BY <1>4 DEF EndRun, WaitingTypeOK, PassInv
  <2> QED BY <1>4, <2>1 DEF EndRun
<1> QED BY <1>1, <1>2, <1>3, <1>4 DEF CallbackThreadStep

LEMMA TakeOutTypes ==
    ASSUME WaitingTypeOK, PassInv, NEW c \in toVisit, NEW data \in Answers \cup {NoAnswer},
           TakeOut(c, data), UNCHANGED <<cbThread, abandoned>>
    PROVE  WaitingTypeOK' /\ PassInv'
BY DEF WaitingTypeOK, PassInv, TakeOut, Closure

LEMMA VisitStepTypeInv ==
    ASSUME TypeInv, NEW c \in Calls, VisitStep(c) \/ Expire(c)
    PROVE  TypeInv'
<1> USE SameCallSpace, SameCallbackSpace, SameCalls, SameClients, SameServer
    DEF TypeInv, TypeOK
<1>1. CASE VisitDue(c)
  <2>1. WaitingTypeOK' /\ PassInv'
    BY <1>1, TakeOutTypes DEF VisitDue, Visiting
  <2> QED BY <1>1, <2>1 DEF VisitDue
<1>2. CASE VisitAnswered(c)
  <2>1. slotOf[c] \in Slots
    BY DEF CallTypeOK
  <2>2. m_cbData[slotOf[c]].answer \in Answers \cup {NoAnswer}
    BY <2>1 DEF CallbackSpaceTypeOK
  <2>3. WaitingTypeOK' /\ PassInv'
    BY <1>2, <2>2, TakeOutTypes DEF VisitAnswered, Visiting
  <2>4. CallbackSpaceTypeOK' /\ ReadyInv'
    BY <1>2, <2>1 DEF VisitAnswered, popCallback, CallbackSpaceTypeOK, ReadyInv, DataState
  <2> QED BY <1>2, <2>3, <2>4 DEF VisitAnswered
<1>3. CASE VisitWaiting(c)
  <2>1. WaitingTypeOK' /\ PassInv'
    BY <1>3 DEF VisitWaiting, WaitingTypeOK, PassInv
  <2> QED BY <1>3, <2>1 DEF VisitWaiting
<1>4. CASE Expire(c)
  <2>1. WaitingTypeOK' /\ PassInv'
    BY <1>4 DEF Expire, WaitingTypeOK, PassInv
  <2> QED BY <1>4, <2>1 DEF Expire
<1> QED BY <1>1, <1>2, <1>3, <1>4 DEF VisitStep

LEMMA RunStepTypeInv ==
    ASSUME TypeInv, NEW x \in todo, RunAnswered(x) \/ RunTimeout(x)
    PROVE  TypeInv'
<1> USE SameCallSpace, SameCallbackSpace, SameCalls, SameClients, SameServer
    DEF TypeInv, TypeOK
<1>1. x.call \in Calls /\ x.data \in Answers \cup {NoAnswer}
  BY RequestReplyAssumption DEF WaitingTypeOK, Closure
<1>2. UNCHANGED <<cbThread, subs, expired, toVisit, abandoned>> /\ todo' = todo \ {x}
        => WaitingTypeOK' /\ PassInv'
  BY DEF WaitingTypeOK, PassInv
<1>3. CASE RunAnswered(x)
  <2>1. x.data \in Calls
    BY <1>1, <1>3, RequestReplyAssumption DEF RunAnswered
  <2>2. CallTypeOK' /\ TakerInv'
    BY <1>1, <1>3, <2>1 DEF RunAnswered, CallTypeOK, TakerInv, Deliver
  <2> QED BY <1>2, <1>3, <2>2 DEF RunAnswered
<1>4. CASE RunTimeout(x)
  <2>1. CallTypeOK' /\ TakerInv'
    BY <1>1, <1>4 DEF RunTimeout, CallTypeOK, TakerInv, Deliver, Errors
  <2>2. CallbackSpaceTypeOK' /\ ReadyInv'
    BY <1>1, <1>4 DEF RunTimeout, clearCallback, EmptySlot, DataState, CallTypeOK,
                      CallbackSpaceTypeOK, ReadyInv
  <2> QED BY <1>2, <1>4, <2>1, <2>2 DEF RunTimeout
<1> QED BY <1>3, <1>4

LEMMA InType == \A frames \in Seq(Calls) : In(frames) \subseteq Calls
BY DEF In

LEMMA HeadAndTail ==
    ASSUME NEW S, NEW s \in Seq(S), s # <<>>
    PROVE  Head(s) \in S /\ Tail(s) \in Seq(S)
OBVIOUS

LEMMA ServerStepTypeInv ==
    ASSUME TypeInv, ServerStep
    PROVE  TypeInv'
<1> USE SameCallSpace, SameCallbackSpace, SameCalls, SameClients, SameServer
    DEF TypeInv, TypeOK, clientVars
<1>1. CASE ReadMemory
  <2>1. CallSpaceTypeOK'
    BY <1>1 DEF ReadMemory, clear, CallSpaceTypeOK
  <2>2. ServerTypeOK'
    BY <1>1 DEF ReadMemory, pop, CallSpaceTypeOK, ServerTypeOK
  <2> QED BY <1>1, <2>1, <2>2 DEF ReadMemory
<1>2. CASE Dispatch
  <2>1. Head(batch) \in Calls /\ batch' \in Seq(Calls)
    BY <1>2, HeadAndTail DEF Dispatch, ServerTypeOK
  <2>2. posted' \in Seq(Calls)
    <3>1. posted' \in {posted, Append(posted, Head(batch))}
      BY <1>2 DEF Dispatch
    <3>2. posted \in Seq(Calls) /\ Append(posted, Head(batch)) \in Seq(Calls)
      BY <2>1 DEF ServerTypeOK
    <3> QED BY <3>1, <3>2
  <2>3. served' \in Seq(Calls) /\ handling' \subseteq Calls
    <3>1. CASE Head(batch) \in Supported /\ ~ ServerLooped
      <4>1. Invoke(Head(batch))
        BY <1>2, <3>1 DEF Dispatch
      <4> QED BY <2>1, <4>1 DEF Invoke, ServerTypeOK
    <3>2. CASE ~ (Head(batch) \in Supported /\ ~ ServerLooped)
      BY <1>2, <3>2 DEF Dispatch, ServerTypeOK
    <3> QED BY <3>1, <3>2
  <2>4. UNCHANGED <<serverUp, answers, exits, lost>>
    BY <1>2 DEF Dispatch
  <2>5. ServerTypeOK'
    BY <2>1, <2>2, <2>3, <2>4 DEF ServerTypeOK
  <2> QED BY <1>2, <2>5 DEF Dispatch
<1>3. CASE RunPosted
  <2>1. Head(posted) \in Calls /\ posted' \in Seq(Calls)
    BY <1>3, HeadAndTail DEF RunPosted, ServerTypeOK
  <2>2. ServerTypeOK'
    BY <1>3, <2>1 DEF RunPosted, Invoke, ServerTypeOK
  <2> QED BY <1>3, <2>2 DEF RunPosted
<1>4. CASE ServerExit
  <2>1. exits' \in 0 .. MaxExits
    BY <1>4, RequestReplyAssumption DEF ServerExit, ServerTypeOK
  <2>2. posted' \in Seq(Calls) /\ handling' \subseteq Calls /\ lost' \subseteq Calls
    BY <1>4, InType DEF ServerExit, ServerTypeOK
  <2>3. ServerTypeOK'
    BY <1>4, <2>1, <2>2 DEF ServerExit, ServerTypeOK
  <2> QED BY <1>4, <2>3 DEF ServerExit
<1>5. CASE ServerCrash
  <2>1. exits' \in 0 .. MaxExits
    BY <1>5, RequestReplyAssumption DEF ServerCrash, ServerTypeOK
  <2>2. /\ batch' \in Seq(Calls) /\ posted' \in Seq(Calls) /\ handling' \subseteq Calls
        /\ lost' \subseteq Calls
    BY <1>5, InType DEF ServerCrash, ServerTypeOK
  <2>3. ServerTypeOK'
    BY <1>5, <2>1, <2>2 DEF ServerCrash, ServerTypeOK
  <2> QED BY <1>5, <2>3 DEF ServerCrash
<1>6. CASE ServerStart
  <2>1. ServerTypeOK'
    BY <1>6 DEF ServerStart, ServerTypeOK
  <2> QED BY <1>6, <2>1 DEF ServerStart
<1> QED BY <1>1, <1>2, <1>3, <1>4, <1>5, <1>6 DEF ServerStep

LEMMA AnswerTypeInv ==
    ASSUME TypeInv, NEW c \in Calls, Answer(c)
    PROVE  TypeInv'
<1> USE SameCallSpace, SameCallbackSpace, SameCalls, SameClients, SameServer
    DEF TypeInv, TypeOK, clientVars
<1>1. slotOf[c] \in Slots /\ c \in Answers
  BY RequestReplyAssumption DEF CallTypeOK
<1>2. CallbackSpaceTypeOK' /\ ReadyInv'
  BY <1>1 DEF Answer, updateCallback, CallbackSpaceTypeOK, ReadyInv, DataState
<1>3. answers' \in [Calls -> 0 .. MaxAnswers]
  BY RequestReplyAssumption DEF Answer, ServerTypeOK
<1>4. ServerTypeOK'
  BY <1>3 DEF Answer, ServerTypeOK
<1> QED BY <1>2, <1>4 DEF Answer

LEMMA StepTypeInv == TypeInv /\ [Next]_vars => TypeInv'
<1> SUFFICES ASSUME TypeInv, [Next]_vars PROVE TypeInv'
  OBVIOUS
<1>1. CASE UNCHANGED vars
  BY <1>1, SameCallSpace, SameCallbackSpace, SameCalls, SameClients, SameServer
     DEF TypeInv, TypeOK, vars, clientVars
<1>2. CASE Next
  BY <1>2, CallStepTypeInv, ConnectionStepTypeInv, CallbackThreadStepTypeInv,
     VisitStepTypeInv, RunStepTypeInv, ServerStepTypeInv, AnswerTypeInv DEF Next
<1> QED BY <1>1, <1>2

\* Every variable of the calls, the clients, the spaces and the server stays in
\* its type, ids below their limit included (CallSpace.h:76-83).
THEOREM TypeCorrect == Spec => []TypeOK
<1>1. Spec => []TypeInv
  BY InitTypeInv, StepTypeInv, PTL DEF Spec
<1>2. TypeInv => TypeOK
  BY DEF TypeInv
<1> QED BY <1>1, <1>2, PTL

-----------------------------------------------------------------------------
(* A call is in one place at a time: with its caller, among the waiting, in a *)
(* closure, given up with its client, or over.                                *)

HasClosure(c) == \E x \in todo : x.call = c

OnePlace(c) ==
    /\ Len(delivered[c]) <= 1
    /\ caller[c] \in {"ready", "slot"} =>
          delivered[c] = <<>> /\ c \notin subs /\ ~ HasClosure(c) /\ c \notin abandoned
    /\ c \in subs => delivered[c] = <<>> /\ ~ HasClosure(c) /\ c \notin abandoned
    /\ HasClosure(c) => delivered[c] = <<>> /\ c \notin abandoned
    /\ c \in abandoned => delivered[c] = <<>>

OneClosure == \A x, y \in todo : x.call = y.call => x = y

PlaceInv == (\A c \in Calls : OnePlace(c)) /\ OneClosure

LEMMA InitPlaceInv == Init => PlaceInv
BY DEF Init, PlaceInv, OnePlace, OneClosure, HasClosure

LEMMA SamePlaces ==
    PlaceInv /\ UNCHANGED <<caller, delivered, subs, todo, abandoned>> => PlaceInv'
BY DEF PlaceInv, OnePlace, OneClosure, HasClosure

\* What one delivery adds.
LEMMA FirstDelivery ==
    ASSUME NEW S, NEW what \in S PROVE Len(Append(<<>>, what)) = 1
OBVIOUS

LEMMA FailAtOnce ==
    ASSUME TypeInv, PlaceInv, NEW c \in Calls, CanStart(c), NEW what,
           Goto(c, "returned"), Deliver(c, what), UNCHANGED <<subs, todo, abandoned>>
    PROVE  PlaceInv'
<1>1. \A d \in Calls : HasClosure(d)' <=> HasClosure(d)
  BY DEF HasClosure
<1>2. /\ caller'[c] = "returned"
      /\ \A d \in Calls \ {c} : caller'[d] = caller[d]
  BY DEF Goto, TypeInv, TypeOK, CallTypeOK
<1>3. /\ Len(delivered'[c]) = 1
      /\ \A d \in Calls \ {c} : delivered'[d] = delivered[d]
  BY FirstDelivery DEF Deliver, CanStart, PlaceInv, OnePlace, TypeInv, TypeOK, CallTypeOK
<1>4. OneClosure'
  BY DEF PlaceInv, OneClosure
<1>5. OnePlace(c)'
  BY <1>1, <1>2, <1>3 DEF PlaceInv, OnePlace, CanStart
<1>6. ASSUME NEW d \in Calls \ {c} PROVE OnePlace(d)'
  BY <1>1, <1>2, <1>3 DEF PlaceInv, OnePlace
<1> QED BY <1>4, <1>5, <1>6 DEF PlaceInv

LEMMA CallStepPlaceInv ==
    ASSUME TypeInv, PlaceInv, NEW c \in Calls, CallStep(c)
    PROVE  PlaceInv'
<1> USE DEF TypeInv, TypeOK, CallTypeOK, clientVars, waitingVars
<1>1. CASE Reject(c)
  <2>1. CASE c \in WithCallback
    BY <1>1, <2>1, FailAtOnce DEF Reject
  <2>2. CASE c \notin WithCallback
    BY <1>1, <2>2 DEF Reject, CanStart, PlaceInv, OnePlace, OneClosure, HasClosure, Goto
  <2> QED BY <2>1, <2>2
<1>2. CASE StartOneWay(c)
  BY <1>2 DEF StartOneWay, CanStart, PlaceInv, OnePlace, OneClosure, HasClosure, Goto
<1>3. CASE TakeSlot(c)
  BY <1>3 DEF TakeSlot, CanStart, PlaceInv, OnePlace, OneClosure, HasClosure, Goto
<1>4. CASE NoSlotLeft(c)
  BY <1>4, FailAtOnce DEF NoSlotLeft
<1>5. CASE Register(c)
  BY <1>5 DEF Register, PlaceInv, OnePlace, OneClosure, HasClosure, Goto
<1>6. CASE PushCall(c)
  BY <1>6 DEF PushCall, PlaceInv, OnePlace, OneClosure, HasClosure, Goto
<1> QED BY <1>1, <1>2, <1>3, <1>4, <1>5, <1>6 DEF CallStep

LEMMA TakeOutPlaceInv ==
    ASSUME TypeInv, PlaceInv, NEW c \in subs, NEW data,
           TakeOut(c, data), UNCHANGED <<caller, delivered, abandoned>>
    PROVE  PlaceInv'
<1>1. c \in Calls /\ subs' = subs \ {c}
  BY RequestReplyAssumption DEF TakeOut, TypeInv, TypeOK, WaitingTypeOK
<1>2. todo' = todo \cup {[call |-> c, data |-> data]}
  BY DEF TakeOut
<1>3. \A d \in Calls : HasClosure(d)' <=> HasClosure(d) \/ d = c
  <2> DEFINE new == [call |-> c, data |-> data]
  <2>1. new.call = c /\ todo' = todo \cup {new}
    BY <1>2
  <2> HIDE DEF new
  <2> QED BY <2>1 DEF HasClosure
<1>4. OneClosure'
  BY <1>1, <1>2 DEF PlaceInv, OnePlace, OneClosure, HasClosure
<1>5. ASSUME NEW d \in Calls PROVE OnePlace(d)'
  BY <1>1, <1>3 DEF PlaceInv, OnePlace
<1> QED BY <1>4, <1>5 DEF PlaceInv

LEMMA RunStepPlaceInv ==
    ASSUME TypeInv, PlaceInv, NEW x \in todo, RunAnswered(x) \/ RunTimeout(x)
    PROVE  PlaceInv'
<1>1. /\ x.call \in Calls
      /\ HasClosure(x.call)
      /\ delivered[x.call] = <<>>
  BY RequestReplyAssumption DEF TypeInv, TypeOK, WaitingTypeOK, Closure, PlaceInv, OnePlace, OneClosure, HasClosure
<1>2. /\ todo' = todo \ {x}
      /\ UNCHANGED <<caller, subs, abandoned>>
      /\ \E what : Deliver(x.call, what)
  BY DEF RunAnswered, RunTimeout
<1>3. ~ HasClosure(x.call)' /\ \A c \in Calls \ {x.call} : HasClosure(c)' <=> HasClosure(c)
  BY <1>2 DEF HasClosure, PlaceInv, OneClosure
<1>4. /\ Len(delivered'[x.call]) = 1
      /\ \A c \in Calls \ {x.call} : delivered'[c] = delivered[c]
  BY <1>1, <1>2, FirstDelivery DEF Deliver, TypeInv, TypeOK, CallTypeOK
<1>5. OneClosure'
  BY <1>2 DEF PlaceInv, OneClosure
<1>6. OnePlace(x.call)'
  BY <1>1, <1>2, <1>3, <1>4 DEF PlaceInv, OnePlace
<1>7. ASSUME NEW c \in Calls \ {x.call} PROVE OnePlace(c)'
  BY <1>2, <1>3, <1>4 DEF PlaceInv, OnePlace
<1> QED BY <1>1, <1>5, <1>6, <1>7 DEF PlaceInv

LEMMA StepPlaceInv == TypeInv /\ PlaceInv /\ [Next]_vars => PlaceInv'
<1> SUFFICES ASSUME TypeInv, PlaceInv, [Next]_vars PROVE PlaceInv'
  OBVIOUS
<1> USE DEF callVars, clientVars, waitingVars
<1>1. CASE UNCHANGED vars
  BY <1>1, SamePlaces DEF vars
<1>2. ASSUME NEW c \in Calls, CallStep(c) PROVE PlaceInv'
  BY <1>2, CallStepPlaceInv
<1>3. ASSUME NEW c \in Calls, Expire(c) \/ VisitWaiting(c) \/ Answer(c) PROVE PlaceInv'
  BY <1>3, SamePlaces DEF Expire, VisitWaiting, Answer
<1>4. ASSUME NEW c \in Calls, VisitDue(c) \/ VisitAnswered(c) PROVE PlaceInv'
  <2>1. c \in subs
    BY <1>4 DEF VisitDue, VisitAnswered, Visiting, TypeInv, TypeOK, WaitingTypeOK
  <2> QED BY <1>4, <2>1, TakeOutPlaceInv DEF VisitDue, VisitAnswered
<1>5. ASSUME NEW k \in Clients, Destroy(k) PROVE PlaceInv'
  BY <1>5 DEF Destroy, PlaceInv, OnePlace, OneClosure, HasClosure, Of
<1>6. ASSUME NEW k \in Clients, Connect(k) \/ Disconnect(k) \/ CallbackThreadStep(k)
      PROVE  PlaceInv'
  BY <1>6, SamePlaces DEF Connect, Disconnect, CallbackThreadStep, LoopTop, Wake, EndPass, EndRun
<1>7. ASSUME NEW x \in todo, RunAnswered(x) \/ RunTimeout(x) PROVE PlaceInv'
  BY <1>7, RunStepPlaceInv
<1>8. CASE ServerStep
  BY <1>8, SamePlaces DEF ServerStep, ReadMemory, Dispatch, RunPosted, ServerExit, ServerCrash, ServerStart
<1> QED BY <1>1, <1>2, <1>3, <1>4, <1>5, <1>6, <1>7, <1>8
        DEF Next, ConnectionStep, VisitStep

\* A callback is invoked at most once: a call that leaves m_cbDataSubs does so
\* with the only closure made for it (ClientIPC.cpp:105-126), and the failures
\* reported by callServer itself come before it registers anything.
THEOREM OnceOnly == Spec => []AtMostOnce
<1>1. PlaceInv => AtMostOnce
  BY DEF PlaceInv, OnePlace, AtMostOnce
<1>2. Spec => [](TypeInv /\ PlaceInv)
  <2>1. Init => TypeInv /\ PlaceInv
    BY InitTypeInv, InitPlaceInv
  <2>2. (TypeInv /\ PlaceInv) /\ [Next]_vars => (TypeInv /\ PlaceInv)'
    BY StepTypeInv, StepPlaceInv
  <2> QED BY <2>1, <2>2, PTL DEF Spec
<1> QED BY <1>1, <1>2, PTL

-----------------------------------------------------------------------------
(* Slots and the calls that hold them. *)

IsFree(i) == m_cbData[i].status = "NoData"

\* The calls hold what they held, and no slot is taken or freed.
LEMMA SameHolders ==
    ASSUME TypeInv, SlotOwnership,
           \A c \in Calls : Holds(c)' <=> Holds(c),
           \A c \in Calls : Holds(c) => slotOf'[c] = slotOf[c],
           \A i \in Slots : IsFree(i)' <=> IsFree(i)
    PROVE  SlotOwnership'
BY DEF SlotOwnership, Holders, IsFree

\* A call without a slot takes a free one.
LEMMA OneTakes ==
    ASSUME TypeInv, SlotOwnership, NEW c \in Calls, NEW i \in Slots,
           IsFree(i), ~ IsFree(i)', slotOf'[c] = i,
           \A d \in Calls : Holds(d)' <=> Holds(d) \/ d = c,
           \A d \in Calls \ {c} : slotOf'[d] = slotOf[d],
           \A j \in Slots \ {i} : IsFree(j)' <=> IsFree(j),
           ~ Holds(c)
    PROVE  SlotOwnership'
BY DEF SlotOwnership, Holders, IsFree

\* A call gives its slot back.
LEMMA OneReleases ==
    ASSUME TypeInv, SlotOwnership, NEW c \in Calls, Holds(c), IsFree(slotOf[c])',
           UNCHANGED slotOf,
           \A d \in Calls : Holds(d)' <=> Holds(d) /\ d # c,
           \A j \in Slots \ {slotOf[c]} : IsFree(j)' <=> IsFree(j)
    PROVE  SlotOwnership'
BY DEF SlotOwnership, Holders, IsFree, TypeInv, TypeOK, CallTypeOK

LEMMA SameHolds ==
    ASSUME TypeInv, SlotOwnership, UNCHANGED <<m_cbData, slotOf>>,
           \A c \in Calls : Holds(c)' <=> Holds(c)
    PROVE  SlotOwnership'
BY SameHolders DEF IsFree

LEMMA InitSlotOwnership == Init => SlotOwnership
BY DEF Init, CallbackSpaceInit, EmptySlot, SlotOwnership, Holders, Holds

LEMMA CallStepSlotOwnership ==
    ASSUME TypeInv, PlaceInv, SlotOwnership, NEW c \in Calls, CallStep(c)
    PROVE  SlotOwnership'
<1> USE DEF TypeInv, TypeOK, CallTypeOK, clientVars, waitingVars
<1>1. CASE Reject(c) \/ NoSlotLeft(c)
  <2>1. \A d \in Calls : Holds(d)' <=> Holds(d)
    BY <1>1 DEF Reject, NoSlotLeft, CanStart, Goto, Holds
  <2> QED BY <1>1, <2>1, SameHolds DEF Reject, NoSlotLeft
<1>2. CASE StartOneWay(c)
  <2>1. \A d \in Calls : Holds(d)' <=> Holds(d)
    BY <1>2 DEF StartOneWay, CanStart, Goto, Holds
  <2>2. \A d \in Calls : Holds(d) => slotOf'[d] = slotOf[d]
    BY <1>2 DEF StartOneWay, Holds
  <2> QED BY <1>2, <2>1, <2>2, SameHolders DEF StartOneWay, IsFree
<1>3. CASE TakeSlot(c)
  <2>1. PICK i \in Slots : pushCallback(i) /\ slotOf' = [slotOf EXCEPT ![c] = i]
    BY <1>3 DEF TakeSlot
  <2>2. IsFree(i) /\ ~ IsFree(i)' /\ \A j \in Slots \ {i} : IsFree(j)' <=> IsFree(j)
    BY <2>1 DEF pushCallback, IsNextSlot, FreeSlots, IsFree, CallbackSpaceTypeOK
  <2>3. ~ Holds(c)
    BY <1>3 DEF TakeSlot, CanStart, Holds, PlaceInv, OnePlace, HasClosure
  <2>4. \A d \in Calls : Holds(d)' <=> Holds(d) \/ d = c
    BY <1>3 DEF TakeSlot, CanStart, Goto, Holds
  <2>5. slotOf'[c] = i /\ \A d \in Calls \ {c} : slotOf'[d] = slotOf[d]
    BY <2>1
  <2> QED BY <2>2, <2>3, <2>4, <2>5, OneTakes
<1>4. CASE Register(c)
  <2>1. \A d \in Calls : Holds(d)' <=> Holds(d)
    BY <1>4 DEF Register, Goto, Holds, TakerInv
  <2> QED BY <1>4, <2>1, SameHolds DEF Register
<1>5. CASE PushCall(c)
  <2>1. \A d \in Calls : Holds(d)' <=> Holds(d)
    BY <1>5 DEF PushCall, Goto, Holds
  <2> QED BY <1>5, <2>1, SameHolds DEF PushCall
<1> QED BY <1>1, <1>2, <1>3, <1>4, <1>5 DEF CallStep

LEMMA PopFrees ==
    ASSUME CallbackSpaceTypeOK, NEW i \in Slots, popCallback(i)
    PROVE  IsFree(i)' /\ \A j \in Slots \ {i} : IsFree(j)' <=> IsFree(j)
<1>1. DOMAIN m_cbData = Slots
  BY DEF CallbackSpaceTypeOK
<1>2. m_cbData' = [m_cbData EXCEPT ![i] = [m_cbData[i] EXCEPT !.status = "NoData"]]
  BY DEF popCallback
<1>3. [m_cbData[i] EXCEPT !.status = "NoData"].status = "NoData"
  BY DEF CallbackSpaceTypeOK
<1> QED BY <1>1, <1>2, <1>3 DEF IsFree

LEMMA VisitStepSlotOwnership ==
    ASSUME TypeInv, PlaceInv, SlotOwnership, NEW c \in Calls, VisitStep(c) \/ Expire(c)
    PROVE  SlotOwnership'
<1>1. CASE VisitDue(c)
  <2>1. \A d \in Calls : Holds(d)' <=> Holds(d)
    <3>1. c \in subs /\ c \in WithCallback
      BY <1>1 DEF VisitDue, Visiting, TypeInv, TypeOK, WaitingTypeOK
    <3>2. /\ subs' = subs \ {c} /\ UNCHANGED <<caller, slotOf, abandoned>>
          /\ todo' = todo \cup {[call |-> c, data |-> NoAnswer]}
      BY <1>1 DEF VisitDue, TakeOut, callVars
    <3> QED BY <3>1, <3>2 DEF Holds
  <2> QED BY <1>1, <2>1, SameHolds DEF VisitDue, callVars
<1>2. CASE VisitAnswered(c)
  <2>1. c \in subs /\ Holds(c) /\ slotOf[c] \in Slots
    BY <1>2 DEF VisitAnswered, Visiting, Holds, TypeInv, TypeOK, WaitingTypeOK, CallTypeOK
  <2>2. /\ m_cbData[slotOf[c]].answer # NoAnswer
        /\ IsFree(slotOf[c])'
        /\ \A j \in Slots \ {slotOf[c]} : IsFree(j)' <=> IsFree(j)
    <3>1. m_cbData[slotOf[c]].answer \in Calls
      BY <1>2, <2>1 DEF VisitAnswered, popCallback, isCallbackAvailable, TypeInv, ReadyInv
    <3>2. popCallback(slotOf[c])
      BY <1>2 DEF VisitAnswered
    <3>3. /\ IsFree(slotOf[c])'
          /\ \A j \in Slots \ {slotOf[c]} : IsFree(j)' <=> IsFree(j)
      <4>1. PICK i \in Slots : i = slotOf[c] /\ i = slotOf'[c]
        BY <1>2, <2>1 DEF VisitAnswered, callVars
      <4>2. IsFree(i)' /\ \A j \in Slots \ {i} : IsFree(j)' <=> IsFree(j)
        BY <3>2, <4>1, PopFrees DEF TypeInv, TypeOK
      <4>3. IsFree(slotOf[c])' <=> IsFree(i)'
        BY <4>1 DEF IsFree
      <4> QED BY <4>1, <4>2, <4>3
    <3> QED BY <3>1, <3>3, CallbackSpaceAssumption, RequestReplyAssumption
  <2>3. ~ Holds(c)'
    BY <1>2, <2>1, <2>2 DEF VisitAnswered, TakeOut, Holds, callVars, PlaceInv, OnePlace, HasClosure
  <2>4. \A d \in Calls \ {c} : Holds(d)' <=> Holds(d)
    BY <1>2 DEF VisitAnswered, TakeOut, Holds, callVars
  <2> QED BY <1>2, <2>1, <2>2, <2>3, <2>4, OneReleases DEF VisitAnswered, callVars
<1>3. CASE VisitWaiting(c) \/ Expire(c)
  <2>1. \A d \in Calls : Holds(d)' <=> Holds(d)
    BY <1>3 DEF VisitWaiting, Expire, callVars, Holds
  <2> QED BY <1>3, <2>1, SameHolds DEF VisitWaiting, Expire, callVars
<1> QED BY <1>1, <1>2, <1>3 DEF VisitStep

LEMMA RunStepSlotOwnership ==
    ASSUME TypeInv, PlaceInv, SlotOwnership, NEW x \in todo, RunAnswered(x) \/ RunTimeout(x)
    PROVE  SlotOwnership'
<1>1. /\ x.call \in WithCallback /\ x.call \in Calls
      /\ slotOf[x.call] \in Slots
      /\ x = [call |-> x.call, data |-> x.data]
  BY RequestReplyAssumption DEF TypeInv, TypeOK, WaitingTypeOK, CallTypeOK, Closure
<1>2. CASE RunAnswered(x)
  <2>1. \A d \in Calls : Holds(d)' <=> Holds(d)
    BY <1>2 DEF RunAnswered, Holds
  <2> QED BY <1>2, <2>1, SameHolds DEF RunAnswered
<1>3. CASE RunTimeout(x)
  <2>1. x = [call |-> x.call, data |-> NoAnswer] /\ Holds(x.call)
    BY <1>1, <1>3 DEF RunTimeout, Holds
  <2>2. /\ IsFree(slotOf[x.call])'
        /\ \A j \in Slots \ {slotOf[x.call]} : IsFree(j)' <=> IsFree(j)
    BY <1>1, <1>3 DEF RunTimeout, clearCallback, EmptySlot, IsFree, TypeInv, TypeOK, CallbackSpaceTypeOK
  <2>3. ~ Holds(x.call)'
    BY <1>1, <1>3, <2>1 DEF RunTimeout, Holds, PlaceInv, OnePlace, HasClosure
  <2>4. \A d \in Calls \ {x.call} : Holds(d)' <=> Holds(d)
    BY <1>3, <2>1 DEF RunTimeout, Holds
  <2> QED BY <1>1, <1>3, <2>1, <2>2, <2>3, <2>4, OneReleases DEF RunTimeout
<1> QED BY <1>2, <1>3

LEMMA AnswerSlotOwnership ==
    ASSUME TypeInv, SlotOwnership, NEW c \in Calls, Answer(c)
    PROVE  SlotOwnership'
<1>1. slotOf[c] \in Slots
  BY DEF TypeInv, TypeOK, CallTypeOK
<1>2. \A i \in Slots : IsFree(i)' <=> IsFree(i)
  BY <1>1 DEF Answer, updateCallback, AcceptsAnswer, IsFree, TypeInv, TypeOK, CallbackSpaceTypeOK
<1>3. \A d \in Calls : Holds(d)' <=> Holds(d)
  BY DEF Answer, Holds, callVars, clientVars, waitingVars
<1> QED BY <1>2, <1>3, SameHolders DEF Answer, callVars

LEMMA DestroySlotOwnership ==
    ASSUME TypeInv, SlotOwnership, NEW k \in Clients, Destroy(k)
    PROVE  SlotOwnership'
<1>1. \A d \in Calls : Holds(d)' <=> Holds(d)
  BY DEF Destroy, Holds, Of, callVars
<1> QED BY <1>1, SameHolds DEF Destroy, callVars

LEMMA StepSlotOwnership ==
    TypeInv /\ PlaceInv /\ SlotOwnership /\ [Next]_vars => SlotOwnership'
<1> SUFFICES ASSUME TypeInv, PlaceInv, SlotOwnership, [Next]_vars PROVE SlotOwnership'
  OBVIOUS
<1>1. UNCHANGED <<m_cbData, callVars, subs, todo, abandoned>> => SlotOwnership'
  BY SameHolds DEF callVars, Holds
<1>2. CASE UNCHANGED vars
  BY <1>1, <1>2 DEF vars, clientVars, waitingVars
<1>3. ASSUME NEW k \in Clients, Connect(k) \/ Disconnect(k) \/ CallbackThreadStep(k)
      PROVE  SlotOwnership'
  BY <1>1, <1>3 DEF Connect, Disconnect, CallbackThreadStep, LoopTop, Wake, EndPass, EndRun,
                    waitingVars
<1>4. CASE ServerStep
  BY <1>1, <1>4 DEF ServerStep, ReadMemory, Dispatch, RunPosted, ServerExit, ServerCrash,
                    ServerStart, clientVars, waitingVars
<1> QED BY <1>2, <1>3, <1>4, CallStepSlotOwnership, VisitStepSlotOwnership, RunStepSlotOwnership,
           AnswerSlotOwnership, DestroySlotOwnership DEF Next, ConnectionStep

\* A slot is in use exactly while one call holds it, for any number of clients,
\* calls and slots and any number of answers, exits and crashes of the server.
THEOREM SlotsOwned == Spec => []SlotOwnership
<1>1. Init => TypeInv /\ PlaceInv /\ SlotOwnership
  BY InitTypeInv, InitPlaceInv, InitSlotOwnership
<1>2. (TypeInv /\ PlaceInv /\ SlotOwnership) /\ [Next]_vars
        => (TypeInv /\ PlaceInv /\ SlotOwnership)'
  BY StepTypeInv, StepPlaceInv, StepSlotOwnership
<1> QED BY <1>1, <1>2, PTL DEF Spec

-----------------------------------------------------------------------------
(* Whose answer a slot, a closure and a callback have. *)

InSeq(c, s) == \E n \in DOMAIN s : s[n] = c

\* The frame of c is on its way to its method, or its method may answer.
Travelling(c) == InSeq(c, m_data) \/ InSeq(c, batch) \/ InSeq(c, posted) \/ c \in handling

TravelInv == \A c \in Calls : Travelling(c) => caller[c] = "returned"

\* A call that can still get its first answer has a Pending slot to put it in.
Unanswered(c) == (caller[c] \in {"slot", "push"} \/ Travelling(c)) /\ answers[c] = 0
AwaitsItsAnswer(c) == Holds(c) /\ m_cbData[slotOf[c]].status = "Pending"

AwaitInv == \A c \in WithCallback : Unanswered(c) => AwaitsItsAnswer(c)
ReadyOwn ==
    \A c \in Calls : Holds(c) /\ m_cbData[slotOf[c]].status = "Ready" =>
        m_cbData[slotOf[c]].answer = c
ClosureOwn == \A x \in todo : x.data # NoAnswer => x.data = x.call

OwnInv == Undisturbed => AwaitInv /\ ReadyOwn /\ ClosureOwn /\ AnswersMatch

LEMMA InAppend ==
    ASSUME NEW S, NEW s \in Seq(S), NEW e \in S, NEW c
    PROVE  InSeq(c, Append(s, e)) <=> InSeq(c, s) \/ c = e
<1>1. /\ DOMAIN s = 1 .. Len(s) /\ Len(s) \in Nat
      /\ DOMAIN Append(s, e) = 1 .. Len(s) + 1
      /\ Append(s, e)[Len(s) + 1] = e
      /\ \A n \in 1 .. Len(s) : Append(s, e)[n] = s[n]
  OBVIOUS
<1>2. ASSUME NEW n \in DOMAIN s PROVE n \in DOMAIN Append(s, e) /\ Append(s, e)[n] = s[n]
  BY <1>1
<1>3. ASSUME NEW n \in DOMAIN Append(s, e) PROVE n \in DOMAIN s \/ Append(s, e)[n] = e
  BY <1>1
<1>4. Len(s) + 1 \in DOMAIN Append(s, e)
  BY <1>1
<1> QED BY <1>1, <1>2, <1>3, <1>4 DEF InSeq

LEMMA InTail ==
    ASSUME NEW S, NEW s \in Seq(S), s # <<>>, NEW c
    PROVE  /\ InSeq(c, Tail(s)) => InSeq(c, s)
           /\ InSeq(Head(s), s)
<1>1. /\ DOMAIN s = 1 .. Len(s) /\ Len(s) \in Nat \ {0} /\ Head(s) = s[1]
      /\ DOMAIN Tail(s) = 1 .. Len(s) - 1
      /\ \A n \in 1 .. Len(s) - 1 : Tail(s)[n] = s[n + 1]
  OBVIOUS
<1>2. InSeq(Head(s), s)
  BY <1>1 DEF InSeq
<1>3. ASSUME NEW n \in DOMAIN Tail(s) PROVE n + 1 \in DOMAIN s /\ Tail(s)[n] = s[n + 1]
  BY <1>1
<1> QED BY <1>2, <1>3 DEF InSeq

LEMMA InEmpty == \A c : ~ InSeq(c, <<>>)
BY DEF InSeq

\* Only PushCall sends a frame on its way.
LEMMA ServerStepTravels ==
    ASSUME TypeInv, ServerStep
    PROVE  \A c \in Calls : Travelling(c)' => Travelling(c)
<1> USE InEmpty DEF TypeInv, TypeOK, CallSpaceTypeOK, ServerTypeOK
<1>1. CASE ReadMemory
  BY <1>1 DEF ReadMemory, pop, clear, Travelling
<1>2. CASE Dispatch
  <2>1. /\ Head(batch) \in Calls /\ InSeq(Head(batch), batch)
        /\ \A c \in Calls : InSeq(c, batch)' => InSeq(c, batch)
    BY <1>2, InTail, HeadAndTail DEF Dispatch
  <2>2. ASSUME NEW c \in Calls, InSeq(c, posted)' PROVE InSeq(c, posted) \/ c = Head(batch)
    <3>1. posted' = posted \/ posted' = Append(posted, Head(batch))
      BY <1>2 DEF Dispatch
    <3>2. CASE UNCHANGED posted
      BY <2>2, <3>2 DEF InSeq
    <3>3. CASE posted' = Append(posted, Head(batch))
      <4>1. InSeq(c, Append(posted, Head(batch)))
        BY <2>2, <3>3 DEF InSeq
      <4>2. posted \in Seq(Calls)
        OBVIOUS
      <4> QED BY <2>1, <4>1, <4>2, InAppend
    <3> QED BY <3>1, <3>2, <3>3
  <2>3. handling' \subseteq handling \cup {Head(batch)}
    BY <1>2 DEF Dispatch, Invoke
  <2>4. UNCHANGED m_data
    BY <1>2 DEF Dispatch, callSpaceVars
  <2> QED BY <2>1, <2>2, <2>3, <2>4 DEF Travelling
<1>3. CASE RunPosted
  <2>1. /\ InSeq(Head(posted), posted)
        /\ \A c \in Calls : InSeq(c, posted)' => InSeq(c, posted)
    BY <1>3, InTail DEF RunPosted
  <2>2. handling' \subseteq handling \cup {Head(posted)} /\ UNCHANGED <<m_data, batch>>
    BY <1>3 DEF RunPosted, Invoke, callSpaceVars
  <2> QED BY <2>1, <2>2 DEF Travelling
<1>4. CASE ServerExit
  BY <1>4 DEF ServerExit, Travelling, callSpaceVars
<1>5. CASE ServerCrash
  BY <1>5 DEF ServerCrash, Travelling, callSpaceVars
<1>6. CASE ServerStart
  BY <1>6 DEF ServerStart, Travelling, callSpaceVars
<1> QED BY <1>1, <1>2, <1>3, <1>4, <1>5, <1>6 DEF ServerStep

LEMMA PushTravels ==
    ASSUME TypeInv, NEW c \in Calls, PushCall(c)
    PROVE  \A d \in Calls : Travelling(d)' => Travelling(d) \/ d = c
<1>1. \A d \in Calls : InSeq(d, m_data)' => InSeq(d, m_data) \/ d = c
  <2>1. m_data' = m_data \/ m_data' = Append(m_data, c)
    BY DEF PushCall, push
  <2> QED BY <2>1, InAppend DEF TypeInv, TypeOK, CallSpaceTypeOK
<1> QED BY <1>1 DEF PushCall, serverVars, Travelling

LEMMA OthersTravel ==
    ASSUME UNCHANGED <<m_data, batch, posted, handling>>
    PROVE  \A c \in Calls : Travelling(c)' <=> Travelling(c)
BY DEF Travelling

LEMMA InitTravelInv == Init => TravelInv
BY InEmpty DEF Init, CallSpaceInit, TravelInv, Travelling

LEMMA StepTravelInv == TypeInv /\ TravelInv /\ [Next]_vars => TravelInv'
<1> SUFFICES ASSUME TypeInv, TravelInv, [Next]_vars PROVE TravelInv'
  OBVIOUS
<1> USE DEF callVars, serverVars, callSpaceVars
<1>1. UNCHANGED <<m_data, batch, posted, handling, caller>> => TravelInv'
  BY OthersTravel DEF TravelInv
<1>2. CASE UNCHANGED vars
  BY <1>1, <1>2 DEF vars
<1>3. ASSUME NEW c \in Calls, PushCall(c) PROVE TravelInv'
  BY <1>3, PushTravels DEF PushCall, Goto, TravelInv, TypeInv, TypeOK, CallTypeOK
<1>4. ASSUME NEW c \in Calls, CallStep(c), ~ PushCall(c) PROVE TravelInv'
  <2>1. UNCHANGED <<m_data, batch, posted, handling>>
    BY <1>4 DEF CallStep, Reject, StartOneWay, TakeSlot, NoSlotLeft, Register
  <2>2. caller[c] # "returned" /\ \A d \in Calls \ {c} : caller'[d] = caller[d]
    BY <1>4 DEF CallStep, Reject, StartOneWay, TakeSlot, NoSlotLeft, Register, CanStart, Goto,
                TypeInv, TypeOK, CallTypeOK
  <2> QED BY <2>1, <2>2, OthersTravel DEF TravelInv
<1>5. ASSUME NEW c \in Calls, VisitStep(c) \/ Expire(c) \/ Answer(c) PROVE TravelInv'
  BY <1>1, <1>5 DEF VisitStep, VisitDue, VisitAnswered, VisitWaiting, Expire, Answer
<1>6. ASSUME NEW k \in Clients, ConnectionStep(k) \/ CallbackThreadStep(k) PROVE TravelInv'
  BY <1>1, <1>6 DEF ConnectionStep, Connect, Disconnect, Destroy, generateClientId,
                    CallbackThreadStep, LoopTop, Wake, EndPass, EndRun
<1>7. ASSUME NEW x \in todo, RunAnswered(x) \/ RunTimeout(x) PROVE TravelInv'
  BY <1>1, <1>7 DEF RunAnswered, RunTimeout
<1>8. CASE ServerStep
  <2>1. UNCHANGED caller
    BY <1>8 DEF ServerStep, ReadMemory, Dispatch, RunPosted, ServerExit, ServerCrash, ServerStart
  <2> QED BY <1>8, <2>1, ServerStepTravels DEF TravelInv
<1> QED BY <1>2, <1>3, <1>4, <1>5, <1>6, <1>7, <1>8 DEF Next

LEMMA FirstKept ==
    ASSUME NEW S, NEW s \in Seq(S), s # <<>>, NEW e
    PROVE  Append(s, e) # <<>> /\ Append(s, e)[1] = s[1]
<1>1. s \in Seq(S \cup {e}) /\ Len(s) \in Nat \ {0}
  OBVIOUS
<1>2. Len(Append(s, e)) = Len(s) + 1 /\ Append(s, e)[1] = s[1]
  BY <1>1
<1> QED BY <1>1, <1>2

\* Once disturbed, always disturbed.
LEMMA DeliveryKept ==
    ASSUME TypeInv, [Next]_vars, NEW c \in Calls, delivered[c] # <<>>
    PROVE  delivered'[c] # <<>> /\ delivered'[c][1] = delivered[c][1]
<1> USE DEF TypeInv, TypeOK, CallTypeOK, callVars
<1>1. ASSUME NEW d \in Calls, NEW what, Deliver(d, what)
      PROVE  delivered'[c] # <<>> /\ delivered'[c][1] = delivered[c][1]
  <2>1. delivered'[c] = delivered[c] \/ delivered'[c] = Append(delivered[c], what)
    BY <1>1 DEF Deliver
  <2> QED BY <2>1, FirstKept
<1>2. UNCHANGED delivered \/ \E d \in Calls : \E what : Deliver(d, what)
  <2>1. CASE UNCHANGED vars
    BY <2>1 DEF vars
  <2>2. ASSUME NEW d \in Calls, CallStep(d)
        PROVE  UNCHANGED delivered \/ \E what : Deliver(d, what)
    BY <2>2 DEF CallStep, Reject, StartOneWay, TakeSlot, NoSlotLeft, Register, PushCall
  <2>3. ASSUME NEW x \in todo, RunAnswered(x) \/ RunTimeout(x)
        PROVE  x.call \in Calls /\ \E what : Deliver(x.call, what)
    BY <2>3, RequestReplyAssumption DEF RunAnswered, RunTimeout, WaitingTypeOK, Closure
  <2>4. ASSUME NEW d \in Calls, Expire(d) \/ VisitStep(d) \/ Answer(d) PROVE UNCHANGED delivered
    BY <2>4 DEF Expire, VisitStep, VisitDue, VisitAnswered, VisitWaiting, Answer
  <2>5. ASSUME NEW k \in Clients, ConnectionStep(k) \/ CallbackThreadStep(k)
        PROVE  UNCHANGED delivered
    BY <2>5 DEF ConnectionStep, Connect, Disconnect, Destroy,
                CallbackThreadStep, LoopTop, Wake, EndPass, EndRun
  <2>6. CASE ServerStep
    BY <2>6 DEF ServerStep, ReadMemory, Dispatch, RunPosted, ServerExit, ServerCrash, ServerStart
  <2> QED BY <2>1, <2>2, <2>3, <2>4, <2>5, <2>6 DEF Next
<1> QED BY <1>1, <1>2

LEMMA AnswersGrow ==
    ASSUME TypeInv, [Next]_vars, NEW c \in Calls
    PROVE  answers'[c] >= answers[c]
<1>1. answers[c] \in Nat
  BY DEF TypeInv, TypeOK, ServerTypeOK
<1>2. ASSUME NEW d \in Calls, Answer(d) PROVE answers'[c] >= answers[c]
  BY <1>1, <1>2 DEF Answer, TypeInv, TypeOK, ServerTypeOK
<1>3. (\A d \in Calls : ~ Answer(d)) => UNCHANGED answers
  <2> USE DEF serverVars
  <2>1. CASE UNCHANGED vars
    BY <2>1 DEF vars
  <2>2. ASSUME NEW d \in Calls, CallStep(d) \/ Expire(d) \/ VisitStep(d) PROVE UNCHANGED answers
    BY <2>2 DEF CallStep, Reject, StartOneWay, TakeSlot, NoSlotLeft, Register, PushCall,
                Expire, VisitStep, VisitDue, VisitAnswered, VisitWaiting
  <2>3. ASSUME NEW x \in todo, RunAnswered(x) \/ RunTimeout(x) PROVE UNCHANGED answers
    BY <2>3 DEF RunAnswered, RunTimeout
  <2>4. ASSUME NEW k \in Clients, ConnectionStep(k) \/ CallbackThreadStep(k)
        PROVE  UNCHANGED answers
    BY <2>4 DEF ConnectionStep, Connect, Disconnect, Destroy,
                CallbackThreadStep, LoopTop, Wake, EndPass, EndRun
  <2>5. CASE ServerStep
    BY <2>5 DEF ServerStep, ReadMemory, Dispatch, RunPosted, ServerExit, ServerCrash, ServerStart
  <2> QED BY <2>1, <2>2, <2>3, <2>4, <2>5 DEF Next
<1> QED BY <1>1, <1>2, <1>3

LEMMA StaysDisturbed ==
    ASSUME TypeInv, TypeInv', [Next]_vars, Undisturbed'
    PROVE  Undisturbed
<1>1. \A c \in Calls : answers[c] \in Nat /\ answers'[c] \in Nat
  BY DEF TypeInv, TypeOK, ServerTypeOK
<1>2. \A c \in Calls : answers[c] <= answers'[c]
  BY <1>1, AnswersGrow
<1>3. \A c \in Calls : ~ Failed(c, "Timeout")
  BY DeliveryKept DEF Undisturbed, Failed
<1>4. \A c \in Calls : answers'[c] <= 1 /\ (c \notin WithCallback => answers'[c] = 0)
  BY DEF Undisturbed
<1> QED BY <1>1, <1>2, <1>3, <1>4 DEF Undisturbed

Owned == AwaitInv /\ ReadyOwn /\ ClosureOwn /\ AnswersMatch

\* No slot changes hands or content, and no closure with an answer is added.
LEMMA QuietStep ==
    ASSUME TypeInv, Owned, UNCHANGED m_cbData,
           \A c \in WithCallback : Unanswered(c)' => Unanswered(c),
           \A c \in Calls : Holds(c)' <=> Holds(c),
           \A c \in WithCallback : slotOf'[c] = slotOf[c],
           \A x \in todo' : x \in todo \/ x.data = NoAnswer,
           AnswersMatch'
    PROVE  Owned'
<1>1. AwaitInv'
  BY RequestReplyAssumption DEF Owned, AwaitInv, AwaitsItsAnswer
<1>2. ReadyOwn'
  <2>1. \A c \in Calls : Holds(c) => slotOf'[c] = slotOf[c]
    BY DEF Holds
  <2> QED BY <2>1 DEF Owned, ReadyOwn
<1>3. ClosureOwn'
  BY DEF Owned, ClosureOwn
<1> QED BY <1>1, <1>2, <1>3 DEF Owned

LEMMA SameDelivered == AnswersMatch /\ UNCHANGED delivered => AnswersMatch'
BY DEF AnswersMatch

\* What a call that had nothing yet is given, if an answer, is its own.
LEMMA OneDelivered ==
    ASSUME TypeInv, AnswersMatch, NEW c \in Calls, NEW what, what \in Calls => what = c,
           delivered[c] = <<>>, Deliver(c, what)
    PROVE  AnswersMatch'
<1>1. delivered'[c] = Append(<<>>, what) /\ \A d \in Calls \ {c} : delivered'[d] = delivered[d]
  BY DEF Deliver, TypeInv, TypeOK, CallTypeOK
<1>2. DOMAIN Append(<<>>, what) = {1} /\ Append(<<>>, what)[1] = what
  <2>1. <<>> \in Seq({what})
    OBVIOUS
  <2> QED BY <2>1
<1> QED BY <1>1, <1>2 DEF AnswersMatch

LEMMA InitOwned == Init => Owned
<1> SUFFICES ASSUME Init PROVE Owned
  OBVIOUS
<1>1. AwaitInv
  BY InEmpty, RequestReplyAssumption DEF Init, CallSpaceInit, AwaitInv, Unanswered, Travelling
<1>2. ReadyOwn /\ ClosureOwn /\ AnswersMatch
  BY DEF Init, ReadyOwn, Holds, ClosureOwn, AnswersMatch
<1> QED BY <1>1, <1>2 DEF Owned

LEMMA CallStepOwned ==
    ASSUME TypeInv, PlaceInv, SlotOwnership, TravelInv, Owned, NEW c \in Calls, CallStep(c)
    PROVE  Owned'
<1> USE DEF TypeInv, TypeOK, CallTypeOK, clientVars, waitingVars, serverVars, callSpaceVars
<1>1. ASSUME ~ PushCall(c) PROVE \A d \in Calls : Travelling(d)' <=> Travelling(d)
  BY <1>1, OthersTravel DEF CallStep, Reject, StartOneWay, TakeSlot, NoSlotLeft, Register
<1>2. UNCHANGED answers
  BY DEF CallStep, Reject, StartOneWay, TakeSlot, NoSlotLeft, Register, PushCall
<1>3. CASE Reject(c) \/ NoSlotLeft(c)
  <2>1. CanStart(c) /\ Goto(c, "returned") /\ ~ PushCall(c)
        /\ UNCHANGED <<m_cbData, slotOf, subs, todo, abandoned>>
    BY <1>3 DEF Reject, NoSlotLeft, CanStart, PushCall
  <2>2. delivered[c] = <<>>
    BY <2>1 DEF CanStart, PlaceInv, OnePlace
  <2>3. AnswersMatch'
    <3>1. "InvalidPayload" \notin Calls /\ "TransportFailure" \notin Calls
      BY ErrorsAreNotAnswers DEF Errors
    <3>2. UNCHANGED delivered \/ Deliver(c, "InvalidPayload") \/ Deliver(c, "TransportFailure")
      BY <1>3 DEF Reject, NoSlotLeft
    <3> QED BY <2>2, <3>1, <3>2, SameDelivered, OneDelivered DEF Owned
  <2>4. \A d \in Calls : Holds(d)' <=> Holds(d)
    BY <2>1 DEF CanStart, Goto, Holds
  <2>5. \A d \in WithCallback : Unanswered(d)' => Unanswered(d)
    BY <1>1, <1>2, <2>1, RequestReplyAssumption DEF Unanswered, Goto
  <2> QED BY <2>1, <2>3, <2>4, <2>5, QuietStep
<1>4. CASE StartOneWay(c)
  <2>1. c \notin WithCallback /\ Goto(c, "push") /\ ~ PushCall(c)
        /\ UNCHANGED <<m_cbData, delivered, subs, todo, abandoned>>
    BY <1>4 DEF StartOneWay, CanStart, PushCall
  <2>2. \A d \in WithCallback : slotOf'[d] = slotOf[d] /\ caller'[d] = caller[d]
    BY <1>4, <2>1, RequestReplyAssumption DEF StartOneWay, Goto
  <2>3. \A d \in Calls : Holds(d)' <=> Holds(d)
    BY <2>1, <2>2 DEF Holds
  <2>4. \A d \in WithCallback : Unanswered(d)' => Unanswered(d)
    BY <1>1, <1>2, <2>1, <2>2, RequestReplyAssumption DEF Unanswered
  <2> QED BY <2>1, <2>2, <2>3, <2>4, QuietStep, SameDelivered DEF Owned
<1>5. CASE Register(c)
  <2>1. caller[c] = "slot" /\ c \in WithCallback /\ Goto(c, "push") /\ subs' = subs \cup {c}
        /\ ~ PushCall(c) /\ UNCHANGED <<m_cbData, slotOf, delivered, todo, abandoned>>
    BY <1>5 DEF Register, PushCall, TakerInv
  <2>2. \A d \in Calls : Holds(d)' <=> Holds(d)
    BY <2>1 DEF Goto, Holds
  <2>3. \A d \in WithCallback : Unanswered(d)' => Unanswered(d)
    BY <1>1, <1>2, <2>1, RequestReplyAssumption DEF Unanswered, Goto
  <2> QED BY <2>1, <2>2, <2>3, QuietStep, SameDelivered DEF Owned
<1>6. CASE PushCall(c)
  <2>1. caller[c] = "push" /\ Goto(c, "returned")
        /\ UNCHANGED <<m_cbData, slotOf, delivered, subs, todo, abandoned>>
    BY <1>6 DEF PushCall
  <2>2. \A d \in Calls : Holds(d)' <=> Holds(d)
    BY <2>1 DEF Goto, Holds
  <2>3. \A d \in WithCallback : Unanswered(d)' => Unanswered(d)
    BY <1>2, <1>6, <2>1, PushTravels, RequestReplyAssumption DEF Unanswered, Goto
  <2> QED BY <2>1, <2>2, <2>3, QuietStep, SameDelivered DEF Owned
<1>7. CASE TakeSlot(c)
  <2>1. PICK i \in Slots : pushCallback(i) /\ slotOf' = [slotOf EXCEPT ![c] = i]
    BY <1>7 DEF TakeSlot
  <2>2. /\ CanStart(c) /\ c \in WithCallback /\ Goto(c, "slot") /\ ~ PushCall(c)
        /\ UNCHANGED <<delivered, subs, todo, abandoned>>
    BY <1>7 DEF TakeSlot, CanStart, PushCall
  <2>3. m_cbData[i].status = "NoData" /\ m_cbData'[i].status = "Pending"
        /\ \A j \in Slots \ {i} : m_cbData'[j] = m_cbData[j]
    BY <2>1 DEF pushCallback, IsNextSlot, FreeSlots, CallbackSpaceTypeOK
  <2>4. \A d \in Calls : Holds(d)' <=> Holds(d) \/ d = c
    BY <2>2 DEF CanStart, Goto, Holds
  <2>5. \A d \in Calls \ {c} : slotOf'[d] = slotOf[d] /\ (Holds(d) => slotOf[d] # i)
    BY <2>1, <2>3 DEF SlotOwnership, Holders
  <2>6. \A d \in Calls \ {c} : Unanswered(d)' => Unanswered(d)
    BY <1>1, <1>2, <2>2 DEF Unanswered, Goto
  <2>7. slotOf'[c] = i
    BY <2>1
  <2>8. /\ AwaitsItsAnswer(c)'
        /\ \A d \in Calls \ {c} : AwaitsItsAnswer(d) => AwaitsItsAnswer(d)'
    <3>1. AwaitsItsAnswer(c)'
      BY <2>3, <2>4, <2>7 DEF AwaitsItsAnswer
    <3>2. ASSUME NEW d \in Calls \ {c}, AwaitsItsAnswer(d) PROVE AwaitsItsAnswer(d)'
      <4>1. slotOf'[d] = slotOf[d] /\ m_cbData'[slotOf[d]] = m_cbData[slotOf[d]]
        BY <2>3, <2>5, <3>2 DEF AwaitsItsAnswer
      <4> QED BY <2>4, <3>2, <4>1 DEF AwaitsItsAnswer
    <3> QED BY <3>1, <3>2
  <2>9. AwaitInv' /\ ReadyOwn'
    <3>1. AwaitInv'
      BY <2>6, <2>8, RequestReplyAssumption DEF Owned, AwaitInv
    <3>2. ASSUME NEW d \in Calls \ {c}, Holds(d)'
          PROVE  m_cbData'[slotOf'[d]] = m_cbData[slotOf[d]] /\ slotOf'[d] = slotOf[d] /\ Holds(d)
      BY <2>3, <2>4, <2>5, <3>2
    <3>3. ReadyOwn'
      BY <2>3, <2>7, <3>2 DEF Owned, ReadyOwn
    <3> QED BY <3>1, <3>3
  <2>10. ClosureOwn' /\ AnswersMatch'
    BY <2>2, SameDelivered DEF Owned, ClosureOwn
  <2> QED BY <2>9, <2>10 DEF Owned
<1> QED BY <1>3, <1>4, <1>5, <1>6, <1>7 DEF CallStep

LEMMA VisitAnsweredOwned ==
    ASSUME TypeInv, PlaceInv, SlotOwnership, Owned, NEW c \in Calls, VisitAnswered(c)
    PROVE  Owned'
<1> USE DEF TypeInv, TypeOK, CallTypeOK, callVars, serverVars, callSpaceVars
<1>1. PICK i \in Slots : i = slotOf[c]
  OBVIOUS
<1>2. /\ c \in subs /\ c \in WithCallback /\ Holds(c)
      /\ UNCHANGED <<slotOf, caller, delivered, answers, abandoned>>
      /\ popCallback(i) /\ TakeOut(c, m_cbData[i].answer)
  BY <1>1 DEF VisitAnswered, Visiting, WaitingTypeOK, Holds
<1>3. m_cbData[i].status = "Ready" /\ m_cbData[i].answer = c
  BY <1>1, <1>2 DEF popCallback, isCallbackAvailable, Owned, ReadyOwn
<1>4. \A j \in Slots \ {i} : m_cbData'[j] = m_cbData[j]
  BY <1>2 DEF popCallback, CallbackSpaceTypeOK
<1>5. \A d \in Calls \ {c} :
        /\ Holds(d)' <=> Holds(d)
        /\ Holds(d) => slotOf[d] # i
  BY <1>1, <1>2 DEF TakeOut, Holds, SlotOwnership
<1>6. ~ Holds(c)'
  <2>1. c # NoAnswer
    BY CallbackSpaceAssumption, RequestReplyAssumption
  <2> QED BY <1>2, <1>3, <2>1 DEF TakeOut, Holds, PlaceInv, OnePlace, HasClosure
<1>7. \A d \in Calls : Unanswered(d)' <=> Unanswered(d)
  BY <1>2, OthersTravel DEF VisitAnswered, Unanswered
<1>8. ~ Unanswered(c)
  BY <1>1, <1>2, <1>3 DEF Owned, AwaitInv, AwaitsItsAnswer
<1>9. AwaitInv'
  <2>1. ASSUME NEW d \in WithCallback, Unanswered(d)' PROVE AwaitsItsAnswer(d)'
    <3>1. d \in Calls \ {c} /\ AwaitsItsAnswer(d)
      BY <1>7, <1>8, <2>1, RequestReplyAssumption DEF Owned, AwaitInv
    <3>2. Holds(d) /\ Holds(d)' /\ slotOf[d] \in Slots \ {i}
      BY <1>5, <3>1 DEF AwaitsItsAnswer
    <3>3. slotOf'[d] = slotOf[d] /\ m_cbData'[slotOf[d]] = m_cbData[slotOf[d]]
      BY <1>2, <1>4, <3>2
    <3> QED BY <3>1, <3>2, <3>3 DEF AwaitsItsAnswer
  <2> QED BY <2>1 DEF AwaitInv
<1>10. ReadyOwn'
  <2>1. ASSUME NEW d \in Calls, Holds(d)'
        PROVE  Holds(d) /\ m_cbData'[slotOf'[d]] = m_cbData[slotOf[d]]
    <3>1. d \in Calls \ {c}
      BY <1>6, <2>1
    <3>2. Holds(d) /\ slotOf[d] \in Slots \ {i}
      BY <1>5, <2>1, <3>1
    <3>3. slotOf' = slotOf /\ m_cbData'[slotOf[d]] = m_cbData[slotOf[d]]
      BY <1>2, <1>4, <3>2
    <3> QED BY <3>2, <3>3
  <2> QED BY <2>1 DEF Owned, ReadyOwn
<1>11. ClosureOwn' /\ AnswersMatch'
  BY <1>2, <1>3, SameDelivered DEF Owned, ClosureOwn, TakeOut
<1> QED BY <1>9, <1>10, <1>11 DEF Owned

LEMMA AnswerOwned ==
    ASSUME TypeInv, SlotOwnership, Owned, NEW c \in Calls, Answer(c), Undisturbed'
    PROVE  Owned'
<1> USE DEF TypeInv, TypeOK, CallTypeOK, callVars, serverVars, callSpaceVars, clientVars, waitingVars
<1>1. /\ c \in WithCallback /\ answers[c] = 0 /\ answers'[c] = 1
      /\ \A d \in Calls \ {c} : answers'[d] = answers[d]
  BY DEF Answer, Undisturbed, ServerTypeOK
<1>2. AwaitsItsAnswer(c)
  BY <1>1 DEF Answer, Unanswered, Travelling, Owned, AwaitInv
<1>3. UNCHANGED <<slotOf, caller, delivered, subs, todo, abandoned>>
  BY DEF Answer
<1>4. /\ m_cbData'[slotOf[c]] = [status |-> "Ready", answer |-> c]
      /\ \A j \in Slots \ {slotOf[c]} : m_cbData'[j] = m_cbData[j]
  BY <1>2 DEF AwaitsItsAnswer, Answer, updateCallback, AcceptsAnswer, CallbackSpaceTypeOK
<1>5. \A d \in Calls : Holds(d)' <=> Holds(d)
  BY <1>3 DEF Holds
<1>6. \A d \in Calls \ {c} : Holds(d) => slotOf[d] # slotOf[c]
  BY <1>2 DEF AwaitsItsAnswer, SlotOwnership
<1>7. \A d \in Calls : Unanswered(d)' => Unanswered(d) /\ d # c
  BY <1>1, <1>3, OthersTravel DEF Answer, Unanswered
<1>8. AwaitInv'
  <2>1. ASSUME NEW d \in WithCallback, Unanswered(d)' PROVE AwaitsItsAnswer(d)'
    <3>1. d \in Calls \ {c} /\ AwaitsItsAnswer(d)
      BY <1>7, <2>1, RequestReplyAssumption DEF Owned, AwaitInv
    <3> QED BY <1>3, <1>4, <1>5, <1>6, <3>1 DEF AwaitsItsAnswer
  <2> QED BY <2>1 DEF AwaitInv
<1>9. ReadyOwn'
  BY <1>3, <1>4, <1>5, <1>6 DEF Owned, ReadyOwn
<1>10. ClosureOwn' /\ AnswersMatch'
  BY <1>3, SameDelivered DEF Owned, ClosureOwn
<1> QED BY <1>8, <1>9, <1>10 DEF Owned

LEMMA RunStepOwned ==
    ASSUME TypeInv, PlaceInv, Owned, NEW x \in todo, RunAnswered(x) \/ RunTimeout(x),
           Undisturbed'
    PROVE  Owned'
<1> USE DEF TypeInv, TypeOK, CallTypeOK, serverVars, callSpaceVars
<1>1. x.call \in Calls /\ delivered[x.call] = <<>> /\ x \in Closure
  BY RequestReplyAssumption DEF WaitingTypeOK, Closure, PlaceInv, OnePlace, HasClosure
<1>2. ~ RunTimeout(x)
  <2>1. SUFFICES ASSUME RunTimeout(x) PROVE FALSE
    OBVIOUS
  <2>2. delivered'[x.call] = Append(<<>>, "Timeout")
    BY <1>1, <2>1 DEF RunTimeout, Deliver
  <2>3. Append(<<>>, "Timeout") # <<>> /\ Append(<<>>, "Timeout")[1] = "Timeout"
    OBVIOUS
  <2> QED BY <1>1, <2>2, <2>3 DEF Undisturbed, Failed
<1>3. RunAnswered(x)
  BY <1>2
<1>4. x.data = x.call /\ x.data # NoAnswer
  BY <1>3 DEF RunAnswered, Owned, ClosureOwn
<1>5. AnswersMatch'
  BY <1>1, <1>3, <1>4, OneDelivered DEF RunAnswered, Owned
<1>6. \A d \in Calls : Holds(d)' <=> Holds(d)
  BY <1>3, <1>4 DEF RunAnswered, Holds
<1>7. \A d \in WithCallback : Unanswered(d)' => Unanswered(d)
  BY <1>3, OthersTravel, RequestReplyAssumption DEF RunAnswered, Unanswered
<1> QED BY <1>3, <1>5, <1>6, <1>7, QuietStep DEF RunAnswered

LEMMA StepOwned ==
    ASSUME TypeInv, PlaceInv, SlotOwnership, TravelInv, Owned, [Next]_vars, Undisturbed'
    PROVE  Owned'
<1> USE DEF callVars, serverVars, callSpaceVars
<1>1. ASSUME UNCHANGED <<m_cbData, callVars, answers>>,
             \A c \in Calls : Travelling(c)' => Travelling(c),
             \A c \in Calls : Holds(c)' <=> Holds(c),
             \A x \in todo' : x \in todo \/ x.data = NoAnswer
      PROVE  Owned'
  <2>1. \A c \in WithCallback : Unanswered(c)' => Unanswered(c)
    BY <1>1, RequestReplyAssumption DEF Unanswered
  <2> QED BY <1>1, <2>1, QuietStep, SameDelivered DEF Owned
<1>2. ASSUME UNCHANGED <<m_cbData, callVars, answers, m_data, batch, posted, handling,
                         subs, todo, abandoned>>
      PROVE  Owned'
  BY <1>1, <1>2, OthersTravel DEF Holds
<1>3. CASE UNCHANGED vars
  BY <1>2, <1>3 DEF vars, clientVars, waitingVars
<1>4. ASSUME NEW c \in Calls, Expire(c) \/ VisitWaiting(c) PROVE Owned'
  BY <1>2, <1>4 DEF Expire, VisitWaiting
<1>5. ASSUME NEW c \in Calls, VisitDue(c) PROVE Owned'
  <2>1. c \in subs /\ c \in WithCallback
    BY <1>5 DEF VisitDue, Visiting, TypeInv, TypeOK, WaitingTypeOK
  <2>2. /\ UNCHANGED <<m_cbData, callVars, answers, m_data, batch, posted, handling, abandoned>>
        /\ TakeOut(c, NoAnswer)
    BY <1>5 DEF VisitDue
  <2>3. \A d \in Calls : Holds(d)' <=> Holds(d)
    BY <2>1, <2>2 DEF TakeOut, Holds
  <2>4. \A x \in todo' : x \in todo \/ x.data = NoAnswer
    BY <2>2 DEF TakeOut
  <2> QED BY <1>1, <2>2, <2>3, <2>4, OthersTravel
<1>6. ASSUME NEW k \in Clients, Connect(k) \/ Disconnect(k) \/ CallbackThreadStep(k)
      PROVE  Owned'
  BY <1>2, <1>6 DEF Connect, Disconnect, generateClientId, CallbackThreadStep, LoopTop, Wake,
                    EndPass, EndRun, waitingVars
<1>7. ASSUME NEW k \in Clients, Destroy(k) PROVE Owned'
  <2>1. /\ UNCHANGED <<m_cbData, callVars, answers, m_data, batch, posted, handling, todo>>
        /\ subs' = subs \ Of(subs, k) /\ abandoned' = abandoned \cup Of(subs, k)
    BY <1>7 DEF Destroy
  <2>2. \A d \in Calls : Holds(d)' <=> Holds(d)
    BY <2>1 DEF Holds, Of
  <2> QED BY <1>1, <2>1, <2>2, OthersTravel
<1>8. CASE ServerStep
  <2>1. UNCHANGED <<m_cbData, callVars, answers, subs, todo, abandoned>>
    BY <1>8 DEF ServerStep, ReadMemory, Dispatch, RunPosted, ServerExit, ServerCrash,
                ServerStart, clientVars, waitingVars
  <2> QED BY <1>1, <1>8, <2>1, ServerStepTravels DEF Holds
<1> QED BY <1>3, <1>4, <1>5, <1>6, <1>7, <1>8, CallStepOwned, VisitAnsweredOwned, AnswerOwned,
           RunStepOwned DEF Next, VisitStep, ConnectionStep

\* As long as no call has timed out, no method answered twice and none answered
\* unasked, the answer a callback gets is that of its own call, though slots carry
\* no call id (CallbackSpace.h:69-88): a call that may still be answered has not
\* given its slot back, so its slot has no other holder.
THEOREM OwnAnswers == Spec => []AnswersMatchUndisturbed
<1> DEFINE Inv == TypeInv /\ PlaceInv /\ SlotOwnership /\ TravelInv /\ OwnInv
<1>1. Init => Inv
  BY InitTypeInv, InitPlaceInv, InitSlotOwnership, InitTravelInv, InitOwned DEF OwnInv, Owned
<1>2. Inv /\ [Next]_vars => Inv'
  <2> SUFFICES ASSUME Inv, [Next]_vars PROVE Inv'
    OBVIOUS
  <2>1. TypeInv' /\ PlaceInv' /\ SlotOwnership' /\ TravelInv'
    BY StepTypeInv, StepPlaceInv, StepSlotOwnership, StepTravelInv
  <2>2. OwnInv'
    BY <2>1, StaysDisturbed, StepOwned DEF OwnInv, Owned
  <2> QED BY <2>1, <2>2
<1>3. Inv => AnswersMatchUndisturbed
  BY DEF OwnInv, AnswersMatchUndisturbed
<1> QED BY <1>1, <1>2, <1>3, PTL DEF Spec
=============================================================================
