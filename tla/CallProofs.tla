------------------------------ MODULE CallProofs ------------------------------
(***************************************************************************)
(* What the library promises to a call and to a frame, for any calls,      *)
(* clients, slots, sizes and bounds:                                       *)
(*                                                                         *)
(*   - RequestReply implements CallPromise: initial states map to the      *)
(*     initial state, and every step to a step of at most one action of    *)
(*     the promise, or to none;                                            *)
(*   - the server runs methods in the order in which the frames entered    *)
(*     the call space.  A frame is accepted once, since its caller returns *)
(*     from push.  From then on it moves from the call space to the batch, *)
(*     from there to the loop or into its method.  Whatever is ahead was   *)
(*     accepted before;                                                    *)
(*   - no accepted frame is lost but those a server had in its hands when  *)
(*     it ended.                                                           *)
(***************************************************************************)
EXTENDS RequestReplyProofs, FilteringProofs, FiniteSetTheorems

(* The promise to a call *)

Inv == TypeInv /\ PlaceInv /\ SlotOwnership

HasAnswer(c) == \E x \in todo : x.call = c /\ x.data # NoAnswer

LEMMA FateOf ==
    ASSUME NEW c
    PROVE  Fate(c) = IF delivered[c] # <<>>
                     THEN IF delivered[c][1] \in Calls THEN "answered" ELSE delivered[c][1]
                     ELSE IF c \in abandoned THEN "forgotten"
                     ELSE IF HasAnswer(c) THEN "collected"
                     ELSE IF Holds(c) THEN "waiting" ELSE "idle"
BY DEF Fate, HasAnswer

\* A call to which nothing happens keeps its fate.
LEMMA SameFate ==
    ASSUME NEW c, delivered'[c] = delivered[c], c \in abandoned' <=> c \in abandoned,
           HasAnswer(c)' <=> HasAnswer(c), Holds(c)' <=> Holds(c)
    PROVE  Fate(c)' = Fate(c)
BY FateOf DEF Fate, HasAnswer

-----------------------------------------------------------------------------
(* The free slots *)

LEMMA FreeIsFinite == IsFiniteSet(FreeSlots) /\ Cardinality(FreeSlots) \in Nat
<1>1. IsFiniteSet(Slots)
  BY FS_Interval, CallbackSpaceAssumption DEF Slots
<1>2. FreeSlots \subseteq Slots
  BY DEF FreeSlots
<1>3. IsFiniteSet(FreeSlots)
  BY <1>1, <1>2, FS_Subset
<1> QED BY <1>3, FS_CardinalityType

LEMMA SameFree ==
    ASSUME \A i \in Slots : IsFree(i)' <=> IsFree(i) PROVE FreeSlots' = FreeSlots
BY DEF FreeSlots, IsFree, Slots

LEMMA OneTaken ==
    ASSUME NEW i \in Slots, IsFree(i), ~ IsFree(i)',
           \A j \in Slots \ {i} : IsFree(j)' <=> IsFree(j)
    PROVE  /\ Cardinality(FreeSlots) > 0
           /\ Cardinality(FreeSlots)' = Cardinality(FreeSlots) - 1
<1>1. i \in FreeSlots /\ FreeSlots' = FreeSlots \ {i}
  BY DEF FreeSlots, IsFree, Slots
<1>2. Cardinality(FreeSlots \ {i}) = Cardinality(FreeSlots) - 1
  BY <1>1, FreeIsFinite, FS_RemoveElement
<1>3. Cardinality(FreeSlots) # 0
  BY <1>1, FreeIsFinite, FS_EmptySet
<1>4. Cardinality(FreeSlots)' = Cardinality(FreeSlots \ {i})
  BY <1>1
<1> QED BY <1>2, <1>3, <1>4, FreeIsFinite

LEMMA OneFreed ==
    ASSUME NEW i \in Slots, ~ IsFree(i), IsFree(i)',
           \A j \in Slots \ {i} : IsFree(j)' <=> IsFree(j)
    PROVE  Cardinality(FreeSlots)' = Cardinality(FreeSlots) + 1
<1>1. i \notin FreeSlots /\ FreeSlots' = FreeSlots \cup {i}
  BY DEF FreeSlots, IsFree, Slots
<1>2. Cardinality(FreeSlots \cup {i}) = Cardinality(FreeSlots) + 1
  BY <1>1, FreeIsFinite, FS_AddElement
<1> QED BY <1>1, <1>2

\* What a call holds is not free.
LEMMA HeldIsTaken ==
    ASSUME Inv, NEW c \in Calls, Holds(c) PROVE slotOf[c] \in Slots /\ ~ IsFree(slotOf[c])
<1>1. slotOf[c] \in Slots
  BY DEF Inv, TypeInv, TypeOK, CallTypeOK
<1>2. c \in Holders(slotOf[c])
  BY DEF Holders
<1> QED BY <1>1, <1>2 DEF Inv, SlotOwnership, IsFree

-----------------------------------------------------------------------------
(* The steps *)

fateOf == [c \in WithCallback |-> Fate(c)]

\* Nothing the promise speaks of has changed.
LEMMA Stutters ==
    ASSUME \A c \in WithCallback : Fate(c)' = Fate(c),
           \A i \in Slots : IsFree(i)' <=> IsFree(i)
    PROVE  [Promise!Next]_Promise!promiseVars
<1>1. FreeSlots' = FreeSlots
  BY SameFree
<1>2. Cardinality(FreeSlots)' = Cardinality(FreeSlots)
  BY <1>1
<1>3. fateOf' = fateOf
  BY DEF fateOf
<1> QED BY <1>2, <1>3 DEF Promise!promiseVars, fateOf

LEMMA SameCallsStutter ==
    ASSUME UNCHANGED <<m_cbData, caller, delivered, subs, todo, abandoned>>
    PROVE  [Promise!Next]_Promise!promiseVars
<1>1. \A c \in WithCallback : Fate(c)' = Fate(c)
  BY DEF Fate, Holds
<1>2. \A i \in Slots : IsFree(i)' <=> IsFree(i)
  BY DEF IsFree
<1> QED BY <1>1, <1>2, Stutters

\* One call gets a new fate.
LEMMA OneBecomes ==
    ASSUME NEW c \in WithCallback, NEW what, Fate(c)' = what,
           \A d \in WithCallback \ {c} : Fate(d)' = Fate(d)
    PROVE  Promise!Becomes(c, what)
<1>1. fateOf' = [fateOf EXCEPT ![c] = what]
  BY DEF fateOf
<1> QED BY <1>1 DEF Promise!Becomes, fateOf

\* A call before it asks is idle.
LEMMA ReadyIsIdle ==
    ASSUME Inv, NEW c \in WithCallback, caller[c] = "ready"
    PROVE  /\ Fate(c) = "idle" /\ delivered[c] = <<>> /\ c \notin abandoned
           /\ ~ HasAnswer(c) /\ ~ Holds(c)
<1>1. c \in Calls
  BY RequestReplyAssumption
<1>2. delivered[c] = <<>> /\ c \notin subs /\ ~ HasClosure(c) /\ c \notin abandoned
  BY <1>1 DEF Inv, PlaceInv, OnePlace
<1>3. ~ HasAnswer(c) /\ ~ Holds(c)
  BY <1>2 DEF HasAnswer, HasClosure, Holds
<1> QED BY <1>2, <1>3, FateOf

LEMMA FailAtOnceBecomes ==
    ASSUME Inv, NEW c \in WithCallback, CanStart(c), NEW what \in Errors,
           Goto(c, "returned"), Deliver(c, what), UNCHANGED <<subs, todo, abandoned>>
    PROVE  fateOf[c] = "idle" /\ Promise!Becomes(c, what)
<1> USE RequestReplyAssumption DEF Inv, TypeInv, TypeOK, CallTypeOK
<1>1. Fate(c) = "idle" /\ delivered[c] = <<>>
  BY ReadyIsIdle DEF CanStart
<1>2. c \in Calls /\ delivered'[c] = <<what>>
  BY <1>1 DEF Deliver
<1>3. Fate(c)' = what
  <2>1. delivered'[c] # <<>> /\ delivered'[c][1] = what /\ what \notin Calls
    BY <1>2, ErrorsAreNotAnswers
  <2> QED BY <2>1 DEF Fate
<1>4. ASSUME NEW d \in WithCallback \ {c} PROVE Fate(d)' = Fate(d)
  <2>1. d \in Calls /\ delivered'[d] = delivered[d] /\ caller'[d] = caller[d]
    BY DEF Deliver, Goto
  <2> QED BY <2>1, SameFate DEF HasAnswer, Holds
<1> QED BY <1>1, <1>3, <1>4, OneBecomes DEF fateOf

LEMMA CallStepPromise ==
    ASSUME Inv, NEW c \in Calls, CallStep(c)
    PROVE  [Promise!Next]_Promise!promiseVars
<1> USE DEF Inv, TypeInv, TypeOK, CallTypeOK, clientVars, waitingVars
<1>1. ASSUME UNCHANGED m_cbData, \A d \in WithCallback : Fate(d)' = Fate(d)
      PROVE  [Promise!Next]_Promise!promiseVars
  BY <1>1, Stutters DEF IsFree
<1>2. CASE Reject(c) /\ c \in WithCallback
  <2>1. fateOf[c] = "idle" /\ Promise!Becomes(c, "InvalidPayload")
    BY <1>2, FailAtOnceBecomes DEF Reject, Errors
  <2>2. Cardinality(FreeSlots)' = Cardinality(FreeSlots)
    BY <1>2 DEF Reject, FreeSlots
  <2>3. Promise!Refuse(c)
    BY <1>2, <2>1, <2>2 DEF Reject, Promise!Refuse, fateOf
  <2> QED BY <1>2, <2>3 DEF Promise!Next
<1>3. CASE NoSlotLeft(c)
  <2>1. c \in WithCallback /\ validateCall(c) /\ FreeSlots = {}
    BY <1>3 DEF NoSlotLeft
  <2>2. fateOf[c] = "idle" /\ Promise!Becomes(c, "TransportFailure")
    BY <1>3, <2>1, FailAtOnceBecomes DEF NoSlotLeft, Errors
  <2>3. Cardinality(FreeSlots)' = Cardinality(FreeSlots) /\ Cardinality(FreeSlots) = 0
    <3>1. FreeSlots' = FreeSlots
      BY <1>3 DEF NoSlotLeft, FreeSlots
    <3> QED BY <2>1, <3>1, FS_EmptySet
  <2>4. Promise!TurnAway(c)
    BY <2>1, <2>2, <2>3 DEF Promise!TurnAway, fateOf
  <2> QED BY <2>1, <2>4 DEF Promise!Next
<1>4. CASE TakeSlot(c)
  <2>1. PICK i \in Slots : pushCallback(i) /\ slotOf' = [slotOf EXCEPT ![c] = i]
    BY <1>4 DEF TakeSlot
  <2>2. c \in WithCallback /\ validateCall(c) /\ caller[c] = "ready"
    BY <1>4 DEF TakeSlot, CanStart
  <2>3. IsFree(i) /\ ~ IsFree(i)' /\ \A j \in Slots \ {i} : IsFree(j)' <=> IsFree(j)
    BY <2>1 DEF pushCallback, IsNextSlot, FreeSlots, IsFree, CallbackSpaceTypeOK
  <2>4. Cardinality(FreeSlots) > 0 /\ Cardinality(FreeSlots)' = Cardinality(FreeSlots) - 1
    BY <2>3, OneTaken
  <2>5. /\ Fate(c) = "idle" /\ delivered[c] = <<>> /\ c \notin abandoned
        /\ ~ HasAnswer(c)
    BY <2>2, ReadyIsIdle
  <2>6. Fate(c)' = "waiting"
    <3>1. /\ delivered'[c] = <<>> /\ c \notin abandoned' /\ ~ HasAnswer(c)' /\ Holds(c)'
      BY <1>4, <2>2, <2>5 DEF TakeSlot, Goto, HasAnswer, Holds
    <3> QED BY <3>1 DEF Fate, HasAnswer
  <2>7. ASSUME NEW d \in WithCallback \ {c} PROVE Fate(d)' = Fate(d)
    <3>1. /\ delivered'[d] = delivered[d] /\ (d \in abandoned' <=> d \in abandoned)
          /\ HasAnswer(d)' <=> HasAnswer(d)
          /\ Holds(d)' <=> Holds(d)
      BY <1>4, RequestReplyAssumption DEF TakeSlot, Goto, HasAnswer, Holds
    <3> QED BY <3>1, SameFate
  <2>8. Promise!Becomes(c, "waiting")
    BY <2>2, <2>6, <2>7, OneBecomes
  <2>9. Promise!Ask(c)
    BY <2>2, <2>4, <2>5, <2>8 DEF Promise!Ask, fateOf
  <2> QED BY <2>2, <2>9 DEF Promise!Next
<1>5. CASE (Reject(c) /\ c \notin WithCallback) \/ StartOneWay(c) \/ Register(c) \/ PushCall(c)
  <2>1. UNCHANGED <<m_cbData, todo, abandoned>>
    BY <1>5 DEF Reject, StartOneWay, Register, PushCall
  <2>2. \A d \in WithCallback : delivered'[d] = delivered[d] /\ (Holds(d)' <=> Holds(d))
    <3>1. UNCHANGED delivered /\ \E place : Goto(c, place)
      BY <1>5 DEF Reject, StartOneWay, Register, PushCall
    <3>2. \A d \in Calls : Holds(d)' <=> Holds(d)
      BY <1>5 DEF Reject, StartOneWay, Register, PushCall, CanStart, Goto, Holds, TakerInv
    <3> QED BY <3>1, <3>2, RequestReplyAssumption
  <2>3. \A d \in WithCallback : Fate(d)' = Fate(d)
    BY <2>1, <2>2, SameFate DEF HasAnswer
  <2> QED BY <1>1, <2>1, <2>3
<1> QED BY <1>2, <1>3, <1>4, <1>5 DEF CallStep

LEMMA VisitStepPromise ==
    ASSUME Inv, NEW c \in Calls, VisitStep(c)
    PROVE  [Promise!Next]_Promise!promiseVars
<1> USE DEF Inv, TypeInv, TypeOK
<1>1. CASE VisitWaiting(c)
  BY <1>1, SameCallsStutter DEF VisitWaiting, callVars
<1>2. CASE VisitDue(c)
  <2>1. /\ c \in WithCallback /\ c \in subs /\ subs' = subs \ {c}
        /\ UNCHANGED <<m_cbData, caller, delivered, abandoned>>
        /\ todo' = todo \cup {[call |-> c, data |-> NoAnswer]}
    BY <1>2 DEF VisitDue, Visiting, TakeOut, callVars, WaitingTypeOK
  <2>2. \A d \in WithCallback : (HasAnswer(d)' <=> HasAnswer(d)) /\ (Holds(d)' <=> Holds(d))
    BY <2>1 DEF HasAnswer, Holds
  <2>3. \A d \in WithCallback : Fate(d)' = Fate(d)
    BY <2>1, <2>2, SameFate
  <2> QED BY <2>1, <2>3, Stutters DEF IsFree
<1>3. CASE VisitAnswered(c)
  <2> DEFINE data == m_cbData[slotOf[c]].answer
  <2>1. /\ c \in WithCallback /\ c \in subs /\ subs' = subs \ {c} /\ Holds(c)
        /\ UNCHANGED <<caller, slotOf, delivered, abandoned>>
        /\ todo' = todo \cup {[call |-> c, data |-> data]}
        /\ popCallback(slotOf[c])
    BY <1>3 DEF VisitAnswered, Visiting, TakeOut, callVars, WaitingTypeOK, Holds
  <2>2. slotOf[c] \in Slots /\ ~ IsFree(slotOf[c])
    BY <2>1, HeldIsTaken
  <2>3. data \in Calls /\ data # NoAnswer
    BY <2>1, <2>2, CallbackSpaceAssumption, RequestReplyAssumption
    DEF popCallback, isCallbackAvailable, ReadyInv
  <2> HIDE DEF data
  <2>4. Cardinality(FreeSlots)' = Cardinality(FreeSlots) + 1
    <3>1. PICK i \in Slots : i = slotOf[c]
      BY <2>2
    <3>2. IsFree(i)' /\ \A j \in Slots \ {i} : IsFree(j)' <=> IsFree(j)
      BY <2>1, <3>1, PopFrees
    <3> QED BY <2>2, <3>1, <3>2, OneFreed
  <2>5. /\ delivered[c] = <<>> /\ c \notin abandoned /\ ~ HasAnswer(c)
    BY <2>1 DEF PlaceInv, OnePlace, HasClosure, HasAnswer
  <2>6. Fate(c) = "waiting"
    BY <2>1, <2>5, FateOf
  <2>7. Fate(c)' = "collected"
    <3>1. HasAnswer(c)'
      <4>1. [call |-> c, data |-> data] \in todo'
        BY <2>1
      <4>2. [call |-> c, data |-> data].call = c /\ [call |-> c, data |-> data].data # NoAnswer
        BY <2>3
      <4> QED BY <4>1, <4>2 DEF HasAnswer
    <3>2. delivered'[c] = <<>> /\ c \notin abandoned'
      BY <2>1, <2>5
    <3> QED BY <3>1, <3>2 DEF Fate, HasAnswer
  <2>8. ASSUME NEW d \in WithCallback \ {c} PROVE Fate(d)' = Fate(d)
    <3>1. HasAnswer(d)' <=> HasAnswer(d)
      <4>1. [call |-> c, data |-> data].call # d
        OBVIOUS
      <4> QED BY <2>1, <4>1 DEF HasAnswer
    <3>2. Holds(d)' <=> Holds(d)
      BY <2>1 DEF Holds
    <3> QED BY <2>1, <3>1, <3>2, SameFate
  <2>9. Promise!Becomes(c, "collected")
    BY <2>1, <2>7, <2>8, OneBecomes
  <2>10. Promise!Collect(c)
    BY <2>1, <2>4, <2>6, <2>9 DEF Promise!Collect
  <2> QED BY <2>1, <2>10 DEF Promise!Next
<1> QED BY <1>1, <1>2, <1>3 DEF VisitStep

LEMMA RunStepPromise ==
    ASSUME Inv, NEW x \in todo, RunAnswered(x) \/ RunTimeout(x)
    PROVE  [Promise!Next]_Promise!promiseVars
<1> USE RequestReplyAssumption DEF Inv, TypeInv, TypeOK
<1> DEFINE c == x.call
<1>1. /\ c \in WithCallback /\ c \in Calls
      /\ x.data \in Calls \cup {NoAnswer}
      /\ x = [call |-> c, data |-> x.data]
  BY DEF WaitingTypeOK, Closure
<1>2. /\ delivered[c] = <<>> /\ c \notin abandoned
      /\ \A y \in todo : y.call = c => y = x
  BY <1>1 DEF PlaceInv, OnePlace, OneClosure, HasClosure
<1>3. /\ todo' = todo \ {x}
      /\ UNCHANGED <<caller, slotOf, subs, abandoned>>
      /\ Deliver(c, IF x.data = NoAnswer THEN "Timeout" ELSE x.data)
  BY DEF RunAnswered, RunTimeout
<1> HIDE DEF c
<1>4. delivered'[c] = <<IF x.data = NoAnswer THEN "Timeout" ELSE x.data>>
  BY <1>1, <1>2, <1>3 DEF Deliver, CallTypeOK
<1>5. ASSUME NEW d \in WithCallback \ {c} PROVE Fate(d)' = Fate(d)
  <2>1. delivered'[d] = delivered[d]
    BY <1>1, <1>3 DEF Deliver, CallTypeOK
  <2>2. x.call # d
    BY DEF c
  <2>3. HasAnswer(d)' <=> HasAnswer(d)
    BY <1>3, <2>2 DEF HasAnswer
  <2>4. Holds(d)' <=> Holds(d)
    BY <1>1, <1>3, <2>2 DEF Holds
  <2> QED BY <1>3, <2>1, <2>3, <2>4, SameFate
<1>6. CASE RunAnswered(x)
  <2>1. x.data # NoAnswer /\ x.data \in Calls /\ UNCHANGED m_cbData
    BY <1>1, <1>6 DEF RunAnswered
  <2>2. HasAnswer(c)
    BY <2>1 DEF HasAnswer, c
  <2>3. Fate(c) = "collected"
    BY <1>2, <2>2, FateOf
  <2>4. Fate(c)' = "answered"
    <3>1. delivered'[c] # <<>> /\ delivered'[c][1] \in Calls
      BY <1>4, <2>1
    <3> QED BY <3>1 DEF Fate
  <2>5. Promise!Becomes(c, "answered")
    BY <1>1, <1>5, <2>4, OneBecomes
  <2>6. Cardinality(FreeSlots)' = Cardinality(FreeSlots)
    BY <2>1 DEF FreeSlots
  <2>7. Promise!Tell(c)
    BY <1>1, <2>3, <2>5, <2>6 DEF Promise!Tell
  <2> QED BY <1>1, <2>7 DEF Promise!Next
<1>7. CASE RunTimeout(x)
  <2>1. x.data = NoAnswer /\ clearCallback(slotOf[c])
    BY <1>7 DEF RunTimeout, c
  <2>2. Holds(c) /\ ~ HasAnswer(c)
    BY <1>1, <1>2, <2>1 DEF Holds, HasAnswer
  <2>3. Fate(c) = "waiting"
    BY <1>2, <2>2, FateOf
  <2>4. Fate(c)' = "Timeout"
    <3>1. delivered'[c] # <<>> /\ delivered'[c][1] = "Timeout"
      BY <1>4, <2>1
    <3>2. "Timeout" \notin Calls
      BY ErrorsAreNotAnswers DEF Errors
    <3> QED BY <3>1, <3>2 DEF Fate
  <2>5. Promise!Becomes(c, "Timeout")
    BY <1>1, <1>5, <2>4, OneBecomes
  <2>6. slotOf[c] \in Slots /\ ~ IsFree(slotOf[c])
    BY <1>1, <2>2, HeldIsTaken
  <2>7. Cardinality(FreeSlots)' = Cardinality(FreeSlots) + 1
    <3>1. PICK i \in Slots : i = slotOf[c]
      BY <2>6
    <3>2. IsFree(i)' /\ \A j \in Slots \ {i} : IsFree(j)' <=> IsFree(j)
      BY <2>1, <3>1 DEF clearCallback, EmptySlot, IsFree, CallbackSpaceTypeOK
    <3> QED BY <2>6, <3>1, <3>2, OneFreed
  <2>8. Promise!GiveUp(c)
    BY <1>1, <2>3, <2>5, <2>7 DEF Promise!GiveUp
  <2> QED BY <1>1, <2>8 DEF Promise!Next
<1> QED BY <1>6, <1>7

\* The calls that wait are forgotten with their client.
LEMMA DestroyPromise ==
    ASSUME Inv, NEW k \in Clients, Destroy(k)
    PROVE  [Promise!Next]_Promise!promiseVars
<1> USE RequestReplyAssumption DEF Inv, TypeInv, TypeOK
<1> DEFINE S == Of(subs, k)
<1>1. /\ S \subseteq subs /\ S \subseteq WithCallback
      /\ abandoned' = abandoned \cup S /\ subs' = subs \ S
      /\ UNCHANGED <<m_cbData, caller, slotOf, delivered, todo>>
  BY DEF Destroy, Of, WaitingTypeOK, callVars
<1> HIDE DEF S
<1>2. ASSUME NEW c \in S
      PROVE  /\ c \in WithCallback /\ delivered[c] = <<>> /\ c \notin abandoned
             /\ ~ HasAnswer(c) /\ Holds(c)
  BY <1>1 DEF PlaceInv, OnePlace, HasClosure, HasAnswer, Holds
<1>3. \A c \in S : Fate(c) = "waiting"
  BY <1>2, FateOf
<1>4. ASSUME NEW c \in S PROVE Fate(c)' = "forgotten"
  <2>1. delivered'[c] = <<>> /\ c \in abandoned'
    BY <1>1, <1>2
  <2> QED BY <2>1 DEF Fate
<1>5. ASSUME NEW c \in WithCallback \ S PROVE Fate(c)' = Fate(c)
  BY <1>1, SameFate DEF HasAnswer, Holds
<1>6. fateOf' = [c \in WithCallback |-> IF c \in S THEN "forgotten" ELSE fateOf[c]]
  BY <1>4, <1>5 DEF fateOf
<1>7. Cardinality(FreeSlots)' = Cardinality(FreeSlots)
  BY <1>1 DEF FreeSlots
<1>8. Promise!Forget(S)
  BY <1>1, <1>3, <1>6, <1>7 DEF Promise!Forget, fateOf
<1> QED BY <1>1, <1>8 DEF Promise!Next

LEMMA AnswerPromise ==
    ASSUME Inv, NEW c \in Calls, Answer(c)
    PROVE  [Promise!Next]_Promise!promiseVars
<1>1. slotOf[c] \in Slots
  BY DEF Inv, TypeInv, TypeOK, CallTypeOK
<1>2. \A i \in Slots : IsFree(i)' <=> IsFree(i)
  BY <1>1
  DEF Answer, updateCallback, AcceptsAnswer, IsFree, Inv, TypeInv, TypeOK, CallbackSpaceTypeOK
<1>3. \A d \in WithCallback : Fate(d)' = Fate(d)
  BY DEF Answer, callVars, clientVars, waitingVars, Fate, Holds
<1> QED BY <1>2, <1>3, Stutters

LEMMA NextPromise ==
    ASSUME Inv, [Next]_vars PROVE [Promise!Next]_Promise!promiseVars
<1>1. CASE UNCHANGED vars
  BY <1>1, SameCallsStutter DEF vars, callVars, clientVars, waitingVars
<1>2. ASSUME NEW c \in Calls, CallStep(c) \/ Expire(c) \/ VisitStep(c) \/ Answer(c)
      PROVE  [Promise!Next]_Promise!promiseVars
  <2>1. CASE Expire(c)
    BY <2>1, SameCallsStutter DEF Expire, callVars
  <2> QED BY <1>2, <2>1, CallStepPromise, VisitStepPromise, AnswerPromise
<1>3. ASSUME NEW k \in Clients, ConnectionStep(k) \/ CallbackThreadStep(k)
      PROVE  [Promise!Next]_Promise!promiseVars
  <2>1. CASE Destroy(k)
    BY <2>1, DestroyPromise
  <2>2. CASE Connect(k) \/ Disconnect(k) \/ CallbackThreadStep(k)
    BY <2>2, SameCallsStutter
    DEF Connect, Disconnect, CallbackThreadStep, LoopTop, Wake, EndPass, EndRun, waitingVars, callVars
  <2> QED BY <1>3, <2>1, <2>2 DEF ConnectionStep
<1>4. ASSUME NEW x \in todo, RunAnswered(x) \/ RunTimeout(x)
      PROVE  [Promise!Next]_Promise!promiseVars
  BY <1>4, RunStepPromise
<1>5. CASE ServerStep
  BY <1>5, SameCallsStutter
  DEF ServerStep, ReadMemory, Dispatch, RunPosted, ServerExit, ServerCrash, ServerStart, callVars,
      clientVars, waitingVars
<1> QED BY <1>1, <1>2, <1>3, <1>4, <1>5 DEF Next

LEMMA InitPromise == Init => Promise!Init
<1> SUFFICES ASSUME Init PROVE Promise!Init
  OBVIOUS
<1> USE CallbackSpaceAssumption, RequestReplyAssumption
<1>1. fateOf = [c \in WithCallback |-> "idle"]
  BY DEF Init, Fate, Holds, fateOf
<1>2. FreeSlots = 0 .. QUEUE_SIZE - 1
  BY DEF Init, CallbackSpaceInit, EmptySlot, FreeSlots, Slots
<1>3. Cardinality(FreeSlots) = QUEUE_SIZE
  BY <1>2, FS_Interval
<1> QED BY <1>1, <1>3 DEF Promise!Init, fateOf

\* Whatever its clients, calls, slots, deadlines and servers do, the library
\* keeps its promise to a call: one outcome, and a slot while it waits.
THEOREM CallsKeepThePromise == Spec => PromisesKept
<1>1. Init => Inv
  BY InitTypeInv, InitPlaceInv, InitSlotOwnership DEF Inv
<1>2. Inv /\ [Next]_vars => Inv'
  BY StepTypeInv, StepPlaceInv, StepSlotOwnership DEF Inv
<1>3. Inv /\ [Next]_vars => [Promise!Next]_Promise!promiseVars
  BY NextPromise
<1> QED BY <1>1, <1>2, <1>3, InitPromise, PTL DEF Spec, PromisesKept, Promise!Spec

-----------------------------------------------------------------------------
(* The order of the frames *)

\* In the sequence acc, a is nowhere but before b.
Earlier(acc, a, b) ==
    \A m, n \in 1 .. Len(acc) : acc[m] = a /\ acc[n] = b => m < n

Ascending(acc, s) == \A i, j \in 1 .. Len(s) : i < j => Earlier(acc, s[i], s[j])
Before(acc, s, t) == \A i \in 1 .. Len(s) : \A j \in 1 .. Len(t) : Earlier(acc, s[i], t[j])
Within(acc, s) == \A i \in 1 .. Len(s) : \E n \in 1 .. Len(acc) : acc[n] = s[i]

\* A frame that was accepted was pushed, and its caller returned.
PushedInv == \A n \in 1 .. Len(accepted) : caller[accepted[n]] = "returned"

DirectInv == ~ ServerLooped => posted = <<>>

WithinInv ==
    /\ Within(accepted, served) /\ Within(accepted, posted)
    /\ Within(accepted, batch) /\ Within(accepted, m_data)

AscendingInv ==
    /\ Ascending(accepted, served) /\ Ascending(accepted, posted)
    /\ Ascending(accepted, batch) /\ Ascending(accepted, m_data)

AheadInv ==
    /\ Before(accepted, served, posted) /\ Before(accepted, served, batch)
    /\ Before(accepted, served, m_data) /\ Before(accepted, posted, batch)
    /\ Before(accepted, posted, m_data) /\ Before(accepted, batch, m_data)

OrderInv == PushedInv /\ DirectInv /\ WithinInv /\ AscendingInv /\ AheadInv

SeqTypes ==
    /\ accepted \in Seq(Calls) /\ served \in Seq(Calls) /\ posted \in Seq(Calls)
    /\ batch \in Seq(Calls) /\ m_data \in Seq(Calls)

LEMMA TypesOfSequences == TypeInv => SeqTypes /\ caller \in [Calls -> {"ready", "slot", "push", "returned"}]
BY DEF TypeInv, TypeOK, CallSpaceTypeOK, CallTypeOK, ServerTypeOK, SeqTypes

-----------------------------------------------------------------------------
(* Sequences of frames *)

\* The first frame of t goes behind s.
LEMMA MoveHead ==
    ASSUME NEW acc \in Seq(Calls), NEW s \in Seq(Calls), NEW t \in Seq(Calls), t # <<>>,
           Within(acc, s), Within(acc, t), Ascending(acc, s), Ascending(acc, t), Before(acc, s, t)
    PROVE  LET u == Append(s, Head(t))
           IN  /\ Within(acc, u) /\ Ascending(acc, u)
               /\ Before(acc, u, Tail(t))
<1> DEFINE u == Append(s, Head(t))
<1>1. /\ Len(u) = Len(s) + 1
      /\ \A i \in 1 .. Len(s) : u[i] = s[i]
      /\ u[Len(s) + 1] = t[1]
      /\ 1 \in 1 .. Len(t)
      /\ Len(s) \in Nat
  OBVIOUS
<1>2. Len(Tail(t)) = Len(t) - 1 /\ \A i \in 1 .. Len(t) - 1 : Tail(t)[i] = t[i + 1]
  OBVIOUS
<1> HIDE DEF u
<1>3. Within(acc, u)
  <2> SUFFICES ASSUME NEW i \in 1 .. Len(u) PROVE \E n \in 1 .. Len(acc) : acc[n] = u[i]
    BY DEF Within
  <2>1. i \in 1 .. Len(s) \/ i = Len(s) + 1
    BY <1>1
  <2>2. CASE i \in 1 .. Len(s)
    BY <1>1, <2>2 DEF Within
  <2>3. CASE i = Len(s) + 1
    BY <1>1, <2>3 DEF Within
  <2> QED BY <2>1, <2>2, <2>3
<1>4. Ascending(acc, u)
  <2> SUFFICES ASSUME NEW i \in 1 .. Len(u), NEW j \in 1 .. Len(u), i < j
               PROVE  Earlier(acc, u[i], u[j])
    BY DEF Ascending
  <2>1. i \in 1 .. Len(s)
    BY <1>1
  <2>4. j \in 1 .. Len(s) \/ j = Len(s) + 1
    BY <1>1
  <2>2. CASE j \in 1 .. Len(s)
    BY <1>1, <2>1, <2>2 DEF Ascending
  <2>3. CASE j = Len(s) + 1
    BY <1>1, <2>1, <2>3 DEF Before
  <2> QED BY <2>4, <2>2, <2>3
<1>5. Before(acc, u, Tail(t))
  <2> SUFFICES ASSUME NEW i \in 1 .. Len(u), NEW j \in 1 .. Len(Tail(t))
               PROVE  Earlier(acc, u[i], Tail(t)[j])
    BY DEF Before
  <2>1. Tail(t)[j] = t[j + 1] /\ j + 1 \in 1 .. Len(t) /\ 1 < j + 1
    BY <1>2
  <2>2. CASE i \in 1 .. Len(s)
    BY <1>1, <2>1, <2>2 DEF Before
  <2>3. CASE i = Len(s) + 1
    BY <1>1, <2>1, <2>3 DEF Ascending
  <2> QED BY <1>1, <2>2, <2>3
<1> QED BY <1>3, <1>4, <1>5 DEF u

LEMMA DropHead ==
    ASSUME NEW acc \in Seq(Calls), NEW t \in Seq(Calls), t # <<>>
    PROVE  /\ Within(acc, t) => Within(acc, Tail(t))
           /\ Ascending(acc, t) => Ascending(acc, Tail(t))
           /\ \A s \in Seq(Calls) : Before(acc, s, t) => Before(acc, s, Tail(t))
           /\ \A s \in Seq(Calls) : Before(acc, t, s) => Before(acc, Tail(t), s)
<1>1. Len(Tail(t)) = Len(t) - 1 /\ \A i \in 1 .. Len(t) - 1 : Tail(t)[i] = t[i + 1]
  OBVIOUS
<1>2. Len(t) \in Nat
  OBVIOUS
<1>3. \A i \in 1 .. Len(Tail(t)) : i + 1 \in 1 .. Len(t) /\ Tail(t)[i] = t[i + 1]
  BY <1>1, <1>2
<1>4. Within(acc, t) => Within(acc, Tail(t))
  BY <1>3 DEF Within
<1>5. Ascending(acc, t) => Ascending(acc, Tail(t))
  BY <1>1, <1>2, <1>3 DEF Ascending
<1>6. ASSUME NEW s \in Seq(Calls), Before(acc, s, t) PROVE Before(acc, s, Tail(t))
  BY <1>3, <1>6 DEF Before
<1>7. ASSUME NEW s \in Seq(Calls), Before(acc, t, s) PROVE Before(acc, Tail(t), s)
  BY <1>3, <1>7 DEF Before
<1> QED BY <1>4, <1>5, <1>6, <1>7

\* What is before both s and t's first frame is before s with that frame.
LEMMA AppendBehind ==
    ASSUME NEW acc \in Seq(Calls), NEW r \in Seq(Calls), NEW s \in Seq(Calls), NEW t \in Seq(Calls),
           t # <<>>, Before(acc, s, r), Before(acc, t, r)
    PROVE  Before(acc, Append(s, Head(t)), r)
<1>1. /\ Len(Append(s, Head(t))) = Len(s) + 1 /\ Len(s) \in Nat
      /\ \A i \in 1 .. Len(s) : Append(s, Head(t))[i] = s[i]
      /\ Append(s, Head(t))[Len(s) + 1] = t[1]
      /\ 1 \in 1 .. Len(t)
  OBVIOUS
<1> QED BY <1>1 DEF Before

LEMMA AppendAfter ==
    ASSUME NEW acc \in Seq(Calls), NEW r \in Seq(Calls), NEW s \in Seq(Calls), NEW t \in Seq(Calls),
           t # <<>>, Before(acc, r, s), Before(acc, r, t)
    PROVE  Before(acc, r, Append(s, Head(t)))
<1>1. /\ Len(Append(s, Head(t))) = Len(s) + 1 /\ Len(s) \in Nat
      /\ \A i \in 1 .. Len(s) : Append(s, Head(t))[i] = s[i]
      /\ Append(s, Head(t))[Len(s) + 1] = t[1]
      /\ 1 \in 1 .. Len(t)
  OBVIOUS
<1> QED BY <1>1 DEF Before

LEMMA EmptyIsOrdered ==
    ASSUME NEW acc
    PROVE  /\ Within(acc, <<>>) /\ Ascending(acc, <<>>)
           /\ \A s : Before(acc, s, <<>>) /\ Before(acc, <<>>, s)
BY DEF Within, Ascending, Before

\* A new frame is accepted: what was ordered still is, and is before it.
LEMMA AcceptOne ==
    ASSUME NEW acc \in Seq(Calls), NEW c \in Calls, \A n \in 1 .. Len(acc) : acc[n] # c
    PROVE  LET more == Append(acc, c)
           IN  /\ \A s \in Seq(Calls) : Within(acc, s) => Within(more, s)
               /\ \A s \in Seq(Calls) : Within(acc, s) /\ Ascending(acc, s) => Ascending(more, s)
               /\ \A s, t \in Seq(Calls) :
                    Within(acc, s) /\ Within(acc, t) /\ Before(acc, s, t) => Before(more, s, t)
               /\ \A s \in Seq(Calls) : Within(acc, s) => Before(more, s, <<c>>)
               /\ Within(more, <<c>>)
<1> DEFINE more == Append(acc, c)
<1>1. /\ Len(more) = Len(acc) + 1 /\ Len(acc) \in Nat
      /\ \A n \in 1 .. Len(acc) : more[n] = acc[n]
      /\ more[Len(acc) + 1] = c
  OBVIOUS
<1>2. Len(<<c>>) = 1 /\ <<c>>[1] = c
  OBVIOUS
<1> HIDE DEF more
<1>3. ASSUME NEW a, NEW b, a # c, b # c, Earlier(acc, a, b) PROVE Earlier(more, a, b)
  BY <1>1, <1>3 DEF Earlier
<1>4. ASSUME NEW a, a # c PROVE Earlier(more, a, c)
  BY <1>1, <1>4 DEF Earlier
<1>5. ASSUME NEW s \in Seq(Calls), Within(acc, s) PROVE \A i \in 1 .. Len(s) : s[i] # c
  BY <1>5 DEF Within
<1>6. ASSUME NEW s \in Seq(Calls), Within(acc, s) PROVE Within(more, s)
  BY <1>1, <1>6 DEF Within
<1>7. ASSUME NEW s \in Seq(Calls), Within(acc, s), Ascending(acc, s) PROVE Ascending(more, s)
  BY <1>3, <1>5, <1>7 DEF Ascending
<1>8. ASSUME NEW s \in Seq(Calls), NEW t \in Seq(Calls), Within(acc, s), Within(acc, t), Before(acc, s, t)
      PROVE  Before(more, s, t)
  BY <1>3, <1>5, <1>8 DEF Before
<1>9. ASSUME NEW s \in Seq(Calls), Within(acc, s) PROVE Before(more, s, <<c>>)
  BY <1>2, <1>4, <1>5, <1>9 DEF Before
<1>10. Within(more, <<c>>)
  BY <1>1, <1>2 DEF Within
<1> QED BY <1>6, <1>7, <1>8, <1>9, <1>10 DEF more

-----------------------------------------------------------------------------
(* The steps *)

LEMMA InitOrderInv == Init => OrderInv
<1> SUFFICES ASSUME Init PROVE OrderInv
  OBVIOUS
<1>1. /\ accepted = <<>> /\ served = <<>> /\ posted = <<>>
      /\ batch = <<>> /\ m_data = <<>>
  BY DEF Init, CallSpaceInit
<1>2. PushedInv
  BY <1>1 DEF PushedInv
<1>3. DirectInv
  BY <1>1 DEF DirectInv
<1>4. WithinInv
  BY <1>1, EmptyIsOrdered DEF WithinInv
<1>5. AscendingInv
  BY <1>1, EmptyIsOrdered DEF AscendingInv
<1>6. AheadInv
  BY <1>1, EmptyIsOrdered DEF AheadInv
<1> QED BY <1>2, <1>3, <1>4, <1>5, <1>6 DEF OrderInv

\* The caller of an accepted frame does nothing any more.
LEMMA SameOrder ==
    ASSUME OrderInv, UNCHANGED <<accepted, served, posted, batch, m_data>>,
           \A c \in Calls : caller[c] = "returned" => caller'[c] = "returned",
           accepted \in Seq(Calls)
    PROVE  OrderInv'
BY DEF OrderInv, PushedInv, DirectInv, WithinInv, AscendingInv, AheadInv

LEMMA PushCallOrder ==
    ASSUME TypeInv, OrderInv, NEW c \in Calls, PushCall(c)
    PROVE  OrderInv'
<1> USE TypesOfSequences DEF SeqTypes
<1>1. CASE ~ Fits(FrameSize[c])
  BY <1>1, SameOrder DEF PushCall, push, Goto, serverVars
<1>2. CASE Fits(FrameSize[c])
  <2>1. /\ accepted' = Append(accepted, c) /\ m_data' = Append(m_data, c)
        /\ UNCHANGED <<served, posted, batch>>
        /\ caller' = [caller EXCEPT ![c] = "returned"] /\ caller[c] = "push"
    BY <1>2 DEF PushCall, push, Goto, serverVars
  <2>2. \A n \in 1 .. Len(accepted) : accepted[n] # c
    BY <2>1 DEF OrderInv, PushedInv
  <2>3. PushedInv'
    BY <2>1, <2>2 DEF OrderInv, PushedInv
  <2>4. c = Head(<<c>>) /\ <<c>> # <<>> /\ <<c>> \in Seq(Calls)
    OBVIOUS
  <2>5. Ascending(accepted', <<c>>)
    BY DEF Ascending
  <2>6. /\ Within(accepted', served) /\ Within(accepted', posted)
        /\ Within(accepted', batch) /\ Within(accepted', m_data) /\ Within(accepted', <<c>>)
    BY <2>1, <2>2, AcceptOne DEF OrderInv, WithinInv
  <2>7. /\ Ascending(accepted', served) /\ Ascending(accepted', posted)
        /\ Ascending(accepted', batch) /\ Ascending(accepted', m_data)
    BY <2>1, <2>2, AcceptOne DEF OrderInv, WithinInv, AscendingInv
  <2>8. /\ Before(accepted', served, posted) /\ Before(accepted', served, batch)
        /\ Before(accepted', served, m_data) /\ Before(accepted', posted, batch)
        /\ Before(accepted', posted, m_data) /\ Before(accepted', batch, m_data)
    BY <2>1, <2>2, AcceptOne DEF OrderInv, WithinInv, AheadInv
  <2>9. /\ Before(accepted', served, <<c>>) /\ Before(accepted', posted, <<c>>)
        /\ Before(accepted', batch, <<c>>) /\ Before(accepted', m_data, <<c>>)
    BY <2>1, <2>2, AcceptOne DEF OrderInv, WithinInv
  <2>10. accepted' \in Seq(Calls)
    BY <2>1
  <2>11. Within(accepted', m_data') /\ Ascending(accepted', m_data')
    BY <2>1, <2>4, <2>5, <2>6, <2>7, <2>9, <2>10, MoveHead
  <2>12. /\ Before(accepted', served, m_data') /\ Before(accepted', posted, m_data')
         /\ Before(accepted', batch, m_data')
    BY <2>1, <2>4, <2>8, <2>9, <2>10, AppendAfter
  <2> QED
    BY <2>1, <2>3, <2>6, <2>7, <2>8, <2>11, <2>12
    DEF OrderInv, DirectInv, WithinInv, AscendingInv, AheadInv
<1> QED BY <1>1, <1>2

LEMMA ReadMemoryOrder == ASSUME TypeInv, OrderInv, ReadMemory PROVE OrderInv'
BY EmptyIsOrdered
DEF ReadMemory, pop, clear, callVars, clientVars, OrderInv, PushedInv, DirectInv, WithinInv,
    AscendingInv, AheadInv

\* The first of posted is served.
LEMMA RunPostedOrder == ASSUME TypeInv, OrderInv, RunPosted PROVE OrderInv'
<1> USE TypesOfSequences DEF SeqTypes
<1>1. /\ posted # <<>> /\ posted' = Tail(posted) /\ served' = Append(served, Head(posted))
      /\ UNCHANGED <<accepted, batch, m_data, caller>>
  BY DEF RunPosted, Invoke, callSpaceVars, callVars
<1>2. Within(accepted, served') /\ Ascending(accepted, served') /\ Before(accepted, served', posted')
  BY <1>1, MoveHead DEF OrderInv, WithinInv, AscendingInv, AheadInv
<1>3. Before(accepted, served', batch) /\ Before(accepted, served', m_data)
  BY <1>1, AppendBehind DEF OrderInv, AheadInv
<1>4. /\ Within(accepted, posted') /\ Ascending(accepted, posted')
      /\ Before(accepted, posted', batch) /\ Before(accepted, posted', m_data)
  BY <1>1, DropHead DEF OrderInv, WithinInv, AscendingInv, AheadInv
<1>5. DirectInv'
  BY <1>1 DEF OrderInv, DirectInv
<1> QED
  BY <1>1, <1>2, <1>3, <1>4, <1>5 DEF OrderInv, PushedInv, WithinInv, AscendingInv, AheadInv

\* The first frame of the batch is posted, served or skipped.
LEMMA DispatchOrder == ASSUME TypeInv, OrderInv, Dispatch PROVE OrderInv'
<1> USE TypesOfSequences DEF SeqTypes
<1>1. batch # <<>> /\ batch' = Tail(batch) /\ UNCHANGED <<accepted, m_data, caller>>
  BY DEF Dispatch, callSpaceVars, callVars
<1>2. /\ Within(accepted, batch') /\ Ascending(accepted, batch')
      /\ Before(accepted, served, batch') /\ Before(accepted, posted, batch')
      /\ Before(accepted, batch', m_data)
  BY <1>1, DropHead DEF OrderInv, WithinInv, AscendingInv, AheadInv
<1>3. CASE Head(batch) \in Supported /\ ServerLooped
  <2>1. posted' = Append(posted, Head(batch)) /\ served' = served
    BY <1>3 DEF Dispatch
  <2>2. Within(accepted, posted') /\ Ascending(accepted, posted') /\ Before(accepted, posted', batch')
    BY <1>1, <2>1, MoveHead DEF OrderInv, WithinInv, AscendingInv, AheadInv
  <2>3. Before(accepted, posted', m_data)
    BY <1>1, <2>1, AppendBehind DEF OrderInv, AheadInv
  <2>4. Before(accepted, served, posted')
    BY <1>1, <2>1, AppendAfter DEF OrderInv, AheadInv
  <2> QED
    BY <1>1, <1>2, <1>3, <2>1, <2>2, <2>3, <2>4
    DEF OrderInv, PushedInv, DirectInv, WithinInv, AscendingInv, AheadInv
<1>4. CASE Head(batch) \in Supported /\ ~ ServerLooped
  <2>1. posted' = posted /\ posted = <<>> /\ served' = Append(served, Head(batch))
    BY <1>4 DEF Dispatch, Invoke, OrderInv, DirectInv
  <2>2. Within(accepted, served') /\ Ascending(accepted, served') /\ Before(accepted, served', batch')
    BY <1>1, <2>1, MoveHead DEF OrderInv, WithinInv, AscendingInv, AheadInv
  <2>3. Before(accepted, served', m_data)
    BY <1>1, <2>1, AppendBehind DEF OrderInv, AheadInv
  <2>4. Before(accepted, served', posted)
    BY <2>1, EmptyIsOrdered
  <2> QED
    BY <1>1, <1>2, <2>1, <2>2, <2>3, <2>4
    DEF OrderInv, PushedInv, DirectInv, WithinInv, AscendingInv, AheadInv
<1>5. CASE Head(batch) \notin Supported
  <2>1. UNCHANGED <<posted, served>>
    BY <1>5 DEF Dispatch
  <2> QED
    BY <1>1, <1>2, <2>1 DEF OrderInv, PushedInv, DirectInv, WithinInv, AscendingInv, AheadInv
<1> QED BY <1>3, <1>4, <1>5

LEMMA ServerEndsOrder == ASSUME TypeInv, OrderInv, ServerExit \/ ServerCrash PROVE OrderInv'
<1>1. CASE ServerExit
  BY <1>1, EmptyIsOrdered
  DEF ServerExit, callSpaceVars, callVars, OrderInv, PushedInv, DirectInv, WithinInv, AscendingInv, AheadInv
<1>2. CASE ServerCrash
  BY <1>2, EmptyIsOrdered
  DEF ServerCrash, callSpaceVars, callVars, OrderInv, PushedInv, DirectInv, WithinInv, AscendingInv, AheadInv
<1> QED BY <1>1, <1>2

LEMMA CallStepOrder ==
    ASSUME TypeInv, OrderInv, NEW c \in Calls, CallStep(c)
    PROVE  OrderInv'
<1> USE TypesOfSequences DEF SeqTypes
<1>1. CASE PushCall(c)
  BY <1>1, PushCallOrder
<1>2. CASE Reject(c) \/ StartOneWay(c) \/ TakeSlot(c) \/ NoSlotLeft(c) \/ Register(c)
  <2>1. /\ UNCHANGED <<accepted, served, posted, batch, m_data>>
        /\ caller[c] # "returned"
        /\ \E place : Goto(c, place)
    BY <1>2 DEF Reject, StartOneWay, TakeSlot, NoSlotLeft, Register, CanStart, callSpaceVars, serverVars
  <2>2. \A d \in Calls : caller[d] = "returned" => caller'[d] = "returned"
    BY <2>1 DEF Goto
  <2> QED BY <2>1, <2>2, SameOrder
<1> QED BY <1>1, <1>2 DEF CallStep

LEMMA StepOrderInv == ASSUME TypeInv, OrderInv, [Next]_vars PROVE OrderInv'
<1> USE TypesOfSequences DEF SeqTypes
<1>1. ASSUME NEW c \in Calls, CallStep(c) \/ Expire(c) \/ VisitStep(c) \/ Answer(c) PROVE OrderInv'
  <2>1. CASE CallStep(c)
    BY <2>1, CallStepOrder
  <2>2. CASE Expire(c)
    BY <2>2, SameOrder DEF Expire, callSpaceVars, callVars, serverVars
  <2>3. CASE VisitStep(c)
    BY <2>3, SameOrder
    DEF VisitStep, VisitDue, VisitAnswered, VisitWaiting, callSpaceVars, callVars, serverVars
  <2>4. CASE Answer(c)
    BY <2>4, SameOrder DEF Answer, callSpaceVars, callVars
  <2> QED BY <1>1, <2>1, <2>2, <2>3, <2>4
<1>2. ASSUME NEW k \in Clients, ConnectionStep(k) \/ CallbackThreadStep(k) PROVE OrderInv'
  <2>1. UNCHANGED <<accepted, served, posted, batch, m_data, caller>>
    BY <1>2
    DEF ConnectionStep, CallbackThreadStep, Connect, generateClientId, Disconnect, Destroy, LoopTop,
        Wake, EndPass, EndRun, callSpaceVars, callVars, serverVars
  <2> QED BY <2>1, SameOrder
<1>3. ASSUME NEW x \in todo, RunAnswered(x) \/ RunTimeout(x) PROVE OrderInv'
  <2>1. UNCHANGED <<accepted, served, posted, batch, m_data, caller>>
    BY <1>3 DEF RunAnswered, RunTimeout, callSpaceVars, serverVars
  <2> QED BY <2>1, SameOrder
<1>4. CASE ServerStep
  <2>1. CASE ServerStart
    BY <2>1, SameOrder DEF ServerStart, callSpaceVars, callVars
  <2> QED
    BY <1>4, <2>1, ReadMemoryOrder, DispatchOrder, RunPostedOrder, ServerEndsOrder DEF ServerStep
<1>5. CASE UNCHANGED vars
  BY <1>5, SameOrder DEF vars, callSpaceVars, callVars, serverVars
<1> QED BY <1>1, <1>2, <1>3, <1>4, <1>5 DEF Next

LEMMA OrderGivesPlaces == ASSUME SeqTypes, OrderInv PROVE ServedInOrder
<1> USE DEF SeqTypes
<1> SUFFICES ASSUME NEW m \in DOMAIN served, NEW n \in DOMAIN served, m < n
             PROVE  Place(served[m]) < Place(served[n])
  BY DEF ServedInOrder
<1>1. m \in 1 .. Len(served) /\ n \in 1 .. Len(served) /\ DOMAIN accepted = 1 .. Len(accepted)
  OBVIOUS
<1>2. ASSUME NEW i \in 1 .. Len(served)
      PROVE  Place(served[i]) \in DOMAIN accepted /\ accepted[Place(served[i])] = served[i]
  <2>1. \E x \in DOMAIN accepted : accepted[x] = served[i]
    BY <1>1 DEF OrderInv, WithinInv, Within
  <2> QED BY <2>1 DEF Place
<1>3. Earlier(accepted, served[m], served[n])
  BY <1>1 DEF OrderInv, AscendingInv, Ascending
<1> QED BY <1>1, <1>2, <1>3 DEF Earlier

\* Methods run in the order in which push (CallSpace.h:42) took their frames, none
\* twice, over exits, crashes and restarts of the server.
THEOREM InOrderOfFrames == Spec => []ServedInOrder
<1>1. Spec => []TypeInv
  BY InitTypeInv, StepTypeInv, PTL DEF Spec
<1>2. Init => OrderInv
  BY InitOrderInv
<1>3. TypeInv /\ OrderInv /\ [Next]_vars => OrderInv'
  BY StepOrderInv
<1>4. TypeInv /\ OrderInv => ServedInOrder
  BY OrderGivesPlaces, TypesOfSequences
<1> QED BY <1>1, <1>2, <1>3, <1>4, PTL DEF Spec

-----------------------------------------------------------------------------
(* No frame with a known method is lost but with the server that had it *)

\* What became of the accepted frames.
Whereabouts == served \o posted \o Known(batch \o m_data)

\* Only accepted frames are lost.
LostInv == \A c \in lost : \E n \in 1 .. Len(accepted) : accepted[n] = c

LEMMA KnownType == \A s \in Seq(Calls) : Known(s) \in Seq(Calls)
BY OnlyType DEF Known

LEMMA FrameBehind ==
    \A s, t \in Seq(Calls) : \A c \in Calls : Append(s \o t, c) = s \o Append(t, c)
OBVIOUS

LEMMA FrameBetween ==
    \A s, t \in Seq(Calls) : \A c \in Calls : Append(s, c) \o t = s \o (<<c>> \o t)
BY AppendBetween, Zenon

LEMMA SameWhereabouts ==
    ASSUME NothingLost, UNCHANGED <<accepted, served, posted, batch, m_data, lost>>
    PROVE  NothingLost'
BY DEF NothingLost, Known

\* A frame that push takes is behind the others, in accepted and in the call space.
LEMMA PushCallLoses ==
    ASSUME SeqTypes, NothingLost, NEW c \in Calls, c \notin lost,
           accepted' = Append(accepted, c), m_data' = Append(m_data, c),
           UNCHANGED <<served, posted, batch, lost>>
    PROVE  NothingLost'
<1> USE DEF SeqTypes
<1> DEFINE safe == Supported \ lost
           queued == batch \o m_data
<1>1. Only(accepted', safe) = IF c \in safe THEN Append(Only(accepted, safe), c)
                              ELSE Only(accepted, safe)
  BY OnlyAppend
<1>2. queued \in Seq(Calls) /\ batch \o Append(m_data, c) = Append(queued, c)
  OBVIOUS
<1>3. c \in safe <=> c \in Supported
  OBVIOUS
<1>4. Only(accepted, safe) = served \o posted \o Known(queued)
  BY DEF NothingLost
<1>5. Whereabouts' = served \o posted \o Known(Append(queued, c))
  BY <1>2 DEF Whereabouts, Known
<1>6. NothingLost' <=> Only(accepted', safe) = Whereabouts'
  BY DEF NothingLost, Whereabouts
<1> HIDE DEF queued, safe
<1>7. Known(Append(queued, c)) = IF c \in Supported THEN Append(Known(queued), c) ELSE Known(queued)
  BY <1>2, OnlyAppend DEF Known
<1>8. Known(queued) \in Seq(Calls)
  BY <1>2, KnownType
<1>9. Append(served \o posted \o Known(queued), c) = served \o posted \o Append(Known(queued), c)
  <2> DEFINE front == served \o posted
             back == Known(queued)
  <2>1. front \in Seq(Calls) /\ back \in Seq(Calls)
    BY <1>8
  <2> HIDE DEF front, back
  <2>2. Append(front \o back, c) = front \o Append(back, c)
    BY <2>1, FrameBehind, Zenon
  <2> QED BY <2>2 DEF front, back
<1> QED BY <1>1, <1>3, <1>4, <1>5, <1>6, <1>7, <1>9

LEMMA ReadMemoryLoses ==
    ASSUME SeqTypes, NothingLost, ReadMemory PROVE NothingLost'
<1> USE DEF SeqTypes
<1>1. /\ batch = <<>> /\ batch' = m_data /\ m_data' = <<>>
      /\ UNCHANGED <<accepted, served, posted, lost>>
  BY DEF ReadMemory, pop, clear
<1>2. batch \o m_data = m_data /\ batch' \o m_data' = m_data
  BY <1>1
<1> QED BY <1>1, <1>2 DEF NothingLost, Known

\* The first frame of the batch is skipped, posted or served.
LEMMA DispatchLoses ==
    ASSUME SeqTypes, DirectInv, NothingLost, Dispatch PROVE NothingLost'
<1> USE DEF SeqTypes
<1> DEFINE queued == batch \o m_data
           rest == Tail(batch) \o m_data
           done == served \o posted
           safely == Only(accepted, Supported \ lost)
<1>1. /\ batch # <<>> /\ batch' = Tail(batch) /\ UNCHANGED <<accepted, m_data, lost>>
  BY DEF Dispatch, callSpaceVars
<1>2. PICK c \in Calls : c = Head(batch)
  BY <1>1
<1>3. /\ queued \in Seq(Calls) /\ queued # <<>> /\ Head(queued) = c /\ Tail(queued) = rest
      /\ rest \in Seq(Calls) /\ done \in Seq(Calls)
  BY <1>1, <1>2
<1>4. safely = done \o Known(queued)
  BY DEF NothingLost
<1>5. NothingLost' <=> safely = (served' \o posted') \o Known(rest)
  BY <1>1 DEF NothingLost, Known
<1> HIDE DEF queued, rest, safely
<1>6. Known(queued) = IF c \in Supported THEN <<c>> \o Known(rest) ELSE Known(rest)
  BY <1>3, OnlyHead DEF Known
<1>7. Known(rest) \in Seq(Calls)
  BY <1>3, KnownType
<1>8. CASE c \in Supported
  <2>1. served' \o posted' = Append(done, c)
    <3>1. CASE ServerLooped
      <4>1. posted' = Append(posted, c) /\ served' = served
        BY <1>2, <1>8, <3>1 DEF Dispatch
      <4> QED BY <4>1
    <3>2. CASE ~ ServerLooped
      <4>1. posted' = <<>> /\ posted = <<>> /\ served' = Append(served, c)
        BY <1>2, <1>8, <3>2 DEF Dispatch, Invoke, DirectInv
      <4> QED BY <4>1
    <3> QED BY <3>1, <3>2
  <2> HIDE DEF done
  <2>2. Append(done, c) \o Known(rest) = done \o (<<c>> \o Known(rest))
    BY <1>3, <1>7, FrameBetween, Zenon
  <2> QED BY <1>4, <1>5, <1>6, <1>8, <2>1, <2>2
<1>9. CASE c \notin Supported
  <2>1. UNCHANGED <<posted, served>>
    BY <1>2, <1>9 DEF Dispatch
  <2> QED BY <1>4, <1>5, <1>6, <1>9, <2>1
<1> QED BY <1>8, <1>9

LEMMA RunPostedLoses ==
    ASSUME SeqTypes, NothingLost, RunPosted PROVE NothingLost'
<1> USE DEF SeqTypes
<1>1. /\ posted # <<>> /\ posted' = Tail(posted) /\ served' = Append(served, Head(posted))
      /\ UNCHANGED <<accepted, batch, m_data, lost>>
  BY DEF RunPosted, Invoke, callSpaceVars
<1>2. Append(served, Head(posted)) \o Tail(posted) = served \o posted
  BY <1>1
<1> QED BY <1>1, <1>2 DEF NothingLost, Known

\* No frame is in two of the sequences.
LEMMA BeforeIsApart ==
    ASSUME NEW acc \in Seq(Calls), NEW s \in Seq(Calls), NEW t \in Seq(Calls),
           Within(acc, s), Before(acc, s, t)
    PROVE  \A i \in 1 .. Len(s) : \A j \in 1 .. Len(t) : s[i] # t[j]
BY DEF Within, Before, Earlier

\* The server ends with frames drained and posted: those are lost, and neither what
\* was served nor what is in the call space is among them.
LEMMA ServerEndLoses ==
    ASSUME SeqTypes, OrderInv, NothingLost, UNCHANGED <<accepted, served, m_data>>,
           batch' = <<>>, posted' = <<>>, lost' = lost \cup In(batch) \cup In(posted)
    PROVE  NothingLost'
<1> USE DEF SeqTypes
<1> DEFINE stay == Calls \ (In(batch) \cup In(posted))
           queued == batch \o m_data
           safe == Supported \ lost
<1>1. /\ In(batch) = {batch[n] : n \in 1 .. Len(batch)}
      /\ In(posted) = {posted[n] : n \in 1 .. Len(posted)}
  BY DEF In
<1>2. \A n \in 1 .. Len(served) : served[n] \in stay
  <2>1. \A n \in 1 .. Len(served) :
            /\ served[n] \in Calls
            /\ \A i \in 1 .. Len(batch) : served[n] # batch[i]
            /\ \A i \in 1 .. Len(posted) : served[n] # posted[i]
    BY BeforeIsApart DEF OrderInv, WithinInv, AheadInv
  <2> QED BY <1>1, <2>1
<1>3. \A n \in 1 .. Len(m_data) : m_data[n] \in stay
  <2>1. \A n \in 1 .. Len(m_data) :
            /\ m_data[n] \in Calls
            /\ \A i \in 1 .. Len(batch) : batch[i] # m_data[n]
            /\ \A i \in 1 .. Len(posted) : posted[i] # m_data[n]
    BY BeforeIsApart DEF OrderInv, WithinInv, AheadInv
  <2> QED BY <1>1, <2>1
<1>4. /\ \A n \in 1 .. Len(posted) : posted[n] \notin stay
      /\ \A n \in 1 .. Len(batch) : batch[n] \notin stay
  BY <1>1
<1>5. safe \cap stay = Supported \ lost'
  BY RequestReplyAssumption
<1>6. Only(accepted, safe) = served \o posted \o Known(queued)
  BY DEF NothingLost
<1>7. queued \in Seq(Calls) /\ served \o posted \in Seq(Calls)
  OBVIOUS
<1> HIDE DEF stay, queued, safe
<1>8. Known(queued) \in Seq(Calls)
  BY <1>7, KnownType
<1>9. Only(served, stay) = served
  BY <1>2, OnlyAgree, OnlyAll
<1>10. Only(posted, stay) = <<>>
  BY <1>4, OnlyNone
<1>11. Only(Known(queued), stay) = Known(m_data)
  <2>1. Only(Known(queued), stay) = Only(queued, Supported \cap stay)
    BY <1>7, OnlyTwice DEF Known
  <2>2. Only(queued, Supported \cap stay)
            = Only(batch, Supported \cap stay) \o Only(m_data, Supported \cap stay)
    <3> DEFINE both == Supported \cap stay
    <3> HIDE DEF both
    <3>1. Only(batch \o m_data, both) = Only(batch, both) \o Only(m_data, both)
      BY OnlyConcat
    <3> QED BY <3>1 DEF queued, both
  <2>3. Only(batch, Supported \cap stay) = <<>>
    BY <1>4, OnlyNone
  <2>4. Only(m_data, Supported \cap stay) = Known(m_data)
    BY <1>3, OnlyAgree DEF Known
  <2>5. Known(m_data) \in Seq(Calls) /\ \A s \in Seq(Calls) : <<>> \o s = s
    BY KnownType
  <2> QED BY <2>1, <2>2, <2>3, <2>4, <2>5
<1>12. Only(accepted, safe \cap stay) = Only(Only(accepted, safe), stay)
  BY OnlyTwice
<1>13. Only(Only(accepted, safe), stay)
           = Only(served \o posted, stay) \o Only(Known(queued), stay)
  BY <1>6, <1>7, <1>8, OnlyConcat
<1>14. Only(served \o posted, stay) = served
  <2>1. Only(served \o posted, stay) = Only(served, stay) \o Only(posted, stay)
    BY OnlyConcat
  <2>2. \A s \in Seq(Calls) : s \o <<>> = s
    OBVIOUS
  <2> QED BY <1>9, <1>10, <2>1, <2>2
<1>15. Only(accepted, Supported \ lost') = served \o Known(m_data)
  BY <1>5, <1>11, <1>12, <1>13, <1>14
<1>16. served' \o posted' = served /\ batch' \o m_data' = m_data
  <2>1. \A s \in Seq(Calls) : s \o <<>> = s /\ <<>> \o s = s
    OBVIOUS
  <2> QED BY <2>1
<1> QED BY <1>15, <1>16 DEF NothingLost, Known

LEMMA ServerStepLoses ==
    ASSUME TypeInv, OrderInv, NothingLost, ServerStep PROVE NothingLost'
<1>1. SeqTypes /\ DirectInv
  BY TypesOfSequences DEF OrderInv
<1>2. CASE ServerExit
  <2>1. /\ UNCHANGED <<accepted, served, m_data>> /\ batch = <<>> /\ batch' = <<>>
        /\ posted' = <<>> /\ lost' = lost \cup In(posted)
    BY <1>2 DEF ServerExit, callSpaceVars
  <2>2. In(batch) = {}
    BY <2>1 DEF In
  <2> QED BY <1>1, <2>1, <2>2, ServerEndLoses
<1>3. CASE ServerCrash
  <2>1. /\ UNCHANGED <<accepted, served, m_data>> /\ batch' = <<>>
        /\ posted' = <<>> /\ lost' = lost \cup In(batch) \cup In(posted)
    BY <1>3 DEF ServerCrash, callSpaceVars
  <2> QED BY <1>1, <2>1, ServerEndLoses
<1>4. CASE ServerStart
  BY <1>4, SameWhereabouts DEF ServerStart, callSpaceVars
<1> QED BY <1>1, <1>2, <1>3, <1>4, ReadMemoryLoses, DispatchLoses, RunPostedLoses DEF ServerStep

LEMMA StepLoses ==
    ASSUME TypeInv, OrderInv, LostInv, NothingLost, [Next]_vars PROVE NothingLost'
<1>0. SeqTypes
  BY TypesOfSequences
<1>1. ASSUME NEW c \in Calls, CallStep(c) \/ Expire(c) \/ VisitStep(c) \/ Answer(c) PROVE NothingLost'
  <2>1. CASE PushCall(c)
    <3>1. UNCHANGED <<served, posted, batch, lost>> /\ caller[c] = "push"
      BY <2>1 DEF PushCall, serverVars
    <3>2. CASE Fits(FrameSize[c])
      <4>1. accepted' = Append(accepted, c) /\ m_data' = Append(m_data, c)
        BY <2>1, <3>2 DEF PushCall, push
      <4>2. c \notin lost
        BY <3>1 DEF LostInv, OrderInv, PushedInv
      <4> QED BY <1>0, <3>1, <4>1, <4>2, PushCallLoses
    <3>3. CASE ~ Fits(FrameSize[c])
      BY <2>1, <3>1, <3>3, SameWhereabouts DEF PushCall, push
    <3> QED BY <3>2, <3>3
  <2>2. CASE Reject(c) \/ StartOneWay(c) \/ TakeSlot(c) \/ NoSlotLeft(c) \/ Register(c)
    BY <2>2, SameWhereabouts
    DEF Reject, StartOneWay, TakeSlot, NoSlotLeft, Register, callSpaceVars, serverVars
  <2>3. CASE Expire(c) \/ VisitStep(c) \/ Answer(c)
    BY <2>3, SameWhereabouts
    DEF Expire, VisitStep, VisitDue, VisitAnswered, VisitWaiting, Answer, callSpaceVars, serverVars
  <2> QED BY <1>1, <2>1, <2>2, <2>3 DEF CallStep
<1>2. ASSUME NEW k \in Clients, ConnectionStep(k) \/ CallbackThreadStep(k) PROVE NothingLost'
  BY <1>2, SameWhereabouts
  DEF ConnectionStep, CallbackThreadStep, Connect, generateClientId, Disconnect, Destroy, LoopTop,
      Wake, EndPass, EndRun, callSpaceVars, serverVars
<1>3. ASSUME NEW x \in todo, RunAnswered(x) \/ RunTimeout(x) PROVE NothingLost'
  BY <1>3, SameWhereabouts DEF RunAnswered, RunTimeout, callSpaceVars, serverVars
<1>4. CASE UNCHANGED vars
  BY <1>4, SameWhereabouts DEF vars, callSpaceVars, serverVars
<1> QED BY <1>1, <1>2, <1>3, <1>4, ServerStepLoses DEF Next

\* What is lost was accepted, and stays so.
LEMMA StepLostInv ==
    ASSUME TypeInv, OrderInv, LostInv, [Next]_vars PROVE LostInv'
<1>0. SeqTypes
  BY TypesOfSequences
<1>1. ASSUME lost' = lost, accepted' = accepted PROVE LostInv'
  BY <1>1 DEF LostInv
<1>2. ASSUME NEW c \in Calls, CallStep(c) \/ Expire(c) \/ VisitStep(c) \/ Answer(c) PROVE LostInv'
  <2>1. CASE PushCall(c)
    <3>1. lost' = lost /\ (accepted' = accepted \/ accepted' = Append(accepted, c))
      BY <2>1 DEF PushCall, serverVars
    <3>2. /\ Len(Append(accepted, c)) = Len(accepted) + 1 /\ Len(accepted) \in Nat
          /\ \A n \in 1 .. Len(accepted) : Append(accepted, c)[n] = accepted[n]
      BY <1>0 DEF SeqTypes
    <3> QED BY <3>1, <3>2 DEF LostInv
  <2>2. CASE Reject(c) \/ StartOneWay(c) \/ TakeSlot(c) \/ NoSlotLeft(c) \/ Register(c)
    BY <1>1, <2>2 DEF Reject, StartOneWay, TakeSlot, NoSlotLeft, Register, serverVars
  <2>3. CASE Expire(c) \/ VisitStep(c) \/ Answer(c)
    BY <1>1, <2>3
    DEF Expire, VisitStep, VisitDue, VisitAnswered, VisitWaiting, Answer, serverVars
  <2> QED BY <1>2, <2>1, <2>2, <2>3 DEF CallStep
<1>3. ASSUME NEW k \in Clients, ConnectionStep(k) \/ CallbackThreadStep(k) PROVE LostInv'
  BY <1>1, <1>3
  DEF ConnectionStep, CallbackThreadStep, Connect, Disconnect, Destroy, LoopTop, Wake, EndPass,
      EndRun, serverVars
<1>4. ASSUME NEW x \in todo, RunAnswered(x) \/ RunTimeout(x) PROVE LostInv'
  BY <1>1, <1>4 DEF RunAnswered, RunTimeout, serverVars
<1>5. CASE ServerStep
  <2>1. accepted' = accepted /\ lost' \subseteq lost \cup In(batch) \cup In(posted)
    BY <1>5
    DEF ServerStep, ReadMemory, Dispatch, RunPosted, ServerExit, ServerCrash, ServerStart
  <2>2. \A c \in In(batch) \cup In(posted) : \E n \in 1 .. Len(accepted) : accepted[n] = c
    <3>1. /\ In(batch) = {batch[n] : n \in 1 .. Len(batch)}
          /\ In(posted) = {posted[n] : n \in 1 .. Len(posted)}
      BY <1>0 DEF In, SeqTypes
    <3> QED BY <3>1 DEF OrderInv, WithinInv, Within
  <2> QED BY <2>1, <2>2 DEF LostInv
<1>6. CASE UNCHANGED vars
  BY <1>1, <1>6 DEF vars, serverVars
<1> QED BY <1>2, <1>3, <1>4, <1>5, <1>6 DEF Next

LEMMA InitLoses == Init => LostInv /\ NothingLost
<1> SUFFICES ASSUME Init PROVE LostInv /\ NothingLost
  OBVIOUS
<1>1. /\ accepted = <<>> /\ served = <<>> /\ posted = <<>> /\ batch = <<>> /\ m_data = <<>>
      /\ lost = {}
  BY DEF Init, CallSpaceInit
<1>2. <<>> \o <<>> = <<>>
  OBVIOUS
<1>3. Known(<<>>) = <<>> /\ Only(<<>>, Supported \ lost) = <<>>
  BY OnlyEmpty DEF Known
<1> QED BY <1>1, <1>2, <1>3 DEF NothingLost, LostInv

\* Draining, skipping, posting and running methods lose, duplicate and invent no
\* frame, and a server that exits or dies takes only those it had drained or posted
\* with it, for call spaces of any size and any numbers of clients and server ends.
THEOREM NoFrameLost == Spec => []NothingLost
<1>1. Spec => []TypeInv
  BY InitTypeInv, StepTypeInv, PTL DEF Spec
<1>2. TypeInv /\ OrderInv /\ [Next]_vars => OrderInv'
  BY StepOrderInv
<1>3. TypeInv /\ OrderInv /\ LostInv /\ [Next]_vars => LostInv'
  BY StepLostInv
<1>4. TypeInv /\ OrderInv /\ LostInv /\ NothingLost /\ [Next]_vars => NothingLost'
  BY StepLoses
<1> QED BY <1>1, InitOrderInv, <1>2, <1>3, InitLoses, <1>4, PTL DEF Spec

=============================================================================
