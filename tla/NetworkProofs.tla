--------------------------- MODULE NetworkProofs ---------------------------
(***************************************************************************)
(* For any number of threads, managers, channels, messages and families,   *)
(* and any bounds: what the clients, the telemetry bus, the barrier,       *)
(* adapters and plugins promise.  One inductive invariant per part.        *)
(***************************************************************************)
EXTENDS Network, SequenceTheorems, FiniteSetTheorems, TLAPS

(* DispatchBarrier *)

\* A dispatch that a thread is inside of: the thread and how deep it is.
UnderWay == {x \in Users \X Nat : x[2] \in 1..depth[x[1]]}

BarrierType ==
  /\ registered \subseteq Barrier!Handlers /\ gone \subseteq Barrier!Handlers
  /\ depth \in [Users -> Nat] /\ stack \in [Users -> Seq(SUBSET Barrier!Handlers)]
  /\ reporting \in [Users -> BOOLEAN]
  /\ waiting \in [Users -> Barrier!Handlers \cup {"none"}]

\* Nobody has a handler left to call that is gone, and the count is that of the dispatches.
BarrierInv ==
  /\ BarrierType
  /\ \A t \in Users : depth[t] = Len(stack[t])
  /\ gone \cap registered = {}
  /\ \A t \in Users : \A i \in DOMAIN stack[t] : stack[t][i] \cap gone = {}
  /\ IsFiniteSet(UnderWay) /\ Cardinality(UnderWay) = inFlight

LEMMA BarrierStart == Barrier!BarrierInit => BarrierInv
<1> SUFFICES ASSUME Barrier!BarrierInit PROVE BarrierInv
  OBVIOUS
<1> USE DEF Barrier!BarrierInit
<1>1. UnderWay = {}
  BY DEF UnderWay
<1>2. BarrierType
  BY DEF BarrierType, Barrier!NoHandler
<1> QED
  BY <1>1, <1>2, FS_EmptySet DEF BarrierInv

\* The count is zero exactly when nobody is inside a dispatch.
LEMMA BarrierIsSound == BarrierInv => Barrier!NoCallAfterUnregister
<1> SUFFICES ASSUME BarrierInv PROVE Barrier!NoCallAfterUnregister
  OBVIOUS
<1> USE DEF BarrierInv
<1>1. inFlight = 0 <=> UnderWay = {}
  BY FS_EmptySet
<1>2. ASSUME NEW t \in Users PROVE stack[t] = << >> <=> depth[t] = 0
  BY EmptySeq DEF BarrierType
<1>3. UnderWay = {} <=> \A t \in Users : depth[t] = 0
  <2>1. ASSUME NEW t \in Users, depth[t] # 0 PROVE <<t, 1>> \in UnderWay
    BY <2>1 DEF UnderWay, BarrierType
  <2>2. ASSUME \A t \in Users : depth[t] = 0 PROVE UnderWay = {}
    BY <2>2 DEF UnderWay
  <2> QED
    BY <2>1, <2>2
<1> QED
  BY <1>1, <1>2, <1>3 DEF Barrier!NoCallAfterUnregister

\* One dispatch more, or one less: the deepest of a thread.
LEMMA Deeper ==
  ASSUME BarrierInv, NEW t \in Users, depth' = [depth EXCEPT ![t] = @ + 1], inFlight' = inFlight + 1
  PROVE  IsFiniteSet(UnderWay') /\ Cardinality(UnderWay') = inFlight'
<1> USE DEF BarrierInv, BarrierType
<1>1. UnderWay' = UnderWay \cup {<<t, depth[t] + 1>>}
  BY DEF UnderWay
<1>2. <<t, depth[t] + 1>> \notin UnderWay
  BY DEF UnderWay
<1> QED
  BY <1>1, <1>2, FS_AddElement

LEMMA Shallower ==
  ASSUME BarrierInv, NEW t \in Users, depth[t] > 0,
         depth' = [depth EXCEPT ![t] = @ - 1], inFlight' = inFlight - 1
  PROVE  IsFiniteSet(UnderWay') /\ Cardinality(UnderWay') = inFlight'
<1> USE DEF BarrierInv, BarrierType
<1>1. UnderWay' = UnderWay \ {<<t, depth[t]>>}
  BY DEF UnderWay
<1>2. <<t, depth[t]>> \in UnderWay
  BY DEF UnderWay
<1> QED
  BY <1>1, <1>2, FS_RemoveElement

\* A snapshot on top of what a thread has left to call.
LEMMA OnTop ==
  ASSUME NEW S, NEW x \in S, NEW s \in Seq(S)
  PROVE  /\ <<x>> \o s \in Seq(S) /\ Len(<<x>> \o s) = Len(s) + 1
         /\ \A i \in DOMAIN (<<x>> \o s) : (<<x>> \o s)[i] = x \/ \E j \in DOMAIN s : (<<x>> \o s)[i] = s[j]
<1>1. <<x>> \in Seq(S) /\ Len(<<x>>) = 1 /\ <<x>>[1] = x
  OBVIOUS
<1>2. <<x>> \o s \in Seq(S) /\ Len(<<x>> \o s) = Len(s) + 1
  BY <1>1, ConcatProperties
<1>3. ASSUME NEW i \in DOMAIN (<<x>> \o s)
      PROVE  (<<x>> \o s)[i] = x \/ \E j \in DOMAIN s : (<<x>> \o s)[i] = s[j]
  <2>1. i \in 1..Len(s) + 1
    BY <1>2, <1>3, LenProperties
  <2>2. CASE i = 1
    BY <1>1, <2>1, <2>2, ConcatProperties
  <2>3. CASE i # 1
    <3>1. i - 1 \in DOMAIN s /\ (<<x>> \o s)[i] = s[i - 1]
      BY <1>1, <2>1, <2>3, ConcatProperties, LenProperties
    <3> QED
      BY <3>1
  <2> QED
    BY <2>2, <2>3
<1> QED
  BY <1>2, <1>3

LEMMA BeginKeeps ==
  ASSUME BarrierInv, NEW t \in Users, NEW targets \in SUBSET registered, Barrier!begin(t, targets),
         reporting' \in [Users -> BOOLEAN]
  PROVE  BarrierInv'
<1> DEFINE S == SUBSET Barrier!Handlers
<1>1. /\ depth' = [depth EXCEPT ![t] = @ + 1] /\ inFlight' = inFlight + 1
      /\ stack' = [stack EXCEPT ![t] = <<targets>> \o @] /\ UNCHANGED <<registered, waiting, gone>>
  BY DEF Barrier!begin
<1>2. BarrierType /\ targets \in S /\ targets \cap gone = {} /\ stack[t] \in Seq(S)
  BY DEF BarrierInv, BarrierType
<1>3. /\ <<targets>> \o stack[t] \in Seq(S) /\ Len(<<targets>> \o stack[t]) = Len(stack[t]) + 1
      /\ \A i \in DOMAIN (<<targets>> \o stack[t]) :
           \/ (<<targets>> \o stack[t])[i] = targets
           \/ \E j \in DOMAIN stack[t] : (<<targets>> \o stack[t])[i] = stack[t][j]
  <2> HIDE DEF S
  <2> QED
    BY <1>2, OnTop
<1>4. stack'[t] = <<targets>> \o stack[t] /\ \A u \in Users : u # t => stack'[u] = stack[u]
  BY <1>1, <1>2 DEF BarrierType
<1>5. stack' \in [Users -> Seq(S)]
  BY <1>1, <1>2, <1>3 DEF BarrierType
<1>6. BarrierType'
  BY <1>1, <1>2, <1>5 DEF BarrierType
<1>7. \A u \in Users : depth'[u] = Len(stack'[u])
  BY <1>1, <1>2, <1>3, <1>4 DEF BarrierInv, BarrierType
<1>8. ASSUME NEW u \in Users, NEW i \in DOMAIN stack'[u]
      PROVE  stack'[u][i] \cap gone = {}
  <2>1. CASE u = t
    <3>1. stack'[u][i] = targets \/ \E j \in DOMAIN stack[t] : stack'[u][i] = stack[t][j]
      BY <1>3, <1>4, <1>8, <2>1
    <3> QED
      BY <1>2, <3>1 DEF BarrierInv
  <2>2. CASE u # t
    <3>1. stack'[u] = stack[u]
      BY <1>4, <2>2
    <3> QED
      BY <1>8, <3>1 DEF BarrierInv
  <2> QED
    BY <2>1, <2>2
<1>9. IsFiniteSet(UnderWay') /\ Cardinality(UnderWay') = inFlight'
  BY <1>1, Deeper
<1> QED
  BY <1>1, <1>6, <1>7, <1>8, <1>9 DEF BarrierInv

LEMMA CallHandlerKeeps ==
  ASSUME BarrierInv, NEW t \in Users, Barrier!callHandler(t)
  PROVE  BarrierInv'
<1> DEFINE S == SUBSET Barrier!Handlers
<1>1. /\ stack[t] # << >> /\ UNCHANGED <<registered, inFlight, depth, reporting, waiting, gone>>
  BY DEF Barrier!callHandler
<1>2. PICK h \in Head(stack[t]) : stack' = [stack EXCEPT ![t][1] = @ \ {h}]
  BY DEF Barrier!callHandler
<1>3. BarrierType /\ stack[t] \in Seq(S) /\ 1 \in DOMAIN stack[t]
  BY <1>1, EmptySeq DEF BarrierInv, BarrierType
<1>4. /\ stack' = [stack EXCEPT ![t] = [stack[t] EXCEPT ![1] = @ \ {h}]]
      /\ stack[t][1] \ {h} \in S
  BY <1>2, <1>3 DEF BarrierType
<1>5. [stack[t] EXCEPT ![1] = @ \ {h}] \in Seq(S) /\ Len([stack[t] EXCEPT ![1] = @ \ {h}]) = Len(stack[t])
      /\ \A i \in DOMAIN stack[t] : [stack[t] EXCEPT ![1] = @ \ {h}][i] \subseteq stack[t][i]
      /\ DOMAIN [stack[t] EXCEPT ![1] = @ \ {h}] = DOMAIN stack[t]
  BY <1>3, <1>4, ExceptSeq
<1>6. stack' \in [Users -> Seq(S)] /\ \A u \in Users : /\ Len(stack'[u]) = Len(stack[u])
          /\ DOMAIN stack'[u] = DOMAIN stack[u] /\ \A i \in DOMAIN stack[u] : stack'[u][i] \subseteq stack[u][i]
  BY <1>3, <1>4, <1>5 DEF BarrierType
<1>7. UnderWay' = UnderWay
  BY <1>1 DEF UnderWay
<1> QED
  BY <1>1, <1>3, <1>6, <1>7 DEF BarrierInv, BarrierType

LEMMA EndKeeps ==
  ASSUME BarrierInv, NEW t \in Users, Barrier!end(t)
  PROVE  BarrierInv'
<1> DEFINE S == SUBSET Barrier!Handlers
<1>1. /\ stack[t] # << >> /\ stack' = [stack EXCEPT ![t] = Tail(@)]
      /\ depth' = [depth EXCEPT ![t] = @ - 1] /\ inFlight' = inFlight - 1
      /\ reporting' = [reporting EXCEPT ![t] = FALSE] /\ UNCHANGED <<registered, waiting, gone>>
  BY DEF Barrier!end
<1>2. BarrierType /\ stack[t] \in Seq(S) /\ depth[t] = Len(stack[t]) /\ depth[t] > 0
  BY <1>1, EmptySeq, LenProperties DEF BarrierInv, BarrierType
<1>3. /\ Tail(stack[t]) \in Seq(S) /\ Len(Tail(stack[t])) = Len(stack[t]) - 1
      /\ \A i \in DOMAIN Tail(stack[t]) : i + 1 \in DOMAIN stack[t] /\ Tail(stack[t])[i] = stack[t][i + 1]
  BY <1>1, <1>2, HeadTailProperties, LenProperties
<1>4. stack'[t] = Tail(stack[t]) /\ \A u \in Users : u # t => stack'[u] = stack[u]
  BY <1>1, <1>2 DEF BarrierType
<1>5. stack' \in [Users -> Seq(S)]
  BY <1>1, <1>2, <1>3 DEF BarrierType
<1>6. depth' \in [Users -> Nat] /\ depth'[t] = depth[t] - 1 /\ \A u \in Users : u # t => depth'[u] = depth[u]
  BY <1>1, <1>2 DEF BarrierType
<1>7. BarrierType'
  BY <1>1, <1>2, <1>5, <1>6 DEF BarrierType
<1>8. \A u \in Users : depth'[u] = Len(stack'[u])
  BY <1>2, <1>3, <1>4, <1>6 DEF BarrierInv
<1>9. ASSUME NEW u \in Users, NEW i \in DOMAIN stack'[u]
      PROVE  stack'[u][i] \cap gone = {}
  <2>1. CASE u = t
    <3>1. \E j \in DOMAIN stack[t] : stack'[u][i] = stack[t][j]
      BY <1>3, <1>4, <1>9, <2>1
    <3> QED
      BY <3>1 DEF BarrierInv
  <2>2. CASE u # t
    <3>1. stack'[u] = stack[u]
      BY <1>4, <2>2
    <3> QED
      BY <1>9, <3>1 DEF BarrierInv
  <2> QED
    BY <2>1, <2>2
<1>10. IsFiniteSet(UnderWay') /\ Cardinality(UnderWay') = inFlight'
  BY <1>1, <1>2, Shallower
<1> QED
  BY <1>1, <1>7, <1>8, <1>9, <1>10 DEF BarrierInv

\* A thread outside every dispatch removes a handler when nobody is inside one.
LEMMA UnregisterKeeps ==
  ASSUME BarrierInv, NEW t \in Users, Barrier!unregister(t)
  PROVE  BarrierInv'
<1> USE DEF BarrierInv, BarrierType, Barrier!unregister, Barrier!Free, Barrier!NoHandler
<1>1. waiting[t] \in Barrier!Handlers
  OBVIOUS
<1>2. UnderWay' = UnderWay
  BY DEF UnderWay
<1>3. depth[t] = 0 => \A u \in Users : stack[u] = << >>
  BY BarrierIsSound DEF Barrier!mayPass, Barrier!NoCallAfterUnregister
<1>4. \A u \in Users : \A i \in DOMAIN stack[u] : stack[u][i] \cap gone' = {}
  BY <1>3
<1> QED
  BY <1>1, <1>2, <1>4

LEMMA RegistryKeeps ==
  ASSUME BarrierInv, NEW t \in Users, Barrier!beginUnregister(t) \/ Barrier!register(t)
  PROVE  BarrierInv'
<1> USE DEF BarrierInv, BarrierType
<1>1. UnderWay' = UnderWay
  BY DEF UnderWay, Barrier!beginUnregister, Barrier!register
<1>2. CASE Barrier!beginUnregister(t)
  BY <1>1, <1>2 DEF Barrier!beginUnregister
<1>3. CASE Barrier!register(t)
  BY <1>1, <1>3 DEF Barrier!register
<1> QED
  BY <1>2, <1>3

LEMMA BarrierSteps ==
  ASSUME BarrierInv, [Barrier!BarrierNext]_barrierVars
  PROVE  BarrierInv'
<1>1. ASSUME NEW t \in Users, Barrier!dispatchMessage(t) \/ Barrier!reportError(t) PROVE BarrierInv'
  <2>1. reporting' \in [Users -> BOOLEAN]
    BY <1>1 DEF BarrierInv, BarrierType, Barrier!dispatchMessage, Barrier!reportError
  <2> QED
    BY <1>1, <2>1, BeginKeeps DEF Barrier!dispatchMessage, Barrier!reportError
<1>2. ASSUME NEW t \in Users, Barrier!BarrierStep(t) PROVE BarrierInv'
  BY <1>2, CallHandlerKeeps, EndKeeps, UnregisterKeeps DEF Barrier!BarrierStep
<1>3. CASE UNCHANGED barrierVars
  BY <1>3 DEF barrierVars, BarrierInv, BarrierType, UnderWay
<1> QED
  BY <1>1, <1>2, <1>3, RegistryKeeps DEF Barrier!BarrierNext

-----------------------------------------------------------------------------
(* Adapter *)

\* The places of a thread that holds the mutex.
Inside == {"onStart", "onStop", "callbacks", "reentered"}

AdapterType ==
  /\ aMutex \in Users \cup {"free"}
  /\ subscribers \in Seq(Subscribers) /\ todo \in Seq(Subscribers)
  /\ aPc \in [Users -> {"idle", "deliver"} \cup Inside]
  /\ casters \in [Pairs -> Nat] /\ madeCasters \in Nat
  /\ wired \subseteq [kind : {"subscriber", "publisher"}, pair : Pairs, caster : Nat \ {0}]

\* The mutex is held exactly by who is inside; a delivery that has somebody left to call has its
\* thread inside, so no list changes below it.
AdapterInv ==
  /\ AdapterType
  /\ \A t \in Users : aPc[t] \in Inside <=> aMutex = t
  /\ todo # << >> => \E t \in Users : aPc[t] \in {"callbacks", "reentered"}
  /\ Adapt!AdapterHoldsLive

LEMMA AdapterStart == Adapt!AdapterInit => AdapterInv
<1> SUFFICES ASSUME Adapt!AdapterInit PROVE AdapterInv
  OBVIOUS
<1> USE DEF Adapt!AdapterInit, Adapt!Free
<1>1. AdapterType
  BY DEF AdapterType
<1>2. \A t \in Users : aPc[t] = "idle" /\ aMutex # t
  BY ThreadsAssumption
<1> QED
  BY <1>1, <1>2 DEF AdapterInv, Adapt!AdapterHoldsLive, Inside

\* Nobody is being called while the mutex is free.
LEMMA NobodyCalled ==
  ASSUME AdapterInv
  PROVE  /\ aMutex = "free" => todo = << >>
         /\ \A t \in Users : aMutex = t /\ aPc[t] \in {"onStart", "onStop"} => todo = << >>
BY ThreadsAssumption DEF AdapterInv, Inside

\* A critical section that leaves the threads where they are.
LEMMA ShortKeeps ==
  ASSUME AdapterInv, NEW t \in Users, aMutex = "free", UNCHANGED <<aMutex, aPc, todo, casters, madeCasters>>,
         subscribers' \in Seq(Subscribers), wired' \subseteq wired
  PROVE  AdapterInv'
<1>1. todo = << >>
  BY NobodyCalled
<1> QED
  BY <1>1 DEF AdapterInv, AdapterType, Adapt!AdapterHoldsLive

LEMMA SubscriptionKeeps ==
  ASSUME AdapterInv, NEW t \in Users,
         \/ Adapt!initialize(t) \/ Adapt!shutdown(t)
         \/ \E s \in Subscribers : Adapt!subscribe(t, s) \/ Adapt!unsubscribe(t, s)
  PROVE  AdapterInv'
<1> USE DEF Adapt!short, Adapt!locked, Adapt!rosVars, Adapt!Free
<1>0. subscribers \in Seq(Subscribers)
  BY DEF AdapterInv, AdapterType
<1>1. CASE Adapt!initialize(t)
  <2>1. aMutex = "free" /\ UNCHANGED <<aMutex, aPc, todo, casters, madeCasters, subscribers, wired>>
    BY <1>1 DEF Adapt!initialize
  <2> QED
    BY <1>0, <2>1, ShortKeeps
<1>2. CASE Adapt!shutdown(t)
  <2>1. aMutex = "free" /\ UNCHANGED <<aMutex, aPc, todo, casters, madeCasters>>
        /\ subscribers' = << >> /\ wired' \subseteq wired
    BY <1>2 DEF Adapt!shutdown
  <2> QED
    BY <1>0, <2>1, ShortKeeps
<1>3. ASSUME NEW s \in Subscribers, Adapt!subscribe(t, s) PROVE AdapterInv'
  <2>1. aMutex = "free" /\ UNCHANGED <<aMutex, aPc, todo, casters, madeCasters, wired>>
        /\ subscribers' = Append(subscribers, s)
    BY <1>3 DEF Adapt!subscribe
  <2>2. subscribers' \in Seq(Subscribers)
    BY <1>0, <2>1, AppendProperties
  <2> QED
    BY <2>1, <2>2, ShortKeeps
<1>4. ASSUME NEW s \in Subscribers, Adapt!unsubscribe(t, s) PROVE AdapterInv'
  <2>1. aMutex = "free" /\ UNCHANGED <<aMutex, aPc, todo, casters, madeCasters, wired>>
    BY <1>4 DEF Adapt!unsubscribe
  <2>2. PICK i \in DOMAIN subscribers :
          subscribers' = SubSeq(subscribers, 1, i - 1) \o SubSeq(subscribers, i + 1, Len(subscribers))
    BY <1>4 DEF Adapt!unsubscribe
  <2>3. /\ SubSeq(subscribers, 1, i - 1) \in Seq(Subscribers)
        /\ SubSeq(subscribers, i + 1, Len(subscribers)) \in Seq(Subscribers)
    BY <1>0, <2>2, SubSeqProperties, LenProperties
  <2>4. subscribers' \in Seq(Subscribers)
    BY <2>2, <2>3, ConcatProperties
  <2> QED
    BY <2>1, <2>4, ShortKeeps
<1> QED
  BY <1>1, <1>2, <1>3, <1>4

LEMMA DriveKeeps ==
  ASSUME AdapterInv, NEW t \in Users, Adapt!start(t) \/ Adapt!stop(t) \/ Adapt!publish(t)
  PROVE  AdapterInv'
<1>1. UNCHANGED <<subscribers, todo, casters, wired, madeCasters>>
  BY DEF Adapt!start, Adapt!stop, Adapt!publish, Adapt!rosVars
<1>2. \/ /\ aPc[t] = "idle" /\ aMutex = "free" /\ aMutex' = t
         /\ \E l \in {"onStart", "onStop"} : aPc' = [aPc EXCEPT ![t] = l]
      \/ /\ aPc[t] \in {"onStart", "onStop"} /\ aMutex' = "free" /\ aPc' = [aPc EXCEPT ![t] = "idle"]
      \/ aPc[t] = "idle" /\ aMutex' = aMutex /\ aPc' = [aPc EXCEPT ![t] = "deliver"]
  BY DEF Adapt!start, Adapt!stop, Adapt!publish, Adapt!moves, Adapt!aAt, Adapt!Free
<1>3. AdapterType'
  BY <1>1, <1>2 DEF AdapterInv, AdapterType, Inside
<1>4. \A u \in Users : aPc'[u] \in Inside <=> aMutex' = u
  BY <1>2, ThreadsAssumption DEF AdapterInv, AdapterType, Inside
<1>5. todo # << >> => \E u \in Users : aPc'[u] \in {"callbacks", "reentered"}
  BY <1>2 DEF AdapterInv, AdapterType
<1> QED
  BY <1>1, <1>3, <1>4, <1>5 DEF AdapterInv, Adapt!AdapterHoldsLive

LEMMA DeliverKeeps ==
  ASSUME AdapterInv, NEW t \in Users, Adapt!deliverLocally(t)
  PROVE  AdapterInv'
<1> USE DEF Adapt!moves, Adapt!aAt, Adapt!Free, Adapt!rosVars
<1>0. AdapterType /\ subscribers \in Seq(Subscribers) /\ todo \in Seq(Subscribers)
  BY DEF AdapterInv, AdapterType
<1>1. UNCHANGED <<subscribers, casters, wired, madeCasters>>
  BY DEF Adapt!deliverLocally
<1>2. CASE /\ aPc[t] = "deliver" /\ aPc' = [aPc EXCEPT ![t] = "callbacks"]
           /\ aMutex = "free" /\ aMutex' = t /\ todo' = subscribers
  <2>1. AdapterType'
    BY <1>0, <1>1, <1>2 DEF AdapterType, Inside
  <2>2. \A u \in Users : aPc'[u] \in Inside <=> aMutex' = u
    BY <1>2, ThreadsAssumption DEF AdapterInv, AdapterType, Inside
  <2>3. aPc'[t] = "callbacks"
    BY <1>0, <1>2 DEF AdapterType
  <2>4. Adapt!AdapterHoldsLive'
    BY <1>1, <1>2 DEF AdapterInv, Adapt!AdapterHoldsLive
  <2> QED
    BY <2>1, <2>2, <2>3, <2>4 DEF AdapterInv
<1>3. CASE aPc[t] = "callbacks" /\ todo # << >> /\ todo' = Tail(todo) /\ UNCHANGED <<aPc, aMutex>>
  <2>1. /\ Tail(todo) \in Seq(Subscribers)
        /\ \A i \in DOMAIN Tail(todo) : i + 1 \in DOMAIN todo /\ Tail(todo)[i] = todo[i + 1]
    BY <1>0, <1>3, HeadTailProperties, LenProperties
  <2>2. AdapterType'
    BY <1>0, <1>1, <1>3, <2>1 DEF AdapterType
  <2>3. Adapt!AdapterHoldsLive'
    BY <1>1, <1>3, <2>1 DEF AdapterInv, Adapt!AdapterHoldsLive
  <2> QED
    BY <1>3, <2>2, <2>3 DEF AdapterInv
<1>4. CASE aPc[t] = "callbacks" /\ aPc' = [aPc EXCEPT ![t] = "reentered"] /\ UNCHANGED <<todo, aMutex>>
  <2>1. AdapterType'
    BY <1>0, <1>1, <1>4 DEF AdapterType, Inside
  <2>2. \A u \in Users : aPc'[u] \in Inside <=> aMutex' = u
    BY <1>4 DEF AdapterInv, AdapterType, Inside
  <2>3. aPc'[t] = "reentered"
    BY <1>0, <1>4 DEF AdapterType
  <2> QED
    BY <1>1, <1>4, <2>1, <2>2, <2>3 DEF AdapterInv, Adapt!AdapterHoldsLive
<1>5. CASE /\ aPc[t] = "callbacks" /\ aPc' = [aPc EXCEPT ![t] = "idle"]
           /\ todo = << >> /\ aMutex' = "free" /\ UNCHANGED todo
  <2>1. AdapterType'
    BY <1>0, <1>1, <1>5 DEF AdapterType, Inside
  <2>2. \A u \in Users : aPc'[u] \in Inside <=> aMutex' = u
    BY <1>5, ThreadsAssumption DEF AdapterInv, AdapterType, Inside
  <2> QED
    BY <1>1, <1>5, <2>1, <2>2 DEF AdapterInv, Adapt!AdapterHoldsLive
<1> QED
  BY <1>2, <1>3, <1>4, <1>5 DEF Adapt!deliverLocally

\* A caster that a unit holds is the one of its pair: a pair that has one gets no other.
LEMMA CasterKeeps ==
  ASSUME AdapterInv, NEW p \in Pairs,
         Adapt!registerCaster(p) \/ \E k \in {"subscriber", "publisher"} : Adapt!createUnit(p, k)
  PROVE  AdapterInv'
<1>1. UNCHANGED <<aMutex, subscribers, todo, aPc>>
  BY DEF Adapt!registerCaster, Adapt!createUnit, Adapt!baseVars
<1>2. CASE Adapt!registerCaster(p)
  <2>1. /\ wired' = wired /\ casters[p] = 0
        /\ casters' = [casters EXCEPT ![p] = madeCasters'] /\ madeCasters' = madeCasters + 1
    BY <1>2 DEF Adapt!registerCaster
  <2>2. AdapterType'
    BY <1>1, <2>1 DEF AdapterInv, AdapterType
  <2>3. \A w \in wired : casters'[w.pair] = w.caster
    BY <2>1 DEF AdapterInv, AdapterType, Adapt!AdapterHoldsLive
  <2> QED
    BY <1>1, <2>1, <2>2, <2>3 DEF AdapterInv, Adapt!AdapterHoldsLive
<1>3. ASSUME NEW k \in {"subscriber", "publisher"}, Adapt!createUnit(p, k) PROVE AdapterInv'
  <2>1. casters[p] # 0 /\ UNCHANGED <<casters, madeCasters>>
        /\ wired' = wired \cup {[kind |-> k, pair |-> p, caster |-> casters[p]]}
    BY <1>3 DEF Adapt!createUnit
  <2>2. AdapterType'
    BY <1>1, <2>1 DEF AdapterInv, AdapterType
  <2>3. \A w \in wired' : casters[w.pair] = w.caster
    BY <2>1 DEF AdapterInv, Adapt!AdapterHoldsLive
  <2> QED
    BY <1>1, <2>1, <2>2, <2>3 DEF AdapterInv, Adapt!AdapterHoldsLive
<1> QED
  BY <1>2, <1>3

LEMMA AdapterSteps ==
  ASSUME AdapterInv, [Adapt!AdapterNext]_adapterVars
  PROVE  AdapterInv'
<1>1. CASE UNCHANGED adapterVars
  BY <1>1 DEF adapterVars, AdapterInv, AdapterType, Adapt!AdapterHoldsLive
<1> QED
  BY <1>1, SubscriptionKeeps, DriveKeeps, DeliverKeeps, CasterKeeps DEF Adapt!AdapterNext

-----------------------------------------------------------------------------
(* PluginManager *)

\* What was done in the end with a library that nobody holds, and with any.
Fates == {Plug!Loaded \o Plug!Closed} \cup Plug!LoaderFailures \cup Plug!FailedInitialize

Histories == Fates \cup {Plug!Loaded}

PluginType ==
  /\ plugins = [g \in Managers |-> plugins[g]]
  /\ libraries \in Seq(Histories)
  /\ lastError \in [Managers -> BOOLEAN]
  /\ scan \in [Managers -> [left : Nat, failed : BOOLEAN]]

EntriesOf(f) == {f[n] : n \in DOMAIN f}

\* A library is open exactly while one entry of one manager names it.
PluginInv ==
  /\ PluginType
  /\ Plug!Held \subseteq DOMAIN libraries
  /\ \A i \in DOMAIN libraries : libraries[i] \in IF i \in Plug!Held THEN {Plug!Loaded} ELSE Fates
  /\ \A g, o \in Managers : \A n \in DOMAIN plugins[g], k \in DOMAIN plugins[o] :
       plugins[g][n] = plugins[o][k] => g = o /\ n = k

LEMMA PluginsAreSound == PluginInv => Plug!LibrariesOwnedOnce
BY DEF PluginInv, Plug!LibrariesOwnedOnce, Fates, Plug!FailedInitialize

LEMMA HeldByEntry ==
  /\ \A i : i \in Plug!Held <=> \E g \in Managers : \E n \in DOMAIN plugins[g] : i = plugins[g][n]
  /\ \A i : i \in Plug!Held' <=> \E g \in Managers : \E n \in DOMAIN plugins'[g] : i = plugins'[g][n]
<1>1. ASSUME NEW p, NEW i
      PROVE  i \in UNION {EntriesOf(p[g]) : g \in Managers} <=> \E g \in Managers : i \in EntriesOf(p[g])
  OBVIOUS
<1>2. ASSUME NEW p, NEW i
      PROVE  i \in UNION {EntriesOf(p[g]) : g \in Managers}
               <=> \E g \in Managers : \E n \in DOMAIN p[g] : i = p[g][n]
  BY <1>1 DEF EntriesOf
<1>3. Plug!Held = UNION {EntriesOf(plugins[g]) : g \in Managers}
  BY DEF Plug!Held, Plug!Range, EntriesOf
<1>4. Plug!Held' = UNION {EntriesOf(plugins'[g]) : g \in Managers}
  BY DEF Plug!Held, Plug!Range, EntriesOf
<1>5. PICK p, q : p = plugins /\ q = plugins'
  OBVIOUS
<1>6. ASSUME NEW i
      PROVE /\ i \in UNION {EntriesOf(p[g]) : g \in Managers}
                 <=> \E g \in Managers : \E n \in DOMAIN p[g] : i = p[g][n]
            /\ i \in UNION {EntriesOf(q[g]) : g \in Managers}
                 <=> \E g \in Managers : \E n \in DOMAIN q[g] : i = q[g][n]
  BY <1>2
<1>7. /\ Plug!Held = UNION {EntriesOf(p[g]) : g \in Managers}
      /\ Plug!Held' = UNION {EntriesOf(q[g]) : g \in Managers}
  BY <1>3, <1>4, <1>5
<1>8. \A i : i \in Plug!Held <=> \E g \in Managers : \E n \in DOMAIN p[g] : i = p[g][n]
  BY <1>6, <1>7
<1>9. \A i : i \in Plug!Held' <=> \E g \in Managers : \E n \in DOMAIN q[g] : i = q[g][n]
  BY <1>6, <1>7
<1> QED
  BY <1>5, <1>8, <1>9

LEMMA PluginStart == Plug!PluginInit => PluginInv
<1> SUFFICES ASSUME Plug!PluginInit PROVE PluginInv
  OBVIOUS
<1>1. PluginType
  BY DEF PluginType, Plug!PluginInit, Plug!NoScan
<1>2. \A g \in Managers : DOMAIN plugins[g] = {}
  BY DEF Plug!PluginInit
<1> QED
  BY <1>1, <1>2, HeldByEntry DEF PluginInv, Plug!PluginInit

\* A library is opened: what was opened before keeps its place.
LEMMA OneMore ==
  ASSUME NEW S, NEW s \in Seq(S), NEW x \in S
  PROVE  /\ Append(s, x) \in Seq(S) /\ Len(Append(s, x)) = Len(s) + 1
         /\ DOMAIN Append(s, x) = DOMAIN s \cup {Len(s) + 1} /\ Len(s) + 1 \notin DOMAIN s
         /\ Append(s, x)[Len(s) + 1] = x /\ \A i \in DOMAIN s : Append(s, x)[i] = s[i]
BY AppendProperties, LenProperties

LEMMA OpenedInVain ==
  ASSUME PluginInv, NEW f \in Fates, libraries' = Append(libraries, f), UNCHANGED plugins,
         (PluginType)'
  PROVE  PluginInv'
<1>1. libraries \in Seq(Histories) /\ f \in Histories
  BY DEF PluginInv, PluginType, Histories
<1>2. Plug!Held' = Plug!Held
  BY DEF Plug!Held
<1>3. /\ DOMAIN libraries' = DOMAIN libraries \cup {Len(libraries) + 1}
      /\ Len(libraries) + 1 \notin DOMAIN libraries
      /\ libraries'[Len(libraries) + 1] = f /\ \A i \in DOMAIN libraries : libraries'[i] = libraries[i]
  BY <1>1, OneMore
<1> QED
  BY <1>2, <1>3 DEF PluginInv

LEMMA AdoptedEntries ==
  ASSUME NEW p, NEW q, NEW g \in Managers, NEW n, NEW l,
         DOMAIN q[g] = {n} \cup DOMAIN p[g], q[g][n] = l,
         n \notin DOMAIN p[g], \A x \in DOMAIN p[g] : q[g][x] = p[g][x],
         \A o \in Managers : o # g => q[o] = p[o]
  PROVE  \A i : (\E o \in Managers : \E k \in DOMAIN q[o] : i = q[o][k])
                  <=> i = l \/ \E o \in Managers : \E k \in DOMAIN p[o] : i = p[o][k]
<1> TAKE i
<1>1. ASSUME NEW o \in Managers, NEW k \in DOMAIN q[o], i = q[o][k]
      PROVE  i = l \/ \E r \in Managers : \E m \in DOMAIN p[r] : i = p[r][m]
  <2>1. CASE o = g /\ k = n
    BY <1>1, <2>1
  <2>2. CASE ~(o = g /\ k = n)
    <3>1. k \in DOMAIN p[o] /\ i = p[o][k]
      BY <1>1, <2>2
    <3> QED
      BY <3>1
  <2> QED
    BY <2>1, <2>2
<1>2. ASSUME NEW o \in Managers, NEW k \in DOMAIN p[o], i = p[o][k]
      PROVE  k \in DOMAIN q[o] /\ i = q[o][k]
  BY <1>2
<1> QED
  BY <1>1, <1>2

\* A library gets an entry in the table of a manager.
Adopts(g, n) ==
  /\ n \notin DOMAIN plugins[g]
  /\ libraries' = Append(libraries, Plug!Loaded)
  /\ plugins' = [plugins EXCEPT ![g] =
                   [x \in {n} \cup DOMAIN @ |-> IF x = n THEN Len(libraries') ELSE @[x]]]

LEMMA Adopted ==
  ASSUME PluginInv, NEW g \in Managers, NEW n, Adopts(g, n), (PluginType)'
  PROVE  PluginInv'
<1>1. PluginType /\ libraries \in Seq(Histories) /\ Plug!Loaded \in Histories
  BY DEF PluginInv, PluginType, Histories
<1>2. PICK l : l = Len(libraries) + 1
  OBVIOUS
<1>3. /\ DOMAIN libraries' = DOMAIN libraries \cup {l} /\ l \notin DOMAIN libraries /\ Len(libraries') = l
      /\ libraries'[l] = Plug!Loaded /\ \A i \in DOMAIN libraries : libraries'[i] = libraries[i]
  BY <1>1, <1>2, OneMore DEF Adopts
<1>4. /\ DOMAIN plugins'[g] = {n} \cup DOMAIN plugins[g] /\ plugins'[g][n] = l
      /\ \A x \in DOMAIN plugins[g] : plugins'[g][x] = plugins[g][x]
      /\ \A o \in Managers : o # g => plugins'[o] = plugins[o]
  BY <1>1, <1>3 DEF PluginType, Adopts
<1>5. n \notin DOMAIN plugins[g]
  BY DEF Adopts
<1>6. Plug!Held' = Plug!Held \cup {l}
  <2>1. PICK p, q : p = plugins /\ q = plugins'
    OBVIOUS
  <2>2. \A i : (\E o \in Managers : \E k \in DOMAIN q[o] : i = q[o][k])
                 <=> i = l \/ \E o \in Managers : \E k \in DOMAIN p[o] : i = p[o][k]
    BY <1>4, <1>5, <2>1, AdoptedEntries
  <2> QED
    BY <2>1, <2>2, HeldByEntry
<1>7. \A o, p \in Managers : \A m \in DOMAIN plugins'[o], k \in DOMAIN plugins'[p] :
         plugins'[o][m] = plugins'[p][k] => o = p /\ m = k
  <2>1. \A o \in Managers : \A k \in DOMAIN plugins[o] : plugins[o][k] # l
    BY <1>3, HeldByEntry DEF PluginInv
  <2>2. \A o, p \in Managers : \A m \in DOMAIN plugins[o], k \in DOMAIN plugins[p] :
         plugins[o][m] = plugins[p][k] => o = p /\ m = k
    BY DEF PluginInv
  <2>3. ASSUME NEW o \in Managers, NEW m \in DOMAIN plugins'[o]
        PROVE  \/ o = g /\ m = n /\ plugins'[o][m] = l
               \/ m \in DOMAIN plugins[o] /\ plugins'[o][m] = plugins[o][m] /\ ~(o = g /\ m = n)
    BY <1>4
  <2> TAKE o, p \in Managers
  <2> TAKE m \in DOMAIN plugins'[o], k \in DOMAIN plugins'[p]
  <2> HAVE plugins'[o][m] = plugins'[p][k]
  <2>4. /\ (o = g /\ m = n /\ plugins'[o][m] = l) \/ (m \in DOMAIN plugins[o] /\ plugins'[o][m] = plugins[o][m])
        /\ (p = g /\ k = n /\ plugins'[p][k] = l) \/ (k \in DOMAIN plugins[p] /\ plugins'[p][k] = plugins[p][k])
    BY <2>3
  <2> QED
    BY <2>1, <2>2, <2>4
<1>8. \A i \in DOMAIN libraries' : libraries'[i] \in IF i \in Plug!Held' THEN {Plug!Loaded} ELSE Fates
  BY <1>3, <1>6 DEF PluginInv
<1> QED
  BY <1>3, <1>6, <1>7, <1>8 DEF PluginInv

\* Libraries in the table of a manager are closed, and leave it; those of another may move in.
LEMMA ClosedKeeps ==
  ASSUME PluginInv, NEW s \in SUBSET Plug!Held, libraries' = Plug!closeAll(s),
         plugins' = [g \in Managers |-> plugins'[g]], scan' = scan,
         lastError' \in [Managers -> BOOLEAN],
         \A i : (\E o \in Managers : \E k \in DOMAIN plugins'[o] : i = plugins'[o][k]) <=> i \in Plug!Held \ s,
         \A g, o \in Managers : \A n \in DOMAIN plugins'[g], k \in DOMAIN plugins'[o] :
           plugins'[g][n] = plugins'[o][k] => g = o /\ n = k
  PROVE  PluginInv'
<1>1. PluginType /\ libraries \in Seq(Histories)
  BY DEF PluginInv, PluginType
<1>2. \A i : i \in Plug!Held' <=> \E o \in Managers : \E k \in DOMAIN plugins'[o] : i = plugins'[o][k]
  BY HeldByEntry
<1>3. Plug!Held' = Plug!Held \ s
  BY <1>2
<1>4. \A i \in DOMAIN libraries : i \in s => libraries[i] \o Plug!Closed \in Fates
  BY DEF PluginInv, Fates
<1>5. \A i \in DOMAIN libraries : libraries[i] \in Histories
  BY DEF PluginInv, Histories
<1>6. DOMAIN libraries' = DOMAIN libraries /\ \A i \in DOMAIN libraries :
         libraries'[i] \in IF i \in Plug!Held \ s THEN {Plug!Loaded} ELSE Fates
  BY <1>4 DEF PluginInv, Plug!closeAll
<1>7. libraries' \in Seq(Histories)
  <2>1. libraries' = [i \in 1..Len(libraries) |-> IF i \in s THEN libraries[i] \o Plug!Closed ELSE libraries[i]]
    BY <1>1, LenProperties DEF Plug!closeAll
  <2>2. libraries' \in [1..Len(libraries) -> Histories]
    BY <1>1, <1>4, <1>5, <2>1, LenProperties DEF Histories
  <2> QED
    BY <1>1, <2>2, LenProperties, SeqDef
<1>8. PluginType'
  BY <1>1, <1>7 DEF PluginType
<1> QED
  BY <1>3, <1>6, <1>8 DEF PluginInv

\* Entries that leave a table, and a table that moves to another manager.
LEMMA LeftEntries ==
  ASSUME NEW p, NEW q, NEW g \in Managers, NEW D \in SUBSET DOMAIN p[g],
         DOMAIN q[g] = D, \A x \in D : q[g][x] = p[g][x],
         \A o \in Managers : o # g => q[o] = p[o],
         \A r, o \in Managers : \A n \in DOMAIN p[r], k \in DOMAIN p[o] :
           p[r][n] = p[o][k] => r = o /\ n = k
  PROVE  /\ \A i : (\E o \in Managers : \E k \in DOMAIN q[o] : i = q[o][k])
                    <=> /\ \E o \in Managers : \E k \in DOMAIN p[o] : i = p[o][k]
                        /\ i \notin {p[g][x] : x \in DOMAIN p[g] \ D}
         /\ \A r, o \in Managers : \A n \in DOMAIN q[r], k \in DOMAIN q[o] :
              q[r][n] = q[o][k] => r = o /\ n = k
<1>1. ASSUME NEW o \in Managers, NEW k \in DOMAIN q[o]
      PROVE  k \in DOMAIN p[o] /\ q[o][k] = p[o][k] /\ (o = g => k \in D)
  BY <1>1
<1>2. ASSUME NEW o \in Managers, NEW k \in DOMAIN p[o], o = g => k \in D
      PROVE  k \in DOMAIN q[o] /\ q[o][k] = p[o][k]
  BY <1>2
<1>3. ASSUME NEW i, NEW o \in Managers, NEW k \in DOMAIN q[o], i = q[o][k]
      PROVE  /\ \E r \in Managers : \E m \in DOMAIN p[r] : i = p[r][m]
             /\ i \notin {p[g][x] : x \in DOMAIN p[g] \ D}
  <2>1. k \in DOMAIN p[o] /\ i = p[o][k] /\ (o = g => k \in D)
    BY <1>1, <1>3
  <2> QED
    BY <2>1
<1>4. ASSUME NEW i, NEW o \in Managers, NEW k \in DOMAIN p[o], i = p[o][k],
             i \notin {p[g][x] : x \in DOMAIN p[g] \ D}
      PROVE  \E r \in Managers : \E m \in DOMAIN q[r] : i = q[r][m]
  <2>1. k \in DOMAIN q[o] /\ i = q[o][k]
    BY <1>2, <1>4
  <2> QED
    BY <2>1
<1>5. \A r, o \in Managers : \A n \in DOMAIN q[r], k \in DOMAIN q[o] :
        q[r][n] = q[o][k] => r = o /\ n = k
  <2> TAKE r, o \in Managers
  <2> TAKE n \in DOMAIN q[r], k \in DOMAIN q[o]
  <2>1. n \in DOMAIN p[r] /\ q[r][n] = p[r][n] /\ k \in DOMAIN p[o] /\ q[o][k] = p[o][k]
    BY <1>1
  <2> QED
    BY <2>1
<1> QED
  BY <1>3, <1>4, <1>5

LEMMA MovedEntries ==
  ASSUME NEW p, NEW q, NEW g \in Managers, NEW o \in Managers, g # o,
         q[g] = p[o], DOMAIN q[o] = {}, \A r \in Managers : r \notin {g, o} => q[r] = p[r],
         \A r, u \in Managers : \A n \in DOMAIN p[r], k \in DOMAIN p[u] :
           p[r][n] = p[u][k] => r = u /\ n = k
  PROVE  /\ \A i : (\E r \in Managers : \E k \in DOMAIN q[r] : i = q[r][k])
                    <=> /\ \E r \in Managers : \E k \in DOMAIN p[r] : i = p[r][k]
                        /\ i \notin {p[g][x] : x \in DOMAIN p[g]}
         /\ \A r, u \in Managers : \A n \in DOMAIN q[r], k \in DOMAIN q[u] :
              q[r][n] = q[u][k] => r = u /\ n = k
<1>1. ASSUME NEW r \in Managers, NEW k \in DOMAIN q[r]
      PROVE  r # o /\ (r = g => k \in DOMAIN p[o] /\ q[r][k] = p[o][k])
                   /\ (r # g => k \in DOMAIN p[r] /\ q[r][k] = p[r][k])
  BY <1>1
<1>2. ASSUME NEW r \in Managers, r # g, NEW k \in DOMAIN p[r]
      PROVE  \E u \in Managers : k \in DOMAIN q[u] /\ q[u][k] = p[r][k]
  BY <1>2
<1>3. ASSUME NEW i, NEW r \in Managers, NEW k \in DOMAIN q[r], i = q[r][k]
      PROVE  /\ \E u \in Managers : \E m \in DOMAIN p[u] : i = p[u][m]
             /\ i \notin {p[g][x] : x \in DOMAIN p[g]}
  <2>1. CASE r = g
    BY <1>1, <1>3, <2>1
  <2>2. CASE r # g
    BY <1>1, <1>3, <2>2
  <2> QED
    BY <2>1, <2>2
<1>4. ASSUME NEW i, NEW r \in Managers, NEW k \in DOMAIN p[r], i = p[r][k],
             i \notin {p[g][x] : x \in DOMAIN p[g]}
      PROVE  \E u \in Managers : \E m \in DOMAIN q[u] : i = q[u][m]
  <2>1. r # g
    BY <1>4
  <2>2. PICK u \in Managers : k \in DOMAIN q[u] /\ q[u][k] = p[r][k]
    BY <1>2, <2>1
  <2> QED
    BY <1>4, <2>2
<1>5. \A r, u \in Managers : \A n \in DOMAIN q[r], k \in DOMAIN q[u] :
        q[r][n] = q[u][k] => r = u /\ n = k
  <2> TAKE r, u \in Managers
  <2> TAKE n \in DOMAIN q[r], k \in DOMAIN q[u]
  <2>1. PICK r1 \in Managers : n \in DOMAIN p[r1] /\ q[r][n] = p[r1][n] /\ r1 = IF r = g THEN o ELSE r
    BY <1>1
  <2>2. PICK u1 \in Managers : k \in DOMAIN p[u1] /\ q[u][k] = p[u1][k] /\ u1 = IF u = g THEN o ELSE u
    BY <1>1
  <2> QED
    BY <1>1, <2>1, <2>2
<1> QED
  BY <1>3, <1>4, <1>5

LEMMA LoadKeeps ==
  ASSUME PluginInv, NEW g \in Managers, NEW ok \in BOOLEAN, Plug!load(g, ok),
         lastError' \in [Managers -> BOOLEAN],
         scan' \in [Managers -> [left : Nat, failed : BOOLEAN]]
  PROVE  PluginInv'
<1>1. PluginType
  BY DEF PluginInv
<1>2. ASSUME NEW f \in Fates, libraries' = Append(libraries, f), UNCHANGED plugins
      PROVE  PluginInv'
  <2>1. libraries' \in Seq(Histories)
    BY <1>1, <1>2, AppendProperties DEF PluginType, Histories
  <2>2. PluginType'
    BY <1>1, <1>2, <2>1 DEF PluginType
  <2> QED
    BY <1>2, <2>2, OpenedInVain
<1>3. ASSUME NEW n \in Names, Adopts(g, n)
      PROVE  PluginInv'
  <2>1. libraries' \in Seq(Histories)
    BY <1>1, <1>3, AppendProperties DEF PluginType, Histories, Adopts
  <2>2. plugins' = [o \in Managers |-> plugins'[o]]
    BY <1>1, <1>3 DEF PluginType, Adopts
  <2>3. PluginType'
    BY <2>1, <2>2 DEF PluginType
  <2> QED
    BY <1>3, <2>3, Adopted
<1>4. (\E f \in Fates : libraries' = Append(libraries, f) /\ UNCHANGED plugins) \/ \E n \in Names : Adopts(g, n)
  BY DEF Plug!load, Fates, Adopts
<1> QED
  BY <1>2, <1>3, <1>4

LEMMA LoadingKeeps ==
  ASSUME PluginInv, NEW g \in Managers,
         Plug!loadPlugin(g) \/ Plug!beginDirectory(g) \/ Plug!loadFromDirectory(g)
  PROVE  PluginInv'
<1>1. PluginType
  BY DEF PluginInv
<1>2. CASE Plug!loadPlugin(g)
  <2>1. PICK ok \in BOOLEAN : /\ Plug!load(g, ok) /\ lastError' = [lastError EXCEPT ![g] = ~ok]
                              /\ scan' = scan
    BY <1>2 DEF Plug!loadPlugin
  <2>2. lastError' \in [Managers -> BOOLEAN] /\ scan' \in [Managers -> [left : Nat, failed : BOOLEAN]]
    BY <1>1, <2>1 DEF PluginType
  <2> QED
    BY <2>1, <2>2, LoadKeeps
<1>3. CASE Plug!beginDirectory(g)
  <2>1. /\ UNCHANGED <<plugins, libraries>> /\ lastError' = [lastError EXCEPT ![g] = FALSE]
        /\ \E k \in 1..MaxScan : scan' = [scan EXCEPT ![g] = [left |-> k, failed |-> FALSE]]
    BY <1>3 DEF Plug!beginDirectory
  <2>2. lastError' \in [Managers -> BOOLEAN] /\ scan' \in [Managers -> [left : Nat, failed : BOOLEAN]]
    BY <1>1, <2>1 DEF PluginType
  <2>3. Plug!Held' = Plug!Held
    BY <2>1 DEF Plug!Held
  <2>4. PluginType'
    BY <1>1, <2>1, <2>2 DEF PluginType
  <2> QED
    BY <2>1, <2>3, <2>4 DEF PluginInv
<1>4. CASE Plug!loadFromDirectory(g)
  <2>1. PICK ok \in BOOLEAN :
          /\ scan[g].left > 0 /\ Plug!load(g, ok)
          /\ scan' = [scan EXCEPT ![g] = IF @.left = 1 THEN Plug!NoScan
                              ELSE [left |-> @.left - 1, failed |-> @.failed \/ ~ok]]
          /\ lastError' = [lastError EXCEPT ![g] = IF scan[g].left = 1 THEN Plug!summary(g, ok) ELSE ~ok]
    BY <1>4 DEF Plug!loadFromDirectory
  <2>2. scan[g] \in [left : Nat, failed : BOOLEAN]
    BY <1>1 DEF PluginType
  <2>3. lastError' \in [Managers -> BOOLEAN]
    BY <1>1, <2>1, <2>2 DEF PluginType, Plug!summary
  <2>4. [left |-> scan[g].left - 1, failed |-> scan[g].failed \/ ~ok] \in [left : Nat, failed : BOOLEAN]
        /\ Plug!NoScan \in [left : Nat, failed : BOOLEAN]
    BY <2>1, <2>2 DEF Plug!NoScan
  <2>5. scan' \in [Managers -> [left : Nat, failed : BOOLEAN]]
    BY <1>1, <2>1, <2>4 DEF PluginType
  <2> QED
    BY <2>1, <2>3, <2>5, LoadKeeps
<1> QED
  BY <1>2, <1>3, <1>4

LEMMA UnloadKeeps ==
  ASSUME PluginInv, NEW g \in Managers, Plug!unloadPlugin(g) \/ Plug!unloadAllPlugins(g)
  PROVE  PluginInv'
<1>1. PluginType
  BY DEF PluginInv
<1>2. PICK D \in SUBSET DOMAIN plugins[g] :
        /\ libraries' = Plug!closeAll({plugins[g][x] : x \in DOMAIN plugins[g] \ D})
        /\ DOMAIN plugins'[g] = D /\ \A x \in D : plugins'[g][x] = plugins[g][x]
        /\ \A o \in Managers : o # g => plugins'[o] = plugins[o]
        /\ plugins' = [o \in Managers |-> plugins'[o]]
        /\ UNCHANGED <<scan, lastError>>
  <2>1. CASE Plug!unloadPlugin(g)
    <3>1. PICK n \in DOMAIN plugins[g] :
            /\ libraries' = Plug!closeAll({plugins[g][n]})
            /\ plugins' = [plugins EXCEPT ![g] = [x \in DOMAIN plugins[g] \ {n} |-> plugins[g][x]]]
      BY <2>1 DEF Plug!unloadPlugin, Plug!Restrict
    <3>2. {plugins[g][x] : x \in DOMAIN plugins[g] \ (DOMAIN plugins[g] \ {n})} = {plugins[g][n]}
      OBVIOUS
    <3> WITNESS DOMAIN plugins[g] \ {n} \in SUBSET DOMAIN plugins[g]
    <3> QED
      BY <1>1, <2>1, <3>1, <3>2 DEF PluginType, Plug!unloadPlugin
  <2>2. CASE Plug!unloadAllPlugins(g)
    <3>1. /\ libraries' = Plug!closeAll(Plug!Range(plugins[g]))
          /\ plugins' = [plugins EXCEPT ![g] = << >>] /\ UNCHANGED <<scan, lastError>>
      BY <2>2 DEF Plug!unloadAllPlugins
    <3>2. {plugins[g][x] : x \in DOMAIN plugins[g] \ {}} = Plug!Range(plugins[g])
      BY DEF Plug!Range
    <3>3. plugins'[g] = << >> /\ \A o \in Managers : o # g => plugins'[o] = plugins[o]
      BY <1>1, <3>1 DEF PluginType
    <3>4. plugins' = [o \in Managers |-> plugins'[o]]
      BY <1>1, <3>1 DEF PluginType
    <3>5. DOMAIN plugins'[g] = {}
      BY <3>3
    <3> WITNESS {} \in SUBSET DOMAIN plugins[g]
    <3> QED
      BY <3>1, <3>2, <3>3, <3>4, <3>5
  <2> QED
    BY <2>1, <2>2
<1>3. PICK p, q, s : p = plugins /\ q = plugins' /\ s = {plugins[g][x] : x \in DOMAIN plugins[g] \ D}
  OBVIOUS
<1>4. /\ \A i : (\E o \in Managers : \E k \in DOMAIN q[o] : i = q[o][k])
                 <=> (\E o \in Managers : \E k \in DOMAIN p[o] : i = p[o][k]) /\ i \notin s
      /\ \A r, o \in Managers : \A n \in DOMAIN q[r], k \in DOMAIN q[o] :
           q[r][n] = q[o][k] => r = o /\ n = k
  <2>1. \A r, o \in Managers : \A n \in DOMAIN p[r], k \in DOMAIN p[o] :
           p[r][n] = p[o][k] => r = o /\ n = k
    BY <1>3 DEF PluginInv
  <2>2. D \in SUBSET DOMAIN p[g] /\ DOMAIN q[g] = D /\ \A x \in D : q[g][x] = p[g][x]
    BY <1>2, <1>3
  <2>3. \A o \in Managers : o # g => q[o] = p[o]
    BY <1>2, <1>3
  <2>4. s = {p[g][x] : x \in DOMAIN p[g] \ D}
    BY <1>3
  <2> QED
    BY <2>1, <2>2, <2>3, <2>4, LeftEntries
<1>5. s \in SUBSET Plug!Held
  <2>1. ASSUME NEW x \in DOMAIN plugins[g] PROVE plugins[g][x] \in Plug!Held
    BY HeldByEntry
  <2> QED
    BY <1>3, <2>1
<1>6. \A i : (\E o \in Managers : \E k \in DOMAIN plugins'[o] : i = plugins'[o][k]) <=> i \in Plug!Held \ s
  <2>1. PICK H : H = Plug!Held
    OBVIOUS
  <2>2. \A i : i \in H <=> \E r \in Managers : \E k \in DOMAIN p[r] : i = p[r][k]
    BY <1>3, <2>1, HeldByEntry
  <2>3. \A i : (\E r \in Managers : \E k \in DOMAIN q[r] : i = q[r][k]) <=> i \in H \ s
    BY <1>4, <2>2
  <2> QED
    BY <1>3, <2>1, <2>3
<1>7. \A r, o \in Managers : \A n \in DOMAIN plugins'[r], k \in DOMAIN plugins'[o] :
        plugins'[r][n] = plugins'[o][k] => r = o /\ n = k
  BY <1>3, <1>4
<1>8. libraries' = Plug!closeAll(s)
  BY <1>2, <1>3
<1>9. scan' = scan /\ lastError' \in [Managers -> BOOLEAN]
  BY <1>1, <1>2 DEF PluginType
<1> QED
  BY <1>2, <1>5, <1>6, <1>7, <1>8, <1>9, ClosedKeeps

LEMMA MoveKeeps ==
  ASSUME PluginInv, NEW g \in Managers, NEW o \in Managers, Plug!moveAssign(g, o)
  PROVE  PluginInv'
<1>1. PluginType
  BY DEF PluginInv
<1>2. /\ g # o /\ libraries' = Plug!closeAll({plugins[g][x] : x \in DOMAIN plugins[g]})
      /\ plugins'[g] = plugins[o] /\ DOMAIN plugins'[o] = {}
      /\ \A r \in Managers : r \notin {g, o} => plugins'[r] = plugins[r]
      /\ plugins' = [r \in Managers |-> plugins'[r]]
      /\ scan' = scan /\ lastError' \in [Managers -> BOOLEAN]
  <2>1. /\ g # o /\ libraries' = Plug!closeAll({plugins[g][x] : x \in DOMAIN plugins[g]})
        /\ plugins' = [plugins EXCEPT ![g] = plugins[o], ![o] = << >>]
        /\ scan' = scan /\ lastError' = [lastError EXCEPT ![g] = lastError[o], ![o] = FALSE]
    BY DEF Plug!moveAssign, Plug!Range
  <2>2. lastError' \in [Managers -> BOOLEAN]
    BY <1>1, <2>1 DEF PluginType
  <2>3. plugins' = [r \in Managers |-> plugins'[r]]
    BY <1>1, <2>1 DEF PluginType
  <2>4. plugins'[g] = plugins[o] /\ plugins'[o] = << >>
        /\ \A r \in Managers : r \notin {g, o} => plugins'[r] = plugins[r]
    BY <1>1, <2>1 DEF PluginType
  <2>5. DOMAIN plugins'[o] = {}
    BY <2>4
  <2> QED
    BY <2>1, <2>2, <2>3, <2>4, <2>5
<1>3. PICK p, q, s : p = plugins /\ q = plugins' /\ s = {plugins[g][x] : x \in DOMAIN plugins[g]}
  OBVIOUS
<1>4. /\ \A i : (\E r \in Managers : \E k \in DOMAIN q[r] : i = q[r][k])
                 <=> (\E r \in Managers : \E k \in DOMAIN p[r] : i = p[r][k]) /\ i \notin s
      /\ \A r, u \in Managers : \A n \in DOMAIN q[r], k \in DOMAIN q[u] :
           q[r][n] = q[u][k] => r = u /\ n = k
  <2>1. \A r, u \in Managers : \A n \in DOMAIN p[r], k \in DOMAIN p[u] :
           p[r][n] = p[u][k] => r = u /\ n = k
    BY <1>3 DEF PluginInv
  <2>2. g # o /\ q[g] = p[o] /\ DOMAIN q[o] = {} /\ \A r \in Managers : r \notin {g, o} => q[r] = p[r]
    BY <1>2, <1>3
  <2>3. s = {p[g][x] : x \in DOMAIN p[g]}
    BY <1>3
  <2> QED
    BY <2>1, <2>2, <2>3, MovedEntries
<1>5. s \in SUBSET Plug!Held
  <2>1. ASSUME NEW x \in DOMAIN plugins[g] PROVE plugins[g][x] \in Plug!Held
    BY HeldByEntry
  <2> QED
    BY <1>3, <2>1
<1>6. \A i : (\E r \in Managers : \E k \in DOMAIN plugins'[r] : i = plugins'[r][k]) <=> i \in Plug!Held \ s
  <2>1. PICK H : H = Plug!Held
    OBVIOUS
  <2>2. \A i : i \in H <=> \E r \in Managers : \E k \in DOMAIN p[r] : i = p[r][k]
    BY <1>3, <2>1, HeldByEntry
  <2>3. \A i : (\E r \in Managers : \E k \in DOMAIN q[r] : i = q[r][k]) <=> i \in H \ s
    BY <1>4, <2>2
  <2> QED
    BY <1>3, <2>1, <2>3
<1>7. \A r, u \in Managers : \A n \in DOMAIN plugins'[r], k \in DOMAIN plugins'[u] :
        plugins'[r][n] = plugins'[u][k] => r = u /\ n = k
  BY <1>3, <1>4
<1>8. libraries' = Plug!closeAll(s)
  BY <1>2, <1>3
<1> QED
  BY <1>2, <1>5, <1>6, <1>7, <1>8, ClosedKeeps

LEMMA PluginSteps ==
  ASSUME PluginInv, [Plug!PluginNext]_pluginVars
  PROVE  PluginInv'
<1>1. CASE UNCHANGED pluginVars
  BY <1>1 DEF pluginVars, PluginInv, PluginType, Plug!Held
<1> QED
  BY <1>1, LoadingKeeps, UnloadKeeps, MoveKeeps DEF Plug!PluginNext

\* A scan that failed at one file ends with an error, whatever its last file did.
LEMMA ErrorsStay ==
  ASSUME PluginInv, [Plug!PluginNext]_pluginVars, NEW g \in Managers, scan[g].failed, Plug!Idle(g)'
  PROVE  lastError'[g]
<1>1. scan \in [Managers -> [left : Nat, failed : BOOLEAN]] /\ lastError \in [Managers -> BOOLEAN]
  BY DEF PluginInv, PluginType
<1>2. scan[g] # Plug!NoScan
  BY DEF Plug!NoScan
<1>3. scan'[g] = Plug!NoScan
  BY DEF Plug!Idle
<1>4. PICK h \in Managers : Plug!loadFromDirectory(h)
  <2>1. ASSUME NEW h \in Managers, Plug!beginDirectory(h) PROVE FALSE
    <3>1. h # g /\ \E k \in 1..MaxScan : scan' = [scan EXCEPT ![h] = [left |-> k, failed |-> FALSE]]
      BY <1>2, <2>1 DEF Plug!beginDirectory, Plug!Idle
    <3> QED
      BY <1>1, <1>2, <1>3, <3>1
  <2> QED
    BY <1>2, <1>3, <2>1 DEF Plug!PluginNext, Plug!loadPlugin, Plug!unloadPlugin,
         Plug!unloadAllPlugins, Plug!moveAssign, pluginVars
<1>5. PICK ok \in BOOLEAN :
          /\ scan' = [scan EXCEPT ![h] = IF @.left = 1 THEN Plug!NoScan
                              ELSE [left |-> @.left - 1, failed |-> @.failed \/ ~ok]]
          /\ lastError' = [lastError EXCEPT ![h] = IF scan[h].left = 1 THEN Plug!summary(h, ok) ELSE ~ok]
  BY <1>4 DEF Plug!loadFromDirectory
<1>6. h = g
  BY <1>1, <1>2, <1>3, <1>5
<1>7. scan[g].left = 1
  <2>1. SUFFICES ASSUME scan[g].left # 1 PROVE FALSE
    OBVIOUS
  <2>2. scan'[g].failed = TRUE
    BY <1>1, <1>5, <1>6, <2>1
  <2> QED
    BY <1>3, <2>2 DEF Plug!NoScan
<1> QED
  BY <1>1, <1>5, <1>6, <1>7 DEF Plug!summary

-----------------------------------------------------------------------------
(* TcpClient *)

\* The places of a thread inside the section that lifecycleMutex_ guards, and of those the
\* ones behind the join.
TcpHolding == {"reap", "reopen", "connect", "join", "close"}
TcpJoined  == {"reopen", "connect", "close"}

TcpPlaces == TcpHolding \cup {"idle", "stop", "send", "write", "none", "loop", "recv", "batch",
                              "call", "report", "dead", "exit", "ended"}

TcpType ==
  /\ tRunning \in BOOLEAN /\ tAlive \in BOOLEAN /\ tSock \in BOOLEAN
  /\ shut \in BOOLEAN /\ cut \in BOOLEAN /\ garbage \in BOOLEAN
  /\ tJoinable \in BOOLEAN /\ tSelfStop \in BOOLEAN
  /\ tLife \in Users \cup {"nobody"}
  /\ tcpPc \in [Users \cup {"worker"} -> TcpPlaces]

\* A truncated frame is the last of its connection; whoever is behind the join owns the life
\* cycle and meets no receive thread; a live client has a socket and a thread; and a callback
\* that called stop() has lowered the flag of this receive thread.
TcpInv ==
  /\ TcpType
  /\ cut => shut
  /\ ~garbage
  /\ \A c \in Users : tcpPc[c] \in TcpHolding <=> tLife = c
  /\ ~tJoinable => tcpPc["worker"] = "none"
  /\ \A c \in Users : tcpPc[c] \in TcpJoined => ~tJoinable
  /\ tAlive => tSock /\ tcpPc["worker"] \notin {"none", "ended"}
  /\ tSelfStop => ~tRunning

LEMMA TcpStart == Tcp!TcpInit => TcpInv
<1> SUFFICES ASSUME Tcp!TcpInit PROVE TcpInv
  OBVIOUS
<1> USE DEF Tcp!TcpInit, Tcp!Worker, Tcp!Nobody
<1>1. \A c \in Users : c \notin {"worker", "nobody"}
  BY ThreadsAssumption
<1>2. TcpType
  BY DEF TcpType, TcpPlaces
<1> QED
  BY <1>1, <1>2 DEF TcpInv, TcpHolding, TcpJoined

\* Behind the join of a receive thread that ended, or of none.
LEMMA TcpJoinKeeps ==
  ASSUME TcpInv, NEW c \in Users, NEW l \in {"reopen", "close"}, tcpPc[c] \in {"reap", "join"},
         Tcp!joined(c, l), UNCHANGED <<tRunning, tAlive, tSock, shut, cut, garbage, tLife, tSelfStop>>
  PROVE  TcpInv'
<1> USE DEF TcpPlaces, TcpHolding, TcpJoined, Tcp!Worker, Tcp!tAt, Tcp!joined
<1>0. c \notin {"worker", "nobody"} /\ \A u \in Users : u \notin {"worker", "nobody"}
  BY ThreadsAssumption
<1>1. /\ tcpPc'[c] = l /\ tcpPc'["worker"] = "none"
      /\ \A u \in Users : u # c => tcpPc'[u] = tcpPc[u]
      /\ tcpPc' \in [Users \cup {"worker"} -> TcpPlaces]
  BY <1>0 DEF TcpInv, TcpType
<1>2. TcpType'
  BY <1>1 DEF TcpInv, TcpType
<1>3. ~tAlive
  BY DEF TcpInv, TcpType
<1> QED
  BY <1>0, <1>1, <1>2, <1>3 DEF TcpInv, TcpType

LEMMA TcpStartKeeps ==
  ASSUME TcpInv, NEW c \in Users, Tcp!start(c)
  PROVE  TcpInv'
<1> USE DEF TcpPlaces, TcpHolding, TcpJoined, Tcp!Worker, Tcp!Nobody, Tcp!tAt, Tcp!tGoto,
            Tcp!tFlags, Tcp!tConn, Tcp!tBuffer
<1>0. c \notin {"worker", "nobody"} /\ \A u \in Users : u \notin {"worker", "nobody"}
  BY ThreadsAssumption
<1>1. CASE tcpPc[c] = "idle" /\ tLife = "nobody"
           /\ (IF Tcp!isRunning THEN UNCHANGED <<tRunning, tLife, tcpPc>>
               ELSE /\ tLife' = c /\ Tcp!tGoto(c, "reap")
                    /\ tRunning' = (tRunning /\ ~tJoinable))
           /\ UNCHANGED <<tAlive, tSock, shut, cut, garbage, tJoinable, tSelfStop>>
  <2>1. CASE Tcp!isRunning
    BY <1>1, <2>1 DEF TcpInv, TcpType
  <2>2. CASE ~Tcp!isRunning
    <3>1. tcpPc'[c] = "reap" /\ (\A u \in Users \cup {"worker"} : u # c => tcpPc'[u] = tcpPc[u])
          /\ tcpPc' \in [Users \cup {"worker"} -> TcpPlaces]
      BY <1>1, <2>2 DEF TcpInv, TcpType
    <3>2. tLife' = c /\ tRunning' = (tRunning /\ ~tJoinable)
      BY <1>1, <2>2
    <3>3. TcpType'
      BY <1>1, <3>1, <3>2 DEF TcpInv, TcpType
    <3> QED
      BY <1>0, <1>1, <3>1, <3>2, <3>3 DEF TcpInv, TcpType
  <2> QED
    BY <2>1, <2>2
<1>2. CASE tcpPc[c] = "reap" /\ Tcp!joined(c, "reopen")
           /\ UNCHANGED <<tRunning, tAlive, tSock, shut, cut, garbage, tLife, tSelfStop>>
  BY <1>0, <1>2, TcpJoinKeeps
<1>3. CASE tcpPc[c] = "reopen" /\ Tcp!closeSock /\ tRunning' = FALSE /\ Tcp!tGoto(c, "connect")
           /\ UNCHANGED <<tAlive, shut, cut, garbage, tJoinable, tLife, tSelfStop>>
  <2>1. tcpPc'[c] = "connect" /\ (\A u \in Users \cup {"worker"} : u # c => tcpPc'[u] = tcpPc[u])
        /\ tcpPc' \in [Users \cup {"worker"} -> TcpPlaces]
    BY <1>3 DEF TcpInv, TcpType
  <2>2. ~tJoinable /\ ~tAlive /\ tSock' = FALSE
    BY <1>3 DEF TcpInv, TcpType, Tcp!closeSock
  <2>3. TcpType'
    BY <1>3, <2>1, <2>2 DEF TcpInv, TcpType
  <2> QED
    BY <1>0, <1>3, <2>1, <2>2, <2>3 DEF TcpInv, TcpType
<1>4. CASE tcpPc[c] = "connect" /\ tLife' = "nobody" /\ Tcp!tGoto(c, "idle")
           /\ UNCHANGED <<tRunning, tAlive, tSock, shut, cut, garbage, tJoinable, tSelfStop>>
  <2>1. tcpPc'[c] = "idle" /\ (\A u \in Users \cup {"worker"} : u # c => tcpPc'[u] = tcpPc[u])
        /\ tcpPc' \in [Users \cup {"worker"} -> TcpPlaces]
    BY <1>4 DEF TcpInv, TcpType
  <2>2. TcpType'
    BY <1>4, <2>1 DEF TcpInv, TcpType
  <2> QED
    BY <1>0, <1>4, <2>1, <2>2 DEF TcpInv, TcpType
<1> QED
  BY <1>1, <1>2, <1>3, <1>4 DEF Tcp!start

LEMMA TcpConnectKeeps ==
  ASSUME TcpInv, NEW c \in Users, Tcp!connectSocket(c)
  PROVE  TcpInv'
<1> USE DEF TcpPlaces, TcpHolding, TcpJoined, Tcp!Worker, Tcp!Nobody, Tcp!tAt, Tcp!connectSocket
<1>0. c \notin {"worker", "nobody"} /\ \A u \in Users : u \notin {"worker", "nobody"}
  BY ThreadsAssumption
<1>1. /\ tcpPc'[c] = "idle" /\ tcpPc'["worker"] = "loop"
      /\ \A u \in Users : u # c => tcpPc'[u] = tcpPc[u]
      /\ tcpPc' \in [Users \cup {"worker"} -> TcpPlaces]
  BY <1>0 DEF TcpInv, TcpType
<1>2. TcpType'
  BY <1>1 DEF TcpInv, TcpType
<1>3. tLife = c
  BY DEF TcpInv
<1> QED
  BY <1>0, <1>1, <1>2, <1>3 DEF TcpInv, TcpType

LEMMA TcpStopKeeps ==
  ASSUME TcpInv, NEW c \in Users, Tcp!stop(c)
  PROVE  TcpInv'
<1> USE DEF TcpPlaces, TcpHolding, TcpJoined, Tcp!Worker, Tcp!Nobody, Tcp!tAt, Tcp!tGoto,
            Tcp!tFlags, Tcp!tConn, Tcp!tBuffer
<1>0. c \notin {"worker", "nobody"} /\ \A u \in Users : u \notin {"worker", "nobody"}
  BY ThreadsAssumption
<1>1. CASE tcpPc[c] = "idle" /\ tRunning' = FALSE /\ Tcp!tGoto(c, "stop")
           /\ UNCHANGED <<tAlive, tSock, shut, cut, garbage, tJoinable, tLife, tSelfStop>>
  <2>1. tcpPc'[c] = "stop" /\ (\A u \in Users \cup {"worker"} : u # c => tcpPc'[u] = tcpPc[u])
        /\ tcpPc' \in [Users \cup {"worker"} -> TcpPlaces]
    BY <1>1 DEF TcpInv, TcpType
  <2>2. TcpType'
    BY <1>1, <2>1 DEF TcpInv, TcpType
  <2> QED
    BY <1>0, <1>1, <2>1, <2>2 DEF TcpInv, TcpType
<1>2. CASE tcpPc[c] = "stop" /\ tLife = "nobody" /\ tLife' = c /\ shut' = (shut \/ tSock) /\ Tcp!tGoto(c, "join")
           /\ UNCHANGED <<tRunning, tAlive, tSock, cut, garbage, tJoinable, tSelfStop>>
  <2>1. tcpPc'[c] = "join" /\ (\A u \in Users \cup {"worker"} : u # c => tcpPc'[u] = tcpPc[u])
        /\ tcpPc' \in [Users \cup {"worker"} -> TcpPlaces]
    BY <1>2 DEF TcpInv, TcpType
  <2>2. TcpType'
    BY <1>2, <2>1 DEF TcpInv, TcpType
  <2> QED
    BY <1>0, <1>2, <2>1, <2>2 DEF TcpInv, TcpType
<1>3. CASE tcpPc[c] = "join" /\ Tcp!joined(c, "close")
           /\ UNCHANGED <<tRunning, tAlive, tSock, shut, cut, garbage, tLife, tSelfStop>>
  BY <1>0, <1>3, TcpJoinKeeps
<1>4. CASE tcpPc[c] = "close" /\ Tcp!closeSock /\ tLife' = "nobody" /\ Tcp!tGoto(c, "idle")
           /\ UNCHANGED <<tRunning, tAlive, shut, cut, garbage, tJoinable, tSelfStop>>
  <2>1. tcpPc'[c] = "idle" /\ (\A u \in Users \cup {"worker"} : u # c => tcpPc'[u] = tcpPc[u])
        /\ tcpPc' \in [Users \cup {"worker"} -> TcpPlaces]
    BY <1>4 DEF TcpInv, TcpType
  <2>2. ~tJoinable /\ ~tAlive /\ tSock' = FALSE /\ tLife = c
    BY <1>4 DEF TcpInv, TcpType, Tcp!closeSock
  <2>3. TcpType'
    BY <1>4, <2>1, <2>2 DEF TcpInv, TcpType
  <2> QED
    BY <1>0, <1>4, <2>1, <2>2, <2>3 DEF TcpInv, TcpType
<1> QED
  BY <1>1, <1>2, <1>3, <1>4 DEF Tcp!stop

\* A sender holds no part of the life cycle, and writes nothing behind a truncated frame.
LEMMA TcpSendKeeps ==
  ASSUME TcpInv, NEW t \in Users \cup {"worker"}, NEW from \in {"idle", "call"},
         (from = "call") <=> (t = "worker"), Tcp!send(t, from) \/ Tcp!poison(t, from)
  PROVE  TcpInv'
<1> USE DEF TcpPlaces, TcpHolding, TcpJoined, Tcp!Worker, Tcp!Nobody, Tcp!tAt, Tcp!tGoto,
            Tcp!tFlags, Tcp!tConn, Tcp!tBuffer
<1>0. \A u \in Users : u \notin {"worker", "nobody"}
  BY ThreadsAssumption
<1>1. /\ tcpPc[t] \in {"idle", "call", "send", "write"}
      /\ \/ tcpPc' = tcpPc
         \/ \E l \in {from, "send", "write"} : tcpPc' = [tcpPc EXCEPT ![t] = l]
      /\ UNCHANGED <<tRunning, tSock, tJoinable, tLife, tSelfStop>>
      /\ tAlive' \in {tAlive, FALSE}
  <2>1. CASE Tcp!poison(t, from)
    BY <2>1 DEF Tcp!poison
  <2>2. CASE Tcp!send(t, from)
    BY <2>2 DEF Tcp!send
  <2> QED
    BY <2>1, <2>2
<1>2. /\ ~garbage' /\ (cut' => shut')
      /\ garbage' \in BOOLEAN /\ cut' \in BOOLEAN /\ shut' \in BOOLEAN
  <2>1. CASE Tcp!poison(t, from)
    <3>1. shut' = TRUE /\ cut' = (cut \/ ~shut) /\ garbage' = (garbage \/ (cut /\ ~shut))
      BY <2>1 DEF Tcp!poison
    <3> QED
      BY <3>1 DEF TcpInv, TcpType
  <2>2. CASE Tcp!send(t, from)
    <3>1. /\ UNCHANGED <<shut, cut>>
          /\ UNCHANGED garbage \/ (~shut /\ garbage' = (garbage \/ cut))
      BY <2>2 DEF Tcp!send
    <3> QED
      BY <3>1 DEF TcpInv, TcpType
  <2> QED
    BY <2>1, <2>2
<1>3. /\ tcpPc'[t] \in {from, "send", "write"} \/ tcpPc'[t] = tcpPc[t]
      /\ \A u \in Users \cup {"worker"} : u # t => tcpPc'[u] = tcpPc[u]
      /\ tcpPc' \in [Users \cup {"worker"} -> TcpPlaces]
  <2>0. tcpPc \in [Users \cup {"worker"} -> TcpPlaces]
    BY DEF TcpInv, TcpType
  <2>1. ASSUME NEW l \in {from, "send", "write"}, tcpPc' = [tcpPc EXCEPT ![t] = l]
        PROVE  /\ tcpPc'[t] = l /\ tcpPc' \in [Users \cup {"worker"} -> TcpPlaces]
               /\ \A u \in Users \cup {"worker"} : u # t => tcpPc'[u] = tcpPc[u]
    BY <2>0, <2>1
  <2> QED
    BY <1>1, <2>0, <2>1
<1>4. TcpType'
  <2>1. tAlive' \in BOOLEAN
    BY <1>1 DEF TcpInv, TcpType
  <2> QED
    BY <1>1, <1>2, <1>3, <2>1 DEF TcpInv, TcpType
<1>5. /\ \A c \in Users : tcpPc'[c] \in TcpHolding <=> tLife' = c
      /\ \A c \in Users : tcpPc'[c] \in TcpJoined => ~tJoinable'
  BY <1>0, <1>1, <1>3 DEF TcpInv, TcpType
<1>6. tcpPc["worker"] = "none" => tcpPc'["worker"] = "none"
  BY <1>0, <1>1, <1>3
<1>7. tcpPc["worker"] \notin {"none", "ended"} => tcpPc'["worker"] \notin {"none", "ended"}
  BY <1>0, <1>1, <1>3
<1> QED
  BY <1>1, <1>2, <1>4, <1>5, <1>6, <1>7 DEF TcpInv, TcpType

LEMMA TcpReceiverKeeps ==
  ASSUME TcpInv, Tcp!ReceiveThread
  PROVE  TcpInv'
<1> USE DEF TcpPlaces, TcpHolding, TcpJoined, Tcp!Worker, Tcp!Nobody, Tcp!tAt, Tcp!tGoto,
            Tcp!tFlags, Tcp!tConn, Tcp!tBuffer
<1>0. \A u \in Users : u \notin {"worker", "nobody"}
  BY ThreadsAssumption
<1>1. /\ tcpPc["worker"] \in {"loop", "recv", "batch", "dead", "call", "report", "exit"}
      /\ UNCHANGED <<tSock, shut, cut, garbage, tJoinable, tLife>>
      /\ \E l \in {"loop", "recv", "batch", "call", "report", "dead", "exit", "ended"} :
           tcpPc' = [tcpPc EXCEPT !["worker"] = l] /\ (l = "ended" => tAlive' = FALSE)
      /\ tAlive' \in {tAlive, FALSE}
      /\ (tRunning' = tRunning /\ tSelfStop' = tSelfStop) \/ (tRunning' = FALSE /\ tSelfStop' = TRUE)
  BY DEF Tcp!ReceiveThread, Tcp!receive, Tcp!batch, Tcp!closedByPeer, Tcp!callback, Tcp!leave
<1>2. /\ tcpPc'["worker"] \in {"loop", "recv", "batch", "call", "report", "dead", "exit", "ended"}
      /\ tcpPc'["worker"] = "ended" => tAlive' = FALSE
      /\ \A u \in Users : tcpPc'[u] = tcpPc[u]
      /\ tcpPc' \in [Users \cup {"worker"} -> TcpPlaces]
  BY <1>0, <1>1 DEF TcpInv, TcpType
<1>3. TcpType'
  BY <1>1, <1>2 DEF TcpInv, TcpType
<1> QED
  BY <1>1, <1>2, <1>3 DEF TcpInv, TcpType

LEMMA TcpSteps ==
  ASSUME TcpInv, [Tcp!TcpNext]_tcpVars
  PROVE  TcpInv'
<1>1. ASSUME NEW c \in Users, Tcp!send(c, "idle") \/ Tcp!poison(c, "idle") PROVE TcpInv'
  <2>1. c # "worker"
    BY ThreadsAssumption
  <2> QED
    BY <1>1, <2>1, TcpSendKeeps
<1>2. CASE Tcp!send("worker", "call") \/ Tcp!poison("worker", "call")
  BY <1>2, TcpSendKeeps
<1>3. CASE UNCHANGED tcpVars
  BY <1>3 DEF tcpVars, TcpInv, TcpType
<1> QED
  BY <1>1, <1>2, <1>3, TcpStartKeeps, TcpConnectKeeps, TcpStopKeeps, TcpReceiverKeeps
     DEF Tcp!TcpNext, Tcp!Worker

\* The steps behind a stop() of a callback, and the step that closes the descriptor.
LEMMA TcpStepsAreClean ==
  ASSUME TcpInv, [Tcp!TcpNext]_tcpVars
  PROVE  /\ tcpPc["worker"] = "batch" /\ tcpPc'["worker"] = "call" => ~tSelfStop
         /\ tSock /\ ~tSock' => tWrite = "nobody" /\ tcpPc["worker"] \in {"none", "ended"}
<1> USE DEF TcpPlaces, TcpHolding, Tcp!Worker, Tcp!Nobody, Tcp!tAt, Tcp!tGoto, Tcp!tFlags, Tcp!tConn, Tcp!tBuffer
<1>0. \A u \in Users : u \notin {"worker", "nobody"}
  BY ThreadsAssumption
<1>1. ASSUME NEW c \in Users, Tcp!start(c) \/ Tcp!stop(c)
      PROVE  /\ tcpPc'["worker"] \in {tcpPc["worker"], "none"}
             /\ tSock /\ ~tSock' => tWrite = "nobody" /\ tcpPc[c] \in TcpJoined
  BY <1>0, <1>1 DEF TcpInv, TcpType, Tcp!start, Tcp!stop, Tcp!joined, Tcp!closeSock, TcpJoined
<1>2. ASSUME NEW c \in Users, Tcp!connectSocket(c)
      PROVE  tcpPc'["worker"] = "loop" /\ tSock'
  BY <1>0, <1>2 DEF TcpInv, TcpType, Tcp!connectSocket
<1>3. ASSUME NEW c \in Users, Tcp!send(c, "idle") \/ Tcp!poison(c, "idle")
      PROVE  tcpPc'["worker"] = tcpPc["worker"] /\ tSock' = tSock
  BY <1>0, <1>3 DEF TcpInv, TcpType, Tcp!send, Tcp!poison
<1>4. CASE Tcp!send("worker", "call") \/ Tcp!poison("worker", "call")
  BY <1>4 DEF Tcp!send, Tcp!poison
<1>5. CASE Tcp!ReceiveThread
  <2>1. tSock' = tSock
    BY <1>5 DEF Tcp!ReceiveThread, Tcp!receive, Tcp!batch, Tcp!closedByPeer, Tcp!callback, Tcp!leave
  <2>2. tcpPc["worker"] = "batch" /\ tcpPc'["worker"] = "call" => tRunning
    BY <1>5 DEF TcpInv, TcpType, Tcp!ReceiveThread, Tcp!receive, Tcp!batch, Tcp!closedByPeer, Tcp!callback,
         Tcp!leave, Tcp!isRunning
  <2> QED
    BY <2>1, <2>2 DEF TcpInv
<1>6. CASE UNCHANGED tcpVars
  BY <1>6 DEF tcpVars
<1>7. ASSUME NEW c \in Users, tcpPc[c] \in TcpJoined PROVE tcpPc["worker"] = "none"
  BY <1>7 DEF TcpInv
<1> QED
  BY <1>1, <1>2, <1>3, <1>4, <1>5, <1>6, <1>7 DEF Tcp!TcpNext

-----------------------------------------------------------------------------
(* UdpSocket *)

UdpHolding == {"reap", "bind", "open", "join", "close"}
UdpJoined  == {"bind", "open", "close"}
UdpPlaces  == UdpHolding \cup {"idle", "stop", "send", "none", "loop", "recv", "exit", "ended"}

UdpType ==
  /\ uRunning \in BOOLEAN /\ uAlive \in BOOLEAN /\ uSock \in BOOLEAN /\ uJoinable \in BOOLEAN
  /\ sockFamily \in Families \cup {"none"} /\ remote \in Families \cup {"none"}
  /\ host \subseteq Families
  /\ uLife \in Users \cup {"nobody"}
  /\ udpPc \in [Users \cup {"worker"} -> UdpPlaces]

\* The life cycle as in TcpClient; and an open socket has a family.
UdpInv ==
  /\ UdpType
  /\ uSock => sockFamily \in Families
  /\ uSock /\ remote # "none" => remote = sockFamily
  /\ \A u \in Users : udpPc[u] \in UdpHolding <=> uLife = u
  /\ ~uJoinable => udpPc["worker"] = "none"
  /\ \A u \in Users : udpPc[u] \in UdpJoined => ~uJoinable
  /\ uAlive => uSock /\ udpPc["worker"] \notin {"none", "ended"}

LEMMA UdpStart == Udp!UdpInit => UdpInv
<1> SUFFICES ASSUME Udp!UdpInit PROVE UdpInv
  OBVIOUS
<1> USE DEF Udp!UdpInit, Udp!Worker, Udp!Nobody, Udp!NoFamily
<1>1. \A u \in Users : u \notin {"worker", "nobody"}
  BY ThreadsAssumption
<1>2. UdpType
  BY DEF UdpType, UdpPlaces
<1> QED
  BY <1>1, <1>2 DEF UdpInv, UdpHolding, UdpJoined

\* updateRemote() finds an address of the family that is asked for, or none.
LEMMA RemoteFits ==
  ASSUME NEW h \in SUBSET Families, NEW f \in Families \cup {"none"}, Udp!updateRemote(h, f)
  PROVE  /\ remote' \in Families \cup {"none"}
         /\ f \in Families /\ remote' # "none" => remote' = f
BY ThreadsAssumption DEF Udp!updateRemote, Udp!NoFamily

\* A step of one caller inside the life cycle, or at its ends.
LEMMA UdpCallerKeeps ==
  ASSUME UdpInv, NEW u \in Users, NEW l \in UdpPlaces, udpPc' = [udpPc EXCEPT ![u] = l],
         uLife' \in Users \cup {"nobody"}, \A v \in Users : v # u => (uLife' = v <=> uLife = v),
         l \in UdpHolding <=> uLife' = u, l \in UdpJoined => ~uJoinable,
         uRunning' \in BOOLEAN, uSock' = uSock \/ (~uSock' /\ ~uAlive /\ uSock' \in BOOLEAN),
         UNCHANGED <<uAlive, sockFamily, host, remote, uJoinable>>
  PROVE  UdpInv'
<1>0. u # "worker"
  BY ThreadsAssumption
<1>1. /\ udpPc'[u] = l /\ udpPc'["worker"] = udpPc["worker"]
      /\ \A v \in Users : v # u => udpPc'[v] = udpPc[v]
      /\ udpPc' \in [Users \cup {"worker"} -> UdpPlaces]
  BY <1>0 DEF UdpInv, UdpType
<1>2. uSock' \in BOOLEAN
  BY DEF UdpInv, UdpType
<1>3. UdpType'
  BY <1>1, <1>2 DEF UdpInv, UdpType
<1>4. \A v \in Users : udpPc'[v] \in UdpHolding <=> uLife' = v
  BY <1>1 DEF UdpInv
<1>5. \A v \in Users : udpPc'[v] \in UdpJoined => ~uJoinable'
  BY <1>1 DEF UdpInv
<1>6. uSock' => uSock
  BY DEF UdpInv, UdpType
<1>7. uAlive' => uSock' /\ udpPc'["worker"] \notin {"none", "ended"}
  BY <1>1 DEF UdpInv, UdpType
<1> QED
  BY <1>1, <1>3, <1>4, <1>5, <1>6, <1>7 DEF UdpInv

LEMMA UdpJoinKeeps ==
  ASSUME UdpInv, NEW u \in Users, NEW l \in {"bind", "close"}, udpPc[u] \in {"reap", "join"},
         Udp!uJoined(u, l), UNCHANGED <<uRunning, uAlive, uSock, sockFamily, host, remote, uLife>>
  PROVE  UdpInv'
<1> USE DEF UdpPlaces, UdpHolding, UdpJoined, Udp!Worker, Udp!uAt, Udp!uJoined
<1>0. u # "worker"
  BY ThreadsAssumption
<1>1. /\ udpPc'[u] = l /\ udpPc'["worker"] = "none"
      /\ \A v \in Users : v # u => udpPc'[v] = udpPc[v]
      /\ udpPc' \in [Users \cup {"worker"} -> UdpPlaces]
  BY <1>0, ThreadsAssumption DEF UdpInv, UdpType
<1>2. UdpType'
  BY <1>1 DEF UdpInv, UdpType
<1>3. ~uAlive
  BY DEF UdpInv, UdpType
<1> QED
  BY <1>0, <1>1, <1>2, <1>3 DEF UdpInv, UdpType

LEMMA UdpStartKeeps ==
  ASSUME UdpInv, NEW u \in Users, Udp!start(u)
  PROVE  UdpInv'
<1> USE DEF UdpPlaces, UdpHolding, UdpJoined, Udp!Worker, Udp!Nobody, Udp!uAt, Udp!uGoto,
            Udp!uFlags, Udp!uPeers
<1>0. \A v \in Users : v \notin {"worker", "nobody"}
  BY ThreadsAssumption
<1>1. CASE udpPc[u] = "idle" /\ uLife = "nobody" /\ uLife' = u /\ udpPc' = [udpPc EXCEPT ![u] = "reap"]
           /\ uRunning' = (uRunning /\ ~uJoinable) /\ UNCHANGED <<uAlive, uSock, sockFamily, host, remote, uJoinable>>
  BY <1>0, <1>1, UdpCallerKeeps
<1>2. CASE udpPc[u] = "reap" /\ Udp!uJoined(u, "bind")
           /\ UNCHANGED <<uRunning, uAlive, uSock, sockFamily, host, remote, uLife>>
  BY <1>2, UdpJoinKeeps
<1>3. CASE udpPc[u] = "bind" /\ uSock' = FALSE /\ uRunning' = FALSE /\ udpPc' = [udpPc EXCEPT ![u] = "open"]
           /\ UNCHANGED <<uAlive, sockFamily, host, remote, uJoinable, uLife>>
  <2>1. ~uJoinable /\ ~uAlive /\ uLife = u /\ uLife \in Users \cup {"nobody"}
    BY <1>3 DEF UdpInv, UdpType
  <2> QED
    BY <1>0, <1>3, <2>1, UdpCallerKeeps
<1>4. CASE udpPc[u] = "open" /\ uLife' = "nobody" /\ udpPc' = [udpPc EXCEPT ![u] = "idle"]
           /\ UNCHANGED <<uRunning, uAlive, uSock, sockFamily, host, remote, uJoinable>>
  <2>1. uLife = u /\ uRunning \in BOOLEAN
    BY <1>4 DEF UdpInv, UdpType
  <2> QED
    BY <1>0, <1>4, <2>1, UdpCallerKeeps
<1> QED
  BY <1>1, <1>2, <1>3, <1>4 DEF Udp!start

LEMMA UdpOpenKeeps ==
  ASSUME UdpInv, NEW u \in Users, Udp!openAndBind(u)
  PROVE  UdpInv'
<1> USE DEF UdpPlaces, UdpHolding, UdpJoined, Udp!Worker, Udp!Nobody, Udp!uAt
<1>0. \A v \in Users : v \notin {"worker", "nobody"}
  BY ThreadsAssumption
<1>1. /\ udpPc[u] = "open" /\ uSock' = TRUE /\ sockFamily' \in Families /\ Udp!updateRemote(host, sockFamily')
      /\ uAlive' = TRUE /\ uRunning' = TRUE /\ uJoinable' = TRUE /\ uLife' = "nobody"
      /\ udpPc' = [udpPc EXCEPT ![u] = "idle", !["worker"] = "loop"] /\ UNCHANGED host
  BY DEF Udp!openAndBind
<1>2. /\ udpPc'[u] = "idle" /\ udpPc'["worker"] = "loop"
      /\ \A v \in Users : v # u => udpPc'[v] = udpPc[v]
      /\ udpPc' \in [Users \cup {"worker"} -> UdpPlaces]
  BY <1>0, <1>1 DEF UdpInv, UdpType
<1>3. remote' \in Families \cup {"none"} /\ (remote' # "none" => remote' = sockFamily')
  <2>1. host \in SUBSET Families
    BY DEF UdpInv, UdpType
  <2> QED
    BY <1>1, <2>1, RemoteFits
<1>4. UdpType'
  BY <1>1, <1>2, <1>3 DEF UdpInv, UdpType
<1>5. uLife = u
  BY <1>1 DEF UdpInv
<1> QED
  BY <1>0, <1>1, <1>2, <1>3, <1>4, <1>5 DEF UdpInv

LEMMA UdpStopKeeps ==
  ASSUME UdpInv, NEW u \in Users, Udp!stop(u) \/ Udp!send(u)
  PROVE  UdpInv'
<1> USE DEF UdpPlaces, UdpHolding, UdpJoined, Udp!Worker, Udp!Nobody, Udp!uAt, Udp!uGoto,
            Udp!uFlags, Udp!uPeers
<1>0. \A v \in Users : v \notin {"worker", "nobody"}
  BY ThreadsAssumption
<1>1. CASE /\ udpPc[u] \in {"idle", "send"} /\ uRunning' \in {uRunning, FALSE}
           /\ \E l \in {"idle", "send", "stop"} : udpPc' = [udpPc EXCEPT ![u] = l]
           /\ UNCHANGED <<uAlive, uSock, sockFamily, host, remote, uJoinable, uLife>>
  <2>1. uLife # u /\ uLife \in Users \cup {"nobody"} /\ uRunning' \in BOOLEAN
    BY <1>1 DEF UdpInv, UdpType
  <2>2. PICK l \in {"idle", "send", "stop"} : udpPc' = [udpPc EXCEPT ![u] = l]
    BY <1>1
  <2> QED
    BY <1>1, <2>1, <2>2, UdpCallerKeeps
<1>2. CASE udpPc[u] = "stop" /\ uLife = "nobody" /\ uLife' = u /\ udpPc' = [udpPc EXCEPT ![u] = "join"]
           /\ UNCHANGED <<uRunning, uAlive, uSock, sockFamily, host, remote, uJoinable>>
  <2>1. uRunning \in BOOLEAN
    BY DEF UdpInv, UdpType
  <2> QED
    BY <1>0, <1>2, <2>1, UdpCallerKeeps
<1>3. CASE udpPc[u] = "join" /\ Udp!uJoined(u, "close")
           /\ UNCHANGED <<uRunning, uAlive, uSock, sockFamily, host, remote, uLife>>
  BY <1>3, UdpJoinKeeps
<1>4. CASE udpPc[u] = "close" /\ uSock' = FALSE /\ uLife' = "nobody" /\ udpPc' = [udpPc EXCEPT ![u] = "idle"]
           /\ UNCHANGED <<uRunning, uAlive, sockFamily, host, remote, uJoinable>>
  <2>1. ~uAlive /\ uLife = u /\ uRunning \in BOOLEAN
    BY <1>4 DEF UdpInv, UdpType
  <2> QED
    BY <1>0, <1>4, <2>1, UdpCallerKeeps
<1> QED
  BY <1>1, <1>2, <1>3, <1>4 DEF Udp!stop, Udp!send

LEMMA UdpReceiveKeeps ==
  ASSUME UdpInv, Udp!receive \/ Udp!configure
  PROVE  UdpInv'
<1> USE DEF UdpPlaces, UdpHolding, UdpJoined, Udp!Worker, Udp!uAt, Udp!uGoto, Udp!uFlags, Udp!uPeers
<1>0. \A v \in Users : v \notin {"worker", "nobody"}
  BY ThreadsAssumption
<1>1. CASE Udp!receive
  <2>1. /\ udpPc["worker"] \in {"loop", "recv", "exit"}
        /\ \E l \in {"loop", "recv", "exit", "ended"} :
             udpPc' = [udpPc EXCEPT !["worker"] = l] /\ (l = "ended" => uAlive' = FALSE)
        /\ uRunning' \in {uRunning, FALSE} /\ uAlive' \in {uAlive, FALSE}
        /\ UNCHANGED <<uSock, sockFamily, host, remote, uJoinable, uLife>>
    BY <1>1 DEF Udp!receive
  <2>2. /\ udpPc'["worker"] \in {"loop", "recv", "exit", "ended"}
        /\ udpPc'["worker"] = "ended" => uAlive' = FALSE
        /\ \A v \in Users : udpPc'[v] = udpPc[v]
        /\ udpPc' \in [Users \cup {"worker"} -> UdpPlaces]
    BY <1>0, <2>1 DEF UdpInv, UdpType
  <2>3. UdpType'
    BY <2>1, <2>2 DEF UdpInv, UdpType
  <2> QED
    BY <2>1, <2>2, <2>3 DEF UdpInv, UdpType
<1>2. CASE Udp!configure
  <2>1. /\ host' \in SUBSET Families /\ Udp!updateRemote(host', sockFamily)
        /\ UNCHANGED <<uRunning, uAlive, uSock, sockFamily, uJoinable, uLife, udpPc>>
    BY <1>2 DEF Udp!configure, Udp!resolveAddresses
  <2>2. /\ remote' \in Families \cup {"none"}
        /\ sockFamily \in Families /\ remote' # "none" => remote' = sockFamily
    <3>1. sockFamily \in Families \cup {"none"}
      BY DEF UdpInv, UdpType
    <3> QED
      BY <2>1, <3>1, RemoteFits
  <2> QED
    BY <2>1, <2>2 DEF UdpInv, UdpType
<1> QED
  BY <1>1, <1>2

LEMMA UdpSteps ==
  ASSUME UdpInv, [Udp!UdpNext]_udpVars
  PROVE  UdpInv'
<1>1. CASE UNCHANGED udpVars
  BY <1>1 DEF udpVars, UdpInv, UdpType
<1> QED
  BY <1>1, UdpReceiveKeeps, UdpStartKeeps, UdpOpenKeeps, UdpStopKeeps DEF Udp!UdpNext

LEMMA UdpStepsAreClean ==
  ASSUME UdpInv, [Udp!UdpNext]_udpVars, uSock, ~uSock'
  PROVE  udpPc["worker"] \in {"none", "ended"}
<1>1. PICK u \in Users : udpPc[u] \in UdpJoined
  BY DEF Udp!UdpNext, udpVars, Udp!receive, Udp!configure, Udp!start, Udp!stop, Udp!send,
         Udp!openAndBind, UdpJoined, Udp!uAt
<1> QED
  BY <1>1 DEF UdpInv

-----------------------------------------------------------------------------
(* TelemetryBus *)

BusFrames == [channel : Channels, n : Nat, late : BOOLEAN]

BusPlaces == {"idle", "publish", "join", "stop", "reclaim", "none", "check", "take", "drain",
              "deliver", "flush", "ended"}

\* Frames f continue the numbers that were given, up to those that were accepted.
Gapless(f, given, taken) ==
  \A c \in Channels :
    /\ given[c] <= taken[c]
    /\ \A i \in DOMAIN f : f[i].channel = c => f[i].n \in given[c]..taken[c]-1
    /\ \A k \in given[c]..taken[c]-1 : \E i \in DOMAIN f : f[i].channel = c /\ f[i].n = k
    /\ \A i, j \in DOMAIN f : f[i].channel = c /\ f[j].channel = c /\ i < j => f[i].n < f[j].n

BusType ==
  /\ bRunning \in BOOLEAN /\ bJoinable \in BOOLEAN
  /\ busPc \in [Publishers \cup Operators \cup {"egress"} -> BusPlaces]
  /\ queue \in Seq(BusFrames) /\ egress \in BusFrames \cup {Bus!NoFrame}
  /\ nextSeq \in [Channels -> Nat] /\ accepted \in [Channels -> Nat]

\* The egress thread has a frame in hand exactly while it delivers; a thread that drains, or is
\* gone, is behind a flag that is down, so that a frame it leaves behind was late.
BusInv ==
  /\ BusType
  /\ egress # Bus!NoFrame <=> busPc["egress"] \in {"deliver", "flush"}
  /\ ~bJoinable => busPc["egress"] = "none"
  /\ busPc["egress"] \in {"drain", "flush", "ended", "none"} => ~bRunning
  /\ Gapless(Bus!InFlight, nextSeq, accepted)
  /\ busPc["egress"] \in {"none", "ended"} => \A i \in DOMAIN queue : queue[i].late

LEMMA BusIsSound == BusInv => Bus!GaplessNumbers /\ Bus!Drained
<1> SUFFICES ASSUME BusInv PROVE Bus!GaplessNumbers /\ Bus!Drained
  OBVIOUS
<1>1. Gapless(Bus!InFlight, nextSeq, accepted)
  BY DEF BusInv
<1>2. Bus!GaplessNumbers
  <2>1. PICK f : f = Bus!InFlight
    OBVIOUS
  <2>2. ASSUME NEW c \in Channels
        PROVE  /\ nextSeq[c] <= accepted[c]
               /\ {f[i].n : i \in {k \in DOMAIN f : f[k].channel = c}} = nextSeq[c]..accepted[c]-1
               /\ \A i, j \in {k \in DOMAIN f : f[k].channel = c} : i < j => f[i].n < f[j].n
    BY <1>1, <2>1 DEF Gapless
  <2>3. \A c : Bus!Of(c) = {k \in DOMAIN f : f[k].channel = c}
    BY <2>1 DEF Bus!Of
  <2> QED
    BY <2>1, <2>2, <2>3 DEF Bus!GaplessNumbers
<1> QED
  BY <1>2 DEF BusInv, Bus!Drained, Bus!Egress

LEMMA BusStart == Bus!BusInit => BusInv
<1> SUFFICES ASSUME Bus!BusInit PROVE BusInv
  OBVIOUS
<1> USE DEF Bus!BusInit, Bus!Egress
<1>1. BusType /\ busPc["egress"] = "none"
  <2>1. busPc \in [Publishers \cup Operators \cup {"egress"} -> BusPlaces] /\ busPc["egress"] = "none"
    BY DEF BusPlaces
  <2>2. << >> \in Seq(BusFrames)
    OBVIOUS
  <2> QED
    BY <2>1, <2>2 DEF BusType
<1>2. Bus!InFlight = << >>
  BY DEF Bus!InFlight
<1>3. Gapless(<< >>, nextSeq, accepted)
  BY DEF Gapless
<1> QED
  BY <1>1, <1>2, <1>3 DEF BusInv

\* A frame that is accepted gets the next place of its channel; one that leaves had the first.
LEMMA AcceptedIsGapless ==
  ASSUME NEW f \in Seq(BusFrames), NEW given \in [Channels -> Nat], NEW taken \in [Channels -> Nat],
         Gapless(f, given, taken), NEW x \in BusFrames, x.n = taken[x.channel]
  PROVE  Gapless(Append(f, x), given, [taken EXCEPT ![x.channel] = @ + 1])
<1>1. PICK g, l, c0, t : g = Append(f, x) /\ l = Len(f) + 1 /\ c0 = x.channel
                         /\ t = [taken EXCEPT ![x.channel] = @ + 1]
  OBVIOUS
<1>2. /\ DOMAIN g = DOMAIN f \cup {l} /\ l \notin DOMAIN f /\ g[l] = x
      /\ l \in Nat /\ \A i \in DOMAIN f : g[i] = f[i] /\ i < l
  BY <1>1, OneMore, LenProperties
<1>3. c0 \in Channels /\ t \in [Channels -> Nat] /\ t[c0] = taken[c0] + 1
      /\ \A c \in Channels : c # c0 => t[c] = taken[c]
  BY <1>1 DEF BusFrames
<1>4. \A i \in DOMAIN f : i \in Nat /\ f[i] \in BusFrames
  BY LenProperties, ElementOfSeq
<1>5. ASSUME NEW c \in Channels
      PROVE  /\ given[c] <= t[c]
             /\ \A i \in DOMAIN g : g[i].channel = c => g[i].n \in given[c]..t[c]-1
             /\ \A k \in given[c]..t[c]-1 : \E i \in DOMAIN g : g[i].channel = c /\ g[i].n = k
             /\ \A i, j \in DOMAIN g : g[i].channel = c /\ g[j].channel = c /\ i < j => g[i].n < g[j].n
  <2>0. given[c] <= taken[c] /\ given[c] \in Nat /\ taken[c] \in Nat
    BY DEF Gapless
  <2>1. given[c] <= t[c] /\ taken[c] <= t[c] /\ t[c] \in Nat
    <3>1. CASE c = c0
      BY <1>3, <2>0, <3>1
    <3>2. CASE c # c0
      BY <1>3, <2>0, <3>2
    <3> QED
      BY <3>1, <3>2
  <2>2. ASSUME NEW i \in DOMAIN g, g[i].channel = c PROVE g[i].n \in given[c]..t[c]-1
    <3>1. CASE i = l
      <4>1. c = c0 /\ g[i].n = taken[c]
        BY <1>1, <1>2, <2>2, <3>1
      <4> QED
        BY <1>3, <2>0, <4>1
    <3>2. CASE i \in DOMAIN f
      <4>1. g[i].n \in given[c]..taken[c]-1
        BY <1>2, <2>2, <3>2 DEF Gapless
      <4> QED
        BY <2>0, <2>1, <4>1
    <3> QED
      BY <1>2, <3>1, <3>2
  <2>3. ASSUME NEW k \in given[c]..t[c]-1 PROVE \E i \in DOMAIN g : g[i].channel = c /\ g[i].n = k
    <3>1. CASE k \in given[c]..taken[c]-1
      <4>1. PICK i \in DOMAIN f : f[i].channel = c /\ f[i].n = k
        BY <3>1 DEF Gapless
      <4> QED
        BY <1>2, <4>1
    <3>2. CASE k \notin given[c]..taken[c]-1
      <4>1. c = c0 /\ k = taken[c]
        BY <1>3, <3>2
      <4> QED
        BY <1>1, <1>2, <4>1
    <3> QED
      BY <3>1, <3>2
  <2>4. ASSUME NEW i \in DOMAIN g, NEW j \in DOMAIN g, g[i].channel = c, g[j].channel = c, i < j
        PROVE  g[i].n < g[j].n
    <3>1. i \in DOMAIN f
      <4>1. i # l
        <5>1. j <= l /\ j \in Nat
          BY <1>2, <1>4
        <5> QED
          BY <1>2, <2>4, <5>1
      <4> QED
        BY <1>2, <4>1
    <3>2. CASE j = l
      <4>1. f[i].n \in given[c]..taken[c]-1 /\ g[j].n = taken[c] /\ taken[c] \in Nat
        BY <1>1, <1>2, <2>4, <3>1, <3>2 DEF Gapless
      <4> QED
        BY <1>2, <3>1, <4>1
    <3>3. CASE j \in DOMAIN f
      BY <1>2, <2>4, <3>1, <3>3 DEF Gapless
    <3> QED
      BY <1>2, <3>2, <3>3
  <2> QED
    BY <2>1, <2>2, <2>3, <2>4
<1>6. Gapless(g, given, t)
  BY <1>5 DEF Gapless
<1> QED
  BY <1>1, <1>6

LEMMA LeavingIsGapless ==
  ASSUME NEW f \in Seq(BusFrames), NEW given \in [Channels -> Nat], NEW taken \in [Channels -> Nat],
         Gapless(f, given, taken), f # << >>
  PROVE  Gapless(Tail(f), [given EXCEPT ![f[1].channel] = @ + 1], taken)
<1>1. PICK g, x, c0, t : g = Tail(f) /\ x = f[1] /\ c0 = x.channel
                         /\ t = [given EXCEPT ![f[1].channel] = @ + 1]
  OBVIOUS
<1>2. /\ 1 \in DOMAIN f /\ DOMAIN f = 1..Len(f) /\ Len(f) \in Nat
      /\ \A i \in DOMAIN f : f[i] \in BusFrames
  BY EmptySeq, LenProperties, ElementOfSeq
<1>3. DOMAIN g = 1..Len(f) - 1 /\ \A i \in DOMAIN g : g[i] = f[i + 1] /\ i + 1 \in DOMAIN f
  BY <1>1, <1>2, HeadTailProperties, LenProperties
<1>4. x \in BusFrames /\ c0 \in Channels /\ t \in [Channels -> Nat] /\ t[c0] = given[c0] + 1
      /\ \A c \in Channels : c # c0 => t[c] = given[c]
  <2>1. x \in BusFrames
    BY <1>1, <1>2
  <2>2. c0 \in Channels
    BY <1>1, <2>1 DEF BusFrames
  <2>3. t = [given EXCEPT ![c0] = @ + 1]
    BY <1>1
  <2> QED
    BY <2>1, <2>2, <2>3
<1>5. x.n = given[c0] /\ given[c0] < taken[c0]
  <2>0. given[c0] \in Nat /\ taken[c0] \in Nat
    BY <1>4
  <2>1. x.n \in given[c0]..taken[c0]-1
    BY <1>1, <1>2, <1>4 DEF Gapless
  <2>2. given[c0] \in given[c0]..taken[c0]-1
    BY <1>4, <2>1
  <2>3. PICK i \in DOMAIN f : f[i].channel = c0 /\ f[i].n = given[c0]
    <3>1. \A k \in given[c0]..taken[c0]-1 : \E i \in DOMAIN f : f[i].channel = c0 /\ f[i].n = k
      BY <1>4 DEF Gapless
    <3> QED
      BY <2>2, <3>1
  <2>4. CASE i = 1
    BY <1>1, <2>0, <2>1, <2>2, <2>3, <2>4
  <2>5. CASE i # 1
    <3>1. 1 < i
      BY <1>2, <2>3, <2>5
    <3>2. x.n < f[i].n
      <4>1. \A j \in DOMAIN f : f[1].channel = c0 /\ f[j].channel = c0 /\ 1 < j => f[1].n < f[j].n
        BY <1>2, <1>4 DEF Gapless
      <4> QED
        BY <1>1, <2>3, <3>1, <4>1
    <3> QED
      BY <1>4, <2>1, <2>3, <3>2
  <2> QED
    BY <2>4, <2>5
<1>6. ASSUME NEW c \in Channels
      PROVE  /\ t[c] <= taken[c]
             /\ \A i \in DOMAIN g : g[i].channel = c => g[i].n \in t[c]..taken[c]-1
             /\ \A k \in t[c]..taken[c]-1 : \E i \in DOMAIN g : g[i].channel = c /\ g[i].n = k
             /\ \A i, j \in DOMAIN g : g[i].channel = c /\ g[j].channel = c /\ i < j => g[i].n < g[j].n
  <2>1. t[c] <= taken[c]
    BY <1>4, <1>5 DEF Gapless
  <2>2. ASSUME NEW i \in DOMAIN g, g[i].channel = c PROVE g[i].n \in t[c]..taken[c]-1
    <3>1. g[i].n \in given[c]..taken[c]-1
      BY <1>3, <2>2 DEF Gapless
    <3>2. c = c0 => x.n < g[i].n
      <4>1. 1 < i + 1
        BY <1>2, <1>3
      <4>2. \A j \in DOMAIN f : f[1].channel = c /\ f[j].channel = c /\ 1 < j => f[1].n < f[j].n
        BY <1>2 DEF Gapless
      <4>3. i + 1 \in DOMAIN f /\ f[i + 1].channel = c /\ g[i].n = f[i + 1].n
        BY <1>3, <2>2
      <4> QED
        BY <1>1, <4>1, <4>2, <4>3
    <3> QED
      BY <1>4, <1>5, <3>1, <3>2
  <2>3. ASSUME NEW k \in t[c]..taken[c]-1 PROVE \E i \in DOMAIN g : g[i].channel = c /\ g[i].n = k
    <3>1. k \in given[c]..taken[c]-1 /\ (c = c0 => k # given[c0])
      BY <1>4
    <3>2. PICK i \in DOMAIN f : f[i].channel = c /\ f[i].n = k
      BY <3>1 DEF Gapless
    <3>3. i # 1
      BY <1>1, <1>5, <3>1, <3>2
    <3>4. i - 1 \in DOMAIN g /\ g[i - 1] = f[i]
      BY <1>2, <1>3, <3>2, <3>3
    <3> QED
      BY <3>2, <3>4
  <2>4. ASSUME NEW i \in DOMAIN g, NEW j \in DOMAIN g, g[i].channel = c, g[j].channel = c, i < j
        PROVE  g[i].n < g[j].n
    <3>1. i + 1 < j + 1 /\ i + 1 \in DOMAIN f /\ j + 1 \in DOMAIN f
      BY <1>2, <1>3, <2>4
    <3> QED
      BY <1>3, <2>4, <3>1 DEF Gapless
  <2> QED
    BY <2>1, <2>2, <2>3, <2>4
<1>7. Gapless(g, t, taken)
  BY <1>6 DEF Gapless
<1> QED
  BY <1>1, <1>7

\* A sequence behind the frame in hand.
LEMMA Behind ==
  ASSUME NEW S, NEW e \in S, NEW q \in Seq(S), NEW x \in S
  PROVE  /\ <<e>> \o q \in Seq(S) /\ <<e>> \o q # << >> /\ (<<e>> \o q)[1] = e
         /\ Tail(<<e>> \o q) = q
         /\ <<e>> \o Append(q, x) = Append(<<e>> \o q, x)
         /\ q # << >> => <<Head(q)>> \o Tail(q) = q
OBVIOUS

LEMMA PublishKeeps ==
  ASSUME BusInv, NEW p \in Publishers, Bus!publish(p)
  PROVE  BusInv'
<1> USE DEF Bus!bAt, Bus!bGoto, Bus!bLifeVars, Bus!bFrameVars
<1>0. p # "egress" /\ BusType
  BY ThreadsAssumption DEF BusInv
<1>1. UNCHANGED <<bRunning, bJoinable, egress, nextSeq>>
      /\ \E l \in BusPlaces : busPc' = [busPc EXCEPT ![p] = l]
  BY DEF Bus!publish, BusPlaces
<1>2. busPc'["egress"] = busPc["egress"]
      /\ busPc' \in [Publishers \cup Operators \cup {"egress"} -> BusPlaces]
  BY <1>0, <1>1 DEF BusType
<1>3. CASE UNCHANGED <<queue, accepted>>
  <2>1. Bus!InFlight' = Bus!InFlight
    BY <1>1, <1>3 DEF Bus!InFlight
  <2> QED
    BY <1>0, <1>1, <1>2, <1>3, <2>1 DEF BusInv, BusType
<1>4. ASSUME NEW c \in Channels,
             queue' = Append(queue, [channel |-> c, n |-> accepted[c], late |-> ~bRunning]),
             accepted' = [accepted EXCEPT ![c] = @ + 1]
      PROVE  BusInv'
  <2>1. PICK x : x = [channel |-> c, n |-> accepted[c], late |-> ~bRunning]
    OBVIOUS
  <2>2. x \in BusFrames /\ x.channel = c /\ x.n = accepted[c] /\ x.late = ~bRunning
    BY <1>0, <2>1 DEF BusFrames, BusType
  <2>3. queue' \in Seq(BusFrames) /\ accepted' \in [Channels -> Nat]
    BY <1>0, <1>4, <2>1, <2>2 DEF BusType
  <2>4. Bus!InFlight \in Seq(BusFrames) /\ Bus!InFlight' = Append(Bus!InFlight, x)
    BY <1>0, <1>1, <1>4, <2>1, <2>2, Behind DEF BusType, Bus!InFlight
  <2>5. Gapless(Bus!InFlight', nextSeq, accepted')
    BY <1>0, <1>4, <2>2, <2>4, AcceptedIsGapless DEF BusInv, BusType
  <2>6. busPc["egress"] \in {"none", "ended"} => \A i \in DOMAIN queue' : queue'[i].late
    <3>1. ASSUME NEW i \in DOMAIN queue' 
          PROVE  (i \in DOMAIN queue /\ queue'[i] = queue[i]) \/ queue'[i] = x
      BY <1>0, <1>4, <2>1, <2>2, OneMore DEF BusType
    <3> QED
      BY <2>2, <3>1 DEF BusInv
  <2> QED
    BY <1>0, <1>1, <1>2, <2>3, <2>5, <2>6 DEF BusInv, BusType
<1> QED
  BY <1>3, <1>4 DEF Bus!publish

LEMMA OperatorKeeps ==
  ASSUME BusInv, NEW o \in Operators, Bus!start(o) \/ Bus!stop(o)
  PROVE  BusInv'
<1> USE DEF Bus!bAt, Bus!bGoto, Bus!bLifeVars, Bus!bFrameVars, Bus!Egress
<1>0. o # "egress" /\ BusType
  BY ThreadsAssumption DEF BusInv
<1>1. UNCHANGED <<queue, egress, nextSeq, accepted>>
  BY DEF Bus!start, Bus!stop
<1>2. Bus!InFlight' = Bus!InFlight
  BY <1>1 DEF Bus!InFlight
<1>3. CASE /\ bRunning' \in {bRunning, FALSE} /\ UNCHANGED bJoinable
           /\ \E l \in {"join", "stop", "reclaim"} : busPc' = [busPc EXCEPT ![o] = l]
  <2>1. busPc'["egress"] = busPc["egress"]
        /\ busPc' \in [Publishers \cup Operators \cup {"egress"} -> BusPlaces]
    BY <1>0, <1>3 DEF BusType, BusPlaces
  <2>2. bRunning' \in BOOLEAN
    BY <1>0, <1>3 DEF BusType
  <2>3. BusType'
    BY <1>0, <1>1, <1>3, <2>1, <2>2 DEF BusType
  <2>4. ~bRunning => ~bRunning'
    BY <1>3
  <2> QED
    BY <1>1, <1>2, <1>3, <2>1, <2>3, <2>4 DEF BusInv
<1>4. CASE /\ bJoinable => busPc["egress"] = "ended"
           /\ bRunning' = TRUE /\ bJoinable' = TRUE
           /\ busPc' = [busPc EXCEPT ![o] = "idle", !["egress"] = "check"]
  <2>1. busPc'["egress"] = "check"
        /\ busPc' \in [Publishers \cup Operators \cup {"egress"} -> BusPlaces]
    BY <1>0, <1>4 DEF BusType, BusPlaces
  <2>2. egress = Bus!NoFrame
    BY <1>4 DEF BusInv
  <2> QED
    BY <1>0, <1>1, <1>2, <1>4, <2>1, <2>2 DEF BusInv, BusType
<1>5. CASE /\ bJoinable => busPc["egress"] = "ended"
           /\ bRunning' = bRunning /\ bJoinable' = FALSE
           /\ busPc' = [busPc EXCEPT ![o] = "idle", !["egress"] = "none"]
  <2>1. busPc'["egress"] = "none"
        /\ busPc' \in [Publishers \cup Operators \cup {"egress"} -> BusPlaces]
    BY <1>0, <1>5 DEF BusType, BusPlaces
  <2>2. egress = Bus!NoFrame /\ busPc["egress"] \in {"none", "ended"}
    BY <1>5 DEF BusInv
  <2> QED
    BY <1>0, <1>1, <1>2, <1>5, <2>1, <2>2 DEF BusInv, BusType
<1> QED
  BY <1>3, <1>4, <1>5 DEF Bus!start, Bus!stop

LEMMA RunKeeps ==
  ASSUME BusInv, Bus!run
  PROVE  BusInv'
<1> USE DEF Bus!bAt, Bus!bGoto, Bus!bLifeVars, Bus!bFrameVars, Bus!Egress
<1>0. BusType /\ UNCHANGED <<bRunning, bJoinable, nextSeq, accepted>>
  BY DEF BusInv, Bus!run
<1>1. CASE /\ busPc["egress"] = "check" /\ UNCHANGED <<queue, egress>>
           /\ busPc' = [busPc EXCEPT !["egress"] = IF bRunning THEN "take" ELSE "drain"]
  <2>1. busPc'["egress"] = (IF bRunning THEN "take" ELSE "drain")
        /\ busPc' \in [Publishers \cup Operators \cup {"egress"} -> BusPlaces]
    BY <1>0, <1>1 DEF BusType, BusPlaces
  <2>2. Bus!InFlight' = Bus!InFlight
    BY <1>1 DEF Bus!InFlight
  <2> QED
    BY <1>0, <1>1, <2>1, <2>2 DEF BusInv, BusType
<1>2. CASE /\ busPc["egress"] \in {"take", "drain"} /\ queue = << >> /\ UNCHANGED <<queue, egress>>
           /\ busPc' = [busPc EXCEPT !["egress"] = IF busPc["egress"] = "take" THEN "check" ELSE "ended"]
  <2>1. busPc'["egress"] = (IF busPc["egress"] = "take" THEN "check" ELSE "ended")
        /\ busPc' \in [Publishers \cup Operators \cup {"egress"} -> BusPlaces]
    BY <1>0, <1>2 DEF BusType, BusPlaces
  <2>2. Bus!InFlight' = Bus!InFlight
    BY <1>2 DEF Bus!InFlight
  <2> QED
    BY <1>0, <1>2, <2>1, <2>2 DEF BusInv, BusType
<1>3. CASE /\ busPc["egress"] \in {"take", "drain"} /\ queue # << >>
           /\ egress' = Head(queue) /\ queue' = Tail(queue)
           /\ busPc' = [busPc EXCEPT !["egress"] = IF busPc["egress"] = "take" THEN "deliver" ELSE "flush"]
  <2>1. busPc'["egress"] = (IF busPc["egress"] = "take" THEN "deliver" ELSE "flush")
        /\ busPc' \in [Publishers \cup Operators \cup {"egress"} -> BusPlaces]
    BY <1>0, <1>3 DEF BusType, BusPlaces
  <2>2. Head(queue) \in BusFrames /\ Tail(queue) \in Seq(BusFrames)
    BY <1>0, <1>3, HeadTailProperties DEF BusType
  <2>3. egress' # Bus!NoFrame
    BY <1>3, <2>2, ThreadsAssumption DEF BusFrames, Bus!NoFrame, Bus!Nobody
  <2>4. egress = Bus!NoFrame
    BY <1>3 DEF BusInv
  <2>5. <<Head(queue)>> \o Tail(queue) = queue
    BY <1>0, <1>3, <2>2, Behind DEF BusType
  <2>6. Bus!InFlight' = Bus!InFlight
    BY <1>3, <2>3, <2>4, <2>5 DEF Bus!InFlight
  <2> QED
    BY <1>0, <1>3, <2>1, <2>2, <2>3, <2>6 DEF BusInv, BusType
<1> QED
  BY <1>1, <1>2, <1>3 DEF Bus!run

LEMMA BusDispatchKeeps ==
  ASSUME BusInv, Bus!dispatch
  PROVE  BusInv'
<1> USE DEF Bus!bAt, Bus!bGoto, Bus!Egress
<1>0. BusType /\ UNCHANGED <<bJoinable, queue, accepted>>
  BY DEF BusInv, Bus!dispatch
<1>1. /\ egress \in BusFrames /\ egress # Bus!NoFrame /\ queue \in Seq(BusFrames)
      /\ busPc["egress"] \in {"deliver", "flush"}
  BY DEF BusInv, BusType, Bus!dispatch
<1>2. egress' = Bus!NoFrame /\ nextSeq' = [nextSeq EXCEPT ![egress.channel] = @ + 1]
      /\ bRunning' \in {bRunning, FALSE}
  BY DEF Bus!dispatch
<1>3. busPc'["egress"] = (IF busPc["egress"] = "deliver" THEN "check" ELSE "drain")
      /\ busPc' \in [Publishers \cup Operators \cup {"egress"} -> BusPlaces]
  BY <1>0 DEF BusType, BusPlaces, Bus!dispatch
<1>4. PICK f : f = <<egress>> \o queue
  OBVIOUS
<1>5. f \in Seq(BusFrames) /\ f # << >> /\ f[1] = egress /\ Tail(f) = queue
  BY <1>1, <1>4, Behind
<1>6. Bus!InFlight = f /\ Bus!InFlight' = Tail(f)
  BY <1>0, <1>1, <1>2, <1>4, <1>5 DEF Bus!InFlight
<1>7. Gapless(Bus!InFlight', nextSeq', accepted)
  <2>1. Gapless(f, nextSeq, accepted) /\ nextSeq \in [Channels -> Nat] /\ accepted \in [Channels -> Nat]
    BY <1>6 DEF BusInv, BusType
  <2>2. Gapless(Tail(f), [nextSeq EXCEPT ![f[1].channel] = @ + 1], accepted)
    BY <1>5, <2>1, LeavingIsGapless
  <2> QED
    BY <1>2, <1>5, <1>6, <2>2
<1>8. nextSeq' \in [Channels -> Nat] /\ bRunning' \in BOOLEAN
  <2>1. egress.channel \in Channels
    BY <1>1 DEF BusFrames
  <2>2. nextSeq' \in [Channels -> Nat]
    BY <1>0, <1>2, <2>1 DEF BusType
  <2>3. bRunning' \in BOOLEAN
    BY <1>0, <1>2 DEF BusType
  <2> QED
    BY <2>2, <2>3
<1> QED
  BY <1>0, <1>1, <1>2, <1>3, <1>7, <1>8 DEF BusInv, BusType

LEMMA BusSteps ==
  ASSUME BusInv, [Bus!BusNext]_busVars
  PROVE  BusInv'
<1>1. CASE UNCHANGED busVars
  <2>1. Bus!InFlight' = Bus!InFlight
    BY <1>1 DEF busVars, Bus!InFlight
  <2> QED
    BY <1>1, <2>1 DEF busVars, BusInv, BusType
<1> QED
  BY <1>1, PublishKeeps, OperatorKeeps, RunKeeps, BusDispatchKeeps DEF Bus!BusNext

-----------------------------------------------------------------------------
(* The parts side by side. *)

NetInv == BarrierInv /\ AdapterInv /\ PluginInv /\ TcpInv /\ UdpInv /\ BusInv

LEMMA PartsStep ==
  ASSUME [NetNext]_allVars
  PROVE  /\ [Barrier!BarrierNext]_barrierVars /\ [Adapt!AdapterNext]_adapterVars
         /\ [Plug!PluginNext]_pluginVars /\ [Tcp!TcpNext]_tcpVars
         /\ [Udp!UdpNext]_udpVars /\ [Bus!BusNext]_busVars
<1>1. CASE UNCHANGED allVars
  BY <1>1 DEF allVars
<1>2. CASE NetNext
  BY <1>2 DEF NetNext, OnlyTcp, OnlyUdp, OnlyBus, OnlyBarrier, OnlyAdapter, OnlyPlugins
<1> QED
  BY <1>1, <1>2

LEMMA NetStart == NetInit => NetInv
BY BarrierStart, AdapterStart, PluginStart, TcpStart, UdpStart, BusStart DEF NetInit, NetInv

LEMMA NetSteps == NetInv /\ [NetNext]_allVars => NetInv'
BY PartsStep, BarrierSteps, AdapterSteps, PluginSteps, TcpSteps, UdpSteps, BusSteps DEF NetInv

LEMMA NetInvariance == NetSpec => []NetInv
BY NetStart, NetSteps, PTL DEF NetSpec

\* unregister() returns when no dispatch can call the handler any more; a delivery of an adapter
\* calls subscribers only, with casters that live; and a library is open exactly while one entry
\* of one plugin manager holds it, whatever failed on the way.
THEOREM HandlersStaySound == NetSpec => []HandlersSound
<1>1. NetInv => HandlersSound
  BY BarrierIsSound, PluginsAreSound DEF NetInv, HandlersSound, AdapterInv
<1> QED
  BY <1>1, NetInvariance, PTL

\* No byte follows a truncated frame of TcpClient, a client that calls itself alive has a socket
\* and its thread; a datagram of UdpSocket goes to the bound family; and the telemetry bus numbers
\* frames without a gap and loses none in stop().
THEOREM ClientsStaySound == NetSpec => []ClientsSound
<1>1. TcpInv => Tcp!NothingBehindCut /\ Tcp!NotHalfOpen
  BY DEF TcpInv, Tcp!NothingBehindCut, Tcp!NotHalfOpen, Tcp!Worker
<1>2. UdpInv => Udp!UdpSound
  BY DEF UdpInv, Udp!UdpSound, Udp!Worker, Udp!NoFamily
<1>3. NetInv => ClientsSound
  BY <1>1, <1>2, BusIsSound DEF NetInv, ClientsSound
<1> QED
  BY <1>3, NetInvariance, PTL

\* A receive thread whose callback called stop() delivers nothing more, a descriptor is closed
\* when no thread can be inside a call with it, and a scan of a plugin directory that failed at
\* one file ends with an error.
THEOREM StepsStayClean == NetSpec => StepsAreClean
<1>1. NetInv /\ [NetNext]_allVars =>
        [Tcp!tAt(Tcp!Worker, "batch") /\ tcpPc'[Tcp!Worker] = "call" => ~tSelfStop]_(Tcp!tcpVars)
  BY PartsStep, TcpStepsAreClean DEF NetInv, Tcp!tAt, Tcp!Worker
<1>2. NetInv /\ [NetNext]_allVars =>
        [tSock /\ ~tSock' => tWrite = Tcp!Nobody /\ tcpPc[Tcp!Worker] \in {"none", "ended"}]_(Tcp!tcpVars)
  BY PartsStep, TcpStepsAreClean DEF NetInv, Tcp!Nobody, Tcp!Worker
<1>3. NetInv /\ [NetNext]_allVars =>
        [uSock /\ ~uSock' => udpPc[Udp!Worker] \in {"none", "ended"}]_(Udp!udpVars)
  BY PartsStep, UdpStepsAreClean DEF NetInv, Udp!Worker
<1>4. NetInv /\ [NetNext]_allVars =>
        [\A g \in Managers : scan[g].failed /\ Plug!Idle(g)' => lastError'[g]]_(Plug!pluginVars)
  BY PartsStep, ErrorsStay DEF NetInv
<1>5. NetSpec => Tcp!StopMeansStop
  BY <1>1, NetInvariance, PTL DEF NetSpec, Tcp!StopMeansStop
<1>6. NetSpec => Tcp!ClosedUnused
  BY <1>2, NetInvariance, PTL DEF NetSpec, Tcp!ClosedUnused
<1>7. NetSpec => Udp!UdpClosedUnused
  BY <1>3, NetInvariance, PTL DEF NetSpec, Udp!UdpClosedUnused
<1>8. NetSpec => Plug!ErrorsAreKept
  BY <1>4, NetInvariance, PTL DEF NetSpec, Plug!ErrorsAreKept
<1> QED
  BY <1>5, <1>6, <1>7, <1>8 DEF StepsAreClean
=============================================================================
