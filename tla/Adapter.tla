------------------------------- MODULE Adapter -------------------------------
(***************************************************************************)
(* axonvex::adapters::AdapterBase: threads that drive one adapter through  *)
(* its states and publish on one topic.  Subscribers run under mutex_; one *)
(* may call back into the adapter, which waits for the mutex that its own  *)
(* thread holds.  ROS2Adapter and its casters are the second half.         *)
(***************************************************************************)
EXTENDS Naturals, Sequences

CONSTANTS Threads, Subscribers, Pairs,   \* Pairs of a domain type and a ROS message
          MaxSubscribed,                 \* bound on the subscriptions of the topic
          MaxCasters                     \* bound on the casters ever made

Free == "free"

VARIABLES aState,       \* state_
          aInitialized, \* initialized_
          aMutex,       \* owner of mutex_
          subscribers,  \* topicSubscribers_ of the topic
          todo,         \* the subscribers that the delivery under way has left
          aPc, casters, wired, madeCasters

baseVars  == <<aState, aInitialized, aMutex, subscribers, todo, aPc>>
rosVars   == <<casters, wired, madeCasters>>
adapterVars == <<baseVars, rosVars>>

AdapterInit ==
  /\ aState = "Disconnected" /\ aInitialized = FALSE /\ aMutex = Free
  /\ subscribers = << >> /\ todo = << >>
  /\ aPc = [t \in Threads |-> "idle"]
  /\ casters = [p \in Pairs |-> 0] /\ wired = {} /\ madeCasters = 0

aAt(t, l)  == aPc[t] = l
moves(t, from, to) == aAt(t, from) /\ aPc' = [aPc EXCEPT ![t] = to]
locked     == aMutex = Free /\ UNCHANGED aMutex

\* A call whose critical section holds no step of another thread; the error handlers that
\* initialize() and start() call under the mutex return at once.
short(t) == aAt(t, "idle") /\ locked /\ UNCHANGED <<aPc, todo, rosVars>>

initialize(t) ==
  /\ short(t) /\ aState = "Disconnected" /\ aInitialized' = TRUE
  /\ UNCHANGED <<aState, subscribers>>

\* start(): Connecting while onStart() runs under the mutex; isConnected() reads no mutex.
start(t) ==
  \/ /\ moves(t, "idle", "onStart") /\ aMutex = Free /\ aMutex' = t
     /\ aInitialized /\ aState = "Disconnected"
     /\ aState' = "Connecting"
     /\ UNCHANGED <<aInitialized, subscribers, todo, rosVars>>
  \/ /\ moves(t, "onStart", "idle") /\ aMutex' = Free
     /\ aState' \in {"Connected", "Error"}
     /\ UNCHANGED <<aInitialized, subscribers, todo, rosVars>>

stop(t) ==
  \/ /\ moves(t, "idle", "onStop") /\ aMutex = Free /\ aMutex' = t
     /\ aState \notin {"Disconnected", "ShuttingDown"}
     /\ aState' = "ShuttingDown"
     /\ UNCHANGED <<aInitialized, subscribers, todo, rosVars>>
  \/ /\ moves(t, "onStop", "idle") /\ aMutex' = Free
     /\ aState' = "Disconnected"
     /\ UNCHANGED <<aInitialized, subscribers, todo, rosVars>>

\* shutdown(), with ROS2Adapter's onShutdown(): the subscriptions go, publishers stay with
\* the units.
shutdown(t) ==
  /\ aAt(t, "idle") /\ locked
  /\ aState' = "Disconnected" /\ aInitialized' = FALSE /\ subscribers' = << >>
  /\ wired' = {w \in wired : w.kind = "publisher"}
  /\ UNCHANGED <<todo, aPc, casters, madeCasters>>

\* Fault: the list is copied and its callbacks are called without the mutex.
deliverLocallyUnlocked(t) ==
  \/ /\ moves(t, "deliver", "callbacks") /\ locked /\ todo = << >> /\ todo' = subscribers
     /\ UNCHANGED <<aState, aInitialized, subscribers, rosVars>>
  \/ /\ aAt(t, "callbacks") /\ todo # << >>
     /\ todo' = Tail(todo) /\ UNCHANGED <<aPc, aMutex>>
     /\ UNCHANGED <<aState, aInitialized, subscribers, rosVars>>
  \/ /\ moves(t, "callbacks", "idle") /\ todo = << >>
     /\ UNCHANGED <<aMutex, todo, aState, aInitialized, subscribers, rosVars>>

\* deliverLocally(): the callbacks run one by one under the mutex.
deliverLocally(t) ==
  \/ /\ moves(t, "deliver", "callbacks") /\ aMutex = Free /\ aMutex' = t /\ todo' = subscribers
     /\ UNCHANGED <<aState, aInitialized, subscribers, rosVars>>
  \/ /\ aAt(t, "callbacks") /\ todo # << >>
     /\ \/ todo' = Tail(todo) /\ UNCHANGED <<aPc, aMutex>>
        \/ moves(t, "callbacks", "reentered") /\ UNCHANGED <<todo, aMutex>>
     /\ UNCHANGED <<aState, aInitialized, subscribers, rosVars>>
  \/ /\ moves(t, "callbacks", "idle") /\ todo = << >> /\ aMutex' = Free
     /\ UNCHANGED <<todo, aState, aInitialized, subscribers, rosVars>>

\* publish(): the state is read before the mutex is taken.
publish(t) ==
  /\ aState = "Connected" /\ moves(t, "idle", "deliver")
  /\ UNCHANGED <<aState, aInitialized, aMutex, subscribers, todo, rosVars>>

subscribe(t, s) ==
  /\ short(t) /\ Len(subscribers) < MaxSubscribed
  /\ subscribers' = Append(subscribers, s)
  /\ UNCHANGED <<aState, aInitialized>>

\* unsubscribe(): the first entry of that callback.
unsubscribe(t, s) ==
  /\ short(t)
  /\ \E i \in DOMAIN subscribers :
       /\ subscribers[i] = s /\ \A j \in 1..i - 1 : subscribers[j] # s
       /\ subscribers' = SubSeq(subscribers, 1, i - 1)
                           \o SubSeq(subscribers, i + 1, Len(subscribers))
  /\ UNCHANGED <<aState, aInitialized>>

\* TypeCasterRegistry::registerCaster(): throws for a pair that has one.
registerCaster(p) ==
  /\ madeCasters < MaxCasters /\ casters[p] = 0
  /\ madeCasters' = madeCasters + 1 /\ casters' = [casters EXCEPT ![p] = madeCasters']
  /\ UNCHANGED <<baseVars, wired>>

\* createSubscriber(), createPublisher(): throw without a caster, keep the raw one.
createUnit(p, kind) ==
  /\ casters[p] # 0
  /\ wired' = wired \cup {[kind |-> kind, pair |-> p, caster |-> casters[p]]}
  /\ UNCHANGED <<baseVars, casters, madeCasters>>

AdapterStep(t) == ~aAt(t, "idle") /\ (start(t) \/ stop(t) \/ deliverLocally(t))

AdapterNext ==
  \/ \E t \in Threads :
       \/ initialize(t) \/ start(t) \/ stop(t) \/ shutdown(t) \/ publish(t) \/ deliverLocally(t)
       \/ \E s \in Subscribers : subscribe(t, s) \/ unsubscribe(t, s)
  \/ \E p \in Pairs : registerCaster(p) \/ \E k \in {"subscriber", "publisher"} : createUnit(p, k)

-----------------------------------------------------------------------------

\* deliverLocally() and unsubscribe(): whoever is still to be called is subscribed, so a
\* callback may be destroyed once unsubscribe() or shutdown() returned; and a ROS callback
\* never holds a caster that the registry replaced.
AdapterHoldsLive ==
  /\ \A i \in DOMAIN todo : \E j \in DOMAIN subscribers : subscribers[j] = todo[i]
  /\ \A w \in wired : casters[w.pair] = w.caster

\* Only a callback that calls back into its adapter can strand a publisher.
PublishReturns ==
  \A t \in Threads : aAt(t, "deliver") ~> aAt(t, "idle") \/ \E u \in Threads : aAt(u, "reentered")
=============================================================================
