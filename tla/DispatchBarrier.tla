--------------------------- MODULE DispatchBarrier ---------------------------
(***************************************************************************)
(* axonvex::interfaces::detail::DispatchBarrier, and the handlers of       *)
(* TcpClient that it protects: message handlers, called on the receive     *)
(* thread, and error handlers, called on any thread that sends.  A thread  *)
(* holds the registry's mutex within a step, never between two.            *)
(***************************************************************************)
EXTENDS Naturals, Sequences, FiniteSets

CONSTANTS Threads,
          Receiver,      \* the one that dispatches messages
          Messages,      \* message handlers
          Errors,        \* error handlers
          MaxDispatches  \* bound on the dispatches of a thread

Handlers == Messages \cup Errors

VARIABLES registered,    \* the handlers in both registries
          inFlight,      \* inFlight_
          depth,         \* depthByThread_
          stack,         \* per thread: what is left to call of each dispatch under way
          reporting,     \* inDispatch, the thread-local flag of reportError()
          waiting,       \* the handler that a thread unregisters and waits for, if any
          gone,          \* handlers whose unregistration returned to a thread outside
          dispatches

barrierVars == <<registered, inFlight, depth, stack, reporting, waiting, gone, dispatches>>

NoHandler == "none"

BarrierInit ==
  /\ registered = Handlers /\ inFlight = 0
  /\ depth = [t \in Threads |-> 0]
  /\ stack = [t \in Threads |-> << >>]
  /\ reporting = [t \in Threads |-> FALSE]
  /\ waiting = [t \in Threads |-> NoHandler]
  /\ gone = {}
  /\ dispatches = [t \in Threads |-> 0]

Free(t) == waiting[t] = NoHandler

\* A dispatch that finds handlers: begin() in the critical section of the snapshot.
begin(t, targets) ==
  /\ Free(t) /\ dispatches[t] < MaxDispatches /\ targets # {}
  /\ dispatches' = [dispatches EXCEPT ![t] = @ + 1]
  /\ depth' = [depth EXCEPT ![t] = @ + 1] /\ inFlight' = inFlight + 1
  /\ stack' = [stack EXCEPT ![t] = <<targets>> \o @]
  /\ UNCHANGED <<registered, waiting, gone>>

\* dispatchMessage(), between two frames.
dispatchMessage(t) ==
  t = Receiver /\ stack[t] = << >> /\ begin(t, registered \cap Messages) /\ UNCHANGED reporting

\* reportError(), which does not enter itself again on one thread; a message handler that
\* sends may be on the stack below it.
reportError(t) ==
  /\ ~reporting[t] /\ begin(t, registered \cap Errors)
  /\ reporting' = [reporting EXCEPT ![t] = TRUE]

\* The dispatch under way calls the next of its handlers.
callHandler(t) ==
  /\ Free(t) /\ stack[t] # << >>
  /\ \E h \in Head(stack[t]) : stack' = [stack EXCEPT ![t][1] = @ \ {h}]
  /\ UNCHANGED <<registered, inFlight, depth, reporting, waiting, gone, dispatches>>

\* The end of a dispatch, ~ScopedDispatch: the count and this thread's depth go down.
end(t) ==
  /\ Free(t) /\ stack[t] # << >> /\ Head(stack[t]) = {}
  /\ stack' = [stack EXCEPT ![t] = Tail(@)]
  /\ depth' = [depth EXCEPT ![t] = @ - 1] /\ inFlight' = inFlight - 1
  /\ reporting' = [reporting EXCEPT ![t] = FALSE]
  /\ UNCHANGED <<registered, waiting, gone, dispatches>>

\* Fault: a thread that is inside a dispatch waits like any other.
mayPassAlways(t) == inFlight = 0

\* The condition of waitQuiescent(): nobody dispatches, or this thread does.
mayPass(t) == depth[t] > 0 \/ inFlight = 0

\* unregister...Handler() and the set...Callback() calls: the wait releases the mutex, the
\* handler goes in the critical section that follows it.
beginUnregister(t) ==
  /\ Free(t)
  /\ \E h \in registered : waiting' = [waiting EXCEPT ![t] = h]
  /\ UNCHANGED <<registered, inFlight, depth, stack, reporting, gone, dispatches>>

\* Fault: the handler is removed without waiting.
unregisterAtOnce(t) ==
  /\ ~Free(t)
  /\ registered' = registered \ {waiting[t]}
  /\ gone' = IF depth[t] = 0 THEN gone \cup {waiting[t]} ELSE gone
  /\ waiting' = [waiting EXCEPT ![t] = NoHandler]
  /\ UNCHANGED <<inFlight, depth, stack, reporting, dispatches>>

unregister(t) ==
  /\ ~Free(t) /\ mayPass(t)
  /\ registered' = registered \ {waiting[t]}
  /\ gone' = IF depth[t] = 0 THEN gone \cup {waiting[t]} ELSE gone
  /\ waiting' = [waiting EXCEPT ![t] = NoHandler]
  /\ UNCHANGED <<inFlight, depth, stack, reporting, dispatches>>

\* register...Handler(): needs no wait.
register(t) ==
  /\ Free(t) /\ \E h \in Handlers \ registered : registered' = registered \cup {h} /\ gone' = gone \ {h}
  /\ UNCHANGED <<inFlight, depth, stack, reporting, waiting, dispatches>>

BarrierStep(t) == callHandler(t) \/ end(t) \/ unregister(t)
BarrierNext ==
  \E t \in Threads : \/ dispatchMessage(t) \/ reportError(t) \/ BarrierStep(t)
                     \/ beginUnregister(t) \/ register(t)

-----------------------------------------------------------------------------

\* C34: once a thread outside every dispatch got its handler unregistered, no dispatch under
\* way calls it any more: the handler may be destroyed.  And the count the waiters sleep on
\* is the number of dispatches under way, so that none is missed and none strands it.
NoCallAfterUnregister ==
  /\ \A t \in Threads : \A i \in DOMAIN stack[t] : stack[t][i] \cap gone = {}
  /\ \A t \in Threads : depth[t] = Len(stack[t])
  /\ inFlight = 0 <=> \A t \in Threads : stack[t] = << >>

\* Whoever unregisters gets out, also two threads that each do so inside a dispatch of their
\* own, one on the receive thread and one that sends.
UnregisterReturns == \A t \in Threads : ~Free(t) ~> Free(t)
=============================================================================
