------------------------------- MODULE Network -------------------------------
(***************************************************************************)
(* The clients of the network, the bus of telemetry, adapters and plugins, *)
(* side by side.  They share no state: `subject` is the one that runs, the *)
(* others rest.                                                            *)
(***************************************************************************)
EXTENDS Naturals, Sequences

CONSTANTS Subjects,                       \* the parts that may run
          Users,                          \* threads that call into a part
          MaxConnects, MaxFrames,         \* TcpClient; frames also of TelemetryBus
          Families, MaxBinds,             \* UdpSocket
          Channels, Publishers, Operators, QueueRoom, MaxStarts,  \* TelemetryBus
          Receiver, Messages, Errors, MaxDispatches,              \* DispatchBarrier
          Subscribers, Pairs, MaxSubscribed, MaxCasters,          \* Adapter
          Managers, Names, MaxLoads, MaxScan                      \* PluginManager

\* The threads of a part are told apart, and an address has a family.
ASSUME ThreadsAssumption ==
  /\ Users \cap {"worker", "nobody", "free"} = {}
  /\ Publishers \cap Operators = {} /\ "egress" \notin Publishers \cup Operators
  /\ "nobody" \notin Channels
  /\ "none" \notin Messages \cup Errors \cup Families

VARIABLES subject,
          tRunning, tAlive, tSock, shut, cut, garbage, connects, tJoinable, tLife, tWrite,
          tcpPc, frames, tail, tSelfStop,
          uRunning, uAlive, uSock, sockFamily, host, remote, lastPeer, uJoinable, uLife,
          udpPc, dest, binds,
          bRunning, bJoinable, bLife, busPc, queue, egress, nextSeq, accepted, starts,
          registered, inFlight, depth, stack, reporting, waiting, gone, dispatches,
          aState, aInitialized, aMutex, subscribers, todo, aPc, casters, wired, madeCasters,
          plugins, lastError, libraries, scan

tcpVars     == <<tRunning, tAlive, tSock, shut, cut, garbage, connects, tJoinable, tLife,
                 tWrite, tcpPc, frames, tail, tSelfStop>>
udpVars     == <<uRunning, uAlive, uSock, sockFamily, host, remote, lastPeer, uJoinable, uLife,
                 udpPc, dest, binds>>
busVars     == <<bRunning, bJoinable, bLife, busPc, queue, egress, nextSeq, accepted, starts>>
barrierVars == <<registered, inFlight, depth, stack, reporting, waiting, gone, dispatches>>
adapterVars == <<aState, aInitialized, aMutex, subscribers, todo, aPc, casters, wired,
                 madeCasters>>
pluginVars  == <<plugins, lastError, libraries, scan>>
allVars == <<subject, tcpVars, udpVars, busVars, barrierVars, adapterVars, pluginVars>>

Tcp     == INSTANCE TcpClient WITH Callers <- Users
Udp     == INSTANCE UdpSocket
Bus     == INSTANCE TelemetryBus
Barrier == INSTANCE DispatchBarrier WITH Threads <- Users
Adapt   == INSTANCE Adapter WITH Threads <- Users
Plug    == INSTANCE PluginManager

NetInit ==
  /\ subject \in Subjects
  /\ Tcp!TcpInit /\ Udp!UdpInit /\ Bus!BusInit /\ Barrier!BarrierInit /\ Adapt!AdapterInit
  /\ Plug!PluginInit

\* One part runs, the others rest.
OnlyTcp == subject = "tcp" /\ UNCHANGED <<subject, udpVars, busVars, barrierVars, adapterVars, pluginVars>>
OnlyUdp == subject = "udp" /\ UNCHANGED <<subject, tcpVars, busVars, barrierVars, adapterVars, pluginVars>>
OnlyBus == subject = "bus" /\ UNCHANGED <<subject, tcpVars, udpVars, barrierVars, adapterVars, pluginVars>>
OnlyBarrier == subject = "barrier" /\ UNCHANGED <<subject, tcpVars, udpVars, busVars, adapterVars, pluginVars>>
OnlyAdapter == subject = "adapter" /\ UNCHANGED <<subject, tcpVars, udpVars, busVars, barrierVars, pluginVars>>
OnlyPlugins == subject = "plugins" /\ UNCHANGED <<subject, tcpVars, udpVars, busVars, barrierVars, adapterVars>>

NetNext ==
  \/ OnlyTcp /\ Tcp!TcpNext
  \/ OnlyUdp /\ Udp!UdpNext
  \/ OnlyBus /\ Bus!BusNext
  \/ OnlyBarrier /\ Barrier!BarrierNext
  \/ OnlyAdapter /\ Adapt!AdapterNext
  \/ OnlyPlugins /\ Plug!PluginNext

\* What a thread does next in a call or a dispatch that it began; one part runs, so one
\* condition serves the parts together.
Going(c) ==
  \/ OnlyTcp /\ (Tcp!Going(c) \/ Tcp!Writing(c, "idle"))
  \/ OnlyUdp /\ Udp!Proceed(c)
  \/ OnlyBarrier /\ (Barrier!callHandler(c) \/ Barrier!end(c))
  \/ OnlyAdapter /\ Adapt!deliverLocally(c)

GoingOrWaiting(c) ==
  \/ OnlyBarrier /\ Barrier!BarrierStep(c)
  \/ OnlyAdapter /\ Adapt!AdapterStep(c)

\* The receive threads and the calls that began go on; a mutex that is released again and
\* again is got in the end.
Fairness ==
  /\ WF_allVars((OnlyTcp /\ Tcp!ReceiveThread) \/ (OnlyUdp /\ Udp!receive))
  /\ SF_allVars(OnlyTcp /\ Tcp!callback)
  /\ SF_allVars(OnlyTcp /\ Tcp!Writing("worker", "call"))
  /\ \A c \in Users : WF_allVars(GoingOrWaiting(c)) /\ SF_allVars(Going(c))

NetSpec == NetInit /\ [][NetNext]_allVars /\ Fairness

-----------------------------------------------------------------------------
(* The promises, by component.                                                *)

\* TcpClient: no byte behind a truncated frame, no half-open client.  UdpSocket: datagrams go to
\* an address of the bound family.  TelemetryBus: gapless numbers per channel, stop() drains.
ClientsSound ==
  /\ Tcp!NothingBehindCut /\ Tcp!NotHalfOpen
  /\ Udp!UdpSound
  /\ Bus!GaplessNumbers /\ Bus!Drained

\* DispatchBarrier: a handler that was unregistered is not called.  Adapter: nobody is called who
\* is not subscribed, no caster is freed in use.  PluginManager: libraries are closed once, after
\* their instances.
HandlersSound ==
  Barrier!NoCallAfterUnregister /\ Adapt!AdapterHoldsLive /\ Plug!LibrariesOwnedOnce

\* TcpClient, UdpSocket: no delivery behind a stop() of the handler, no descriptor closed while a
\* thread is inside a call with it.  PluginManager: a later success of a scan does not erase an
\* earlier failure.
StepsAreClean ==
  Tcp!StopMeansStop /\ Tcp!ClosedUnused /\ Udp!UdpClosedUnused /\ Plug!ErrorsAreKept

\* Whoever stops a client, unregisters a handler or publishes gets out of the call.
WaitersReturn ==
  \A c \in Users :
    (\/ tcpPc[c] \in {"reap", "stop", "join"}
     \/ ~Barrier!Free(c)
     \/ Adapt!aAt(c, "deliver"))
    ~> (/\ tcpPc[c] = "idle"
        /\ Barrier!Free(c)
        /\ Adapt!aAt(c, "idle") \/ \E u \in Users : Adapt!aAt(u, "reentered"))

=============================================================================
