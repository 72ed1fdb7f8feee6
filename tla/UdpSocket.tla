----------------------------- MODULE UdpSocket -----------------------------
(***************************************************************************)
(* axonvex::interfaces::udp::UdpSocket: threads that configure, start,     *)
(* stop and send, and the receive thread.  Unlike a TCP connection, a      *)
(* bound socket cannot be woken by shutdown(): the receive thread sees the *)
(* flags when recvfrom() times out.  An address is seen as its family.     *)
(***************************************************************************)
EXTENDS Naturals

CONSTANTS Users,       \* threads that start, stop and send
          Families,    \* what a host resolves to, each address in one family
          MaxBinds

Worker  == "worker"
Nobody  == "nobody"
NoFamily == "none"     \* AF_UNSPEC, no address

VARIABLES uRunning,    \* running_
          uAlive,      \* connectionAlive_
          uSock,       \* sock_ is open
          sockFamily,  \* sockFamily_
          host,        \* the families remote_host resolves to
          remote,      \* remoteAddr_, or none when remoteSet_ is false
          lastPeer,    \* lastPeer_, or none when lastPeerSet_ is false
          uJoinable,   \* worker_ is joinable
          uLife,       \* owner of lifecycleMutex_
          udpPc,       \* where each thread is
          dest,        \* the destination a send() copied
          binds

uFlags  == <<uRunning, uAlive>>
uPeers  == <<host, remote, lastPeer>>
udpVars == <<uFlags, uSock, sockFamily, uPeers, uJoinable, uLife, udpPc, dest, binds>>

UdpInit ==
  /\ uRunning = FALSE /\ uAlive = FALSE /\ uSock = FALSE /\ sockFamily = NoFamily
  /\ host = {} /\ remote = NoFamily /\ lastPeer = NoFamily
  /\ uJoinable = FALSE /\ uLife = Nobody
  /\ udpPc = [t \in Users \cup {Worker} |-> IF t = Worker THEN "none" ELSE "idle"]
  /\ dest = [u \in Users |-> NoFamily] /\ binds = 0

uAt(t, l)   == udpPc[t] = l
uGoto(t, l) == udpPc' = [udpPc EXCEPT ![t] = l]

isRunning == uRunning /\ uAlive

\* Fault: the first address, of any family.
updateRemoteAny(h, family) ==
  remote' = IF h = {} THEN NoFamily ELSE CHOOSE f \in h : f # family \/ h = {f}

\* updateRemote(): an address of the bound family, of any family before the first bind.
updateRemote(h, family) ==
  LET fit == IF family = NoFamily THEN h ELSE h \cap {family}
  IN  IF fit = {} THEN remote' = NoFamily ELSE remote' \in fit

\* resolveAddresses(): the families of the addresses of a host, none when it fails.
resolveAddresses == SUBSET Families

\* configure("remote_host"), for setup: before start(), with nobody else at work.
configure ==
  /\ \A u \in Users : uAt(u, "idle")
  /\ ~uJoinable
  /\ host' \in resolveAddresses /\ updateRemote(host', sockFamily)
  /\ UNCHANGED <<uFlags, uSock, sockFamily, lastPeer, uJoinable, uLife, udpPc, dest, binds>>

uJoined(u, next) ==
  /\ uJoinable => uAt(Worker, "ended")
  /\ uJoinable' = FALSE
  /\ udpPc' = [udpPc EXCEPT ![u] = next, ![Worker] = "none"]

\* start(): under lifecycleMutex_, reap a dead worker, close, bind, spawn.
start(u) ==
  \/ /\ uAt(u, "idle") /\ uLife = Nobody /\ ~isRunning
     /\ uLife' = u /\ uGoto(u, "reap")
     /\ uRunning' = (uRunning /\ ~uJoinable)
     /\ UNCHANGED <<uAlive, uSock, sockFamily, uPeers, uJoinable, dest, binds>>
  \/ /\ uAt(u, "reap") /\ uJoined(u, "bind")
     /\ UNCHANGED <<uFlags, uSock, sockFamily, uPeers, uLife, dest, binds>>
  \/ /\ uAt(u, "bind")
     /\ uSock' = FALSE /\ uRunning' = FALSE /\ uGoto(u, "open")
     /\ UNCHANGED <<uAlive, sockFamily, uPeers, uJoinable, uLife, dest, binds>>
  \/ /\ uAt(u, "open")
     /\ uLife' = Nobody /\ uGoto(u, "idle")
     /\ UNCHANGED <<uFlags, uSock, sockFamily, uPeers, uJoinable, dest, binds>>

\* openAndBind() found an address that binds, and start() spawns the receive thread.
openAndBind(u) ==
  /\ uAt(u, "open") /\ binds < MaxBinds
  /\ binds' = binds + 1 /\ uSock' = TRUE
  /\ sockFamily' \in Families /\ updateRemote(host, sockFamily')
  /\ uAlive' = TRUE /\ uRunning' = TRUE /\ uJoinable' = TRUE /\ uLife' = Nobody
  /\ udpPc' = [udpPc EXCEPT ![u] = "idle", ![Worker] = "loop"]
  /\ UNCHANGED <<host, lastPeer, dest>>

\* stop() on a caller's thread: the flag before the mutex, close() after the join.
stop(u) ==
  \/ /\ uAt(u, "idle")
     /\ uRunning' = FALSE /\ uGoto(u, "stop")
     /\ UNCHANGED <<uAlive, uSock, sockFamily, uPeers, uJoinable, uLife, dest, binds>>
  \/ /\ uAt(u, "stop") /\ uLife = Nobody
     /\ uLife' = u /\ uGoto(u, "join")
     /\ UNCHANGED <<uFlags, uSock, sockFamily, uPeers, uJoinable, dest, binds>>
  \/ /\ uAt(u, "join") /\ uJoined(u, "close")
     /\ UNCHANGED <<uFlags, uSock, sockFamily, uPeers, uLife, dest, binds>>
  \/ /\ uAt(u, "close")
     /\ uSock' = FALSE /\ uLife' = Nobody /\ uGoto(u, "idle")
     /\ UNCHANGED <<uFlags, sockFamily, uPeers, uJoinable, dest, binds>>

\* send(): the destination is copied first; without one, or without a socket, it is refused.
send(u) ==
  \/ /\ uAt(u, "idle") /\ {remote, lastPeer} # {NoFamily}
     /\ dest' = [dest EXCEPT ![u] = IF remote # NoFamily THEN remote ELSE lastPeer]
     /\ uGoto(u, "send")
     /\ UNCHANGED <<uFlags, uSock, sockFamily, uPeers, uJoinable, uLife, binds>>
  \/ /\ uAt(u, "send")
     /\ dest' = [dest EXCEPT ![u] = NoFamily] /\ uGoto(u, "idle")
     /\ UNCHANGED <<uFlags, uSock, sockFamily, uPeers, uJoinable, uLife, binds>>

\* recvLoop(): a timeout, a datagram, or a hard error; a handler may call stop().
receive ==
  \/ /\ uAt(Worker, "loop")
     /\ uGoto(Worker, IF isRunning THEN "recv" ELSE "exit")
     /\ UNCHANGED <<uFlags, uSock, sockFamily, uPeers, uJoinable, uLife, dest, binds>>
  \/ /\ uAt(Worker, "recv")
     /\ \/ uGoto(Worker, "loop") /\ UNCHANGED <<uRunning, uAlive, lastPeer>>
        \/ /\ uGoto(Worker, "loop") /\ lastPeer' = sockFamily
           /\ uRunning' \in {uRunning, FALSE} /\ UNCHANGED uAlive
        \/ /\ uGoto(Worker, "exit") /\ uAlive' = FALSE
           /\ uRunning' \in {uRunning, FALSE} /\ UNCHANGED lastPeer
     /\ UNCHANGED <<uSock, sockFamily, host, remote, uJoinable, uLife, dest, binds>>
  \/ /\ uAt(Worker, "exit")
     /\ uAlive' = FALSE /\ uGoto(Worker, "ended")
     /\ UNCHANGED <<uRunning, uSock, sockFamily, uPeers, uJoinable, uLife, dest, binds>>

UdpNext == configure \/ receive
           \/ \E u \in Users : start(u) \/ openAndBind(u) \/ stop(u) \/ send(u)

Proceed(u) == ~uAt(u, "idle") /\ (start(u) \/ stop(u) \/ send(u))

-----------------------------------------------------------------------------

\* The configured destination has the family of the bound socket, whenever remote_host was
\* set; and a socket that calls itself alive is open, with its receive thread on it.
UdpSound ==
  /\ uSock /\ remote # NoFamily => remote = sockFamily
  /\ uAlive => uSock /\ udpPc[Worker] \notin {"none", "ended"}

\* C24: the descriptor is closed when the receive thread cannot be inside recvfrom() with it.
UdpClosedUnused == [][uSock /\ ~uSock' => udpPc[Worker] \in {"none", "ended"}]_udpVars

\* "Upper bound on how long stop() waits for the receive thread to notice it": stop() returns.
UdpStopReturns == \A u \in Users : udpPc[u] \in {"stop", "join"} ~> uAt(u, "idle")
=============================================================================
