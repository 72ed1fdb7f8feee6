----------------------------- MODULE TcpClient -----------------------------
(***************************************************************************)
(* axonvex::interfaces::tcp::TcpClient: threads that start, stop and send, *)
(* the receive thread, and a peer that may close, fail or speak another    *)
(* protocol.  A callback on a caller's thread runs with no lock held, so   *)
(* what it does is a later call of that thread; the callbacks of the       *)
(* receive thread are modelled there.                                      *)
(***************************************************************************)
EXTENDS Naturals

CONSTANTS Callers, MaxConnects, MaxFrames

Worker == "worker"
Nobody == "nobody"

VARIABLES tRunning,    \* running_
          tAlive,      \* connectionAlive_
          tSock,       \* sock_: a connection is open
          shut,        \* the connection was shut down from this side
          cut,         \* a truncated frame went out on it
          garbage,     \* bytes went out behind a truncated frame
          connects,    \* successful connects
          tJoinable,   \* worker_ is joinable
          tLife,       \* owner of lifecycleMutex_
          tWrite,      \* owner of sockMutex_ during a send()
          tcpPc,       \* where each thread is
          frames,      \* complete frames left in the buffer of recvLoop()
          tail,        \* what is behind them: "part" of a frame or "bad" bytes
          tSelfStop    \* a callback of this receive thread called stop()

tFlags  == <<tRunning, tAlive>>
tConn   == <<tSock, shut, cut, garbage, connects>>
tBuffer == <<frames, tail, tSelfStop>>
tcpVars == <<tFlags, tConn, tJoinable, tLife, tWrite, tcpPc, tBuffer>>

TcpInit ==
  /\ tRunning = FALSE /\ tAlive = FALSE
  /\ tSock = FALSE /\ shut = FALSE /\ cut = FALSE /\ garbage = FALSE /\ connects = 0
  /\ tJoinable = FALSE /\ tLife = Nobody /\ tWrite = Nobody
  /\ tcpPc = [t \in Callers \cup {Worker} |-> IF t = Worker THEN "none" ELSE "idle"]
  /\ frames = 0 /\ tail = "part" /\ tSelfStop = FALSE

tAt(t, l)   == tcpPc[t] = l
tGoto(t, l) == tcpPc' = [tcpPc EXCEPT ![t] = l]

isRunning == tRunning /\ tAlive

\* worker_.join(), where it is joinable.
joined(t, next) ==
  /\ tJoinable => tAt(Worker, "ended")
  /\ tJoinable' = FALSE
  /\ tcpPc' = [tcpPc EXCEPT ![t] = next, ![Worker] = "none"]

closeSock == tWrite = Nobody /\ tSock' = FALSE

\* start(): under lifecycleMutex_, reap a dead worker, close, connect, spawn.
start(c) ==
  \/ /\ tAt(c, "idle") /\ tLife = Nobody
     /\ IF isRunning THEN UNCHANGED <<tRunning, tLife, tcpPc>>
        ELSE /\ tLife' = c /\ tGoto(c, "reap")
             /\ tRunning' = (tRunning /\ ~tJoinable)
     /\ UNCHANGED <<tAlive, tConn, tJoinable, tWrite, tBuffer>>
  \/ /\ tAt(c, "reap") /\ joined(c, "reopen")
     /\ UNCHANGED <<tFlags, tConn, tLife, tWrite, tBuffer>>
  \/ /\ tAt(c, "reopen")
     /\ closeSock /\ tRunning' = FALSE /\ tGoto(c, "connect")
     /\ UNCHANGED <<tAlive, shut, cut, garbage, connects, tJoinable, tLife, tWrite, tBuffer>>
  \/ /\ tAt(c, "connect")
     /\ tLife' = Nobody /\ tGoto(c, "idle")
     /\ UNCHANGED <<tFlags, tConn, tJoinable, tWrite, tBuffer>>

\* connectSocket() found an address that accepts, and start() spawns the receive thread.
connectSocket(c) ==
  /\ tAt(c, "connect") /\ connects < MaxConnects /\ tWrite = Nobody
  /\ tSock' = TRUE /\ shut' = FALSE /\ cut' = FALSE /\ connects' = connects + 1
  /\ tAlive' = TRUE /\ tRunning' = TRUE
  /\ tJoinable' = TRUE /\ tLife' = Nobody
  /\ frames' = 0 /\ tail' = "part" /\ tSelfStop' = FALSE
  /\ tcpPc' = [tcpPc EXCEPT ![c] = "idle", ![Worker] = "loop"]
  /\ UNCHANGED <<garbage, tWrite>>

\* stop() on a caller's thread: the flag before the mutex, shutdown() before the join, close()
\* after it.
stop(c) ==
  \/ /\ tAt(c, "idle")
     /\ tRunning' = FALSE /\ tGoto(c, "stop")
     /\ UNCHANGED <<tAlive, tConn, tJoinable, tLife, tWrite, tBuffer>>
  \/ /\ tAt(c, "stop") /\ tLife = Nobody
     /\ tLife' = c /\ shut' = (shut \/ tSock) /\ tGoto(c, "join")
     /\ UNCHANGED <<tFlags, tSock, cut, garbage, connects, tJoinable, tWrite, tBuffer>>
  \/ /\ tAt(c, "join") /\ joined(c, "close")
     /\ UNCHANGED <<tFlags, tConn, tLife, tWrite, tBuffer>>
  \/ /\ tAt(c, "close")
     /\ closeSock /\ tLife' = Nobody /\ tGoto(c, "idle")
     /\ UNCHANGED <<tFlags, shut, cut, garbage, connects, tJoinable, tWrite, tBuffer>>

\* send(): the liveness check, then the whole frame under sockMutex_.
send(t, from) ==
  \/ /\ tAt(t, from)
     /\ IF tAlive THEN tGoto(t, "send") ELSE UNCHANGED tcpPc
     /\ UNCHANGED <<tFlags, tConn, tJoinable, tLife, tWrite, tBuffer>>
  \/ /\ tAt(t, "send") /\ tWrite = Nobody
     /\ IF tSock THEN tWrite' = t /\ tGoto(t, "write") ELSE tGoto(t, from) /\ UNCHANGED tWrite
     /\ UNCHANGED <<tFlags, tConn, tJoinable, tLife, tBuffer>>
  \/ /\ tAt(t, "write") /\ ~shut
     /\ garbage' = (garbage \/ cut)
     /\ tWrite' = Nobody /\ tGoto(t, from)
     /\ UNCHANGED <<tFlags, tSock, shut, cut, connects, tJoinable, tLife, tBuffer>>

\* Fault: the flag alone, which a sender behind the check does not look at again.
poisonFlagOnly(t, from) ==
  /\ tAt(t, "write")
  /\ tAlive' = FALSE /\ cut' = TRUE /\ garbage' = (garbage \/ (cut /\ ~shut))
  /\ tWrite' = Nobody /\ tGoto(t, from)
  /\ UNCHANGED <<tRunning, tSock, shut, connects, tJoinable, tLife, tBuffer>>

\* A write that failed, after some bytes or after none: poisonConnectionLocked().
poison(t, from) ==
  /\ tAt(t, "write")
  /\ tAlive' = FALSE /\ shut' = TRUE
  /\ cut' = (cut \/ ~shut) /\ garbage' = (garbage \/ (cut /\ ~shut))
  /\ tWrite' = Nobody /\ tGoto(t, from)
  /\ UNCHANGED <<tRunning, tSock, connects, tJoinable, tLife, tBuffer>>

\* recvLoop(): the flags, then recv() with its timeout.
receive ==
  \/ /\ tAt(Worker, "loop")
     /\ tGoto(Worker, IF isRunning THEN "recv" ELSE "exit")
     /\ UNCHANGED <<tFlags, tConn, tJoinable, tLife, tWrite, tBuffer>>
  \/ /\ tAt(Worker, "recv")
     /\ \/ ~shut /\ tGoto(Worker, "loop") /\ UNCHANGED <<frames, tail>>
        \/ tGoto(Worker, "dead") /\ UNCHANGED <<frames, tail>>
        \/ /\ ~shut /\ frames' \in 0..MaxFrames /\ tail' \in {"part", "bad"}
           /\ tGoto(Worker, "batch")
     /\ UNCHANGED <<tFlags, tConn, tJoinable, tLife, tWrite, tSelfStop>>

\* Fault: the batch is finished whatever happened meanwhile.
drainBatch ==
  \/ /\ tAt(Worker, "batch") /\ frames > 0
     /\ frames' = frames - 1 /\ tGoto(Worker, "call")
     /\ UNCHANGED <<tFlags, tConn, tJoinable, tLife, tWrite, tail, tSelfStop>>
  \/ /\ tAt(Worker, "batch") /\ frames = 0
     /\ tGoto(Worker, "loop") /\ UNCHANGED <<tFlags, tConn, tJoinable, tLife, tWrite, tBuffer>>

\* The inner loop: the flags are read again before every frame.
batch ==
  \/ /\ tAt(Worker, "batch") /\ isRunning /\ frames > 0
     /\ frames' = frames - 1 /\ tGoto(Worker, "call")
     /\ UNCHANGED <<tFlags, tConn, tJoinable, tLife, tWrite, tail, tSelfStop>>
  \/ /\ tAt(Worker, "batch") /\ (~isRunning \/ (frames = 0 /\ tail = "part"))
     /\ tGoto(Worker, "loop") /\ UNCHANGED <<tFlags, tConn, tJoinable, tLife, tWrite, tBuffer>>
  \/ /\ tAt(Worker, "batch") /\ isRunning /\ frames = 0 /\ tail = "bad"
     /\ tAlive' = FALSE /\ tGoto(Worker, "report")
     /\ UNCHANGED <<tRunning, tConn, tJoinable, tLife, tWrite, tBuffer>>

\* The end of the stream, or an error: reported unless this side began the teardown.
closedByPeer ==
  /\ tAt(Worker, "dead")
  /\ tAlive' = FALSE /\ tGoto(Worker, IF isRunning THEN "report" ELSE "exit")
  /\ UNCHANGED <<tRunning, tConn, tJoinable, tLife, tWrite, tBuffer>>

\* A handler returns, or calls stop(), which does not join on this thread.
callback ==
  /\ \/ tAt(Worker, "call") /\ tGoto(Worker, "batch")
     \/ tAt(Worker, "report") /\ tGoto(Worker, "exit")
  /\ \/ UNCHANGED <<tRunning, tSelfStop>>
     \/ tRunning' = FALSE /\ tSelfStop' = TRUE
  /\ UNCHANGED <<tAlive, tConn, tJoinable, tLife, tWrite, frames, tail>>

leave ==
  /\ tAt(Worker, "exit")
  /\ tAlive' = FALSE /\ tGoto(Worker, "ended")
  /\ UNCHANGED <<tRunning, tConn, tJoinable, tLife, tWrite, tBuffer>>

ReceiveThread == receive \/ batch \/ closedByPeer \/ callback \/ leave

\* A send() that began ends: the peer reads, or the connection breaks.
Writing(t, from) == (tcpPc[t] \in {"send", "write"} /\ send(t, from)) \/ poison(t, from)

TcpNext ==
  \/ \E c \in Callers : start(c) \/ connectSocket(c) \/ stop(c) \/ send(c, "idle") \/ poison(c, "idle")
  \/ ReceiveThread \/ send(Worker, "call") \/ poison(Worker, "call")

Going(c) == ~tAt(c, "idle") /\ (start(c) \/ stop(c))

-----------------------------------------------------------------------------

\* 2b: no byte follows a truncated frame on the wire, although send() checks the connection
\* before it takes the mutex.
NothingBehindCut == ~garbage

\* 2a: a client that calls itself alive has an open socket and a receive thread on it.
NotHalfOpen == tAlive => tSock /\ tcpPc[Worker] \notin {"none", "ended"}

\* stop() means stop: after a callback called it, this receive thread delivers nothing more.
StopMeansStop == [][tAt(Worker, "batch") /\ tcpPc'[Worker] = "call" => ~tSelfStop]_tcpVars

\* C24: the descriptor is closed when no thread can be inside recv() or send() with it.
ClosedUnused ==
  [][tSock /\ ~tSock' => tWrite = Nobody /\ tcpPc[Worker] \in {"none", "ended"}]_tcpVars

\* start() and stop() return.
TcpCallsReturn == \A c \in Callers : tcpPc[c] \in {"reap", "stop", "join"} ~> tAt(c, "idle")
=============================================================================
