---------------------------- MODULE TelemetryBus ----------------------------
(***************************************************************************)
(* axonvex::visualization::TelemetryBus: publishers, the egress thread     *)
(* that numbers and delivers frames, and threads that start and stop it.   *)
(* The queue is seen through its promise.  A frame is its channel, its     *)
(* place among the accepted frames of that channel, and whether it was     *)
(* accepted after running_ was lowered.                                    *)
(***************************************************************************)
EXTENDS Naturals, Sequences

CONSTANTS Channels, Publishers, Operators,
          QueueRoom,    \* capacity of the queue
          MaxFrames,    \* bound on the frames accepted per channel
          MaxStarts

Egress  == "egress"
Nobody  == "nobody"
NoFrame == [channel |-> Nobody, n |-> 0, late |-> FALSE]

VARIABLES bRunning,   \* running_
          bJoinable,  \* worker_ is joinable
          bLife,      \* owner of lifecycleMutex_
          busPc,      \* where each thread is
          queue,      \* queue_
          egress,     \* the frame the egress thread delivers
          nextSeq,    \* nextSeq_
          accepted,   \* how many frames of a channel publish() accepted
          starts

busVars == <<bRunning, bJoinable, bLife, busPc, queue, egress, nextSeq, accepted, starts>>
bLifeVars  == <<bRunning, bJoinable, bLife, starts>>
bFrameVars == <<queue, egress, nextSeq, accepted>>

BusInit ==
  /\ bRunning = FALSE /\ bJoinable = FALSE /\ bLife = Nobody /\ starts = 0
  /\ busPc = [t \in Publishers \cup Operators \cup {Egress} |-> IF t = Egress THEN "none" ELSE "idle"]
  /\ queue = << >> /\ egress = NoFrame
  /\ nextSeq = [c \in Channels |-> 0] /\ accepted = [c \in Channels |-> 0]

bAt(t, l)   == busPc[t] = l
bGoto(t, l) == busPc' = [busPc EXCEPT ![t] = l]

\* publish(): the flag is read before the frame is enqueued; a full queue drops it.
publish(p) ==
  \/ /\ bAt(p, "idle") /\ bRunning
     /\ bGoto(p, "publish") /\ UNCHANGED <<bLifeVars, bFrameVars>>
  \/ /\ bAt(p, "publish")
     /\ \E c \in Channels :
          IF Len(queue) < QueueRoom /\ accepted[c] < MaxFrames
          THEN /\ queue' = Append(queue, [channel |-> c, n |-> accepted[c], late |-> ~bRunning])
               /\ accepted' = [accepted EXCEPT ![c] = @ + 1]
          ELSE UNCHANGED <<queue, accepted>>
     /\ bGoto(p, "idle") /\ UNCHANGED <<bLifeVars, egress, nextSeq>>

\* start(): a worker that stopped itself is joined before the flag is raised.
start(o) ==
  \/ /\ bAt(o, "idle") /\ bLife = Nobody /\ ~bRunning /\ starts < MaxStarts
     /\ bLife' = o /\ bGoto(o, "join")
     /\ UNCHANGED <<bRunning, bJoinable, starts, bFrameVars>>
  \/ /\ bAt(o, "join") /\ (bJoinable => bAt(Egress, "ended"))
     /\ bRunning' = TRUE /\ bJoinable' = TRUE /\ bLife' = Nobody /\ starts' = starts + 1
     /\ busPc' = [busPc EXCEPT ![o] = "idle", ![Egress] = "check"]
     /\ UNCHANGED bFrameVars

\* stop(), except on the egress thread: the flag before the mutex, then the join.
stop(o) ==
  \/ /\ bAt(o, "idle")
     /\ bRunning' = FALSE /\ bGoto(o, "stop")
     /\ UNCHANGED <<bJoinable, bLife, starts, bFrameVars>>
  \/ /\ bAt(o, "stop") /\ bLife = Nobody
     /\ bLife' = o /\ bGoto(o, "reclaim")
     /\ UNCHANGED <<bRunning, bJoinable, starts, bFrameVars>>
  \/ /\ bAt(o, "reclaim") /\ (bJoinable => bAt(Egress, "ended"))
     /\ bJoinable' = FALSE /\ bLife' = Nobody
     /\ busPc' = [busPc EXCEPT ![o] = "idle", ![Egress] = "none"]
     /\ UNCHANGED <<bRunning, starts, bFrameVars>>

\* Fault: the worker leaves as soon as the flag is lowered.
runNoDrain ==
  \/ /\ bAt(Egress, "check")
     /\ bGoto(Egress, IF bRunning THEN "take" ELSE "ended")
     /\ UNCHANGED <<bLifeVars, bFrameVars>>
  \/ /\ bAt(Egress, "take")
     /\ IF queue = << >> THEN bGoto(Egress, "check") /\ UNCHANGED <<queue, egress>>
        ELSE egress' = Head(queue) /\ queue' = Tail(queue) /\ bGoto(Egress, "deliver")
     /\ UNCHANGED <<bLifeVars, nextSeq, accepted>>

\* run(): while the flag is up, and then until the queue is empty.
run ==
  \/ /\ bAt(Egress, "check")
     /\ bGoto(Egress, IF bRunning THEN "take" ELSE "drain")
     /\ UNCHANGED <<bLifeVars, bFrameVars>>
  \/ /\ busPc[Egress] \in {"take", "drain"} /\ queue = << >>
     /\ bGoto(Egress, IF bAt(Egress, "take") THEN "check" ELSE "ended")
     /\ UNCHANGED <<bLifeVars, bFrameVars>>
  \/ /\ busPc[Egress] \in {"take", "drain"} /\ queue # << >>
     /\ egress' = Head(queue) /\ queue' = Tail(queue)
     /\ bGoto(Egress, IF bAt(Egress, "take") THEN "deliver" ELSE "flush")
     /\ UNCHANGED <<bLifeVars, nextSeq, accepted>>

\* dispatch(): the frame gets the next number of its channel and goes to the subscribers, who
\* may call stop(): on this thread it only lowers the flag.
dispatch ==
  /\ busPc[Egress] \in {"deliver", "flush"}
  /\ nextSeq' = [nextSeq EXCEPT ![egress.channel] = @ + 1]
  /\ egress' = NoFrame
  /\ bRunning' \in {bRunning, FALSE}
  /\ bGoto(Egress, IF bAt(Egress, "deliver") THEN "check" ELSE "drain")
  /\ UNCHANGED <<bJoinable, bLife, starts, queue, accepted>>

BusNext ==
  \/ \E p \in Publishers : publish(p)
  \/ \E o \in Operators : start(o) \/ stop(o)
  \/ run \/ dispatch

-----------------------------------------------------------------------------

InFlight == IF egress = NoFrame THEN queue ELSE <<egress>> \o queue

Of(c)    == {i \in DOMAIN InFlight : InFlight[i].channel = c}

\* Frames of a channel are numbered without a gap in the order publish() accepted them: what
\* is on its way continues the numbers given so far, over every stop and restart.
GaplessNumbers ==
  \A c \in Channels :
    /\ nextSeq[c] <= accepted[c]
    /\ {InFlight[i].n : i \in Of(c)} = nextSeq[c]..accepted[c]-1
    /\ \A i, j \in Of(c) : i < j => InFlight[i].n < InFlight[j].n

\* stop() drains: a worker that ended left no frame behind that was accepted while the bus
\* ran; only a publish() that read the flag before it was lowered can leave one.
Drained == busPc[Egress] \in {"none", "ended"} => \A i \in DOMAIN queue : queue[i].late
=============================================================================
