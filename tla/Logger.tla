-------------------------------- MODULE Logger --------------------------------
(***************************************************************************)
(* axonvex::core::Logger with a FileOutput: threads log while an operator  *)
(* starts and stops the worker that writes, and somebody rotates the file. *)
(***************************************************************************)
EXTENDS Naturals, Sequences, SequencesExt

CONSTANTS LogThreads, queue_size_, pool_size_, MaxMessages, MaxStarts, MaxRotations

NoLog == <<>>

VARIABLES running_, shutdown_requested_,
          worker,       \* where the worker is: "none", "loop", "drain", "done"
          inHand,       \* the message it took from the queue
          operator,     \* where start() or stop() is
          message_queue_,
          allocated,    \* objects taken from message_pool_
          logging,      \* the message a thread is logging: <<thread, number>>
          sent,         \* messages each thread began to log
          accepted,     \* messages whose log() returned and was not refused
          dueNow,       \* those accepted when stop() was called
          delivered,    \* messages the output was given, first to last
          file, oldFile, \* what lies in the file and in its predecessor
          current_size_,
          logStarts, rotations

loggerVars == <<running_, shutdown_requested_, worker, inHand, operator, message_queue_, allocated,
                logging, sent, accepted, dueNow, delivered, file, oldFile, current_size_, logStarts,
                rotations>>
fileVars   == <<delivered, file, oldFile, current_size_, rotations>>
lifeVars   == <<running_, shutdown_requested_, operator, dueNow, logStarts>>
threadVars == <<logging, sent, accepted>>

LoggerInit ==
  /\ running_ = FALSE /\ shutdown_requested_ = FALSE
  /\ worker = "none" /\ inHand = NoLog /\ operator = "idle"
  /\ message_queue_ = <<>> /\ allocated = 0
  /\ logging = [t \in LogThreads |-> NoLog] /\ sent = [t \in LogThreads |-> 0]
  /\ accepted = {} /\ dueNow = {}
  /\ delivered = <<>> /\ file = <<>> /\ oldFile = <<>> /\ current_size_ = 0
  /\ logStarts = 0 /\ rotations = 0

-----------------------------------------------------------------------------
(* The life cycle; one thread operates it.                                 *)

start ==
  /\ operator = "idle" /\ ~running_ /\ logStarts < MaxStarts /\ logStarts' = logStarts + 1
  /\ running_' = TRUE /\ shutdown_requested_' = FALSE /\ worker' = "loop"
  /\ UNCHANGED <<inHand, operator, message_queue_, allocated, threadVars, dueNow, fileVars>>

\* stop() raises the request and joins;
stop ==
  /\ operator = "idle" /\ running_
  /\ shutdown_requested_' = TRUE /\ operator' = "join" /\ dueNow' = accepted
  /\ UNCHANGED <<running_, worker, inHand, message_queue_, allocated, threadVars, fileVars, logStarts>>

joinWorker ==
  /\ operator = "join" /\ worker = "done"
  /\ operator' = "idle" /\ worker' = "none" /\ running_' = FALSE
  /\ UNCHANGED <<shutdown_requested_, inHand, message_queue_, allocated, threadVars, dueNow,
                 fileVars, logStarts>>

-----------------------------------------------------------------------------
(* log(), on any thread, whether the worker runs or not.                   *)

\* A message above the level, if the pool has an object; it is dropped otherwise.
allocateMessage(t) ==
  /\ logging[t] = NoLog /\ sent[t] < MaxMessages /\ sent' = [sent EXCEPT ![t] = @ + 1]
  /\ IF allocated < pool_size_
     THEN allocated' = allocated + 1 /\ logging' = [logging EXCEPT ![t] = <<t, sent'[t]>>]
     ELSE UNCHANGED <<allocated, logging>>
  /\ UNCHANGED <<worker, inHand, message_queue_, accepted, lifeVars, fileVars>>

\* enqueue(); a full queue gives the object back, and the message is dropped.
enqueueMessage(t) ==
  /\ logging[t] # NoLog /\ logging' = [logging EXCEPT ![t] = NoLog]
  /\ IF Len(message_queue_) < queue_size_
     THEN /\ message_queue_' = Append(message_queue_, logging[t])
          /\ accepted' = accepted \cup {logging[t]} /\ UNCHANGED allocated
     ELSE /\ allocated' = allocated - 1 /\ UNCHANGED <<message_queue_, accepted>>
  /\ UNCHANGED <<worker, inHand, sent, lifeVars, fileVars>>

-----------------------------------------------------------------------------
(* processingLoop().                                                       *)

take(at) ==
  /\ worker = at /\ inHand = NoLog /\ message_queue_ # <<>>
  /\ inHand' = Head(message_queue_) /\ message_queue_' = Tail(message_queue_)

tryDequeue ==
  /\ take("loop") /\ ~shutdown_requested_
  /\ UNCHANGED <<worker, allocated, threadVars, lifeVars, fileVars>>

leaveLoop ==
  /\ worker = "loop" /\ inHand = NoLog /\ shutdown_requested_
  /\ worker' = "drain"
  /\ UNCHANGED <<inHand, message_queue_, allocated, threadVars, lifeVars, fileVars>>

\* Fault: the request to shut down ends the worker at once.
drainNothing ==
  /\ worker = "drain" /\ worker' = "done"
  /\ UNCHANGED <<inHand, message_queue_, allocated, threadVars, lifeVars, fileVars>>

\* What remains is processed before the worker ends.
drain ==
  /\ \/ take("drain") /\ UNCHANGED worker
     \/ /\ worker = "drain" /\ inHand = NoLog /\ message_queue_ = <<>>
        /\ worker' = "done" /\ UNCHANGED <<inHand, message_queue_>>
  /\ UNCHANGED <<allocated, threadVars, lifeVars, fileVars>>

\* FileOutput::write(), which may fail.
fileWrite(m) ==
  \/ file' = Append(file, m) /\ current_size_' = current_size_ + 1
  \/ UNCHANGED <<file, current_size_>>

\* processMessage(), and deallocateMessage().
processMessage ==
  /\ inHand # NoLog /\ inHand' = NoLog /\ allocated' = allocated - 1
  /\ delivered' = Append(delivered, inHand)
  /\ fileWrite(inHand)
  /\ UNCHANGED <<worker, message_queue_, threadVars, lifeVars, oldFile, rotations>>

\* rotate(), by anybody, under the mutex of the file: the old one is replaced.
rotate ==
  /\ rotations < MaxRotations /\ rotations' = rotations + 1
  /\ current_size_ > 0 /\ oldFile' = file /\ file' = <<>> /\ current_size_' = 0
  /\ UNCHANGED <<worker, inHand, message_queue_, allocated, threadVars, lifeVars, delivered>>

LoggerNext ==
  \/ start \/ stop \/ joinWorker \/ rotate
  \/ tryDequeue \/ leaveLoop \/ drain \/ processMessage
  \/ \E t \in LogThreads : allocateMessage(t) \/ enqueueMessage(t)

-----------------------------------------------------------------------------

\* "Process remaining messages before shutdown": what was logged before stop() was called has
\* reached the outputs when stop() returns, once, and in the order in which a thread logged it.
StopWritesAll ==
  /\ operator = "idle" /\ worker = "none" => dueNow \subseteq ToSet(delivered)
  /\ \A i, j \in DOMAIN delivered : i < j /\ delivered[i][1] = delivered[j][1] => delivered[i][2] < delivered[j][2]

\* No object of the pool is lost or given back twice, whatever was dropped; the file's size is
\* known, and rotation keeps the messages in order.
LogObjectsAccount ==
  /\ allocated = Len(message_queue_) + (IF inHand = NoLog THEN 0 ELSE 1)
                 + Len(SelectSeq(SetToSeq(LogThreads), LAMBDA t : logging[t] # NoLog))
  /\ allocated <= pool_size_
  /\ current_size_ = Len(file)
=============================================================================
