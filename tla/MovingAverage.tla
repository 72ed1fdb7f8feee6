----------------------------- MODULE MovingAverage -----------------------------
(***************************************************************************)
(* axonvex::core::builtin: MovingAverage on the values its input port      *)
(* holds, and StatsSink behind it, ticked by the scheduler and reset in    *)
(* between.  Values are IEEE numbers: an infinity passes the ports, a NaN  *)
(* does not.                                                               *)
(***************************************************************************)
EXTENDS Integers, Sequences, FiniteSetsExt

CONSTANTS Finite,    \* finite values of samples
          window_,
          MaxCount   \* samples the sink counts

Inf == 1000
NaN == 2000

VARIABLES ring, head_, filled_, runningSum_,
          output,          \* the last mean that passed the output port: sum and number
          count_, sum_,    \* of the sink
          seen,            \* the last samples since the average was reset
          poisoned,        \* an infinity was among them and left the window
          sinkSeen         \* the means the sink read since it was reset

averageVars == <<ring, head_, filled_, runningSum_, output, seen, poisoned>>
sinkVars == <<count_, sum_, sinkSeen>>
builtinVars == <<averageVars, sinkVars>>

NoMean == <<0, 1>>   \* what a port holds before anything was written

cleared ==
  /\ ring' = [i \in 0..window_ - 1 |-> 0] /\ head_' = 0 /\ filled_' = 0 /\ runningSum_' = 0
  /\ seen' = <<>> /\ poisoned' = FALSE

BuiltinInit ==
  /\ ring = [i \in 0..window_ - 1 |-> 0] /\ head_ = 0 /\ filled_ = 0 /\ runningSum_ = 0
  /\ output = NoMean /\ count_ = 0 /\ sum_ = 0
  /\ seen = <<>> /\ poisoned = FALSE /\ sinkSeen = <<>>

\* The sum of IEEE numbers of one sign, and the sum without one of them.
plus(a, b) == IF NaN \in {a, b} THEN NaN ELSE IF Inf \in {a, b} THEN Inf ELSE a + b
without(sum, out) ==
  IF sum = NaN \/ out = Inf THEN NaN ELSE IF sum = Inf THEN Inf ELSE sum - out

\* processSync() of the average: a ring of window_ samples and their running sum; a mean that
\* is NaN does not pass the port.
processSync(value) ==
  /\ runningSum_' = IF filled_ < window_ THEN plus(runningSum_, value)
                    ELSE without(plus(runningSum_, value), ring[head_])
  /\ filled_' = IF filled_ < window_ THEN filled_ + 1 ELSE filled_
  /\ ring' = [ring EXCEPT ![head_] = value]
  /\ head_' = (head_ + 1) % window_
  /\ output' = IF runningSum_' = NaN THEN output ELSE <<runningSum_', filled_'>>
  /\ seen' = IF Len(seen) < window_ THEN Append(seen, value) ELSE Append(Tail(seen), value)
  /\ poisoned' = (poisoned \/ (Len(seen) = window_ /\ Head(seen) = Inf))
  /\ UNCHANGED sinkVars

\* Fault: the sum goes on from what it was.
resetRingOnly ==
  /\ ring' = [i \in 0..window_ - 1 |-> 0] /\ head_' = 0 /\ filled_' = 0
  /\ seen' = <<>> /\ poisoned' = FALSE
  /\ UNCHANGED <<output, runningSum_, sinkVars>>

resetAverage == cleared /\ UNCHANGED <<output, sinkVars>>

\* processSync() of the sink: the mean the port holds, read before or not (told by its sum).
sinkSync ==
  /\ count_ < MaxCount /\ count_' = count_ + 1
  /\ sum_' = plus(sum_, output[1]) /\ sinkSeen' = Append(sinkSeen, output[1])
  /\ UNCHANGED averageVars

resetSink == count_' = 0 /\ sum_' = 0 /\ sinkSeen' = <<>> /\ UNCHANGED averageVars

BuiltinNext ==
  \/ \E v \in Finite \cup {Inf} : processSync(v)
  \/ resetAverage \/ sinkSync \/ resetSink

-----------------------------------------------------------------------------

total(s) == IF Inf \in {s[i] : i \in DOMAIN s} THEN Inf
            ELSE FoldSet(LAMBDA i, sum : sum + s[i], 0, DOMAIN s)

\* MovingAverage: the running sum is that of the last window_ samples since the reset, and
\* stays a NaN from the moment an infinity has left the window; the sink counts what it added.
AverageIsOfWindow ==
  /\ filled_ = Len(seen)
  /\ runningSum_ = IF poisoned THEN NaN ELSE total(seen)
  /\ count_ = Len(sinkSeen) /\ sum_ = total(sinkSeen)
=============================================================================
