---------------------------- MODULE PrecisionTimer ----------------------------
(***************************************************************************)
(* axonvex::core::PrecisionTimer: start, stop and lap of several threads   *)
(* on one timer, and the ring of samples its statistics are made of.       *)
(***************************************************************************)
EXTENDS Integers, Sequences, SequencesExt, FiniteSets

CONSTANTS TimerThreads,
          max_samples_,
          MaxNow          \* the clock stops there

VARIABLES now,            \* steady_clock
          start_time_, timerRunning,
          measured,       \* total_measurements_ # 0
          last_measurement_,
          samples_, sampleHead_,
          timing,         \* where each thread is in its call
          stamp,          \* the time it took, then the elapsed time
          recent          \* what was measured since the samples were cleared, the newest

clockVars == <<now, start_time_, timerRunning, measured, last_measurement_>>
ringVars  == <<samples_, sampleHead_, recent>>
timerVars == <<clockVars, ringVars, timing, stamp>>

TimerInit ==
  /\ now = 0 /\ start_time_ = 0 /\ timerRunning = FALSE
  /\ measured = FALSE /\ last_measurement_ = 0
  /\ samples_ = <<>> /\ sampleHead_ = 0 /\ recent = <<>>
  /\ timing = [t \in TimerThreads |-> "idle"] /\ stamp = [t \in TimerThreads |-> 0]

timerAt(t, from, to) == timing[t] = from /\ timing' = [timing EXCEPT ![t] = to]

tickClock ==
  /\ now < MaxNow /\ now' = now + 1
  /\ UNCHANGED <<start_time_, timerRunning, measured, last_measurement_, ringVars, timing, stamp>>

\* start(), stop() and lap() read the clock first; lap() of a timer that stands returns.
takeTime(t) ==
  /\ \/ timerAt(t, "idle", "start") \/ timerAt(t, "idle", "stop")
     \/ timerRunning /\ timerAt(t, "idle", "lap")
  /\ stamp' = [stamp EXCEPT ![t] = now]
  /\ UNCHANGED <<clockVars, ringVars>>

startTimer(t) ==
  /\ \/ timerAt(t, "start", "raise") /\ start_time_' = stamp[t] /\ UNCHANGED timerRunning
     \/ timerAt(t, "raise", "idle") /\ timerRunning' = TRUE /\ UNCHANGED start_time_
  /\ UNCHANGED <<now, measured, last_measurement_, ringVars, stamp>>

\* stop(): whoever lowers the flag measures.
stopTimer(t) ==
  /\ IF timerRunning THEN timerAt(t, "stop", "measure") ELSE timerAt(t, "stop", "idle")
  /\ timerRunning' = FALSE
  /\ UNCHANGED <<now, start_time_, measured, last_measurement_, ringVars, stamp>>

\* The elapsed time; a lap begins the next one.
measure(t) ==
  /\ \/ timerAt(t, "measure", "sample") /\ UNCHANGED start_time_
     \/ timerAt(t, "lap", "sample") /\ start_time_' = stamp[t]
  /\ stamp' = [stamp EXCEPT ![t] = @ - start_time_]
  /\ last_measurement_' = stamp'[t] /\ measured' = TRUE
  /\ UNCHANGED <<now, timerRunning, ringVars>>

newest(s) == IF Len(s) > max_samples_ THEN Tail(s) ELSE s

\* addSample(), under samples_mutex_, unless the statistics are off.
addSample(t) ==
  /\ timerAt(t, "sample", "idle")
  /\ IF Len(samples_) < max_samples_
     THEN samples_' = Append(samples_, stamp[t]) /\ UNCHANGED sampleHead_
     ELSE /\ samples_' = [samples_ EXCEPT ![sampleHead_ + 1] = stamp[t]]
          /\ sampleHead_' = (sampleHead_ + 1) % max_samples_
  /\ recent' = newest(Append(recent, stamp[t]))
  /\ UNCHANGED <<clockVars, stamp>>

skipSample(t) == timerAt(t, "sample", "idle") /\ UNCHANGED <<clockVars, ringVars, stamp>>

\* Fault: the head of the ring stays where it was.
emptyRingOnly == samples_' = <<>> /\ recent' = <<>> /\ UNCHANGED sampleHead_

emptyRing == samples_' = <<>> /\ sampleHead_' = 0 /\ recent' = <<>>

clearSamples(t) == timerAt(t, "idle", "idle") /\ emptyRing /\ UNCHANGED <<clockVars, stamp>>

resetTimer(t) ==
  \/ /\ timerAt(t, "idle", "clear")
     /\ timerRunning' = FALSE /\ measured' = FALSE /\ last_measurement_' = 0
     /\ UNCHANGED <<now, start_time_, ringVars, stamp>>
  \/ timerAt(t, "clear", "idle") /\ emptyRing /\ UNCHANGED <<clockVars, stamp>>

TimerNext ==
  \/ tickClock
  \/ \E t \in TimerThreads :
       \/ takeTime(t) \/ startTimer(t) \/ stopTimer(t) \/ measure(t)
       \/ addSample(t) \/ skipSample(t) \/ clearSamples(t) \/ resetTimer(t)

-----------------------------------------------------------------------------
(* What readers compute of the samples.                                    *)

sorted == SortSeq(samples_, <)

\* calculatePercentileImpl() of k quarters: linear between the two nearest samples.
calculatePercentile(k) ==
  LET index == k * (Len(sorted) - 1)
      lower == index \div 4 + 1
  IN  IF lower + 1 > Len(sorted) THEN Last(sorted)
      ELSE sorted[lower] + ((index % 4) * (sorted[lower + 1] - sorted[lower])) \div 4

\* getStatistics(), but for the mean.
getStatistics == [min |-> Head(sorted), max |-> Last(sorted), median |-> calculatePercentile(2)]

\* getElapsedNanoseconds(): of a timer that runs, or the last measurement, or nothing.
getElapsedNanoseconds ==
  IF timerRunning THEN now - start_time_ ELSE IF measured THEN last_measurement_ ELSE 0

\* addSample(), clearSamples(), reset(): what is kept are the newest measurements since the
\* samples were cleared, whoever measured and cleared in between; percentiles lie in order
\* between the least and the greatest of them, and no time is longer than the clock has run.
SamplesAreRecent ==
  /\ SortSeq(recent, <) = sorted
  /\ samples_ # <<>> =>
       /\ calculatePercentile(0) = getStatistics.min /\ calculatePercentile(4) = getStatistics.max
       /\ Cardinality({i \in DOMAIN sorted : sorted[i] < getStatistics.median}) <= Len(sorted) \div 2
       /\ \A k \in 0..3 : calculatePercentile(k) <= calculatePercentile(k + 1)
  /\ getElapsedNanoseconds <= now
=============================================================================
