------------------------------ MODULE TraceReplay ------------------------------
(***************************************************************************)
(* axonvex::core::replay: a recorder of system events, which are stamped   *)
(* where they arise and recorded in the order their callbacks run, the     *)
(* file it saves, and the replayer that loads it.                          *)
(***************************************************************************)
EXTENDS Integers, Sequences

CONSTANTS Stamps,       \* times of events
          MaxEntries

NoTime == -1
NoFile == <<<<NoTime>>>>    \* nothing that parses as a trace

VARIABLES entries_, nextSeq_, t0_,
          traceFile,    \* the file
          replayed,     \* entries_ of the replayer
          loadOk        \* what loadFromFile() said last

traceVars == <<entries_, nextSeq_, t0_, traceFile, replayed, loadOk>>

TraceInit ==
  /\ entries_ = <<>> /\ nextSeq_ = 0 /\ t0_ = NoTime
  /\ traceFile = NoFile /\ replayed = <<>> /\ loadOk = FALSE

\* record(): numbered as it comes, and timed from the first.
record(stamp) ==
  /\ Len(entries_) < MaxEntries
  /\ t0_' = IF t0_ = NoTime THEN stamp ELSE t0_
  /\ entries_' = Append(entries_, <<nextSeq_, stamp - t0_'>>)
  /\ nextSeq_' = nextSeq_ + 1
  /\ UNCHANGED <<traceFile, replayed, loadOk>>

\* Fault: the next trace is timed from the first event of the last one.
clearKeepsTime ==
  /\ entries_' = <<>> /\ nextSeq_' = 0
  /\ UNCHANGED <<t0_, traceFile, replayed, loadOk>>

clear ==
  /\ entries_' = <<>> /\ nextSeq_' = 0 /\ t0_' = NoTime
  /\ UNCHANGED <<traceFile, replayed, loadOk>>

\* saveToFile(): the file cannot be opened, is written in part, or whole.
saveToFile ==
  /\ traceFile' \in {traceFile, NoFile, entries_}
  /\ UNCHANGED <<entries_, nextSeq_, t0_, replayed, loadOk>>

\* loadFromFile(): nothing stays of the trace before.
loadFromFile ==
  /\ loadOk' = (traceFile # NoFile)
  /\ replayed' = IF loadOk' THEN traceFile ELSE <<>>
  /\ UNCHANGED <<entries_, nextSeq_, t0_, traceFile>>

sequencesMatch == entries_ = replayed

TraceNext == (\E s \in Stamps : record(s)) \/ clear \/ saveToFile \/ loadFromFile

-----------------------------------------------------------------------------

gapless(trace) ==
  /\ \A i \in DOMAIN trace : trace[i][1] = i - 1
  /\ trace # <<>> => trace[1][2] = 0

\* "replays entries in order": what is recorded, and what is replayed, is numbered without a
\* gap and timed from its first event, over every clear, save and load, in whatever order; what
\* was not loaded is not replayed.
TraceIsGapless ==
  /\ gapless(entries_) /\ gapless(replayed)
  /\ ~loadOk => replayed = <<>>
  /\ loadOk /\ sequencesMatch => Len(replayed) = nextSeq_
=============================================================================
