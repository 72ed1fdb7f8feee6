---------------------------- MODULE ProcessingUnit ----------------------------
(***************************************************************************)
(* axonvex::core::ProcessingUnit: what the scheduler does around the       *)
(* process functions of a unit, and the two control ports that any thread  *)
(* writes.  A unit that derives from it, here MissionPipeline, says what   *)
(* reset(), processAsync() and processSync() do.                           *)
(***************************************************************************)
EXTENDS Integers

CONSTANT Factor   \* downSamplingFactor_, fixed before the unit runs

NoMsg == -1

VARIABLES unitState,      \* state_
          isDisabled,     \* isDisabled_
          resetPort,      \* the message that waits in the reset port, or none
          disablePort,    \* the same for the disable port
          sampleCounter,  \* intraSampleCounter_
          tickPc          \* where the scheduler is in the tick of this unit

unitPorts == <<resetPort, disablePort>>
unitVars  == <<unitState, isDisabled, unitPorts, sampleCounter, tickPc>>

UnitInit ==
  /\ unitState = "INITIALIZED" /\ isDisabled = FALSE
  /\ resetPort = NoMsg /\ disablePort = NoMsg
  /\ sampleCounter = 0 /\ tickPc = "idle"

tick(from, to) == tickPc = from /\ tickPc' = to

\* Any thread: a message to a control port, or setDisabled() directly.
writeControl ==
  /\ \/ resetPort' \in {0, 1} /\ UNCHANGED disablePort
     \/ disablePort' \in {0, 1} /\ UNCHANGED resetPort
  /\ UNCHANGED <<unitState, isDisabled, sampleCounter, tickPc>>

setDisabled(d) ==
  /\ isDisabled' = d
  /\ unitState' = IF d THEN "DISABLED" ELSE "RUNNING"

callSetDisabled ==
  /\ \E d \in BOOLEAN : setDisabled(d)
  /\ UNCHANGED <<unitPorts, sampleCounter, tickPc>>

\* processAsyncBase(): the reset port first.  resetBlock() resets every port, the disable
\* port with what waits in it included.
ignoreReset ==
  /\ tick("idle", "disable") /\ resetPort # 1
  /\ resetPort' = NoMsg
  /\ UNCHANGED <<unitState, isDisabled, disablePort, sampleCounter>>

resetBlock ==
  /\ tick("idle", "disable") /\ resetPort = 1
  /\ resetPort' = NoMsg /\ disablePort' = NoMsg
  /\ sampleCounter' = 0 /\ unitState' = "INITIALIZED"
  /\ UNCHANGED isDisabled

\* Then the disable port, then processAsync() unless disabled.
readDisable ==
  /\ tick("disable", "async")
  /\ IF disablePort = NoMsg THEN UNCHANGED <<unitState, isDisabled>>
     ELSE setDisabled(disablePort = 1)
  /\ disablePort' = NoMsg
  /\ UNCHANGED <<resetPort, sampleCounter>>

skipAsync ==
  /\ tick("async", "sync") /\ isDisabled
  /\ UNCHANGED <<unitState, isDisabled, unitPorts, sampleCounter>>

\* processSyncBase(): every Factor-th tick, unless disabled.
Due == sampleCounter + 1 >= Factor

countSample == sampleCounter' = IF Due THEN 0 ELSE sampleCounter + 1

skipSync ==
  /\ tick("sync", "idle") /\ (~Due \/ isDisabled) /\ countSample
  /\ UNCHANGED <<unitState, isDisabled, unitPorts>>
=============================================================================
