--------------------------- MODULE MissionPipeline ---------------------------
(***************************************************************************)
(* axonvex::core::MissionPipeline: the graph of elements under the tick of *)
(* the scheduler, while other threads start, command and reset it.  Their  *)
(* calls leave messages; the hooks of elements run on the scheduler's      *)
(* thread only.                                                            *)
(***************************************************************************)
EXTENDS ProcessingUnit

CONSTANTS Elements,
          Missing,    \* a name that no element has
          Graphs      \* the graphs that were built: a transition per element, and a start

None == "none"
Commands == {"ABORT", "RESTART", "PAUSE", "RESUME"}

VARIABLES next,          \* transitions_: where the default transition of an element leads
          startElement,  \* startElementName_
          status,        \* status_
          current,       \* currentElement_
          control,       \* the command that waits in the control port
          pendingReset, pendingStart,
          starting,      \* a startPipeline() is between its check and its store
          running,       \* the element whose execute() runs
          entered,       \* elements that saw onEnter() and no onExit() yet
          misused,       \* a hook was called on an element in the wrong state
          asked          \* the last of start and reset that was asked for

graphVars   == <<next, startElement>>
pendingVars == <<control, pendingReset, pendingStart, starting, asked>>
stageVars   == <<status, current, running, entered, misused>>
missionVars == <<unitVars, graphVars, pendingVars, stageVars>>

MissionInit ==
  /\ UnitInit
  /\ \E g \in Graphs : next = g.next /\ startElement = g.start
  /\ status = "Idle" /\ current = None /\ running = None
  /\ control = None /\ pendingReset = FALSE /\ pendingStart = FALSE /\ starting = FALSE
  /\ entered = {} /\ misused = FALSE /\ asked = "nothing"

validateGraph == startElement \in Elements /\ \A e \in Elements : next[e] # Missing

\* onExit() of `out`, reset() of `cleared`, onEnter() of `in`, in this order; None is nobody.
hooks(out, cleared, in) ==
  LET after == entered \ {out}
  IN  /\ entered' = after \cup ({in} \ {None})
      /\ misused' = (\/ misused \/ out \notin entered \cup {None}
                     \/ cleared \cap after # {} \/ in \in after)

\* Fault: the state is flipped at once, onEnter() is left to the next tick.
startPipelineEager ==
  /\ status = "Idle" /\ validateGraph
  /\ status' = "Executing" /\ current' = startElement
  /\ pendingStart' = TRUE /\ asked' = "start"
  /\ UNCHANGED <<unitVars, graphVars, control, pendingReset, starting, running, entered, misused>>

\* startPipeline(), on any thread: the check under the lock, the request behind it.
startPipeline ==
  \/ /\ status = "Idle" /\ ~starting
     /\ IF validateGraph THEN starting' = TRUE /\ UNCHANGED <<unitState, status>>
        ELSE status' = "Failed" /\ unitState' = "ERROR" /\ UNCHANGED starting
     /\ UNCHANGED <<isDisabled, unitPorts, sampleCounter, tickPc, graphVars, control,
                    pendingReset, pendingStart, asked, current, running, entered, misused>>
  \/ /\ starting
     /\ starting' = FALSE /\ pendingStart' = TRUE /\ asked' = "start"
     /\ UNCHANGED <<unitVars, graphVars, control, pendingReset, stageVars>>

\* abort(), restart(), pause(), resume(): the last one written stays.
command ==
  /\ control' \in Commands
  /\ UNCHANGED <<unitVars, graphVars, pendingReset, pendingStart, starting, asked, stageVars>>

\* reset(), from outside.
reset ==
  /\ pendingReset' = TRUE /\ asked' = "reset"
  /\ UNCHANGED <<unitVars, graphVars, control, pendingStart, starting, stageVars>>

\* The reset port: reset() of the pipeline, then all ports, the control port among them.
resetByPort ==
  /\ resetBlock
  /\ pendingReset' = TRUE /\ asked' = "reset" /\ control' = None
  /\ UNCHANGED <<graphVars, pendingStart, starting, stageVars>>

\* processAsync() takes the reset first: the flip under the lock, then the rest of resetImpl().
takeReset ==
  /\ tickPc = "async" /\ ~isDisabled
  /\ IF pendingReset
     THEN /\ tickPc' = "resetImpl" /\ pendingReset' = FALSE
          /\ status' = "Idle" /\ current' = None
     ELSE tickPc' = "start" /\ UNCHANGED <<pendingReset, status, current>>
  /\ UNCHANGED <<unitState, isDisabled, unitPorts, sampleCounter, graphVars,
                 control, pendingStart, starting, asked, running, entered, misused>>

\* Fault: a start that waits survives the reset.
resetImplKeepsStart ==
  /\ tick("resetImpl", "start") /\ UNCHANGED pendingStart
  /\ hooks(IF entered = {} THEN None ELSE CHOOSE e \in entered : TRUE, Elements, None)
  /\ unitState' = "INITIALIZED"
  /\ UNCHANGED <<isDisabled, unitPorts, sampleCounter, graphVars, control,
                 pendingReset, starting, asked, status, current, running>>

\* resetImpl() behind the lock: the request to start goes, then onExit() and reset().
resetImpl ==
  /\ tick("resetImpl", "start") /\ pendingStart' = FALSE
  /\ hooks(IF entered = {} THEN None ELSE CHOOSE e \in entered : TRUE, Elements, None)
  /\ unitState' = "INITIALIZED"
  /\ UNCHANGED <<isDisabled, unitPorts, sampleCounter, graphVars, control,
                 pendingReset, starting, asked, status, current, running>>

\* startImmediate(), from a state with nothing entered: out and cleared are what restartImpl()
\* does before it.
startImmediate(out, cleared, startable) ==
  IF ~startable
  THEN hooks(out, cleared, None) /\ UNCHANGED <<status, current, unitState>>
  ELSE IF validateGraph
  THEN /\ hooks(out, cleared, startElement) /\ status' = "Executing" /\ current' = startElement
       /\ UNCHANGED unitState
  ELSE /\ hooks(out, cleared, None) /\ status' = "Failed" /\ current' = None
       /\ unitState' = "ERROR"

takeStart ==
  /\ tick("start", "control") /\ pendingStart' = FALSE
  /\ startImmediate(None, {}, pendingStart /\ status = "Idle")
  /\ UNCHANGED <<isDisabled, unitPorts, sampleCounter, graphVars, control,
                 pendingReset, starting, asked, running>>

abortImpl ==
  IF status \in {"Executing", "Paused"}
  THEN hooks(current, {}, None) /\ status' = "Aborted" /\ current' = None
  ELSE UNCHANGED <<status, current, entered, misused>>

pauseImpl(from, to) ==
  /\ status' = IF status = from THEN to ELSE status
  /\ UNCHANGED <<current, entered, misused>>

\* The control port: restartImpl() leaves, resets and starts in one go.
takeCommand ==
  /\ tick("control", "sync") /\ control' = None
  /\ \/ control = "ABORT" /\ abortImpl /\ UNCHANGED <<asked, unitState>>
     \/ control = "PAUSE" /\ pauseImpl("Executing", "Paused") /\ UNCHANGED <<asked, unitState>>
     \/ control = "RESUME" /\ pauseImpl("Paused", "Executing") /\ UNCHANGED <<asked, unitState>>
     \/ control = "RESTART" /\ startImmediate(current, Elements, TRUE) /\ asked' = "restart"
     \/ control = None /\ UNCHANGED <<status, current, entered, misused, asked, unitState>>
  /\ UNCHANGED <<isDisabled, unitPorts, sampleCounter, graphVars, pendingReset,
                 pendingStart, starting, running>>

\* processSync(): the snapshot and the call of execute().
execute ==
  /\ tickPc = "sync" /\ Due /\ ~isDisabled
  /\ unitState' = "RUNNING"
  /\ IF status = "Executing" /\ current # None
     THEN /\ tickPc' = "execute" /\ running' = current
          /\ misused' = (misused \/ current \notin entered)
          /\ UNCHANGED sampleCounter
     ELSE tickPc' = "idle" /\ countSample /\ UNCHANGED <<running, misused>>
  /\ UNCHANGED <<isDisabled, unitPorts, graphVars, pendingVars, status, current, entered>>

\* execute() returned: Awaiting, Failed, or a result with a transition or without one; applied
\* if the pipeline is still where it was.
advance ==
  /\ tick("execute", "idle") /\ countSample /\ running' = None
  /\ \/ UNCHANGED <<status, current, entered, misused>>
     \/ /\ current = running /\ status = "Executing"
        /\ \/ status' = "Failed" /\ current' = None /\ hooks(running, {}, None)
           \/ /\ next[running] \in Elements
              /\ current' = next[running] /\ hooks(running, {}, next[running])
              /\ UNCHANGED status
           \/ /\ next[running] \notin Elements
              /\ status' = "Finished" /\ current' = None /\ hooks(running, {}, None)
  /\ UNCHANGED <<unitState, isDisabled, unitPorts, graphVars, pendingVars>>

Rest == UNCHANGED <<graphVars, pendingVars, stageVars>>

MissionNext ==
  \/ startPipeline \/ command \/ reset
  \/ (writeControl \/ callSetDisabled \/ ignoreReset \/ readDisable \/ skipAsync \/ skipSync) /\ Rest
  \/ resetByPort \/ takeReset \/ resetImpl \/ takeStart \/ takeCommand \/ execute \/ advance

-----------------------------------------------------------------------------

\* onEnter(), execute(), onExit() and reset() of the elements: entered once, left once, executed
\* only in between, whatever is commanded when; an element that is entered is the current one.
HooksArePaired ==
  /\ ~misused
  /\ tickPc # "resetImpl" => entered = {current} \ {None}
  /\ status \in {"Executing", "Paused"} <=> current # None

\* "a reset() issued after startPipeline() but before either has drained wins": once the reset
\* is drained the pipeline does not run, until somebody starts it again.
ResetWins == asked = "reset" /\ ~pendingReset => status \in {"Idle", "Failed"}
=============================================================================
