------------------------------ MODULE MCDataflow ------------------------------
(* The data plane and what serves it: units and pipelines, ports, registries,   *)
(* callers, the logger, errors, documents of systems, the configuration and     *)
(* measurements, with model values, next to the containers they use.  They      *)
(* share no state here: `subject` is the one that runs, the others rest in      *)
(* their first state.                                                           *)
EXTENDS Containers, UnitTypes

VARIABLES unitState, isDisabled, resetPort, disablePort, sampleCounter, tickPc, nextElement,
          startElement, status, current, control, pendingReset, pendingStart, starting, running,
          entered, misused, asked,
          kind, connections, bridgedPorts, hooked, traffic, data, flag, work, msg, due, served,
          reader, lastRead, writes, edits,
          units, unitToId, nextUnitId, mutex, ports, live, made, doomed, call, arg, wronged,
          orphaned,
          keyed_callbacks_, loop, mode, expected, called, exceptions_count,
          running_, shutdown_requested_, worker, inHand, operator, message_queue_, allocated,
          logging, sent, accepted, dueNow, delivered, file, oldFile, current_size_, logStarts,
          rotations,
          errors_, error_count_, critical_error_count_, holder, reentered, history,
          document, types, spec, specErrors, stage, created, old, named, injected, leftover,
          excused,
          config_data_, schema_, callbacks_, pending, owed, changes_made,
          now, start_time_, timerRunning, measured, last_measurement_, samples_, sampleHead_,
          timing, stamp, recent,
          ring, head_, filled_, runningSum_, output, count_, sum_, window, poisoned, sinkSeen,
          entries_, nextSeq_, t0_, traceFile, replayed, loadOk,
          initialized, environment, default_dirs_, fellBack, got, path_, cached_string_,
          string_cache_valid_,
          fs, filePc, source, target, overwrite, clobbered, moved,
          requested

missionVars  == <<unitState, isDisabled, resetPort, disablePort, sampleCounter, tickPc, nextElement,
                  startElement, status, current, control, pendingReset, pendingStart, starting,
                  running, entered, misused, asked>>
portVars     == <<kind, connections, bridgedPorts, hooked, traffic, data, flag, work, msg, due,
                  served, reader, lastRead, writes, edits>>
registryVars == <<units, unitToId, nextUnitId, mutex, ports, live, made, doomed, call, arg,
                  wronged, orphaned>>
callerVars   == <<keyed_callbacks_, loop, mode, expected, called, exceptions_count>>
loggerVars   == <<running_, shutdown_requested_, worker, inHand, operator, message_queue_,
                  allocated, logging, sent, accepted, dueNow, delivered, file, oldFile,
                  current_size_, logStarts, rotations>>
errorVars    == <<errors_, error_count_, critical_error_count_, holder, reentered, history>>
specVars     == <<document, types, spec, specErrors, stage, created, old, named, injected,
                  leftover, excused>>
configVars   == <<config_data_, schema_, callbacks_, pending, owed, changes_made>>
timerVars    == <<now, start_time_, timerRunning, measured, last_measurement_, samples_,
                  sampleHead_, timing, stamp, recent>>
builtinVars  == <<ring, head_, filled_, runningSum_, output, count_, sum_, window, poisoned, sinkSeen>>
traceVars    == <<entries_, nextSeq_, t0_, traceFile, replayed, loadOk>>
dirVars      == <<initialized, environment, default_dirs_, fellBack, got, path_, cached_string_,
                  string_cache_valid_>>
fileVars     == <<fs, filePc, source, target, overwrite, clobbered, moved>>
restVars == <<missionVars, portVars, registryVars, callerVars, loggerVars, errorVars, specVars,
              configVars, timerVars, builtinVars, traceVars, dirVars, fileVars, requested>>
allVars == <<containerVars, restVars>>

-----------------------------------------------------------------------------
(* Documents: one that loads, and what may be wrong with it.                  *)

Obj(pairs) == Object([k \in {p[1] : p \in pairs} |-> (CHOOSE p \in pairs : p[1] = k)[2]])
With(obj, k, v) == Object([q \in DOMAIN obj[2] \cup {k} |-> IF q = k THEN v ELSE obj[2][q]])
Without(obj, k) == Object([q \in DOMAIN obj[2] \ {k} |-> obj[2][q]])
Flag == <<"bool", 1>>
Malformed == {Number(1)}

Unit(name, type, params) == Obj({<<"name", Text(name)>>, <<"type", Text(type)>>, <<"params", params>>})
Gen == Unit("gen", "axonvex.SineGenerator", Obj({}))
Avg == Unit("avg", "axonvex.MovingAverage", Obj({<<"window", Number(3)>>}))
Sink == Unit("sink", "axonvex.StatsSink", Obj({}))
Ref(u, p) == Text(<<u, p>>)
Wire(from, to) == Obj({<<"from", from>>, <<"to", to>>})
GenAvg == Wire(Ref("gen", "out"), Ref("avg", "in"))
AvgSink == Wire(Ref("avg", "out"), Ref("sink", "in"))
Named(side, n, ref) == Obj({<<side, Obj({<<n, ref>>})>>})

System == Obj({<<"name", Text("s")>>, <<"maxProcessingUnits", Number(7)>>})
Base == Obj({<<"specVersion", Text("1.0")>>, <<"system", System>>,
             <<"units", Array(<<Gen, Avg, Sink>>)>>, <<"connections", Array(<<GenAvg, AvgSink>>)>>,
             <<"systemPorts", Named("outputs", "mean", Ref("avg", "out"))>>})

Systems == Malformed \cup
  {Without(System, "name"), With(System, "name", Text("")), With(System, "tickRateUs", Number(0)),
   With(System, "maxProcessingUnits", Number(2)), With(System, "schedulingPolicy", Text("CUSTOM")),
   With(System, "logLevel", Text("Debug")), With(System, "enableRealTimeScheduling", Number(1)),
   With(System, "other", Flag)}

Params == Malformed \cup {Obj({}), Obj({<<"window", Number(0)>>}), Obj({<<"window", Text("3")>>}),
                          Obj({<<"window", Number(3)>>, <<"other", Flag>>})}
Timing == {Obj({<<"periodUs", Number(-1)>>}), Obj({<<"priority", Text("HIGH")>>}), Number(1)}
AvgUnits(Half) == Malformed \cup {With(Avg, "params", p) : p \in Params}
  \cup {With(Avg, "timing", t) : t \in Timing}
  \cup {With(Avg, "type", Text(t)) : t \in {"late.Filter", "late.Event", "axonvex.StatsSink"}}
  \cup {With(Avg, "downSamplingFactor", Number(n)) : n \in {0, 2, Half + 1, 2 * Half + 1}}
  \cup {With(Avg, "name", Text("gen")), Without(Avg, "name"), Without(Avg, "params"),
        With(Avg, "other", Flag)}

Wirings == {<<GenAvg>>, <<GenAvg, GenAvg, AvgSink>>, <<GenAvg, AvgSink>>,
            <<GenAvg, Wire(Ref("sink", "in"), Ref("avg", "out"))>>,
            <<GenAvg, Wire(Ref("avg", "out"), Ref("sink", "none"))>>,
            <<GenAvg, Wire(Ref("none", "out"), Ref("sink", "in"))>>,
            <<GenAvg, Wire(Text(<<"avg">>), Ref("sink", "in"))>>,
            <<GenAvg, Number(1)>>}
SystemPorts == Malformed \cup
  {Named("outputs", "mean", Ref("avg", "out")), Named("inputs", "in", Ref("sink", "in")),
   Named("inputs", "in", Ref("avg", "in")), Named("inputs", "in", Ref("avg", "out")),
   Named("outputs", "mean", Ref("avg", "in")), Named("outputs", "mean", Ref("none", "out")),
   Named("outputs", "mean", Text(<<"avg">>)), Named("other", "mean", Ref("avg", "out"))}

Adapter(uri) == Obj({<<"uri", Text(uri)>>, <<"type", Text("ros2")>>})
Pipeline(on) == Obj({<<"name", Text("p")>>,
                     <<"transitions", Array(<<Obj({<<"from", Text("a")>>, <<"to", Text("b")>>, <<"on", on>>})>>)>>})
Others ==
  {<<"adapters", Array(<<a>>)>> : a \in Malformed \cup {Adapter("ros2://a"), Adapter("malformed"), Adapter("")}}
  \cup {<<"safety", s>> : s \in Malformed \cup {Obj({<<"evaluationPeriodMs", Number(0)>>}), Obj({})}}
  \cup {<<"missionPipelines", Array(<<Pipeline(on)>>)>> : on \in Malformed \cup {Text("success"), Text("other")}}
  \cup {<<"specVersion", v>> : v \in Malformed \cup {Text("2.0")}}
  \cup {<<"units", u>> : u \in Malformed \cup {Array(<<>>)}} \cup {<<"other", Flag>>}

DocumentsOf(Half) ==
  Malformed \cup {Base} \cup {Without(Base, k) : k \in DOMAIN Base[2]}
  \cup {With(Base, "system", s) : s \in Systems}
  \cup {With(Base, "units", Array(<<Gen, u, Sink>>)) : u \in AvgUnits(Half)}
  \cup {With(With(Base, "connections", Array(w)), "systemPorts", sp) : w \in Wirings, sp \in SystemPorts}
  \cup {With(Base, o[1], o[2]) : o \in Others}

LateTypes ==
  [n \in {"late.Filter", "late.Event"} |->
     LET k == IF n = "late.Filter" THEN "Sync" ELSE "Async"
     IN  UnitType([p \in {"in", "out"} |-> Port(IF p = "in" THEN "Input" ELSE "Output", k, "double", TRUE)],
                  [p \in {"window"} |-> Param("Int", FALSE, 1, 4096)])]

Graph(behindX, behindY, start) ==
  [next |-> [e \in {"x", "y"} |-> IF e = "x" THEN behindX ELSE behindY], start |-> start]
OpenGraph == Graph("y", "none", "x")
Graphs == {OpenGraph, Graph("y", "y", "x"), Graph("y", "missing", "x")}

Wiring(connected, bridged) ==
  [connections |-> connected, bridgedPorts |-> [p \in {1, 2} |-> IF p = 1 THEN bridged ELSE <<>>]]
Parallel == Wiring(<<1, 2>>, <<>>)

Leaf(v) == [p \in {<<"a">>, <<"a", "x">>} |-> IF p = <<"a">> THEN "object" ELSE v]
Trees == {Leaf("1"), [p \in {<<"a">>, <<"b">>} |-> IF p = <<"a">> THEN "null" ELSE "1"]}
Patterns == [o \in {"all", "x"} |-> IF o = "x" THEN {<<"a", "x">>} ELSE {<<"a">>, <<"a", "x">>, <<"b">>}]

-----------------------------------------------------------------------------

Mission == INSTANCE MissionPipeline WITH Factor <- 2, Elements <- {"x", "y"},
                                         Missing <- "missing", Graphs <- Graphs,
                                         next <- nextElement
Wired   == INSTANCE Ports WITH Inputs <- {1, 2}, Writers <- {"w1", "w2"}, MaxWrites <- 2,
                               MaxEdits <- 1,
                               Wirings <- {Parallel, Wiring(<<1>>, <<2>>)}
Reg     == INSTANCE Registries WITH Callers <- {"t1", "t2"}, Units <- {"u1", "u2", "u3"},
                                    Names <- {"n"}, maxUnits_ <- 2, QuietReset <- TRUE
Keyed   == INSTANCE Callers WITH Keys <- {1, 2}, Callbacks <- {"c1", "c2"}, MaxTable <- 2
Log     == INSTANCE Logger WITH LogThreads <- {"t1", "t2"}, queue_size_ <- 1, pool_size_ <- 2,
                                MaxMessages <- 2, MaxStarts <- 2, MaxRotations <- 1
Errs    == INSTANCE ErrorHandler WITH Reporters <- {"t1", "t2"}, max_errors_ <- 2, MaxReports <- 4
Doc     == INSTANCE SystemSpec WITH Documents <- DocumentsOf(4), Late <- LateTypes,
                                    Uris <- {"ros2://a"}, Half <- 4
Config  == INSTANCE Configuration WITH Writers <- {"w1", "w2"},
                                       Keys <- {<<"a">>, <<"a", "x">>, <<>>},
                                       Leaves <- {"1", "bad"}, Trees <- Trees,
                                       Observers <- {"all", "x"}, Pattern <- Patterns,
                                       BadLeaf <- "bad", MaxChanges <- 3
Timer   == INSTANCE PrecisionTimer WITH TimerThreads <- {"t1", "t2"}, max_samples_ <- 2, MaxNow <- 2
Builtin == INSTANCE MovingAverage WITH Finite <- {1, 2}, window_ <- 3, MaxCount <- 2,
                                       seen <- window
Trace   == INSTANCE TraceReplay WITH Stamps <- {1, 2}, MaxEntries <- 2
Disk    == INSTANCE Path WITH FileUsers <- {"t1", "t2"}, Places <- {<<"d">>, <<"e", "f">>},
                              MaxDepth <- 3, MaxParts <- 2
Sizes   == INSTANCE Capacities WITH Width <- 8, Shifts <- <<1, 2, 4>>, MinCapacity <- 4,
                                    MaxCapacity <- 32

\* What rests begins with one of its first states.
MCInit ==
  /\ ContainersInit
  /\ Mission!MissionInit /\ (subject # "mission" => startElement = "x" /\ nextElement = OpenGraph.next)
  /\ Wired!PortsInit /\ (subject # "ports" => kind = "sync" /\ connections = Parallel.connections)
  /\ Reg!RegistryInit /\ Keyed!CallerInit /\ Log!LoggerInit /\ Errs!ErrorInit
  /\ Config!ConfigInit /\ Timer!TimerInit /\ Builtin!BuiltinInit /\ Trace!TraceInit
  /\ Disk!PathInit /\ (subject # "dirs" => environment = {})
  /\ IF subject = "sizes" THEN Sizes!CapacityInit ELSE requested = 0
  /\ IF subject = "spec" THEN Doc!SpecInit ELSE Doc!SpecInit /\ document = Base

OnlyMission  == subject = "mission" /\ UNCHANGED <<containerVars, portVars, registryVars, callerVars, loggerVars, errorVars, specVars, configVars, timerVars, builtinVars, traceVars, dirVars, fileVars, requested>>
OnlyPorts    == subject = "ports" /\ UNCHANGED <<containerVars, missionVars, registryVars, callerVars, loggerVars, errorVars, specVars, configVars, timerVars, builtinVars, traceVars, dirVars, fileVars, requested>>
OnlyRegistry == subject = "registry" /\ UNCHANGED <<containerVars, missionVars, portVars, callerVars, loggerVars, errorVars, specVars, configVars, timerVars, builtinVars, traceVars, dirVars, fileVars, requested>>
OnlyCaller   == subject = "caller" /\ UNCHANGED <<containerVars, missionVars, portVars, registryVars, loggerVars, errorVars, specVars, configVars, timerVars, builtinVars, traceVars, dirVars, fileVars, requested>>
OnlyLogger   == subject = "logger" /\ UNCHANGED <<containerVars, missionVars, portVars, registryVars, callerVars, errorVars, specVars, configVars, timerVars, builtinVars, traceVars, dirVars, fileVars, requested>>
OnlyErrors   == subject = "errors" /\ UNCHANGED <<containerVars, missionVars, portVars, registryVars, callerVars, loggerVars, specVars, configVars, timerVars, builtinVars, traceVars, dirVars, fileVars, requested>>
OnlySpec     == subject = "spec" /\ UNCHANGED <<containerVars, missionVars, portVars, registryVars, callerVars, loggerVars, errorVars, configVars, timerVars, builtinVars, traceVars, dirVars, fileVars, requested>>
OnlyConfig   == subject = "config" /\ UNCHANGED <<containerVars, missionVars, portVars, registryVars, callerVars, loggerVars, errorVars, specVars, timerVars, builtinVars, traceVars, dirVars, fileVars, requested>>
OnlyTimer    == subject = "timer" /\ UNCHANGED <<containerVars, missionVars, portVars, registryVars, callerVars, loggerVars, errorVars, specVars, configVars, builtinVars, traceVars, dirVars, fileVars, requested>>
OnlyBuiltin  == subject = "builtin" /\ UNCHANGED <<containerVars, missionVars, portVars, registryVars, callerVars, loggerVars, errorVars, specVars, configVars, timerVars, traceVars, dirVars, fileVars, requested>>
OnlyTrace    == subject = "trace" /\ UNCHANGED <<containerVars, missionVars, portVars, registryVars, callerVars, loggerVars, errorVars, specVars, configVars, timerVars, builtinVars, dirVars, fileVars, requested>>
OnlyDirs     == subject = "dirs" /\ UNCHANGED <<containerVars, missionVars, portVars, registryVars, callerVars, loggerVars, errorVars, specVars, configVars, timerVars, builtinVars, traceVars, fileVars, requested>>
OnlyFiles    == subject = "files" /\ UNCHANGED <<containerVars, missionVars, portVars, registryVars, callerVars, loggerVars, errorVars, specVars, configVars, timerVars, builtinVars, traceVars, dirVars, requested>>
OnlySizes    == subject = "sizes" /\ UNCHANGED <<containerVars, missionVars, portVars, registryVars, callerVars, loggerVars, errorVars, specVars, configVars, timerVars, builtinVars, traceVars, dirVars, fileVars>>

MCNext ==
  \/ ContainersNext /\ UNCHANGED restVars
  \/ OnlyMission /\ Mission!MissionNext
  \/ OnlyPorts /\ Wired!PortsNext
  \/ OnlyRegistry /\ Reg!RegistryNext
  \/ OnlyCaller /\ Keyed!CallerNext
  \/ OnlyLogger /\ Log!LoggerNext
  \/ OnlyErrors /\ Errs!ErrorNext
  \/ OnlySpec /\ Doc!SpecNext
  \/ OnlyConfig /\ Config!ConfigNext
  \/ OnlyTimer /\ Timer!TimerNext
  \/ OnlyBuiltin /\ Builtin!BuiltinNext
  \/ OnlyTrace /\ Trace!TraceNext
  \/ OnlyDirs /\ Disk!DirsNext
  \/ OnlyFiles /\ Disk!FilesNext
  \/ OnlySizes /\ Sizes!CapacityNext

MCSpec == MCInit /\ [][MCNext]_allVars

-----------------------------------------------------------------------------
(* The promises, by component.                                                *)

\* MissionPipeline: onEnter() and onExit() are paired whatever is commanded when, and a reset()
\* behind a startPipeline() wins.
PipelineSound == Mission!HooksArePaired /\ Mission!ResetWins

\* Ports: write() reaches every port that stays connected, and NaN none; nothing that was stored
\* in an AsyncInputPort stays unseen.
PortsSound == Wired!WriteReachesAll /\ Wired!UpdatesAreSeen

\* UnitRegistry: no unit is destroyed under the lock or used after its end.  SystemPortRegistry: a
\* name leads to a port of a unit that lives, with two exceptions.
RegistriesSound == Reg!RegistrySound /\ Reg!NamesLeadToLive

\* CallerKeyed: a safe call reaches every callback that was registered when it began.  Logger: what
\* was logged before stop() is written when it returns, and no object is lost.  ErrorHandler: the
\* newest errors are the ones kept.  Path: no stale string, no copy over what it may not overwrite.
\* The containers: requested sizes become powers of two that fit (0, at rest, is one of them).
ServicesSound ==
  /\ Keyed!EveryCallbackCalled
  /\ Log!StopWritesAll /\ Log!LogObjectsAccount
  /\ Errs!NewestErrorsKept
  /\ Disk!DirsSound /\ Disk!FilesSound
  /\ subject = "sizes" => Sizes!CapacitiesFit

\* SpecSystem: what validate() passes is built, or taken back.
LayoutSound == Doc!LayoutSound

\* Configuration: a tree, and no observer misses a change.
ConfigurationSound == Config!ConfigurationSound

\* PrecisionTimer, MovingAverage, TraceReplay: rings and traces hold what came last.
MeasuresSound == Timer!SamplesAreRecent /\ Builtin!AverageIsOfWindow /\ Trace!TraceIsGapless
=============================================================================
