------------------------------ MODULE SystemSpec ------------------------------
(***************************************************************************)
(* SystemSpec and SpecSystem: a document is parsed, validated against the  *)
(* factory's types and, in initialize(), built: units are created and      *)
(* registered, wired, and their ports named.  A failure takes back what it *)
(* did.  Registrations of other types may happen at any time.              *)
(***************************************************************************)
EXTENDS UnitTypes

CONSTANTS Documents,      \* JSON documents that are loaded
          Late,           \* types that are registered later: names to records
          Uris,           \* adapters that may be injected
          Half            \* int holds -Half .. Half - 1

VARIABLES document, types,
          spec,           \* spec_ of the SpecSystem
          specErrors,     \* specErrors_, or the codes that loadSystemFromSpec() returned
          stage,          \* how far the layout got
          created,        \* names of the units that this layout registered, in order
          old,            \* units of earlier layouts that are still registered
          named,          \* system ports that are assigned
          injected,       \* adapters that were added
          leftover,       \* names that were taken when the layout began
          excused         \* the layout threw, or began on top of an earlier one

specVars == <<document, types, spec, specErrors, stage, created, old, named, injected,
              leftover, excused>>
layoutVars == <<created, old, named, leftover, excused>>

SpecInit ==
  /\ document \in Documents /\ types = registerBuiltinUnitTypes
  /\ spec = Absent /\ specErrors = {} /\ stage = "raw"
  /\ created = << >> /\ old = 0 /\ named = {} /\ injected = {}
  /\ leftover = {} /\ excused = FALSE

-----------------------------------------------------------------------------
(* Parsing: the codes that each rule reports.                              *)

unknownKeys(obj, allowed) == {"UNKNOWN_KEY" : k \in DOMAIN obj[2] \ allowed}

nonEmpty(f) == f[1] = "string" /\ f[2] # ""
required(f) == IF f = Absent THEN {"MISSING_FIELD"} ELSE IF nonEmpty(f) THEN {} ELSE {"INVALID_TYPE"}
typed(f, type) == IF f[1] \in {"absent", type} THEN {} ELSE {"INVALID_TYPE"}
atLeast(f, low) == IF f = Absent \/ (f[1] = "int" /\ f[2] >= low) THEN {} ELSE {"PARAM_CONSTRAINT"}
oneOf(f, names) ==
  typed(f, "string") \cup (IF f[1] = "string" /\ f[2] \notin names THEN {"INVALID_ENUM_VALUE"} ELSE {})

\* A section, or the entries of a list, that may be absent but not of another type.
entries(f, codes(_)) ==
  IF f[1] # "array" THEN typed(f, "array")
  ELSE UNION {IF f[2][i][1] # "object" THEN {"INVALID_TYPE"} ELSE codes(f[2][i]) : i \in DOMAIN f[2]}
section(f, codes(_)) == IF f[1] # "object" THEN typed(f, "object") ELSE codes(f)

\* "unit.port": a text is the sequence of what stands between its dots.
isValidPortRef(ref) == Len(ref) = 2 /\ ref[1] # "" /\ ref[2] # ""
portRef(f) ==
  CASE f = Absent     -> {"MISSING_FIELD"}
    [] f[1] # "string" -> {"INVALID_TYPE"}
    [] OTHER          -> IF isValidPortRef(f[2]) THEN {} ELSE {"BAD_REFERENCE"}

parseSchedulingPolicy == {"ROUND_ROBIN", "PRIORITY_BASED", "EARLIEST_DEADLINE_FIRST", "RATE_MONOTONIC"}
parseLogLevel == {"Debug", "Info", "Warning", "Error", "Critical"}
parseSchedulerPriority == {"IDLE", "LOW", "NORMAL", "HIGH", "REAL_TIME", "CRITICAL"}

parseSystemSection(doc) ==
  LET sys == at(doc, "system")
      sizes == {"tickRateUs", "eventPoolSize", "eventQueueSize", "maxProcessingUnits"}
  IN  IF sys = Absent THEN {"MISSING_FIELD"}
      ELSE section(sys, LAMBDA s :
             unknownKeys(s, sizes \cup {"name", "schedulingPolicy", "enableRealTimeScheduling", "logLevel"})
             \cup required(at(s, "name"))
             \cup UNION {atLeast(at(s, k), 1) : k \in sizes}
             \cup oneOf(at(s, "schedulingPolicy"), parseSchedulingPolicy)
             \cup typed(at(s, "enableRealTimeScheduling"), "bool")
             \cup oneOf(at(s, "logLevel"), parseLogLevel))

parseTiming(timing) ==
  section(timing, LAMBDA t :
    unknownKeys(t, {"periodUs", "deadlineUs", "wcetUs", "priority", "isRealTime"})
    \cup UNION {atLeast(at(t, k), 0) : k \in {"periodUs", "deadlineUs", "wcetUs"}}
    \cup oneOf(at(t, "priority"), parseSchedulerPriority) \cup typed(at(t, "isRealTime"), "bool"))

parseUnitsSection(doc) ==
  LET units == at(doc, "units")
      name(i) == at(units[2][i], "name")
      named_(i) == units[2][i][1] = "object" /\ nonEmpty(name(i))
      again == \E i, j \in DOMAIN units[2] :
                 i # j /\ named_(i) /\ named_(j) /\ name(i) = name(j)
  IN  IF units = Absent THEN {"MISSING_FIELD"}
      ELSE IF units[1] # "array" \/ units[2] = << >> THEN {"PARAM_CONSTRAINT"}
      ELSE (IF again THEN {"DUP_UNIT_NAME"} ELSE {})
           \cup entries(units, LAMBDA u :
                  unknownKeys(u, {"name", "type", "params", "timing", "downSamplingFactor"})
                  \cup required(at(u, "name")) \cup required(at(u, "type"))
                  \cup typed(at(u, "params"), "object") \cup parseTiming(at(u, "timing"))
                  \cup atLeast(at(u, "downSamplingFactor"), 1))

parseConnectionsSection(doc) ==
  entries(at(doc, "connections"), LAMBDA c :
    unknownKeys(c, {"from", "to"}) \cup portRef(at(c, "from")) \cup portRef(at(c, "to")))

parseSystemPortsSection(doc) ==
  section(at(doc, "systemPorts"), LAMBDA sp :
    unknownKeys(sp, {"inputs", "outputs"})
    \cup UNION {section(at(sp, k), LAMBDA m : UNION {portRef(m[2][n]) : n \in DOMAIN m[2]})
                  : k \in {"inputs", "outputs"}})

parseAdaptersSection(doc) ==
  entries(at(doc, "adapters"), LAMBDA a :
    unknownKeys(a, {"uri", "type", "config"})
    \cup required(at(a, "uri")) \cup required(at(a, "type")) \cup typed(at(a, "config"), "object"))

parseSafetySection(doc) ==
  section(at(doc, "safety"), LAMBDA s :
    unknownKeys(s, {"evaluationPeriodMs", "policies"}) \cup atLeast(at(s, "evaluationPeriodMs"), 1)
    \cup entries(at(s, "policies"), LAMBDA p :
           unknownKeys(p, {"type", "params"})
           \cup required(at(p, "type")) \cup typed(at(p, "params"), "object")))

\* A name that is no string counts as missing; an empty one is taken.
anyText(f) == IF f[1] = "string" THEN {} ELSE {"MISSING_FIELD"}

parseMissionPipelinesSection(doc) ==
  entries(at(doc, "missionPipelines"), LAMBDA mp :
    unknownKeys(mp, {"name", "elements", "transitions"}) \cup required(at(mp, "name"))
    \cup entries(at(mp, "elements"), LAMBDA e :
           unknownKeys(e, {"name", "type", "params"})
           \cup anyText(at(e, "name")) \cup anyText(at(e, "type")) \cup typed(at(e, "params"), "object"))
    \cup entries(at(mp, "transitions"), LAMBDA t :
           unknownKeys(t, {"from", "to", "on"})
           \cup UNION {anyText(at(t, k)) : k \in {"from", "to", "on"}}
           \cup (IF at(t, "on")[1] = "string" THEN oneOf(at(t, "on"), {"success", "failure", "abort"}) ELSE {})))

\* Every error of every section is collected.
parse(doc) ==
  IF doc[1] # "object" THEN {"INVALID_TYPE"}
  ELSE LET version == at(doc, "specVersion")
       IN  unknownKeys(doc, {"specVersion", "system", "units", "connections", "systemPorts",
                             "adapters", "safety", "missionPipelines"})
           \cup (CASE version = Absent     -> {"MISSING_FIELD"}
                   [] version[1] # "string" -> {"INVALID_TYPE"}
                   [] OTHER -> IF version[2] = "1.0" THEN {} ELSE {"SPEC_VERSION_UNSUPPORTED"})
           \cup parseSystemSection(doc) \cup parseUnitsSection(doc) \cup parseConnectionsSection(doc)
           \cup parseSystemPortsSection(doc) \cup parseAdaptersSection(doc)
           \cup parseSafetySection(doc) \cup parseMissionPipelinesSection(doc)

\* static_cast<int> of the number in the document.
toInt(n) == ((n + Half) % (2 * Half)) - Half

\* The SystemSpec of a document that parses.
parsed(doc) ==
  LET list(f, of(_)) == IF f = Absent THEN << >> ELSE [i \in DOMAIN f[2] |-> of(f[2][i])]
      map(k) == LET sp == at(doc, "systemPorts")
                    m  == IF sp = Absent THEN Absent ELSE at(sp, k)
                IN  IF m = Absent THEN Nothing ELSE [n \in DOMAIN m[2] |-> m[2][n][2]]
      orElse(f, n) == IF f = Absent THEN n ELSE f[2]
  IN  [units |-> list(at(doc, "units"), LAMBDA u :
                   [name |-> at(u, "name")[2], type |-> at(u, "type")[2], params |-> at(u, "params"),
                    factor |-> toInt(orElse(at(u, "downSamplingFactor"), 1))]),
       connections |-> list(at(doc, "connections"), LAMBDA c : [from |-> at(c, "from")[2], to |-> at(c, "to")[2]]),
       inputs |-> map("inputs"), outputs |-> map("outputs"),
       adapters |-> list(at(doc, "adapters"), LAMBDA a : at(a, "uri")[2]),
       pipelines |-> list(at(doc, "missionPipelines"), LAMBDA mp : at(mp, "name")[2]),
       maxProcessingUnits |-> orElse(at(at(doc, "system"), "maxProcessingUnits"), 1000)]

-----------------------------------------------------------------------------
(* Validation against the types of the factory.                            *)

typeOf(s, unit) == LET u == CHOOSE i \in DOMAIN s.units : s.units[i].name = unit IN s.units[u].type
unitNames(s) == {s.units[i].name : i \in DOMAIN s.units}

\* resolvePort(): the descriptor, or what keeps it from being found.
known(s, ref) == ref[1] \in unitNames(s) /\ typeOf(s, ref[1]) \in DOMAIN types
resolves(s, ref) == known(s, ref) /\ ref[2] \in DOMAIN types[typeOf(s, ref[1])].ports
port(s, ref) == types[typeOf(s, ref[1])].ports[ref[2]]
resolvePort(s, ref, direction) ==
  IF ~known(s, ref) THEN IF ref[1] \in unitNames(s) THEN {} ELSE {"BAD_REFERENCE"}
  ELSE IF resolves(s, ref) /\ port(s, ref).direction = direction THEN {} ELSE {"BAD_REFERENCE"}

isPort(s, ref, direction) == resolves(s, ref) /\ port(s, ref).direction = direction

\* What a connection of two ports that exist lacks.
compatible(s, c) ==
  IF port(s, c.from).kind # port(s, c.to).kind THEN {"KIND_MISMATCH"}
  ELSE IF port(s, c.from).dataType # port(s, c.to).dataType THEN {"PORT_TYPE_MISMATCH"} ELSE {}

\* Connections that wire their input, before the duplicates are told; and names that do.
wiring(s) == {i \in DOMAIN s.connections :
                LET c == s.connections[i]
                IN  isPort(s, c.from, "Output") /\ isPort(s, c.to, "Input") /\ compatible(s, c) = {}}
naming(s) == {n \in DOMAIN s.inputs : isPort(s, s.inputs[n], "Input")}
sources(s, ref) == Cardinality({i \in wiring(s) : s.connections[i].to = ref})
                   + Cardinality({n \in naming(s) : s.inputs[n] = ref})

DupInputWire(s) ==
  IF \E r \in {s.connections[i].to : i \in wiring(s)} \cup {s.inputs[n] : n \in naming(s)} :
       sources(s, r) > 1
  THEN {"DUP_INPUT_WIRE"} ELSE {}

RequiredInputs(s) ==
  LET unwired(u) == u.type \in DOMAIN types /\
        \E p \in DOMAIN types[u.type].ports :
          /\ types[u.type].ports[p].direction = "Input" /\ types[u.type].ports[p].required
          /\ sources(s, <<u.name, p>>) = 0
  IN  {"REQUIRED_INPUT_UNWIRED" : i \in {j \in DOMAIN s.units : unwired(s.units[j])}}

\* A uri that is no "scheme://..." stands as "malformed".
validate(s) ==
  UNION {LET u == s.units[i]
         IN  IF u.type \notin DOMAIN types THEN {"UNKNOWN_UNIT_TYPE"}
             ELSE validateParams(types[u.type], u.params) : i \in DOMAIN s.units}
  \cup UNION {LET c == s.connections[i]
              IN  resolvePort(s, c.from, "Output") \cup resolvePort(s, c.to, "Input")
                  \cup (IF isPort(s, c.from, "Output") /\ isPort(s, c.to, "Input")
                        THEN compatible(s, c) ELSE {}) : i \in DOMAIN s.connections}
  \cup UNION {resolvePort(s, s.inputs[n], "Input") : n \in DOMAIN s.inputs}
  \cup UNION {resolvePort(s, s.outputs[n], "Output") : n \in DOMAIN s.outputs}
  \cup DupInputWire(s) \cup RequiredInputs(s)
  \cup {"BAD_REFERENCE" : i \in {j \in DOMAIN s.adapters : s.adapters[j] = "malformed"}}

\* loadSystemFromSpec(): nothing is constructed unless both passes are clean.
loadSystemFromSpec ==
  /\ stage = "raw"
  /\ specErrors' = LET first == parse(document)
                   IN  IF first # {} THEN first ELSE validate(parsed(document))
  /\ stage' = IF specErrors' = {} THEN "constructed" ELSE "refused"
  /\ spec' = IF specErrors' = {} THEN parsed(document) ELSE Absent
  /\ UNCHANGED <<document, types, injected, layoutVars>>

\* UnitFactory::registerType() by whoever loads a plugin: a known name is refused.
registerType(n) == n \notin DOMAIN types /\ types' = [m \in DOMAIN types \cup {n} |-> IF m = n THEN Late[n] ELSE types[m]]

-----------------------------------------------------------------------------
(* SpecSystem::initializeBlocksLayout()                                    *)

\* initialize(), which the states UNINITIALIZED and ERROR permit.
initialize ==
  /\ stage \in {"constructed", "failed", "broken"}
  /\ IF spec.pipelines # << >>
     THEN stage' = "failed" /\ specErrors' = {"UNSUPPORTED_SECTION"} /\ named' = {}
     ELSE stage' = "creating" /\ specErrors' = {} /\ UNCHANGED named
  /\ old' = old + Len(created) /\ excused' = (excused \/ stage = "broken")
  /\ created' = << >> /\ leftover' = named
  /\ UNCHANGED <<document, types, spec, injected>>

\* Fault: the units that were registered stay.
failKeeping(code) ==
  /\ specErrors' = {code} /\ stage' = "failed"
  /\ named' = {}
  /\ UNCHANGED <<created, old, leftover, excused>>

\* rollbackRegisteredUnits(), and then cleanupComponents() of initialize().
fail(code) ==
  /\ specErrors' = {code} /\ stage' = "failed"
  /\ created' = << >> /\ named' = {}
  /\ UNCHANGED <<old, leftover, excused>>

\* UnitFactory::create(): the parameters are validated once more.
factoryCreates(u) == validateParams(types[u.type], u.params) = {}

\* One unit: UnitFactory::create(), the factor, registerProcessingUnit().  The type's own function
\* may throw or return nothing.  A factor that setDownSamplingFactor() refuses throws past the
\* rollback.
create ==
  /\ stage = "creating" /\ Len(created) < Len(spec.units)
  /\ LET u == spec.units[Len(created) + 1]
         full == old + Len(created) >= spec.maxProcessingUnits
     IN  \/ fail("UNKNOWN_UNIT_TYPE")
         \/ /\ factoryCreates(u) /\ u.factor < 1
            /\ stage' = "failed" /\ excused' = TRUE /\ named' = {}
            /\ UNCHANGED <<specErrors, created, old, leftover>>
         \/ factoryCreates(u) /\ u.factor >= 1 /\ full /\ fail("BAD_REFERENCE")
         \/ /\ factoryCreates(u) /\ u.factor >= 1 /\ ~full
            /\ created' = Append(created, u.name)
            /\ UNCHANGED <<stage, specErrors, old, named, leftover, excused>>
  /\ UNCHANGED <<document, types, spec, injected>>

getAdapters ==
  /\ stage = "creating" /\ Len(created) = Len(spec.units)
  /\ IF \A i \in DOMAIN spec.adapters : spec.adapters[i] \in injected
     THEN stage' = "wiring" /\ UNCHANGED <<specErrors, layoutVars>>
     ELSE fail("MISSING_ADAPTER")
  /\ UNCHANGED <<document, types, spec, injected>>

\* findPortByName(), resolveInstantiatedPort() and tryConnect() on the units as they were created.
resolveInstantiatedPort(ref) == ref[1] \in {created[i] : i \in DOMAIN created} /\ resolves(spec, ref)
tryConnect(c) ==
  /\ resolveInstantiatedPort(c.from) /\ resolveInstantiatedPort(c.to)
  /\ isPort(spec, c.from, "Output") /\ isPort(spec, c.to, "Input")
  /\ port(spec, c.from).kind = port(spec, c.to).kind
  /\ port(spec, c.from).dataType = port(spec, c.to).dataType

connect ==
  /\ stage = "wiring"
  /\ IF \A i \in DOMAIN spec.connections : tryConnect(spec.connections[i])
     THEN stage' = "naming" /\ UNCHANGED <<specErrors, layoutVars>>
     ELSE fail("internal defect")
  /\ UNCHANGED <<document, types, spec, injected>>

\* assignSystemInputPort(), assignSystemOutputPort(): a name that is taken is refused.
assignPorts ==
  LET wanted == ({"in"} \X DOMAIN spec.inputs) \cup ({"out"} \X DOMAIN spec.outputs)
      isGood(w) == /\ w \notin named
                   /\ IF w[1] = "in"
                      THEN /\ resolveInstantiatedPort(spec.inputs[w[2]])
                           /\ isPort(spec, spec.inputs[w[2]], "Input")
                      ELSE /\ resolveInstantiatedPort(spec.outputs[w[2]])
                           /\ isPort(spec, spec.outputs[w[2]], "Output")
  IN  /\ stage = "naming"
      /\ IF \A w \in wanted : isGood(w)
         THEN /\ named' = named \cup wanted /\ stage' = "ready"
              /\ UNCHANGED <<specErrors, created, old, leftover, excused>>
         ELSE fail("internal defect")
      /\ UNCHANGED <<document, types, spec, injected>>

-----------------------------------------------------------------------------
(* Around it: the system and its owner.                                    *)

addAdapter(uri) ==
  /\ injected' = injected \cup {uri}
  /\ UNCHANGED <<document, types, spec, specErrors, stage, layoutVars>>

register(n) ==
  /\ registerType(n) /\ UNCHANGED <<document, spec, specErrors, stage, injected, layoutVars>>

\* start() fails: the state is ERROR, units and names stay.
startFails ==
  /\ stage = "ready" /\ stage' = "broken"
  /\ UNCHANGED <<document, types, spec, specErrors, injected, layoutVars>>

\* reset(), with the emergencyShutdown() it begins with: units go, names stay.
reset ==
  /\ stage \in {"constructed", "ready", "failed", "broken"}
  /\ stage' = "constructed" /\ created' = << >> /\ old' = 0 /\ excused' = FALSE
  /\ UNCHANGED <<document, types, spec, specErrors, named, injected, leftover>>

SpecNext ==
  \/ loadSystemFromSpec \/ initialize \/ create \/ getAdapters \/ connect \/ assignPorts
  \/ startFails \/ reset
  \/ \E u \in Uris : addAdapter(u)
  \/ \E n \in DOMAIN Late : register(n)

-----------------------------------------------------------------------------

\* "An internal defect" never shows after validate(), but for names that an earlier layout left;
\* a system that is ready has one source at every required input and at most one at any other;
\* and a layout that did not succeed leaves no unit behind (systemSpec.cpp:928-933).
LayoutSound ==
  /\ "internal defect" \in specErrors => leftover # {}
  /\ stage = "failed" /\ created # << >> => excused
  /\ old > 0 => excused
  /\ stage = "ready" =>
       \A i \in DOMAIN spec.units :
         LET u == spec.units[i]
             from(p) == Cardinality({c \in DOMAIN spec.connections : spec.connections[c].to = <<u.name, p>>})
                        + Cardinality({n \in DOMAIN spec.inputs :
                                         spec.inputs[n] = <<u.name, p>> /\ <<"in", n>> \in named})
         IN  \A p \in DOMAIN types[u.type].ports :
               types[u.type].ports[p].direction = "Input" =>
                 from(p) <= 1 /\ (types[u.type].ports[p].required => from(p) = 1)
=============================================================================
