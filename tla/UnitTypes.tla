------------------------------ MODULE UnitTypes ------------------------------
(***************************************************************************)
(* The introspection records of unit types, the check of parameters        *)
(* against them, and the three built-in types.  A JSON value is a pair     *)
(* of its type and its value; what an object lacks is Absent.              *)
(***************************************************************************)
EXTENDS Integers, Sequences, FiniteSets

Absent    == <<"absent", 0>>
Text(s)   == <<"string", s>>
Number(n) == <<"int", n>>
Object(f) == <<"object", f>>
Array(s)  == <<"array", s>>

\* obj.contains(key), obj.at(key)
at(obj, key) == IF key \in DOMAIN obj[2] THEN obj[2][key] ELSE Absent

Port(direction, kind, dataType, required) ==
  [direction |-> direction, kind |-> kind, dataType |-> dataType, required |-> required]
Param(type, required, low, high) ==
  [type |-> type, required |-> required, low |-> low, high |-> high]
UnitType(ports, params) == [ports |-> ports, params |-> params]

Unbounded == 1000        \* no "max" among the constraints

jsonTypeMatches(type, value) ==
  CASE type = "Bool"             -> value[1] = "bool"
    [] type = "Int"              -> value[1] = "int"
    [] type = "Double"           -> value[1] \in {"int", "double"}
    [] type \in {"String", "Enum"} -> value[1] = "string"
    [] type = "Object"           -> value[1] = "object"

\* Bounds are for numbers; an enumeration lists its values.
constraintsSatisfied(desc, value) ==
  CASE desc.type = "Enum" -> value[2] \in desc.low
    [] desc.type \in {"Int", "Double"} -> value[2] >= desc.low /\ value[2] <= desc.high
    [] OTHER -> TRUE

validateParams(meta, params) ==
  LET keys == IF params = Absent THEN {} ELSE DOMAIN params[2]
      bad(k) == LET desc == meta.params[k]
                IN  \/ k \notin keys /\ desc.required
                    \/ k \in keys /\ ~ (/\ jsonTypeMatches(desc.type, params[2][k])
                                        /\ constraintsSatisfied(desc, params[2][k]))
  IN  {"UNKNOWN_KEY" : k \in keys \ DOMAIN meta.params}
      \cup {"PARAM_CONSTRAINT" : k \in {q \in DOMAIN meta.params : bad(q)}}

-----------------------------------------------------------------------------
(* builtinUnits.cpp                                                        *)

Nothing == [p \in {} |-> 0]
SineGenerator ==
  UnitType([p \in {"out"} |-> Port("Output", "Sync", "double", TRUE)],
           [p \in {"frequencyHz", "amplitude"} |-> Param("Double", FALSE, 0, Unbounded)])
MovingAverage ==
  UnitType([p \in {"in", "out"} |-> Port(IF p = "in" THEN "Input" ELSE "Output", "Sync", "double", TRUE)],
           [p \in {"window"} |-> Param("Int", TRUE, 1, 4096)])
StatsSink ==
  UnitType([p \in {"in"} |-> Port("Input", "Sync", "double", TRUE)], Nothing)

registerBuiltinUnitTypes ==
  [n \in {"axonvex.SineGenerator", "axonvex.MovingAverage", "axonvex.StatsSink"} |->
     CASE n = "axonvex.SineGenerator" -> SineGenerator
       [] n = "axonvex.MovingAverage" -> MovingAverage
       [] OTHER -> StatsSink]
=============================================================================
