-------------------------------- MODULE Ports --------------------------------
(***************************************************************************)
(* axonvex::core ports: an output port, the input ports connected to it,   *)
(* the bridges between those, and the units of interfaceUnits.hpp that     *)
(* read them.  Lists of ports are replaced, never edited: a write() goes   *)
(* on with the list it took.                                               *)
(***************************************************************************)
EXTENDS Naturals, Sequences, SequencesExt

CONSTANTS Inputs,     \* input ports, numbers; a bridge leads to a larger one
          Writers,    \* threads that write to the output port
          Wirings,    \* lists of ports the graph may have before anybody writes
          MaxWrites, MaxEdits   \* writes, and edits of the lists or resets, of a run

NaN == 0              \* a value the ports refuse; the others are 1, 2, ...
NoMsg == MaxWrites + 2
T0  == MaxWrites + 1  \* T{}

VARIABLES kind,         \* of all ports of the graph: "sync" or "async"
          connections,  \* connections_ of the output port
          bridgedPorts, \* bridgedPorts_ per input port
          hooked,       \* ports with a validation callback
          traffic,      \* ports with totalMessages_ # 0
          data, flag,   \* data_ and hasNewData_ / wasUpdated_
          work,         \* what is left of a write(): <<what, port>>, first to last
          msg,          \* the value of that write()
          due, served, \* ports connected since the write() began, and those it reached
          reader,       \* where the reader of a port is
          lastRead,     \* what it got last
          writes, edits

portVars == <<kind, connections, bridgedPorts, hooked, traffic, data, flag, work, msg, due,
              served, reader, lastRead, writes, edits>>
readVars == <<reader, lastRead>>
listVars == <<connections, bridgedPorts, hooked>>

Idle(w) == msg[w] = NoMsg

PortsInit ==
  /\ kind \in {"sync", "async"}
  /\ \E wiring \in Wirings :
       connections = wiring.connections /\ bridgedPorts = wiring.bridgedPorts
  /\ hooked = {} /\ traffic = {}
  /\ data = [p \in Inputs |-> T0] /\ flag = [p \in Inputs |-> FALSE]
  /\ work = [w \in Writers |-> <<>>] /\ msg = [w \in Writers |-> NoMsg]
  /\ due = [w \in Writers |-> {}] /\ served = [w \in Writers |-> {}]
  /\ reader = [p \in Inputs |-> "idle"] /\ lastRead = [p \in Inputs |-> T0]
  /\ writes = 0 /\ edits = 0

each(what, ports) == [i \in DOMAIN ports |-> <<what, ports[i]>>]

-----------------------------------------------------------------------------
(* The lists.                                                              *)

edit == edits < MaxEdits /\ edits' = edits + 1

\* connect(), tryConnect(): once per port.
connect(p) ==
  /\ edit /\ ~Contains(connections, p)
  /\ connections' = Append(connections, p)
  /\ UNCHANGED <<kind, bridgedPorts, hooked, traffic, data, flag, work, msg, due, served,
                 readVars, writes>>

\* Fault: the list is edited in place, under the feet of a write() that iterates over it.
disconnectInPlace(p) ==
  /\ edit /\ Contains(connections, p)
  /\ connections' = SelectSeq(connections, LAMBDA q : q # p)
  /\ due' = [w \in Writers |-> due[w] \ {p}]
  /\ work' = [w \in Writers |-> IF p \in served[w] /\ work[w] # <<>> /\ Head(work[w])[1] = "offer"
                                THEN Tail(work[w]) ELSE work[w]]
  /\ UNCHANGED <<kind, bridgedPorts, hooked, traffic, data, flag, msg, served, readVars,
                 writes>>

\* disconnect(), tryDisconnect(); disconnectAll() is one for each.
disconnect(p) ==
  /\ edit /\ Contains(connections, p)
  /\ connections' = SelectSeq(connections, LAMBDA q : q # p)
  /\ due' = [w \in Writers |-> due[w] \ {p}]
  /\ UNCHANGED <<kind, bridgedPorts, hooked, traffic, data, flag, work, msg, served, readVars,
                 writes>>

disconnectAll ==
  /\ edit /\ connections' = <<>>
  /\ due' = [w \in Writers |-> {}]
  /\ UNCHANGED <<kind, bridgedPorts, hooked, traffic, data, flag, work, msg, served, readVars,
                 writes>>

addBridgedPort(p, b) ==
  /\ edit /\ p < b /\ ~Contains(bridgedPorts[p], b)
  /\ bridgedPorts' = [bridgedPorts EXCEPT ![p] = Append(@, b)]
  /\ UNCHANGED <<kind, connections, hooked, traffic, data, flag, work, msg, due, served,
                 readVars, writes>>

removeBridgedPort(p, b) ==
  /\ edit /\ Contains(bridgedPorts[p], b)
  /\ bridgedPorts' = [bridgedPorts EXCEPT ![p] = SelectSeq(@, LAMBDA q : q # b)]
  /\ UNCHANGED <<kind, connections, hooked, traffic, data, flag, work, msg, due, served,
                 readVars, writes>>

\* Both kinds of output port have the same lists, and both kinds of input port the same bridges.
syncConnections(p)  == kind = "sync" /\ (connect(p) \/ disconnect(p))
asyncConnections(p) == kind = "async" /\ (connect(p) \/ disconnect(p))
syncBridges(p, b)   == kind = "sync" /\ (addBridgedPort(p, b) \/ removeBridgedPort(p, b))
asyncBridges(p, b)  == kind = "async" /\ (addBridgedPort(p, b) \/ removeBridgedPort(p, b))

\* setValidationCallback(): refused once the port carried a message.
setValidationCallback(p) ==
  /\ edit /\ p \notin traffic
  /\ hooked' = hooked \cup {p}
  /\ UNCHANGED <<kind, connections, bridgedPorts, traffic, data, flag, work, msg, due, served,
                 readVars, writes>>

-----------------------------------------------------------------------------
(* write(): on the thread of the writer, through every port and its bridges. *)

beginWrite(w, v, steps) ==
  /\ Idle(w) /\ writes < MaxWrites /\ writes' = writes + 1
  /\ msg' = [msg EXCEPT ![w] = v] /\ work' = [work EXCEPT ![w] = steps]
  /\ due' = [due EXCEPT ![w] = {steps[i][2] : i \in DOMAIN steps}]
  /\ UNCHANGED <<kind, listVars, traffic, data, flag, served, readVars, edits>>

\* OutputPort: it drops NaN itself.
write(w) ==
  /\ kind = "sync"
  /\ beginWrite(w, NaN, <<>>) \/ beginWrite(w, writes + 1, each("offer", connections))

\* AsyncOutputPort: it leaves NaN to its inputs.
asyncWrite(w) ==
  /\ kind = "async"
  /\ \E v \in {NaN, writes + 1} : beginWrite(w, v, each("offer", connections))

Doing(w, what, p) ==
  work[w] # <<>> /\ LET step == Head(work[w]) IN step[1] = what /\ step[2] = p

goOn(w, more) == work' = [work EXCEPT ![w] = more \o Tail(@)]

\* writeData() and update(): a message is refused,
refuse(w, p) ==
  /\ Doing(w, "offer", p) /\ (msg[w] = NaN \/ p \in hooked)
  /\ goOn(w, <<>>) /\ traffic' = traffic \cup {p}
  /\ served' = [served EXCEPT ![w] = @ \cup {p}]
  /\ UNCHANGED <<kind, listVars, data, flag, msg, due, readVars, writes, edits>>

\* or stored, before the flag is raised.
store(w, p) ==
  /\ Doing(w, "offer", p) /\ msg[w] # NaN
  /\ goOn(w, <<<<"flag", p>>>>) /\ traffic' = traffic \cup {p}
  /\ data' = [data EXCEPT ![p] = msg[w]]
  /\ served' = [served EXCEPT ![w] = @ \cup {p}]
  /\ UNCHANGED <<kind, listVars, flag, msg, due, readVars, writes, edits>>

raise(w, p) ==
  /\ Doing(w, "flag", p) /\ goOn(w, <<<<"bridges", p>>>>)
  /\ flag' = [flag EXCEPT ![p] = TRUE]
  /\ UNCHANGED <<kind, listVars, traffic, data, msg, due, served, readVars, writes, edits>>

\* The data callback ran; the bridges as they are now.
propagate(w, p) ==
  /\ Doing(w, "bridges", p) /\ goOn(w, each("offer", bridgedPorts[p]))
  /\ UNCHANGED <<kind, listVars, traffic, data, flag, msg, due, served, readVars, writes,
                 edits>>

\* One step of an InputPort's writeData() and of an AsyncInputPort's update().
writeData(w, p) ==
  kind = "sync" /\ (refuse(w, p) \/ store(w, p) \/ raise(w, p) \/ propagate(w, p))
update(w, p) ==
  kind = "async" /\ (refuse(w, p) \/ store(w, p) \/ raise(w, p) \/ propagate(w, p))

written(w) ==
  /\ ~Idle(w) /\ work[w] = <<>>
  /\ msg' = [msg EXCEPT ![w] = NoMsg]
  /\ due' = [due EXCEPT ![w] = {}] /\ served' = [served EXCEPT ![w] = {}]
  /\ UNCHANGED <<kind, listVars, traffic, data, flag, work, readVars, writes, edits>>

-----------------------------------------------------------------------------
(* The reader of a port: processSync() and processAsync() of PublisherUnit  *)
(* and ClientUnit, and reset() by the control port of its unit.             *)

rAt(p, from, to) == reader[p] = from /\ reader' = [reader EXCEPT ![p] = to]
fetch(p) == lastRead' = [lastRead EXCEPT ![p] = data[p]] /\ UNCHANGED flag
lower(p) == flag' = [flag EXCEPT ![p] = FALSE] /\ UNCHANGED lastRead
readerOnly == UNCHANGED <<kind, listVars, traffic, work, msg, due, served, writes>>

look(p) ==
  /\ flag[p] /\ rAt(p, "idle", IF kind = "async" THEN "lower" ELSE "read")
  /\ readerOnly /\ UNCHANGED <<data, flag, lastRead, edits>>

\* InputPort: read(), and clearNewDataFlag() behind it.
syncRead(p) ==
  /\ \/ rAt(p, "read", "clear") /\ fetch(p)
     \/ rAt(p, "clear", "idle") /\ lower(p)
  /\ readerOnly /\ UNCHANGED <<data, edits>>

\* Fault: the data are taken first, the flag is lowered behind.
asyncReadSwapped(p) ==
  /\ \/ rAt(p, "lower", "take") /\ fetch(p)
     \/ rAt(p, "take", "idle") /\ lower(p)
  /\ readerOnly /\ UNCHANGED <<data, edits>>

\* AsyncInputPort: read() lowers the flag, then takes the data.
asyncRead(p) ==
  /\ \/ rAt(p, "lower", "take") /\ lower(p)
     \/ rAt(p, "take", "idle") /\ fetch(p)
  /\ readerOnly /\ UNCHANGED <<data, edits>>

\* reset(): what it discards counts as read.
resetPort(p) ==
  /\ \/ /\ edit /\ rAt(p, "idle", "reset")
        /\ data' = [data EXCEPT ![p] = T0] /\ UNCHANGED <<flag, lastRead>>
     \/ /\ rAt(p, "reset", "idle") /\ flag' = [flag EXCEPT ![p] = FALSE]
        /\ lastRead' = [lastRead EXCEPT ![p] = data[p]] /\ UNCHANGED <<data, edits>>
  /\ readerOnly

PortsNext ==
  \/ \E p \in Inputs : \/ syncConnections(p) \/ asyncConnections(p) \/ setValidationCallback(p)
                       \/ look(p) \/ syncRead(p) \/ asyncRead(p) \/ resetPort(p)
                       \/ \E b \in Inputs : syncBridges(p, b) \/ asyncBridges(p, b)
  \/ disconnectAll
  \/ \E w \in Writers : \/ write(w) \/ asyncWrite(w) \/ written(w)
                        \/ \E p \in Inputs : writeData(w, p) \/ update(w, p)

-----------------------------------------------------------------------------

\* AsyncInputPort: read() lowers the flag before it takes the data, so nothing that was stored
\* stays unseen: what lies in a port that is not marked new, and that nobody is storing to, is
\* what its reader got last.
UpdatesAreSeen ==
  kind = "async" =>
    \A p \in Inputs :
      /\ reader[p] = "idle" /\ ~flag[p]
      /\ \A w \in Writers : ~Doing(w, "flag", p)
      => data[p] = lastRead[p]

\* write() reaches every port that is connected from its beginning to its end, whatever is
\* connected or disconnected meanwhile; NaN never arrives.
WriteReachesAll ==
  /\ \A w \in Writers : ~Idle(w) /\ work[w] = <<>> => due[w] \subseteq served[w]
  /\ \A p \in Inputs : data[p] # NaN
=============================================================================
