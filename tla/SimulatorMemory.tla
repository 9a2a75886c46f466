--------------------------- MODULE SimulatorMemory ---------------------------
(* The package that lib/emit/verilator_repcut_package.cpp emits for the top   *)
(* graph that RepCut leaves: instances of the parts, assigns and constants.   *)
(* emitImpl resolves what drives every input of every unit; the generated     *)
(* simulator is the list of functions of each phase and these drivers.        *)
(* Names, widths and the text of the files are left out.                      *)
(*                                                                            *)
(* A top graph: inputs, the values of its input ports; ops, its operations in *)
(* order, [kind, name, args, res, ins, outs, fault], blackboxes being         *)
(* instances like the others; outputs, port -> value.                         *)
(* ins and outs are the numbers of named ports of an instance, fault stands   *)
(* for what makes emitImpl give up at the operation itself (no constValue, no *)
(* moduleName, inout ports, an unknown graph, a shim that cannot be built).   *)
EXTENDS Integers, Sequences, FiniteSets

Elements(s) == {s[i] : i \in 1..Len(s)}

OpsOf(top, kind) == {op \in Elements(top.ops) : op.kind = kind}
Instances(top) == OpsOf(top, "instance")

(* One wire per assign with one operand and one result.                       *)
Aliases(top) ==
    {[src |-> op.args[1], dst |-> op.res[1]] :
        op \in {o \in OpsOf(top, "assign") : Len(o.args) = 1 /\ Len(o.res) = 1}}

(* An input port or a constant of the top, named by its value; an output port *)
(* of a unit.                                                                 *)
Driver(kind, value, unit, port) ==
    [kind |-> kind, value |-> value, unit |-> unit, port |-> port]
TopDriver(v)     == Driver("top", v, "none", 0)
ConstDriver(v)   == Driver("const", v, "none", 0)
UnitDriver(u, i) == Driver("unit", "none", u, i)

(* What is driven before the assigns are followed: a result of an instance    *)
(* replaces what the table holds, the others only fill it.                    *)
DirectDrivers(top) ==
    LET results == UNION {{[v |-> op.res[i], d |-> UnitDriver(op.name, i)] : i \in 1..op.outs} :
                             op \in Instances(top)}
        consts  == {[v |-> op.res[1], d |-> ConstDriver(op.res[1])] :
                      op \in {o \in OpsOf(top, "const") : o.res # <<>>}}
        driven  == {r.v : r \in results}
        fixed   == {c.v : c \in consts}
    IN  [v \in driven \cup fixed \cup top.inputs |->
           IF v \in driven THEN (CHOOSE r \in results : r.v = v).d
           ELSE IF v \in top.inputs THEN TopDriver(v)
           ELSE ConstDriver(v)]

(* The loop over the assigns, until a pass changes nothing: a value is given  *)
(* the driver of its source once the source has one. Every value has one      *)
(* definition, so that the order within a pass does not matter.               *)
AliasPass(top, d) ==
    LET ready == {a \in Aliases(top) : a.src \in DOMAIN d /\ a.dst \notin DOMAIN d}
    IN  [v \in DOMAIN d \cup {a.dst : a \in ready} |->
           IF v \in DOMAIN d THEN d[v] ELSE d[(CHOOSE a \in ready : a.dst = v).src]]

Drivers(top) ==
    LET passes == Cardinality(Aliases(top))
        after[k \in 0..passes] ==
            IF k = 0 THEN DirectDrivers(top) ELSE AliasPass(top, after[k - 1])
    IN  after[passes]

(* An input slot of a unit and the value the top graph connects to it; an     *)
(* output port of the top.                                                    *)
UnitSlots(top) == UNION {{<<op.name, i>> : i \in 1..op.ins} : op \in Instances(top)}
PortSlots(top) == {<<"top", p>> : p \in DOMAIN top.outputs}
Wire(top, slot) ==
    IF slot \in PortSlots(top) THEN top.outputs[slot[2]]
    ELSE (CHOOSE op \in Instances(top) : op.name = slot[1]).args[slot[2]]

(* Every way in which emitImpl returns without a package.                     *)
Refused(top) ==
    \/ \E op \in Elements(top.ops) : op.fault
    \/ \E i, j \in 1..Len(top.ops) :
         /\ i # j
         /\ top.ops[i].kind = "instance" /\ top.ops[j].kind = "instance"
         /\ top.ops[i].name = top.ops[j].name
    \/ \E op \in Instances(top) : Len(op.args) < op.ins \/ Len(op.res) < op.outs
    \/ \E s \in UnitSlots(top) : Wire(top, s) \notin DOMAIN Drivers(top)
    \/ \E s \in PortSlots(top) :
         \/ Wire(top, s) \notin DOMAIN Drivers(top)
         \/ Drivers(top)[Wire(top, s)].kind # "unit"

(* The elements of s at the positions of S, in order (SelectSeq, but over     *)
(* positions, so that one can reason about it).                               *)
Kept(s, S) ==
    LET kept[i \in 0..Len(s)] ==
          IF i = 0 THEN <<>>
          ELSE IF i \in S THEN Append(kept[i - 1], s[i]) ELSE kept[i - 1]
    IN  kept[Len(s)]

(* The functions of the phases, in the order of the instances: every unit has *)
(* an eval function, a load function if an input of the top feeds it, an      *)
(* update function if another unit or an output of the top reads it.          *)
EvalOrder(top) ==
    LET instances == Kept(top.ops, {i \in 1..Len(top.ops) : top.ops[i].kind = "instance"})
    IN  [i \in 1..Len(instances) |-> instances[i].name]
LoadOrder(top, from) ==
    LET units == EvalOrder(top)
    IN  Kept(units, {i \in 1..Len(units) :
                       \E s \in DOMAIN from : s[1] = units[i] /\ from[s].kind = "top"})
UpdateOrder(top, from) ==
    LET units == EvalOrder(top)
    IN  Kept(units, {i \in 1..Len(units) :
                       \E s \in DOMAIN from : from[s].kind = "unit" /\ from[s].unit = units[i]})

NoPackage(top) ==
    [ok |-> FALSE, graph |-> top, loads |-> <<>>, evals |-> <<>>, updates |-> <<>>, from |-> <<>>]

(* emitImpl: the package of a top graph. from gives the driver of every slot. *)
(* graph is not part of the files: it is what the properties compare with.    *)
Emit(top) ==
    IF Refused(top) THEN NoPackage(top)
    ELSE LET from == [s \in UnitSlots(top) \cup PortSlots(top) |-> Drivers(top)[Wire(top, s)]]
         IN  [ok |-> TRUE, graph |-> top, loads |-> LoadOrder(top, from),
              evals |-> EvalOrder(top), updates |-> UpdateOrder(top, from), from |-> from]

(* What the netlist says drives a value, read off the definitions from the    *)
(* value backwards: the reference for the drivers of the package.             *)
Source(top, v) ==
    LET Defines(op, w) == \E i \in 1..Len(op.res) : op.res[i] = w
        back[k \in 0..Len(top.ops)] ==
            IF k = 0 THEN v
            ELSE LET w == back[k - 1]
                 IN  IF \E op \in OpsOf(top, "assign") : Defines(op, w)
                       THEN (CHOOSE op \in OpsOf(top, "assign") : Defines(op, w)).args[1]
                       ELSE w
        root == back[Len(top.ops)]
    IN  IF root \in top.inputs THEN TopDriver(root)
        ELSE LET op == CHOOSE o \in Elements(top.ops) : Defines(o, root)
             IN  IF op.kind = "const" THEN ConstDriver(root)
                 ELSE UnitDriver(op.name, CHOOSE i \in 1..Len(op.res) : op.res[i] = root)

(* A top graph as the passes leave it: a value has one definition, inputs     *)
(* have none, and an assign copies one value to another.                      *)
WellFormedTop(top) ==
    /\ top.ops \in Seq(Elements(top.ops))
    /\ \A o \in Elements(top.ops) :
         /\ o.res \in Seq(Elements(o.res)) /\ o.ins \in Nat /\ o.outs \in Nat
         /\ \A i \in 1..Len(o.res) : o.res[i] \notin top.inputs
         /\ o.kind = "assign" => Len(o.args) = 1 /\ Len(o.res) = 1
    /\ \A o, p \in Elements(top.ops) : \A i \in 1..Len(o.res), j \in 1..Len(p.res) :
         o.res[i] = p.res[j] => o = p /\ i = j

(* What a package owes to its graph: every slot is driven by what the netlist *)
(* says, and whatever drives a slot has a function that fills it.             *)
DriversFaithful(p) ==
    /\ DOMAIN p.from = UnitSlots(p.graph) \cup PortSlots(p.graph)
    /\ \A s \in DOMAIN p.from :
         /\ p.from[s] = Source(p.graph, Wire(p.graph, s))
         /\ p.from[s].kind \in {"top", "const", "unit"}
    /\ \A s \in PortSlots(p.graph) : p.from[s].kind = "unit"
ListsFaithful(p) ==
    \A s \in DOMAIN p.from :
      /\ p.from[s].kind = "top" => s[1] \in Elements(p.loads)
      /\ p.from[s].kind = "unit" => p.from[s].unit \in Elements(p.updates)
Faithful(p) == DriversFaithful(p) /\ ListsFaithful(p)

(* A unit occurs once in a list.                                              *)
Orderly(p) ==
    \A o \in {p.loads, p.evals, p.updates} :
      /\ o \in Seq(Elements(p.evals))
      /\ \A i, j \in 1..Len(o) : o[i] = o[j] => i = j

-----------------------------------------------------------------------------
(* The members of the simulator class that verilator_repcut_package.cpp       *)
(* generates, and what one load, eval or update function does to them.        *)

CONSTANTS
    Packages,    \* the packages a simulator may be generated from
    MaxSteps     \* bound: calls of step()

(* They are what emitImpl makes of the graphs it is given; slot 0, no number  *)
(* of a port, stands for the outputs of a unit.                               *)
ASSUME PackagesAssumption ==
    \A p \in Packages :
        WellFormedTop(p.graph) /\ 0 \notin DOMAIN p.graph.outputs /\ p = Emit(p.graph)
ASSUME StepsAssumption == MaxSteps \in Nat

VARIABLES
    pkg,         \* the package
    step,        \* calls of step() so far
    phase,       \* the list of functions that runs; "idle" between steps, "off" without workers
    held,        \* slot -> what the member that feeds it holds
    evals        \* unit -> evaluations so far: the version of its outputs

memory == <<pkg, step, phase, held, evals>>

Phases == {"load", "eval", "update"}
NextPhase(p) == CASE p = "load" -> "eval" [] p = "eval" -> "update" [] OTHER -> "idle"

(* load_step_fns_, eval_step_fns_, update_step_fns_: units in order.          *)
Fns(p) ==
    CASE p = "load"   -> pkg.loads
      [] p = "eval"   -> pkg.evals
      [] p = "update" -> pkg.updates
      [] OTHER        -> <<>>

(* A member holds a version of what drives it: the number of the step in      *)
(* which an input of the top was loaded, of the evaluation of a unit.         *)
Filled(slots, version) ==
    [s \in DOMAIN held |->
       IF s \in slots THEN [from |-> pkg.from[s], at |-> version] ELSE held[s]]

TopSlots(u)    == {s \in DOMAIN pkg.from : s[1] = u /\ pkg.from[s].kind = "top"}
ConstSlots     == {s \in DOMAIN pkg.from : pkg.from[s].kind = "const"}
PushedSlots(u) == {s \in DOMAIN pkg.from : pkg.from[s].kind = "unit" /\ pkg.from[s].unit = u}
InputSlots(u)  == {s \in DOMAIN pkg.from : s[1] = u}

(* run_load_u_, run_eval_u_ and run_update_u_.                                *)
LoadFn(u)   == held' = Filled(TopSlots(u), step) /\ UNCHANGED evals
EvalFn(u)   == evals' = [evals EXCEPT ![u] = @ + 1] /\ UNCHANGED held
UpdateFn(u) == held' = Filled(PushedSlots(u), evals[u]) /\ UNCHANGED evals

(* The i-th function of the list p.                                           *)
CallFn(p, i) ==
    \/ p = "load" /\ LoadFn(Fns(p)[i])
    \/ p = "eval" /\ EvalFn(Fns(p)[i])
    \/ p = "update" /\ UpdateFn(Fns(p)[i])

(* The members before the constructor's body: Verilator zeroes them.          *)
Zero == [from |-> Driver("zero", "none", "none", 0), at |-> 0]
MemoryInit ==
    /\ pkg \in Packages
    /\ step = 0
    /\ phase = "off"
    /\ held = [s \in DOMAIN pkg.from |-> Zero]
    /\ evals = [u \in Elements(pkg.evals) |-> 0]
=============================================================================
