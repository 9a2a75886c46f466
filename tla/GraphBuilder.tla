------------------------------ MODULE GraphBuilder ------------------------------
(***************************************************************************)
(* wolvrix::lib::grh::GraphBuilder: the mutable form of a netlist graph.   *)
(* Values and operations live in two arrays and are named by index, from   *)
(* 1; an erased entry stays in its array with alive = false.  The edges    *)
(* are kept twice: an operation holds its operands and its results, a      *)
(* value holds the list of its users and its defining operation; symbols   *)
(* and port bindings are kept twice as well (an index by symbol, flags on  *)
(* the values).  The properties relate the two copies.                     *)
(*                                                                         *)
(* Abstracted: the order of a use list (a bag of (operation, operand       *)
(* index) pairs) and of a port list (a function from port name to value,   *)
(* None when unbound), and what the edges do not depend on: kinds,         *)
(* attributes, widths, source locations.  A call that throws before it     *)
(* changes anything is no step.                                            *)
(***************************************************************************)
EXTENDS Integers, Sequences, SequencesExt

CONSTANTS MaxValues, MaxOps,       \* bounds: sizes of the two arrays
          MaxArity,                \* bound: operands, or results, of one operation
          Syms, NoSym,             \* symbols of the graph's symbol table; SymbolId::invalid()
          PortNames,               \* names of input and of output ports
          InoutNames,              \* names of inout ports
          Unchecked,               \* do callers use the unchecked erasures?
          PortCallsFail            \* do callers make port calls that throw?

ASSUME BuilderAssumption == /\ MaxValues \in Nat /\ MaxOps \in Nat /\ MaxArity \in Nat
                            /\ NoSym \notin Syms
                            /\ Unchecked \in BOOLEAN /\ PortCallsFail \in BOOLEAN

None == 0                          \* ValueId::invalid(), OperationId::invalid()
ValueIds == 1 .. MaxValues
OpIds == 1 .. MaxOps
Users == OpIds \X (1 .. MaxArity)  \* ValueUser: an operation and an operand index
NoBinding == <<"none", None>>
Bindings == {NoBinding} \union ({"value"} \X ValueIds) \union ({"op"} \X OpIds)
InoutPorts == [in : ValueIds, out : ValueIds, oe : ValueIds]
Unbound == [in |-> None, out |-> None, oe |-> None]

VARIABLES
  valueCount, opCount,             \* sizes of values_ and operations_
  valueAlive, opAlive,             \* entries whose alive is true
  definingOp, valueUsers,          \* of a value
  operands, results,               \* of an operation
  valueSymbol, opSymbol, symbolIndex,
  inputPorts, outputPorts, inoutPorts,
  isInput, isOutput, isInout       \* values whose flag is set

entryVars == <<valueCount, opCount, valueAlive, opAlive>>
useVars == <<operands, valueUsers>>
defVars == <<results, definingOp>>
symbolVars == <<valueSymbol, opSymbol, symbolIndex>>
flagVars == <<isInput, isOutput, isInout>>
portVars == <<inputPorts, outputPorts, inoutPorts, isInput, isOutput, isInout>>
builderVars == <<valueCount, opCount, valueAlive, opAlive, definingOp, valueUsers,
                 operands, results, valueSymbol, opSymbol, symbolIndex, inputPorts,
                 outputPorts, inoutPorts, isInput, isOutput, isInout>>

Init == /\ valueCount = 0 /\ opCount = 0 /\ valueAlive = {} /\ opAlive = {}
        /\ definingOp = [v \in ValueIds |-> None]
        /\ valueUsers = [v \in ValueIds |-> [u \in Users |-> 0]]
        /\ operands = [o \in OpIds |-> <<>>]
        /\ results = [o \in OpIds |-> <<>>]
        /\ valueSymbol = [v \in ValueIds |-> NoSym] /\ opSymbol = [o \in OpIds |-> NoSym]
        /\ symbolIndex = [s \in Syms |-> NoBinding]
        /\ inputPorts = [n \in PortNames |-> None]
        /\ outputPorts = [n \in PortNames |-> None]
        /\ inoutPorts = [n \in InoutNames |-> Unbound]
        /\ isInput = {} /\ isOutput = {} /\ isInout = {}

(***************************************************************************)
(* The symbol index: bindSymbol throws when the symbol is taken.           *)
(***************************************************************************)
BindSymbol(index, sym, binding) == [index EXCEPT ![sym] = binding]
UnbindSymbol(index, sym) == [index EXCEPT ![sym] = NoBinding]
Free(sym) == symbolIndex[sym] = NoBinding

AddValue(sym) ==
  LET v == valueCount + 1 IN
  /\ v \in ValueIds /\ Free(sym)
  /\ valueCount' = v
  /\ valueAlive' = valueAlive \union {v}
  /\ valueSymbol' = [valueSymbol EXCEPT ![v] = sym]
  /\ symbolIndex' = BindSymbol(symbolIndex, sym, <<"value", v>>)
  /\ UNCHANGED <<opCount, opAlive, opSymbol, useVars, defVars, portVars>>

AddOp(sym) ==
  LET o == opCount + 1 IN
  /\ o \in OpIds /\ Free(sym)
  /\ opCount' = o
  /\ opAlive' = opAlive \union {o}
  /\ opSymbol' = [opSymbol EXCEPT ![o] = sym]
  /\ symbolIndex' = BindSymbol(symbolIndex, sym, <<"op", o>>)
  /\ UNCHANGED <<valueCount, valueAlive, valueSymbol, useVars, defVars, portVars>>

\* Mutant: leaves the old symbol bound.
SetValueSymbolKeepsOld(v, sym) ==
  /\ v \in valueAlive /\ Free(sym)
  /\ symbolIndex' = BindSymbol(symbolIndex, sym, <<"value", v>>)
  /\ valueSymbol' = [valueSymbol EXCEPT ![v] = sym]
  /\ UNCHANGED <<entryVars, opSymbol, useVars, defVars, portVars>>

SetValueSymbol(v, sym) ==
  /\ v \in valueAlive /\ Free(sym)
  /\ symbolIndex' = BindSymbol(UnbindSymbol(symbolIndex, valueSymbol[v]), sym, <<"value", v>>)
  /\ valueSymbol' = [valueSymbol EXCEPT ![v] = sym]
  /\ UNCHANGED <<entryVars, opSymbol, useVars, defVars, portVars>>

SetOpSymbol(o, sym) ==
  /\ o \in opAlive /\ Free(sym)
  /\ symbolIndex' = BindSymbol(UnbindSymbol(symbolIndex, opSymbol[o]), sym, <<"op", o>>)
  /\ opSymbol' = [opSymbol EXCEPT ![o] = sym]
  /\ UNCHANGED <<entryVars, valueSymbol, useVars, defVars, portVars>>

(***************************************************************************)
(* Operands and use lists.  An insertion or a removal shifts the operands  *)
(* behind it, so the code takes every use of the operation out of the use  *)
(* lists and puts those of the new operand list in; a replacement moves    *)
(* one use.                                                                *)
(***************************************************************************)
UseAt(s, v, k) == IF k \in DOMAIN s /\ s[k] = v THEN 1 ELSE 0

\* The use lists that the operands of the live operations make up.
UsesOf(ops, live) ==
  [v \in ValueIds |-> [u \in Users |-> IF u[1] \in live THEN UseAt(ops[u[1]], v, u[2]) ELSE 0]]

AddOpUses(lists, o, s) ==
  [v \in ValueIds |-> [u \in Users |->
     IF u[1] = o THEN lists[v][u] + UseAt(s, v, u[2]) ELSE lists[v][u]]]

RemoveOpUses(lists, o, s) ==
  [v \in ValueIds |-> [u \in Users |->
     IF u[1] = o THEN lists[v][u] - UseAt(s, v, u[2]) ELSE lists[v][u]]]

AddValueUser(lists, v, o, k) == [lists EXCEPT ![v][<<o, k>>] = @ + 1]
RemoveValueUser(lists, v, o, k) == [lists EXCEPT ![v][<<o, k>>] = @ - 1]

SetOperands(o, s) == operands' = [operands EXCEPT ![o] = s]
UseStep == UNCHANGED <<entryVars, defVars, symbolVars, portVars>>

AddOperand(o, v) ==
  /\ o \in opAlive /\ v \in valueAlive
  /\ Len(operands[o]) < MaxArity
  /\ SetOperands(o, Append(operands[o], v))
  /\ valueUsers' = AddValueUser(valueUsers, v, o, Len(operands[o]) + 1)
  /\ UseStep

InsertOperand(o, k, v) ==
  /\ o \in opAlive /\ v \in valueAlive
  /\ Len(operands[o]) < MaxArity /\ k \in 1 .. Len(operands[o]) + 1
  /\ LET s == InsertAt(operands[o], k, v) IN
     /\ SetOperands(o, s)
     /\ valueUsers' = AddOpUses(RemoveOpUses(valueUsers, o, operands[o]), o, s)
  /\ UseStep

ReplaceOperand(o, k, v) ==
  /\ o \in opAlive /\ v \in valueAlive
  /\ k \in DOMAIN operands[o] /\ operands[o][k] # v
  /\ SetOperands(o, [operands[o] EXCEPT ![k] = v])
  /\ valueUsers' = AddValueUser(RemoveValueUser(valueUsers, operands[o][k], o, k), v, o, k)
  /\ UseStep

\* Mutant: leaves the operand indices behind the gap as they are.
EraseOperandUnshifted(o, k) ==
  /\ o \in opAlive /\ k \in DOMAIN operands[o]
  /\ SetOperands(o, RemoveAt(operands[o], k))
  /\ valueUsers' = RemoveValueUser(valueUsers, operands[o][k], o, k)
  /\ UseStep

EraseOperand(o, k) ==
  /\ o \in opAlive /\ k \in DOMAIN operands[o]
  /\ LET s == RemoveAt(operands[o], k) IN
     /\ SetOperands(o, s)
     /\ valueUsers' = AddOpUses(RemoveOpUses(valueUsers, o, operands[o]), o, s)
  /\ UseStep

\* Mutant: rewrites one operand of each user.
RewriteUsesOnce(ops, lists, from, to, skipOp) ==
  [o \in OpIds |-> [k \in DOMAIN ops[o] |->
     IF o \in opAlive \ skipOp /\ lists[from][<<o, k>>] > 0
        /\ \A j \in 1 .. k - 1 : lists[from][<<o, j>>] = 0 THEN to ELSE ops[o][k]]]

\* replaceAllUsesInternal with skipOp = {} or {o}: the use list of from says
\* which operands are rewritten; it keeps the uses of skipOp, loses those of
\* erased operations, and the other ones go to the use list of to.
RewriteUses(ops, lists, from, to, skipOp) ==
  [o \in OpIds |-> [k \in DOMAIN ops[o] |->
     IF o \in opAlive \ skipOp /\ lists[from][<<o, k>>] > 0 THEN to ELSE ops[o][k]]]

MovedUse(lists, from, to, skipOp, v, u) ==
  IF v = from THEN IF u[1] \in skipOp THEN lists[v][u] ELSE 0
  ELSE IF v = to /\ u[1] \in opAlive \ skipOp THEN lists[v][u] + lists[from][u]
  ELSE lists[v][u]

MoveUses(lists, from, to, skipOp) ==
  IF from = to THEN lists
  ELSE [v \in ValueIds |-> [u \in Users |-> MovedUse(lists, from, to, skipOp, v, u)]]

ReplaceAllUses(from, to) ==
  /\ from \in valueAlive /\ to \in valueAlive /\ from # to
  /\ operands' = RewriteUses(operands, valueUsers, from, to, {})
  /\ valueUsers' = MoveUses(valueUsers, from, to, {})
  /\ UseStep

(***************************************************************************)
(* Results and defining operations.                                        *)
(***************************************************************************)
Unused(v) == \A u \in Users : valueUsers[v][u] = 0
UnusedBut(v, o) == \A u \in Users : u[1] # o => valueUsers[v][u] = 0
InoutValues(ports) == (UNION {{ports[n].in, ports[n].out, ports[n].oe} : n \in InoutNames}) \ {None}
\* Mutant: forgets the output ports.
NoInputPort(v) == v \notin isInput \union InoutValues(inoutPorts)

\* Mutant: looks at the flags only.
NoFlag(v) == v \notin isInput \union isOutput \union isInout

NoPort(v) == v \notin isInput \union isOutput \union InoutValues(inoutPorts)

SetResults(o, s) == results' = [results EXCEPT ![o] = s]
DefStep == UNCHANGED <<entryVars, useVars, symbolVars, portVars>>

AddResult(o, v) ==
  /\ o \in opAlive /\ v \in valueAlive /\ definingOp[v] = None
  /\ Len(results[o]) < MaxArity
  /\ SetResults(o, Append(results[o], v))
  /\ definingOp' = [definingOp EXCEPT ![v] = o]
  /\ DefStep

InsertResult(o, k, v) ==
  /\ o \in opAlive /\ v \in valueAlive /\ definingOp[v] = None
  /\ Len(results[o]) < MaxArity /\ k \in 1 .. Len(results[o]) + 1
  /\ SetResults(o, InsertAt(results[o], k, v))
  /\ definingOp' = [definingOp EXCEPT ![v] = o]
  /\ DefStep

ReplaceResult(o, k, v) ==
  /\ o \in opAlive /\ v \in valueAlive
  /\ k \in DOMAIN results[o] /\ results[o][k] # v /\ definingOp[v] = None
  /\ SetResults(o, [results[o] EXCEPT ![k] = v])
  /\ definingOp' = [w \in ValueIds |->
       IF w = v THEN o
       ELSE IF w = results[o][k] /\ definingOp[w] = o THEN None ELSE definingOp[w]]
  /\ DefStep

EraseResult(o, k) ==
  /\ o \in opAlive /\ k \in DOMAIN results[o]
  /\ LET v == results[o][k] IN
     /\ v \in valueAlive /\ Unused(v) /\ NoPort(v)
     /\ definingOp' = [definingOp EXCEPT ![v] = None]
  /\ SetResults(o, RemoveAt(results[o], k))
  /\ DefStep

(***************************************************************************)
(* Erasing an operation.  eraseOp fails while another operation uses a     *)
(* result; eraseOpUnchecked does not look; eraseOp(op, replacementResults) *)
(* first moves the uses of each result, but the operation's own, to its    *)
(* replacement.                                                            *)
(***************************************************************************)
\* Mutant: leaves the erased operation as the definition of its results.
RetireOpKeepsDefs(o) ==
  /\ symbolIndex' = UnbindSymbol(symbolIndex, opSymbol[o])
  /\ opAlive' = opAlive \ {o}
  /\ UNCHANGED <<valueCount, opCount, valueAlive, defVars, valueSymbol, opSymbol, portVars>>

RetireOp(o) ==
  /\ definingOp' = [v \in ValueIds |->
       IF v \in ToSet(results[o]) /\ definingOp[v] = o THEN None ELSE definingOp[v]]
  /\ symbolIndex' = UnbindSymbol(symbolIndex, opSymbol[o])
  /\ opAlive' = opAlive \ {o}
  /\ UNCHANGED <<valueCount, opCount, valueAlive, results, valueSymbol, opSymbol, portVars>>

EraseOp(o) ==
  /\ o \in opAlive
  /\ \A v \in ToSet(results[o]) : UnusedBut(v, o)
  /\ valueUsers' = RemoveOpUses(valueUsers, o, operands[o])
  /\ UNCHANGED operands
  /\ RetireOp(o)

EraseOpUnchecked(o) ==
  /\ Unchecked /\ o \in opAlive
  /\ valueUsers' = RemoveOpUses(valueUsers, o, operands[o])
  /\ UNCHANGED operands
  /\ RetireOp(o)

\* Every caller passes the replacement of a single result.
EraseOpReplacing(o, to) ==
  /\ o \in opAlive /\ Len(results[o]) = 1 /\ to \in valueAlive
  /\ LET from == results[o][1] IN
     /\ operands' = RewriteUses(operands, valueUsers, from, to, {o})
     /\ valueUsers' = RemoveOpUses(MoveUses(valueUsers, from, to, {o}), o, operands[o])
  /\ RetireOp(o)

(***************************************************************************)
(* Erasing a value.  eraseValueUnchecked looks at the ports and at the     *)
(* defining operation, not at the use list: its one caller, dead code      *)
(* elimination, passes values that its own counters say nothing uses.      *)
(***************************************************************************)
RetireValue(v) ==
  /\ symbolIndex' = UnbindSymbol(symbolIndex, valueSymbol[v])
  /\ valueAlive' = valueAlive \ {v}
  /\ UNCHANGED <<valueCount, opCount, opAlive, defVars, operands, valueSymbol, opSymbol, portVars>>

\* Mutant: does not ask who uses the value.
EraseValueUsed(v) ==
  /\ v \in valueAlive /\ NoPort(v) /\ definingOp[v] = None
  /\ valueUsers' = [valueUsers EXCEPT ![v] = [u \in Users |-> 0]]
  /\ RetireValue(v)

EraseValue(v) ==
  /\ v \in valueAlive /\ Unused(v) /\ NoPort(v) /\ definingOp[v] = None
  /\ valueUsers' = [valueUsers EXCEPT ![v] = [u \in Users |-> 0]]
  /\ RetireValue(v)

EraseValueUnchecked(v) ==
  /\ Unchecked /\ Unused(v)
  /\ v \in valueAlive /\ NoPort(v) /\ definingOp[v] = None
  /\ UNCHANGED valueUsers
  /\ RetireValue(v)

(***************************************************************************)
(* Ports.  Every call that changes a port list ends in recomputePortFlags, *)
(* which clears all flags and marks the input, the output and the inout    *)
(* ports in this order.  It throws at a port of an erased value, and at an *)
(* inout port of a value it has marked as input or output; the list keeps  *)
(* the change that made it throw, and the flags stay as far as they went.  *)
(* The order within a list is abstracted, hence the choice of a subset.    *)
(***************************************************************************)
BoundValues(ports) == {ports[n] : n \in PortNames} \ {None}

Dead(vs) == ~ (vs \subseteq valueAlive)

\* Mutant: lets an inout port share a value with an input or an output port.
RecomputeThrowsIfDead(in, out, inout) ==
  Dead(BoundValues(in) \union BoundValues(out) \union InoutValues(inout))

RecomputeThrows(in, out, inout) ==
  LET ins == BoundValues(in)  outs == BoundValues(out)  both == InoutValues(inout)
  IN  Dead(ins \union outs \union both) \/ both \intersect (ins \union outs) # {}

RecomputeFlags(in, out, inout) ==
  LET ins == BoundValues(in)  outs == BoundValues(out)  both == InoutValues(inout)
  IN  \/ /\ ~ RecomputeThrows(in, out, inout)
         /\ isInput' = ins /\ isOutput' = outs /\ isInout' = both
      \/ /\ PortCallsFail /\ RecomputeThrows(in, out, inout)
         /\ isInput' \in IF Dead(ins) THEN SUBSET (ins \intersect valueAlive) ELSE {ins}
         /\ isOutput' \in CASE Dead(ins)  -> {{}}
                            [] Dead(outs) -> SUBSET (outs \intersect valueAlive)
                            [] OTHER      -> {outs}
         /\ isInout' \in IF Dead(ins \union outs) THEN {{}}
                         ELSE SUBSET ((both \intersect valueAlive) \ (ins \union outs))

PortStep == UNCHANGED <<entryVars, useVars, defVars, symbolVars>>

SetInputPort(n, v) ==
  /\ inputPorts' = [inputPorts EXCEPT ![n] = v]
  /\ RecomputeFlags(inputPorts', outputPorts, inoutPorts)
  /\ UNCHANGED <<outputPorts, inoutPorts>> /\ PortStep

SetOutputPort(n, v) ==
  /\ outputPorts' = [outputPorts EXCEPT ![n] = v]
  /\ RecomputeFlags(inputPorts, outputPorts', inoutPorts)
  /\ UNCHANGED <<inputPorts, inoutPorts>> /\ PortStep

SetInoutPort(n, p) ==
  /\ inoutPorts' = [inoutPorts EXCEPT ![n] = p]
  /\ RecomputeFlags(inputPorts, outputPorts, inoutPorts')
  /\ UNCHANGED <<inputPorts, outputPorts>> /\ PortStep

BindInputPort(n, v) == v \in valueAlive /\ SetInputPort(n, v)
BindOutputPort(n, v) == v \in valueAlive /\ SetOutputPort(n, v)
BindInoutPort(n, p) == {p.in, p.out, p.oe} \subseteq valueAlive /\ SetInoutPort(n, p)

\* Mutant: does not recompute the flags.
RemoveInputPortOnly(n) ==
  /\ inputPorts[n] # None /\ inputPorts' = [inputPorts EXCEPT ![n] = None]
  /\ UNCHANGED <<outputPorts, inoutPorts, flagVars>> /\ PortStep

RemoveInputPort(n) == inputPorts[n] # None /\ SetInputPort(n, None)
RemoveOutputPort(n) == outputPorts[n] # None /\ SetOutputPort(n, None)
RemoveInoutPort(n) == inoutPorts[n] # Unbound /\ SetInoutPort(n, Unbound)

(***************************************************************************)
(* The bulk calls bind entry after entry and recompute the flags once, at  *)
(* the end; an entry with an empty name or an erased value throws out of   *)
(* the loop, past the recomputation.                                       *)
(***************************************************************************)
AfterEntries(in, out, inout, complete) ==
  \/ complete /\ RecomputeFlags(in, out, inout)
  \/ ~ complete /\ PortCallsFail /\ UNCHANGED flagVars

BindInputPorts(names, complete) ==
  /\ \E vals \in [names -> valueAlive] :
       inputPorts' = [n \in PortNames |-> IF n \in names THEN vals[n] ELSE inputPorts[n]]
  /\ AfterEntries(inputPorts', outputPorts, inoutPorts, complete)
  /\ UNCHANGED <<outputPorts, inoutPorts>> /\ PortStep

BindOutputPorts(names, complete) ==
  /\ \E vals \in [names -> valueAlive] :
       outputPorts' = [n \in PortNames |-> IF n \in names THEN vals[n] ELSE outputPorts[n]]
  /\ AfterEntries(inputPorts, outputPorts', inoutPorts, complete)
  /\ UNCHANGED <<inputPorts, inoutPorts>> /\ PortStep

BindInoutPorts(names, complete) ==
  /\ \E ps \in [names -> [in : valueAlive, out : valueAlive, oe : valueAlive]] :
       inoutPorts' = [n \in InoutNames |-> IF n \in names THEN ps[n] ELSE inoutPorts[n]]
  /\ AfterEntries(inputPorts, outputPorts, inoutPorts', complete)
  /\ UNCHANGED <<inputPorts, outputPorts>> /\ PortStep

(***************************************************************************)
(* The calls a client may make, one at a time.                             *)
(***************************************************************************)
SymbolNext ==
  \E sym \in Syms :
    \/ AddValue(sym) \/ AddOp(sym)
    \/ \E v \in ValueIds : SetValueSymbol(v, sym)
    \/ \E o \in OpIds : SetOpSymbol(o, sym)

OperandNext ==
  \E v \in ValueIds :
    \/ \E o \in OpIds : AddOperand(o, v)
    \/ \E o \in OpIds, k \in 1 .. MaxArity : InsertOperand(o, k, v)
    \/ \E o \in OpIds, k \in 1 .. MaxArity : ReplaceOperand(o, k, v)
    \/ \E w \in ValueIds : ReplaceAllUses(v, w)

ResultNext ==
  \E o \in OpIds, k \in 1 .. MaxArity :
    \/ EraseOperand(o, k)
    \/ EraseResult(o, k)
    \/ \E v \in ValueIds : AddResult(o, v)
    \/ \E v \in ValueIds : InsertResult(o, k, v)
    \/ \E v \in ValueIds : ReplaceResult(o, k, v)

EraseNext ==
  \/ \E o \in OpIds : EraseOp(o)
  \/ \E o \in OpIds : EraseOpUnchecked(o)
  \/ \E o \in OpIds, v \in ValueIds : EraseOpReplacing(o, v)
  \/ \E v \in ValueIds : EraseValue(v)
  \/ \E v \in ValueIds : EraseValueUnchecked(v)

InputPortCall(complete) ==
  \/ complete /\ \E n \in PortNames, v \in ValueIds : BindInputPort(n, v)
  \/ complete /\ \E n \in PortNames : RemoveInputPort(n)
  \/ \E names \in SUBSET PortNames : BindInputPorts(names, complete)

OutputPortCall(complete) ==
  \/ complete /\ \E n \in PortNames, v \in ValueIds : BindOutputPort(n, v)
  \/ complete /\ \E n \in PortNames : RemoveOutputPort(n)
  \/ \E names \in SUBSET PortNames : BindOutputPorts(names, complete)

InoutPortCall(complete) ==
  \/ complete /\ \E n \in InoutNames, p \in InoutPorts : BindInoutPort(n, p)
  \/ complete /\ \E n \in InoutNames : RemoveInoutPort(n)
  \/ \E names \in SUBSET InoutNames : BindInoutPorts(names, complete)

PortNext ==
  \E complete \in BOOLEAN :
    InputPortCall(complete) \/ OutputPortCall(complete) \/ InoutPortCall(complete)

Next == SymbolNext \/ OperandNext \/ ResultNext \/ EraseNext \/ PortNext

Spec == Init /\ [][Next]_builderVars

-----------------------------------------------------------------------------
TypeOK ==
  /\ valueCount \in 0 .. MaxValues /\ valueAlive \subseteq 1 .. valueCount
  /\ opCount \in 0 .. MaxOps /\ opAlive \subseteq 1 .. opCount
  /\ definingOp \in [ValueIds -> OpIds \union {None}]
  /\ valueUsers \in [ValueIds -> [Users -> Nat]]
  /\ operands \in [OpIds -> Seq(ValueIds)]
  /\ results \in [OpIds -> Seq(ValueIds)]
  /\ \A o \in OpIds : Len(operands[o]) <= MaxArity /\ Len(results[o]) <= MaxArity
  /\ valueSymbol \in [ValueIds -> Syms \union {NoSym}]
  /\ opSymbol \in [OpIds -> Syms \union {NoSym}]
  /\ symbolIndex \in [Syms -> Bindings]
  /\ inputPorts \in [PortNames -> ValueIds \union {None}]
  /\ outputPorts \in [PortNames -> ValueIds \union {None}]
  /\ inoutPorts \in [InoutNames -> InoutPorts \union {Unbound}]
  /\ isInput \subseteq ValueIds /\ isOutput \subseteq ValueIds /\ isInout \subseteq ValueIds

\* The use list of a value holds exactly one entry for every operand position of
\* a live operation that names the value, and nothing else: an entry that an
\* insertion has shifted and nobody has renumbered would make removeValueUser
\* throw ("Value use-list out of sync") in some later call.
UseListExact == valueUsers = UsesOf(operands, opAlive)

\* A value's defining operation is the live operation that lists it among its
\* results, at one place; erased values define nothing and are defined by nothing.
DefExact ==
  /\ \A v \in ValueIds, o \in OpIds :
       definingOp[v] = o <=> o \in opAlive /\ \E k \in DOMAIN results[o] : results[o][k] = v
  /\ \A o \in opAlive : \A i, k \in DOMAIN results[o] :
       results[o][i] = results[o][k] => i = k

\* No live operation has an erased value among its operands or results, whichever
\* order of replacements and erasures led there: freeze and every reader throw on
\* such an edge.
NoDanglingEdge ==
  \A o \in opAlive : ToSet(operands[o]) \union ToSet(results[o]) \subseteq valueAlive

\* findValue and findOperation find each live entry by the symbol it carries now,
\* and no symbol finds an erased entry or one that has been renamed.
SymbolIndexExact ==
  /\ \A v \in valueAlive : valueSymbol[v] \in Syms
  /\ \A o \in opAlive : opSymbol[o] \in Syms
  /\ \A s \in Syms :
       /\ \A v \in ValueIds : symbolIndex[s] = <<"value", v>> <=> v \in valueAlive /\ valueSymbol[v] = s
       /\ \A o \in OpIds : symbolIndex[s] = <<"op", o>> <=> o \in opAlive /\ opSymbol[o] = s

\* The flags on the values say which values the port lists bind, and no value is
\* an inout port's while it is an input's or an output's.
FlagsExact ==
  /\ isInput = BoundValues(inputPorts) /\ isOutput = BoundValues(outputPorts)
  /\ isInout = InoutValues(inoutPorts)
  /\ isInout \intersect (isInput \union isOutput) = {}

\* Not even a port call that threw half-way lets a value of an inout port be
\* erased: the erasures search the list of inout ports, not the flags.
InoutNeverErased == InoutValues(inoutPorts) \subseteq valueAlive

\* A value that a port binds is never erased (docs/grh/grh-api.md:357: eraseValue
\* fails for a value that is bound to a port).
BoundNeverErased ==
  BoundValues(inputPorts) \union BoundValues(outputPorts) \union InoutValues(inoutPorts)
    \subseteq valueAlive

\* Every call that finds the port flags exact does to the netlist what the API promises
\* of it, whatever the use lists, defining operations and flags it decides by, and even
\* when it throws half-way: see UseDefGraph.
Abstract == INSTANCE UseDefGraph WITH Trusted <- Unchecked,
  values <- valueAlive, ops <- opAlive,
  ins <- [o \in opAlive |-> operands[o]], outs <- [o \in opAlive |-> results[o]],
  bound <- BoundValues(inputPorts) \union BoundValues(outputPorts) \union InoutValues(inoutPorts)
RefinesNetlist == Abstract!NetInit /\ [][FlagsExact => Abstract!NetNext]_(Abstract!netlist)
=============================================================================
