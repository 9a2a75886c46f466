----------------------------- MODULE Hierarchy -----------------------------
(***************************************************************************)
(* hier-flatten and instance-inline: copying the graph of an instance into *)
(* the graph that holds the instance.  d is the design, a function from    *)
(* graph names to netlists.  An instance has the attributes module, inst   *)
(* and the port names ins, outs, ios; its operands are the inputs and the  *)
(* inout inputs, its results the outputs, the inout outputs and the inout  *)
(* enables.                                                                *)
(*                                                                         *)
(* An inlining is a record s = [g, counts, failed]: the target netlist,    *)
(* how often an instance name was used under a prefix, and whether the     *)
(* inlining gave up.  Instance names are single name components.  The mode *)
(* says which names survive: hier-flatten's -sym-protect, or "inline" for  *)
(* instance-inline.                                                        *)
(***************************************************************************)
EXTENDS OpSemantics

StatefulKinds == {"kRegister", "kMemory", "kLatch"}
HasXmrOps(g) == \E o \in DOMAIN g.ops : Kind(g, o) \in {"kXMRRead", "kXMRWrite"}

HierName(prefix, base) == IF prefix = "" THEN base ELSE prefix \o "$" \o base
NamedLike(ports, name) == ports[SelectInSeq(ports, LAMBDA p : p.name = name)]
Names(ports) == {ports[i].name : i \in DOMAIN ports}
GiveUp(s) == [s EXCEPT !.failed = TRUE]

-----------------------------------------------------------------------------
(* Port maps.                                                              *)

\* The instance lists every port of the child, under its name.
PortsMatch(child, op) ==
    /\ Len(op.a.ins) = Len(child.inp) /\ Range(op.a.ins) = Names(child.inp)
    /\ Len(op.a.outs) = Len(child.outp) /\ Range(op.a.outs) = Names(child.outp)
    /\ Len(op.a.ios) = Len(child.io) /\ Range(op.a.ios) = Names(child.io)
    /\ Len(op.in) = Len(op.a.ins) + Len(op.a.ios)
    /\ Len(op.out) = Len(op.a.outs) + 2 * Len(op.a.ios)

\* Child value, value of the parent and name, in the order the maps are
\* filled: inputs, outputs, then enable and output before input of an inout.
InputPairs(child, op) ==
    [i \in DOMAIN op.a.ins |->
        [from |-> NamedLike(child.inp, op.a.ins[i]).val, to |-> op.in[i], name |-> op.a.ins[i]]]
OutputPairs(child, op) ==
    [i \in DOMAIN op.a.outs |->
        [from |-> NamedLike(child.outp, op.a.outs[i]).val, to |-> op.out[i], name |-> op.a.outs[i]]]
InoutPairs(child, op) ==
    LET ni == Len(op.a.ins)
        no == Len(op.a.outs)
        n  == Len(op.a.ios)
        Pair(v, to) == [from |-> v, to |-> to, name |-> child.vals[v].sym]
    IN  FlattenSeq([i \in DOMAIN op.a.ios |->
            LET p == NamedLike(child.io, op.a.ios[i])
            IN  <<Pair(p.out, op.out[no + i]), Pair(p.oe, op.out[no + n + i]),
                  Pair(p.in, op.in[ni + i])>>])
AllPairs(child, op) == InputPairs(child, op) \o OutputPairs(child, op) \o InoutPairs(child, op)

\* The first pair of a child value maps it; a later output pair of the same
\* value becomes an assign from the first one's target.
PortMap(pairs) ==
    [v \in {pairs[i].from : i \in DOMAIN pairs} |->
        pairs[SelectInSeq(pairs, LAMBDA p : p.from = v)].to]
AssignAlias(s, p, map) ==
    IF map[p.from] = p.to THEN s
    ELSE IF s.failed \/ Def(s.g, p.to) # 0 THEN GiveUp(s)
    ELSE [s EXCEPT !.g = CreateOp(@, "kAssign", <<map[p.from]>>, <<p.to>>, NoAttr)]
AssignAliases(s, outputs, map) == FoldLeft(LAMBDA t, p : AssignAlias(t, p, map), s, outputs)

-----------------------------------------------------------------------------
(* Names.                                                                  *)

\* The second use of an instance name under a prefix gets a number.
Component(s, prefix, base) ==
    LET key == prefix \o "|" \o base
        n   == IF key \in DOMAIN s.counts THEN s.counts[key] + 1 ELSE 1
    IN  [s    |-> [s EXCEPT !.counts = (key :> n) @@ @],
         name |-> IF n = 1 THEN base ELSE base \o "_" \o ToString(n)]

\* hier-flatten names the parent's end of a connection after the port of
\* the child, unless the value is declared; once named it is declared, so
\* the code's check for two different names cannot fire.
RenameValue(s, v, name) == [s EXCEPT !.g.vals[v].sym = name, !.g.decl = @ \cup {name}]
RenamePort(s, mode, prefix, p) ==
    IF mode \notin {"all", "hierarchy"} \/ p.name \in {"", Tmp} \/ Declared(s.g, p.to) THEN s
    ELSE RenameValue(s, p.to, UniqueName(s.g, HierName(prefix, p.name), "_"))

ProtectValue(mode, source, v) ==
    CASE mode = "all"       -> Declared(source, v)
      [] mode = "hierarchy" -> IsPort(source, v)
      [] mode = "inline"    -> Declared(source, v)
      [] OTHER              -> FALSE
ProtectOp(mode, source, o) ==
    CASE mode = "all"  -> source.ops[o].sym \in source.decl
      [] mode = "none" -> FALSE
      [] mode = "inline" ->
            source.ops[o].sym \in source.decl \/ Kind(source, o) \in StatefulKinds
      [] OTHER         -> Kind(source, o) \in StatefulKinds

-----------------------------------------------------------------------------
(* Copying.                                                                *)

\* acc = [s, map]: a value without a port gets a copy.
Declare(g, name, declare) == IF declare THEN [g EXCEPT !.decl = @ \cup {name}] ELSE g
CopyValueAs(acc, val, v, name, declare) ==
    [s   |-> [acc.s EXCEPT !.g = Declare(CreateValue(@, val.w, val.sgn, name), name, declare)],
     map |-> acc.map @@ (v :> acc.s.g.nval)]
CopyValue(acc, mode, source, prefix, v) ==
    LET val == source.vals[v]
    IN  IF v \in DOMAIN acc.map THEN acc
        ELSE IF ProtectValue(mode, source, v) /\ val.sym # ""
        THEN CopyValueAs(acc, val, v, UniqueName(acc.s.g, HierName(prefix, val.sym), "_"), TRUE)
        ELSE CopyValueAs(acc, val, v, Tmp, FALSE)
CopyValues(s, mode, source, prefix, map) ==
    FoldLeft(LAMBDA acc, v : CopyValue(acc, mode, source, prefix, v), [s |-> s, map |-> map],
             ValIds(source))

\* acc = [s, names, new]: names maps a copied operation's name to the name of
\* its copy, new holds the copies.  A DPI import is shared by name: equal
\* ones merge, others conflict.
Copies(s) == [s |-> s, names |-> << >>, new |-> {}]
CopyImport(acc, op) ==
    LET g == acc.s.g
        o == FindOp(g, op.sym)
        known == [acc EXCEPT !.names = @ @@ (op.sym :> op.sym)]
    IN  CASE o # 0 /\ g.ops[o].kind = "kDpicImport" /\ g.ops[o].a = op.a -> known
          [] o # 0 \/ FindValue(g, op.sym) # 0 -> [acc EXCEPT !.s = GiveUp(@)]
          [] OTHER -> [known EXCEPT !.s.g = NamedOp(@, "kDpicImport", <<>>, <<>>, op.a, op.sym)]

\* A storage that keeps no name gets an internal name of its own.
CopyOpAs(acc, op, map, name, declare) ==
    LET To(vs) == [i \in DOMAIN vs |-> map[vs[i]]]
    IN  [s     |-> [acc.s EXCEPT !.g = Declare(NamedOp(@, op.kind, To(op.in), To(op.out), op.a, name),
                                               name, declare)],
         names |-> acc.names @@ (op.sym :> name),
         new   |-> acc.new \cup {acc.s.g.nop}]
CopyOp(acc, mode, source, prefix, map, o) ==
    LET g  == acc.s.g
        op == source.ops[o]
    IN  IF \E i \in DOMAIN op.out : Def(g, map[op.out[i]]) # 0 THEN [acc EXCEPT !.s = GiveUp(@)]
        ELSE IF ProtectOp(mode, source, o) /\ op.sym \notin {"", Tmp}
        THEN CopyOpAs(acc, op, map, UniqueName(g, HierName(prefix, op.sym), "_"), TRUE)
        ELSE CopyOpAs(acc, op, map,
                      IF op.kind \in StatefulKinds THEN UniqueName(g, "_op_", "") ELSE Tmp, FALSE)

\* Ports and calls follow the copy of the storage or import they name; one
\* that was not copied stops the pass.
Retarget(acc) ==
    LET g    == acc.s.g
        refs == {o \in acc.new : "target" \in DOMAIN g.ops[o].a}
    IN  IF acc.s.failed THEN acc.s
        ELSE IF \E o \in refs : g.ops[o].a.target \notin DOMAIN acc.names THEN GiveUp(acc.s)
        ELSE [acc.s EXCEPT !.g.ops = [o \in DOMAIN @ |->
                 IF o \in refs THEN [@[o] EXCEPT !.a.target = acc.names[@]] ELSE @[o]]]

-----------------------------------------------------------------------------
(* hier-flatten.                                                           *)

\* What inlining an instance does, in order, as far as the design decides it:
\* the instance is entered, the operations of its graph are copied, those
\* that are instances inlined in their turn, and it is left.  stack holds
\* the graphs on the way down, the top excepted.
Enter(op)    == [is |-> "enter", op |-> op]
Copied(n, o) == [is |-> "copy", from |-> n, op |-> o]
Leave        == [is |-> "leave"]
Inlinable(d, op, stack) ==
    op.a.module \in DOMAIN d /\ PortsMatch(d[op.a.module], op) /\ op.a.module \notin stack
InstancesIn(g) == {g.ops[o] : o \in {p \in DOMAIN g.ops : Kind(g, p) = "kInstance"}}
Script(d, instance) ==
    LET steps[op \in {instance} \cup UNION {InstancesIn(d[n]) : n \in DOMAIN d}, stack \in SUBSET DOMAIN d] ==
            LET n   == op.a.module
                ids == OpIds(d[n])
                Of(o) == IF Kind(d[n], o) = "kInstance" THEN steps[d[n].ops[o], stack \cup {n}]
                         ELSE <<Copied(n, o)>>
            IN  IF ~Inlinable(d, op, stack) THEN <<Enter(op)>>
                ELSE <<Enter(op)>> \o FlattenSeq([k \in DOMAIN ids |-> Of(ids[k])]) \o <<Leave>>
    IN  steps[instance, {}]

\* at = [s, frames]: a frame for the top and for every graph on the way down,
\* what became of its values and the names of its copies so far.
Frame(map, prefix, stack) == [map |-> map, prefix |-> prefix, stack |-> stack, names |-> << >>, new |-> {}]
FrameCopies(s, f) == [s |-> s, names |-> f.names, new |-> f.new]
EnterGraph(d, at, s, name, portMap, prefix, mode, stack) ==
    LET vals == CopyValues(s, mode, d[name], prefix, portMap)
    IN  IF s.failed \/ name \in stack THEN [at EXCEPT !.s = GiveUp(s)]
        ELSE [s |-> vals.s, frames |-> Append(at.frames, Frame(vals.map, prefix, stack \cup {name}))]
EnterBelow(d, at, comp, op, pairs, outputs, below, mode, stack) ==
    EnterGraph(d, at,
        AssignAliases(FoldLeft(LAMBDA t, p : RenamePort(t, mode, below, p), comp.s, pairs),
                      outputs, PortMap(pairs)),
        op.a.module, PortMap(pairs), below, mode, stack)
EnterComponent(d, at, comp, op, f, mode) ==
    LET Mapped(pairs) == [i \in DOMAIN pairs |-> [pairs[i] EXCEPT !.to = f.map[@]]]
    IN  EnterBelow(d, at, comp, op, Mapped(AllPairs(d[op.a.module], op)),
                   Mapped(OutputPairs(d[op.a.module], op)), HierName(f.prefix, comp.name), mode, f.stack)
EnterInstance(d, at, op, f, mode) ==
    IF op.a.module \notin DOMAIN d \/ ~PortsMatch(d[op.a.module], op) THEN [at EXCEPT !.s = GiveUp(@)]
    ELSE EnterComponent(d, at, Component(at.s, f.prefix, op.a.inst), op, f, mode)

\* One operation that is not an instance.
CopyInto(d, acc, n, o, f, mode) ==
    IF Kind(d[n], o) = "kDpicImport" THEN CopyImport(acc, d[n].ops[o])
    ELSE CopyOp(acc, mode, d[n], f.prefix, f.map, o)
CopyHere(at, f, acc) ==
    [s |-> acc.s, frames |-> Append(Front(at.frames), [f EXCEPT !.names = acc.names, !.new = acc.new])]
InlineStep(d, at, e, mode) ==
    LET f == Last(at.frames)
    IN  IF at.s.failed THEN at
        ELSE CASE e.is = "enter" -> EnterInstance(d, at, e.op, f, mode)
               [] e.is = "copy"  -> CopyHere(at, f, CopyInto(d, FrameCopies(at.s, f), e.from, e.op, f, mode))
               [] e.is = "leave" -> [s |-> Retarget(FrameCopies(at.s, f)), frames |-> Front(at.frames)]
InlineInstance(d, s, op, map, mode) ==
    FoldLeft(LAMBDA at, e : InlineStep(d, at, e, mode), [s |-> s, frames |-> <<Frame(map, "", {})>>], Script(d, op)).s

FlattenTop(d, tops) ==
    IF Len(tops) = 1 THEN tops[1]
    ELSE IF tops = <<>> /\ Cardinality(DOMAIN d) = 1 THEN CHOOSE n \in DOMAIN d : TRUE ELSE ""

Inlining(g) == [g |-> g, counts |-> << >>, failed |-> FALSE]
\* The instances of the top graph, each inlined in full.
Flatten(d, top, mode) ==
    LET g == d[top]
    IN  FoldLeft(LAMBDA s, o :
                    IF s.failed THEN s
                    ELSE InlineInstance([d EXCEPT ![top] = s.g],
                                        [s EXCEPT !.g = EraseOpUnchecked(@, o)],
                                        g.ops[o], [v \in DOMAIN g.vals |-> v], mode),
                 Inlining(g), OpsOfKinds(g, {"kInstance"}))
\* The flat graph takes the place of the top; the others go, but for those
\* a black box names.
Flattened(d, top, flat, preserve) ==
    LET kept == {top} \cup {flat.g.ops[o].a.module :
                    o \in {o \in DOMAIN flat.g.ops : Kind(flat.g, o) = "kBlackbox"}}
    IN  DesignResult(Restrict([d EXCEPT ![top] = flat.g],
                              IF flat.failed \/ preserve THEN DOMAIN d ELSE DOMAIN d \cap kept),
                     ~flat.failed /\ OpsOfKinds(d[top], {"kInstance"}) # <<>>, flat.failed)
HierFlatten(d, tops, mode, preserve) ==
    LET top == FlattenTop(d, tops)
    IN  IF (\E n \in DOMAIN d : HasXmrOps(d[n])) \/ top \notin DOMAIN d
        THEN DesignResult(d, FALSE, TRUE)
        ELSE Flattened(d, top, Flatten(d, top, mode), preserve)

-----------------------------------------------------------------------------
(* instance-inline: path is the root graph's name and instance names.      *)

InstancesNamed(g, n) ==
    {o \in DOMAIN g.ops : Kind(g, o) = "kInstance" /\ g.ops[o].a.inst = n}

\* The graph that holds the last instance, and the instance; op = 0 when the
\* path does not resolve.
ResolvePath(d, path) ==
    FoldLeft(LAMBDA at, n :
                LET inside == IF at.op = 0 THEN at.in ELSE d[at.in].ops[at.op].a.module
                IN  IF at.in = "" \/ inside \notin DOMAIN d THEN [in |-> "", op |-> 0]
                    ELSE IF Cardinality(InstancesNamed(d[inside], n)) # 1
                    THEN [in |-> "", op |-> 0]
                    ELSE [in |-> inside, op |-> CHOOSE o \in InstancesNamed(d[inside], n) : TRUE],
             [in |-> path[1], op |-> 0], Tail(path))

Refuse(d) == DesignResult(d, FALSE, TRUE)
\* An instance in the child is copied as it is.
CopyOnce(vals, child, prefix) ==
    Retarget(FoldLeft(LAMBDA acc, o :
        CASE acc.s.failed -> acc
          [] Kind(child, o) = "kDpicImport" -> CopyImport(acc, child.ops[o])
          [] OTHER -> CopyOp(acc, "inline", child, prefix, vals.map, o),
        Copies(vals.s), OpIds(child)))
InlinedAt(d, at, s) == DesignResult([d EXCEPT ![at.in] = s.g], ~s.failed, s.failed)
InlineAt(d, at, op, child, pairs, prefix) ==
    LET Aliased(s) == IF s.failed THEN s ELSE AssignAliases(s, OutputPairs(child, op), PortMap(pairs))
    IN  InlinedAt(d, at, Aliased(CopyOnce(
            CopyValues(Inlining(EraseOpUnchecked(d[at.in], at.op)), "inline", child, prefix,
                       PortMap(pairs)),
            child, prefix)))
InstanceInline(d, path) ==
    LET at    == ResolvePath(d, path)
        op    == d[at.in].ops[at.op]
        child == d[op.a.module]
    IN  CASE Len(path) < 2 \/ path[1] \notin DOMAIN d -> Refuse(d)
          [] \E n \in DOMAIN d : HasXmrOps(d[n]) -> Refuse(d)
          [] at.op = 0 \/ op.a.module \notin DOMAIN d -> Refuse(d)
          [] ~PortsMatch(child, op) -> Refuse(d)
          [] OTHER -> InlineAt(d, at, op, child, AllPairs(child, op), FoldLeft(HierName, "", Tail(path)))
=============================================================================
