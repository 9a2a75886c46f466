----------------------------- MODULE XmrResolve -----------------------------
(***************************************************************************)
(* xmr-resolve: hierarchical reads and writes become ports.  A path is a   *)
(* sequence of instance names that ends in the name of a value or storage. *)
(*                                                                         *)
(* The pass is a record x = [d, names, pads, outs, ins, changed, err]: the *)
(* design, the port name given to a path in a graph, the zero constants    *)
(* made as padding, the ports that are new and that other instances of     *)
(* the module do not connect yet, and what it reports.                     *)
(***************************************************************************)
EXTENDS HierarchyGuards, Functions

JoinPath(path) == FoldLeft(LAMBDA acc, s : IF acc = "" THEN s ELSE acc \o "_" \o s, "", path)
Changed(x) == [x EXCEPT !.changed = TRUE]
Fail(x)    == [x EXCEPT !.err = TRUE]
Edit(x, n, g) == [x EXCEPT !.d[n] = g, !.changed = TRUE]

\* The port of a path in graph n: the name is made unique among the symbols
\* of the graph, not among its port names.  label tells the operands of a
\* write apart.
PortKey(n, tag, path, label) == <<n, tag, path, label>>
PortText(tag, path, label) ==
    "__xmr_" \o tag \o "_" \o JoinPath(path) \o (IF label = "" THEN "" ELSE "_" \o label)
GetPortName(x, n, tag, path, label) ==
    LET key == PortKey(n, tag, path, label)
    IN  IF key \in DOMAIN x.names THEN x
        ELSE [x EXCEPT !.names = With(@, key, UniqueName(x.d[n], PortText(tag, path, label), "_"))]

PortNamed(ports, name) == SelectInSeq(ports, LAMBDA p : p.name = name)
FindInstance(g, name) ==
    LET ops == SelectSeq(OpsOfKinds(g, {"kInstance", "kBlackbox"}),
                         LAMBDA o : g.ops[o].a.inst = name)
    IN  IF ops = <<>> THEN 0 ELSE ops[1]
Storage(g, name) ==
    LET o == FindOp(g, name)
    IN  IF o # 0 /\ Kind(g, o) \in {"kRegister", "kLatch", "kMemory"} THEN o ELSE 0

\* The hops down from graph n, or "none" when an instance is missing.
Trim(n, path) == IF path # <<>> /\ path[1] = n THEN Tail(path) ELSE path
Hops(d, n, path) ==
    FoldLeft(LAMBDA at, name :
                LET o == IF at.ok THEN FindInstance(d[at.leaf], name) ELSE 0
                    m == d[at.leaf].ops[o].a.module
                IN  IF ~at.ok \/ o = 0 \/ m \notin DOMAIN d THEN [at EXCEPT !.ok = FALSE]
                    ELSE [ok |-> TRUE, leaf |-> m,
                          hops |-> Append(at.hops, [parent |-> at.leaf, op |-> o, child |-> m])],
             [ok |-> TRUE, leaf |-> n, hops |-> <<>>], Front(path))

-----------------------------------------------------------------------------
(* Ports.                                                                  *)

\* An output port that exists keeps its value, whatever that is.
EnsureOutputPort(x, n, port, v) ==
    LET g == x.d[n]
        pending == [module |-> n, name |-> port, w |-> g.vals[v].w, sgn |-> g.vals[v].sgn]
    IN  IF PortNamed(g.outp, port) # 0 THEN x
        ELSE [Edit(x, n, [g EXCEPT !.outp = Append(@, [name |-> port, val |-> v])])
                EXCEPT !.outs = Append(@, pending)]
OutputValue(x, n, port) == x.d[n].outp[PortNamed(x.d[n].outp, port)].val

AddInput(x, n, g, pending, v) ==
    [Edit(x, n, [g EXCEPT !.inp = Append(@, [name |-> pending.name, val |-> v])])
        EXCEPT !.ins = Append(@, pending)]
EnsureInputPort(x, n, port, w, sgn) ==
    LET g == x.d[n]
        pending == [module |-> n, name |-> port, w |-> w, sgn |-> sgn]
    IN  IF PortNamed(g.inp, port) # 0 THEN x
        ELSE IF FindValue(g, port) # 0 THEN AddInput(x, n, g, pending, FindValue(g, port))
        ELSE AddInput(x, n, CreateValue(g, w, sgn, IF Unused(g, port) THEN port ELSE Tmp),
                      pending, g.nval)

WithOutput(g, o, port, w, sgn) ==
    [CreateValue(g, w, sgn, Tmp) EXCEPT
        !.ops[o].out = InsertAt(@, Len(g.ops[o].a.outs) + 1, g.nval),
        !.ops[o].a.outs = Append(@, port)]
EnsureInstanceOutput(x, n, o, port, w, sgn) ==
    IF Contains(x.d[n].ops[o].a.outs, port) THEN x
    ELSE Edit(x, n, WithOutput(x.d[n], o, port, w, sgn))
InstanceOutput(x, n, o, port) ==
    LET op == x.d[n].ops[o] IN op.out[SelectInSeq(op.a.outs, LAMBDA p : p = port)]

\* An input that is connected keeps its operand.
WithInput(g, o, port, v) ==
    [g EXCEPT !.ops[o].in = InsertAt(@, Len(g.ops[o].a.ins) + 1, v),
              !.ops[o].a.ins = Append(@, port)]
EnsureInstanceInput(x, n, o, port, v) ==
    IF Contains(x.d[n].ops[o].a.ins, port) THEN x
    ELSE Edit(x, n, WithInput(x.d[n], o, port, v))

GetPadInput(x, n, w, sgn) ==
    IF <<n, w, sgn>> \in DOMAIN x.pads THEN x
    ELSE [Edit(x, n, ConstGate(x.d[n], FromNat(0, w), sgn))
             EXCEPT !.pads = With(@, <<n, w, sgn>>, x.d[n].nval)]

StorageReadPort(g, s) ==
    LET st == g.ops[Storage(g, s)]
    IN  Gate(g, IF st.kind = "kRegister" THEN "kRegisterReadPort" ELSE "kLatchReadPort",
             <<>>, st.a.width, st.a.sgn, [target |-> s])

-----------------------------------------------------------------------------
(* Reads.  The value found at the leaf is handed up one hop at a time; the *)
(* result is [x, val], val = 0 when the read does not resolve.             *)

ReadFresh(x, leaf, name) ==
    [x |-> Edit(x, leaf, StorageReadPort(x.d[leaf], name)), val |-> x.d[leaf].nval]
ReadNamed(x, leaf, name, port) ==
    LET have == PortNamed(x.d[leaf].outp, port)
    IN  IF have # 0 THEN [x |-> x, val |-> x.d[leaf].outp[have].val] ELSE ReadFresh(x, leaf, name)
PortNameOf(x, n, tag, path, label) == x.names[PortKey(n, tag, path, label)]
ReadPorted(x, leaf, name, path) == ReadNamed(x, leaf, name, PortNameOf(x, leaf, "r", path, ""))
ReadLeaf(x, n, path, leaf, atRoot) ==
    LET g    == x.d[leaf]
        name == Last(Trim(n, path))
        s    == Storage(g, name)
    IN  IF s = 0 THEN [x |-> x, val |-> FindValue(g, name)]
        ELSE IF Kind(g, s) = "kMemory" THEN [x |-> Fail(x), val |-> 0]
        ELSE IF atRoot THEN ReadFresh(x, leaf, name)
        ELSE ReadPorted(GetPortName(x, leaf, "r", path, ""), leaf, name, path)

HandedUp(x, hop, port) == [x |-> x, val |-> InstanceOutput(x, hop.parent, hop.op, port)]
HandUpBound(x, hop, port) ==
    LET v == x.d[hop.child].vals[OutputValue(x, hop.child, port)]
    IN  HandedUp(EnsureInstanceOutput(x, hop.parent, hop.op, port, v.w, v.sgn), hop, port)
HandUpNamed(x, hop, port, v) == HandUpBound(EnsureOutputPort(x, hop.child, port, v), hop, port)
HandUpFrom(x, path, hop, v) == HandUpNamed(x, hop, PortNameOf(x, hop.child, "r", path, ""), v)
HandUp(acc, path, hop) == HandUpFrom(GetPortName(acc.x, hop.child, "r", path, ""), path, hop, acc.val)

ReadResolved(got, n, o, v) ==
    Edit(got.x, n, EraseOp(ReplaceAllUses(got.x.d[n], v, got.val), o))
ReadFrom(leaf, n, o, path, v, hops) ==
    IF leaf.val = 0 THEN leaf.x
    ELSE ReadResolved(FoldLeft(LAMBDA acc, hop : HandUp(acc, path, hop), leaf, Reverse(hops)), n, o, v)
ReadAt(x, n, o, op, path, to) ==
    IF path = <<>> \/ ~to.ok THEN x
    ELSE ReadFrom(ReadLeaf(x, n, op.a.path, to.leaf, to.hops = <<>>), n, o, op.a.path,
                  op.out[1], to.hops)
ResolveRead(x, n, o, op) ==
    ReadAt(x, n, o, op, Trim(n, op.a.path), Hops(x.d, n, Trim(n, op.a.path)))

-----------------------------------------------------------------------------
(* Writes.                                                                 *)

\* The labels of the operands; <<>> when the operands do not fit the storage.
EventLabel(i) == "evt" \o ToString(i - 1)
WithEvents(op, labels) ==
    LET events == Len(op.in) - Len(labels)
    IN  IF events > 0 /\ Len(op.a.edges) = events
        THEN labels \o [i \in 1..events |-> EventLabel(i)] ELSE <<>>
WriteLabels(g, s, op) ==
    IF s = 0 THEN <<"">>
    ELSE IF Kind(g, s) = "kRegister" THEN WithEvents(op, <<"cond", "data", "mask">>)
    ELSE IF Kind(g, s) = "kMemory" THEN WithEvents(op, <<"cond", "addr", "data", "mask">>)
    ELSE IF Len(op.in) = 3 /\ op.a.edges = <<>> THEN <<"cond", "data", "mask">> ELSE <<>>

\* write = [path, labels]; acc = [x, vals]: the operands, as values of the
\* graph reached so far.
HandedDown(x, inputs, port, vals, i) ==
    [x |-> x, vals |-> [vals EXCEPT ![i] = inputs[PortNamed(inputs, port)].val]]
HandDownBound(x, hop, port, vals, i) ==
    HandedDown(EnsureInstanceInput(x, hop.parent, hop.op, port, vals[i]),
               x.d[hop.child].inp, port, vals, i)
HandDownNamed(x, hop, port, vals, i) ==
    LET v == x.d[hop.parent].vals[vals[i]]
    IN  HandDownBound(EnsureInputPort(x, hop.child, port, v.w, v.sgn), hop, port, vals, i)
HandDownFrom(x, write, hop, vals, i) ==
    HandDownNamed(x, hop, PortNameOf(x, hop.child, "w", write.path, write.labels[i]), vals, i)
HandDownOne(acc, write, hop, i) ==
    HandDownFrom(GetPortName(acc.x, hop.child, "w", write.path, write.labels[i]), write, hop, acc.vals, i)
HandDown(acc, write, hop) ==
    FoldLeftDomain(LAMBDA a, i : HandDownOne(a, write, hop, i), acc, write.labels)

\* A wire gets a new value in the place of its driver: the old one keeps the
\* old driver under an internal name.  An input port keeps its value, and its
\* readers move to an unnamed one.
ForceSingleDriver(g, v) ==
    LET val == g.vals[v]
        Move(h) == ReplaceAllUses(h, v, g.nval)
    IN  IF IsInput(g, v) THEN Move(CreateValue(g, val.w, val.sgn, Tmp))
        ELSE BindOutputs(Move(CreateValue([g EXCEPT !.vals[v].sym = Tmp], val.w, val.sgn, val.sym)),
                         v, g.nval)

WriteLeaf(x, leaf, s, name, op, vals) ==
    LET g    == x.d[leaf]
        kind == CASE Kind(g, s) = "kRegister" -> "kRegisterWritePort"
                  [] Kind(g, s) = "kLatch"    -> "kLatchWritePort"
                  [] OTHER                    -> "kMemoryWritePort"
    IN  IF s # 0 THEN Edit(x, leaf, CreateOp(g, kind, vals, <<>>, [target |-> name, edges |-> op.a.edges]))
        ELSE Edit(x, leaf, CreateOp(ForceSingleDriver(g, FindValue(g, name)), "kAssign",
                                    <<vals[1]>>, <<g.nval>>, NoAttr))

WriteResolved(x, n, o) == Edit(x, n, EraseOp(x.d[n], o))
\* down = [x, vals]: the operands have reached the leaf.
WriteAt(down, n, o, op, leaf, s, name) ==
    LET target == FindValue(down.x.d[leaf], name)
    IN  IF s = 0 /\ (target = 0 \/ IsInout(down.x.d[leaf], target)) THEN down.x
        ELSE WriteResolved(WriteLeaf(down.x, leaf, s, name, op, down.vals), n, o)
Operands(x, n, o, labels) == [x |-> x, vals |-> SubSeq(x.d[n].ops[o].in, 1, Len(labels))]
WriteDown(x, n, o, op, to, s, name, write) ==
    IF write.labels = <<>> THEN Fail(x)
    ELSE WriteAt(FoldLeft(LAMBDA acc, hop : HandDown(acc, write, hop), Operands(x, n, o, write.labels), to.hops),
                 n, o, op, to.leaf, s, name)
WriteStored(x, n, o, op, to, s, name) ==
    WriteDown(x, n, o, op, to, s, name, [path |-> op.a.path, labels |-> WriteLabels(x.d[to.leaf], s, op)])
WriteThrough(x, n, o, op, path, to) ==
    IF path = <<>> \/ ~to.ok THEN x
    ELSE WriteStored(x, n, o, op, to, Storage(x.d[to.leaf], Last(path)), Last(path))
ResolveWrite(x, n, o, op) ==
    IF op.in = <<>> THEN Fail(x)
    ELSE WriteThrough(x, n, o, op, Trim(n, op.a.path), Hops(x.d, n, Trim(n, op.a.path)))

-----------------------------------------------------------------------------
(* The pass.  The other instances of a module get an open output and a     *)
(* zero input for each port the resolution added to it.  Resolving makes   *)
(* and erases no instance: those of the design d it started from are met.  *)

InstancesOf(g, m) ==
    Ascending({o \in DOMAIN g.ops : Kind(g, o) \in {"kInstance", "kBlackbox"} /\ g.ops[o].a.module = m},
              g.nop - 1)
ConnectOutputIn(x, d, p, n) ==
    FoldLeft(LAMBDA y, o : EnsureInstanceOutput(y, n, o, p.name, p.w, p.sgn), x, InstancesOf(d[n], p.module))
ConnectOutput(x, d, p) == FoldLeft(LAMBDA y, n : ConnectOutputIn(y, d, p, n), x, GraphNames(d))
PadInput(x, n, o, p) == EnsureInstanceInput(x, n, o, p.name, x.pads[<<n, p.w, p.sgn>>])
Padded(x, n, o, p) ==
    IF Contains(x.d[n].ops[o].a.ins, p.name) THEN x
    ELSE PadInput(GetPadInput(x, n, p.w, p.sgn), n, o, p)
ConnectInputIn(x, d, p, n) == FoldLeft(LAMBDA y, o : Padded(y, n, o, p), x, InstancesOf(d[n], p.module))
ConnectInput(x, d, p) == FoldLeft(LAMBDA y, n : ConnectInputIn(y, d, p, n), x, GraphNames(d))

StartXmr(d) ==
    [d |-> d, names |-> << >>, pads |-> << >>, outs |-> <<>>, ins |-> <<>>,
     changed |-> FALSE, err |-> FALSE]
\* Of the operation as the pass met it, g.ops[o], only the operands change.
ResolveOp(x, n, o, op) ==
    IF op.kind = "kXMRRead" THEN ResolveRead(x, n, o, op) ELSE ResolveWrite(x, n, o, op)
ResolveGraph(x, g, n) ==
    FoldLeft(LAMBDA y, o : ResolveOp(y, n, o, g.ops[o]), x, OpsOfKinds(g, {"kXMRRead", "kXMRWrite"}))
ResolveAll(x, d)     == FoldLeft(LAMBDA y, n : ResolveGraph(y, d[n], n), x, GraphNames(d))
ConnectOutputs(x, d) == FoldLeft(LAMBDA y, p : ConnectOutput(y, d, p), x, x.outs)
ConnectInputs(x, d)  == FoldLeft(LAMBDA y, p : ConnectInput(y, d, p), x, x.ins)
ConnectAll(x, d)     == ConnectInputs(ConnectOutputs(x, d), d)
XmrReport(x) == [d |-> x.d, changed |-> x.changed, failed |-> FALSE, err |-> x.err]
XmrResolve(d)        == XmrReport(ConnectAll(ResolveAll(StartXmr(d), d), d))
=============================================================================
