------------------------------ MODULE Observe ------------------------------
(***************************************************************************)
(* What a design shows to its environment: a run of its top graph for some *)
(* cycles under given inputs, so that a design before a pass can be        *)
(* compared with the one after it.  This is the meaning of the GRH         *)
(* operations (docs/grh/grh-ir.md), not code of the passes.                *)
(*                                                                         *)
(* A design is a function from graph names to netlists.  A cycle evaluates *)
(* every value from the inputs and the storages, shows the output ports    *)
(* and the operands of the operations with effects, then applies the write *)
(* ports in the order of their operations.  There is one clock and a cycle *)
(* is one of its edges.  Instances of graphs of the design are evaluated   *)
(* inside; a state is [own, sub], sub holding one state per instance.      *)
(*                                                                         *)
(* The hierarchy is elaborated first: a place is the sequence of the       *)
(* instance operations that lead to a graph from the top, and a state      *)
(* gives every place the contents of its storages.  A hierarchical read    *)
(* sees the named value or storage of a place below; a hierarchical write  *)
(* overrides it.                                                           *)
(***************************************************************************)
EXTENDS OpSemantics, MemoryPasses

CallKinds    == {"kSystemTask", "kDpicCall"}
WriteKinds   == {"kRegisterWritePort", "kLatchWritePort", "kMemoryWritePort"}
StorageKinds == {"kRegister", "kLatch", "kMemory"}

StorageOps(g) == {o \in DOMAIN g.ops : Kind(g, o) \in StorageKinds}
StorageNames(g) == {g.ops[o].sym : o \in StorageOps(g)}
StorageOp(g, s) == g.ops[CHOOSE o \in StorageOps(g) : g.ops[o].sym = s]

\* An instance of a graph the design does not hold, or holds as an empty
\* shell with undriven outputs, is outside of what the design describes.
Shell(g) == DOMAIN g.ops = {} /\ \E i \in DOMAIN g.outp : ~IsInput(g, g.outp[i].val)
External(d, op) ==
    \/ op.kind = "kBlackbox"
    \/ op.kind = "kInstance" /\ (op.a.module \notin DOMAIN d \/ Shell(d[op.a.module]))
InstanceOps(d, g) == {o \in DOMAIN g.ops : Kind(g, o) = "kInstance" /\ ~External(d, g.ops[o])}
InstanceSeq(d, g) == SelectSeq(OpIds(g), LAMBDA o : o \in InstanceOps(d, g))
InstanceAt(d, g, name) == SelectSeq(InstanceSeq(d, g), LAMBDA o : g.ops[o].a.inst = name)[1]

\* The places under the graph named top, each followed by those below it:
\* [at, graph].
PlacesOf(d, top) ==
    LET from[n \in DOMAIN d, at \in Seq(Nat)] ==
            LET below == InstanceSeq(d, d[n])
            IN  <<[at |-> at, graph |-> n]>>
                  \o FlattenSeq([i \in DOMAIN below |->
                         from[d[n].ops[below[i]].a.module, Append(at, below[i])]])
    IN  from[top, <<>>]

\* Where the name path leads from a place: [at, sym].
Follow(d, place, path) ==
    LET Down(p, name) ==
            LET o == InstanceAt(d, d[p.graph], name)
            IN  [at |-> Append(p.at, o), graph |-> d[p.graph].ops[o].a.module]
    IN  [at |-> FoldLeft(Down, place, Front(path)).at, sym |-> Last(path)]

\* Places are numbered in their order; 1 is the top.
Number(places, at) == SelectInSeq(places, LAMBDA x : x.at = at)
Named(d, places, p, path) ==
    LET seen == Follow(d, places[p], path)
    IN  [place |-> Number(places, seen.at), sym |-> seen.sym]

\* The hierarchical writes of a design: [place, sym, from, op].
XmrWrites(d, places) ==
    LET Of(p) == LET g == d[places[p].graph]
                     O == SelectSeq(OpIds(g), LAMBDA o : Kind(g, o) = "kXMRWrite")
                 IN  [i \in DOMAIN O |-> Named(d, places, p, g.ops[O[i]].a.path)
                                           @@ [from |-> p, op |-> g.ops[O[i]]]]
    IN  FlattenSeq([p \in DOMAIN places |-> Of(p)])

\* The child's value at a result of its instance: outputs, inout outputs,
\* inout enables.
ResultValue(child, op, i) ==
    LET no == Len(op.a.outs)
        ni == Len(op.a.ios)
        At(ports, name) == ports[SelectInSeq(ports, LAMBDA p : p.name = name)]
    IN  CASE i <= no      -> At(child.outp, op.a.outs[i]).val
          [] i <= no + ni -> At(child.io, op.a.ios[i - no]).out
          [] OTHER        -> At(child.io, op.a.ios[i - no - ni]).oe

\* The last write to a name of a place; 0 when there is none.
WriteTo(writes, p, sym) == SelectLastInSeq(writes, LAMBDA w : w.place = p /\ w.sym = sym)
\* The operand of instance op that feeds the child's port.
OperandFor(op, port) == op.in[SelectInSeq(op.a.ins \o op.a.ios, LAMBDA q : q = port)]
Alias(p, v) == [is |-> "alias", of |-> <<p, v>>]
\* Where the bits of value v at place p come from.
Source(d, places, writes, p, v) ==
    LET at   == places[p].at
        g    == d[places[p].graph]
        in   == SelectInSeq(g.inp, LAMBDA q : q.val = v)
        io   == SelectInSeq(g.io, LAMBDA q : q.in = v)
        port == IF in # 0 THEN g.inp[in].name ELSE g.io[io].name
        up   == Number(places, Front(at))
        w    == WriteTo(writes, p, g.vals[v].sym)
        o    == Def(g, v)
        op   == g.ops[o]
        seen == Named(d, places, p, op.a.path)
        h    == d[places[seen.place].graph]
    IN  IF w # 0 THEN Alias(writes[w].from, writes[w].op.in[1])
        ELSE IF in + io # 0
             THEN IF p = 1 THEN [is |-> "input", port |-> port]
                  ELSE Alias(up, OperandFor(d[places[up].graph].ops[Last(at)], port))
        ELSE IF o = 0 THEN [is |-> "none"]
        ELSE IF o \in InstanceOps(d, g)
             THEN Alias(Number(places, Append(at, o)), ResultValue(d[op.a.module], op, ResultIndex(g, o, v)))
        ELSE IF op.kind # "kXMRRead" THEN [is |-> "op", op |-> op]
        ELSE IF seen.sym \in StorageNames(h) THEN [is |-> "storage", place |-> seen.place, sym |-> seen.sym]
        ELSE Alias(seen.place, FindValue(h, seen.sym))

\* A design made ready to run: at[p] is the netlist at place p, order all
\* its values, from[<<p, v>>] their sources.
Elaborate(d, n) ==
    LET places == PlacesOf(d, n)
        writes == XmrWrites(d, places)
        at     == [p \in DOMAIN places |-> d[places[p].graph]]
        order  == FlattenSeq([p \in DOMAIN places |-> [k \in DOMAIN ValIds(at[p]) |-> <<p, ValIds(at[p])[k]>>]])
    IN  [d |-> d, writes |-> writes, at |-> at, order |-> order,
         from |-> [pv \in Range(order) |-> Source(d, places, writes, pv[1], pv[2])]]

ResetState(e) ==
    [p \in DOMAIN e.at |->
        LET g == e.at[p]
        IN  [s \in StorageNames(g) |->
                LET op    == StorageOp(g, s)
                    Or(b) == IF b = NoInit THEN AllX(op.a.width) ELSE b
                IN  IF op.kind = "kMemory"
                    THEN [r \in 0..(op.a.row - 1) |-> Or(InitMap(op, op.a.row)[r])]
                    ELSE Or(SeqAttr(op, "init"))]]

ReadRow(mem, addr, w) ==
    IF Known(addr) /\ ToNat(addr) \in DOMAIN mem THEN mem[ToNat(addr)] ELSE AllX(w)

Computed(op) ==
    CASE op.kind = "kSystemFunction" -> op.a.name = "clog2"
      [] op.kind = "kReplicate"      -> "rep" \in DOMAIN op.a
      [] OTHER                       -> op.kind \in FoldableKinds

Masked(old, new, mask) ==
    [i \in DOMAIN old |-> IF mask[i] = 1 THEN new[i] ELSE IF mask[i] = 0 THEN old[i]
                          ELSE Unknown]
Update(old, cond, new, mask) == Conditional(cond, Masked(old, new, mask), old, FALSE)

\* A latch is transparent: its readers see the writes of the same cycle.
LatchWriters(g, s) ==
    SelectSeq(OpsOfKinds(g, {"kLatchWritePort"}), LAMBDA o : g.ops[o].a.target = s)

\* The bits of value v at place p, from the bits known so far.
ValueBits(e, inputs, st, ev, p, v) ==
    LET g   == e.at[p]
        val == g.vals[v]
        src == e.from[<<p, v>>]
        op  == src.op
        Operands == [i \in DOMAIN op.in |-> ev[<<p, op.in[i]>>]]
        Latch(b, l) == LET i == g.ops[l].in
                       IN  Update(b, ev[<<p, i[1]>>], ev[<<p, i[2]>>], ev[<<p, i[3]>>])
    IN  CASE src.is = "input"   -> inputs[src.port]
          [] src.is = "alias"   -> Resize(ev[src.of], val.w, FALSE)
          [] src.is = "storage" -> st[src.place][src.sym]
          [] src.is = "none"    -> AllX(val.w)
          [] src.is = "op" ->
             CASE op.kind = "kConstant" -> Normalize(val, op.a.lit)
               [] op.kind = "kRegisterReadPort" -> st[p][op.a.target]
               [] op.kind = "kLatchReadPort" ->
                     FoldLeft(Latch, st[p][op.a.target], LatchWriters(g, op.a.target))
               [] op.kind = "kMemoryReadPort" -> ReadRow(st[p][op.a.target], Operands[1], val.w)
               [] Computed(op) -> Normalize(val, FoldOperands(g, op, Operands))
               [] OTHER -> AllX(val.w)

\* Sweeps over all values, from unknown ones, until they settle.  Without a
\* combinational loop they do, at the one assignment there is; a loop that
\* does not settle is left where the bound on the sweeps finds it.
Sweep(e, inputs, st, ev) ==
    FoldLeft(LAMBDA acc, pv : [acc EXCEPT ![pv] = ValueBits(e, inputs, st, acc, pv[1], pv[2])],
             ev, e.order)
Evaluate(e, inputs, st) ==
    LET start == FoldLeft(LAMBDA acc, pv : acc @@ (pv :> AllX(e.at[pv[1]].vals[pv[2]].w)),
                          << >>, e.order)
        sweep[k \in Nat] ==
            IF k = 0 THEN [old |-> << >>, new |-> start]
            ELSE LET s == sweep[k - 1]
                 IN  IF s.new = s.old THEN s ELSE [old |-> s.new, new |-> Sweep(e, inputs, st, s.new)]
    IN  sweep[Len(e.order) + 1].new

-----------------------------------------------------------------------------
\* One write of operands in to storage s.
WriteStorage(g, own, s, in) ==
    CASE StorageOp(g, s).kind # "kMemory" -> [own EXCEPT ![s] = Update(@, in[1], in[2], in[3])]
      [] ~Known(in[2]) -> [own EXCEPT ![s] = [r \in DOMAIN @ |-> AllX(Len(@[r]))]]
      [] ToNat(in[2]) \in DOMAIN own[s] -> [own EXCEPT ![s][ToNat(in[2])] = Update(@, in[1], in[3], in[4])]
      [] OTHER -> own

PlaceNext(e, ev, own, p) ==
    LET g == e.at[p]
        Bits(q, op) == [i \in DOMAIN op.in |-> ev[<<q, op.in[i]>>]]
        above == SelectSeq(e.writes, LAMBDA w : w.place = p /\ w.sym \in StorageNames(g))
    IN  FoldLeft(LAMBDA s, w : WriteStorage(g, s, w.sym, Bits(w.from, w.op)),
                 FoldLeft(LAMBDA s, o : WriteStorage(g, s, g.ops[o].a.target, Bits(p, g.ops[o])),
                          own, OpsOfKinds(g, WriteKinds)),
                 above)
NextState(e, ev, st) ==
    FoldLeftDomain(LAMBDA next, p : Append(next, PlaceNext(e, ev, st[p], p)), <<>>, e.at)

\* The operands of calls and of external instances.
Effects(e, ev, p) ==
    LET g == e.at[p]
        O == SelectSeq(OpIds(g), LAMBDA o : Kind(g, o) \in CallKinds \/ External(e.d, g.ops[o]))
    IN  FlattenSeq([k \in DOMAIN O |-> [i \in DOMAIN g.ops[O[k]].in |-> ev[<<p, g.ops[O[k]].in[i]>>]]])

Shown(e, ev) ==
    LET g == e.at[1]
        Bits(vs) == [i \in DOMAIN vs |-> ev[<<1, vs[i]>>]]
    IN  Bits([i \in DOMAIN g.outp |-> g.outp[i].val])
          \o Bits([i \in DOMAIN g.io |-> g.io[i].out]) \o Bits([i \in DOMAIN g.io |-> g.io[i].oe])
          \o FlattenSeq([p \in DOMAIN e.at |-> Effects(e, ev, p)])

\* What graph n shows over a sequence of input assignments, from reset.
Cycle(e, acc, ev) == [seen |-> Append(acc.seen, Shown(e, ev)), st |-> NextState(e, ev, acc.st)]
Run(e, stimulus) ==
    FoldLeft(LAMBDA acc, inputs : Cycle(e, acc, Evaluate(e, inputs, acc.st)),
             [seen |-> <<>>, st |-> ResetState(e)], stimulus).seen
Observe(d, n, stimulus) == Run(Elaborate(d, n), stimulus)

\* Every bit the old trace knows is shown by the new one.
RefinesTrace(new, old) ==
    /\ Len(new) = Len(old)
    /\ \A t \in DOMAIN old :
          /\ Len(new[t]) = Len(old[t])
          /\ \A i \in DOMAIN old[t] : RefinesBits(new[t][i], old[t][i])
=============================================================================
