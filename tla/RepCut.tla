------------------------------- MODULE RepCut -------------------------------
(***************************************************************************)
(* repcut: one graph is cut into parts, each a graph of its own, and the   *)
(* graph is rebuilt as their instances.  A sink is an operation that       *)
(* writes storage or has an effect, or the value of an output port.  The   *)
(* gates in front of a sink are its cone; sinks that must stay together,   *)
(* with their cones, are an asc.  An external partitioner gives every asc  *)
(* a part; gates shared by ascs of different parts are copied into each,   *)
(* and what else crosses becomes ports, several values with the same owner *)
(* and the same readers packed into one.  The weights given to the         *)
(* partitioner are left out: it may answer anything.                       *)
(*                                                                         *)
(* An asc is named by its first sink.  parts maps an operation to the set  *)
(* of parts that hold it.                                                  *)
(***************************************************************************)
EXTENDS OpSemantics

Hier   == INSTANCE Hierarchy
Guards == INSTANCE HierarchyGuards

\* A set of operations, values, ascs or parts in their order.
Sorted(S) == IF S = {} THEN <<>> ELSE SelectSeq([i \in 1..(Max(S) + 1) |-> i - 1], LAMBDA i : i \in S)

\* f itself, written so that TLC computes its values once.
Table(f) == f @@ << >>

-----------------------------------------------------------------------------
(* Kinds of operations.                                                    *)

EffectKinds == {"kSystemTask", "kDpicCall"}
WriteKindOf == ("kRegisterWritePort" :> "kRegister") @@ ("kLatchWritePort" :> "kLatch")
                 @@ ("kMemoryWritePort" :> "kMemory")
ReadKindOf  == ("kRegisterReadPort" :> "kRegister") @@ ("kLatchReadPort" :> "kLatch")
                 @@ ("kMemoryReadPort" :> "kMemory")
CombKinds   == (FoldableKinds \ {"kSystemFunction"}) \cup {"kConstant", "kMemoryReadPort"}
SourceKinds == {"kConstant", "kRegisterReadPort", "kLatchReadPort"}

BoolAttr(op, key) == key \in DOMAIN op.a /\ op.a[key]
HasEvents(op)     == "edges" \in DOMAIN op.a /\ op.a.edges # <<>>
ReturnsEffect(op) == op.kind \in EffectKinds /\ BoolAttr(op, "ret")
IsEffectSink(op)  == op.kind \in EffectKinds /\ ~ReturnsEffect(op)
IsSink(op)        == op.kind \in DOMAIN WriteKindOf \/ IsEffectSink(op)
IsHier(op)        == op.kind \in {"kInstance", "kBlackbox"}
IsComb(op) ==
    /\ ~HasEvents(op)
    /\ op.kind \in CombKinds \/ (op.kind = "kSystemFunction" /\ ~BoolAttr(op, "effects"))
InCone(op) == IsComb(op) \/ ReturnsEffect(op)

IsInoutIn(g, v) == \E i \in DOMAIN g.io : g.io[i].in = v
IsSource(g, v) ==
    IsInput(g, v) \/ IsInoutIn(g, v) \/ Def(g, v) = 0 \/ DefKind(g, v) \in SourceKinds
Preds(g, o) == {Def(g, v) : v \in Range(g.ops[o].in)} \ {0, o}
Succs(g, o) == UNION {UsersOf(g, v) : v \in Range(g.ops[o].out)} \ {o}

-----------------------------------------------------------------------------
(* Sinks, and what lies in front of them.                                  *)

OpSink(o)    == [op |-> o, val |-> 0]
ValueSink(v) == [op |-> 0, val |-> v]
Sinks(g) ==
    LET ops == SelectSeq(OpIds(g), LAMBDA o : IsSink(g.ops[o]))
    IN  [i \in DOMAIN ops |-> OpSink(ops[i])]
          \o [i \in DOMAIN g.outp |-> ValueSink(g.outp[i].val)]
          \o FlattenSeq([i \in DOMAIN g.io |-> <<ValueSink(g.io[i].out), ValueSink(g.io[i].oe)>>])

SinkReads(g, s) == IF s.op = 0 THEN <<s.val>> ELSE g.ops[s.op].in
\* The operations that define the values vs, sources left out.
Behind(g, vs) ==
    LET own == SelectSeq(vs, LAMBDA v : ~IsSource(g, v)) IN [i \in DOMAIN own |-> Def(g, own[i])]

\* A search over cones for memories read, or for calls whose result is used.
\* memo = [seen, found] keeps what was found at and above the operations
\* seen.  One that is still open has found nothing yet, so a loop hides what
\* lies on it.
MemoryMarks(g, o) == IF Kind(g, o) = "kMemoryReadPort" THEN {g.ops[o].a.target} ELSE {}
CallMarks(g, o)   == IF ReturnsEffect(g.ops[o]) THEN {o} ELSE {}
Marks(g, what, o) == IF what = "memory" THEN MemoryMarks(g, o) ELSE CallMarks(g, o)
NoMemo(g) == [seen |-> {}, found |-> [o \in DOMAIN g.ops |-> {}]]
Memos(g, what) ==
    [seen : SUBSET DOMAIN g.ops,
     found : [DOMAIN g.ops -> SUBSET UNION {Marks(g, what, o) : o \in DOMAIN g.ops}]]
Search(g, what, start, first) ==
    LET search[memo \in Memos(g, what), o \in DOMAIN g.ops] ==
            LET above == IF InCone(g.ops[o]) THEN Behind(g, g.ops[o].in) ELSE <<>>
                full  == FoldLeft(LAMBDA m, p : search[m, p], [memo EXCEPT !.seen = @ \cup {o}], above)
            IN  IF o \in memo.seen THEN memo
                ELSE [full EXCEPT !.found[o] = Marks(g, what, o) \cup UNION {full.found[p] : p \in Range(above)}]
    IN  search[start, first]
\* The marks of every sink, in the order of the sinks: one memo for them all.
SearchSink(g, what, acc, s) ==
    LET starts == Behind(g, SinkReads(g, s))
        memo   == FoldLeft(LAMBDA m, p : Search(g, what, m, p), acc.memo, starts)
    IN  [memo |-> memo, found |-> Append(acc.found, UNION {memo.found[p] : p \in Range(starts)})]
SinkMarks(g, what, sinks) ==
    FoldLeft(LAMBDA acc, s : SearchSink(g, what, acc, s), [memo |-> NoMemo(g), found |-> <<>>], sinks).found

-----------------------------------------------------------------------------
(* Ascs.  label gives every sink the first sink of its class.              *)

Merge(label, i, j) ==
    LET ends == {label[i], label[j]}
    IN  Table([k \in DOMAIN label |-> IF label[k] \in ends THEN Min(ends) ELSE label[k]])
MergeAll(label, i, S) == FoldLeft(LAMBDA l, j : Merge(l, i, j), label, Sorted(S))

Writers(g, sinks, s) ==
    {i \in DOMAIN sinks : /\ sinks[i].op # 0 /\ Kind(g, sinks[i].op) \in DOMAIN WriteKindOf
                          /\ g.ops[sinks[i].op].a.target = s}
JoinWriters(g, sinks, label) ==
    FoldLeft(LAMBDA l, i : IF sinks[i].op = 0 \/ Kind(g, sinks[i].op) \notin DOMAIN WriteKindOf THEN l
                           ELSE MergeAll(l, i, Writers(g, sinks, g.ops[sinks[i].op].a.target)),
             label, Sorted(DOMAIN sinks))
\* A memory cannot be read from another part.
JoinMemories(g, sinks, label) ==
    LET reads == SinkMarks(g, "memory", sinks)
    IN  FoldLeft(LAMBDA l, i : MergeAll(l, i, UNION {Writers(g, sinks, s) : s \in reads[i]}),
                 label, Sorted(DOMAIN sinks))
\* A call must not be made twice.
JoinCalls(g, sinks, label) ==
    LET calls == SinkMarks(g, "call", sinks)
    IN  FoldLeft(LAMBDA l, i : MergeAll(l, i, {Min({j \in DOMAIN sinks : c \in calls[j]}) : c \in calls[i]}),
                 label, Sorted(DOMAIN sinks))
Labels(g, sinks) ==
    JoinCalls(g, sinks, JoinMemories(g, sinks, JoinWriters(g, sinks, [i \in DOMAIN sinks |-> i])))

Inner(g, o) == Kind(g, o) \notin SourceKinds /\ InCone(g.ops[o])
Upwards(g, start) ==
    LET up[S \in SUBSET DOMAIN g.ops] ==
            LET T == S \cup UNION {Preds(g, o) : o \in {p \in S : Inner(g, p)}}
            IN  IF T = S THEN S ELSE up[T]
    IN  up[start]
Cone(g, sinks, S) ==
    {o \in Upwards(g, UNION {Range(Behind(g, SinkReads(g, sinks[i]))) : i \in S}) : Inner(g, o)}

\* asc -> [sinks, ops, comb]: its sinks, those that are operations, its cone.
AscsOfLabels(g, sinks, label) ==
    LET Of(a) == {i \in DOMAIN sinks : label[i] = a}
        Asc(S) == [sinks |-> S, ops |-> {sinks[i].op : i \in S} \ {0}, comb |-> Cone(g, sinks, S)]
    IN  Table([a \in Range(label) |-> Asc(Of(a))])
Ascs(g) == AscsOfLabels(g, Sinks(g), Labels(g, Sinks(g)))

-----------------------------------------------------------------------------
(* Pieces: connected operations of the same ascs.  The partitioner gets a  *)
(* hypergraph of one node per asc and one edge per piece between ascs.     *)

AscsOf(ascs, o) == {a \in DOMAIN ascs : o \in ascs[a].ops \cup ascs[a].comb}

\* Bound: which gate of a cone is the seed of an asc without operation sinks
\* is left to CHOOSE; the pieces of the others are the same.
Seed(asc) ==
    IF asc.ops # {} THEN {Min(asc.ops)}
    ELSE IF asc.comb # {} THEN {CHOOSE o \in asc.comb : TRUE} ELSE {}
Spread(g, of, seed) ==
    LET spread[S \in SUBSET DOMAIN g.ops] ==
            LET T == S \cup {p \in UNION {Preds(g, o) \cup Succs(g, o) : o \in S} : \E o \in S : of[p] = of[o]}
            IN  IF T = S THEN S ELSE spread[T]
    IN  spread[seed]
\* A piece is [ops, ascs].
Grow(g, of, acc, seed, ascs) ==
    IF seed \subseteq acc.taken THEN [acc EXCEPT !.pieces = Append(@, [ops |-> {}, ascs |-> ascs])]
    ELSE LET ops == Spread(g, of, seed)
         IN  [taken |-> acc.taken \cup ops,
              pieces |-> Append(acc.pieces, [ops |-> ops, ascs |-> of[Min(ops)]])]
PiecesFrom(g, ascs, of) ==
    LET seeded == FoldLeft(LAMBDA acc, a : Grow(g, of, acc, Seed(ascs[a]), {a}),
                           [taken |-> {}, pieces |-> <<>>], Sorted(DOMAIN ascs))
        AddOp(acc, o) == IF o \in acc.taken THEN acc ELSE Grow(g, of, acc, {o}, {})
    IN  FoldLeft(AddOp, seeded, OpIds(g)).pieces
Pieces(g, ascs) == PiecesFrom(g, ascs, Table([o \in DOMAIN g.ops |-> AscsOf(ascs, o)]))
HyperEdges(ascs, pieces) ==
    LET rest == SelectSeq(SubSeq(pieces, Cardinality(DOMAIN ascs) + 1, Len(pieces)), LAMBDA p : p.ascs # {})
    IN  [i \in DOMAIN rest |-> rest[i].ascs]

\* The pass's checks of what it built: a failure ends it.
PiecesValid(g, ascs, pieces) ==
    /\ \A o \in DOMAIN g.ops : \E i \in DOMAIN pieces : o \in pieces[i].ops
    /\ \A i \in DOMAIN pieces : \A o \in pieces[i].ops : AscsOf(ascs, o) = pieces[i].ascs
AscsValid(g, ascs) ==
    \A a \in DOMAIN ascs :
        /\ ascs[a].sinks # {}
        /\ \A o \in ascs[a].ops : IsSink(g.ops[o])
        /\ \A o \in ascs[a].comb : InCone(g.ops[o])
EdgesValid(ascs, edges) == \A i \in DOMAIN edges : edges[i] # {} /\ edges[i] \subseteq DOMAIN ascs

-----------------------------------------------------------------------------
(* Parts of operations.                                                    *)

CutParts(g, ascs, part) == Table([o \in DOMAIN g.ops |-> {part[a] : a \in AscsOf(ascs, o)}])

\* The storage an operation declares, reads or writes; "" for any other.
StorageOf(op) ==
    IF op.kind \in {"kRegister", "kLatch", "kMemory"} THEN op.sym
    ELSE IF op.kind \in DOMAIN WriteKindOf \cup DOMAIN ReadKindOf THEN op.a.target ELSE ""
ReadsOf(g, s) == {o \in DOMAIN g.ops : Kind(g, o) \in DOMAIN ReadKindOf /\ g.ops[o].a.target = s}
WritesOf(g, s) == {o \in DOMAIN g.ops : Kind(g, o) \in DOMAIN WriteKindOf /\ g.ops[o].a.target = s}

\* A register or latch that nothing writes goes where most of its readers are.
Uses(g, v, o) == Cardinality({i \in DOMAIN g.ops[o].in : g.ops[o].in[i] = v})
Score(g, parts, s, p) ==
    LET values == UNION {Range(g.ops[o].out) : o \in ReadsOf(g, s)}
    IN  MapThenSumSet(LAMBDA v : MapThenSumSet(LAMBDA o : Uses(g, v, o), {o \in UsersOf(g, v) : p \in parts[o]}),
                      values)
InferredOwner(g, parts, s) ==
    LET all  == UNION Range(parts)
        best == {p \in all : /\ Score(g, parts, s, p) > 0
                             /\ \A q \in all : Score(g, parts, s, q) <= Score(g, parts, s, p)}
    IN  IF best = {} \/ \E o \in ReadsOf(g, s) : Kind(g, o) = "kMemoryReadPort" THEN {} ELSE {Min(best)}
\* All writers of a storage are in one asc.
OwnerOfStorage(g, parts, s) ==
    IF WritesOf(g, s) # {} THEN parts[Min(WritesOf(g, s))] ELSE InferredOwner(g, parts, s)
StorageParts(g, parts) ==
    Table([o \in DOMAIN g.ops |->
        IF StorageOf(g.ops[o]) = "" THEN parts[o]
        ELSE parts[o] \cup OwnerOfStorage(g, parts, StorageOf(g.ops[o]))])

\* Only the values of registers, latches, constants and effects may cross.
MayCross(op) == op.kind \in SourceKinds \/ IsEffectSink(op)
Forbidden(g, parts) ==
    \E o \in DOMAIN g.ops :
        /\ parts[o] # {} /\ ~MayCross(g.ops[o])
        /\ \E u \in UNION {UsersOf(g, v) : v \in Range(g.ops[o].out)} : ~(parts[u] \subseteq parts[o])

\* A constant goes wherever it is read, an import wherever it is called.
ConstantParts(g, parts) ==
    Table([o \in DOMAIN g.ops |->
        IF Kind(g, o) # "kConstant" THEN parts[o]
        ELSE parts[o] \cup UNION {parts[u] : u \in Succs(g, o)}])
ImportOf(g, op) ==
    LET o == FindOp(g, op.a.target)
    IN  IF op.kind = "kDpicCall" /\ o # 0 /\ Kind(g, o) = "kDpicImport" THEN o ELSE 0
ImportParts(g, parts) ==
    LET Callers(o) == {c \in DOMAIN g.ops : Kind(g, c) = "kDpicCall" /\ ImportOf(g, g.ops[c]) = o}
    IN  Table([o \in DOMAIN g.ops |-> parts[o] \cup UNION {parts[c] : c \in Callers(o)}])

-----------------------------------------------------------------------------
(* What crosses.                                                           *)

OrigInputs(g)  == {g.inp[i].val : i \in DOMAIN g.inp} \cup {g.io[i].in : i \in DOMAIN g.io}
OrigOutputs(g) ==
    {g.outp[i].val : i \in DOMAIN g.outp} \cup UNION {{g.io[i].out, g.io[i].oe} : i \in DOMAIN g.io}
OpsIn(parts, p) == {o \in DOMAIN parts : p \in parts[o]}
Operands(g, parts, p) == UNION {Range(g.ops[o].in) : o \in OpsIn(parts, p)}
DefinedIn(g, parts, v, p) == Def(g, v) # 0 /\ p \in parts[Def(g, v)]
InputsOf(g, parts, p) ==
    {v \in Operands(g, parts, p) : v \in OrigInputs(g) \/ ~DefinedIn(g, parts, v, p)}
\* The part that shows a value to the others, {} when none defines it.
Owner(g, parts, v) ==
    IF Def(g, v) = 0 \/ parts[Def(g, v)] = {} THEN {} ELSE {Min(parts[Def(g, v)])}
UsedByOther(g, parts, P) ==
    {v \in UNION {InputsOf(g, parts, p) : p \in P} \ OrigInputs(g) : Def(g, v) # 0}
OutputsOf(g, parts, P, p) ==
    {v \in UsedByOther(g, parts, P) \cup OrigOutputs(g) : Owner(g, parts, v) = {p}}
RequiredBy(g, parts, p) ==
    Operands(g, parts, p) \cup UNION {Range(g.ops[o].out) : o \in OpsIn(parts, p)}

\* Bundles: the values with the same owner and the same readers, two or more.
Consumers(g, parts, P, v) == {p \in P : v \in InputsOf(g, parts, p)} \ Owner(g, parts, v)
BundleKey(g, parts, P, v) == [from |-> Min(Owner(g, parts, v)), to |-> Consumers(g, parts, P, v)]
BundlesOf(keys) ==
    LET Of(k)  == Sorted({v \in DOMAIN keys : keys[v] = k})
        shared == SetToSeq({k \in Range(keys) : Len(Of(k)) > 1})
    IN  [i \in DOMAIN shared |-> [from |-> shared[i].from, to |-> shared[i].to, members |-> Of(shared[i])]]
Bundles(g, parts, P) ==
    LET shared == {v \in UsedByOther(g, parts, P) : Owner(g, parts, v) # {} /\ Consumers(g, parts, P, v) # {}}
    IN  BundlesOf(Table([v \in shared |-> BundleKey(g, parts, P, v)]))
BundleWidth(g, b) == FoldLeft(LAMBDA n, v : n + g.vals[v].w, 0, b.members)
\* The first member takes the top bits.
Lowest(g, b, i) == FoldLeft(LAMBDA n, v : n + g.vals[v].w, 0, SubSeq(b.members, i + 1, Len(b.members)))
SliceAttr(g, b, i) ==
    [lo |-> Lowest(g, b, i), hi |-> Lowest(g, b, i) + g.vals[b.members[i]].w - 1]
MembersOf(bs) == UNION {Range(b.members) : b \in bs}

Signature(S) ==
    LET seq == Sorted(S)
    IN  FoldLeft(LAMBDA s, i : s \o (IF i = 1 THEN "p" ELSE "_p") \o ToString(seq[i]), "", [i \in DOMAIN seq |-> i])

-----------------------------------------------------------------------------
(* Names.                                                                  *)

PortBase(g, v) == IF g.vals[v].sym = Tmp THEN Tmp \o ToString(v) ELSE g.vals[v].sym
NewName(h, base) == UniqueName(h, base, "_")
PortNames(h) == Hier!Names(h.inp) \cup Hier!Names(h.outp)
Numbered(base, taken) ==
    LET Name(k) == IF k = 0 THEN base ELSE base \o "_" \o ToString(k)
    IN  Name(CHOOSE k \in 0..Cardinality(taken) : Name(k) \notin taken /\ \A j \in 0..(k - 1) : Name(j) \in taken)
NewPort(h, base) == Numbered(base, PortNames(h))

\* A value like v of g, under a name of its own.
Like(h, g, v, sym) == [CreateValue(h, g.vals[v].w, g.vals[v].sgn, sym) EXCEPT !.vals[h.nval].typ = g.vals[v].typ]
Declares(h, g, sym) == IF sym \in g.decl THEN [h EXCEPT !.decl = @ \cup {sym}] ELSE h
\* A copy of v, with its symbol.
CloneValue(h, g, v) == Declares(Like(h, g, v, g.vals[v].sym), g, g.vals[v].sym)

-----------------------------------------------------------------------------
(* The graph of a part: [g, map, in, out, inb, outb], the copies of values *)
(* and the ports by value and by bundle.                                   *)

AddCopy(c, g, v) == [c EXCEPT !.map = @ @@ (v :> c.g.nval), !.g = CloneValue(@, g, v)]
BindIn(h, name, v)  == [h EXCEPT !.inp = Append(@, [name |-> name, val |-> v])]
BindOut(h, name, v) == [h EXCEPT !.outp = Append(@, [name |-> name, val |-> v])]

\* One port for a bundle, and a slice of it for every member.
InBundle(c, g, b) ==
    LET wide  == c.g.nval
        start == CreateValue(c.g, BundleWidth(g, b), FALSE,
                             NewName(c.g, "repcut_in_bundle_" \o ToString(b.from) \o "_to_" \o Signature(b.to)))
        Slice(d, i) ==
            LET v == b.members[i]
            IN  [d EXCEPT !.map = @ @@ (v :> d.g.nval),
                          !.g = NamedOp(CloneValue(@, g, v), "kSliceStatic", <<wide>>, <<d.g.nval>>,
                                        SliceAttr(g, b, i), NewName(d.g, "repcut_in_slice_" \o PortBase(g, v)))]
        full == FoldLeft(Slice, [c EXCEPT !.g = start], [i \in DOMAIN b.members |-> i])
        port == NewPort(full.g, "in_bundle_from_p" \o ToString(b.from) \o "_to_" \o Signature(b.to))
    IN  [full EXCEPT !.g = BindIn(@, port, wide), !.inb = @ @@ (b :> port)]
OutBundle(c, g, b) ==
    LET suffix == ToString(b.from) \o "_to_" \o Signature(b.to)
        named  == NewName(c.g, "repcut_out_bundle_" \o suffix)
        packed == NamedOp(c.g, "kConcat", [i \in DOMAIN b.members |-> c.map[b.members[i]]], <<c.g.nval>>, NoAttr, named)
        wide   == CreateValue(packed, BundleWidth(g, b), FALSE, NewName(packed, "repcut_out_bundle_val_" \o suffix))
        port   == NewPort(wide, "out_bundle_to_" \o Signature(b.to))
    IN  [c EXCEPT !.g = BindOut(wide, port, c.g.nval), !.outb = @ @@ (b :> port)]
CloneOp(c, g, o) ==
    LET op == g.ops[o]
        To(vs) == [i \in DOMAIN vs |-> c.map[vs[i]]]
    IN  [c EXCEPT !.g = Declares(NamedOp(@, op.kind, To(op.in), To(op.out), op.a, op.sym), g, op.sym)]
InPort(c, g, v) ==
    LET port == NewPort(c.g, "in_" \o PortBase(g, v))
    IN  [c EXCEPT !.g = BindIn(@, port, c.map[v]), !.in = @ @@ (v :> port)]
OutPort(c, g, v) ==
    LET port == NewPort(c.g, "out_" \o PortBase(g, v))
    IN  [c EXCEPT !.g = BindOut(@, port, c.map[v]), !.out = @ @@ (v :> port)]

\* The values first, then the bundles that come in, the operations in their
\* order, the ports, and the bundles that go out.
PartIns(c, g, come, ins) == FoldLeft(LAMBDA d, v : InPort(d, g, v), c, Sorted(ins \ MembersOf(Range(come))))
PartOuts(c, g, go, outs) == FoldLeft(LAMBDA d, v : OutPort(d, g, v), c, Sorted(outs \ MembersOf(Range(go))))
PartOps(c, g, come, ops) ==
    FoldLeft(LAMBDA d, o : CloneOp(d, g, o), FoldLeft(LAMBDA d, b : InBundle(d, g, b), c, come), ops)
PartValues(g, come, ins, others) ==
    FoldLeft(LAMBDA d, v : AddCopy(d, g, v),
             [g |-> Guards!EmptyGraph, map |-> << >>, in |-> << >>, out |-> << >>, inb |-> << >>, outb |-> << >>],
             Sorted((ins \cup others) \ MembersOf(Range(come))))
PartGraphOf(g, ops, come, go, ins, outs, required) ==
    LET whole == PartOps(PartValues(g, come, ins, outs \cup required), g, come, ops)
    IN  FoldLeft(LAMBDA d, b : OutBundle(d, g, b), PartOuts(PartIns(whole, g, come, ins), g, go, outs), go)
PartGraph(g, parts, P, bundles, p) ==
    PartGraphOf(g, Sorted(OpsIn(parts, p)), SelectSeq(bundles, LAMBDA b : p \in b.to),
                SelectSeq(bundles, LAMBDA b : b.from = p),
                InputsOf(g, parts, p), OutputsOf(g, parts, P, p), RequiredBy(g, parts, p))

-----------------------------------------------------------------------------
(* The new top: t = [g, at, link, wide, ok].  at maps a value of the old   *)
(* graph to its value here; link and wide the values and bundles between   *)
(* parts.                                                                  *)

TopName(g, prefix, v) ==
    IF prefix = "" THEN g.vals[v].sym ELSE prefix \o PortBase(g, v)
CopyAs(h, g, v, prefix) == Like(h, g, v, NewName(h, TopName(g, prefix, v)))
NewTopValue(t, g, prefix, v) == [t EXCEPT !.g = CopyAs(@, g, v, prefix)]
TopInput(t, g, port) ==
    LET u == NewTopValue(t, g, "", port.val)
    IN  [u EXCEPT !.g = BindIn(@, port.name, t.g.nval), !.at = @ @@ (port.val :> t.g.nval)]
LinkBundle(t, g, b) ==
    [t EXCEPT !.wide = @ @@ (b :> t.g.nval),
              !.g = CreateValue(@, BundleWidth(g, b), FALSE,
                        NewName(@, "repcut_link_bundle_p" \o ToString(b.from) \o "_to_" \o Signature(b.to)))]
LinkValue(t, g, v) == [NewTopValue(t, g, "repcut_link_", v) EXCEPT !.link = @ @@ (v :> t.g.nval)]

\* Makes sure that at has v, when v is a link or a member of one.
BundleWith(t, v) == {b \in DOMAIN t.wide : v \in Range(b.members)}
SliceOut(t, g, b, v) ==
    LET h == NamedOp(t.g, "kSliceStatic", <<t.wide[b]>>, <<t.g.nval>>,
                     SliceAttr(g, b, SelectInSeq(b.members, LAMBDA m : m = v)), NewName(t.g, "repcut_link_slice_" \o PortBase(g, v)))
    IN  [t EXCEPT !.g = CopyAs(h, g, v, "repcut_link_value_"), !.at = @ @@ (v :> t.g.nval)]
Reach(t, g, v) ==
    IF v \in DOMAIN t.at THEN t
    ELSE IF BundleWith(t, v) # {} THEN SliceOut(t, g, CHOOSE b \in BundleWith(t, v) : TRUE, v)
    ELSE IF v \in DOMAIN t.link THEN [t EXCEPT !.at = @ @@ (v :> t.link[v])] ELSE t
\* The same, with a new value when there is no link.
MakeUnreached(t, g, prefix, v) ==
    IF v \in DOMAIN t.at THEN t ELSE [NewTopValue(t, g, prefix, v) EXCEPT !.at = @ @@ (v :> t.g.nval)]
ReachOrMake(t, g, prefix, v) == MakeUnreached(Reach(t, g, v), g, prefix, v)
ShowAt(t, port) == [t EXCEPT !.g = BindOut(@, port.name, t.at[port.val])]
TopOutput(t, g, port) == ShowAt(ReachOrMake(t, g, "", port.val), port)

\* The enable of an inout that is also its output gets a value of its own,
\* which nothing drives: the map takes it up after both are made.
Fresh(t, g, v) ==
    IF v \in DOMAIN t.at THEN [t |-> t, val |-> t.at[v]]
    ELSE [t |-> NewTopValue(t, g, "", v), val |-> t.g.nval]
BindInout(t, io, in, out, oe) ==
    [t EXCEPT !.g.io = Append(@, [name |-> io.name, in |-> in, out |-> out, oe |-> oe]),
              !.at = @ @@ (io.in :> in) @@ (io.out :> out) @@ (io.oe :> oe)]
InoutEnable(out, g, io, in, oe) == BindInout(oe.t, io, in, out.val, oe.val)
InoutOut(out, g, io, in) == InoutEnable(out, g, io, in, Fresh(Reach(out.t, g, io.oe), g, io.oe))
TopInout(t, g, io) ==
    InoutOut(Fresh(Reach(NewTopValue(t, g, "", io.in), g, io.out), g, io.out), g, io, t.g.nval)

\* An operand that nothing defines, in or out of the graph.
Undriven(t, g, v) ==
    IF v \in DOMAIN t.at \/ Def(g, v) # 0 THEN t ELSE MakeUnreached(t, g, "repcut_undriven_", v)

\* An instance of part p; without a value for every port the pass fails.
ReachPorts(t, g, c) ==
    FoldLeft(LAMBDA s, v : Undriven(Reach(s, g, v), g, v), t, Sorted(DOMAIN c.in))
ReachOuts(t, g, c) == FoldLeft(LAMBDA s, v : Reach(s, g, v), t, Sorted(DOMAIN c.out))
PortValue(t, byValue, byBundle, port) ==
    LET bs == {b \in DOMAIN byBundle : byBundle[b] = port}
    IN  IF bs # {} THEN t.wide[CHOOSE b \in bs : TRUE] ELSE t.at[CHOOSE v \in DOMAIN byValue : byValue[v] = port]
Connect(t, c, p, name) ==
    LET names(ports) == [i \in DOMAIN ports |-> ports[i].name]
        attrs == [module |-> name, inst |-> "part_" \o ToString(p), ins |-> names(c.g.inp),
                  outs |-> names(c.g.outp), ios |-> <<>>]
    IN  IF ~t.ok \/ ~(DOMAIN c.in \cup DOMAIN c.out \subseteq DOMAIN t.at) THEN [t EXCEPT !.ok = FALSE]
        ELSE [t EXCEPT !.g = NamedOp(@, "kInstance",
                                [i \in DOMAIN c.g.inp |-> PortValue(t, c.in, c.inb, c.g.inp[i].name)],
                                [i \in DOMAIN c.g.outp |-> PortValue(t, c.out, c.outb, c.g.outp[i].name)],
                                attrs, NewName(@, "inst_part_" \o ToString(p)))]
Instance(t, g, c, p, name) == Connect(ReachOuts(ReachPorts(t, g, c), g, c), c, p, name)

TopLinks(g, bundles, used) ==
    LET inputs == FoldLeft(LAMBDA t, port : TopInput(t, g, port),
                           [g |-> Guards!EmptyGraph, at |-> << >>, link |-> << >>, wide |-> << >>, ok |-> TRUE], g.inp)
    IN  FoldLeft(LAMBDA t, v : LinkValue(t, g, v), FoldLeft(LAMBDA t, b : LinkBundle(t, g, b), inputs, bundles),
                 Sorted(used \ MembersOf(Range(bundles))))
TopPorts(g, bundles, used) ==
    FoldLeft(LAMBDA t, io : TopInout(t, g, io),
             FoldLeft(LAMBDA t, port : TopOutput(t, g, port), TopLinks(g, bundles, used), g.outp), g.io)

\* The old graph is gone before the new top is complete.
Assemble(d, name, cut, names, top) ==
    DesignResult(FoldLeft(LAMBDA e, p : e @@ (names[p] :> cut[p].g), [d EXCEPT ![name] = top.g], Sorted(DOMAIN cut)),
                 top.ok, ~top.ok)
JoinParts(d, name, cut, names, ports) ==
    Assemble(d, name, cut, names,
             FoldLeft(LAMBDA t, p : Instance(t, d[name], cut[p], p, names[p]), ports, Sorted(DOMAIN cut)))
RebuildWith(d, name, parts, P, bundles) ==
    JoinParts(d, name, Table([p \in P |-> PartGraph(d[name], parts, P, bundles, p)]),
              [p \in P |-> Numbered(name \o "_repcut_part" \o ToString(p), DOMAIN d)],
              TopPorts(d[name], bundles, {v \in UsedByOther(d[name], parts, P) : Owner(d[name], parts, v) # {}}))
Rebuild(d, name, parts, P) == RebuildWith(d, name, parts, P, Bundles(d[name], parts, P))

-----------------------------------------------------------------------------
(* The pass.                                                               *)

MaxPartitionCount == 4096
Partitioners == {"mt-kahypar", "mtkahypar"}
Presets == {"", "quality", "highest-quality", "default", "deterministic", "deterministic-quality"}

\* The graph the path names: a graph, or below it by instances; "" for none.
TargetOf(d, path) ==
    LET at == Hier!ResolvePath(d, path)
        m  == d[at.in].ops[at.op].a.module
    IN  CASE path = <<>> -> ""
          [] Len(path) = 1 -> IF path[1] \in DOMAIN d THEN path[1] ELSE ""
          [] OTHER -> IF at.op = 0 \/ m \notin DOMAIN d THEN "" ELSE m
Refused(d, o) ==
    \/ o.path = <<>> \/ o.partitionCount \notin 2..MaxPartitionCount \/ o.imbalanceFactor = "-1"
    \/ TargetOf(d, o.path) = ""
    \/ \E i \in DOMAIN d[TargetOf(d, o.path)].ops : IsHier(d[TargetOf(d, o.path)].ops[i])
BackendTaken(o) == o.partitioner \in Partitioners /\ o.mtKaHyParPreset \in Presets

CutAt(d, name, parts, P) ==
    IF Forbidden(d[name], parts) THEN DesignResult(d, FALSE, TRUE)
    ELSE Rebuild(d, name, ImportParts(d[name], ConstantParts(d[name], parts)), P)
Cut(d, name, ascs, part, P) == CutAt(d, name, StorageParts(d[name], CutParts(d[name], ascs, part)), P)

\* What the pass may leave: the partitioner answers anything, or fails.
CutAscs(d, name, o, ascs, P) ==
    IF DOMAIN ascs = {} THEN {DesignResult(d, FALSE, FALSE)}
    ELSE {DesignResult(d, FALSE, TRUE)}
           \cup {Cut(d, name, ascs, part, P) : part \in IF BackendTaken(o) THEN [DOMAIN ascs -> P] ELSE {}}
Valid(g, ascs, pieces) ==
    PiecesValid(g, ascs, pieces) /\ AscsValid(g, ascs) /\ EdgesValid(ascs, HyperEdges(ascs, pieces))
CutValid(d, name, o, ascs) ==
    IF Valid(d[name], ascs, Pieces(d[name], ascs)) THEN CutAscs(d, name, o, ascs, 0..(o.partitionCount - 1))
    ELSE {DesignResult(d, FALSE, TRUE)}
CutGraph(d, name, o) == CutValid(d, name, o, Ascs(d[name]))
RepCut(d, o) ==
    IF Refused(d, o) THEN {DesignResult(d, FALSE, TRUE)} ELSE CutGraph(d, TargetOf(d, o.path), o)
=============================================================================
