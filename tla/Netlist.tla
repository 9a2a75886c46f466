------------------------------ MODULE Netlist ------------------------------
(***************************************************************************)
(* A netlist as the transform passes read and edit it: one value of a      *)
(* graph, and the editing calls of Graph that the passes use, each a       *)
(* function from a netlist to the edited one.  GraphBuilder models the     *)
(* same calls on their data structures (use lists, definitions, symbol     *)
(* bindings); here users and definitions are read off the operations.      *)
(*                                                                         *)
(*   ops    operation id -> [kind, in, out, a, sym]; a is the record of    *)
(*          the attributes the kind carries                                *)
(*   vals   value id -> [w, sgn, sym, typ]                                 *)
(*   inp, outp   sequences of [name, val];  io   of [name, in, out, oe]    *)
(*   decl   declared symbols;  nop, nval   the next free ids               *)
(*                                                                         *)
(* Ids are never reused within a pass; 0 is the invalid id.  The symbol    *)
(* Tmp stands for every internal _val_ or _op_ name: they never clash.     *)
(***************************************************************************)
EXTENDS Integers, Sequences, FiniteSets, SequencesExt, TLC, BitVec

Tmp == "_val_"

\* The members of S up to n, in ascending order; ids ascend in the order of
\* creation.
Ascending(S, n) ==
    LET upTo[k \in 0..n] ==
            IF k = 0 THEN <<>> ELSE IF k \in S THEN Append(upTo[k - 1], k) ELSE upTo[k - 1]
    IN  upTo[n]
OpIds(g)  == Ascending(DOMAIN g.ops, g.nop - 1)
ValIds(g) == Ascending(DOMAIN g.vals, g.nval - 1)

Kind(g, o) == g.ops[o].kind
Def(g, v) ==
    LET D == {o \in DOMAIN g.ops : Contains(g.ops[o].out, v)}
    IN  IF D = {} THEN 0 ELSE CHOOSE o \in D : TRUE
DefKind(g, v)   == IF Def(g, v) = 0 THEN "none" ELSE Kind(g, Def(g, v))
ResultIndex(g, o, v) == SelectInSeq(g.ops[o].out, LAMBDA r : r = v)
UsersOf(g, v)   == {o \in DOMAIN g.ops : Contains(g.ops[o].in, v)}
UseCount(g, v)  ==
    FoldLeft(LAMBDA n, o : n + Cardinality({i \in DOMAIN g.ops[o].in : g.ops[o].in[i] = v}),
             0, OpIds(g))
SingleUser(g, v, o) == UsersOf(g, v) = {o}

IsInput(g, v)  == \E i \in DOMAIN g.inp : g.inp[i].val = v
IsOutput(g, v) == \E i \in DOMAIN g.outp : g.outp[i].val = v
IsInout(g, v)  == \E i \in DOMAIN g.io : v \in {g.io[i].in, g.io[i].out, g.io[i].oe}
IsPort(g, v)   == IsInput(g, v) \/ IsOutput(g, v) \/ IsInout(g, v)
Declared(g, v) == g.vals[v].sym \in g.decl
\* isTemporarySymbol: no port, not declared, an internal name.
Temporary(g, v) == ~IsPort(g, v) /\ ~Declared(g, v) /\ g.vals[v].sym = Tmp

FindValue(g, s) ==
    LET V == {v \in DOMAIN g.vals : g.vals[v].sym = s}
    IN  IF V = {} \/ s = Tmp THEN 0 ELSE CHOOSE v \in V : TRUE
FindOp(g, s) ==
    LET O == {o \in DOMAIN g.ops : g.ops[o].sym = s}
    IN  IF O = {} \/ s = Tmp THEN 0 ELSE CHOOSE o \in O : TRUE

SameShape(g, u, v) == g.vals[u].w = g.vals[v].w /\ g.vals[u].sgn = g.vals[v].sgn

-----------------------------------------------------------------------------
NoAttr == [none |-> TRUE]
Attr(g, o, key, default) == IF key \in DOMAIN g.ops[o].a THEN g.ops[o].a[key] ELSE default

\* f with an entry for k, unless it has one.
With(f, k, e) == f @@ (k :> e)
CreateValue(g, w, sgn, sym) ==
    [g EXCEPT !.vals = With(@, g.nval, [w |-> w, sgn |-> sgn, sym |-> sym, typ |-> "Logic"]),
              !.nval = @ + 1]
CreateOp(g, kind, in, out, a) ==
    [g EXCEPT !.ops = With(@, g.nop, [kind |-> kind, in |-> in, out |-> out, a |-> a, sym |-> Tmp]),
              !.nop = @ + 1]
SetOp(g, o, op) == [g EXCEPT !.ops[o] = op]

\* An operation with a new internal value as its only result, Newest(g).
Gate(g, kind, in, w, sgn, a) == CreateOp(CreateValue(g, w, sgn, Tmp), kind, in, <<g.nval>>, a)
Newest(g) == g.nval - 1
ConstGate(g, bits, sgn) == Gate(g, "kConstant", <<>>, Len(bits), sgn, [lit |-> bits])
NamedOp(g, kind, in, out, a, sym) ==
    LET h == CreateOp(g, kind, in, out, a)
    IN  [h EXCEPT !.ops[g.nop].sym = sym]

\* base, or base followed by tag and the least number that makes it unused.
Unused(g, s) == FindOp(g, s) = 0 /\ FindValue(g, s) = 0
UniqueName(g, base, tag) ==
    LET name(k) == IF k = 0 THEN base ELSE base \o tag \o ToString(k)
        free    == {k \in 0..(Cardinality(DOMAIN g.ops) + Cardinality(DOMAIN g.vals)) :
                       Unused(g, name(k))}
    IN  name(CHOOSE k \in free : \A j \in free : k <= j)

\* What a pass reports of one graph.
Result(g, changed, failed) == [g |-> g, changed |-> changed, failed |-> failed]

\* What a pass reports of a design; a pass that fails has reported an error.
DesignResult(d, changed, failed) == [d |-> d, changed |-> changed, failed |-> failed, err |-> failed]

\* eraseOp refuses while another operation reads a result; the results stay
\* as values without a definition.
EraseOpUnchecked(g, o) ==
    [g EXCEPT !.ops = Restrict(@, DOMAIN @ \ {o}), !.decl = @ \ ({g.ops[o].sym} \ {Tmp})]
Erasable(g, o) == \A i \in DOMAIN g.ops[o].out : UsersOf(g, g.ops[o].out[i]) \subseteq {o}
EraseOp(g, o) == IF Erasable(g, o) THEN EraseOpUnchecked(g, o) ELSE g

ReplaceIn(g, from, to, skip) ==
    [g EXCEPT !.ops = [o \in DOMAIN @ |->
        IF o = skip THEN @[o] ELSE [@[o] EXCEPT !.in = ReplaceAll(@, from, to)]]]
ReplaceAllUses(g, from, to) == ReplaceIn(g, from, to, 0)
\* eraseOp with replacement results: redirect the readers, then erase.
EraseOpInto(g, o, to) == EraseOpUnchecked(ReplaceIn(g, g.ops[o].out[1], to, o), o)
\* replaceResult throws when the new value already has a definition.
CanDefine(g, v) == v \in DOMAIN g.vals /\ Def(g, v) = 0
ReplaceResult(g, o, i, v) == [g EXCEPT !.ops[o].out[i] = v]

EraseValueUnchecked(g, v) ==
    [g EXCEPT !.vals = Restrict(@, DOMAIN @ \ {v}), !.decl = @ \ {g.vals[v].sym}]
EraseValue(g, v) ==
    IF UsersOf(g, v) # {} \/ IsPort(g, v) \/ Def(g, v) # 0 THEN g ELSE EraseValueUnchecked(g, v)

BindOutputs(g, from, to) ==
    [g EXCEPT !.outp = [i \in DOMAIN @ |->
        IF @[i].val = from THEN [@[i] EXCEPT !.val = to] ELSE @[i]]]
\* The helper replaceUsers of the passes: operands, then output ports.  The
\* inout ports that carry the value are not rebound.
ReplaceUsers(g, from, to) == BindOutputs(ReplaceAllUses(g, from, to), from, to)

\* A graph loop over a snapshot of the operation list: Step(g, o) for each.
ForOps(g, Step(_, _)) ==
    FoldLeft(LAMBDA h, o : IF o \in DOMAIN h.ops THEN Step(h, o) ELSE h, g, OpIds(g))
=============================================================================
