----------------------------- MODULE ConstFold -----------------------------
(***************************************************************************)
(* The const-fold pass on one graph, one operator per step of              *)
(* processSingleGraph.  The steps hand a context on, as GraphFoldContext:  *)
(*   g       the netlist                                                   *)
(*   consts  value -> bits, the values known to be constant                *)
(*   pool    key -> value, the constant to use for a literal               *)
(*   keep    protectDeclaredSymbols                                        *)
(*   xFold, twoState   the options                                         *)
(*   changed, failed   what the pass reports                               *)
(* consts and pool live through all five steps and are not corrected when  *)
(* a step erases an operation.                                             *)
(***************************************************************************)
EXTENDS OpSemantics

FoldContext(g, keep, xFold, twoState) ==
    [g |-> g, consts |-> [v \in {} |-> <<>>], pool |-> [k \in {} |-> 0], keep |-> keep,
     xFold |-> xFold, twoState |-> twoState, changed |-> FALSE, failed |-> FALSE]

Protected(c, v) == c.keep /\ Declared(c.g, v)
HasUnknown(bits) == ~Known(bits)
Key(bits, bitsSgn, val) == <<bits, bitsSgn, val.w, val.sgn>>
Fail(c) == [c EXCEPT !.failed = TRUE]
\* The readers of v read u instead.
Redirect(c, v, u) == [c EXCEPT !.g = ReplaceUsers(@, v, u), !.changed = TRUE]
\* f with the entry e for k.
Put(f, k, e) == (k :> e) @@ f

-----------------------------------------------------------------------------
(* Step 1: read the constants, and redirect duplicates to the first one.   *)

CollectOne(c, o, v) ==
    LET val  == c.g.vals[v]
        bits == Normalize(val, c.g.ops[o].a.lit)
        key  == Key(bits, val.sgn, val)
        seen == [c EXCEPT !.consts = With(@, v, bits)]
    IN  IF v \in DOMAIN c.consts \/ val.typ # "Logic" THEN c
        ELSE IF "lit" \notin DOMAIN c.g.ops[o].a THEN Fail(c)
        ELSE IF key \notin DOMAIN c.pool THEN [seen EXCEPT !.pool = With(@, key, v)]
        ELSE IF IsInput(c.g, v) \/ IsInout(c.g, v) \/ Protected(c, v) THEN seen
        ELSE Redirect(seen, v, c.pool[key])

CollectResults(c, o, out) == FoldLeft(LAMBDA d, v : CollectOne(d, o, v), c, out)
CollectConstants(c) ==
    FoldLeft(LAMBDA d, o : CollectResults(d, o, c.g.ops[o].out), c, OpsOfKinds(c.g, {"kConstant"}))

-----------------------------------------------------------------------------
(* Constants made by the pass.                                             *)

CreateConstant(c, val, bits) ==
    LET g1 == CreateValue(c.g, val.w, val.sgn, Tmp)
    IN  [c EXCEPT !.g = CreateOp(g1, "kConstant", <<>>, <<c.g.nval>>, [lit |-> bits])]

\* createReplacementConstant: the pooled constant, unless it is a declared
\* one that must keep its own definition; records it in consts.
Noted(c, key, v, bits) ==
    [v |-> v, c |-> [c EXCEPT !.pool = Put(@, key, v), !.consts = Put(@, v, bits)]]
ReplacementConstant(c, val, bits, bitsSgn) ==
    LET key == Key(bits, bitsSgn, val)
    IN  IF key \in DOMAIN c.pool /\ ~Protected(c, c.pool[key]) THEN Noted(c, key, c.pool[key], bits)
        ELSE Noted(CreateConstant(c, val, bits), key, c.g.nval, bits)

\* Replace a result by a constant.  The operation is erased after the scan,
\* and a declared result then gets a constant of its own.
ReplaceBy(v, r) == Redirect(r.c, v, r.v)
FoldResult(c, v, bits, bitsSgn) ==
    ReplaceBy(v, ReplacementConstant(c, c.g.vals[v], bits, bitsSgn))

Materialize(g, kept) ==
    FoldLeft(LAMBDA h, k : CreateOp(h, k.kind, k.in, <<k.v>>, k.a), g, kept)

\* Erase the folded operations, each followed by what it left to materialize.
EraseOne(c, f) ==
    IF Erasable(c.g, f.o) THEN [c EXCEPT !.g = Materialize(EraseOp(@, f.o), f.kept)] ELSE Fail(c)
EraseFolded(c, folded) == FoldLeft(EraseOne, c, folded)

KeptConst(c, v, bits) ==
    IF Protected(c, v) THEN <<[kind |-> "kConstant", in |-> <<>>, v |-> v, a |-> [lit |-> bits]]>>
    ELSE <<>>
KeptAssign(c, v, from) ==
    IF Protected(c, v) THEN <<[kind |-> "kAssign", in |-> <<from>>, v |-> v, a |-> NoAttr]>>
    ELSE <<>>

-----------------------------------------------------------------------------
(* Step 2: fold the operations whose operands are constant, in one scan    *)
(* that sees its own results.                                              *)

OperandsAreConstant(c, o) == \A i \in DOMAIN c.g.ops[o].in : c.g.ops[o].in[i] \in DOMAIN c.consts

MissingAttr(op) ==
    \/ op.kind = "kReplicate" /\ ~("rep" \in DOMAIN op.a /\ op.a.rep > 0)
    \/ op.kind = "kSliceStatic" /\ ~({"lo", "hi"} \subseteq DOMAIN op.a /\ op.a.lo <= op.a.hi)
    \/ op.kind \in {"kSliceDynamic", "kSliceArray"} /\ ~("width" \in DOMAIN op.a /\ op.a.width > 0)

\* A system function folds only when it is $clog2 without side effects.
NotFolded(op) ==
    op.kind = "kSystemFunction" /\ (op.a.name # "clog2" \/ op.a.effects)

StrictlyUnknown(c, in) ==
    (c.twoState \/ c.xFold = "Strict") /\ \E i \in DOMAIN in : HasUnknown(in[i])

ConstOperands(c, o) == [i \in DOMAIN c.g.ops[o].in |-> c.consts[c.g.ops[o].in[i]]]

\* A scan replaces readers and collects the operations to erase after it.
Scan(c) == [c |-> c, folded |-> <<>>]
EraseScanned(scan) == EraseFolded(scan.c, scan.folded)
\* The result v of operation o is the constant bits.
Folded(acc, o, v, bits, bitsSgn) ==
    [c |-> FoldResult(acc.c, v, bits, bitsSgn),
     folded |-> Append(acc.folded, [o |-> o, kept |-> KeptConst(acc.c, v, bits)])]

\* raw is what the operation computes.
FoldRaw(acc, o, v, raw) ==
    LET val == acc.c.g.vals[v]
    IN  IF ~acc.c.twoState /\ acc.c.xFold = "Known" /\ HasUnknown(raw) THEN acc
        ELSE Folded(acc, o, v, Normalize(val, raw), val.sgn)

FoldOne(acc, o) ==
    LET c  == acc.c
        op == c.g.ops[o]
    IN  IF \/ op.kind \notin FoldableKinds
           \/ \E i \in DOMAIN op.out : c.g.vals[op.out[i]].typ # "Logic"
           \/ ~OperandsAreConstant(c, o) THEN acc
        ELSE IF op.out = <<>> \/ StrictlyUnknown(c, ConstOperands(c, o)) \/ NotFolded(op) THEN acc
        ELSE IF MissingAttr(op) THEN [acc EXCEPT !.c = Fail(c)]
        ELSE FoldRaw(acc, o, op.out[1], FoldOperands(c.g, op, ConstOperands(c, o)))

IterativeFolding(c) == EraseScanned(FoldLeft(FoldOne, Scan(c), OpIds(c.g)))

-----------------------------------------------------------------------------
(* Step 3: a static slice that cuts exactly one operand out of a concat.   *)

\* The operand of the concat o that occupies bits lo..hi; 0 when none does.
ConcatOperandAt(g, o, lo, hi) ==
    LET in   == g.ops[o].in
        Low(i) == FoldLeft(LAMBDA n, v : n + g.vals[v].w, 0, SubSeq(in, i + 1, Len(in)))
        fits == {i \in DOMAIN in : Low(i) = lo /\ Low(i) + g.vals[in[i]].w - 1 = hi}
    IN  IF fits = {} THEN 0 ELSE in[CHOOSE i \in fits : TRUE]

SlicedOperand(g, op) ==
    IF DefKind(g, op.in[1]) = "kConcat"
    THEN ConcatOperandAt(g, Def(g, op.in[1]), op.a.lo, op.a.hi) ELSE 0

SliceFrom(acc, o, v, from) ==
    IF from = 0 \/ ~SameShape(acc.c.g, from, v) THEN acc
    ELSE [c |-> Redirect(acc.c, v, from),
          folded |-> Append(acc.folded, [o |-> o, kept |-> KeptAssign(acc.c, v, from)])]
SliceOne(acc, o) ==
    LET op == acc.c.g.ops[o]
    IN  IF MissingAttr(op) THEN acc ELSE SliceFrom(acc, o, op.out[1], SlicedOperand(acc.c.g, op))

\* Unlike the other steps, a slice that cannot be erased is no failure.
EraseSlice(c, g, f) == IF Erasable(g, f.o) THEN EraseOne(c, f) ELSE c
EraseSlices(scan) == FoldLeft(LAMBDA c, f : EraseSlice(c, scan.c.g, f), scan.c, scan.folded)
SimplifySlices(c) ==
    EraseSlices(FoldLeft(SliceOne, Scan(c), OpsOfKinds(c.g, {"kSliceStatic"})))

-----------------------------------------------------------------------------
(* Step 4: constants nobody reads.  Their values stay, without definition. *)

DeadConstant(c, o) ==
    \A i \in DOMAIN c.g.ops[o].out :
        LET v == c.g.ops[o].out[i]
        IN  ~Protected(c, v) /\ ~IsPort(c.g, v) /\ UsersOf(c.g, v) = {}

Erase(c, dead) == [c EXCEPT !.g = FoldLeft(EraseOp, @, dead), !.changed = @ \/ dead # <<>>]
EliminateDeadConstants(c) ==
    LET dead == Ascending({o \in DOMAIN c.g.ops : Kind(c.g, o) = "kConstant" /\ DeadConstant(c, o)},
                          c.g.nop - 1)
    IN  Erase(c, dead)

-----------------------------------------------------------------------------
(* Step 5: comparisons that unsigned operands decide.                      *)

ConstZero(c, v) == v \in DOMAIN c.consts /\ \A i \in DOMAIN c.consts[v] : c.consts[v][i] = 0
AllOnes(c, v, w, sgn) ==
    v \in DOMAIN c.consts /\ \A i \in 1..w : Resize(c.consts[v], w, sgn)[i] = 1

\* <<>> when undecided, <<b>> when the comparison is always b.
DecidedCompare(c, op) ==
    LET l == op.in[1]
        r == op.in[2]
        lhs == c.g.vals[l]
        rhs == c.g.vals[r]
        unsignedPair == ~(lhs.sgn /\ rhs.sgn)
        two(kind) == c.twoState /\ unsignedPair /\ op.kind = kind
    IN  CASE two("kGt") /\ ConstZero(c, l) -> <<FALSE>>
          [] two("kLt") /\ ConstZero(c, r) -> <<FALSE>>
          [] two("kLe") /\ ConstZero(c, l) -> <<TRUE>>
          [] two("kGe") /\ ConstZero(c, r) -> <<TRUE>>
          [] op.kind = "kGe" /\ ~lhs.sgn /\ ConstZero(c, r) -> <<TRUE>>
          [] op.kind = "kLe" /\ ~lhs.sgn /\ AllOnes(c, r, lhs.w, rhs.sgn) -> <<TRUE>>
          [] OTHER -> <<>>

CompareFrom(acc, o, dec) ==
    IF dec = <<>> THEN acc ELSE Folded(acc, o, acc.c.g.ops[o].out[1], Bool(dec[1]), FALSE)
CompareOne(acc, o) == CompareFrom(acc, o, DecidedCompare(acc.c, acc.c.g.ops[o]))

SimplifyUnsignedComparisons(c) ==
    EraseScanned(FoldLeft(CompareOne, Scan(c), OpsOfKinds(c.g, {"kGe", "kLe", "kGt", "kLt"})))

-----------------------------------------------------------------------------
\* The pass on one graph: the five steps, each on what the last one left.
FoldReport(c) == Result(c.g, c.changed, c.failed)
ConstFold(g, keep, xFold, twoState) ==
    FoldReport(SimplifyUnsignedComparisons(EliminateDeadConstants(SimplifySlices(
        IterativeFolding(CollectConstants(FoldContext(g, keep, xFold, twoState)))))))
=============================================================================
