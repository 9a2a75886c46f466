---------------------------- MODULE CombLoopElim ----------------------------
(***************************************************************************)
(* The comb-loop-elim pass on one graph.  A combinational loop is a cycle  *)
(* of values.  When no cycle of bit ranges contains itself, the loop is    *)
(* taken for a false one: its values are cut into fragments where slices   *)
(* and concats cut them, and its operations are rewritten on fragments.    *)
(* A split that gives up half-way leaves what it has created.              *)
(*                                                                         *)
(* A range is <<lo, hi>>.  Loops and operations are taken in the order of  *)
(* their ids: the order decides the ids of new values only.                *)
(***************************************************************************)
EXTENDS Netlist

BoundaryKinds == {"kConstant", "kRegisterReadPort", "kLatchReadPort", "kDpicCall"}
W(g, v)    == g.vals[v].w
Full(g, v) == <<0, W(g, v) - 1>>
Within(r, s)  == s[1] <= r[1] /\ r[2] <= s[2]
Overlap(r, s) == r[1] <= s[2] /\ s[1] <= r[2]
Shifted(r, n) == <<r[1] + n, r[2] + n>>
Size(r) == r[2] - r[1] + 1

\* The strongly connected components of a relation that hold a cycle.
After(edges, S) == {e[2] : e \in {f \in edges : f[1] \in S}}
Components(edges) ==
    LET reach[S \in SUBSET {e[2] : e \in edges}] ==
            LET T == S \cup After(edges, S) IN IF T = S THEN S ELSE reach[T]
        after == [n \in {e[1] : e \in edges} |-> reach[After(edges, {n})]]
    IN  {{m \in DOMAIN after : m \in after[n] /\ n \in after[m]} : n \in DOMAIN after} \ {{}}

ValueEdges(g) ==
    UNION {Range(g.ops[o].in) \X Range(g.ops[o].out) :
              o \in {p \in DOMAIN g.ops : Kind(g, p) \notin BoundaryKinds}}
\* The loops of a graph, as sorted sequences of values.
Loops(g) ==
    LET sorted == {SetToSortSeq(L, <) : L \in Components(ValueEdges(g))}
    IN  SetToSortSeq(sorted, LAMBDA s, t : s[1] < t[1])
LoopOps(g, L) ==
    SelectSeq(OpIds(g), LAMBDA o : /\ Range(g.ops[o].in) \cap L # {}
                                   /\ Range(g.ops[o].out) \cap L # {})

-----------------------------------------------------------------------------
(* Is it a false loop?                                                     *)

NoInt == -1
\* The number a value stands for, through assigns, slices and concats.
UintFrom(g, op, in) ==
    CASE op.kind = "kConstant" -> IF "lit" \in DOMAIN op.a /\ Known(op.a.lit) THEN ToNat(op.a.lit) ELSE NoInt
      [] op.kind \notin {"kAssign", "kSliceStatic", "kConcat"} \/ NoInt \in Range(in) -> NoInt
      [] op.kind = "kAssign" -> in[1]
      [] op.kind = "kSliceStatic" -> (in[1] \div 2^op.a.lo) % 2^(op.a.hi - op.a.lo + 1)
      [] op.kind = "kConcat" ->
            FoldLeftDomain(LAMBDA acc, i : LET m == 2^W(g, op.in[i]) IN (acc * m) + (in[i] % m), 0, in)
\* At most MaxDepth operations deep.
MaxDepth == 32
ConstUint(g, v) ==
    LET uint[u \in DOMAIN g.vals, depth \in 0..MaxDepth] ==
            LET op == g.ops[Def(g, u)]
            IN  IF depth = 0 \/ Def(g, u) = 0 THEN NoInt
                ELSE UintFrom(g, op, [i \in DOMAIN op.in |-> uint[op.in[i], depth - 1]])
    IN  uint[v, MaxDepth]

\* The range a slice takes; an index that is not constant gives none.
IndexRange(i, n) == IF i = NoInt THEN <<0, -1>> ELSE <<i, i + n - 1>>
SliceRange(g, op) ==
    IF op.kind = "kSliceStatic" THEN <<op.a.lo, op.a.hi>> ELSE IndexRange(ConstUint(g, op.in[2]), op.a.width)
IsSlice(op) == op.kind \in {"kSliceStatic", "kSliceDynamic"}
RangeFits(g, op, r) == r[2] >= r[1] /\ Within(r, Full(g, op.in[1])) /\ Size(r) = W(g, op.out[1])
SliceFits(g, op) == RangeFits(g, op, SliceRange(g, op))

\* Where operand i of a concat goes: the last operand is the lowest.
WidthSum(g, vs) == FoldLeft(LAMBDA n, v : n + W(g, v), 0, vs)
ConcatRange(g, op, i) ==
    LET low == WidthSum(g, SubSeq(op.in, i + 1, Len(op.in))) IN Shifted(Full(g, op.in[i]), low)
ConcatFits(g, op) == WidthSum(g, op.in) = W(g, op.out[1])

Analysable(g, L, op) ==
    CASE IsSlice(op) -> SliceFits(g, op)
      [] op.kind = "kSliceArray" -> FALSE
      [] op.kind = "kConcat" -> ConcatFits(g, op)
      [] op.kind = "kAssign" -> {op.in[1], op.out[1]} \subseteq L => W(g, op.in[1]) = W(g, op.out[1])
      [] OTHER -> TRUE
Node(v, r) == <<v, r[1], r[2]>>
\* Which range of which operand feeds which range of which result.
RangeEdges(g, L, op) ==
    LET FullNode(v) == Node(v, Full(g, v))
        all == CASE op.kind \in BoundaryKinds -> {}
                 [] IsSlice(op) -> {<<Node(op.in[1], SliceRange(g, op)), FullNode(op.out[1])>>}
                 [] op.kind = "kConcat" ->
                       {<<FullNode(op.in[i]), Node(op.out[1], ConcatRange(g, op, i))>> : i \in DOMAIN op.in}
                 [] OTHER -> {<<FullNode(v), FullNode(w)>> : v \in Range(op.in), w \in Range(op.out)}
    IN  {e \in all : e[1][1] \in L /\ e[2][1] \in L}

\* A range that feeds itself, or a cycle through two overlapping ranges of
\* one value, is a true loop; every other cycle is not.
Recurs(component) ==
    \/ Cardinality(component) = 1
    \/ \E m, n \in component : m # n /\ m[1] = n[1] /\ Overlap(<<m[2], m[3]>>, <<n[2], n[3]>>)
IsFalseLoop(g, L, ops) ==
    /\ \A o \in Range(ops) : Kind(g, o) \in BoundaryKinds \/ Analysable(g, L, g.ops[o])
    /\ \A c \in Components(UNION {RangeEdges(g, L, g.ops[o]) : o \in Range(ops)}) : ~Recurs(c)

-----------------------------------------------------------------------------
(* Where the values are cut.                                               *)

CopyFits(g, op) ==
    CASE op.kind = "kAssign" -> W(g, op.in[1]) = W(g, op.out[1])
      [] op.kind = "kSliceStatic" -> op.a.hi >= op.a.lo /\ op.a.hi - op.a.lo + 1 = W(g, op.out[1])
      [] op.kind = "kSliceDynamic" -> SliceFits(g, op)
      [] op.kind = "kConcat" -> ConcatFits(g, op)
      [] OTHER -> TRUE
\* Bits that are copied: [src, from, dst, to, n].
Copies(g, op) ==
    LET Copy(v, from, to, n) == [src |-> v, from |-> from, dst |-> op.out[1], to |-> to, n |-> n]
    IN  CASE op.kind = "kAssign" -> {Copy(op.in[1], 0, 0, W(g, op.in[1]))}
          [] IsSlice(op) -> {Copy(op.in[1], SliceRange(g, op)[1], 0, W(g, op.out[1]))}
          [] op.kind = "kConcat" ->
                {Copy(op.in[i], 0, ConcatRange(g, op, i)[1], W(g, op.in[i])) : i \in DOMAIN op.in}
          [] OTHER -> {}

\* Every cut of one end of a copy is a cut of the other end.
Carried(cuts, c, v) ==
    {c.to + k - c.from : k \in IF c.dst = v THEN {x \in cuts[c.src] : x \in c.from..(c.from + c.n)} ELSE {}}
      \cup
    {c.from + k - c.to : k \in IF c.src = v THEN {x \in cuts[c.dst] : x \in c.to..(c.to + c.n)} ELSE {}}
Spread(ends, copies) ==
    LET spread[cuts \in [DOMAIN ends -> SUBSET Int]] ==
            LET next == [v \in DOMAIN cuts |-> cuts[v] \cup UNION {Carried(cuts, c, v) : c \in copies}]
            IN  IF next = cuts THEN cuts ELSE spread[next]
    IN  spread[ends]
Cuts(g, L, copies) ==
    LET Ends(v) == {0, W(g, v)}
                     \cup UNION {{c.to, c.to + c.n} : c \in {d \in copies : d.dst = v}}
                     \cup UNION {{c.from, c.from + c.n} : c \in {d \in copies : d.src = v}}
    IN  Spread([v \in L |-> Ends(v)], {c \in copies : {c.src, c.dst} \subseteq L})
\* The segments between the cuts, from the lowest; none for a value that is
\* cut beyond its end.
Segments(g, L, cuts) ==
    [v \in L |-> LET s == SetToSortSeq(cuts[v], <)
                 IN  IF s[Len(s)] # W(g, v) \/ s[1] # 0 THEN <<>>
                     ELSE [i \in 1..(Len(s) - 1) |-> <<s[i], s[i + 1] - 1>>]]

-----------------------------------------------------------------------------
(* Splitting.  s is [g, L, segs, frag, view, plan, ok]: the graph so far,  *)
(* the loop, the segments of its values, the value that carries a range,   *)
(* full views, and what becomes of each operation.                         *)

AddFragment(s, v, r) ==
    [s EXCEPT !.g = CreateValue(@, Size(r), @.vals[v].sgn, Tmp), !.frag = @ @@ (<<v, r>> :> s.g.nval)]
\* A slice of value u becomes the fragment r of v.
AddSlice(s, v, r, u, part) ==
    LET h == Gate(s.g, "kSliceStatic", <<u>>, Size(r), s.g.vals[v].sgn, [lo |-> part[1], hi |-> part[2]])
    IN  [s EXCEPT !.g = h, !.frag = @ @@ (<<v, r>> :> Newest(h))]

\* getFragment: after Touch, Frag is the value that carries range r of v.
Touch(s, v, r) ==
    LET holds == {i \in DOMAIN s.segs[v] : Within(r, s.segs[v][i])}
        seg   == s.segs[v][CHOOSE i \in holds : TRUE]
    IN  IF <<v, r>> \in DOMAIN s.frag \/ (v \notin s.L /\ r = Full(s.g, v)) THEN s
        ELSE IF v \in s.L
             THEN IF holds = {} THEN [s EXCEPT !.ok = FALSE]
                  ELSE AddSlice(s, v, r, s.frag[<<v, seg>>], Shifted(r, -seg[1]))
             ELSE IF Within(r, Full(s.g, v)) THEN AddSlice(s, v, r, v, r) ELSE [s EXCEPT !.ok = FALSE]
Frag(s, v, r) == IF v \notin s.L /\ r = Full(s.g, v) THEN v ELSE s.frag[<<v, r>>]
TouchAll(s, needs) ==
    FoldLeft(LAMBDA t, n : IF t.ok THEN Touch(t, n[1], n[2]) ELSE t, s, needs)

\* The fragments of v, from the highest down, as one value.
Parts(s, v) == LET n == Len(s.segs[v]) IN [i \in 1..n |-> s.frag[<<v, s.segs[v][n + 1 - i]>>]]
MakeView(s, v) ==
    IF v \notin s.L \/ v \in DOMAIN s.view THEN s
    ELSE IF Len(s.segs[v]) = 1 THEN [s EXCEPT !.view = @ @@ (v :> Parts(s, v)[1])]
    ELSE LET h == Gate(s.g, "kConcat", Parts(s, v), W(s.g, v), s.g.vals[v].sgn, NoAttr)
         IN  [s EXCEPT !.g = h, !.view = @ @@ (v :> Newest(h))]
View(s, v) == IF v \in s.L THEN s.view[v] ELSE v

GiveUp(s) == [s EXCEPT !.ok = FALSE]
\* One more operation that takes the place of o: needs are <<value, range>>.
Piece(kind, needs, seg) == [kind |-> kind, needs |-> needs, seg |-> seg, ok |-> TRUE]
Planned(s, o, piece) ==
    LET new == [kind |-> piece.kind, in |-> [i \in DOMAIN piece.needs |-> Frag(s, piece.needs[i][1], piece.needs[i][2])],
                out |-> Frag(s, s.g.ops[o].out[1], piece.seg)]
    IN  IF s.ok THEN [s EXCEPT !.plan[o] = Append(@, new)] ELSE s
PlanPiece(s, o, piece) ==
    IF ~s.ok THEN s ELSE IF ~piece.ok THEN GiveUp(s) ELSE Planned(TouchAll(s, piece.needs), o, piece)
\* The same operation on every segment of its result; Of(i, seg) is the
\* range it needs of operand i.
BySegment(s, op, Of(_, _)) ==
    [k \in DOMAIN s.segs[op.out[1]] |->
        LET seg == s.segs[op.out[1]][k] IN Piece(op.kind, [i \in DOMAIN op.in |-> <<op.in[i], Of(i, seg)>>], seg)]
SlicePieces(s, op) ==
    LET lo == SliceRange(s.g, op)[1]
    IN  [k \in DOMAIN s.segs[op.out[1]] |->
            LET seg == s.segs[op.out[1]][k] IN Piece("kAssign", << <<op.in[1], Shifted(seg, lo)>> >>, seg)]
\* A segment must come from one operand.
ConcatPieces(s, op) ==
    LET Of(i) == LET r    == ConcatRange(s.g, op, i)
                     segs == SelectSeq(s.segs[op.out[1]], LAMBDA seg : Overlap(seg, r))
                 IN  [k \in DOMAIN segs |->
                         [Piece("kAssign", << <<op.in[i], Shifted(segs[k], -r[1])>> >>, segs[k])
                             EXCEPT !.ok = Within(segs[k], r)]]
    IN  FlattenSeq([i \in DOMAIN op.in |-> Of(i)])
\* The comparison keeps its place and reads views of its operands.
PlannedGt(s, o, op) ==
    [s EXCEPT !.plan[o] = <<[kind |-> "kGt", in |-> [i \in DOMAIN op.in |-> View(s, op.in[i])],
                             out |-> Frag(s, op.out[1], <<0, 0>>)]>>]
PlanGt(s, o) ==
    LET op == s.g.ops[o] IN PlannedGt(MakeView(MakeView(s, op.in[1]), op.in[2]), o, op)

\* Which operations can be done segment by segment.
Wide(s, op, n) == \A i \in DOMAIN op.in : W(s.g, op.in[i]) = n
Whole(s, v)    == v \notin s.L \/ Len(s.segs[v]) = 1
ReduceKinds == {"kReduceAnd", "kReduceOr", "kReduceXor", "kReduceNor", "kReduceNand", "kReduceXnor"}
PlainBitwise(s, op) == op.kind \in {"kAnd", "kOr", "kXor", "kXnor"} /\ Wide(s, op, W(s.g, op.out[1]))
PlainNot(s, op)     == op.kind = "kNot" /\ Wide(s, op, W(s.g, op.out[1]))
PlainLogic(s, op)   == op.kind \in {"kLogicAnd", "kLogicOr"} /\ Wide(s, op, 1) /\ W(s.g, op.out[1]) = 1
PlainLogicNot(s, op) == op.kind = "kLogicNot" /\ Wide(s, op, 1) /\ W(s.g, op.out[1]) = 1
PlainReduce(s, op)  == op.kind \in ReduceKinds /\ W(s.g, op.out[1]) = 1 /\ Whole(s, op.in[1])
PlainMux(s, op) ==
    op.kind = "kMux" /\ W(s.g, op.in[1]) = 1 /\ \A i \in {2, 3} : W(s.g, op.in[i]) = W(s.g, op.out[1])
PlainGt(s, op) ==
    op.kind = "kGt" /\ W(s.g, op.out[1]) = 1 /\ W(s.g, op.in[1]) = W(s.g, op.in[2])

\* An addition is planned when it is emitted.
PiecesFor(s, op) ==
    CASE \/ op.kind = "kAssign" \/ PlainBitwise(s, op) \/ PlainNot(s, op)
         \/ PlainLogic(s, op) \/ PlainLogicNot(s, op) -> BySegment(s, op, LAMBDA i, seg : seg)
      [] IsSlice(op) -> SlicePieces(s, op)
      [] op.kind = "kConcat" -> ConcatPieces(s, op)
      [] PlainReduce(s, op) -> BySegment(s, op, LAMBDA i, seg : Full(s.g, op.in[i]))
      [] PlainMux(s, op) -> BySegment(s, op, LAMBDA i, seg : IF i = 1 THEN <<0, 0>> ELSE seg)
      [] op.kind = "kAdd" -> <<>>
      [] OTHER -> <<[Piece(op.kind, <<>>, <<0, 0>>) EXCEPT !.ok = FALSE]>>
PlanOp(s, o) ==
    IF s.ok /\ PlainGt(s, s.g.ops[o]) THEN PlanGt(s, o)
    ELSE FoldLeft(LAMBDA t, piece : PlanPiece(t, o, piece), s, PiecesFor(s, s.g.ops[o]))

-----------------------------------------------------------------------------
\* The first operation of a plan takes o's place, the others are new.
Place(g, o, i, new) ==
    IF i = 1 THEN [g EXCEPT !.ops[o] = [@ EXCEPT !.kind = new.kind, !.in = new.in, !.out = <<new.out>>, !.a = NoAttr]]
    ELSE CreateOp(g, new.kind, new.in, <<new.out>>, NoAttr)
Emit(s, o) == [s EXCEPT !.g = FoldLeftDomain(LAMBDA h, i : Place(h, o, i, s.plan[o][i]), @, s.plan[o])]

\* An addition becomes a ripple of full adders.  sum and carry are values,
\* carry 0 before the first bit.
AddGates(a, x, y) ==
    LET n     == a.s.g.nval
        half  == << <<"kXor", x, y>>, <<"kAnd", x, y>> >>
        full  == half \o << <<"kXor", n, a.carry>>, <<"kAnd", n, a.carry>>, <<"kOr", n + 1, n + 3>> >>
        Bits(gates) == FoldLeft(LAMBDA h, b : Gate(h, b[1], <<b[2], b[3]>>, 1, FALSE, NoAttr), a.s.g, gates)
    IN  IF a.carry = 0 THEN [a EXCEPT !.s.g = Bits(half), !.sum = <<n>>, !.carry = n + 1]
        ELSE [a EXCEPT !.s.g = Bits(full), !.sum = Append(@, n + 2), !.carry = n + 4]
AddBit(a, bit, op) ==
    LET t  == TouchAll(a.s, << <<op.in[1], <<bit, bit>>>>, <<op.in[2], <<bit, bit>>>> >>)
        in == [i \in 1..2 |-> Frag(t, op.in[i], <<bit, bit>>)]
    IN  IF t.ok THEN AddGates([a EXCEPT !.s = t], in[1], in[2]) ELSE [a EXCEPT !.s = t]
PlanSums(s, o, sum) ==
    LET v == s.g.ops[o].out[1]
        New(seg) == [kind |-> IF Size(seg) = 1 THEN "kAssign" ELSE "kConcat",
                     in |-> Reverse(SubSeq(sum, seg[1] + 1, seg[2] + 1)), out |-> Frag(s, v, seg)]
    IN  [s EXCEPT !.plan[o] = [i \in DOMAIN s.segs[v] |-> New(s.segs[v][i])]]
EmitSums(a, o) == IF a.s.ok THEN Emit(PlanSums(a.s, o, a.sum), o) ELSE a.s
EmitAdd(s, o) ==
    LET op == s.g.ops[o]
    IN  EmitSums(FoldLeft(LAMBDA a, bit : IF a.s.ok THEN AddBit(a, bit, op) ELSE a,
                          [s |-> s, sum |-> <<>>, carry |-> 0], [i \in 1..W(s.g, op.out[1]) |-> i - 1]), o)
EmitOp(s, o) == IF ~s.ok THEN s ELSE IF Kind(s.g, o) = "kAdd" THEN EmitAdd(s, o) ELSE Emit(s, o)

\* Readers outside of the loop, and ports, get the view of a loop value.
Rewire(s, ops) ==
    LET To(v) == View(s, v)
        Ports(ps) == [i \in DOMAIN ps |-> [ps[i] EXCEPT !.val = To(@)]]
    IN  [s.g EXCEPT
            !.ops = [o \in DOMAIN @ |-> IF o \in Range(ops) THEN @[o]
                                        ELSE [@[o] EXCEPT !.in = [i \in DOMAIN @ |-> To(@[i])]]],
            !.inp = Ports(@), !.outp = Ports(@),
            !.io = [i \in DOMAIN @ |-> [@[i] EXCEPT !.in = To(@), !.out = To(@), !.oe = To(@)]]]

\* One loop, acc = [g, changed].  A loop none of whose values is cut is
\* rewritten on copies of its values, and not reported as changed.
Rewritten(acc, s, loop, ops) ==
    IF ~s.ok THEN [acc EXCEPT !.g = s.g]
    ELSE [g |-> Rewire(FoldLeft(MakeView, [s EXCEPT !.view = << >>], loop), ops),
          changed |-> acc.changed \/ \E v \in s.L : Len(s.segs[v]) > 1]
StartSplit(g, L, ops) ==
    [g |-> g, L |-> L, segs |-> Segments(g, L, Cuts(g, L, UNION {Copies(g, g.ops[o]) : o \in Range(ops)})),
     frag |-> << >>, view |-> << >>, plan |-> [o \in Range(ops) |-> <<>>], ok |-> TRUE]
CutLoop(acc, s, loop, ops) ==
    LET AddFragments(u, v) == FoldLeft(LAMBDA t, r : AddFragment(t, v, r), u, s.segs[v])
    IN  IF \E v \in s.L : s.segs[v] = <<>> THEN acc
        ELSE Rewritten(acc, FoldLeft(EmitOp, FoldLeft(PlanOp, FoldLeft(AddFragments, s, loop), ops), ops), loop, ops)
SplitLoop(acc, loop, ops) ==
    IF \E o \in Range(ops) : Len(acc.g.ops[o].out) # 1 \/ ~CopyFits(acc.g, acc.g.ops[o]) THEN acc
    ELSE CutLoop(acc, StartSplit(acc.g, Range(loop), ops), loop, ops)

-----------------------------------------------------------------------------
\* A round splits every loop that looks false before the round; acc is
\* [g, changed], and all is that over every round.
SplitLoops(g, loops) ==
    FoldLeft(LAMBDA acc, s : SplitLoop(acc, s, LoopOps(acc.g, Range(s))), [g |-> g, changed |-> FALSE], loops)
FixRound(all) ==
    LET g == all.g
        r == SplitLoops(g, SelectSeq(Loops(g), LAMBDA s : IsFalseLoop(g, Range(s), LoopOps(g, Range(s)))))
    IN  r @@ [all |-> all.all \/ r.changed]
\* Rounds until one changes nothing, or the last one allowed.
FixLoops(g, rounds) ==
    LET after[k \in 0..rounds] ==
            IF k = 0 THEN [g |-> g, changed |-> TRUE, all |-> FALSE] ELSE FixRound(after[k - 1])
        last == CHOOSE k \in 0..rounds : (k = rounds \/ ~after[k].changed) /\ \A j \in 0..(k - 1) : after[j].changed
    IN  after[last]

\* Whatever loops are left are reported, and fail the pass when asked to.
LoopReport(r, opts) == Result(r.g, r.all, opts.failOnTrueLoop /\ Loops(r.g) # <<>>)
CombLoopElim(g, opts) ==
    LET skip   == opts.maxAnalysisNodes > 0 /\ Cardinality(DOMAIN g.vals) > opts.maxAnalysisNodes
        rounds == IF opts.fixFalseLoops THEN opts.maxFixIterations ELSE 0
    IN  IF skip THEN Result(g, FALSE, FALSE)
        ELSE LoopReport(FixLoops(g, rounds), opts)
=============================================================================
