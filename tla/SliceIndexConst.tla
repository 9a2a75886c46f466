-------------------------- MODULE SliceIndexConst --------------------------
(***************************************************************************)
(* The slice-index-const pass on one graph: a dynamic slice whose index    *)
(* evaluates to a number becomes a static one.  The numbers are plain      *)
(* integers: nothing wraps at the width of the values they stand for.      *)
(***************************************************************************)
EXTENDS Netlist

NoInt == -1
\* Bound: stands for the 63 bits of the code's integers.
IntLimit == 2^20
InRange(n) == IF n \in 0..IntLimit THEN n ELSE NoInt

\* path holds the values being evaluated, so a cycle evaluates to nothing.
EvalConstInt(g, start) ==
    LET eval[v \in DOMAIN g.vals, path \in SUBSET DOMAIN g.vals] ==
            LET o  == Def(g, v)
                op == g.ops[o]
                in == [i \in DOMAIN op.in |-> eval[op.in[i], path \cup {v}]]
                Shift(f(_)) == IF in[2] > 62 THEN 0 ELSE f(2^in[2])
            IN  CASE v \in path \/ o = 0 -> NoInt
                  [] op.kind = "kConstant" ->
                        IF "lit" \in DOMAIN op.a /\ Known(op.a.lit) THEN ToNat(op.a.lit) ELSE NoInt
                  [] op.kind \notin {"kAssign", "kSliceStatic", "kConcat", "kAdd", "kSub", "kMul",
                                     "kShl", "kLShr"} \/ NoInt \in Range(in) -> NoInt
                  [] op.kind = "kAssign" -> in[1]
                  [] op.kind = "kSliceStatic" -> (in[1] \div 2^op.a.lo) % 2^(op.a.hi - op.a.lo + 1)
                  [] op.kind = "kConcat" ->
                        FoldLeftDomain(LAMBDA acc, i : LET m == 2^g.vals[op.in[i]].w
                                                       IN  (acc * m) + (in[i] % m), 0, in)
                  [] op.kind = "kAdd"  -> InRange(in[1] + in[2])
                  [] op.kind = "kSub"  -> InRange(in[1] - in[2])
                  [] op.kind = "kMul"  -> InRange(in[1] * in[2])
                  [] op.kind = "kShl"  -> InRange(Shift(LAMBDA p : in[1] * p))
                  [] op.kind = "kLShr" -> InRange(Shift(LAMBDA p : in[1] \div p))
    IN  eval[start, {}]

Convertible(g, o) ==
    LET op    == g.ops[o]
        start == EvalConstInt(g, op.in[2])
    IN  /\ op.kind = "kSliceDynamic"
        /\ Attr(g, o, "width", 0) > 0
        /\ start # NoInt
        /\ g.vals[op.out[1]].w = op.a.width
        /\ start + op.a.width - 1 < g.vals[op.in[1]].w

ConvertSlice(g, o) ==
    LET op    == g.ops[o]
        start == EvalConstInt(g, op.in[2])
    IN  SetOp(g, o, [op EXCEPT !.kind = "kSliceStatic", !.in = <<@[1]>>,
                               !.a = [lo |-> start, hi |-> start + op.a.width - 1]])

SliceIndexConst(g) ==
    LET h == ForOps(g, LAMBDA f, o : IF Convertible(f, o) THEN ConvertSlice(f, o) ELSE f)
    IN  Result(h, h # g, FALSE)
=============================================================================
