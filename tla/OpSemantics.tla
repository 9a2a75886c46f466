---------------------------- MODULE OpSemantics ----------------------------
(***************************************************************************)
(* What an operation computes from the bits of its operands: the table     *)
(* the constant folder folds by, which is also the meaning Observe gives   *)
(* to a netlist.                                                           *)
(***************************************************************************)
EXTENDS Netlist

ArithKinds   == {"kAdd", "kSub", "kMul", "kDiv", "kMod"}
CompareKinds == {"kEq", "kNe", "kLt", "kLe", "kGt", "kGe"}
BitKinds     == {"kAnd", "kOr", "kXor", "kXnor"}
CaseKinds    == {"kCaseEq", "kCaseNe", "kWildcardEq", "kWildcardNe"}
LogicKinds   == {"kLogicAnd", "kLogicOr"}
ShiftKinds   == {"kShl", "kLShr", "kAShr"}
BinaryKinds  == ArithKinds \cup CompareKinds \cup BitKinds \cup CaseKinds
                  \cup LogicKinds \cup ShiftKinds
ReduceKinds  == {"kReduceAnd", "kReduceOr", "kReduceXor",
                 "kReduceNand", "kReduceNor", "kReduceXnor"}
UnaryKinds   == {"kNot", "kLogicNot"} \cup ReduceKinds
FoldableKinds == BinaryKinds \cup UnaryKinds \cup
                 {"kSystemFunction", "kMux", "kAssign", "kConcat", "kReplicate",
                  "kSliceStatic", "kSliceDynamic", "kSliceArray"}

FoldBinary(kind, a, b, sgn) ==
    CASE kind \in ArithKinds   -> Arith(kind, a, b, sgn)
      [] kind \in CompareKinds -> Compare(kind, a, b, sgn)
      [] kind = "kAnd"  -> Bitwise(AndBit, a, b, sgn)
      [] kind = "kOr"   -> Bitwise(OrBit, a, b, sgn)
      [] kind = "kXor"  -> Bitwise(XorBit, a, b, sgn)
      [] kind = "kXnor" -> Not(Bitwise(XorBit, a, b, sgn))
      [] kind = "kCaseEq" -> Bool(a = b)
      [] kind = "kCaseNe" -> Bool(a # b)
      [] kind = "kWildcardEq" -> Bool(WildcardEq(a, b, sgn))
      [] kind = "kWildcardNe" -> Bool(~WildcardEq(a, b, sgn))
      [] kind = "kLogicAnd" -> <<AndBit(Truth(a), Truth(b))>>
      [] kind = "kLogicOr"  -> <<OrBit(Truth(a), Truth(b))>>
      [] kind = "kShl"  -> ShiftLeft(a, b)
      [] kind = "kLShr" -> ShiftRight(a, b, 0)
      [] kind = "kAShr" -> ShiftRight(a, b, IF sgn THEN a[Len(a)] ELSE 0)

FoldUnary(kind, a) ==
    CASE kind = "kNot"      -> Not(a)
      [] kind = "kLogicNot" -> <<NotBit(Truth(a))>>
      [] kind = "kReduceAnd"  -> <<Reduce(AndBit, a)>>
      [] kind = "kReduceOr"   -> <<Reduce(OrBit, a)>>
      [] kind = "kReduceXor"  -> <<Reduce(XorBit, a)>>
      [] kind = "kReduceNand" -> Not(<<Reduce(AndBit, a)>>)
      [] kind = "kReduceNor"  -> Not(<<Reduce(OrBit, a)>>)
      [] kind = "kReduceXnor" -> Not(<<Reduce(XorBit, a)>>)

\* Concat lists its operands from the most significant one down.
ConcatBits(in) == FlattenSeq(Reverse(in))
Log2Up(n) == IF n <= 1 THEN 0 ELSE CHOOSE k \in 1..n : 2^k >= n /\ 2^(k - 1) < n

\* The raw result over operand bits, as foldOperation computes it.
FoldOperands(g, op, in) ==
    LET sg(i) == g.vals[op.in[i]].sgn
    IN  CASE op.kind \in {"kShl", "kLShr", "kAShr"} -> FoldBinary(op.kind, in[1], in[2], sg(1))
          [] op.kind \in BinaryKinds \ ShiftKinds ->
                FoldBinary(op.kind, in[1], in[2], sg(1) /\ sg(2))
          [] op.kind \in UnaryKinds -> FoldUnary(op.kind, in[1])
          [] op.kind = "kAssign"    -> in[1]
          [] op.kind = "kConcat"    -> ConcatBits(in)
          [] op.kind = "kReplicate" -> FlattenSeq([i \in 1..op.a.rep |-> in[1]])
          [] op.kind = "kMux"       -> Conditional(in[1], in[2], in[3], sg(2) /\ sg(3))
          [] op.kind = "kSliceStatic" ->
                SubSeq(ShiftRight(in[1], FromNat(op.a.lo, 4), 0), 1, op.a.hi - op.a.lo + 1)
          [] op.kind \in {"kSliceDynamic", "kSliceArray"} ->
                SubSeq(ShiftRight(in[1], in[2], 0), 1, op.a.width)
          [] op.kind = "kSystemFunction" -> FromNat(Log2Up(ToNat(in[1])), 4)

Normalize(val, raw) == Resize(raw, val.w, val.sgn)

OpsOfKinds(g, kinds) == Ascending({o \in DOMAIN g.ops : Kind(g, o) \in kinds}, g.nop - 1)
=============================================================================
