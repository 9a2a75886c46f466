--------------------------- MODULE RedundantElim ---------------------------
(***************************************************************************)
(* The redundant-elim pass on one graph: the scan of local rewrites, the   *)
(* common-subexpression scan, and the renaming of constant output ports.   *)
(* A rewrite changes nothing where its conditions fail; the scan tries     *)
(* them in the order of the code and stops at the first that applies.      *)
(***************************************************************************)
EXTENDS Netlist

SideEffectKinds ==
    {"kMemory", "kMemoryReadPort", "kMemoryWritePort", "kRegister", "kRegisterReadPort",
     "kRegisterWritePort", "kLatch", "kLatchReadPort", "kLatchWritePort", "kInstance",
     "kBlackbox", "kSystemFunction", "kSystemTask", "kDpicImport", "kDpicCall"}

IsUnary(op) == Len(op.in) = 1 /\ Len(op.out) = 1
PlainOutput(g, v) == IsOutput(g, v) /\ ~IsInput(g, v) /\ ~IsInout(g, v)

-----------------------------------------------------------------------------
(* An output port assigned from a constant gets a constant of its own.     *)
(* The code means to move the constant when the assign is its only reader; *)
(* but it asks for the readers after erasing the assign, and Value loads   *)
(* them then, so the test is made on the readers that are left.            *)

InlineOutputConst(g, o) ==
    LET op  == g.ops[o]
        dst == op.out[1]
        def == Def(g, op.in[1])
        h   == EraseOp(g, o)
    IN  IF "lit" \notin DOMAIN g.ops[def].a THEN g
        ELSE IF SingleUser(h, op.in[1], o) /\ ~IsOutput(h, op.in[1]) /\ CanDefine(h, dst)
        THEN ReplaceResult(h, def, 1, dst)
        ELSE CreateOp(h, "kConstant", <<>>, <<dst>>, h.ops[def].a)
OutputConstApplies(g, o) ==
    /\ Kind(g, o) = "kAssign" /\ IsUnary(g.ops[o])
    /\ LET dst == g.ops[o].out[1]
       IN  PlainOutput(g, dst) /\ UsersOf(g, dst) = {}
    /\ DefKind(g, g.ops[o].in[1]) = "kConstant"

\* A concat of one operand is that operand.
ConcatOfOne(g, o) == Kind(g, o) = "kConcat" /\ IsUnary(g.ops[o])
DropConcat(g, o) ==
    LET from == g.ops[o].out[1]
        to   == g.ops[o].in[1]
    IN  IF Temporary(g, from) /\ SameShape(g, from, to)
        THEN EraseOp(ReplaceUsers(g, from, to), o) ELSE g

\* a || !a is one.
IsNotOf(g, n, v) ==
    DefKind(g, n) \in {"kLogicNot", "kNot"} /\ g.ops[Def(g, n)].in[1] = v
AlwaysTrue(g, o) ==
    /\ Kind(g, o) = "kLogicOr" /\ Len(g.ops[o].out) = 1
    /\ g.vals[g.ops[o].out[1]].w = 1
    /\ \E i, j \in DOMAIN g.ops[o].in :
          i # j /\ IsNotOf(g, g.ops[o].in[i], g.ops[o].in[j])
FoldTautology(g, o) ==
    LET v == g.ops[o].out[1]
        h == CreateOp(CreateValue(g, 1, g.vals[v].sgn, Tmp), "kConstant", <<>>,
                      <<g.nval>>, [lit |-> <<1>>])
    IN  EraseOp(ReplaceUsers(h, v, g.nval), o)

\* An assign is dropped by letting the operation that defines its source
\* define its destination: for an output port, or for a temporary source.
AssignMoves(g, o) ==
    LET src == g.ops[o].in[1]
        dst == g.ops[o].out[1]
    IN  /\ SingleUser(g, src, o) /\ SameShape(g, src, dst) /\ Def(g, src) \notin {0, o}
        /\ IF PlainOutput(g, dst) /\ UsersOf(g, dst) = {}
           THEN ~IsPort(g, src)
           ELSE ~IsPort(g, dst) /\ Temporary(g, src)
MoveResult(g, o) ==
    LET src == g.ops[o].in[1]
        dst == g.ops[o].out[1]
        def == Def(g, src)
    IN  ReplaceResult(EraseOpInto(g, o, dst), def, ResultIndex(g, def, src), dst)

\* not (a xor b) is a xnor b, when the xor has no other reader.
NotOfXor(g, o) ==
    /\ Kind(g, o) = "kNot" /\ IsUnary(g.ops[o])
    /\ LET v == g.ops[o].in[1]
       IN  Temporary(g, v) /\ SingleUser(g, v, o) /\ DefKind(g, v) = "kXor"
FoldXnor(g, o) ==
    LET def == Def(g, g.ops[o].in[1])
        h   == MoveResult(g, o)
    IN  SetOp(h, def, [h.ops[def] EXCEPT !.kind = "kXnor"])

RewriteOne(g, o) ==
    CASE OutputConstApplies(g, o) -> InlineOutputConst(g, o)
      [] ConcatOfOne(g, o)        -> DropConcat(g, o)
      [] AlwaysTrue(g, o)         -> FoldTautology(g, o)
      [] Kind(g, o) = "kAssign" /\ IsUnary(g.ops[o]) ->
            IF AssignMoves(g, o) THEN MoveResult(g, o) ELSE g
      [] NotOfXor(g, o)           -> FoldXnor(g, o)
      [] OTHER -> g

RedundantLocal(g) == ForOps(g, RewriteOne)

-----------------------------------------------------------------------------
(* Common subexpressions: the first operation of each signature stays.     *)

CseCandidate(g, o) ==
    /\ Kind(g, o) \notin SideEffectKinds
    /\ Len(g.ops[o].out) = 1
    /\ Temporary(g, g.ops[o].out[1])
    /\ g.vals[g.ops[o].out[1]].typ = "Logic"

Signature(g, o) ==
    LET v == g.ops[o].out[1]
    IN  <<g.ops[o].kind, g.ops[o].in, g.ops[o].a, g.vals[v].w, g.vals[v].sgn>>

CseOne(acc, o) ==
    LET g   == acc.g
        v   == g.ops[o].out[1]
        sig == Signature(g, o)
    IN  IF ~CseCandidate(g, o) THEN acc
        ELSE IF sig \notin DOMAIN acc.seen THEN [acc EXCEPT !.seen = @ @@ (sig :> v)]
        ELSE [acc EXCEPT !.g = EraseOp(ReplaceUsers(g, v, acc.seen[sig]), o)]

RedundantCse(g) ==
    FoldLeft(CseOne, [g |-> g, seen |-> [s \in {} |-> 0]], OpIds(g)).g

-----------------------------------------------------------------------------
(* An output port driven by a constant: the constant takes the port's name *)
(* from a value nobody defines or reads, which is erased.                  *)

NamePort(g, i) ==
    LET p        == g.outp[i]
        existing == FindValue(g, p.name)
        blocked  == existing \notin {0, p.val} /\ (IsPort(g, existing) \/ Def(g, existing) # 0
                                                     \/ UsersOf(g, existing) # {})
        h        == IF existing \in {0, p.val} THEN g ELSE EraseValue(g, existing)
    IN  IF \/ g.vals[p.val].sym = p.name \/ DefKind(g, p.val) # "kConstant"
           \/ blocked \/ FindOp(h, p.name) # 0
        THEN g
        ELSE [h EXCEPT !.vals[p.val].sym = p.name]

RedundantPorts(g) == FoldLeft(LAMBDA h, i : NamePort(h, i), g, [i \in DOMAIN g.outp |-> i])

-----------------------------------------------------------------------------
\* The pass on one graph: local rewrites, common subexpressions, port names.
RedundantElim(g) ==
    LET h == RedundantPorts(RedundantCse(RedundantLocal(g)))
    IN  Result(h, h # g, FALSE)
=============================================================================
