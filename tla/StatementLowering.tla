------------------------- MODULE StatementLowering -------------------------
(***************************************************************************)
(* The statement lowerer: it walks the procedural blocks of a module and   *)
(* records what each assignment writes, under which guard.  Branches are   *)
(* not taken but guarded: the guard stack holds the conditions of the      *)
(* enclosing branches, the flow stack what break and continue leave of an  *)
(* iteration, and the tracked values hold what each variable is worth at   *)
(* this point, as an expression over what the block read.                  *)
(*                                                                         *)
(* The walk is recursive in the code.  Here agenda is its call stack: the  *)
(* pieces of work left, the next one first.  Each action takes one piece   *)
(* off and may put others in its place.                                    *)
(***************************************************************************)
EXTENDS ProcBlock

-----------------------------------------------------------------------------
(* The expressions of a lowering plan.  The code keeps them in a table and *)
(* names them by index; here a node is a term that carries an id, so that  *)
(* two terms are equal exactly when the code has one node.  A source       *)
(* expression lowered twice is one node again if nothing in it is a loop   *)
(* variable or a tracked value: its id is its place in the source.  Every  *)
(* other id adds the step that made the node.  A node without a width hint *)
(* has width 0.                                                            *)


Node(op, in, w, id) ==
    [op |-> op, in |-> in, w |-> w, sym |-> "", bits |-> <<>>, id |-> id]
SymbolNode(s, w, id) ==
    [op |-> "symbol", in |-> <<>>, w |-> w, sym |-> s, bits |-> <<>>, id |-> id]
ConstNode(bits, w, id) ==
    [op |-> "kConstant", in |-> <<>>, w |-> w, sym |-> "", bits |-> bits, id |-> id]
NoNode == Node("none", <<>>, 0, <<<<>>, 0>>)

One(id)      == ConstNode(<<1>>, 0, id)
Number(n, id) == ConstNode(IntBits(n), 0, id)
Slice(t, index, w, id) == Node("kSliceDynamic", <<t, index>>, w, id)

\* resizeValueToWidth and the implicit conversions: a node without a hint is
\* taken to have the width asked for.
Resized(t, w, id) ==
    IF t.w = 0 \/ t.w = w THEN t
    ELSE IF w < t.w THEN Slice(t, Number(0, id), w, id)
    ELSE Node("kConcat", <<ConstNode([i \in 1..(w - t.w) |-> 0], w - t.w, id), t>>, w, id)

\* The base, of width w, with the n bits from lo up replaced by value.
SpliceStatic(base, lo, n, value, w, id) ==
    LET hi  == lo + n
        all == (IF hi < w THEN <<Slice(base, Number(hi, id), w - hi, id)>> ELSE <<>>)
               \o <<value>> \o (IF lo > 0 THEN <<Slice(base, Number(0, id), lo, id)>> ELSE <<>>)
    IN  IF Len(all) = 1 THEN value ELSE Node("kConcat", all, w, id)

\* combineGuard, makeLogicNot and ensureGuardExpr.
Combine(base, extra, id) ==
    IF base = NoNode THEN extra
    ELSE IF extra = NoNode THEN base ELSE Node("kLogicAnd", <<base, extra>>, 0, id)
LogicNot(t, id)  == Node("kLogicNot", <<t>>, 0, id)
LogicOr(a, b, id) ==
    IF a = NoNode THEN b ELSE IF b = NoNode THEN a ELSE Node("kLogicOr", <<a, b>>, 0, id)
Mux(c, a, b, id) == Node("kMux", <<c, a, b>>, 0, id)
GuardOrOne(g, id) == IF g = NoNode THEN One(id) ELSE g

RECURSIVE UsesSymbol(_, _)
UsesSymbol(t, s) ==
    \/ t.op = "symbol" /\ t.sym = s
    \/ \E c \in Range(t.in) : UsesSymbol(c, s)

-----------------------------------------------------------------------------
(* Lowering a source expression under the tracked values and the loop      *)
(* variables.                                                              *)

RECURSIVE Bits(_)
Bits(n) == IF n = 0 THEN 0 ELSE 1 + Bits(n \div 2)

\* A packed index is cut to the address bits of what it selects from.
ClampIndex(index, w, id) == IF w > 1 THEN Resized(index, Bits(w - 1), id) ELSE index

Widened == Ops!ArithKinds \cup Ops!BitKinds

\* Nothing in e is a loop variable or a tracked value.
OwnId(e, at, c) ==
    <<at, IF VarsOf(e) \cap (DOMAIN c.temps \cup DOMAIN c.locals) = {} THEN 0 ELSE c.now>>

\* An arithmetic node: both operands are resized to the wider one.
WidenedNode(e, in, w, id) ==
    IF w = 0 THEN Node(e.op, in, e.w, id)
    ELSE Node(e.op, [i \in DOMAIN in |-> Resized(in[i], w, id)], w, id)
Wider(in) == IF in[1].w >= in[2].w THEN in[1].w ELSE in[2].w
OneBitWide(t, id) == IF t.w > 1 THEN Node("kReduceOr", <<t>>, 1, id) ELSE t

LowerNode(e, in, id, c) ==
    CASE VarsOf(e) \subseteq DOMAIN c.locals -> ConstNode(Value(e, c.locals), e.w, id)
      [] e.k = "var" ->
            IF e.name \in DOMAIN c.temps THEN c.temps[e.name] ELSE SymbolNode(e.name, e.w, id)
      [] e.k = "conv" -> Resized(in[1], e.w, id)
      [] e.k = "select" -> Slice(in[1], ClampIndex(in[2], e.args[1].w, id), e.w, id)
      [] e.op = "kMux" -> Node("kMux", <<OneBitWide(in[1], id), in[2], in[3]>>, 0, id)
      [] e.op \in Widened -> WidenedNode(e, in, Wider(in), id)
      [] OTHER -> Node(e.op, in, e.w, id)

RECURSIVE Lower(_, _, _)
Lower(e, at, c) ==
    LowerNode(e, [i \in DOMAIN e.args |-> Lower(e.args[i], Append(at, i), c)], OwnId(e, at, c), c)

-----------------------------------------------------------------------------
(* evalConstInt.  Plain evaluation is done in 64-bit integers and looks at *)
(* no width; concatenations switch to sized values.  A node met a second   *)
(* time is no constant.                                                    *)

Word == 8   \* the 64 bits of int64_t
NoConstant == [ok |-> FALSE]

\* A sized value has the width of its node.
Found(v, w, seen) ==
    IF Known(v) THEN [ok |-> TRUE, v |-> IF w > 0 THEN Resize(v, w, FALSE) ELSE v, seen |-> seen]
    ELSE NoConstant
EvalNode(t, sized, all, w) ==
    IF ~all.ok THEN NoConstant
    ELSE CASE t.op = "kConstant" -> Found(t.bits, w, all.seen)
           [] t.op = "kMux"      -> [ok |-> TRUE, v |-> Last(all.vs), seen |-> all.seen]
           [] t.op = "kConcat"   -> Found(Resize(Ops!ConcatBits(all.vs), t.w, FALSE), w, all.seen)
           [] t.op \in {"kNot", "kLogicNot"} ->
                Found(Ops!FoldUnary(t.op, all.vs[1]), IF sized THEN 0 ELSE Word, all.seen)
           [] t.op \in Ops!BinaryKinds ->
                Found(Ops!FoldBinary(t.op, all.vs[1], all.vs[2], ~sized), w, all.seen)
           [] OTHER -> NoConstant

\* The operands, in order; of a mux the condition and the arm it takes.
Unused(t, acc, i) == t.op = "kMux" /\ i > 1 /\ (i = 2) # (Truth(acc.vs[1]) = 1)
With(acc, r) == IF r.ok THEN [acc EXCEPT !.vs = Append(@, r.v), !.seen = r.seen] ELSE NoConstant

RECURSIVE Eval(_, _, _)
Eval(t, sized, seen) ==
    IF <<sized, t>> \in seen THEN NoConstant
    ELSE EvalNode(t, sized,
            FoldLeft(LAMBDA acc, i : IF ~acc.ok \/ Unused(t, acc, i) THEN acc
                                     ELSE With(acc, Eval(t.in[i], sized \/ t.op = "kConcat", acc.seen)),
                     [ok |-> TRUE, vs |-> <<>>,
                      seen |-> seen \cup {<<sized, t>>, <<sized \/ t.op = "kConcat", t>>}],
                     [i \in DOMAIN t.in |-> i]),
            IF sized THEN t.w ELSE Word)

ConstInt(t)  == Eval(t, FALSE, {})
ConstTrue(t) == LET r == ConstInt(t) IN r.ok /\ Truth(r.v) = 1

-----------------------------------------------------------------------------
(* isAlwaysTrueExpr: a constant, a disjunction of a node and its negation, *)
(* or one true for every value of at most eight leaves.                    *)

MaxLeaves == 8
Connectives == {"kLogicAnd", "kLogicOr", "kLogicNot", "kNot"}

\* What a condition comes to: a constant, a connective, or a leaf.
SkeletonOf(t, c, in) ==
    IF c.ok THEN [op |-> "const", holds |-> Truth(c.v) = 1, in |-> <<>>]
    ELSE IF t.op \in Connectives THEN [op |-> t.op, in |-> in]
    ELSE [op |-> "leaf", leaf |-> t, in |-> <<>>]
RECURSIVE Skeleton(_), Leaves(_), Holds(_, _)
Skeleton(t) == SkeletonOf(t, ConstInt(t), [i \in DOMAIN t.in |-> Skeleton(t.in[i])])
Leaves(k) == (IF k.op = "leaf" THEN {k.leaf} ELSE {}) \cup UNION {Leaves(c) : c \in Range(k.in)}
Holds(k, true) ==
    LET parts == {Holds(c, true) : c \in Range(k.in)}
    IN  CASE k.op = "const"     -> k.holds
          [] k.op = "leaf"      -> k.leaf \in true
          [] k.op = "kLogicAnd" -> parts = {TRUE}
          [] k.op = "kLogicOr"  -> TRUE \in parts
          [] k.op \in {"kLogicNot", "kNot"} -> parts = {FALSE}

HoldsAlways(k, leaves) == Cardinality(leaves) <= MaxLeaves /\ \A true \in SUBSET leaves : Holds(k, true)
OverItsLeaves(k) == HoldsAlways(k, Leaves(k))
\* Mutant: does not try the values of the leaves.
IsConstant(t)    == ConstTrue(t)
IsTautology(t)   == OverItsLeaves(Skeleton(t))

IsNotOf(a, b) == a.op \in {"kLogicNot", "kNot"} /\ a.in[1] = b

RECURSIVE IsAlwaysTrue(_)
IsAlwaysTrue(t) ==
    \/ ConstTrue(t)
    \/ /\ t.op = "kLogicOr" /\ ~ConstInt(t).ok
       /\ \/ \E c \in Range(t.in) : IsAlwaysTrue(c)
          \/ IsNotOf(t.in[1], t.in[2]) \/ IsNotOf(t.in[2], t.in[1])
          \/ IsTautology(t)

-----------------------------------------------------------------------------
(* What the graph assembler makes of a node: an operation over the values  *)
(* of its operands, whose result has the hinted width or one that follows  *)
(* from the operands.                                                      *)

OneBit == {"kLogicAnd", "kLogicOr", "kLogicNot"} \cup Ops!CompareKinds \cup Ops!CaseKinds

ResultWidth(t, vs) ==
    IF t.w > 0 THEN t.w
    ELSE IF t.op \in OneBit THEN 1
    ELSE IF t.op = "kMux" THEN Len(vs[2])
    ELSE IF t.op = "kConcat" THEN FoldLeft(LAMBDA n, v : n + Len(v), 0, vs)
    ELSE Len(vs[1])

MeaningOf(t, vs, env) ==
    CASE t.op = "kConstant" -> Resize(t.bits, IF t.w > 0 THEN t.w ELSE Len(t.bits), FALSE)
      [] t.op = "symbol"    -> env[t.sym]
      [] OTHER -> Resize(Apply(t.op, vs), ResultWidth(t, vs), FALSE)
RECURSIVE Meaning(_, _)
Meaning(t, env) == MeaningOf(t, [i \in DOMAIN t.in |-> Meaning(t.in[i], env)], env)

-----------------------------------------------------------------------------
(* The walk.                                                               *)

CONSTANTS
    Programs,   \* the modules lowered: sequences of processes
    MaxLoop     \* maxLoopIterations

VARIABLES
    program,    \* the processes of the module
    pos,        \* the one being lowered
    agenda,     \* what is left of it to do
    temps,      \* proceduralValueStack's frame: signal -> node
    stacks,     \* [guards, flows, alives, locals, coverage]
    writes,     \* the writes recorded so far
    failed,     \* whether an error was reported
    steps       \* counts the pieces of work: it tells nodes made at different times apart

lowerVars == <<program, pos, agenda, temps, stacks, writes, failed, steps>>

NoTemps  == [s \in {} |-> NoNode]
NoStacks == [guards |-> <<>>, flows |-> <<>>, alives |-> <<>>, locals |-> <<>>, coverage |-> <<>>]

LowerInit ==
    /\ program \in Programs
    /\ pos = 1 /\ agenda = <<>> /\ temps = NoTemps /\ stacks = NoStacks
    /\ writes = <<>> /\ failed = FALSE /\ steps = 1

-----------------------------------------------------------------------------
(* classifyProceduralBlock; a continuous assignment is combinational.      *)

Process1 == program[pos]
Domain(proc) ==
    CASE proc \in {"assign", "always_comb", "always_star"} -> "Combinational"
      [] proc = "always_latch" -> "Latch"
      [] proc \in Edge         -> "Sequential"
\* Blocks track values, continuous assignments do not.
Tracking == Process1.proc # "assign"

-----------------------------------------------------------------------------
(* The agenda and the stacks.                                              *)

Visit(s, at) == [do |-> "visit", s |-> s, at |-> at]
Next1 == agenda[1]
Doing(what) == agenda # <<>> /\ Next1.do = what
Visiting(k) == Doing("visit") /\ Next1.s.k = k
Then(items) == agenda' = items \o Tail(agenda)

Top(stack, none) == IF stack = <<>> THEN none ELSE Last(stack)
Push(stack, v)   == Append(stack, v)
Pop(stack)       == Front(stack)
SetTop(stack, v) == Append(Front(stack), v)

Locals  == FoldLeft(LAMBDA acc, f : f @@ acc, <<>>, stacks.locals)
Context == [temps |-> temps, locals |-> Locals, now |-> steps]
Id(at)  == <<at, steps>>

PathGuard == Top(stacks.guards, NoNode)
FlowGuard == Top(stacks.flows, NoNode)
Guard(at) == Combine(PathGuard, FlowGuard, Id(at))

Idle(vs) == /\ steps' = steps + 1
            /\ UNCHANGED <<program, pos>>
            /\ UNCHANGED vs

-----------------------------------------------------------------------------
(* lowerStmtProceduralBlock and lowerStmtContinuousAssign.                 *)

StartBlock ==
    /\ pos <= Len(program) /\ agenda = <<>>
    /\ agenda' = <<Visit(Process1.body, <<pos>>), [do |-> "endBlock"]>>
    /\ Idle(<<temps, stacks, writes, failed>>)

EndBlock ==
    /\ Doing("endBlock")
    /\ Then(<<>>)
    /\ pos' = pos + 1 /\ temps' = NoTemps /\ steps' = steps + 1
    /\ UNCHANGED <<program, stacks, writes, failed>>

VisitBlock ==
    /\ Visiting("block")
    /\ Then([i \in DOMAIN Next1.s.body |-> Visit(Next1.s.body[i], Append(Next1.at, i))])
    /\ Idle(<<temps, stacks, writes, failed>>)

VisitEmpty ==
    /\ Visiting("empty")
    /\ Then(<<>>)
    /\ Idle(<<temps, stacks, writes, failed>>)

\* isUnconditionalGuard.
Unconditional(g) == g = NoNode \/ ConstTrue(g)

-----------------------------------------------------------------------------
(* handleAssignment.                                                       *)

\* Whether an index or a guard is constant depends on the node alone: it is
\* kept with the write instead of being evaluated again by the write-back.
LowerSel(sel, at) ==
    [i \in DOMAIN sel |->
        LET index == Lower(sel[i].index, at, Context)
        IN  [index |-> index, w |-> sel[i].w, const |-> ConstInt(index)]]
LowOf(part) == ToInt(part.const.v)

\* applyProceduralSliceUpdate: the tracked value with a part replaced; a part
\* that is not constant, or out of range, leaves the tracked value alone.
Tracked(s, id) == IF s \in DOMAIN temps THEN temps[s] ELSE SymbolNode(s, 0, id)
Updated(s, part, lo, value, id) ==
    IF lo < 0 \/ lo + part.w > Widths[s] THEN temps
    ELSE (s :> SpliceStatic(Tracked(s, id), lo, part.w, Resized(value, part.w, id), Widths[s], id))
            @@ temps
Track(to, value, id) ==
    IF to.sel = <<>> THEN (to.name :> value) @@ temps
    ELSE IF ~to.sel[1].const.ok THEN temps
    ELSE Updated(to.name, to.sel[1], LowOf(to.sel[1]), value, id)

\* recordWriteIntent.
WriteOf(to, value, nb, guard) ==
    [target |-> to.name, sel |-> to.sel, value |-> value, guard |-> guard, nb |-> nb,
     always |-> Unconditional(guard),
     covers |-> Top(stacks.coverage, FALSE), domain |-> Domain(Process1.proc),
     event |-> IF Process1.proc \in Edge THEN pos ELSE 0]

\* What each target gets: the value, or of a concatenation its part.
PartOf(ts, i, value, id) ==
    IF Len(ts) = 1 THEN value
    ELSE Slice(value, ConstNode(IntBits(LowEnd(ts, i)), IntWidth, id), TargetWidth(ts[i]), id)

\* A value wider or narrower than the targets is converted by the parser.
Assigned(s, at) ==
    Resized(Lower(Convert(s.e, TotalWidth(s.to)), Append(at, 1), Context), TotalWidth(s.to), Id(at))
Into(s, at) ==
    [i \in DOMAIN s.to |-> [name |-> s.to[i].name, sel |-> LowerSel(s.to[i].sel, at \o <<2, i>>)]]

Record(s, to, value, guard, id) ==
    /\ temps' = IF Len(to) = 1 /\ ~s.nb /\ Tracking THEN Track(to[1], value, id) ELSE temps
    /\ writes' = writes \o
            [i \in DOMAIN to |-> WriteOf(to[i], PartOf(s.to, i, value, id), s.nb, guard)]

VisitAssign ==
    /\ Visiting("assign")
    /\ IF Lowerable(Next1.s.e)
       THEN /\ Record(Next1.s, Into(Next1.s, Next1.at), Assigned(Next1.s, Next1.at),
                      Guard(Next1.at), Id(Next1.at))
            /\ UNCHANGED failed
       ELSE failed' = TRUE /\ UNCHANGED <<temps, writes>>
    /\ Then(<<>>)
    /\ Idle(stacks)

-----------------------------------------------------------------------------
(* visitConditional: the second branch starts from the values the first    *)
(* one started from, and afterwards a value is either branch's.            *)

Merged(cond, t, f, id) ==
    [s \in DOMAIN t \cup DOMAIN f |->
        LET l == IF s \in DOMAIN t THEN t[s] ELSE SymbolNode(s, 0, id)
            r == IF s \in DOMAIN f THEN f[s] ELSE SymbolNode(s, 0, id)
        IN  IF l = r THEN l ELSE Mux(cond, l, r, id)]

VisitIf ==
    /\ Visiting("if")
    /\ LET s == Next1.s
           at == Next1.at
           cond == Lower(s.c, Append(at, 1), Context)
           branches == IF s.f = NoStmt THEN <<Visit(s.t, Append(at, 2))>>
                       ELSE <<Visit(s.t, Append(at, 2)), Visit(s.f, Append(at, 3))>>
       IN  IF ~Lowerable(s.c)
           THEN failed' = TRUE /\ Then(branches) /\ UNCHANGED stacks
           ELSE /\ stacks' = [stacks EXCEPT !.guards = Push(@, Combine(PathGuard, cond, Id(at)))]
                /\ Then(<<Visit(s.t, Append(at, 2)),
                          [do |-> "else", s |-> s, at |-> at, cond |-> cond,
                           guard |-> PathGuard, base |-> temps]>>)
                /\ UNCHANGED failed
    /\ Idle(<<temps, writes>>)

\* Mutant: the second branch starts from what the first one left.
EnterElseLeaking ==
    /\ Doing("else") /\ Next1.s.f # NoStmt
    /\ LET falseGuard == Combine(Next1.guard, LogicNot(Next1.cond, Id(Next1.at)), Id(Next1.at))
       IN  stacks' = [stacks EXCEPT !.guards = SetTop(@, falseGuard)]
    /\ Then(<<Visit(Next1.s.f, Append(Next1.at, 3)),
              [do |-> "join", at |-> Next1.at, cond |-> Next1.cond, true |-> temps]>>)
    /\ Idle(<<temps, writes, failed>>)

EnterElse ==
    /\ Doing("else") /\ Next1.s.f # NoStmt
    /\ LET falseGuard == Combine(Next1.guard, LogicNot(Next1.cond, Id(Next1.at)), Id(Next1.at))
       IN  stacks' = [stacks EXCEPT !.guards = SetTop(@, falseGuard)]
    /\ temps' = Next1.base
    /\ Then(<<Visit(Next1.s.f, Append(Next1.at, 3)),
              [do |-> "join", at |-> Next1.at, cond |-> Next1.cond, true |-> temps]>>)
    /\ Idle(<<writes, failed>>)

SkipElse ==
    /\ Doing("else") /\ Next1.s.f = NoStmt
    /\ temps' = Merged(Next1.cond, temps, Next1.base, Id(Next1.at))
    /\ stacks' = [stacks EXCEPT !.guards = Pop(@)]
    /\ Then(<<>>)
    /\ Idle(<<writes, failed>>)

Join ==
    /\ Doing("join")
    /\ temps' = Merged(Next1.cond, Next1.true, temps, Id(Next1.at))
    /\ stacks' = [stacks EXCEPT !.guards = Pop(@)]
    /\ Then(<<>>)
    /\ Idle(<<writes, failed>>)

-----------------------------------------------------------------------------
(* visitCase: item i is guarded by its own match and by that of no item    *)
(* before it.                                                              *)

\* analyzeCaseTwoState, for the constant patterns the programs have.
Complete(s) ==
    \A v \in [1..s.e.w -> {0, 1}] : \E it \in Range(s.items) : \E p \in Range(it.patterns) :
        Matches(s.wild, v, p)
CoversAll(s) == s.default # NoStmt \/ Complete(s)

\* buildCaseItemMatch; a wildcard pattern is compared under its mask.
PatternMatch(control, s, p, eq, id) ==
    LET w == s.e.w
        q == Resize(p, w, FALSE)
        mask == ConstNode([i \in 1..w |-> IF q[i] = Unknown THEN 0 ELSE 1], w, id)
        bits == ConstNode([i \in 1..w |-> IF q[i] = Unknown THEN 0 ELSE q[i]], w, id)
    IN  IF s.wild THEN Node(eq, <<Node("kAnd", <<control, mask>>, 0, id), bits>>, 0, id)
        ELSE Node(eq, <<control, bits>>, 0, id)
ItemMatch(control, s, i, at) ==
    LET eq == IF CoversAll(s) THEN "kEq" ELSE "kCaseEq"
        match(k) == PatternMatch(control, s, s.items[i].patterns[k], eq, <<at \o <<2, i, k>>, steps>>)
    IN  FoldLeft(LAMBDA acc, k : LogicOr(acc, match(k), Id(at)), NoNode,
                 [k \in DOMAIN s.items[i].patterns |-> k])

VisitCase ==
    /\ Visiting("case")
    /\ LET s == Next1.s
           at == Next1.at
           bodies == [i \in DOMAIN s.items |-> Visit(s.items[i].body, at \o <<3, i>>)]
       IN  IF ~Lowerable(s.e)
           THEN /\ failed' = TRUE
                /\ Then(IF s.default = NoStmt THEN bodies
                        ELSE Append(bodies, Visit(s.default, Append(at, 4))))
                /\ UNCHANGED stacks
           ELSE /\ stacks' = [stacks EXCEPT
                        !.coverage = Push(@, Unconditional(PathGuard) /\ CoversAll(s))]
                /\ Then(<<[do |-> "item", s |-> s, at |-> at, i |-> 1, base |-> PathGuard,
                           control |-> Lower(s.e, Append(at, 1), Context), prior |-> NoNode]>>)
                /\ UNCHANGED failed
    /\ Idle(<<temps, writes>>)

CaseItem ==
    /\ Doing("item") /\ Next1.i <= Len(Next1.s.items)
    /\ LET w == Next1
           id == Id(w.at)
           match == ItemMatch(w.control, w.s, w.i, w.at)
           own == Combine(w.base, match, id)
           guard == IF w.prior = NoNode THEN own
                    ELSE Combine(own, LogicNot(w.prior, id), id)
       IN  /\ stacks' = [stacks EXCEPT !.guards = Push(@, guard)]
           /\ Then(<<Visit(w.s.items[w.i].body, w.at \o <<3, w.i>>), [do |-> "pop"],
                     [w EXCEPT !.i = @ + 1, !.prior = LogicOr(@, match, id)]>>)
    /\ Idle(<<temps, writes, failed>>)

PopGuard ==
    /\ Doing("pop")
    /\ stacks' = [stacks EXCEPT !.guards = Pop(@)]
    /\ Then(<<>>)
    /\ Idle(<<temps, writes, failed>>)

CaseDefault ==
    /\ Doing("item") /\ Next1.i > Len(Next1.s.items) /\ Next1.s.default # NoStmt
    /\ LET w == Next1
           guard == IF w.prior = NoNode THEN w.base
                    ELSE Combine(w.base, LogicNot(w.prior, Id(w.at)), Id(w.at))
       IN  /\ stacks' = [stacks EXCEPT !.guards = Push(@, guard)]
           /\ Then(<<Visit(w.s.default, Append(w.at, 4)), [do |-> "pop"], [do |-> "endCase"]>>)
    /\ Idle(<<temps, writes, failed>>)

CaseNoDefault ==
    /\ Doing("item") /\ Next1.i > Len(Next1.s.items) /\ Next1.s.default = NoStmt
    /\ Then(<<[do |-> "endCase"]>>)
    /\ Idle(<<temps, stacks, writes, failed>>)

EndCase ==
    /\ Doing("endCase")
    /\ stacks' = [stacks EXCEPT !.coverage = Pop(@)]
    /\ Then(<<>>)
    /\ Idle(<<temps, writes, failed>>)

-----------------------------------------------------------------------------
(* Loops.  containsLoopControl does not look into nested loops.            *)

RECURSIVE HasControl(_)
HasControl(s) ==
    \/ s.k \in {"break", "continue"}
    \/ s.k \notin Loops /\ \E c \in Range(Children(s)) : HasControl(c)

\* The loop's variable alone is known when its header and the conditions
\* around a break are evaluated; those of the loops around it are not.
Frame(s, i) == IF s.k = "for" THEN s.v :> IntBits(i) ELSE <<>>
StaticBound(s) == s.to.k = "lit"
Bound(s) == ToNat(s.to.bits)
Count(s) == IF Bound(s) > s.from THEN Bound(s) - s.from ELSE 0
\* A for loop must see its condition fail within the limit, a repeat counts.
TooLong(s) == IF s.k = "for" THEN Count(s) >= MaxLoop ELSE Count(s) > MaxLoop

Bind(locals) == [do |-> "bind", locals |-> locals]
Inside(s, i) == IF s.k = "for" THEN Push(stacks.locals, Frame(s, i)) ELSE stacks.locals
Iteration(s, i, at) == <<Bind(Inside(s, i)), Visit(s.body, Append(at, 1))>>
Unrolled(s, n, at) ==
    FlattenSeq([i \in 1..n |-> Iteration(s, s.from + i - 1, at)]) \o <<Bind(stacks.locals)>>

\* visitStatementWithControl: what a body with break or continue comes to
\* when every condition around them is static; "unsupported" when one is not.
DryParts(s, frame, at) ==
    IF s.k = "block" THEN [i \in DOMAIN s.body |-> [s |-> s.body[i], at |-> Append(at, i)]]
    ELSE IF Truth(Value(s.c, frame)) = 1 THEN <<[s |-> s.t, at |-> Append(at, 2)]>>
    ELSE IF s.f = NoStmt THEN <<>> ELSE <<[s |-> s.f, at |-> Append(at, 3)]>>
Unknowable(s, frame) ==
    s.k = "case" \/ (s.k = "if" /\ ~(VarsOf(s.c) \subseteq DOMAIN frame /\ Lowerable(s.c)))

Emit(before, r) == [r EXCEPT !.emit = before \o @]

RECURSIVE Dry(_, _, _)
Dry(s, frame, at) ==
    IF ~HasControl(s) THEN [result |-> "none", emit |-> <<Visit(s, at)>>]
    ELSE IF s.k \in {"break", "continue"} THEN [result |-> s.k, emit |-> <<>>]
    ELSE IF Unknowable(s, frame) THEN [result |-> "unsupported", emit |-> <<>>]
    ELSE FoldLeft(LAMBDA acc, p : IF acc.result # "none" THEN acc
                                  ELSE Emit(acc.emit, Dry(p.s, frame, p.at)),
                  [result |-> "none", emit |-> <<>>], DryParts(s, frame, at))

\* runForWithControl and runRepeatWithControl.
Rounds(s) == IF TooLong(s) THEN MaxLoop ELSE Count(s)
DryIteration(s, acc, i, at) ==
    IF acc.result \in {"unsupported", "break"} THEN acc
    ELSE Emit(acc.emit \o <<Bind(Inside(s, i))>>, Dry(s.body, Frame(s, i), Append(at, 1)))
DryRun(s, at) ==
    FoldLeft(LAMBDA acc, k : DryIteration(s, acc, s.from + k - 1, at),
             [result |-> "none", emit |-> <<>>], [k \in 1..Rounds(s) |-> k])
DryEnds(s, r) == r.result # "unsupported" /\ (r.result = "break" \/ ~TooLong(s))

IsLoop == Doing("visit") /\ Next1.s.k \in Loops
\* A loop that cannot be unrolled is an error; its body is lowered once all
\* the same, unless it holds a break or a continue.
Refused(s) == StaticBound(s) => s.k = "repeat" /\ TooLong(s)
Once(s, at) == IF HasControl(s.body) THEN <<>> ELSE <<Visit(s.body, Append(at, 1))>>

RefuseLoop ==
    /\ IsLoop /\ Refused(Next1.s)
    /\ Then(Once(Next1.s, Next1.at))
    /\ failed' = TRUE
    /\ Idle(<<temps, stacks, writes>>)

UnrollPlain ==
    /\ IsLoop /\ ~Refused(Next1.s) /\ ~HasControl(Next1.s.body)
    /\ LET s == Next1.s
       IN  Then(IF TooLong(s)
                THEN Unrolled(s, MaxLoop, Next1.at) \o <<[do |-> "fail"]>> \o Once(s, Next1.at)
                ELSE Unrolled(s, Count(s), Next1.at))
    /\ Idle(<<temps, stacks, writes, failed>>)

\* A loop the dry run follows to its end is what the dry run emitted.
\* unrollForDynamic and unrollRepeatDynamic do the others: an iteration runs
\* under what is left of the loop, and its own breaks and continues narrow
\* that down.
FollowDry(r) ==
    /\ Then(r.emit \o <<Bind(stacks.locals)>>)
    /\ UNCHANGED stacks
GoDynamic(s, at) ==
    /\ stacks' = [stacks EXCEPT !.alives = Push(@, One(Id(at)))]
    /\ Then(<<[do |-> "iterate", s |-> s, at |-> at, k |-> 0, locals |-> stacks.locals]>>)
Unroll(s, at, r) ==
    \/ DryEnds(s, r) /\ FollowDry(r)
    \/ ~DryEnds(s, r) /\ GoDynamic(s, at)

UnrollControl ==
    /\ IsLoop /\ ~Refused(Next1.s) /\ HasControl(Next1.s.body)
    /\ Unroll(Next1.s, Next1.at, DryRun(Next1.s, Next1.at))
    /\ Idle(<<temps, writes, failed>>)

Iterate ==
    /\ Doing("iterate") /\ Next1.k < Rounds(Next1.s)
    /\ LET w == Next1
       IN  /\ stacks' = [stacks EXCEPT
                    !.flows = Push(@, Last(stacks.alives)),
                    !.locals = IF w.s.k = "for" THEN Push(w.locals, Frame(w.s, w.s.from + w.k)) ELSE @]
           /\ Then(<<Visit(w.s.body, Append(w.at, 1)), [do |-> "popFlow"], [w EXCEPT !.k = @ + 1]>>)
    /\ Idle(<<temps, writes, failed>>)

PopFlow ==
    /\ Doing("popFlow")
    /\ stacks' = [stacks EXCEPT !.flows = Pop(@)]
    /\ Then(<<>>)
    /\ Idle(<<temps, writes, failed>>)

EndDynamic ==
    /\ Doing("iterate") /\ Next1.k = Rounds(Next1.s)
    /\ stacks' = [stacks EXCEPT !.alives = Pop(@), !.locals = Next1.locals]
    /\ failed' = (failed \/ TooLong(Next1.s))
    /\ Then(<<>>)
    /\ Idle(<<temps, writes>>)

BindLocals ==
    /\ Doing("bind")
    /\ stacks' = [stacks EXCEPT !.locals = Next1.locals]
    /\ Then(<<>>)
    /\ Idle(<<temps, writes, failed>>)

Fail ==
    /\ Doing("fail")
    /\ failed' = TRUE
    /\ Then(<<>>)
    /\ Idle(<<temps, stacks, writes>>)

\* handleLoopBreak and handleLoopContinue.
InDynamicLoop == stacks.alives # <<>>
NotHere(at) == LogicNot(GuardOrOne(Guard(at), Id(at)), Id(at))

VisitBreak ==
    /\ Visiting("break") /\ InDynamicLoop
    /\ LET id == Id(Next1.at)
           stop == NotHere(Next1.at)
       IN  stacks' = [stacks EXCEPT
                !.flows = SetTop(@, Combine(FlowGuard, stop, id)),
                !.alives = SetTop(@, Combine(Last(@), stop, id))]
    /\ Then(<<>>)
    /\ Idle(<<temps, writes, failed>>)

VisitContinue ==
    /\ Visiting("continue") /\ InDynamicLoop
    /\ stacks' = [stacks EXCEPT
            !.flows = SetTop(@, Combine(FlowGuard, NotHere(Next1.at), Id(Next1.at)))]
    /\ Then(<<>>)
    /\ Idle(<<temps, writes, failed>>)

StrayControl ==
    /\ Visiting("break") \/ Visiting("continue")
    /\ ~InDynamicLoop
    /\ failed' = TRUE
    /\ Then(<<>>)
    /\ Idle(<<temps, stacks, writes>>)

LowerNext ==
    \/ StartBlock \/ EndBlock \/ VisitBlock \/ VisitEmpty \/ VisitAssign
    \/ VisitIf \/ EnterElse \/ SkipElse \/ Join
    \/ VisitCase \/ CaseItem \/ PopGuard \/ CaseDefault \/ CaseNoDefault \/ EndCase
    \/ RefuseLoop \/ UnrollPlain \/ UnrollControl
    \/ Iterate \/ PopFlow \/ EndDynamic \/ BindLocals \/ Fail
    \/ VisitBreak \/ VisitContinue \/ StrayControl

Lowered == pos > Len(program) /\ agenda = <<>>
=============================================================================
