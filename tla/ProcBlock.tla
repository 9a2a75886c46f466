----------------------------- MODULE ProcBlock -----------------------------
(***************************************************************************)
(* Procedural blocks of a SystemVerilog module, as the parser hands them   *)
(* over, and what the language says they do.  An expression is a record:   *)
(* its kind, its operator, its arguments, the width of its type, a name    *)
(* and the bits of a literal.  A statement is a record of its parts.  The  *)
(* interpreter below runs a block statement by statement; it is what the   *)
(* lowering is held against, and no part of the program.                   *)
(***************************************************************************)
EXTENDS BitVec

CONSTANT Widths   \* name -> width of the signal

Ops == INSTANCE OpSemantics

IntWidth == 4     \* the width of int, 32 in the language

\* A bit vector of the given width for every number.
IntBits(n) == FromNat(n, IntWidth)

Expr(k, op, args, w, name, bits) ==
    [k |-> k, op |-> op, args |-> args, w |-> w, name |-> name, bits |-> bits]
Var(s)         == Expr("var", "", <<>>, Widths[s], s, <<>>)
LoopVar(v)     == Expr("var", "", <<>>, IntWidth, v, <<>>)
Lit(bits)      == Expr("lit", "", <<>>, Len(bits), "", bits)
Oper(op, args, w) == Expr("op", op, args, w, "", <<>>)
Select(e, index, w) == Expr("select", "", <<e, index>>, w, "", <<>>)
Convert(e, w)  == Expr("conv", "", <<e>>, w, "", <<>>)
Foreign        == Expr("foreign", "", <<>>, 1, "", <<>>)  \* one the lowerer does not know

RECURSIVE VarsOf(_)
VarsOf(e) ==
    (IF e.k = "var" THEN {e.name} ELSE {}) \cup UNION {VarsOf(a) : a \in Range(e.args)}

RECURSIVE Lowerable(_)
Lowerable(e) == e.k # "foreign" /\ \A a \in Range(e.args) : Lowerable(a)

-----------------------------------------------------------------------------
(* Values.                                                                 *)

Apply(op, vs) ==
    CASE op = "kMux"    -> Conditional(vs[1], vs[2], vs[3], FALSE)
      [] op = "kConcat" -> Ops!ConcatBits(vs)
      [] op = "kAssign" -> vs[1]
      [] op = "kSliceDynamic" -> ShiftRight(vs[1], vs[2], 0)
      [] op \in Ops!UnaryKinds  -> Ops!FoldUnary(op, vs[1])
      [] op \in Ops!BinaryKinds -> Ops!FoldBinary(op, vs[1], vs[2], FALSE)

ValueOf(e, vs, env) ==
    CASE e.k = "var"    -> env[e.name]
      [] e.k = "lit"    -> e.bits
      [] e.k = "conv"   -> Resize(vs[1], e.w, FALSE)
      [] e.k \in {"select", "op"} ->
            Resize(Apply(IF e.k = "op" THEN e.op ELSE "kSliceDynamic", vs), e.w, FALSE)
RECURSIVE Value(_, _)
Value(e, env) == ValueOf(e, [i \in DOMAIN e.args |-> Value(e.args[i], env)], env)

-----------------------------------------------------------------------------
(* Statements.                                                             *)

NoStmt     == [k |-> "none"]
Empty      == [k |-> "empty"]
Break      == [k |-> "break"]
Continue   == [k |-> "continue"]
Begin(ss)  == [k |-> "block", body |-> ss]
Whole(s)   == [name |-> s, sel |-> <<>>]
Part(s, index, w) == [name |-> s, sel |-> <<[index |-> index, w |-> w]>>]
Assign(to, e, nb) == [k |-> "assign", to |-> to, e |-> e, nb |-> nb]
If(c, t, f)       == [k |-> "if", c |-> c, t |-> t, f |-> f]
\* An item lists the patterns it matches; an unknown bit of a casez pattern is z.
Item(patterns, body) == [patterns |-> patterns, body |-> body]
Case(wild, e, items, default) ==
    [k |-> "case", wild |-> wild, e |-> e, items |-> items, default |-> default]
For(v, from, to, body) == [k |-> "for", v |-> v, from |-> from, to |-> to, body |-> body]
Repeat(n, body)        == [k |-> "repeat", from |-> 0, to |-> n, body |-> body]

Loops == {"for", "repeat"}
Children(s) ==
    CASE s.k = "block" -> s.body
      [] s.k = "if"    -> <<s.t, s.f>>
      [] s.k = "case"  -> Append([i \in DOMAIN s.items |-> s.items[i].body], s.default)
      [] s.k \in Loops -> <<s.body>>
      [] OTHER -> <<>>

\* A block: the process it is, and its body.
Process(proc, body) == [proc |-> proc, body |-> body]

TargetWidth(t) == IF t.sel = <<>> THEN Widths[t.name] ELSE t.sel[1].w
TotalWidth(ts) == FoldLeft(LAMBDA n, t : n + TargetWidth(t), 0, ts)
\* The low end of the part of the right-hand side that target i takes.
LowEnd(ts, i)  == TotalWidth(SubSeq(ts, i + 1, Len(ts)))

Put(env, s, lo, bits) ==
    [env EXCEPT ![s] = [i \in DOMAIN @ |->
        IF lo < i /\ i <= lo + Len(bits) THEN bits[i - lo] ELSE @[i]]]
PutAll(env, puts) == FoldLeft(LAMBDA acc, p : Put(acc, p.s, p.lo, p.bits), env, puts)

\* The parts an assignment writes, with their bits.
PutsOf(s, env) ==
    LET v == Resize(Value(s.e, env), TotalWidth(s.to), FALSE)
    IN  [i \in DOMAIN s.to |->
            [s  |-> s.to[i].name,
             lo |-> IF s.to[i].sel = <<>> THEN 0 ELSE ToNat(Value(s.to[i].sel[1].index, env)),
             bits |-> SubSeq(v, LowEnd(s.to, i) + 1, LowEnd(s.to, i) + TargetWidth(s.to[i]))]]

Matches(wild, v, p) ==
    LET q == Resize(p, Len(v), FALSE)
    IN  IF wild THEN WildcardEq(v, q, FALSE) ELSE v = q
\* The body of the first item that matches, or the default.
Hit(s, it, v) == \E p \in Range(it.patterns) : Matches(s.wild, v, p)
BodyAt(s, i)  == IF i = 0 THEN s.default ELSE s.items[i].body
Chosen(s, v)  == BodyAt(s, SelectInSeq(s.items, LAMBDA it : Hit(s, it, v)))

-----------------------------------------------------------------------------
(* The interpreter: env holds the values, later the nonblocking updates,   *)
(* flow tells whether a break or a continue is on its way to its loop.     *)

\* What a statement comes to under env.  An iteration ends in "next" and a
\* loop in "out"; a continue runs to the one, a break to the other.
Iterations(s, n) ==
    Append(FlattenSeq([i \in 1..n |->
               <<[k |-> "bind", s |-> s, i |-> s.from + i - 1], s.body, [k |-> "next"]>>]),
           [k |-> "out"])
Steps(s, env) ==
    CASE s.k = "if"     -> <<IF Truth(Value(s.c, env)) = 1 THEN s.t ELSE s.f>>
      [] s.k = "case"   -> <<Chosen(s, Value(s.e, env))>>
      [] s.k \in Loops  -> Iterations(s, ToNat(Value(s.to, env)) - s.from)
      [] OTHER -> Children(s)

\* A nonblocking assignment is kept for the end of the block.
Assigning(s, st, puts) ==
    IF s.nb THEN [st EXCEPT !.later = @ \o puts] ELSE [st EXCEPT !.env = PutAll(@, puts)]

RECURSIVE Run(_, _)
Run(s, st) ==
    CASE s.k = "out" \/ (s.k = "next" /\ st.flow = "continue") -> [st EXCEPT !.flow = "on"]
      [] st.flow # "on"  -> st
      [] s.k = "assign"  -> Assigning(s, st, PutsOf(s, st.env))
      [] s.k = "bind"    -> IF s.s.k = "for" THEN [st EXCEPT !.env = (s.s.v :> IntBits(s.i)) @@ @] ELSE st
      [] s.k \in {"break", "continue"} -> [st EXCEPT !.flow = s.k]
      [] OTHER -> FoldLeft(LAMBDA acc, c : Run(c, acc), st, Steps(s, st.env))

Committed(st) == PutAll(st.env, st.later)
RunBlock(b, env) == Committed(Run(b.body, [env |-> env, later |-> <<>>, flow |-> "on"]))

RECURSIVE WrittenBy(_), ReadBy(_), AssignsSurely(_, _), PartlyBy(_, _)
WrittenBy(s) ==
    (IF s.k = "assign" THEN {t.name : t \in Range(s.to)} ELSE {})
        \cup UNION {WrittenBy(c) : c \in Range(Children(s))}
ReadBy(s) ==
    (CASE s.k = "assign" -> VarsOf(s.e) \cup
                            UNION {UNION {VarsOf(x.index) : x \in Range(t.sel)} : t \in Range(s.to)}
       [] s.k = "if"     -> VarsOf(s.c)
       [] s.k = "case"   -> VarsOf(s.e)
       [] s.k \in Loops  -> VarsOf(s.to)
       [] OTHER -> {})
        \cup UNION {ReadBy(c) : c \in Range(Children(s))}

\* Every path through s assigns all of x.
AssignsSurely(s, x) ==
    LET parts == {AssignsSurely(c, x) : c \in Range(Children(s))}
    IN  CASE s.k = "assign" -> Whole(x) \in Range(s.to)
          [] s.k = "block"  -> TRUE \in parts
          [] s.k \in {"if", "case"} -> parts = {TRUE}
          [] OTHER -> FALSE

\* Some assignment writes a part of x at an index only known at run time.
PartlyBy(s, x) ==
    \/ s.k = "assign" /\ \E t \in Range(s.to) :
            t.name = x /\ t.sel # <<>> /\ VarsOf(t.sel[1].index) # {}
    \/ \E c \in Range(Children(s)) : PartlyBy(c, x)

Edge == {"always_ff", "always_edge"}   \* always @(posedge ...) is always_edge here
Settled(Step(_), env, rounds) ==
    LET f[n \in 0..rounds] == IF n = 0 THEN env ELSE Step(f[n - 1]) IN f[rounds]

\* What the program shows: combinational logic and latches settle, then every
\* clocked block runs once on what they settled to.
Leveled(prog, env) ==
    FoldLeft(LAMBDA acc, b : IF b.proc \in Edge THEN acc ELSE RunBlock(b, acc), env, prog)
Changes(acc, before, after) ==
    [s \in DOMAIN acc |-> [i \in DOMAIN acc[s] |->
        IF after[s][i] # before[s][i] THEN after[s][i] ELSE acc[s][i]]]
Ticked(prog, still) ==
    FoldLeft(LAMBDA acc, b : IF b.proc \in Edge THEN Changes(acc, still, RunBlock(b, still)) ELSE acc,
             still, prog)
Shows(prog, env) ==
    Ticked(prog, Settled(LAMBDA e : Leveled(prog, e), env, Len(prog) + 1))
=============================================================================
