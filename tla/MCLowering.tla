----------------------------- MODULE MCLowering -----------------------------
(***************************************************************************)
(* Small modules over one-bit inputs a, b, c, two-bit inputs d, e and      *)
(* two-bit targets y, z, t.  Operands have the widths the parser gives     *)
(* them: it inserts the conversions.                                       *)
(***************************************************************************)
EXTENDS WriteBack

MCWidths == [s \in {"a", "b", "c", "d", "e", "y", "z", "t"} |-> IF s \in {"a", "b", "c"} THEN 1 ELSE 2]

A == Var("a")
B == Var("b")
C == Var("c")
D == Var("d")
E == Var("e")
I == LoopVar("i")
J == LoopVar("j")
Bit(e, index) == Select(e, index, 1)
Num(n) == Lit(IntBits(n))
Two(n) == Lit(FromNat(n, 2))
And(x, y)  == Oper("kAnd", <<x, y>>, 2)
Or(x, y)   == Oper("kOr", <<x, y>>, 2)
Plus(x, y) == Oper("kAdd", <<x, y>>, 2)
Is(x, y)   == Oper("kEq", <<x, y>>, 1)
Not1(x)    == Oper("kLogicNot", <<x>>, 1)
Either(c, x, y) == Oper("kMux", <<c, x, y>>, 2)
Join2(x, y)  == Oper("kConcat", <<x, y>>, 2)

To(s, e)      == Assign(<<Whole(s)>>, e, FALSE)
At(s, i, e)   == Assign(<<Part(s, i, 1)>>, e, FALSE)
Later(st)     == IF st.k = "assign" THEN [st EXCEPT !.nb = TRUE] ELSE st
One1(proc, ss) == <<Process(proc, Begin(ss))>>

Levels == {"always_comb", "always_star", "always_latch"}

-----------------------------------------------------------------------------
(* Branches around whole, partial and self-reading assignments.            *)

Conds    == {A, D, Is(D, Two(1)), Oper("kLogicAnd", <<A, B>>, 1)}
Plain    == {To("y", D), To("y", Join2(A, Not1(A))), At("y", Num(0), A), At("y", Num(1), B), Empty}
Rewrites == {To("y", Or(Var("y"), E)), To("y", Plus(Var("y"), Two(1)))}
Reading  == Rewrites \cup {At("y", Num(1), Bit(Var("y"), Num(0)))}

\* A level-sensitive block reads its target only after it has assigned all of it.
LevelIfs == {One1("always_comb", <<To("y", E), If(A, s, f), last>>) :
                s \in Plain \cup Reading, f \in {NoStmt, To("y", D)} \cup Rewrites,
                last \in {Empty, To("y", Plus(Var("y"), Two(1)))}}
            \cup {One1("always_latch", <<To("y", E), If(Is(D, Two(1)), s, NoStmt), last>>) :
                s \in Plain \cup Reading, last \in {Empty, To("y", Plus(Var("y"), Two(1)))}}
\* Parts that together make up a target that some path leaves alone are
\* written over zero: see the README.  These blocks stay clear of that.
Parts    == {At("y", Num(0), A), At("y", Num(1), B), Empty}
OpenIfs  == {One1("always_latch", <<If(c, s, f), last>>) :
                c \in {A, D}, s \in Parts, f \in Parts \cup {NoStmt}, last \in {Empty, At("y", Num(0), A)}}
            \cup {One1("always_latch", <<If(c, s, f)>>) :
                c \in Conds, s \in Plain \ Parts, f \in Plain \cup {NoStmt}}
StarIfs  == {One1("always_star", <<If(c, s, f)>>) :
                c \in Conds, s \in Plain \ {At("y", Num(1), B)}, f \in {NoStmt, Empty, To("y", D)}}
                \ {One1("always_star", <<If(c, At("y", Num(0), A), To("y", D))>>) : c \in Conds}
EdgeIfs  == {One1("always_ff", <<If(A, s, f), last>>) :
                s \in Plain \cup Reading, f \in {NoStmt, To("y", E)} \cup Reading,
                last \in {Empty, To("y", Or(Var("y"), E))}}
            \cup {One1("always_ff", <<first, If(D, s, f)>>) :
                first \in Parts, s \in Parts \ {Empty}, f \in {At("y", Num(1), B), NoStmt}}
LaterIfs == {One1("always_edge", <<Later(first), If(c, Later(s), Later(f)), Later(last)>>) :
                first \in {To("y", E)}, c \in {A}, s \in Plain \cup Reading,
                f \in {NoStmt, To("y", D)}, last \in {Empty, At("y", Num(1), B)}}
            \cup {One1("always_edge", <<If(c, Later(s), Later(f))>>) :
                c \in {A, D}, s \in Plain \cup Reading, f \in {NoStmt, To("y", E)}}
Nested   == {One1(p, <<If(A, If(B, s, To("y", E)), If(C, To("y", D), f))>>) :
                p \in Levels, s \in Plain \ Parts, f \in {To("y", Two(1)), NoStmt}}

-----------------------------------------------------------------------------
(* Case statements: complete by a default or by their items, or not.       *)

Whats  == {To("y", E), To("y", Two(2)), At("y", Num(0), A)}
Items(u, v) == <<Item(<<<<0, 0>>>>, u), Item(<<<<1, 0>>, <<0, 1>>>>, v)>>
AllItems(u, v) == Items(u, v) \o <<Item(<<<<1, 1>>>>, u)>>
WildItems(u, v) == <<Item(<<<<Unknown, 0>>>>, u), Item(<<<<1, Unknown>>>>, v)>>
Cases ==
    {One1(p, <<first, Case(FALSE, D, Items(u, v), w)>>) :
        p \in {"always_comb", "always_ff"}, first \in {To("y", D)}, u \in Whats, v \in Whats,
        w \in {To("y", Two(2)), NoStmt}}
    \cup {One1(p, <<Case(FALSE, D, Items(u, v), w)>>) :
        p \in {"always_comb", "always_latch", "always_ff"}, u \in Whats \ {At("y", Num(0), A)},
        v \in Whats \ {At("y", Num(0), A)}, w \in {To("y", D), NoStmt}}
    \cup {One1(p, <<Case(FALSE, D, AllItems(u, v), NoStmt)>>) :
        p \in {"always_comb", "always_ff"}, u \in {To("y", E)}, v \in {To("y", D)}}
    \cup {One1(p, <<Case(TRUE, D, WildItems(u, v), w)>>) :
        p \in {"always_comb", "always_latch"}, u \in {To("y", E)}, v \in {To("y", Two(1))},
        w \in {To("y", D), NoStmt}}
    \cup {One1("always_comb", <<If(A, Case(FALSE, D, Items(u, v), To("y", D)), To("y", Two(3)))>>) :
        u \in {To("y", E)}, v \in {To("y", Two(1)), If(B, To("y", E), To("y", D))}}

-----------------------------------------------------------------------------
(* Loops, with breaks and continues that are known when the loop is        *)
(* unrolled and with ones that are not.                                    *)

First == To("y", Two(0))
Copy(target) == At(target, I, Bit(E, I))
Stops == {If(c, s, NoStmt) : c \in {Is(I, Num(1)), Bit(D, I), Lit(<<1>>)}, s \in {Break, Continue}}
Bodies == {Copy("y")} \cup {Begin(<<s, Copy("y")>>) : s \in Stops}
            \cup {Begin(<<Copy("y"), s>>) : s \in Stops}
            \cup {Begin(<<If(Bit(D, I), Begin(<<To("y", E), Break>>), Copy("y"))>>)}
            \cup {Begin(<<If(Is(I, Num(0)), Empty, Break), Copy("y")>>)}
Fors == {One1(p, <<First, For("i", 0, Num(n), s)>>) :
            p \in {"always_comb", "always_ff"}, n \in {2}, s \in Bodies}
\* A body with a case around its break.
CaseBreak == Begin(<<Case(FALSE, D, <<Item(<<<<1, 0>>>>, Break)>>, Empty), Copy("y")>>)
Inner == {For("j", 0, Num(2), Begin(<<s, At("z", J, Bit(E, I))>>)) :
            s \in {Empty, If(Is(J, Num(1)), Break, NoStmt), If(Bit(D, J), Continue, NoStmt)}}
MoreLoops ==
    {One1("always_comb", <<To("z", D), First, For("i", 0, Num(n), s)>>) :
        n \in {1}, s \in Inner \cup {CaseBreak}}
    \cup {One1(p, <<To("t", D), Repeat(Num(n), To("t", Plus(Var("t"), E))), To("y", Var("t"))>>) :
            p \in {"always_comb", "always_ff"}, n \in {0, 1, 2}}
    \cup {One1("always_comb", <<First, Repeat(Num(2),
            Begin(<<If(A, s, NoStmt), To("y", E)>>))>>) : s \in {Break, Continue}}
\* Loops that are too long or have no constant bound, and stray breaks.
Refusals ==
    {One1("always_comb", <<First, s>>) : s \in {
        For("i", 0, Num(3), Copy("y")), For("i", 0, D, Copy("y")), Repeat(Num(4), To("y", E)),
        Repeat(D, If(A, Break, NoStmt)),
        For("i", 0, Num(3), Begin(<<If(A, Break, NoStmt), To("y", E)>>)),
        Break, Continue, If(Foreign, To("y", D), NoStmt), If(Foreign, To("y", D), To("y", E)),
        Case(FALSE, Foreign, <<Item(<<<<0>>>>, To("y", D))>>, NoStmt),
        Case(FALSE, Foreign, <<Item(<<<<0>>>>, To("y", D))>>, To("y", E)), To("y", Foreign)}}

-----------------------------------------------------------------------------
(* Several processes, concatenated targets, indices known at run time.     *)

Others ==
    {<<Process("assign", At("y", Num(0), x)), Process("assign", At("y", Num(1), y))>> :
        x \in {A, Bit(D, B)}, y \in {B, Bit(D, Num(1))}}
    \cup {<<Process("assign", To("t", x)), Process("always_ff", To("y", Plus(Var("t"), E)))>> :
        x \in {D, Either(A, D, E), Convert(A, 2), Convert(Either(D, Convert(D, 4), Num(5)), 2)}}
    \cup {<<Process("always_ff", If(A, At("y", Num(0), B), NoStmt)),
            Process("always_ff", Begin(<<At("y", Num(1), C), s>>))>> :
        s \in {Empty, At("y", Num(1), A), If(B, At("y", Num(1), A), NoStmt)}}
    \cup {One1(p, <<Assign(<<Whole("y"), Part("z", Num(0), 1)>>, e, p = "always_edge")>>) :
        p \in {"always_comb", "always_edge"},
        e \in {Oper("kConcat", <<D, A>>, 3), Convert(D, 3), Convert(Oper("kConcat", <<D, E>>, 4), 3)}}
    \cup {One1(p, <<To("y", E), If(A, At("y", B, C), NoStmt)>>) : p \in {"always_comb", "always_latch"}}
    \cup {One1("always_ff", <<s, Later(At("y", B, C))>>) : s \in {Empty, Later(To("y", E))}}
    \cup {<<Process("always_comb", To("t", Or(D, E))),
            Process("always_comb", Begin(<<If(Is(Var("t"), D), To("y", E), To("y", Var("t")))>>)),
            Process("always_latch", If(Bit(Var("y"), Num(0)), To("z", Var("y")), NoStmt))>>}

MCPrograms == LevelIfs \cup OpenIfs \cup StarIfs \cup EdgeIfs \cup LaterIfs \cup Nested \cup Cases
                \cup Fors \cup MoreLoops \cup Refusals \cup Others

\* A case statement whose items assign a temporary that is read after it.
TemporaryPrograms ==
    {One1("always_comb", <<Case(FALSE, A, <<Item(<<<<0>>>>, To("t", u))>>, To("t", v)),
                           To("y", Var("t"))>>) : u \in {D, Two(1)}, v \in {E, Two(2)}}
    \cup {One1("always_comb", <<To("t", D), Case(FALSE, E, Items(To("t", u), To("t", v)), w),
                           To("y", s)>>) :
            u \in {Two(0), Two(1)}, v \in {Two(1), Two(2)}, w \in {NoStmt, Empty, To("t", Two(3))},
            s \in {Var("t"), Or(Var("t"), D)}}
=============================================================================
