------------------------------- MODULE BitVec -------------------------------
(***************************************************************************)
(* Four-state bit vectors, as the constant folder gets them from slang's   *)
(* SVInt.  A vector is a sequence of bits, least significant first; the    *)
(* bit 2 is an unknown (x and z are not told apart: no pass does).         *)
(***************************************************************************)
EXTENDS Integers, Sequences, SequencesExt

Unknown == 2
AllX(w)  == [i \in 1..w |-> Unknown]
Known(v) == \A i \in DOMAIN v : v[i] # Unknown
Bool(b)  == IF b THEN <<1>> ELSE <<0>>

FromNat(n, w) == [i \in 1..w |-> (n \div 2^(i - 1)) % 2]
ToNat(v)      == FoldLeftDomain(LAMBDA acc, i : acc + v[i] * 2^(i - 1), 0, v)
ToInt(v)      == ToNat(v) - v[Len(v)] * 2^Len(v)
NumOf(v, sgn) == IF sgn THEN ToInt(v) ELSE ToNat(v)

\* SVInt::resize and extend: truncate, or repeat the sign (zero when unsigned).
Resize(v, w, sgn) ==
    IF w <= Len(v) THEN SubSeq(v, 1, w)
    ELSE v \o [i \in 1..(w - Len(v)) |-> IF sgn THEN Last(v) ELSE 0]

NotBit(b)    == IF b = Unknown THEN Unknown ELSE 1 - b
AndBit(a, b) == IF a = 0 \/ b = 0 THEN 0 ELSE IF a = 1 /\ b = 1 THEN 1 ELSE Unknown
OrBit(a, b)  == NotBit(AndBit(NotBit(a), NotBit(b)))
XorBit(a, b) == IF Unknown \in {a, b} THEN Unknown ELSE (a + b) % 2

Not(v) == [i \in DOMAIN v |-> NotBit(v[i])]
Reduce(Op(_, _), v) == FoldLeft(Op, v[1], Tail(v))
Truth(v) == Reduce(OrBit, v)

\* Both operands at the wider width; signed only when both are.
WidthOf(a, b) == IF Len(a) >= Len(b) THEN Len(a) ELSE Len(b)
Bitwise(Op(_, _), a, b, sgn) ==
    LET w == WidthOf(a, b)
        l == Resize(a, w, sgn)
        r == Resize(b, w, sgn)
    IN  [i \in 1..w |-> Op(l[i], r[i])]

\* Division truncates towards zero; % takes the sign of the dividend.
Abs(n)       == IF n < 0 THEN -n ELSE n
Sign(n)      == IF n < 0 THEN -1 ELSE 1
Quotient(a, b) == Sign(a) * Sign(b) * (Abs(a) \div Abs(b))

Arith(kind, a, b, sgn) ==
    LET w == WidthOf(a, b)
        x == NumOf(Resize(a, w, sgn), sgn)
        y == NumOf(Resize(b, w, sgn), sgn)
    IN  IF ~(Known(a) /\ Known(b)) \/ (kind \in {"kDiv", "kMod"} /\ y = 0) THEN AllX(w)
        ELSE FromNat((CASE kind = "kAdd" -> x + y
                        [] kind = "kSub" -> x - y
                        [] kind = "kMul" -> x * y
                        [] kind = "kDiv" -> Quotient(x, y)
                        [] kind = "kMod" -> x - y * Quotient(x, y)) % 2^w, w)

Compare(kind, a, b, sgn) ==
    LET w == WidthOf(a, b)
        x == NumOf(Resize(a, w, sgn), sgn)
        y == NumOf(Resize(b, w, sgn), sgn)
    IN  IF ~(Known(a) /\ Known(b)) THEN AllX(1)
        ELSE Bool(CASE kind = "kEq" -> x = y
                    [] kind = "kNe" -> x # y
                    [] kind = "kLt" -> x < y
                    [] kind = "kLe" -> x <= y
                    [] kind = "kGt" -> x > y
                    [] kind = "kGe" -> x >= y)

\* caseXWildcardEqual: an unknown bit of either side matches anything.
WildcardEq(a, b, sgn) ==
    LET w == WidthOf(a, b)
    IN  \A i \in 1..w : LET l == Resize(a, w, sgn)[i]
                            r == Resize(b, w, sgn)[i]
                        IN  l = r \/ Unknown \in {l, r}

\* Shifts by an unknown amount are unknown; the filler is the sign for >>>.
ShiftLeft(v, amount) ==
    IF ~Known(amount) THEN AllX(Len(v))
    ELSE [i \in DOMAIN v |-> IF i > ToNat(amount) THEN v[i - ToNat(amount)] ELSE 0]
ShiftRight(v, amount, filler) ==
    IF ~Known(amount) THEN AllX(Len(v))
    ELSE [i \in DOMAIN v |-> IF i + ToNat(amount) <= Len(v) THEN v[i + ToNat(amount)] ELSE filler]

\* SVInt::conditional: an unknown condition keeps the bits both arms agree on.
Conditional(c, a, b, sgn) ==
    LET w == WidthOf(a, b)
        l == Resize(a, w, sgn)
        r == Resize(b, w, sgn)
    IN  CASE Truth(c) = 1 -> l
          [] Truth(c) = 0 -> r
          [] OTHER -> [i \in 1..w |-> IF l[i] = r[i] THEN l[i] ELSE Unknown]

\* A value is refined by another that keeps every bit it knows.
RefinesBits(new, old) ==
    Len(new) = Len(old) /\ \A i \in DOMAIN old : old[i] # Unknown => new[i] = old[i]
=============================================================================
