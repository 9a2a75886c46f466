------------------------------- MODULE FoldRule ------------------------------
(***************************************************************************)
(* Induction over a fold.  The passes walk their lists with FoldLeft; what *)
(* holds before the first element, and of every step if it held before it, *)
(* holds at the end.  An instance of this module names the step and the    *)
(* invariant: Op(c, d, e, acc, x) is one step, with c, d, e what it reads  *)
(* beside the accumulator acc and the element x, and P(c, d, e, i, acc) is *)
(* what holds after the first i elements.                                  *)
(***************************************************************************)
EXTENDS Integers, TLAPS

CONSTANTS Op(_, _, _, _, _), P(_, _, _, _, _)

\* FoldLeft from base over s, its definition over sets of positions written out.
Last(S) == CHOOSE x \in S : \A y \in S : x >= y
Folded(c, d, e, base, s) ==
  LET iter[S \in SUBSET DOMAIN s] ==
        IF S = {} THEN base ELSE LET i == Last(S) IN Op(c, d, e, iter[S \ {i}], s[i])
  IN  iter[DOMAIN s]

(* The fold is a function of the sets of positions already taken.            *)
Taken(c, d, e, base, s, g, S) ==
  IF S = {} THEN base ELSE Op(c, d, e, g[S \ {Last(S)}], s[Last(S)])
IsIter(c, d, e, base, s, D, g) == g = [S \in SUBSET D |-> Taken(c, d, e, base, s, g, S)]
Iter(c, d, e, base, s, D) == CHOOSE g : IsIter(c, d, e, base, s, D, g)

LEMMA FoldedIsIter ==
  ASSUME NEW c, NEW d, NEW e, NEW base, NEW s
  PROVE  Folded(c, d, e, base, s) = Iter(c, d, e, base, s, DOMAIN s)[DOMAIN s]
  BY DEF Folded, Iter, IsIter, Taken

LEMMA LastOfPrefix ==
  ASSUME NEW n \in Nat, n # 0, NEW S, S \subseteq 1..n, n \in S
  PROVE  Last(S) = n
<1>1. \A y \in S : n >= y
  OBVIOUS
<1>2. \A x \in S : (\A y \in S : x >= y) => x = n
  OBVIOUS
<1> QED BY <1>1, <1>2 DEF Last

(* Every nonempty set of naturals has a least element.  Whoever uses the     *)
(* rule cites the proof, LeastNatural: it rests on the library of finite     *)
(* sets, and an instance of this module would copy all of that.              *)
LeastNumber == \A S \in SUBSET Nat : S # {} => \E m \in S : \A k \in S : m <= k

(* The function of the fold exists on the subsets of every 1..n.             *)
LEMMA IterExists ==
  ASSUME NEW c, NEW d, NEW e, NEW base, NEW s, NEW n \in Nat, LeastNumber
  PROVE  \E g : IsIter(c, d, e, base, s, 1..n, g)
<1> DEFINE Ok(m) == \E g : IsIter(c, d, e, base, s, 1..m, g)
           Bad == {m \in Nat : ~Ok(m)}
<1> HIDE DEF Ok
<1> SUFFICES ASSUME Bad # {} PROVE FALSE
  BY DEF Ok
<1>1. PICK m \in Bad : \A k \in Bad : m <= k
  <2>1. Bad \in SUBSET Nat /\ Bad # {}
    OBVIOUS
  <2> HIDE DEF Bad
  <2> QED BY <2>1 DEF LeastNumber
<1>2. m # 0
  <2> DEFINE g == [S \in SUBSET {} |-> base]
  <2>1. 1..0 = {}
    OBVIOUS
  <2>2. g = [S \in SUBSET {} |-> Taken(c, d, e, base, s, g, S)]
    BY DEF Taken
  <2>3. IsIter(c, d, e, base, s, 1..0, g)
    BY <2>1, <2>2 DEF IsIter
  <2> QED BY <1>1, <2>3 DEF Ok
<1>3. m \in Nat /\ m - 1 \in Nat /\ Ok(m - 1)
  BY <1>1, <1>2
<1>4. PICK g : IsIter(c, d, e, base, s, 1..(m - 1), g)
  BY <1>3 DEF Ok
<1> DEFINE A == SUBSET (1..(m - 1))
           B == SUBSET (1..m)
           h == [S \in B |-> IF m \in S THEN Op(c, d, e, g[S \ {m}], s[m]) ELSE g[S]]
           h2 == [S \in B |-> Taken(c, d, e, base, s, h, S)]
<1>5. \A S \in B : (m \in S => S \ {m} \in A /\ S \ {m} \in B) /\ (m \notin S => S \in A)
  BY <1>3
<1>6. \A S \in A : S \in B /\ m \notin S
  BY <1>3
<1>7. ASSUME NEW S \in B
      PROVE  h[S] = Taken(c, d, e, base, s, h, S)
  <2>1. CASE m \in S
    <3>1. Last(S) = m
      BY <1>3, <1>2, <2>1, LastOfPrefix
    <3>2. h[S \ {m}] = g[S \ {m}] /\ h[S] = Op(c, d, e, g[S \ {m}], s[m])
      BY <1>5, <2>1
    <3> HIDE DEF h
    <3> QED BY <2>1, <3>1, <3>2 DEF Taken
  <2>2. CASE m \notin S
    <3>1. S \in A /\ h[S] = g[S]
      BY <1>5, <2>2
    <3>2. g[S] = Taken(c, d, e, base, s, g, S)
      BY <1>4, <3>1 DEF IsIter
    <3>3. S \ {Last(S)} \in A
      BY <3>1
    <3>4. h[S \ {Last(S)}] = g[S \ {Last(S)}]
      BY <1>6, <3>3
    <3> HIDE DEF h
    <3> QED BY <3>1, <3>2, <3>4 DEF Taken
  <2> QED BY <2>1, <2>2
<1>8. h = h2
  <2> HIDE DEF A
  <2>1. \A S \in B : h[S] = h2[S]
    BY <1>7
  <2>2. DOMAIN h = B /\ DOMAIN h2 = B
    OBVIOUS
  <2>3. h = [S \in DOMAIN h |-> h[S]] /\ h2 = [S \in DOMAIN h2 |-> h2[S]]
    OBVIOUS
  <2> HIDE DEF h, h2
  <2> QED BY <2>1, <2>2, <2>3
<1>9. IsIter(c, d, e, base, s, 1..m, h)
  BY <1>8 DEF IsIter
<1> HIDE DEF h
<1>10. Ok(m)
  BY <1>9 DEF Ok
<1> QED BY <1>1, <1>10

(* What holds before the first element, and of a step if it held before it,  *)
(* holds of the fold.                                                        *)
THEOREM Fold ==
  ASSUME NEW c, NEW d, NEW e, NEW base, NEW n \in Nat, NEW s, DOMAIN s = 1..n,
         \A S \in SUBSET Nat : S # {} => \E m \in S : \A k \in S : m <= k,
         P(c, d, e, 0, base),
         \A i \in 1..n : \A acc : P(c, d, e, i - 1, acc) => P(c, d, e, i, Op(c, d, e, acc, s[i]))
  PROVE  P(c, d, e, n, Folded(c, d, e, base, s))
<1> DEFINE g == Iter(c, d, e, base, s, 1..n)
           Bad == {k \in 0..n : ~P(c, d, e, k, g[1..k])}
<1>1. g = [S \in SUBSET (1..n) |-> Taken(c, d, e, base, s, g, S)]
  <2>0. LeastNumber
    BY DEF LeastNumber
  <2>1. IsIter(c, d, e, base, s, 1..n, g)
    BY <2>0, IterExists DEF Iter
  <2> QED BY <2>1 DEF IsIter
<1> HIDE DEF g
<1>2. \A k \in 0..n : g[1..k] = Taken(c, d, e, base, s, g, 1..k)
  <2>1. \A k \in 0..n : 1..k \in SUBSET (1..n)
    OBVIOUS
  <2> QED BY <1>1, <2>1
<1>3. ASSUME Bad # {} PROVE FALSE
  <2>1. PICK k \in Bad : \A j \in Bad : k <= j
    <3>1. Bad \in SUBSET Nat
      OBVIOUS
    <3> HIDE DEF Bad
    <3> QED BY <1>3, <3>1
  <2>2. k # 0
    <3>1. 1..0 = {} /\ 0 \in 0..n
      OBVIOUS
    <3>2. g[1..0] = base
      BY <1>2, <3>1 DEF Taken
    <3> QED BY <2>1, <3>2
  <2>3. k \in 1..n /\ k - 1 \in 0..n /\ k - 1 \notin Bad
    BY <2>1, <2>2
  <2>4. P(c, d, e, k - 1, g[1..(k - 1)])
    BY <2>3
  <2>5. g[1..k] = Op(c, d, e, g[1..(k - 1)], s[k])
    <3>1. Last(1..k) = k /\ 1..k # {}
      <4>1. k \in Nat /\ k # 0 /\ k \in 1..k /\ 1..k \subseteq 1..k
        BY <2>3
      <4> QED BY <4>1, LastOfPrefix
    <3>2. (1..k) \ {k} = 1..(k - 1)
      BY <2>3
    <3>3. g[1..k] = Taken(c, d, e, base, s, g, 1..k)
      BY <1>2, <2>3
    <3> DEFINE K == 1..k
    <3>4. g[K] = Taken(c, d, e, base, s, g, K) /\ Last(K) = k /\ K # {} /\ K \ {k} = 1..(k - 1)
      BY <3>1, <3>2, <3>3
    <3> HIDE DEF K
    <3>5. g[K] = Op(c, d, e, g[1..(k - 1)], s[k])
      BY <3>4 DEF Taken
    <3> QED BY <3>5 DEF K
  <2>6. P(c, d, e, k, g[1..k])
    BY <2>3, <2>4, <2>5
  <2> QED BY <2>1, <2>6
<1>4. P(c, d, e, n, g[1..n])
  BY <1>3
<1> QED BY <1>4, FoldedIsIter DEF g
=============================================================================
