-------------------------- MODULE PhaseWorkers_proofs --------------------------
(* Proofs about the package that emitImpl makes of a top graph, for any       *)
(* graph, and about the phase workers of the generated simulator, for any     *)
(* number of workers, any lists of functions and any number of steps.         *)
EXTENDS PhaseWorkers, FiniteSetTheorems, WellFoundedInduction, TLAPS

-------------------------------------------------------------------------------
(* Induction. The library's induction theorems take an operator as parameter  *)
(* and cannot be used here; that a set of naturals has a least element says   *)
(* the same of sets. It comes from the lexicographic order of bit vectors:    *)
(* n is the vector that starts with n ones.                                   *)

Bits == {0, 1}
Below == {<<0, 1>>}
LEMMA BitsWF == IsWellFoundedOn(Below, Bits)
<1> SUFFICES ASSUME NEW f \in [Nat -> Bits], \A n \in Nat : <<f[n + 1], f[n]>> \in Below PROVE FALSE
  BY DEF IsWellFoundedOn
<1>1. <<f[0 + 1], f[0]>> \in Below /\ <<f[1 + 1], f[1]>> \in Below
  OBVIOUS
<1> QED BY <1>1 DEF Below

LEMMA LeastUpTo ==
  ASSUME NEW n \in Nat, NEW S \in SUBSET (0..n), S # {}
  PROVE  \E m \in S : \A k \in S : ~(k < m)
<1> DEFINE v(k) == [i \in 1..n |-> IF i <= k THEN 1 ELSE 0]
           V == [1..n -> Bits]
           T == {v(k) : k \in S}
           L == LexProductOrdering(Below, Bits, n)
<1>1. IsWellFoundedOn(L, V)
  BY BitsWF, WFLexProductOrdering
<1>2. T \subseteq V /\ T # {}
  BY DEF Bits
<1> HIDE DEF L, V
<1>3. \E x \in T : \A y \in T : <<y, x>> \notin L
  BY <1>1, <1>2, WFMin
<1>4. PICK m \in S : \A k \in S : <<v(k), v(m)>> \notin L
  BY <1>3
<1>5. ASSUME NEW k \in S, k < m PROVE <<v(k), v(m)>> \in L
  <2>1. k + 1 \in 1..n /\ m \in 0..n /\ k \in 0..n
    BY <1>5
  <2>2. v(k) \in V /\ v(m) \in V
    BY <1>2
  <2>3. v(k)[k+1] = 0 /\ v(m)[k+1] = 1 
    BY <2>1, <1>5
  <2>4. \A j \in 1..k : v(k)[j] = v(m)[j]
    BY <2>1, <1>5
  <2>5. <<v(k)[k+1], v(m)[k+1]>> \in Below
    BY <2>3 DEF Below
  <2>6. \A j \in 1..((k + 1) - 1) : v(k)[j] = v(m)[j]
    <3>1. (k + 1) - 1 = k
      BY <2>1
    <3> HIDE DEF v
    <3> QED BY <2>4, <3>1
  <2> HIDE DEF v
  <2>7. ASSUME NEW a \in V, NEW b \in V, NEW j \in 1..n,
               \A i \in 1..(j - 1) : a[i] = b[i], <<a[j], b[j]>> \in Below
        PROVE  <<a, b>> \in L
    <3> DEFINE ff == <<a, b>>
    <3>1. ff \in V \X V /\ ff[1] = a /\ ff[2] = b
      OBVIOUS
    <3> HIDE DEF ff
    <3>2. ff \in L
      BY <2>7, <3>1 DEF L, LexProductOrdering, V
    <3> QED BY <3>2 DEF ff
  <2> QED BY <2>1, <2>2, <2>5, <2>6, <2>7
<1> QED BY <1>4, <1>5

(* Every nonempty set of naturals has a least element.                       *)
LEMMA LeastNatural ==
  ASSUME NEW S \in SUBSET Nat, S # {}
  PROVE  \E m \in S : \A k \in S : m <= k
<1> PICK n \in S : TRUE
  OBVIOUS
<1> DEFINE T == S \cap 0..n
<1>1. n \in T /\ T \in SUBSET (0..n)
  OBVIOUS
<1>2. PICK m \in T : \A k \in T : ~(k < m)
  BY <1>1, LeastUpTo
<1> QED BY <1>2

-------------------------------------------------------------------------------
(* The walk from a value back to its source.                                  *)

Defines(op, w) == \E i \in 1..Len(op.res) : op.res[i] = w
Assigned(top, w) == \E op \in OpsOf(top, "assign") : Defines(op, w)
AssignTo(top, w) == CHOOSE op \in OpsOf(top, "assign") : Defines(op, w)
Before(top, w) == IF Assigned(top, w) THEN AssignTo(top, w).args[1] ELSE w
Back(top, v) ==
  CHOOSE back : back = [k \in 0..Len(top.ops) |-> IF k = 0 THEN v ELSE Before(top, back[k - 1])]
DefiningOp(top, root) == CHOOSE o \in Elements(top.ops) : Defines(o, root)
PositionIn(op, root) == CHOOSE i \in 1..Len(op.res) : op.res[i] = root
RootDriver(top, root) ==
  IF root \in top.inputs THEN TopDriver(root)
  ELSE IF DefiningOp(top, root).kind = "const" THEN ConstDriver(root)
  ELSE UnitDriver(DefiningOp(top, root).name, PositionIn(DefiningOp(top, root), root))
After(top) ==
  CHOOSE after : after =
    [k \in 0..Cardinality(Aliases(top)) |->
       IF k = 0 THEN DirectDrivers(top) ELSE AliasPass(top, after[k - 1])]

LEMMA SourceIsRoot ==
  ASSUME NEW top, NEW v
  PROVE  Source(top, v) = RootDriver(top, Back(top, v)[Len(top.ops)])
  BY DEF Source, RootDriver, DefiningOp, PositionIn, Back, Before, AssignTo, Assigned, Defines

LEMMA DriversAreAfter ==
  ASSUME NEW top
  PROVE  Drivers(top) = After(top)[Cardinality(Aliases(top))]
  BY DEF Drivers, After

LEMMA AfterExists ==
  ASSUME NEW top, NEW n \in Nat
  PROVE  \E g : g = [k \in 0..n |-> IF k = 0 THEN DirectDrivers(top) ELSE AliasPass(top, g[k - 1])]
<1> DEFINE Ok(m) ==
             \E g : g = [k \in 0..m |-> IF k = 0 THEN DirectDrivers(top) ELSE AliasPass(top, g[k - 1])]
           Bad == {m \in Nat : ~Ok(m)}
<1> SUFFICES ASSUME Bad # {} PROVE FALSE
  OBVIOUS
<1>1. PICK m \in Bad : \A k \in Bad : m <= k
  BY LeastNatural
<1>2. m # 0
  <2> DEFINE g == [k \in 0..0 |-> DirectDrivers(top)]
  <2>1. g = [k \in 0..0 |-> IF k = 0 THEN DirectDrivers(top) ELSE AliasPass(top, g[k - 1])]
    OBVIOUS
  <2> HIDE DEF g
  <2>2. Ok(0)
    BY <2>1
  <2> QED BY <1>1, <2>2
<1>3. m - 1 \in Nat /\ Ok(m - 1)
  <2> HIDE DEF Ok
  <2> QED BY <1>1, <1>2
<1>4. PICK g : g = [k \in 0..(m - 1) |-> IF k = 0 THEN DirectDrivers(top) ELSE AliasPass(top, g[k - 1])]
  BY <1>3
<1> DEFINE h == [k \in 0..m |-> IF k = m THEN AliasPass(top, g[m - 1]) ELSE g[k]]
<1> HIDE DEF Bad
<1>5. m \in Nat
  BY <1>1, <1>2 DEF Bad
<1>6. ASSUME NEW k \in 0..m
      PROVE  h[k] = IF k = 0 THEN DirectDrivers(top) ELSE AliasPass(top, h[k - 1])
  <2>1. CASE k = m
    <3>1. h[k] = AliasPass(top, g[m - 1]) /\ m - 1 \in 0..m /\ m - 1 # m
      BY <1>2, <1>3, <2>1
    <3>2. h[k - 1] = g[m - 1]
      BY <2>1, <3>1
    <3> QED BY <1>2, <2>1, <3>1, <3>2
  <2>2. CASE k # m
    <3>1. k \in 0..(m - 1) /\ h[k] = g[k]
      BY <1>5, <2>2
    <3>2. CASE k = 0
      BY <1>4, <3>1, <3>2
    <3>3. CASE k # 0
      <4>1. k - 1 \in 0..m /\ k - 1 # m
        BY <1>5, <3>1, <3>3
      <4>2. h[k - 1] = g[k - 1]
        BY <4>1
      <4>3. g[k] = AliasPass(top, g[k - 1])
        BY <1>4, <3>1, <3>3
      <4> QED BY <3>1, <3>3, <4>2, <4>3
    <3> QED BY <3>2, <3>3
  <2> QED BY <2>1, <2>2
<1>7. DOMAIN h = 0..m
  OBVIOUS
<1> DEFINE h2 == [k \in 0..m |-> IF k = 0 THEN DirectDrivers(top) ELSE AliasPass(top, h[k - 1])]
<1>8. h = h2
  <2>1. \A k \in 0..m : h[k] = h2[k]
    BY <1>6
  <2>2. DOMAIN h2 = 0..m
    OBVIOUS
  <2>3. h = [k \in DOMAIN h |-> h[k]] /\ h2 = [k \in DOMAIN h2 |-> h2[k]]
    OBVIOUS
  <2> HIDE DEF h, h2
  <2> QED BY <1>7, <2>1, <2>2, <2>3
<1> HIDE DEF h
<1>9. Ok(m)
  BY <1>8
<1> QED BY <1>1, <1>9 DEF Bad

LEMMA BackExists ==
  ASSUME NEW top, NEW v, NEW n \in Nat
  PROVE  \E g : g = [k \in 0..n |-> IF k = 0 THEN v ELSE Before(top, g[k - 1])]
<1> DEFINE Ok(m) ==
             \E g : g = [k \in 0..m |-> IF k = 0 THEN v ELSE Before(top, g[k - 1])]
           Bad == {m \in Nat : ~Ok(m)}
<1> SUFFICES ASSUME Bad # {} PROVE FALSE
  OBVIOUS
<1>1. PICK m \in Bad : \A k \in Bad : m <= k
  BY LeastNatural
<1>2. m # 0
  <2> DEFINE g == [k \in 0..0 |-> v]
  <2>1. g = [k \in 0..0 |-> IF k = 0 THEN v ELSE Before(top, g[k - 1])]
    OBVIOUS
  <2> HIDE DEF g
  <2>2. Ok(0)
    BY <2>1
  <2> QED BY <1>1, <2>2
<1>3. m - 1 \in Nat /\ Ok(m - 1)
  <2> HIDE DEF Ok
  <2> QED BY <1>1, <1>2
<1>4. PICK g : g = [k \in 0..(m - 1) |-> IF k = 0 THEN v ELSE Before(top, g[k - 1])]
  BY <1>3
<1> DEFINE h == [k \in 0..m |-> IF k = m THEN Before(top, g[m - 1]) ELSE g[k]]
<1> HIDE DEF Bad
<1>5. m \in Nat
  BY <1>1, <1>2 DEF Bad
<1>6. ASSUME NEW k \in 0..m
      PROVE  h[k] = IF k = 0 THEN v ELSE Before(top, h[k - 1])
  <2>1. CASE k = m
    <3>1. h[k] = Before(top, g[m - 1]) /\ m - 1 \in 0..m /\ m - 1 # m
      BY <1>2, <1>3, <2>1
    <3>2. h[k - 1] = g[m - 1]
      BY <2>1, <3>1
    <3> QED BY <1>2, <2>1, <3>1, <3>2
  <2>2. CASE k # m
    <3>1. k \in 0..(m - 1) /\ h[k] = g[k]
      BY <1>5, <2>2
    <3>2. CASE k = 0
      BY <1>4, <3>1, <3>2
    <3>3. CASE k # 0
      <4>1. k - 1 \in 0..m /\ k - 1 # m
        BY <1>5, <3>1, <3>3
      <4>2. h[k - 1] = g[k - 1]
        BY <4>1
      <4>3. g[k] = Before(top, g[k - 1])
        BY <1>4, <3>1, <3>3
      <4> QED BY <3>1, <3>3, <4>2, <4>3
    <3> QED BY <3>2, <3>3
  <2> QED BY <2>1, <2>2
<1>7. DOMAIN h = 0..m
  OBVIOUS
<1> DEFINE h2 == [k \in 0..m |-> IF k = 0 THEN v ELSE Before(top, h[k - 1])]
<1>8. h = h2
  <2>1. \A k \in 0..m : h[k] = h2[k]
    BY <1>6
  <2>2. DOMAIN h2 = 0..m
    OBVIOUS
  <2>3. h = [k \in DOMAIN h |-> h[k]] /\ h2 = [k \in DOMAIN h2 |-> h2[k]]
    OBVIOUS
  <2> HIDE DEF h, h2
  <2> QED BY <1>7, <2>1, <2>2, <2>3
<1> HIDE DEF h
<1>9. Ok(m)
  BY <1>8
<1> QED BY <1>1, <1>9 DEF Bad

LEMMA AfterSteps ==
  ASSUME NEW top, Cardinality(Aliases(top)) \in Nat
  PROVE  /\ After(top)[0] = DirectDrivers(top)
         /\ \A k \in 1..Cardinality(Aliases(top)) :
              After(top)[k] = AliasPass(top, After(top)[k - 1])
<1> DEFINE n == Cardinality(Aliases(top))
           a == After(top)
<1>1. a = [k \in 0..n |-> IF k = 0 THEN DirectDrivers(top) ELSE AliasPass(top, a[k - 1])]
  BY AfterExists DEF After
<1> HIDE DEF n, a
<1>2. n \in Nat
  BY DEF n
<1>3. a[0] = DirectDrivers(top) /\ \A k \in 1..n : a[k] = AliasPass(top, a[k - 1])
  BY <1>1, <1>2
<1> QED BY <1>3 DEF n, a

LEMMA BackSteps ==
  ASSUME NEW top, NEW v, Len(top.ops) \in Nat
  PROVE  /\ Back(top, v)[0] = v
         /\ \A k \in 1..Len(top.ops) : Back(top, v)[k] = Before(top, Back(top, v)[k - 1])
<1> DEFINE n == Len(top.ops)
           b == Back(top, v)
<1>1. b = [k \in 0..n |-> IF k = 0 THEN v ELSE Before(top, b[k - 1])]
  BY BackExists DEF Back
<1> HIDE DEF n, b
<1>2. n \in Nat
  BY DEF n
<1>3. b[0] = v /\ \A k \in 1..n : b[k] = Before(top, b[k - 1])
  BY <1>1, <1>2
<1> QED BY <1>3 DEF n, b

(* What a direct driver drives is no copy of another value, and the netlist   *)
(* names the same driver.                                                     *)
LEMMA OneDefinition ==
  ASSUME NEW top, WellFormedTop(top), NEW o \in Elements(top.ops), NEW i \in 1..Len(o.res)
  PROVE  /\ o.res[i] \notin top.inputs
         /\ DefiningOp(top, o.res[i]) = o
         /\ PositionIn(o, o.res[i]) = i
         /\ Assigned(top, o.res[i]) <=> o.kind = "assign"
<1> DEFINE v == o.res[i]
<1>1. v \notin top.inputs
  BY DEF WellFormedTop
<1>2. ASSUME NEW p \in Elements(top.ops), Defines(p, v) PROVE p = o
  BY <1>2 DEF WellFormedTop, Defines
<1>3. Defines(o, v)
  BY DEF Defines
<1>4. \A j \in 1..Len(o.res) : o.res[j] = v => j = i
  BY DEF WellFormedTop
<1> HIDE DEF v
<1>5. DefiningOp(top, v) = o
  BY <1>2, <1>3 DEF DefiningOp
<1>6. Assigned(top, v) <=> o.kind = "assign"
  BY <1>2, <1>3 DEF Assigned, OpsOf
<1>7. PositionIn(o, v) = i
  <2>1. o.res[i] = v
    BY DEF v
  <2> QED BY <1>4, <2>1 DEF PositionIn
<1> QED BY <1>1, <1>5, <1>6, <1>7 DEF v

LEMMA DirectIsRoot ==
  ASSUME NEW top, WellFormedTop(top), NEW v \in DOMAIN DirectDrivers(top),
         \A op \in Instances(top) : op.outs <= Len(op.res)
  PROVE  ~Assigned(top, v) /\ DirectDrivers(top)[v] = RootDriver(top, v)
<1> DEFINE results == UNION {{[v |-> op.res[i], d |-> UnitDriver(op.name, i)] : i \in 1..op.outs} :
                               op \in Instances(top)}
           consts  == {[v |-> op.res[1], d |-> ConstDriver(op.res[1])] :
                         op \in {o \in OpsOf(top, "const") : o.res # <<>>}}
           driven  == {r.v : r \in results}
           fixed   == {c.v : c \in consts}
<1>1. /\ v \in driven \cup fixed \cup top.inputs
      /\ DirectDrivers(top)[v] =
           IF v \in driven THEN (CHOOSE r \in results : r.v = v).d
           ELSE IF v \in top.inputs THEN TopDriver(v)
           ELSE ConstDriver(v)
  BY DEF DirectDrivers
<1>2. ASSUME NEW r \in results, r.v = v
      PROVE  v \notin top.inputs /\ ~Assigned(top, v) /\ r.d = RootDriver(top, v)
  <2>0. PICK op \in Instances(top) :
          \E i \in 1..op.outs : r = [v |-> op.res[i], d |-> UnitDriver(op.name, i)]
    BY <1>2
  <2>1. PICK i \in 1..op.outs : r = [v |-> op.res[i], d |-> UnitDriver(op.name, i)]
    BY <2>0
  <2>2. op \in Elements(top.ops) /\ op.kind = "instance" /\ i \in 1..Len(op.res)
    BY <2>1 DEF Instances, OpsOf, WellFormedTop
  <2>3. v = op.res[i] /\ r.d = UnitDriver(op.name, i)
    BY <1>2, <2>1
  <2> QED BY <2>2, <2>3, OneDefinition DEF RootDriver
<1>3. CASE v \in driven
  <2>1. \E r \in results : r.v = v
    BY <1>3
  <2> QED BY <1>1, <1>2, <1>3, <2>1
<1>4. CASE v \in fixed /\ v \notin driven
  <2>1. PICK op \in OpsOf(top, "const") : op.res # <<>> /\ v = op.res[1]
    BY <1>4
  <2>2. op \in Elements(top.ops) /\ op.kind = "const" /\ 1 \in 1..Len(op.res)
    BY <2>1 DEF OpsOf, WellFormedTop
  <2> HIDE DEF driven, fixed, results, consts
  <2>3. v \notin top.inputs /\ ~Assigned(top, v) /\ RootDriver(top, v) = ConstDriver(v)
    BY <2>1, <2>2, OneDefinition DEF RootDriver
  <2> QED BY <1>1, <1>4, <2>3
<1>5. CASE v \in top.inputs /\ v \notin driven
  <2>1. ~Assigned(top, v)
    BY <1>5 DEF Assigned, OpsOf, Defines, WellFormedTop
  <2> QED BY <1>1, <1>5, <2>1 DEF RootDriver
<1> QED BY <1>1, <1>3, <1>4, <1>5

LEMMA BeforeAlias ==
  ASSUME NEW top, WellFormedTop(top), NEW a \in Aliases(top)
  PROVE  Before(top, a.dst) = a.src
<1>1. PICK o \in OpsOf(top, "assign") :
        Len(o.res) = 1 /\ a = [src |-> o.args[1], dst |-> o.res[1]]
  BY DEF Aliases
<1>2. o \in Elements(top.ops) /\ o.kind = "assign" /\ 1 \in 1..Len(o.res)
  BY <1>1 DEF OpsOf
<1>3. Assigned(top, a.dst)
  BY <1>1, <1>2, OneDefinition
<1>4. \A p \in OpsOf(top, "assign") : Defines(p, a.dst) <=> p = o
  BY <1>1, <1>2 DEF OpsOf, Defines, WellFormedTop
<1>5. AssignTo(top, a.dst) = o
  BY <1>1, <1>4 DEF AssignTo
<1> QED BY <1>1, <1>3, <1>5 DEF Before

(* Walking back from a copy is walking back from what it copies.              *)
LEMMA WalkShifts ==
  ASSUME NEW top, Len(top.ops) \in Nat, NEW v
  PROVE  \A j \in 0..(Len(top.ops) - 1) : Back(top, v)[j + 1] = Back(top, Before(top, v))[j]
<1> DEFINE n == Len(top.ops)
           b == Back(top, v)
           c == Back(top, Before(top, v))
           Bad == {j \in Nat : j < n /\ b[j + 1] # c[j]}
<1>1. b[0] = v /\ \A k \in 1..n : b[k] = Before(top, b[k - 1])
  BY BackSteps
<1>2. c[0] = Before(top, v) /\ \A k \in 1..n : c[k] = Before(top, c[k - 1])
  BY BackSteps
<1>3. n \in Nat
  OBVIOUS
<1> HIDE DEF n, b, c
<1>4. ASSUME Bad # {} PROVE FALSE
  <2>1. PICK m \in Bad : \A k \in Bad : m <= k
    BY <1>4, LeastNatural
  <2>2. m \in Nat /\ m < n /\ b[m + 1] # c[m]
    OBVIOUS
  <2>3. b[m + 1] = Before(top, b[m])
    <3>1. m + 1 \in 1..n /\ (m + 1) - 1 = m
      BY <1>3, <2>2
    <3> QED BY <1>1, <3>1
  <2>4. CASE m = 0
    BY <1>1, <1>2, <2>2, <2>3, <2>4
  <2>5. CASE m # 0
    <3>1. m - 1 \in Nat /\ m - 1 \notin Bad /\ m - 1 < n /\ (m - 1) + 1 = m /\ m \in 1..n
      BY <1>3, <2>1, <2>2, <2>5
    <3>2. b[m] = c[m - 1]
      BY <3>1
    <3>3. c[m] = Before(top, c[m - 1])
      BY <1>2, <3>1
    <3> QED BY <2>2, <2>3, <3>2, <3>3
  <2> QED BY <2>4, <2>5
<1>5. \A j \in 0..(n - 1) : b[j + 1] = c[j]
  <2>1. \A j \in 0..(n - 1) : j \in Nat /\ j < n /\ j \notin Bad
    BY <1>3, <1>4
  <2> QED BY <2>1
<1> QED BY <1>5 DEF n, b, c

(* The walk ends at a value that is no copy.                                  *)
LEMMA WalkStays ==
  ASSUME NEW top, Len(top.ops) \in Nat, NEW v, NEW j \in 0..Len(top.ops),
         ~Assigned(top, Back(top, v)[j])
  PROVE  Back(top, v)[Len(top.ops)] = Back(top, v)[j]
<1> DEFINE n == Len(top.ops)
           b == Back(top, v)
           Bad == {k \in Nat : j <= k /\ k <= n /\ b[k] # b[j]}
<1>1. \A k \in 1..n : b[k] = Before(top, b[k - 1])
  BY BackSteps
<1>2. n \in Nat /\ j \in 0..n /\ ~Assigned(top, b[j])
  OBVIOUS
<1> HIDE DEF n, b
<1>3. ASSUME Bad # {} PROVE FALSE
  <2>1. PICK m \in Bad : \A k \in Bad : m <= k
    BY <1>3, LeastNatural
  <2>2. m \in Nat /\ j <= m /\ m <= n /\ b[m] # b[j]
    OBVIOUS
  <2>3. m # j
    BY <2>2
  <2>4. m - 1 \in Nat /\ j <= m - 1 /\ m - 1 <= n /\ m - 1 \notin Bad /\ m \in 1..n
    BY <1>2, <2>1, <2>2, <2>3
  <2>5. b[m - 1] = b[j]
    BY <2>4
  <2>6. b[m] = b[j]
    BY <1>1, <1>2, <2>4, <2>5 DEF Before
  <2> QED BY <2>2, <2>6
<1>4. b[n] = b[j]
  <2>1. n \notin Bad /\ j <= n
    BY <1>2, <1>3
  <2> QED BY <1>2, <2>1
<1> QED BY <1>4 DEF n, b

(* There are at most as many copies as operations.                            *)
LEMMA FewAliases ==
  ASSUME NEW top, WellFormedTop(top)
  PROVE  Cardinality(Aliases(top)) \in Nat /\ Cardinality(Aliases(top)) <= Len(top.ops)
<1> DEFINE A == Aliases(top)
           n == Len(top.ops)
           I == {i \in 1..n : top.ops[i].kind = "assign" /\ Len(top.ops[i].args) = 1
                              /\ Len(top.ops[i].res) = 1}
           f == [i \in I |-> [src |-> top.ops[i].args[1], dst |-> top.ops[i].res[1]]]
<1>1. n \in Nat
  BY DEF WellFormedTop
<1>2. IsFiniteSet(I) /\ Cardinality(I) \in Nat /\ Cardinality(I) <= n
  <2>1. IsFiniteSet(1..n) /\ Cardinality(1..n) = n
    BY <1>1, FS_Interval
  <2>2. I \in SUBSET (1..n)
    OBVIOUS
  <2> HIDE DEF I, n
  <2>3. IsFiniteSet(I) /\ Cardinality(I) <= Cardinality(1..n)
    BY <2>1, <2>2, FS_Subset
  <2> QED BY <2>1, <2>3, FS_CardinalityType
<1>3. f \in Surjection(I, A)
  <2>1. \A i \in I : f[i] \in A
    BY DEF Aliases, OpsOf, Elements
  <2>2. \A a \in A : \E i \in I : f[i] = a
    BY DEF Aliases, OpsOf, Elements
  <2>3. f = [i \in I |-> f[i]]
    OBVIOUS
  <2> HIDE DEF A, I, f
  <2> QED BY <2>1, <2>2, <2>3 DEF Surjection
<1> HIDE DEF A, I, f, n
<1>4. IsFiniteSet(A) /\ Cardinality(A) <= Cardinality(I)
  BY <1>2, <1>3, FS_Surjection
<1>5. Cardinality(A) \in Nat
  BY <1>4, FS_CardinalityType
<1>6. Cardinality(A) <= n
  BY <1>1, <1>2, <1>4, <1>5
<1> QED BY <1>5, <1>6 DEF A, n

Ready(top, d) == {a \in Aliases(top) : a.src \in DOMAIN d /\ a.dst \notin DOMAIN d}
AliasFor(top, d, v) == CHOOSE a \in Ready(top, d) : a.dst = v

LEMMA AliasPassAt ==
  ASSUME NEW top, NEW d, NEW v \in DOMAIN AliasPass(top, d), v \notin DOMAIN d
  PROVE  \E x \in Aliases(top) :
           x.src \in DOMAIN d /\ x.dst = v /\ AliasPass(top, d)[v] = d[x.src]
<1>1. AliasPass(top, d) =
        [w \in DOMAIN d \cup {a.dst : a \in Ready(top, d)} |->
           IF w \in DOMAIN d THEN d[w] ELSE d[AliasFor(top, d, w).src]]
  BY DEF AliasPass, Ready, AliasFor
<1>2. AliasFor(top, d, v) \in Ready(top, d) /\ AliasFor(top, d, v).dst = v
  <2>1. \E a \in Ready(top, d) : a.dst = v
    BY <1>1
  <2> QED BY <2>1 DEF AliasFor
<1>3. AliasPass(top, d)[v] = d[AliasFor(top, d, v).src]
  BY <1>1
<1> QED BY <1>2, <1>3 DEF Ready

(* After k passes a value has a driver only if k steps of the walk reach its  *)
(* source, and the driver is the source's.                                    *)
LEMMA PassesFollowTheWalk ==
  ASSUME NEW top, WellFormedTop(top)
  PROVE  \A v \in DOMAIN Drivers(top) :
           \E j \in 0..Len(top.ops) : /\ Back(top, v)[j] \in DOMAIN DirectDrivers(top)
                                     /\ Drivers(top)[v] = DirectDrivers(top)[Back(top, v)[j]]
<1> DEFINE n == Cardinality(Aliases(top))
           a == After(top)
           Reached(v, k) == \E j \in 0..k : /\ Back(top, v)[j] \in DOMAIN a[0]
                                            /\ a[k][v] = a[0][Back(top, v)[j]]
           Ok(k) == \A v \in DOMAIN a[k] : Reached(v, k)
           Bad == {k \in Nat : k <= n /\ ~Ok(k)}
<1>1. n \in Nat /\ n <= Len(top.ops) /\ Len(top.ops) \in Nat
  BY FewAliases DEF WellFormedTop
<1>2. a[0] = DirectDrivers(top) /\ \A k \in 1..n : a[k] = AliasPass(top, a[k - 1])
  BY <1>1, AfterSteps
<1> HIDE DEF n, a
<1>3. Ok(0)
  <2> SUFFICES ASSUME NEW v \in DOMAIN a[0] PROVE Reached(v, 0)
    OBVIOUS
  <2>1. Back(top, v)[0] = v
    BY <1>1, BackSteps
  <2> QED BY <2>1
<1>4. ASSUME NEW k \in 1..n, Ok(k - 1) PROVE Ok(k)
  <2> SUFFICES ASSUME NEW v \in DOMAIN a[k] PROVE Reached(v, k)
    OBVIOUS
  <2> DEFINE d == a[k - 1]
  <2>1. a[k] = AliasPass(top, d)
    BY <1>2
  <2>2. k \in Nat /\ k - 1 \in Nat /\ k <= Len(top.ops)
    BY <1>1
  <2>3. CASE v \in DOMAIN d
    <3>1. PICK j \in 0..(k - 1) : /\ Back(top, v)[j] \in DOMAIN a[0]
                                  /\ d[v] = a[0][Back(top, v)[j]]
      BY <1>4, <2>3
    <3>2. j \in 0..k
      BY <2>2
    <3>3. a[k][v] = d[v]
      BY <2>1, <2>3 DEF AliasPass
    <3> QED BY <3>1, <3>2, <3>3
  <2>4. CASE v \notin DOMAIN d
    <3>1. PICK x \in Aliases(top) : x.src \in DOMAIN d /\ x.dst = v /\ a[k][v] = d[x.src]
      BY <2>1, <2>4, AliasPassAt
    <3>4. Before(top, v) = x.src
      BY <3>1, BeforeAlias
    <3>5. PICK j \in 0..(k - 1) : /\ Back(top, x.src)[j] \in DOMAIN a[0]
                                  /\ d[x.src] = a[0][Back(top, x.src)[j]]
      BY <1>4, <3>1
    <3>6. j \in 0..(Len(top.ops) - 1) /\ j + 1 \in 0..k
      BY <1>1, <2>2
    <3>7. Back(top, v)[j + 1] = Back(top, x.src)[j]
      <4>1. Back(top, v)[j + 1] = Back(top, Before(top, v))[j]
        BY <1>1, <3>6, WalkShifts
      <4> QED BY <3>4, <4>1
    <3> HIDE DEF d
    <3> QED BY <3>1, <3>5, <3>6, <3>7
  <2> QED BY <2>3, <2>4
<1> HIDE DEF Ok
<1>5. ASSUME Bad # {} PROVE FALSE
  <2>1. PICK m \in Bad : \A k \in Bad : m <= k
    BY <1>5, LeastNatural
  <2>2. m \in Nat /\ m <= n /\ ~Ok(m) /\ m # 0
    BY <1>3
  <2>3. m \in 1..n /\ m - 1 \in Nat /\ m - 1 <= n /\ m - 1 \notin Bad
    BY <1>1, <2>1, <2>2
  <2>4. Ok(m - 1)
    BY <2>3
  <2> QED BY <1>4, <2>2, <2>3, <2>4
<1>6. Ok(n)
  <2>1. n \notin Bad /\ n <= n
    BY <1>1, <1>5
  <2> QED BY <1>1, <2>1
<1>7. Drivers(top) = a[n]
  BY DriversAreAfter DEF a, n
<1>8. 0..n \subseteq 0..Len(top.ops)
  BY <1>1
<1> QED BY <1>2, <1>6, <1>7, <1>8 DEF Ok

(* emitImpl resolves the assigns in passes from the drivers forward; what it  *)
(* finds is what the definitions say from the value backwards.                *)
THEOREM DriversAreSources ==
  ASSUME NEW top, WellFormedTop(top), ~Refused(top), NEW v \in DOMAIN Drivers(top)
  PROVE  Drivers(top)[v] = Source(top, v)
<1>1. \A op \in Instances(top) : op.outs <= Len(op.res)
  <2> SUFFICES ASSUME NEW op \in Instances(top) PROVE op.outs <= Len(op.res)
    OBVIOUS
  <2>1. ~(Len(op.res) < op.outs)
    BY DEF Refused
  <2>2. op.outs \in Nat /\ Len(op.res) \in Nat
    BY DEF WellFormedTop, Instances, OpsOf
  <2> QED BY <2>1, <2>2
<1>2. PICK j \in 0..Len(top.ops) : /\ Back(top, v)[j] \in DOMAIN DirectDrivers(top)
                                   /\ Drivers(top)[v] = DirectDrivers(top)[Back(top, v)[j]]
  BY PassesFollowTheWalk
<1>5. /\ ~Assigned(top, Back(top, v)[j])
      /\ Drivers(top)[v] = RootDriver(top, Back(top, v)[j])
  BY <1>1, <1>2, DirectIsRoot
<1>3. Len(top.ops) \in Nat
  BY DEF WellFormedTop
<1>4. Back(top, v)[Len(top.ops)] = Back(top, v)[j]
  BY <1>3, <1>5, WalkStays
<1> QED BY <1>4, <1>5, SourceIsRoot

(* Every slot of an emitted package is driven by what the netlist says.       *)
THEOREM EmittedDriversAreFaithful ==
  ASSUME NEW top, WellFormedTop(top), ~Refused(top)
  PROVE  DriversFaithful(Emit(top))
<1> DEFINE p == Emit(top)
<1>1. /\ p.graph = top
      /\ p.from = [s \in UnitSlots(top) \cup PortSlots(top) |-> Drivers(top)[Wire(top, s)]]
  BY DEF Emit
<1>2. ASSUME NEW s \in UnitSlots(top) \cup PortSlots(top)
      PROVE  Wire(top, s) \in DOMAIN Drivers(top)
  BY DEF Refused
<1>3. ASSUME NEW s \in DOMAIN p.from
      PROVE  /\ p.from[s] = Source(top, Wire(top, s))
             /\ p.from[s].kind \in {"top", "const", "unit"}
  <2>1. p.from[s] = Drivers(top)[Wire(top, s)] /\ Wire(top, s) \in DOMAIN Drivers(top)
    BY <1>1, <1>2
  <2>2. p.from[s] = Source(top, Wire(top, s))
    BY <2>1, DriversAreSources
  <2>3. p.from[s] = RootDriver(top, Back(top, Wire(top, s))[Len(top.ops)])
    BY <2>2, SourceIsRoot
  <2> HIDE DEF p
  <2>4. p.from[s].kind \in {"top", "const", "unit"}
    BY <2>3 DEF RootDriver, TopDriver, ConstDriver, UnitDriver, Driver
  <2> QED BY <2>2, <2>4
<1>4. ASSUME NEW s \in PortSlots(top) PROVE p.from[s].kind = "unit"
  <2>1. Drivers(top)[Wire(top, s)].kind = "unit"
    BY DEF Refused
  <2> QED BY <1>1, <2>1
<1> HIDE DEF p
<1>5. DOMAIN p.from = UnitSlots(top) \cup PortSlots(top)
  BY <1>1
<1>6. DriversFaithful(p)
  BY <1>1, <1>3, <1>4, <1>5 DEF DriversFaithful
<1> QED BY <1>6 DEF p

-------------------------------------------------------------------------------
(* The lists of functions.                                                    *)

KeepOne(s, S, t, i) == IF i \in S THEN Append(t, s[i]) ELSE t
KeptUpTo(s, S) ==
  CHOOSE kept : kept =
    [i \in 0..Len(s) |-> IF i = 0 THEN <<>> ELSE KeepOne(s, S, kept[i - 1], i)]

LEMMA KeptIsLast ==
  ASSUME NEW s, NEW S
  PROVE  Kept(s, S) = KeptUpTo(s, S)[Len(s)]
  BY DEF Kept, KeptUpTo, KeepOne

(* t holds the elements of s at the positions of S up to i, each once: g says *)
(* which one is where.                                                        *)
PicksBy(g, t, s, S, i) ==
  /\ g \in [1..Len(t) -> S \cap 1..i]
  /\ \A a \in 1..Len(t) : t[a] = s[g[a]]
  /\ \A a, b \in 1..Len(t) : g[a] = g[b] => a = b
  /\ \A k \in S \cap 1..i : \E a \in 1..Len(t) : g[a] = k
Picks(t, s, S, i) == t \in Seq(Elements(s)) /\ \E g : PicksBy(g, t, s, S, i)

LEMMA PicksNothing ==
  ASSUME NEW s, NEW S
  PROVE  Picks(<<>>, s, S, 0)
<1> DEFINE g == [a \in 1..0 |-> 0]
<1>1. Len(<<>>) = 0 /\ <<>> \in Seq(Elements(s))
  OBVIOUS
<1>2. g \in [1..0 -> S \cap 1..0]
  OBVIOUS
<1>3. PicksBy(g, <<>>, s, S, 0)
  <2> HIDE DEF g
  <2> QED BY <1>1, <1>2 DEF PicksBy
<1> QED BY <1>1, <1>3 DEF Picks

LEMMA PicksOne ==
  ASSUME NEW s, NEW S, NEW t, NEW i \in Nat, i + 1 \in 1..Len(s), i + 1 \in S, Picks(t, s, S, i)
  PROVE  Picks(Append(t, s[i + 1]), s, S, i + 1)
<1> DEFINE u == Append(t, s[i + 1])
           n == Len(t)
<1>1. PICK g :
        /\ g \in [1..n -> S \cap 1..i]
        /\ \A a \in 1..n : t[a] = s[g[a]]
        /\ \A a, b \in 1..n : g[a] = g[b] => a = b
        /\ \A k \in S \cap 1..i : \E a \in 1..n : g[a] = k
  BY DEF Picks, PicksBy
<1>2. s[i + 1] \in Elements(s) /\ t \in Seq(Elements(s)) /\ n \in Nat
  BY DEF Picks, Elements
<1>3. /\ u \in Seq(Elements(s)) /\ Len(u) = n + 1 /\ u[n + 1] = s[i + 1]
      /\ \A a \in 1..n : u[a] = t[a]
  BY <1>2
<1> DEFINE h == [a \in 1..(n + 1) |-> IF a = n + 1 THEN i + 1 ELSE g[a]]
<1> HIDE DEF u, n
<1>4. \A a \in 1..(n + 1) : a = n + 1 \/ a \in 1..n
  BY <1>2
<1>5. h[n + 1] = i + 1 /\ (\A a \in 1..n : h[a] = g[a] /\ h[a] \in S \cap 1..i)
  BY <1>1, <1>2
<1>6. h \in [1..(n + 1) -> S \cap 1..(i + 1)]
  <2>1. \A a \in 1..(n + 1) : h[a] \in S \cap 1..(i + 1)
    BY <1>4, <1>5
  <2>2. h = [a \in 1..(n + 1) |-> h[a]]
    OBVIOUS
  <2> HIDE DEF h
  <2> QED BY <2>1, <2>2
<1> HIDE DEF h
<1>7. i + 1 \notin 1..i
  OBVIOUS
<1>8. \A a \in 1..(n + 1) : u[a] = s[h[a]]
  BY <1>1, <1>3, <1>4, <1>5
<1>9. \A a, b \in 1..(n + 1) : h[a] = h[b] => a = b
  BY <1>1, <1>4, <1>5, <1>7
<1>10. \A k \in S \cap 1..(i + 1) : \E a \in 1..(n + 1) : h[a] = k
  <2> SUFFICES ASSUME NEW k \in S \cap 1..(i + 1) PROVE \E a \in 1..(n + 1) : h[a] = k
    OBVIOUS
  <2>1. k = i + 1 \/ k \in S \cap 1..i
    OBVIOUS
  <2>2. n + 1 \in 1..(n + 1) /\ 1..n \subseteq 1..(n + 1)
    BY <1>2
  <2> QED BY <1>1, <1>5, <2>1, <2>2
<1>11. Picks(u, s, S, i + 1)
  <2>1. PicksBy(h, u, s, S, i + 1)
    BY <1>3, <1>6, <1>8, <1>9, <1>10 DEF PicksBy
  <2> QED BY <1>3, <2>1 DEF Picks
<1> QED BY <1>11 DEF u

LEMMA PicksNoMore ==
  ASSUME NEW s, NEW S, NEW t, NEW i \in Nat, i + 1 \notin S, Picks(t, s, S, i)
  PROVE  Picks(t, s, S, i + 1)
<1>1. S \cap 1..(i + 1) = S \cap 1..i
  OBVIOUS
<1> QED BY <1>1 DEF Picks, PicksBy

LEMMA KeptExists ==
  ASSUME NEW s, NEW S, NEW n \in Nat
  PROVE  \E g : g = [k \in 0..n |-> IF k = 0 THEN <<>> ELSE KeepOne(s, S, g[k - 1], k)]
<1> DEFINE Ok(m) ==
             \E g : g = [k \in 0..m |-> IF k = 0 THEN <<>> ELSE KeepOne(s, S, g[k - 1], k)]
           Bad == {m \in Nat : ~Ok(m)}
<1> SUFFICES ASSUME Bad # {} PROVE FALSE
  OBVIOUS
<1>1. PICK m \in Bad : \A k \in Bad : m <= k
  BY LeastNatural
<1>2. m # 0
  <2> DEFINE g == [k \in 0..0 |-> <<>>]
  <2>1. g = [k \in 0..0 |-> IF k = 0 THEN <<>> ELSE KeepOne(s, S, g[k - 1], k)]
    OBVIOUS
  <2> HIDE DEF g
  <2>2. Ok(0)
    BY <2>1
  <2> QED BY <1>1, <2>2
<1>3. m - 1 \in Nat /\ Ok(m - 1)
  <2> HIDE DEF Ok
  <2> QED BY <1>1, <1>2
<1>4. PICK g : g = [k \in 0..(m - 1) |-> IF k = 0 THEN <<>> ELSE KeepOne(s, S, g[k - 1], k)]
  BY <1>3
<1> DEFINE h == [k \in 0..m |-> IF k = m THEN KeepOne(s, S, g[m - 1], m) ELSE g[k]]
<1> HIDE DEF Bad
<1>5. m \in Nat
  BY <1>1, <1>2 DEF Bad
<1>6. ASSUME NEW k \in 0..m
      PROVE  h[k] = IF k = 0 THEN <<>> ELSE KeepOne(s, S, h[k - 1], k)
  <2>1. CASE k = m
    <3>1. h[k] = KeepOne(s, S, g[m - 1], m) /\ m - 1 \in 0..m /\ m - 1 # m
      BY <1>2, <1>3, <2>1
    <3>2. h[k - 1] = g[m - 1]
      BY <2>1, <3>1
    <3> QED BY <1>2, <2>1, <3>1, <3>2
  <2>2. CASE k # m
    <3>1. k \in 0..(m - 1) /\ h[k] = g[k]
      BY <1>5, <2>2
    <3>2. CASE k = 0
      BY <1>4, <3>1, <3>2
    <3>3. CASE k # 0
      <4>1. k - 1 \in 0..m /\ k - 1 # m
        BY <1>5, <3>1, <3>3
      <4>2. h[k - 1] = g[k - 1]
        BY <4>1
      <4>3. g[k] = KeepOne(s, S, g[k - 1], k)
        BY <1>4, <3>1, <3>3
      <4> QED BY <3>1, <3>3, <4>2, <4>3
    <3> QED BY <3>2, <3>3
  <2> QED BY <2>1, <2>2
<1>7. DOMAIN h = 0..m
  OBVIOUS
<1> DEFINE h2 == [k \in 0..m |-> IF k = 0 THEN <<>> ELSE KeepOne(s, S, h[k - 1], k)]
<1>8. h = h2
  <2>1. \A k \in 0..m : h[k] = h2[k]
    BY <1>6
  <2>2. DOMAIN h2 = 0..m
    OBVIOUS
  <2>3. h = [k \in DOMAIN h |-> h[k]] /\ h2 = [k \in DOMAIN h2 |-> h2[k]]
    OBVIOUS
  <2> HIDE DEF h, h2
  <2> QED BY <1>7, <2>1, <2>2, <2>3
<1> HIDE DEF h
<1>9. Ok(m)
  BY <1>8
<1> QED BY <1>1, <1>9 DEF Bad

(* Kept is the elements at these positions, each once.                        *)
LEMMA KeptPicks ==
  ASSUME NEW s, Len(s) \in Nat, NEW S
  PROVE  Picks(Kept(s, S), s, S, Len(s))
<1> DEFINE n == Len(s)
           k == KeptUpTo(s, S)
           Bad == {i \in Nat : i <= n /\ ~Picks(k[i], s, S, i)}
<1>1. k = [i \in 0..n |-> IF i = 0 THEN <<>> ELSE KeepOne(s, S, k[i - 1], i)]
  BY KeptExists DEF KeptUpTo
<1>2. n \in Nat
  OBVIOUS
<1> HIDE DEF k
<1>3. k[0] = <<>> /\ \A i \in 1..n : k[i] = KeepOne(s, S, k[i - 1], i)
  BY <1>1, <1>2
<1>4. ASSUME Bad # {} PROVE FALSE
  <2>1. PICK m \in Bad : \A i \in Bad : m <= i
    BY <1>4, LeastNatural
  <2>2. m \in Nat /\ m <= n /\ ~Picks(k[m], s, S, m)
    OBVIOUS
  <2>3. m # 0
    BY <1>3, <2>2, PicksNothing
  <2> DEFINE i == m - 1
  <2>4. i \in Nat /\ i <= n /\ i + 1 = m /\ i \notin Bad /\ m \in 1..n
    BY <1>2, <2>1, <2>2, <2>3
  <2>5. Picks(k[i], s, S, i)
    BY <2>4
  <2>6. k[m] = KeepOne(s, S, k[i], m)
    BY <1>3, <2>4
  <2> HIDE DEF i
  <2>7. CASE m \in S
    <3>1. Picks(Append(k[i], s[i + 1]), s, S, i + 1)
      BY <2>4, <2>5, <2>7, PicksOne
    <3> QED BY <2>2, <2>4, <2>6, <2>7, <3>1 DEF KeepOne
  <2>8. CASE m \notin S
    <3>1. Picks(k[i], s, S, i + 1)
      BY <2>4, <2>5, <2>8, PicksNoMore
    <3> QED BY <2>2, <2>4, <2>6, <2>8, <3>1 DEF KeepOne
  <2> QED BY <2>7, <2>8
<1>5. Picks(k[n], s, S, n)
  <2>1. n \notin Bad /\ n <= n
    BY <1>2, <1>4
  <2> QED BY <1>2, <2>1
<1> QED BY <1>5, KeptIsLast DEF k

LEMMA KeptElements ==
  ASSUME NEW s, Len(s) \in Nat, NEW S
  PROVE  /\ Kept(s, S) \in Seq(Elements(s))
         /\ \A i \in S \cap 1..Len(s) : s[i] \in Elements(Kept(s, S))
         /\ \A a \in 1..Len(Kept(s, S)) : \E i \in S \cap 1..Len(s) : Kept(s, S)[a] = s[i]
<1> DEFINE t == Kept(s, S)
<1>1. Picks(t, s, S, Len(s))
  BY KeptPicks
<1> HIDE DEF t
<1>2. t \in Seq(Elements(s))
  BY <1>1 DEF Picks
<1>3. PICK g : PicksBy(g, t, s, S, Len(s))
  BY <1>1 DEF Picks
<1>4. ASSUME NEW i \in S \cap 1..Len(s) PROVE s[i] \in Elements(t)
  BY <1>3 DEF PicksBy, Elements
<1>5. ASSUME NEW a \in 1..Len(t) PROVE \E i \in S \cap 1..Len(s) : t[a] = s[i]
  BY <1>3 DEF PicksBy
<1> QED BY <1>2, <1>4, <1>5 DEF t

\* x and y do not come from two positions.
OnePlace(s, S, x, y) == \A i, j \in S \cap 1..Len(s) : x = s[i] /\ y = s[j] => i = j

(* Elements told apart by their positions stay so.                            *)
LEMMA KeptApart ==
  ASSUME NEW s, Len(s) \in Nat, NEW S, NEW a \in 1..Len(Kept(s, S)), NEW b \in 1..Len(Kept(s, S)),
         OnePlace(s, S, Kept(s, S)[a], Kept(s, S)[b])
  PROVE  a = b
<1> DEFINE t == Kept(s, S)
<1>1. Picks(t, s, S, Len(s))
  BY KeptPicks
<1>2. PICK g : PicksBy(g, t, s, S, Len(s))
  BY <1>1 DEF Picks
<1> HIDE DEF t
<1>3. a \in 1..Len(t) /\ b \in 1..Len(t)
  BY DEF t
<1>4. /\ g[a] \in S \cap 1..Len(s) /\ g[b] \in S \cap 1..Len(s)
      /\ t[a] = s[g[a]] /\ t[b] = s[g[b]] /\ (g[a] = g[b] => a = b)
  BY <1>2, <1>3 DEF PicksBy
<1>5. \A i, j \in S \cap 1..Len(s) : t[a] = s[i] /\ t[b] = s[j] => i = j
  BY DEF t, OnePlace
<1> QED BY <1>4, <1>5

UnitNames(top) == {op.name : op \in Instances(top)}

LEMMA EvalOrderIsAllUnits ==
  ASSUME NEW top, WellFormedTop(top), ~Refused(top)
  PROVE  /\ EvalOrder(top) \in Seq(Elements(EvalOrder(top)))
         /\ Elements(EvalOrder(top)) = UnitNames(top)
         /\ \A a, b \in 1..Len(EvalOrder(top)) : EvalOrder(top)[a] = EvalOrder(top)[b] => a = b
<1> DEFINE ops == top.ops
           S == {i \in 1..Len(ops) : ops[i].kind = "instance"}
           t == Kept(ops, S)
           e == EvalOrder(top)
<1>1. e = [i \in 1..Len(t) |-> t[i].name]
  BY DEF EvalOrder
<1>2. Len(ops) \in Nat
  BY DEF WellFormedTop
<1>3. S \cap 1..Len(ops) = S
  OBVIOUS
<1>4. /\ t \in Seq(Elements(ops))
      /\ \A i \in S : ops[i] \in Elements(t)
      /\ \A a \in 1..Len(t) : \E i \in S : t[a] = ops[i]
  <2> HIDE DEF S
  <2> QED BY <1>2, <1>3, KeptElements
<1>5. \A i, j \in S : ops[i].name = ops[j].name => i = j
  BY DEF Refused
<1>6. \A i \in S : ops[i] \in Instances(top)
  BY DEF Instances, OpsOf, Elements
<1>7. \A op \in Instances(top) : \E i \in S : op = ops[i]
  BY DEF Instances, OpsOf, Elements
<1>8. ASSUME NEW a \in 1..Len(t), NEW b \in 1..Len(t), t[a].name = t[b].name PROVE a = b
  <2>1. \A i, j \in S : t[a] = ops[i] /\ t[b] = ops[j] => i = j
    BY <1>5, <1>8
  <2>2. OnePlace(ops, S, Kept(ops, S)[a], Kept(ops, S)[b])
    BY <2>1 DEF OnePlace
  <2>3. a \in 1..Len(Kept(ops, S)) /\ b \in 1..Len(Kept(ops, S))
    OBVIOUS
  <2> HIDE DEF S, ops, t, e
  <2> QED BY <1>2, <2>2, <2>3, KeptApart
<1> HIDE DEF t, S, e, ops
<1>9. Len(t) \in Nat
  BY <1>4
<1>10. e \in Seq(Elements(e)) /\ Len(e) = Len(t) /\ \A a \in 1..Len(t) : e[a] = t[a].name
  BY <1>1, <1>9 DEF Elements
<1>11. ASSUME NEW u \in Elements(e) PROVE u \in UnitNames(top)
  <2>1. PICK a \in 1..Len(t) : u = t[a].name
    BY <1>10 DEF Elements
  <2>2. PICK i \in S : t[a] = ops[i]
    BY <1>4
  <2> QED BY <1>6, <2>1, <2>2 DEF UnitNames
<1>12. ASSUME NEW u \in UnitNames(top) PROVE u \in Elements(e)
  <2>1. PICK op \in Instances(top) : u = op.name
    BY DEF UnitNames
  <2>2. PICK i \in S : op = ops[i]
    BY <1>7
  <2>3. PICK a \in 1..Len(t) : ops[i] = t[a]
    BY <1>4 DEF Elements
  <2> QED BY <1>10, <2>1, <2>2, <2>3 DEF Elements
<1>13. Elements(e) = UnitNames(top)
  BY <1>11, <1>12
<1> QED BY <1>8, <1>10, <1>13 DEF e

(* A part of a list without duplicates has none.                              *)
LEMMA PartOfList ==
  ASSUME NEW s, s \in Seq(Elements(s)), NEW S,
         \A a, b \in 1..Len(s) : s[a] = s[b] => a = b
  PROVE  /\ Kept(s, S) \in Seq(Elements(s))
         /\ \A a, b \in 1..Len(Kept(s, S)) : Kept(s, S)[a] = Kept(s, S)[b] => a = b
<1>1. Len(s) \in Nat
  OBVIOUS
<1>2. Kept(s, S) \in Seq(Elements(s))
  BY <1>1, KeptElements
<1>3. ASSUME NEW a \in 1..Len(Kept(s, S)), NEW b \in 1..Len(Kept(s, S)),
             Kept(s, S)[a] = Kept(s, S)[b]
      PROVE  a = b
  <2>1. OnePlace(s, S, Kept(s, S)[a], Kept(s, S)[b])
    BY <1>3 DEF OnePlace
  <2> QED BY <1>1, <2>1, KeptApart
<1> QED BY <1>2, <1>3

LEMMA EmittedIsOrderly ==
  ASSUME NEW top, WellFormedTop(top)
  PROVE  Orderly(Emit(top))
<1>1. CASE Refused(top)
  <2>1. Emit(top).loads = <<>> /\ Emit(top).evals = <<>> /\ Emit(top).updates = <<>>
    BY <1>1 DEF Emit, NoPackage
  <2>3. ASSUME NEW p, p.loads = <<>>, p.evals = <<>>, p.updates = <<>> PROVE Orderly(p)
    <3>1. ASSUME NEW o \in {p.loads, p.evals, p.updates}
          PROVE  o \in Seq(Elements(p.evals)) /\ \A i, j \in 1..Len(o) : o[i] = o[j] => i = j
      <4>1. o = <<>> /\ Len(<<>>) = 0 /\ \A T : <<>> \in Seq(T)
        BY <2>3
      <4>2. Len(o) = 0 /\ o \in Seq(Elements(p.evals))
        <5>1. Len(o) = 0
          BY <4>1
        <5>2. o \in Seq(Elements(p.evals))
          BY <4>1
        <5> QED BY <5>1, <5>2
      <4>3. 1..Len(o) = {}
        BY <4>2
      <4> QED BY <4>2, <4>3
    <3> QED BY <3>1 DEF Orderly
  <2> QED BY <2>1, <2>3
<1>2. CASE ~Refused(top)
  <2> DEFINE e == EvalOrder(top)
             from == [s \in UnitSlots(top) \cup PortSlots(top) |-> Drivers(top)[Wire(top, s)]]
             l == LoadOrder(top, from)
             u == UpdateOrder(top, from)
  <2>1. Emit(top).loads = l /\ Emit(top).evals = e /\ Emit(top).updates = u
    BY <1>2 DEF Emit
  <2>2. e \in Seq(Elements(e)) /\ \A a, b \in 1..Len(e) : e[a] = e[b] => a = b
    BY <1>2, EvalOrderIsAllUnits
  <2>3. \E S : l = Kept(e, S)
    BY DEF LoadOrder
  <2>4. \E S : u = Kept(e, S)
    BY DEF UpdateOrder
  <2> HIDE DEF e, l, u
  <2>5. l \in Seq(Elements(e)) /\ \A a, b \in 1..Len(l) : l[a] = l[b] => a = b
    BY <2>2, <2>3, PartOfList
  <2>6. u \in Seq(Elements(e)) /\ \A a, b \in 1..Len(u) : u[a] = u[b] => a = b
    BY <2>2, <2>4, PartOfList
  <2> QED BY <2>1, <2>2, <2>5, <2>6 DEF Orderly
<1> QED BY <1>1, <1>2

LEMMA UnitDriversAreUnits ==
  ASSUME NEW top, WellFormedTop(top), NEW v \in DOMAIN Drivers(top), Drivers(top)[v].kind = "unit"
  PROVE  Drivers(top)[v].unit \in UnitNames(top)
<1> DEFINE results == UNION {{[v |-> op.res[i], d |-> UnitDriver(op.name, i)] : i \in 1..op.outs} :
                               op \in Instances(top)}
           driven  == {r.v : r \in results}
<1>1. PICK w \in DOMAIN DirectDrivers(top) : Drivers(top)[v] = DirectDrivers(top)[w]
  BY PassesFollowTheWalk
<1>2. DirectDrivers(top)[w] = IF w \in driven THEN (CHOOSE r \in results : r.v = w).d
                              ELSE IF w \in top.inputs THEN TopDriver(w)
                              ELSE ConstDriver(w)
  BY DEF DirectDrivers
<1>3. TopDriver(w).kind = "top" /\ ConstDriver(w).kind = "const"
  BY DEF TopDriver, ConstDriver, Driver
<1>4. w \in driven
  <2> HIDE DEF driven, results
  <2> QED BY <1>1, <1>2, <1>3
<1>5. \E r \in results : r.v = w
  BY <1>4
<1>6. PICK r \in results : DirectDrivers(top)[w] = r.d
  BY <1>2, <1>4, <1>5
<1>7. PICK op \in Instances(top) :
        \E i \in 1..op.outs : r = [v |-> op.res[i], d |-> UnitDriver(op.name, i)]
  OBVIOUS
<1>8. r.d.unit = op.name
  BY <1>7 DEF UnitDriver, Driver
<1> QED BY <1>1, <1>6, <1>8 DEF UnitNames

(* Whatever feeds a slot has its function.                                    *)
LEMMA EmittedListsAreFaithful ==
  ASSUME NEW top, WellFormedTop(top), ~Refused(top)
  PROVE  ListsFaithful(Emit(top))
<1> DEFINE p == Emit(top)
           e == EvalOrder(top)
<1>1. /\ p.graph = top /\ p.evals = e
      /\ p.loads = LoadOrder(top, p.from) /\ p.updates = UpdateOrder(top, p.from)
      /\ p.from = [s \in UnitSlots(top) \cup PortSlots(top) |-> Drivers(top)[Wire(top, s)]]
  BY DEF Emit
<1>2. Len(e) \in Nat /\ Elements(e) = UnitNames(top)
  BY EvalOrderIsAllUnits
<1> HIDE DEF p
<1>3. ASSUME NEW s \in DOMAIN p.from, p.from[s].kind = "top"
      PROVE  s[1] \in Elements(p.loads)
  <2> DEFINE S == {i \in 1..Len(e) : \E r \in DOMAIN p.from : r[1] = e[i] /\ p.from[r].kind = "top"}
  <2>1. p.loads = Kept(e, S)
    BY <1>1 DEF LoadOrder
  <2>2. s \notin PortSlots(top)
    BY <1>1, <1>3 DEF Refused
  <2>3. s \in UnitSlots(top)
    BY <1>1, <2>2
  <2>4. s[1] \in UnitNames(top)
    BY <2>3 DEF UnitSlots, UnitNames
  <2>5. PICK i \in 1..Len(e) : e[i] = s[1]
    BY <1>2, <2>4 DEF Elements
  <2>6. i \in S
    BY <1>3, <2>5
  <2> HIDE DEF S, e
  <2> QED BY <1>2, <2>1, <2>5, <2>6, KeptElements
<1>4. ASSUME NEW s \in DOMAIN p.from, p.from[s].kind = "unit"
      PROVE  p.from[s].unit \in Elements(p.updates)
  <2> DEFINE S == {i \in 1..Len(e) : \E r \in DOMAIN p.from :
                                       p.from[r].kind = "unit" /\ p.from[r].unit = e[i]}
  <2>1. p.updates = Kept(e, S)
    BY <1>1 DEF UpdateOrder
  <2>2. Wire(top, s) \in DOMAIN Drivers(top) /\ p.from[s] = Drivers(top)[Wire(top, s)]
    BY <1>1 DEF Refused
  <2>3. p.from[s].unit \in UnitNames(top)
    BY <1>4, <2>2, UnitDriversAreUnits
  <2>4. PICK i \in 1..Len(e) : e[i] = p.from[s].unit
    BY <1>2, <2>3 DEF Elements
  <2>5. i \in S
    BY <1>4, <2>4
  <2> HIDE DEF S, e
  <2> QED BY <1>2, <2>1, <2>4, <2>5, KeptElements
<1>5. ListsFaithful(p)
  BY <1>3, <1>4 DEF ListsFaithful
<1> QED BY <1>5 DEF p

(* The package that emitImpl makes of a well-formed graph has the netlist's   *)
(* drivers, and a function for whatever has to be filled, each once.          *)
THEOREM EmittedPackagesAreSound ==
  ASSUME NEW top, WellFormedTop(top)
  PROVE  /\ Orderly(Emit(top))
         /\ Emit(top).ok => Faithful(Emit(top))
<1>1. Orderly(Emit(top))
  BY EmittedIsOrderly
<1>2. ASSUME Emit(top).ok PROVE Faithful(Emit(top))
  <2>1. ~Refused(top)
    BY <1>2 DEF Emit, NoPackage
  <2> QED BY <2>1, EmittedDriversAreFaithful, EmittedListsAreFaithful DEF Faithful
<1> QED BY <1>1, <1>2

(* What the proofs below need of the packages.                                *)
LEMMA PackageFacts ==
  ASSUME NEW p \in Packages
  PROVE  /\ p.ok \in BOOLEAN
         /\ Orderly(p)
         /\ \A s \in DOMAIN p.from : s[2] # 0
         /\ p.ok => Faithful(p)
<1> DEFINE top == p.graph
<1>1. WellFormedTop(top) /\ 0 \notin DOMAIN top.outputs /\ p = Emit(top)
  BY PackagesAssumption
<1> HIDE DEF top
<1>2. Orderly(p) /\ (p.ok => Faithful(p))
  BY <1>1, EmittedPackagesAreSound
<1>3. CASE Refused(top)
  <2>1. p.ok = FALSE /\ DOMAIN p.from = {}
    BY <1>1, <1>3 DEF Emit, NoPackage
  <2> QED BY <1>2, <2>1
<1>4. CASE ~Refused(top)
  <2>1. p.ok = TRUE /\ DOMAIN p.from = UnitSlots(top) \cup PortSlots(top)
    BY <1>1, <1>4 DEF Emit
  <2>2. ASSUME NEW s \in UnitSlots(top) PROVE s[2] # 0
    <3>1. PICK op \in Instances(top) : s \in {<<op.name, i>> : i \in 1..op.ins}
      BY DEF UnitSlots
    <3>2. op.ins \in Nat
      BY <1>1 DEF WellFormedTop, Instances, OpsOf
    <3> QED BY <3>1, <3>2
  <2>3. ASSUME NEW s \in PortSlots(top) PROVE s[2] # 0
    BY <1>1 DEF PortSlots
  <2> QED BY <1>2, <2>1, <2>2, <2>3
<1> QED BY <1>3, <1>4


-------------------------------------------------------------------------------
(* The slices of run_phase_batch_.                                            *)

LEMMA ProductMonotone ==
  ASSUME NEW a \in Nat, NEW x \in Nat, NEW y \in Nat, x <= y
  PROVE  a * x \in Nat /\ a * y \in Nat /\ a * x <= a * y
  OBVIOUS

LEMMA DivisionBounds ==
  ASSUME NEW x \in Nat, NEW c \in Nat \ {0}
  PROVE  /\ x \div c \in Nat
         /\ c * (x \div c) <= x
         /\ x < c * (x \div c) + c
  OBVIOUS

\* The quotient is below i exactly when the dividend is below c * i.
LEMMA DivisionBelow ==
  ASSUME NEW x \in Nat, NEW c \in Nat \ {0}, NEW i \in Nat
  PROVE  x \div c < i <=> x < c * i
<1> DEFINE q == x \div c
<1>1. q \in Nat /\ c * q <= x /\ x < c * q + c
  BY DivisionBounds
<1> HIDE DEF q
<1>2. ASSUME q < i PROVE x < c * i
  <2>1. q + 1 \in Nat /\ q + 1 <= i
    BY <1>1, <1>2
  <2>2. c * (q + 1) <= c * i
    BY <2>1, ProductMonotone
  <2>3. c * (q + 1) = c * q + c
    BY <1>1
  <2> QED BY <1>1, <2>2, <2>3, ProductMonotone
<1>3. ASSUME i <= q PROVE c * i <= x
  <2>1. c * i <= c * q
    BY <1>1, <1>3, ProductMonotone
  <2> QED BY <1>1, <2>1, ProductMonotone
<1>4. q < i \/ i <= q
  BY <1>1
<1>5. c * i \in Nat
  BY ProductMonotone
<1>6. q < i <=> x < c * i
  BY <1>1, <1>2, <1>3, <1>4, <1>5
<1> QED BY <1>6 DEF q

LEMMA CutMonotone ==
  ASSUME NEW n \in Nat, NEW c \in Nat \ {0}, NEW v \in Nat, NEW w \in Nat, v <= w
  PROVE  Cut(n, c, v) \in Nat /\ Cut(n, c, w) \in Nat /\ Cut(n, c, v) <= Cut(n, c, w)
<1>1. n * v \in Nat /\ n * w \in Nat /\ n * v <= n * w
  BY ProductMonotone
<1> DEFINE p == (n * v) \div c
           q == (n * w) \div c
<1>2. p \in Nat /\ q \in Nat
  BY <1>1, DivisionBounds
<1>3. p < q + 1 <=> n * v < c * (q + 1)
  BY <1>1, <1>2, DivisionBelow
<1>4. q < q + 1 <=> n * w < c * (q + 1)
  BY <1>1, <1>2, DivisionBelow
<1>5. c * (q + 1) \in Nat
  BY <1>2, ProductMonotone
<1> HIDE DEF p, q
<1>6. p < q + 1
  BY <1>1, <1>2, <1>3, <1>4, <1>5
<1>7. p <= q
  BY <1>2, <1>6
<1> QED BY <1>2, <1>7 DEF Cut, p, q

LEMMA CutEnds ==
  ASSUME NEW n \in Nat, NEW c \in Nat \ {0}
  PROVE  Cut(n, c, 0) = 0 /\ Cut(n, c, c) = n
<1>1. n * 0 = 0 /\ 0 \div c = 0
  OBVIOUS
<1>2. (n * c) \div c = n
  <2>1. n * c \in Nat /\ n * c = c * n
    OBVIOUS
  <2>2. (n * c) \div c < n + 1 <=> n * c < c * (n + 1)
    BY <2>1, DivisionBelow
  <2>3. (n * c) \div c < n <=> n * c < c * n
    BY <2>1, DivisionBelow
  <2>4. (n * c) \div c \in Nat
    BY <2>1, DivisionBounds
  <2>5. c * (n + 1) = c * n + c
    OBVIOUS
  <2> QED BY <2>1, <2>2, <2>3, <2>4, <2>5
<1> QED BY <1>1, <1>2 DEF Cut

LEMMA SlicesCover ==
  ASSUME NEW n \in Nat, NEW c \in Nat \ {0}, NEW i \in 1..n
  PROVE  \E w \in 0..(c - 1) : i \in Cut(n, c, w) + 1 .. Cut(n, c, w + 1)
<1> DEFINE x == c * i - 1
           w == x \div n
<1>1. n \in Nat \ {0} /\ i \in Nat /\ 1 <= i /\ i <= n
  OBVIOUS
<1>2. x \in Nat /\ x < c * n
  <2>1. c * 1 <= c * i /\ c * i <= c * n /\ c * i \in Nat /\ c * n \in Nat
    BY <1>1, ProductMonotone
  <2> QED BY <2>1
<1>3. w \in Nat /\ n * w <= x /\ x < n * w + n
  BY <1>1, <1>2, DivisionBounds
<1>4. w < c
  <2>1. w < c <=> x < n * c
    BY <1>1, <1>2, DivisionBelow
  <2>2. n * c = c * n
    OBVIOUS
  <2> QED BY <1>2, <2>1, <2>2
<1>5. Cut(n, c, w) < i
  <2>1. (n * w) \div c < i <=> n * w < c * i
    BY <1>1, <1>3, DivisionBelow, ProductMonotone
  <2>2. n * w < c * i
    BY <1>1, <1>3, ProductMonotone
  <2> HIDE DEF w
  <2> QED BY <2>1, <2>2 DEF Cut
<1>6. ~(Cut(n, c, w + 1) < i)
  <2>1. (n * (w + 1)) \div c < i <=> n * (w + 1) < c * i
    BY <1>1, <1>3, DivisionBelow, ProductMonotone
  <2>2. n * (w + 1) = n * w + n
    BY <1>3
  <2>3. ~(n * (w + 1) < c * i)
    BY <1>1, <1>3, <2>2, ProductMonotone
  <2> HIDE DEF w
  <2> QED BY <2>1, <2>3 DEF Cut
<1> HIDE DEF w
<1>7. Cut(n, c, w) \in Nat /\ Cut(n, c, w + 1) \in Nat
  <2>1. w \in Nat /\ w + 1 \in Nat /\ w <= w + 1
    BY <1>3
  <2> QED BY <2>1, CutMonotone
<1> QED BY <1>1, <1>3, <1>4, <1>5, <1>6, <1>7

-------------------------------------------------------------------------------
(* The inductive invariant.                                                   *)

MainPlaces == {"construct", "refused", "aborted", "spawn", "idle", "run", "busy", "next", "post",
               "notify", "await", "asleep", "leave", "halt", "haltNotify", "join", "over"}
WorkerPlaces == {"unborn", "wait", "asleep", "run", "busy", "notify", "exited"}

Typed ==
  /\ pkg \in Packages
  /\ count \in 0..MaxCpus
  /\ active \in Phases \cup {"none"}
  /\ hasWork \in [Workers -> BOOLEAN]
  /\ completed \in [Workers -> BOOLEAN]
  /\ stop \in [Workers -> BOOLEAN]
  /\ mpc \in MainPlaces
  /\ mi \in Nat
  /\ wpc \in [Workers -> WorkerPlaces]
  /\ wfns \in [Workers -> Phases \cup {"none"}]
  /\ wi \in [Workers -> Nat]

Crew == 0..(count - 1)
Sharing == {"post", "notify", "await", "asleep", "leave"}
Closing == {"halt", "haltNotify", "join", "over"}

(* Where the main thread is says which list the step is at.                   *)
MainInv ==
  /\ mpc \in Sharing => phase \in {"eval", "update"} /\ active = phase /\ count # 0
  /\ mpc \in {"post", "notify", "await", "asleep", "halt", "haltNotify", "join", "spawn"} =>
       mi \in Crew
  /\ mpc \in {"run", "busy"} => phase \in Phases /\ mi <= Len(Fns(phase))
  /\ mpc = "busy" => mi < Len(Fns(phase))
  /\ mpc = "next" => phase \in Phases
  /\ mpc \in {"idle", "spawn", "aborted"} => phase = "idle"
  /\ mpc \in Closing \cup {"construct", "refused"} => phase = "off"
  /\ mpc = "construct" => step = 0 /\ mi = 0 /\ pkg.ok

(* Main has given worker w its slice and has not seen it completed.           *)
Open(w) ==
  \/ mpc = "post" /\ w < mi
  \/ mpc = "notify" /\ w <= mi
  \/ mpc \in {"await", "asleep"} /\ mi <= w

WorkerInv(w) ==
  /\ wpc[w] \in {"run", "busy"} =>
       /\ w \in Crew /\ Open(w)
       /\ wfns[w] = phase
       /\ ~hasWork[w] /\ ~completed[w]
       /\ SliceBegin(phase, w) <= wi[w] /\ wi[w] <= SliceEnd(phase, w)
  /\ wpc[w] = "busy" => wi[w] < SliceEnd(phase, w)
  /\ hasWork[w] /\ ~stop[w] => w \in Crew /\ Open(w) /\ ~completed[w]
  /\ stop[w] => mpc \in Closing

IInv == Typed /\ MainInv /\ \A w \in Workers : WorkerInv(w)

LEMMA ListsAreFinite ==
  ASSUME pkg \in Packages, NEW p
  PROVE  Len(Fns(p)) \in Nat
<1>1. pkg.loads \in Seq(Elements(pkg.evals)) /\ pkg.evals \in Seq(Elements(pkg.evals))
      /\ pkg.updates \in Seq(Elements(pkg.evals))
  BY PackageFacts DEF Orderly
<1> QED BY <1>1 DEF Fns

LEMMA SliceBounds ==
  ASSUME Typed, count # 0, NEW p, NEW w \in Nat
  PROVE  /\ SliceBegin(p, w) \in Nat /\ SliceEnd(p, w) \in Nat
         /\ SliceBegin(p, w) <= SliceEnd(p, w)
<1>1. Len(Fns(p)) \in Nat /\ count \in Nat \ {0}
  BY ListsAreFinite, HostAssumption DEF Typed
<1>2. w + 1 \in Nat /\ w <= w + 1
  OBVIOUS
<1> QED BY <1>1, <1>2, CutMonotone DEF SliceBegin, SliceEnd

LEMMA SlicesStay ==
  ASSUME UNCHANGED <<pkg, count, phase>>
  PROVE  /\ Fns(phase)' = Fns(phase)
         /\ \A w : SliceBegin(phase, w)' = SliceBegin(phase, w)
         /\ \A w : SliceEnd(phase, w)' = SliceEnd(phase, w)
  BY DEF Fns, SliceBegin, SliceEnd, Cut

-------------------------------------------------------------------------------
(* Invariance.                                                                *)

LEMMA InvInit == Init => IInv
<1> SUFFICES ASSUME Init PROVE IInv
  OBVIOUS
<1> USE DEF Init, MemoryInit
<1>1. Typed
  BY HostAssumption DEF Typed, MainPlaces, WorkerPlaces
<1>2. MainInv
  BY PackageFacts DEF MainInv, Sharing, Closing, Phases
<1>3. ASSUME NEW w \in Workers PROVE WorkerInv(w)
  BY <1>3 DEF WorkerInv
<1> QED BY <1>1, <1>2, <1>3 DEF IInv

LEMMA ConstructKeeps ==
  ASSUME IInv, NEW requested \in Requests, NEW cpus \in 0..MaxCpus, Construct(requested, cpus)
  PROVE  IInv'
<1> USE DEF Construct, memory, flags, worker, main
<1>1. Typed'
  BY HostAssumption DEF IInv, Typed, MainPlaces, WorkerCount, Smaller, Larger, MaxParallelFns
<1>2. MainInv'
  BY <1>1 DEF IInv, Typed, MainInv, Crew, Sharing, Closing, MainPlaces
<1>3. ASSUME NEW w \in Workers PROVE WorkerInv(w)'
  BY <1>3 DEF IInv, Typed, MainInv, WorkerInv, Open, Sharing, Closing
<1> QED BY <1>1, <1>2, <1>3 DEF IInv

LEMMA SpawnKeeps ==
  ASSUME IInv, Spawn
  PROVE  IInv'
<1> USE DEF Spawn, memory, flags, worker, main
<1>0. /\ Fns(phase)' = Fns(phase)
      /\ \A w : SliceBegin(phase, w)' = SliceBegin(phase, w)
      /\ \A w : SliceEnd(phase, w)' = SliceEnd(phase, w)
  BY SlicesStay
<1>1. Typed'
  BY HostAssumption DEF IInv, Typed, MainInv, MainPlaces, WorkerPlaces, Workers, Crew
<1>2. MainInv'
  BY <1>0, <1>1 DEF IInv, Typed, MainInv, Crew, Sharing, Closing, Phases, MainPlaces
<1>3. ASSUME NEW w \in Workers PROVE WorkerInv(w)'
  BY <1>0, <1>1, <1>3 DEF IInv, Typed, MainInv, WorkerInv, Open, Crew, Sharing, Closing, Workers
<1> QED BY <1>1, <1>2, <1>3 DEF IInv

LEMMA StepKeeps ==
  ASSUME IInv, Step
  PROVE  IInv'
<1> USE DEF Step, memory, flags, worker, main
<1>1. Typed'
  BY HostAssumption DEF IInv, Typed, MainInv, MainPlaces, WorkerPlaces, Workers, Crew
<1>2. MainInv'
  BY <1>1 DEF IInv, Typed, MainInv, Crew, Sharing, Closing, Phases, MainPlaces
<1>3. ASSUME NEW w \in Workers PROVE WorkerInv(w)'
  BY <1>1, <1>3 DEF IInv, Typed, MainInv, WorkerInv, Open, Crew, Sharing, Closing, Workers
<1> QED BY <1>1, <1>2, <1>3 DEF IInv

LEMMA HostFnBeginsKeeps ==
  ASSUME IInv, HostFnBegins
  PROVE  IInv'
<1> USE DEF HostFnBegins, memory, flags, worker, main
<1>0. /\ Fns(phase)' = Fns(phase)
      /\ \A w : SliceBegin(phase, w)' = SliceBegin(phase, w)
      /\ \A w : SliceEnd(phase, w)' = SliceEnd(phase, w)
  BY SlicesStay
<1>1. Typed'
  BY HostAssumption DEF IInv, Typed, MainInv, MainPlaces, WorkerPlaces, Workers, Crew
<1>2. MainInv'
  BY <1>0, <1>1 DEF IInv, Typed, MainInv, Crew, Sharing, Closing, Phases, MainPlaces
<1>3. ASSUME NEW w \in Workers PROVE WorkerInv(w)'
  BY <1>0, <1>1, <1>3 DEF IInv, Typed, MainInv, WorkerInv, Open, Crew, Sharing, Closing, Workers
<1> QED BY <1>1, <1>2, <1>3 DEF IInv

LEMMA HostFnEndsKeeps ==
  ASSUME IInv, HostFnEnds
  PROVE  IInv'
<1> USE DEF HostFnEnds, memory, flags, worker, main
<1>0. /\ Fns(phase)' = Fns(phase)
      /\ \A w : SliceBegin(phase, w)' = SliceBegin(phase, w)
      /\ \A w : SliceEnd(phase, w)' = SliceEnd(phase, w)
  BY SlicesStay
<1>1. Typed'
  BY HostAssumption DEF IInv, Typed, MainInv, MainPlaces, WorkerPlaces, Workers, Crew
<1>2. MainInv'
  BY <1>0, <1>1 DEF IInv, Typed, MainInv, Crew, Sharing, Closing, Phases, MainPlaces
<1>3. ASSUME NEW w \in Workers PROVE WorkerInv(w)'
  BY <1>0, <1>1, <1>3 DEF IInv, Typed, MainInv, WorkerInv, Open, Crew, Sharing, Closing, Workers
<1> QED BY <1>1, <1>2, <1>3 DEF IInv

LEMMA HostPhaseEndsKeeps ==
  ASSUME IInv, HostPhaseEnds
  PROVE  IInv'
<1> USE DEF HostPhaseEnds, memory, flags, worker, main
<1>0. /\ Fns(phase)' = Fns(phase)
      /\ \A w : SliceBegin(phase, w)' = SliceBegin(phase, w)
      /\ \A w : SliceEnd(phase, w)' = SliceEnd(phase, w)
  BY SlicesStay
<1>1. Typed'
  BY HostAssumption DEF IInv, Typed, MainInv, MainPlaces, WorkerPlaces, Workers, Crew
<1>2. MainInv'
  BY <1>0, <1>1 DEF IInv, Typed, MainInv, Crew, Sharing, Closing, Phases, MainPlaces
<1>3. ASSUME NEW w \in Workers PROVE WorkerInv(w)'
  BY <1>0, <1>1, <1>3 DEF IInv, Typed, MainInv, WorkerInv, Open, Crew, Sharing, Closing, Workers
<1> QED BY <1>1, <1>2, <1>3 DEF IInv

LEMMA EnterPhaseKeeps ==
  ASSUME IInv, EnterPhase
  PROVE  IInv'
<1> USE DEF EnterPhase, memory, flags, worker, main
<1>1. Typed'
  BY HostAssumption DEF IInv, Typed, MainInv, MainPlaces, WorkerPlaces, Workers, NextPhase, Phases
<1>2. MainInv'
  <2>1. phase \in Phases /\ phase' = NextPhase(phase) /\ pkg' = pkg /\ count' = count
    BY DEF IInv, MainInv
  <2>2. Fns(phase)' = Fns(phase')
    BY <2>1 DEF Fns
  <2>3. Len(Fns(phase)') \in Nat /\ 0 <= Len(Fns(phase)')
    BY <2>2, ListsAreFinite DEF IInv, Typed
  <2>4. phase' \in {"eval", "update", "idle"}
    BY <2>1 DEF Phases, NextPhase
  <2>5. CASE mpc' \in {"idle", "next"}
    BY <2>4, <2>5 DEF MainInv, Sharing, Closing, Phases
  <2>6. CASE mpc' = "run"
    BY <2>3, <2>4, <2>6 DEF MainInv, Sharing, Closing, Phases
  <2>7. CASE mpc' = "post"
    <3>1. count' # 0 /\ count' \in Nat
      BY <2>1, <2>7, HostAssumption DEF IInv, Typed
    <3>2. mi' \in Crew'
      BY <3>1 DEF Crew
    <3> QED BY <2>4, <2>7, <3>1, <3>2 DEF MainInv, Sharing, Closing
  <2> QED BY <2>5, <2>6, <2>7
<1>3. ASSUME NEW w \in Workers PROVE WorkerInv(w)'
  BY <1>1, <1>3 DEF IInv, Typed, MainInv, WorkerInv, Open, Crew, Sharing, Closing, Workers
<1> QED BY <1>1, <1>2, <1>3 DEF IInv

LEMMA PostKeeps ==
  ASSUME IInv, Post
  PROVE  IInv'
<1> USE DEF Post, memory, flags, worker, main
<1>0. /\ Fns(phase)' = Fns(phase)
      /\ \A w : SliceBegin(phase, w)' = SliceBegin(phase, w)
      /\ \A w : SliceEnd(phase, w)' = SliceEnd(phase, w)
  BY SlicesStay
<1>1. Typed'
  BY HostAssumption DEF IInv, Typed, MainInv, MainPlaces, WorkerPlaces, Workers, Crew
<1>2. MainInv'
  BY <1>0, <1>1 DEF IInv, Typed, MainInv, Crew, Sharing, Closing, Phases, MainPlaces
<1>3. ASSUME NEW w \in Workers PROVE WorkerInv(w)'
  BY <1>0, <1>1, <1>3 DEF IInv, Typed, MainInv, WorkerInv, Open, Crew, Sharing, Closing, Workers
<1> QED BY <1>1, <1>2, <1>3 DEF IInv

LEMMA NotifyKeeps ==
  ASSUME IInv, Notify
  PROVE  IInv'
<1> USE DEF Notify, memory, flags, worker, main, Wake
<1>0. /\ Fns(phase)' = Fns(phase)
      /\ \A w : SliceBegin(phase, w)' = SliceBegin(phase, w)
      /\ \A w : SliceEnd(phase, w)' = SliceEnd(phase, w)
  BY SlicesStay
<1>1. Typed'
  BY HostAssumption DEF IInv, Typed, MainInv, MainPlaces, WorkerPlaces, Workers, Crew
<1>2. MainInv'
  BY <1>0, <1>1 DEF IInv, Typed, MainInv, Crew, Sharing, Closing, Phases, MainPlaces
<1>3. ASSUME NEW w \in Workers PROVE WorkerInv(w)'
  BY <1>0, <1>1, <1>3 DEF IInv, Typed, MainInv, WorkerInv, Open, Crew, Sharing, Closing, Workers
<1> QED BY <1>1, <1>2, <1>3 DEF IInv

LEMMA AwaitSleepsKeeps ==
  ASSUME IInv, AwaitSleeps
  PROVE  IInv'
<1> USE DEF AwaitSleeps, memory, flags, worker, main
<1>0. /\ Fns(phase)' = Fns(phase)
      /\ \A w : SliceBegin(phase, w)' = SliceBegin(phase, w)
      /\ \A w : SliceEnd(phase, w)' = SliceEnd(phase, w)
  BY SlicesStay
<1>1. Typed'
  BY HostAssumption DEF IInv, Typed, MainInv, MainPlaces, WorkerPlaces, Workers, Crew
<1>2. MainInv'
  BY <1>0, <1>1 DEF IInv, Typed, MainInv, Crew, Sharing, Closing, Phases, MainPlaces
<1>3. ASSUME NEW w \in Workers PROVE WorkerInv(w)'
  BY <1>0, <1>1, <1>3 DEF IInv, Typed, MainInv, WorkerInv, Open, Crew, Sharing, Closing, Workers
<1> QED BY <1>1, <1>2, <1>3 DEF IInv

LEMMA AwaitPassesKeeps ==
  ASSUME IInv, AwaitPasses
  PROVE  IInv'
<1> USE DEF AwaitPasses, memory, flags, worker, main
<1>0. /\ Fns(phase)' = Fns(phase)
      /\ \A w : SliceBegin(phase, w)' = SliceBegin(phase, w)
      /\ \A w : SliceEnd(phase, w)' = SliceEnd(phase, w)
  BY SlicesStay
<1>1. Typed'
  BY HostAssumption DEF IInv, Typed, MainInv, MainPlaces, WorkerPlaces, Workers, Crew
<1>2. MainInv'
  BY <1>0, <1>1 DEF IInv, Typed, MainInv, Crew, Sharing, Closing, Phases, MainPlaces
<1>3. ASSUME NEW w \in Workers PROVE WorkerInv(w)'
  BY <1>0, <1>1, <1>3 DEF IInv, Typed, MainInv, WorkerInv, Open, Crew, Sharing, Closing, Workers
<1> QED BY <1>1, <1>2, <1>3 DEF IInv

LEMMA LeavePhaseKeeps ==
  ASSUME IInv, LeavePhase
  PROVE  IInv'
<1> USE DEF LeavePhase, memory, flags, worker, main
<1>0. /\ Fns(phase)' = Fns(phase)
      /\ \A w : SliceBegin(phase, w)' = SliceBegin(phase, w)
      /\ \A w : SliceEnd(phase, w)' = SliceEnd(phase, w)
  BY SlicesStay
<1>1. Typed'
  BY HostAssumption DEF IInv, Typed, MainInv, MainPlaces, WorkerPlaces, Workers, Crew
<1>2. MainInv'
  BY <1>0, <1>1 DEF IInv, Typed, MainInv, Crew, Sharing, Closing, Phases, MainPlaces
<1>3. ASSUME NEW w \in Workers PROVE WorkerInv(w)'
  BY <1>0, <1>1, <1>3 DEF IInv, Typed, MainInv, WorkerInv, Open, Crew, Sharing, Closing, Workers
<1> QED BY <1>1, <1>2, <1>3 DEF IInv

LEMMA DestroyKeeps ==
  ASSUME IInv, Destroy
  PROVE  IInv'
<1> USE DEF Destroy, memory, flags, worker, main
<1>1. Typed'
  BY HostAssumption DEF IInv, Typed, MainInv, MainPlaces, WorkerPlaces, Workers, Crew
<1>2. MainInv'
  BY <1>1 DEF IInv, Typed, MainInv, Crew, Sharing, Closing, Phases, MainPlaces
<1>3. ASSUME NEW w \in Workers PROVE WorkerInv(w)'
  BY <1>1, <1>3 DEF IInv, Typed, MainInv, WorkerInv, Open, Crew, Sharing, Closing, Workers
<1> QED BY <1>1, <1>2, <1>3 DEF IInv

LEMMA HaltKeeps ==
  ASSUME IInv, Halt
  PROVE  IInv'
<1> USE DEF Halt, memory, flags, worker, main
<1>0. /\ Fns(phase)' = Fns(phase)
      /\ \A w : SliceBegin(phase, w)' = SliceBegin(phase, w)
      /\ \A w : SliceEnd(phase, w)' = SliceEnd(phase, w)
  BY SlicesStay
<1>1. Typed'
  BY HostAssumption DEF IInv, Typed, MainInv, MainPlaces, WorkerPlaces, Workers, Crew
<1>2. MainInv'
  BY <1>0, <1>1 DEF IInv, Typed, MainInv, Crew, Sharing, Closing, Phases, MainPlaces
<1>3. ASSUME NEW w \in Workers PROVE WorkerInv(w)'
  BY <1>0, <1>1, <1>3 DEF IInv, Typed, MainInv, WorkerInv, Open, Crew, Sharing, Closing, Workers
<1> QED BY <1>1, <1>2, <1>3 DEF IInv

LEMMA HaltNotifyKeeps ==
  ASSUME IInv, HaltNotify
  PROVE  IInv'
<1> USE DEF HaltNotify, memory, flags, worker, main, Wake
<1>0. /\ Fns(phase)' = Fns(phase)
      /\ \A w : SliceBegin(phase, w)' = SliceBegin(phase, w)
      /\ \A w : SliceEnd(phase, w)' = SliceEnd(phase, w)
  BY SlicesStay
<1>1. Typed'
  BY HostAssumption DEF IInv, Typed, MainInv, MainPlaces, WorkerPlaces, Workers, Crew
<1>2. MainInv'
  BY <1>0, <1>1 DEF IInv, Typed, MainInv, Crew, Sharing, Closing, Phases, MainPlaces
<1>3. ASSUME NEW w \in Workers PROVE WorkerInv(w)'
  BY <1>0, <1>1, <1>3 DEF IInv, Typed, MainInv, WorkerInv, Open, Crew, Sharing, Closing, Workers
<1> QED BY <1>1, <1>2, <1>3 DEF IInv

LEMMA JoinKeeps ==
  ASSUME IInv, Join
  PROVE  IInv'
<1> USE DEF Join, memory, flags, worker, main
<1>1. Typed'
  BY HostAssumption DEF IInv, Typed, MainInv, MainPlaces, WorkerPlaces, Workers, Crew
<1>2. MainInv'
  <2>1. mi \in Crew /\ phase' = "off" /\ mpc' \in {"join", "over"}
    BY DEF IInv, MainInv, Closing
  <2>2. mpc' = "join" => mi' \in Crew'
    BY <2>1 DEF Crew, IInv, Typed
  <2> QED BY <1>1, <2>1, <2>2 DEF MainInv, Sharing, Closing
<1>3. ASSUME NEW w \in Workers PROVE WorkerInv(w)'
  BY <1>1, <1>3 DEF IInv, Typed, MainInv, WorkerInv, Open, Crew, Sharing, Closing, Workers
<1> QED BY <1>1, <1>2, <1>3 DEF IInv

LEMMA MainWakesUpKeeps ==
  ASSUME IInv, MainWakesUp
  PROVE  IInv'
<1> USE DEF MainWakesUp, memory, flags, worker, main
<1>0. /\ Fns(phase)' = Fns(phase)
      /\ \A w : SliceBegin(phase, w)' = SliceBegin(phase, w)
      /\ \A w : SliceEnd(phase, w)' = SliceEnd(phase, w)
  BY SlicesStay
<1>1. Typed'
  BY HostAssumption DEF IInv, Typed, MainInv, MainPlaces, WorkerPlaces, Workers, Crew
<1>2. MainInv'
  BY <1>0, <1>1 DEF IInv, Typed, MainInv, Crew, Sharing, Closing, Phases, MainPlaces
<1>3. ASSUME NEW w \in Workers PROVE WorkerInv(w)'
  BY <1>0, <1>1, <1>3 DEF IInv, Typed, MainInv, WorkerInv, Open, Crew, Sharing, Closing, Workers
<1> QED BY <1>1, <1>2, <1>3 DEF IInv

LEMMA WorkerSleepsKeeps ==
  ASSUME IInv, NEW v \in Workers, WorkerSleeps(v)
  PROVE  IInv'
<1> USE DEF WorkerSleeps, memory, flags, worker, main
<1>0. /\ Fns(phase)' = Fns(phase)
      /\ \A w : SliceBegin(phase, w)' = SliceBegin(phase, w)
      /\ \A w : SliceEnd(phase, w)' = SliceEnd(phase, w)
  BY SlicesStay
<1>1. Typed'
  BY HostAssumption DEF IInv, Typed, MainInv, MainPlaces, WorkerPlaces, Workers, Crew
<1>2. MainInv'
  BY <1>0, <1>1 DEF IInv, Typed, MainInv, Crew, Sharing, Closing, Phases, MainPlaces
<1>3. ASSUME NEW w \in Workers PROVE WorkerInv(w)'
  BY <1>0, <1>1, <1>3 DEF IInv, Typed, MainInv, WorkerInv, Open, Crew, Sharing, Closing, Workers
<1> QED BY <1>1, <1>2, <1>3 DEF IInv

LEMMA WorkerWakesUpKeeps ==
  ASSUME IInv, NEW v \in Workers, WorkerWakesUp(v)
  PROVE  IInv'
<1> USE DEF WorkerWakesUp, memory, flags, worker, main
<1>0. /\ Fns(phase)' = Fns(phase)
      /\ \A w : SliceBegin(phase, w)' = SliceBegin(phase, w)
      /\ \A w : SliceEnd(phase, w)' = SliceEnd(phase, w)
  BY SlicesStay
<1>1. Typed'
  BY HostAssumption DEF IInv, Typed, MainInv, MainPlaces, WorkerPlaces, Workers, Crew
<1>2. MainInv'
  BY <1>0, <1>1 DEF IInv, Typed, MainInv, Crew, Sharing, Closing, Phases, MainPlaces
<1>3. ASSUME NEW w \in Workers PROVE WorkerInv(w)'
  BY <1>0, <1>1, <1>3 DEF IInv, Typed, MainInv, WorkerInv, Open, Crew, Sharing, Closing, Workers
<1> QED BY <1>1, <1>2, <1>3 DEF IInv

LEMMA WorkerStopsKeeps ==
  ASSUME IInv, NEW v \in Workers, WorkerStops(v)
  PROVE  IInv'
<1> USE DEF WorkerStops, memory, flags, worker, main
<1>0. /\ Fns(phase)' = Fns(phase)
      /\ \A w : SliceBegin(phase, w)' = SliceBegin(phase, w)
      /\ \A w : SliceEnd(phase, w)' = SliceEnd(phase, w)
  BY SlicesStay
<1>1. Typed'
  BY HostAssumption DEF IInv, Typed, MainInv, MainPlaces, WorkerPlaces, Workers, Crew
<1>2. MainInv'
  BY <1>0, <1>1 DEF IInv, Typed, MainInv, Crew, Sharing, Closing, Phases, MainPlaces
<1>3. ASSUME NEW w \in Workers PROVE WorkerInv(w)'
  BY <1>0, <1>1, <1>3 DEF IInv, Typed, MainInv, WorkerInv, Open, Crew, Sharing, Closing, Workers
<1> QED BY <1>1, <1>2, <1>3 DEF IInv

LEMMA WorkerTakesKeeps ==
  ASSUME IInv, NEW v \in Workers, WorkerTakes(v)
  PROVE  IInv'
<1> USE DEF WorkerTakes, memory, flags, worker, main
<1>0. /\ Fns(phase)' = Fns(phase)
      /\ \A w : SliceBegin(phase, w)' = SliceBegin(phase, w)
      /\ \A w : SliceEnd(phase, w)' = SliceEnd(phase, w)
  BY SlicesStay
<1>a. v \in Crew /\ Open(v) /\ count # 0 /\ v \in Nat
  BY DEF IInv, Typed, WorkerInv, MainInv, Open, Sharing, Crew, Workers
<1>b. active = phase
  BY <1>a DEF IInv, MainInv, Open, Sharing
<1>c. /\ SliceBegin(phase, v) \in Nat /\ SliceEnd(phase, v) \in Nat
      /\ SliceBegin(phase, v) <= SliceEnd(phase, v)
  BY <1>a, SliceBounds DEF IInv
<1>1. Typed'
  BY <1>b, <1>c, HostAssumption DEF IInv, Typed, MainInv, MainPlaces, WorkerPlaces, Workers, Crew
<1>2. MainInv'
  BY <1>0, <1>1 DEF IInv, Typed, MainInv, Crew, Sharing, Closing, Phases, MainPlaces
<1>3. ASSUME NEW w \in Workers PROVE WorkerInv(w)'
  BY <1>0, <1>a, <1>b, <1>c, <1>1, <1>3 DEF IInv, Typed, MainInv, WorkerInv, Open, Crew, Sharing, Closing, Workers
<1> QED BY <1>1, <1>2, <1>3 DEF IInv

LEMMA WorkerFnBeginsKeeps ==
  ASSUME IInv, NEW v \in Workers, WorkerFnBegins(v)
  PROVE  IInv'
<1> USE DEF WorkerFnBegins, memory, flags, worker, main
<1>0. /\ Fns(phase)' = Fns(phase)
      /\ \A w : SliceBegin(phase, w)' = SliceBegin(phase, w)
      /\ \A w : SliceEnd(phase, w)' = SliceEnd(phase, w)
  BY SlicesStay
<1>1. Typed'
  BY HostAssumption DEF IInv, Typed, MainInv, MainPlaces, WorkerPlaces, Workers, Crew
<1>2. MainInv'
  BY <1>0, <1>1 DEF IInv, Typed, MainInv, Crew, Sharing, Closing, Phases, MainPlaces
<1>3. ASSUME NEW w \in Workers PROVE WorkerInv(w)'
  BY <1>0, <1>1, <1>3 DEF IInv, Typed, MainInv, WorkerInv, Open, Crew, Sharing, Closing, Workers
<1> QED BY <1>1, <1>2, <1>3 DEF IInv

LEMMA WorkerFnEndsKeeps ==
  ASSUME IInv, NEW v \in Workers, WorkerFnEnds(v)
  PROVE  IInv'
<1> USE DEF WorkerFnEnds, memory, flags, worker, main
<1>0. /\ Fns(phase)' = Fns(phase)
      /\ \A w : SliceBegin(phase, w)' = SliceBegin(phase, w)
      /\ \A w : SliceEnd(phase, w)' = SliceEnd(phase, w)
  BY SlicesStay
<1>a. v \in Crew /\ Open(v) /\ count # 0 /\ v \in Nat
  BY DEF IInv, Typed, WorkerInv, MainInv, Open, Sharing, Crew, Workers
<1>b. active = phase
  BY <1>a DEF IInv, MainInv, Open, Sharing
<1>c. /\ SliceBegin(phase, v) \in Nat /\ SliceEnd(phase, v) \in Nat
      /\ SliceBegin(phase, v) <= SliceEnd(phase, v)
  BY <1>a, SliceBounds DEF IInv
<1>1. Typed'
  BY HostAssumption DEF IInv, Typed, MainInv, MainPlaces, WorkerPlaces, Workers, Crew
<1>2. MainInv'
  BY <1>0, <1>1 DEF IInv, Typed, MainInv, Crew, Sharing, Closing, Phases, MainPlaces
<1>3. ASSUME NEW w \in Workers PROVE WorkerInv(w)'
  BY <1>0, <1>a, <1>b, <1>c, <1>1, <1>3 DEF IInv, Typed, MainInv, WorkerInv, Open, Crew, Sharing, Closing, Workers
<1> QED BY <1>1, <1>2, <1>3 DEF IInv

LEMMA WorkerCompletesKeeps ==
  ASSUME IInv, NEW v \in Workers, WorkerCompletes(v)
  PROVE  IInv'
<1> USE DEF WorkerCompletes, memory, flags, worker, main
<1>0. /\ Fns(phase)' = Fns(phase)
      /\ \A w : SliceBegin(phase, w)' = SliceBegin(phase, w)
      /\ \A w : SliceEnd(phase, w)' = SliceEnd(phase, w)
  BY SlicesStay
<1>1. Typed'
  BY HostAssumption DEF IInv, Typed, MainInv, MainPlaces, WorkerPlaces, Workers, Crew
<1>2. MainInv'
  BY <1>0, <1>1 DEF IInv, Typed, MainInv, Crew, Sharing, Closing, Phases, MainPlaces
<1>3. ASSUME NEW w \in Workers PROVE WorkerInv(w)'
  BY <1>0, <1>1, <1>3 DEF IInv, Typed, MainInv, WorkerInv, Open, Crew, Sharing, Closing, Workers
<1> QED BY <1>1, <1>2, <1>3 DEF IInv

LEMMA WorkerNotifiesKeeps ==
  ASSUME IInv, NEW v \in Workers, WorkerNotifies(v)
  PROVE  IInv'
<1> USE DEF WorkerNotifies, memory, flags, worker, main
<1>0. /\ Fns(phase)' = Fns(phase)
      /\ \A w : SliceBegin(phase, w)' = SliceBegin(phase, w)
      /\ \A w : SliceEnd(phase, w)' = SliceEnd(phase, w)
  BY SlicesStay
<1>1. Typed'
  BY HostAssumption DEF IInv, Typed, MainInv, MainPlaces, WorkerPlaces, Workers, Crew
<1>2. MainInv'
  BY <1>0, <1>1 DEF IInv, Typed, MainInv, Crew, Sharing, Closing, Phases, MainPlaces
<1>3. ASSUME NEW w \in Workers PROVE WorkerInv(w)'
  BY <1>0, <1>1, <1>3 DEF IInv, Typed, MainInv, WorkerInv, Open, Crew, Sharing, Closing, Workers
<1> QED BY <1>1, <1>2, <1>3 DEF IInv

(* A step that changes nothing keeps everything.                              *)
LEMMA StutterKeeps ==
  ASSUME IInv, UNCHANGED vars
  PROVE  IInv'
<1> USE DEF vars, memory, flags, worker, main
<1>0. /\ Fns(phase)' = Fns(phase)
      /\ \A w : SliceBegin(phase, w)' = SliceBegin(phase, w)
      /\ \A w : SliceEnd(phase, w)' = SliceEnd(phase, w)
  BY SlicesStay
<1>1. Typed'
  BY DEF IInv, Typed
<1>2. MainInv'
  BY <1>0 DEF IInv, MainInv, Crew
<1>3. ASSUME NEW w \in Workers PROVE WorkerInv(w)'
  BY <1>0, <1>3 DEF IInv, WorkerInv, Open, Crew
<1> QED BY <1>1, <1>2, <1>3 DEF IInv

(* Where the threads are fits together in every reachable state: a worker is  *)
(* inside its slice only while main waits for it, on the list main is at.     *)
THEOREM Invariance == Spec => []IInv
<1>1. IInv /\ [Next]_vars => IInv'
  <2> SUFFICES ASSUME IInv, [Next]_vars PROVE IInv'
    OBVIOUS
  <2>1. CASE MainStep
    BY <2>1, ConstructKeeps, SpawnKeeps, StepKeeps, HostFnBeginsKeeps, HostFnEndsKeeps,
       HostPhaseEndsKeeps, EnterPhaseKeeps, PostKeeps, NotifyKeeps, AwaitSleepsKeeps,
       AwaitPassesKeeps, LeavePhaseKeeps, DestroyKeeps, HaltKeeps, HaltNotifyKeeps, JoinKeeps
       DEF MainStep
  <2>2. CASE MainWakesUp
    BY <2>2, MainWakesUpKeeps
  <2>3. ASSUME NEW w \in Workers, WorkerStep(w) \/ WorkerWakesUp(w) PROVE IInv'
    BY <2>3, WorkerSleepsKeeps, WorkerWakesUpKeeps, WorkerStopsKeeps, WorkerTakesKeeps,
       WorkerFnBeginsKeeps, WorkerFnEndsKeeps, WorkerCompletesKeeps, WorkerNotifiesKeeps
       DEF WorkerStep
  <2>4. CASE UNCHANGED vars
    BY <2>4, StutterKeeps
  <2> QED BY <2>1, <2>2, <2>3, <2>4 DEF Next
<1> QED BY <1>1, InvInit, PTL DEF Spec

-------------------------------------------------------------------------------
(* No race.                                                                   *)

(* Two workers inside their slices are at different functions of one list.    *)
LEMMA SlicesApart ==
  ASSUME Typed, count # 0, NEW p, NEW v \in Nat, NEW w \in Nat, v < w
  PROVE  SliceEnd(p, v) <= SliceBegin(p, w)
<1>1. Len(Fns(p)) \in Nat /\ count \in Nat \ {0}
  BY ListsAreFinite, HostAssumption DEF Typed
<1>2. v + 1 \in Nat /\ v + 1 <= w
  OBVIOUS
<1> QED BY <1>1, <1>2, CutMonotone DEF SliceBegin, SliceEnd

LEMMA WorkerPosition ==
  ASSUME IInv, NEW w \in Workers, wpc[w] \in {"run", "busy"}
  PROVE  /\ count # 0 /\ w \in Crew /\ w \in Nat /\ Open(w)
         /\ wfns[w] = phase /\ phase \in {"eval", "update"}
         /\ wi[w] \in Nat /\ SliceBegin(phase, w) \in Nat /\ SliceEnd(phase, w) \in Nat
         /\ SliceBegin(phase, w) <= wi[w] /\ wi[w] <= SliceEnd(phase, w)
         /\ SliceEnd(phase, w) <= Len(Fns(phase))
         /\ wpc[w] = "busy" => wi[w] < SliceEnd(phase, w)
<1>1. w \in Crew /\ Open(w) /\ wfns[w] = phase /\ wi[w] \in Nat /\ w \in Nat
      /\ SliceBegin(phase, w) <= wi[w] /\ wi[w] <= SliceEnd(phase, w)
      /\ (wpc[w] = "busy" => wi[w] < SliceEnd(phase, w))
  BY DEF IInv, Typed, WorkerInv, Workers
<1>2. count # 0 /\ phase \in {"eval", "update"}
  BY <1>1 DEF IInv, MainInv, Open, Sharing
<1>3. SliceBegin(phase, w) \in Nat /\ SliceEnd(phase, w) \in Nat
  BY <1>1, <1>2, SliceBounds DEF IInv
<1>4. SliceEnd(phase, w) <= Len(Fns(phase))
  <2>1. Len(Fns(phase)) \in Nat /\ count \in Nat \ {0} /\ w + 1 \in Nat /\ w + 1 <= count
    BY <1>1, <1>2, ListsAreFinite, HostAssumption DEF IInv, Typed, Crew
  <2> QED BY <2>1, CutMonotone, CutEnds DEF SliceEnd
<1> QED BY <1>1, <1>2, <1>3, <1>4

LEMMA WorkersApart ==
  ASSUME IInv, NEW v \in Workers, NEW w \in Workers, v # w,
         wpc[v] = "busy", wpc[w] = "busy"
  PROVE  /\ wi[v] + 1 \in 1..Len(Fns(phase)) /\ wi[w] + 1 \in 1..Len(Fns(phase))
         /\ wi[v] + 1 # wi[w] + 1
<1>1. Len(Fns(phase)) \in Nat
  BY ListsAreFinite DEF IInv, Typed
<1>2. ASSUME NEW x \in {v, w}
      PROVE  /\ count # 0 /\ x \in Nat /\ wi[x] \in Nat
             /\ SliceBegin(phase, x) \in Nat /\ SliceEnd(phase, x) \in Nat
             /\ SliceBegin(phase, x) <= wi[x] /\ wi[x] < SliceEnd(phase, x)
             /\ SliceEnd(phase, x) <= Len(Fns(phase))
  BY <1>2, WorkerPosition
<1>3. v < w => SliceEnd(phase, v) <= SliceBegin(phase, w)
  BY <1>2, SlicesApart DEF IInv
<1>4. w < v => SliceEnd(phase, w) <= SliceBegin(phase, v)
  BY <1>2, SlicesApart DEF IInv
<1> QED BY <1>1, <1>2, <1>3, <1>4

(* Functions of one phase that are on different units do not conflict.        *)
LEMMA UnitsApart ==
  ASSUME pkg \in Packages, NEW u, NEW x, u # x, NEW p \in {"eval", "update"}
  PROVE  Writes(p, u) \cap (Reads(p, x) \cup Writes(p, x)) = {}
<1>1. \A s \in DOMAIN pkg.from : s[2] # 0
  BY PackageFacts DEF Orderly
<1>2. CASE p = "eval"
  BY <1>1, <1>2 DEF Writes, Reads, OutputsOf, InputSlots
<1>3. CASE p = "update"
  BY <1>1, <1>3 DEF Writes, Reads, OutputsOf, PushedSlots
<1> QED BY <1>2, <1>3

LEMMA InvNoRace == IInv => NoRace
<1> SUFFICES ASSUME IInv, NEW f \in Busy, NEW g \in Busy, f.by # g.by
             PROVE  Writes(f.p, f.u) \cap (Reads(g.p, g.u) \cup Writes(g.p, g.u)) = {}
  BY DEF NoRace
<1>1. ASSUME NEW w \in Workers, wpc[w] = "busy" PROVE mpc # "busy"
  BY <1>1, WorkerPosition DEF Open
<1>2. PICK v \in Workers : wpc[v] = "busy" /\ f = [by |-> v, p |-> wfns[v], u |-> Fns(wfns[v])[wi[v] + 1]]
  BY <1>1 DEF Busy
<1>3. PICK w \in Workers : wpc[w] = "busy" /\ g = [by |-> w, p |-> wfns[w], u |-> Fns(wfns[w])[wi[w] + 1]]
  BY <1>1, <1>2 DEF Busy
<1>4. v # w
  BY <1>2, <1>3
<1>5. wfns[v] = phase /\ wfns[w] = phase /\ phase \in {"eval", "update"}
  BY <1>2, <1>3, WorkerPosition
<1>6. f.u # g.u
  <2>1. \A i, j \in 1..Len(Fns(phase)) : Fns(phase)[i] = Fns(phase)[j] => i = j
    BY <1>5, PackageFacts DEF Orderly, IInv, Typed, Fns
  <2> QED BY <1>2, <1>3, <1>4, <1>5, <2>1, WorkersApart
<1>7. f.p = phase /\ g.p = phase
  BY <1>2, <1>3, <1>5
<1> QED BY <1>5, <1>6, <1>7, UnitsApart DEF IInv, Typed

(* No two threads are ever at functions of which one writes what the other    *)
(* reads or writes.                                                           *)
THEOREM FunctionsNeverRace == Spec => []NoRace
  BY Invariance, InvNoRace, PTL

-------------------------------------------------------------------------------
(* The simulator implements StepPhases.                                       *)

(* Every function of a list is in the slice of a worker.                      *)
LEMMA CutsAreAll ==
  ASSUME NEW n \in Nat, NEW c \in Nat \ {0}
  PROVE  UNION {Cut(n, c, w) + 1 .. Cut(n, c, w + 1) : w \in 0..(c - 1)} = 1..n
<1>1. ASSUME NEW i \in 1..n
      PROVE  \E w \in 0..(c - 1) : i \in Cut(n, c, w) + 1 .. Cut(n, c, w + 1)
  BY SlicesCover
<1>2. ASSUME NEW w \in 0..(c - 1), NEW i \in Cut(n, c, w) + 1 .. Cut(n, c, w + 1)
      PROVE  i \in 1..n
  <2>1. w \in Nat /\ w + 1 \in Nat /\ w <= w + 1 /\ w + 1 <= c
    OBVIOUS
  <2>2. Cut(n, c, w) \in Nat /\ Cut(n, c, w + 1) \in Nat /\ Cut(n, c, w + 1) <= n
    BY <2>1, CutMonotone, CutEnds
  <2> QED BY <1>2, <2>2
<1> QED BY <1>1, <1>2

LEMMA SharedLeft ==
  ASSUME mpc \in Sharing
  PROVE  Left = UNION {WorkerLeft(w) : w \in Crew}
  BY DEF Left, Sharing, Crew

(* Nothing is left, and nothing new is: the step is invisible.                *)
LEMMA LeftStays ==
  ASSUME mpc \in Sharing, mpc' \in Sharing, count' = count,
         \A w \in Crew : WorkerLeft(w)' = WorkerLeft(w)
  PROVE  Left' = Left
<1>1. Crew' = Crew
  BY DEF Crew
<1>2. Left' = UNION {WorkerLeft(w)' : w \in Crew'}
  BY DEF Left, Sharing, Crew
<1> QED BY <1>1, <1>2, SharedLeft

LEMMA LeftOutside ==
  ASSUME UNCHANGED <<pkg, phase, mi, mpc>>, mpc \notin Sharing
  PROVE  Left' = Left
  BY DEF Left, Sharing, Fns

LEMMA SameCall ==
  ASSUME NEW p, NEW i
  PROVE  Promise!CallFn(p, i) <=> CallFn(p, i)
  BY DEF CallFn, LoadFn, EvalFn, UpdateFn, Filled, Fns, TopSlots, PushedSlots,
     Promise!CallFn, Promise!LoadFn, Promise!EvalFn, Promise!UpdateFn, Promise!Filled,
     Promise!Fns, Promise!TopSlots, Promise!PushedSlots

LEMMA SameFns ==
  ASSUME NEW p
  PROVE  Promise!Fns(p) = Fns(p)
  BY DEF Fns, Promise!Fns

Hidden == UNCHANGED <<memory, Left>>

LEMMA RefineInit == Init => Promise!PhaseInit
<1> SUFFICES ASSUME Init PROVE Promise!PhaseInit
  OBVIOUS
<1>1. Left = {}
  BY DEF Init, Left
<1>2. Promise!MemoryInit
  BY DEF Init, MemoryInit, Zero, Driver, Elements, Promise!MemoryInit, Promise!Zero,
     Promise!Driver, Promise!Elements
<1> QED BY <1>1, <1>2 DEF Promise!PhaseInit

LEMMA RefineConstruct ==
  ASSUME IInv, NEW requested \in Requests, NEW cpus \in 0..MaxCpus, Construct(requested, cpus)
  PROVE  Promise!SwitchOn
<1>1. Left = {} /\ Left' = {}
  BY DEF Construct, Left
<1>2. phase = "off" /\ pkg.ok /\ step = 0
  BY DEF Construct, IInv, MainInv, Closing
<1> QED BY <1>1, <1>2 DEF Construct, Filled, ConstSlots, Promise!SwitchOn, Promise!Filled,
           Promise!ConstSlots

LEMMA RefineStep ==
  ASSUME IInv, Step
  PROVE  Promise!Begin
<1>1. Left' = 1..Len(Fns(phase)')
  BY DEF Step, Left
<1>2. phase = "idle"
  BY DEF Step, IInv, MainInv
<1>3. Fns(phase)' = Promise!Fns(phase')
  BY DEF Step, Fns, Promise!Fns
<1> QED BY <1>1, <1>2, <1>3 DEF Step, Promise!Begin

LEMMA RefineHostFnEnds ==
  ASSUME IInv, HostFnEnds
  PROVE  Promise!Run(mi + 1) /\ mi + 1 \in Left
<1>1. mi \in Nat /\ mi < Len(Fns(phase)) /\ Len(Fns(phase)) \in Nat
  BY ListsAreFinite DEF HostFnEnds, IInv, Typed, MainInv
<1>2. Left = mi + 1 .. Len(Fns(phase))
  BY DEF HostFnEnds, Left
<1>3. Left' = mi + 2 .. Len(Fns(phase))
  BY <1>1 DEF HostFnEnds, Left, Fns
<1>4. mi + 1 \in Left /\ Left' = Left \ {mi + 1}
  BY <1>1, <1>2, <1>3
<1>5. Promise!CallFn(phase, mi + 1)
  BY SameCall DEF HostFnEnds
<1> QED BY <1>4, <1>5 DEF HostFnEnds, Promise!Run

LEMMA RefineHostPhaseEnds ==
  ASSUME IInv, HostPhaseEnds
  PROVE  Hidden
<1>1. mi \in Nat /\ mi = Len(Fns(phase))
  BY DEF HostPhaseEnds, IInv, Typed
<1>2. Left = {}
  BY <1>1 DEF HostPhaseEnds, Left
<1>3. Left' = {}
  BY DEF HostPhaseEnds, Left
<1> QED BY <1>2, <1>3 DEF HostPhaseEnds, Hidden

(* No worker is inside a slice, nor has a slice to take, unless main has      *)
(* posted it and waits for it.                                                *)
LEMMA NotOpenIsIdle ==
  ASSUME IInv, NEW w \in Workers, ~Open(w), mpc \notin Closing
  PROVE  wpc[w] \notin {"run", "busy"} /\ ~hasWork[w]
  BY DEF IInv, Typed, WorkerInv

LEMMA CrewWorks ==
  ASSUME Typed
  PROVE  Crew \subseteq Workers /\ Crew \subseteq Nat
  BY HostAssumption DEF Typed, Crew, Workers

LEMMA RefineEnterPhase ==
  ASSUME IInv, IInv', EnterPhase
  PROVE  Promise!Advance
<1>1. phase \in Phases /\ mpc = "next" /\ phase' = Promise!NextPhase(phase)
  BY DEF EnterPhase, IInv, MainInv, NextPhase, Promise!NextPhase
<1>2. Left = {}
  BY <1>1 DEF Left
<1>3. Fns(phase)' = Fns(phase') /\ pkg' = pkg /\ count' = count /\ hasWork' = hasWork
      /\ wpc' = wpc /\ mi' = 0
  BY DEF EnterPhase, Fns, flags, worker
<1>4. Left' = 1..Len(Fns(phase'))
  <2>1. CASE mpc' = "idle"
    <3>1. Fns(phase') = <<>>
      BY <2>1 DEF EnterPhase, Fns
    <3>2. Left' = {}
      BY <2>1 DEF Left
    <3> QED BY <3>1, <3>2
  <2>2. CASE mpc' = "next"
    <3>1. Fns(phase') = <<>>
      BY <2>2 DEF EnterPhase
    <3>2. Left' = {}
      BY <2>2 DEF Left
    <3> QED BY <3>1, <3>2
  <2>3. CASE mpc' = "run"
    BY <1>3, <2>3 DEF Left
  <2>4. CASE mpc' = "post"
    <3>1. Left' = UNION {WorkerLeft(w)' : w \in Crew'}
      BY <2>4 DEF Left, Crew
    <3>2. ASSUME NEW w \in Crew'
          PROVE  WorkerLeft(w)' = (SliceBegin(phase, w) + 1 .. SliceEnd(phase, w))'
      <4>1. w \in Workers /\ w \in Nat /\ ~Open(w)
        BY <1>1, <1>3, CrewWorks DEF Open, IInv, Crew
      <4>2. wpc'[w] \notin {"run", "busy"}
        BY <1>1, <1>3, <4>1, NotOpenIsIdle DEF Closing
      <4>3. ~Posted(w)'
        BY <1>3, <2>4, <4>1 DEF Posted
      <4> QED BY <4>2, <4>3 DEF WorkerLeft
    <3>3. Left' = UNION {(SliceBegin(phase, w) + 1 .. SliceEnd(phase, w))' : w \in Crew'}
      BY <3>1, <3>2
    <3>4. Left' = 1..Len(Fns(phase'))
      <4> DEFINE n == Len(Fns(phase'))
      <4>1. n \in Nat /\ count \in Nat \ {0}
        BY <1>3, <2>4, ListsAreFinite, HostAssumption DEF IInv, Typed, MainInv, Sharing
      <4>2. \A w : (SliceBegin(phase, w) + 1 .. SliceEnd(phase, w))'
                     = Cut(n, count, w) + 1 .. Cut(n, count, w + 1)
        BY <1>3 DEF SliceBegin, SliceEnd, Cut
      <4>3. Crew' = 0..(count - 1)
        BY <1>3 DEF Crew
      <4>4. Left' = UNION {Cut(n, count, w) + 1 .. Cut(n, count, w + 1) : w \in 0..(count - 1)}
        BY <3>3, <4>2, <4>3
      <4> HIDE DEF n
      <4>5. Left' = 1..n
        BY <4>1, <4>4, CutsAreAll
      <4> QED BY <4>5 DEF n
    <3> QED BY <3>4
  <2> QED BY <2>1, <2>2, <2>3, <2>4 DEF EnterPhase
<1>5. Left' = 1..Len(Promise!Fns(phase'))
  BY <1>4, SameFns
<1>6. phase \in Promise!Phases
  BY <1>1 DEF Phases, Promise!Phases
<1> QED BY <1>1, <1>2, <1>5, <1>6 DEF EnterPhase, Promise!Advance

(* A step that leaves the list, the workers' posts and positions alone leaves *)
(* what each of them has to do alone.                                         *)
LEMMA SameWorkerLeft ==
  ASSUME UNCHANGED <<pkg, count, phase>>, NEW w,
         wi'[w] = wi[w],
         wpc'[w] \in {"run", "busy"} <=> wpc[w] \in {"run", "busy"},
         (~Posted(w) \/ hasWork[w])' <=> (~Posted(w) \/ hasWork[w])
  PROVE  WorkerLeft(w)' = WorkerLeft(w)
<1>1. SliceBegin(phase, w)' = SliceBegin(phase, w) /\ SliceEnd(phase, w)' = SliceEnd(phase, w)
  BY SlicesStay
<1> QED BY <1>1 DEF WorkerLeft

LEMMA RefinePost ==
  ASSUME IInv, Post
  PROVE  Hidden
<1> USE DEF Post, memory, flags, worker
<1>1. mpc = "post" /\ mpc' = "notify" /\ count' = count
  OBVIOUS
<1>2. ASSUME NEW w \in Crew PROVE WorkerLeft(w)' = WorkerLeft(w)
  <2>1. w \in Workers /\ w \in Nat /\ mi \in Nat /\ hasWork \in [Workers -> BOOLEAN]
    BY <1>2, CrewWorks DEF IInv, Typed
  <2>2. (~Posted(w) \/ hasWork[w])' <=> (~Posted(w) \/ hasWork[w])
    <3>1. CASE w = mi
      BY <1>1, <2>1, <3>1 DEF Posted
    <3>2. CASE w # mi
      <4>1. (w < mi <=> w <= mi) /\ hasWork'[w] = hasWork[w] /\ mi' = mi
        BY <2>1, <3>2
      <4> QED BY <1>1, <4>1 DEF Posted
    <3> QED BY <3>1, <3>2
  <2> QED BY <2>2, SameWorkerLeft
<1>3. Left' = Left
  BY <1>1, <1>2, LeftStays DEF Sharing
<1> QED BY <1>3 DEF Hidden

LEMMA RefineNotify ==
  ASSUME IInv, Notify
  PROVE  Hidden
<1> USE DEF Notify, Wake, memory, flags, worker
<1>1. mpc = "notify" /\ mpc' \in {"post", "await"} /\ count' = count
  OBVIOUS
<1>2. ASSUME NEW w \in Crew PROVE WorkerLeft(w)' = WorkerLeft(w)
  <2>1. w \in Workers /\ w \in Nat /\ mi \in Nat /\ mi \in Crew /\ count \in Nat
    BY <1>1, <1>2, CrewWorks, HostAssumption DEF IInv, Typed, MainInv
  <2>2. Posted(w)' <=> Posted(w)
    <3>1. CASE mi + 1 < count
      <4>1. w < mi + 1 <=> w <= mi
        BY <2>1
      <4> QED BY <1>1, <3>1, <4>1 DEF Posted
    <3>2. CASE ~(mi + 1 < count)
      <4>1. w <= mi
        BY <1>2, <2>1, <3>2 DEF Crew
      <4> QED BY <1>1, <3>2, <4>1 DEF Posted
    <3> QED BY <3>1, <3>2
  <2>3. wpc'[w] \in {"run", "busy"} <=> wpc[w] \in {"run", "busy"}
    BY <2>1 DEF IInv, Typed
  <2> QED BY <2>2, <2>3, SameWorkerLeft
<1>3. Left' = Left
  BY <1>1, <1>2, LeftStays DEF Sharing
<1> QED BY <1>3 DEF Hidden

(* The second loop: main waits, is woken, goes on to the next worker.         *)
LEMMA RefineAwait ==
  ASSUME IInv, AwaitSleeps \/ AwaitPasses \/ MainWakesUp
  PROVE  Hidden
<1> USE DEF AwaitSleeps, AwaitPasses, MainWakesUp, memory, flags, worker
<1>1. mpc \in {"await", "asleep"} /\ mpc' \in {"await", "asleep", "leave"}
      /\ UNCHANGED <<memory, count, hasWork, wpc, wi>>
  OBVIOUS
<1>2. ASSUME NEW w \in Crew PROVE WorkerLeft(w)' = WorkerLeft(w)
  <2>1. Posted(w)' /\ Posted(w)
    BY <1>1 DEF Posted
  <2> QED BY <1>1, <2>1, SameWorkerLeft
<1>3. Left' = Left
  BY <1>1, <1>2, LeftStays DEF Sharing
<1> QED BY <1>1, <1>3 DEF Hidden

(* When main leaves the phase, no function of it is left.                     *)
LEMMA RefineLeavePhase ==
  ASSUME IInv, LeavePhase
  PROVE  Hidden
<1>1. mpc = "leave" /\ mpc' = "next" /\ UNCHANGED memory
  BY DEF LeavePhase
<1>2. ASSUME NEW w \in Crew PROVE WorkerLeft(w) = {}
  <2>1. w \in Workers /\ ~Open(w)
    BY <1>1, <1>2, CrewWorks DEF Open, IInv
  <2>2. wpc[w] \notin {"run", "busy"} /\ ~hasWork[w]
    BY <1>1, <2>1, NotOpenIsIdle DEF Closing
  <2>3. Posted(w)
    BY <1>1 DEF Posted
  <2> QED BY <2>2, <2>3 DEF WorkerLeft
<1>3. Left = {}
  BY <1>1, <1>2, SharedLeft DEF Sharing
<1>4. Left' = {}
  BY <1>1 DEF Left
<1> QED BY <1>1, <1>3, <1>4 DEF Hidden

LEMMA RefineHostFnBegins ==
  ASSUME IInv, HostFnBegins
  PROVE  Hidden
  BY DEF HostFnBegins, Hidden, Left, Fns, memory

LEMMA RefineQuiet ==
  ASSUME Spawn \/ Halt \/ HaltNotify \/ Join
  PROVE  Hidden
<1>1. Left = {} /\ Left' = {}
  BY DEF Spawn, Halt, HaltNotify, Join, Left
<1>2. UNCHANGED memory
  BY DEF Spawn, Halt, HaltNotify, Join
<1> QED BY <1>1, <1>2 DEF Hidden

LEMMA RefineDestroy ==
  ASSUME IInv, Destroy
  PROVE  Promise!SwitchOff
<1>1. Left = {} /\ Left' = {}
  BY DEF Destroy, Left
<1>2. phase = "idle"
  BY DEF Destroy, IInv, MainInv
<1> QED BY <1>1, <1>2 DEF Destroy, Promise!SwitchOff

(* A step of worker w that changes nothing of what is left.                   *)
LEMMA QuietWorker ==
  ASSUME UNCHANGED <<memory, count, mi>>, mpc \notin Sharing => mpc' = mpc,
         mpc \in Sharing => mpc' \in Sharing /\ \A w \in Crew : WorkerLeft(w)' = WorkerLeft(w)
  PROVE  Hidden
<1>1. CASE mpc \in Sharing
  BY <1>1, LeftStays DEF Hidden
<1>2. CASE mpc \notin Sharing
  BY <1>2, LeftOutside DEF Hidden, memory
<1> QED BY <1>1, <1>2

(* Sleeping, waking, stopping, beginning a function and notifying.            *)
LEMMA RefineQuietWorker ==
  ASSUME IInv, NEW x \in Workers,
         \/ WorkerSleeps(x) \/ WorkerWakesUp(x) \/ WorkerStops(x)
         \/ WorkerFnBegins(x) \/ WorkerNotifies(x)
  PROVE  Hidden
<1> USE DEF WorkerSleeps, WorkerWakesUp, WorkerStops, WorkerFnBegins, WorkerNotifies, flags, main
<1>1. UNCHANGED <<memory, count, mi, hasWork, wi>>
  OBVIOUS
<1>2. mpc' = mpc \/ (mpc = "asleep" /\ mpc' = "await")
  OBVIOUS
<1>3. ASSUME NEW w \in Crew PROVE WorkerLeft(w)' = WorkerLeft(w)
  <2>1. w \in Workers /\ wpc \in [Workers -> WorkerPlaces]
    BY <1>3, CrewWorks DEF IInv, Typed
  <2>2. wpc'[w] \in {"run", "busy"} <=> wpc[w] \in {"run", "busy"}
    BY <2>1
  <2>3. Posted(w)' <=> Posted(w)
    BY <1>1, <1>2 DEF Posted
  <2> QED BY <1>1, <2>2, <2>3, SameWorkerLeft DEF memory
<1>4. (mpc \notin Sharing => mpc' = mpc) /\ (mpc \in Sharing => mpc' \in Sharing)
  BY <1>2 DEF Sharing
<1> QED BY <1>1, <1>3, <1>4, QuietWorker

(* Taking the list makes the posted slice the worker's own.                   *)
LEMMA RefineWorkerTakes ==
  ASSUME IInv, NEW x \in Workers, WorkerTakes(x)
  PROVE  Hidden
<1> USE DEF WorkerTakes, flags, main
<1>1. UNCHANGED <<memory, count, mi, mpc>>
  OBVIOUS
<1>2. Open(x) /\ mpc \in Sharing /\ active = phase
  BY DEF IInv, WorkerInv, MainInv, Open, Sharing
<1>3. ASSUME NEW w \in Crew PROVE WorkerLeft(w)' = WorkerLeft(w)
  <2>1. w \in Workers /\ wpc \in [Workers -> WorkerPlaces] /\ wi \in [Workers -> Nat]
        /\ hasWork \in [Workers -> BOOLEAN]
    BY <1>3, CrewWorks DEF IInv, Typed
  <2>2. CASE w = x
    <3>1. WorkerLeft(w) = SliceBegin(phase, w) + 1 .. SliceEnd(phase, w)
      BY <2>2 DEF WorkerLeft
    <3>2. wpc'[w] = "run" /\ wi'[w] = SliceBegin(phase, w)
      BY <1>2, <2>1, <2>2
    <3>3. SliceEnd(phase, w)' = SliceEnd(phase, w)
      BY <1>1, SlicesStay DEF memory
    <3> QED BY <3>1, <3>2, <3>3 DEF WorkerLeft
  <2>3. CASE w # x
    <3>1. wpc'[w] = wpc[w] /\ wi'[w] = wi[w] /\ hasWork'[w] = hasWork[w]
      BY <2>1, <2>3
    <3>2. Posted(w)' <=> Posted(w)
      BY <1>1 DEF Posted
    <3> QED BY <1>1, <3>1, <3>2, SameWorkerLeft DEF memory
  <2> QED BY <2>2, <2>3
<1> QED BY <1>1, <1>2, <1>3, QuietWorker

(* A worker completes its part when nothing of its slice is left.             *)
LEMMA RefineWorkerCompletes ==
  ASSUME IInv, NEW x \in Workers, WorkerCompletes(x)
  PROVE  Hidden
<1> USE DEF WorkerCompletes, flags, main
<1>1. UNCHANGED <<memory, count, mi, mpc, hasWork, wi>>
  OBVIOUS
<1>2. /\ Open(x) /\ ~hasWork[x] /\ wfns[x] = phase
      /\ wi[x] \in Nat /\ wi[x] = SliceEnd(phase, x)
  BY DEF IInv, Typed, WorkerInv
<1>3. Posted(x)
  BY <1>2 DEF Open, Posted
<1>4. mpc \in Sharing
  BY <1>2 DEF Open, Sharing
<1>5. ASSUME NEW w \in Crew PROVE WorkerLeft(w)' = WorkerLeft(w)
  <2>1. w \in Workers /\ wpc \in [Workers -> WorkerPlaces]
    BY <1>5, CrewWorks DEF IInv, Typed
  <2>2. Posted(w)' <=> Posted(w)
    BY <1>1 DEF Posted
  <2>3. CASE w = x
    <3>1. WorkerLeft(w) = {}
      BY <1>2, <2>3 DEF WorkerLeft
    <3>2. wpc'[w] = "notify" /\ ~hasWork'[w]
      BY <1>2, <2>1, <2>3
    <3>3. WorkerLeft(w)' = {}
      BY <1>3, <2>2, <2>3, <3>2 DEF WorkerLeft
    <3> QED BY <3>1, <3>3
  <2>4. CASE w # x
    <3>1. wpc'[w] = wpc[w]
      BY <2>1, <2>4
    <3> QED BY <1>1, <2>2, <3>1, SameWorkerLeft DEF memory
  <2> QED BY <2>3, <2>4
<1> QED BY <1>1, <1>4, <1>5, QuietWorker

(* What a worker has to do lies in its own slice.                             *)
LEMMA WorkerLeftInSlice ==
  ASSUME IInv, NEW w \in Crew, count # 0
  PROVE  WorkerLeft(w) \subseteq SliceBegin(phase, w) + 1 .. SliceEnd(phase, w)
<1>1. w \in Workers /\ w \in Nat
  BY CrewWorks DEF IInv
<1>2. SliceBegin(phase, w) \in Nat /\ SliceEnd(phase, w) \in Nat
  BY <1>1, SliceBounds DEF IInv
<1>3. CASE wpc[w] \in {"run", "busy"}
  <2>1. wi[w] \in Nat /\ SliceBegin(phase, w) <= wi[w]
    BY <1>1, <1>3, WorkerPosition
  <2> QED BY <1>2, <1>3, <2>1 DEF WorkerLeft
<1>4. CASE wpc[w] \notin {"run", "busy"}
  BY <1>4 DEF WorkerLeft
<1> QED BY <1>3, <1>4

(* The end of a worker's function is one Run of the abstract step.            *)
LEMMA RefineWorkerFnEnds ==
  ASSUME IInv, NEW x \in Workers, WorkerFnEnds(x)
  PROVE  Promise!Run(wi[x] + 1) /\ wi[x] + 1 \in Left
<1> USE DEF WorkerFnEnds, flags, main
<1> DEFINE i == wi[x] + 1
<1>1. UNCHANGED <<pkg, step, phase, count, mi, mpc, hasWork>>
  OBVIOUS
<1>2. /\ count # 0 /\ x \in Crew /\ x \in Nat /\ Open(x) /\ wfns[x] = phase
      /\ wi[x] \in Nat /\ SliceBegin(phase, x) \in Nat /\ SliceEnd(phase, x) \in Nat
      /\ SliceBegin(phase, x) <= wi[x] /\ wi[x] < SliceEnd(phase, x)
  BY WorkerPosition
<1>3. mpc \in Sharing /\ mpc' \in Sharing
  BY <1>1, <1>2 DEF Open, Sharing
<1>4. WorkerLeft(x) = i .. SliceEnd(phase, x)
  BY DEF WorkerLeft
<1>5. WorkerLeft(x)' = WorkerLeft(x) \ {i}
  <2>1. wpc'[x] = "run" /\ wi'[x] = i
    BY DEF IInv, Typed
  <2>2. SliceEnd(phase, x)' = SliceEnd(phase, x)
    BY <1>1, SlicesStay
  <2>3. WorkerLeft(x)' = i + 1 .. SliceEnd(phase, x)
    BY <2>1, <2>2 DEF WorkerLeft
  <2> QED BY <1>2, <1>4, <2>3
<1>6. ASSUME NEW w \in Crew, w # x
      PROVE  WorkerLeft(w)' = WorkerLeft(w) \ {i}
  <2>1. w \in Workers /\ w \in Nat /\ wpc \in [Workers -> WorkerPlaces] /\ wi \in [Workers -> Nat]
    BY <1>6, CrewWorks DEF IInv, Typed
  <2>2. wpc'[w] = wpc[w] /\ wi'[w] = wi[w]
    BY <1>6, <2>1
  <2>3. Posted(w)' <=> Posted(w)
    BY <1>1 DEF Posted
  <2>4. WorkerLeft(w)' = WorkerLeft(w)
    BY <1>1, <2>2, <2>3, SameWorkerLeft
  <2>5. SliceBegin(phase, w) \in Nat /\ SliceEnd(phase, w) \in Nat
    BY <1>2, <2>1, SliceBounds DEF IInv
  <2>6. x < w => SliceEnd(phase, x) <= SliceBegin(phase, w)
    BY <1>2, <2>1, SlicesApart DEF IInv
  <2>7. w < x => SliceEnd(phase, w) <= SliceBegin(phase, x)
    BY <1>2, <2>1, SlicesApart DEF IInv
  <2>8. i \notin SliceBegin(phase, w) + 1 .. SliceEnd(phase, w)
    BY <1>2, <1>6, <2>1, <2>5, <2>6, <2>7
  <2>9. i \notin WorkerLeft(w)
    BY <1>2, <2>8, WorkerLeftInSlice
  <2> QED BY <2>4, <2>9
<1>7. i \in WorkerLeft(x)
  BY <1>2, <1>4
<1> HIDE DEF i
<1>8. Left' = Left \ {i}
  <2>1. Crew' = Crew
    BY <1>1 DEF Crew
  <2>2. Left' = UNION {WorkerLeft(w)' : w \in Crew}
    BY <1>3, <2>1 DEF Left, Sharing, Crew
  <2>3. \A w \in Crew : WorkerLeft(w)' = WorkerLeft(w) \ {i}
    BY <1>5, <1>6
  <2>4. Left' = UNION {WorkerLeft(w) \ {i} : w \in Crew}
    BY <2>2, <2>3
  <2> QED BY <1>3, <2>4, SharedLeft
<1>9. i \in Left
  BY <1>2, <1>3, <1>7, SharedLeft
<1>10. Promise!CallFn(phase, i)
  BY <1>2, SameCall DEF i
<1>11. Promise!Run(i)
  BY <1>1, <1>8, <1>9, <1>10 DEF Promise!Run
<1> QED BY <1>9, <1>11 DEF i

(* Every step of the threads is a step of StepPhases, or none of them.        *)
LEMMA RefineNext ==
  ASSUME IInv, IInv', [Next]_vars
  PROVE  [Promise!PhaseNext]_(Promise!phaseVars)
<1>0. Hidden => UNCHANGED Promise!phaseVars
  BY DEF Hidden, memory, Promise!phaseVars, Promise!memory
<1>1. CASE MainStep
  <2>1. ASSUME NEW requested \in Requests, NEW cpus \in 0..MaxCpus, Construct(requested, cpus)
        PROVE  Promise!PhaseNext
    BY <2>1, RefineConstruct DEF Promise!PhaseNext
  <2>2. CASE Step
    BY <2>2, RefineStep DEF Promise!PhaseNext
  <2>3. CASE HostFnEnds
    BY <2>3, RefineHostFnEnds DEF Promise!PhaseNext
  <2>4. CASE EnterPhase
    BY <2>4, RefineEnterPhase DEF Promise!PhaseNext
  <2>5. CASE Destroy
    BY <2>5, RefineDestroy DEF Promise!PhaseNext
  <2>6. CASE Spawn \/ HostFnBegins \/ HostPhaseEnds \/ Post \/ Notify \/ AwaitSleeps \/ AwaitPasses
             \/ LeavePhase \/ Halt \/ HaltNotify \/ Join
    BY <1>0, <2>6, RefineQuiet, RefineHostFnBegins, RefineHostPhaseEnds, RefinePost, RefineNotify,
       RefineAwait, RefineLeavePhase
  <2> QED BY <1>1, <2>1, <2>2, <2>3, <2>4, <2>5, <2>6 DEF MainStep
<1>2. CASE MainWakesUp
  BY <1>0, <1>2, RefineAwait
<1>3. ASSUME NEW w \in Workers, WorkerStep(w) \/ WorkerWakesUp(w)
      PROVE  [Promise!PhaseNext]_(Promise!phaseVars)
  <2>1. CASE WorkerFnEnds(w)
    BY <2>1, RefineWorkerFnEnds DEF Promise!PhaseNext
  <2>2. CASE ~WorkerFnEnds(w)
    BY <1>0, <1>3, <2>2, RefineQuietWorker, RefineWorkerTakes, RefineWorkerCompletes DEF WorkerStep
  <2> QED BY <2>1, <2>2
<1>4. CASE UNCHANGED vars
  <2>1. UNCHANGED Left
    BY <1>4 DEF vars, memory, flags, main, worker, Left, WorkerLeft, Posted, SliceBegin, SliceEnd, Fns
  <2> QED BY <1>0, <1>4, <2>1 DEF vars, Hidden
<1> QED BY <1>1, <1>2, <1>3, <1>4 DEF Next

(* The workers implement the serial promise: each function of a phase runs    *)
(* exactly once, and the next phase waits for the last of them.               *)
THEOREM WorkersImplementPhases == Spec => RefinesStep
<1>1. IInv /\ IInv' /\ [Next]_vars => [Promise!PhaseNext]_(Promise!phaseVars)
  BY RefineNext
<1> QED BY <1>1, RefineInit, Invariance, PTL DEF Spec, RefinesStep, Promise!PhaseSpec
-------------------------------------------------------------------------------
(* What the members hold, at every point of a step.                           *)

(* A function of the list is at one place of it.                              *)
LEMMA ListsHaveNoDuplicates ==
  ASSUME pkg \in Packages, NEW p \in Phases
  PROVE  /\ Fns(p) \in Seq(Elements(pkg.evals))
         /\ \A i, j \in 1..Len(Fns(p)) : Fns(p)[i] = Fns(p)[j] => i = j
<1>1. \A o \in {pkg.loads, pkg.evals, pkg.updates} :
        /\ o \in Seq(Elements(pkg.evals))
        /\ \A i, j \in 1..Len(o) : o[i] = o[j] => i = j
  BY PackageFacts DEF Orderly
<1>2. Fns(p) \in {pkg.loads, pkg.evals, pkg.updates}
  BY DEF Fns, Phases
<1> HIDE DEF Fns
<1> QED BY <1>1, <1>2

\* The function of u has not ended.
Waiting(u) == \E i \in Left : Fns(phase)[i] = u

\* What drives slot s, after its k-th turn.
Version(s, k) == IF k = 0 THEN Zero ELSE [from |-> pkg.from[s], at |-> k]

SyncTyped ==
  /\ step \in Nat
  /\ phase \in Phases \cup {"idle", "off"}
  /\ phase \in Phases => step # 0
  /\ phase # "off" => pkg.ok
  /\ DOMAIN held = DOMAIN pkg.from
  /\ evals \in [Elements(pkg.evals) -> Int]
  /\ Left \subseteq 1..Len(Fns(phase))

EvalsAt(u) ==
  evals[u] = IF phase = "load" \/ (phase = "eval" /\ Waiting(u)) THEN step - 1 ELSE step
TopAt(s) ==
  (phase = "load" /\ ~Waiting(s[1])) \/ phase = "eval" => held[s] = Version(s, step)
ConstAt(s) ==
  phase # "off" => held[s] = [from |-> pkg.from[s], at |-> 0]
\* A push of the update phase brings a slot from the last step to this one.
UnitBehind(s) ==
  phase \in {"load", "eval"} \/ (phase = "update" /\ Waiting(pkg.from[s].unit))
UnitAt(s) == held[s] = Version(s, IF UnitBehind(s) THEN step - 1 ELSE step)
SlotAt(s) ==
  /\ pkg.from[s].kind = "top" => TopAt(s)
  /\ pkg.from[s].kind = "const" => ConstAt(s)
  /\ pkg.from[s].kind = "unit" => UnitAt(s)

SyncInv ==
  /\ SyncTyped
  /\ \A u \in Elements(pkg.evals) : EvalsAt(u)
  /\ \A s \in DOMAIN pkg.from : SlotAt(s)

LEMMA SyncInit == Init => SyncInv
<1> SUFFICES ASSUME Init PROVE SyncInv
  OBVIOUS
<1> USE DEF Init, MemoryInit
<1>1. Left = {}
  BY DEF Left
<1>2. SyncTyped
  BY <1>1 DEF SyncTyped, Phases
<1>3. ASSUME NEW u \in Elements(pkg.evals) PROVE EvalsAt(u)
  BY <1>3 DEF EvalsAt
<1>4. ASSUME NEW s \in DOMAIN pkg.from PROVE SlotAt(s)
  BY <1>4 DEF SlotAt, TopAt, ConstAt, UnitAt, UnitBehind, Version
<1> QED BY <1>2, <1>3, <1>4 DEF SyncInv

LEMMA FilledAt ==
  ASSUME NEW S, NEW k, NEW s \in DOMAIN held, held' = Filled(S, k)
  PROVE  /\ DOMAIN held' = DOMAIN held
         /\ s \in S => held'[s] = [from |-> pkg.from[s], at |-> k]
         /\ s \notin S => held'[s] = held[s]
  BY DEF Filled

(* The constants arrive; nothing else moves.                                  *)
LEMMA SyncSwitchOn ==
  ASSUME SyncInv, Promise!SwitchOn
  PROVE  SyncInv'
<1>1. /\ phase = "off" /\ pkg.ok /\ step = 0 /\ phase' = "idle"
      /\ UNCHANGED <<pkg, step, Left, evals>>
  BY DEF Promise!SwitchOn
<1>2. held' = Filled(ConstSlots, 0)
  BY DEF Promise!SwitchOn, Promise!Filled, Promise!ConstSlots, Filled, ConstSlots
<1>3. Fns(phase)' = Fns(phase)
  BY <1>1 DEF Fns
<1>4. DOMAIN held' = DOMAIN held
  BY <1>2 DEF Filled
<1>5. SyncTyped'
  BY <1>1, <1>3, <1>4 DEF SyncInv, SyncTyped, Phases
<1>6. ASSUME NEW u \in Elements(pkg.evals)' PROVE EvalsAt(u)'
  BY <1>1, <1>6 DEF SyncInv, EvalsAt, Elements
<1>7. ASSUME NEW s \in (DOMAIN pkg.from)' PROVE SlotAt(s)'
  <2>1. s \in DOMAIN pkg.from /\ s \in DOMAIN held /\ SlotAt(s)
    BY <1>1, <1>7 DEF SyncInv, SyncTyped
  <2>2. s \in ConstSlots <=> pkg.from[s].kind = "const"
    BY <2>1 DEF ConstSlots
  <2>3. CASE pkg.from[s].kind = "const"
    BY <1>1, <1>2, <2>1, <2>2, <2>3, FilledAt DEF SlotAt, ConstAt
  <2>4. CASE pkg.from[s].kind # "const"
    <3>1. held'[s] = held[s]
      BY <1>2, <2>1, <2>2, <2>4, FilledAt
    <3> QED BY <1>1, <2>1, <2>4, <3>1 DEF SlotAt, TopAt, UnitAt, UnitBehind, Version
  <2> QED BY <2>3, <2>4
<1> QED BY <1>5, <1>6, <1>7 DEF SyncInv

(* The end, and the steps that are hidden.                                    *)
LEMMA SyncSwitchOff ==
  ASSUME SyncInv, Promise!SwitchOff
  PROVE  SyncInv'
<1>1. /\ phase = "idle" /\ phase' = "off"
      /\ UNCHANGED <<pkg, step, Left, held, evals>>
  BY DEF Promise!SwitchOff
<1>2. Fns(phase)' = Fns(phase)
  BY <1>1 DEF Fns
<1>3. SyncTyped'
  BY <1>1, <1>2 DEF SyncInv, SyncTyped, Phases
<1>4. ASSUME NEW u \in Elements(pkg.evals)' PROVE EvalsAt(u)'
  BY <1>1, <1>4 DEF SyncInv, EvalsAt, Elements
<1>5. ASSUME NEW s \in (DOMAIN pkg.from)' PROVE SlotAt(s)'
  BY <1>1, <1>5 DEF SyncInv, SlotAt, TopAt, ConstAt, UnitAt, UnitBehind, Version
<1> QED BY <1>3, <1>4, <1>5 DEF SyncInv

LEMMA SyncHidden ==
  ASSUME SyncInv, Hidden
  PROVE  SyncInv'
<1>1. UNCHANGED <<pkg, step, phase, held, evals, Left>>
  BY DEF Hidden, memory
<1>2. Fns(phase)' = Fns(phase)
  BY <1>1 DEF Fns
<1>3. \A u : Waiting(u)' <=> Waiting(u)
  BY <1>1, <1>2 DEF Waiting
<1>4. SyncTyped'
  BY <1>1, <1>2 DEF SyncInv, SyncTyped
<1>5. ASSUME NEW u \in Elements(pkg.evals)' PROVE EvalsAt(u)'
  BY <1>1, <1>3, <1>5 DEF SyncInv, EvalsAt, Elements
<1>6. ASSUME NEW s \in (DOMAIN pkg.from)' PROVE SlotAt(s)'
  BY <1>1, <1>3, <1>6 DEF SyncInv, SlotAt, TopAt, ConstAt, UnitAt, UnitBehind, Version
<1> QED BY <1>4, <1>5, <1>6 DEF SyncInv

(* A step begins: every version is now one behind, and every slot of the top  *)
(* waits for the load function of its unit.                                   *)
LEMMA SyncBegin ==
  ASSUME Typed, SyncInv, Promise!Begin
  PROVE  SyncInv'
<1>1. /\ phase = "idle" /\ phase' = "load" /\ step' = step + 1
      /\ UNCHANGED <<pkg, held, evals>>
  BY DEF Promise!Begin
<1>2. Fns(phase)' = pkg.loads /\ Left' = 1..Len(pkg.loads)
  BY <1>1 DEF Promise!Begin, Promise!Fns, Fns
<1>3. step \in Nat /\ pkg.ok /\ DOMAIN held = DOMAIN pkg.from
  BY <1>1 DEF SyncInv, SyncTyped
<1>4. Faithful(pkg)
  BY <1>3, PackageFacts DEF Typed
<1>5. SyncTyped'
  BY <1>1, <1>2, <1>3 DEF SyncInv, SyncTyped, Phases, Elements
<1>6. ASSUME NEW u \in Elements(pkg.evals)' PROVE EvalsAt(u)'
  <2>1. evals[u] = step
    BY <1>1, <1>6 DEF SyncInv, EvalsAt, Elements
  <2> QED BY <1>1, <1>3, <2>1 DEF EvalsAt
<1>7. ASSUME NEW s \in (DOMAIN pkg.from)' PROVE SlotAt(s)'
  <2>1. s \in DOMAIN pkg.from /\ SlotAt(s)
    BY <1>1, <1>7 DEF SyncInv
  <2>2. CASE pkg.from[s].kind = "top"
    <3>1. s[1] \in Elements(pkg.loads)
      BY <1>4, <2>1, <2>2 DEF Faithful, DriversFaithful, ListsFaithful
    <3>2. Waiting(s[1])'
      BY <1>2, <3>1 DEF Waiting, Elements
    <3> QED BY <1>1, <2>2, <3>2 DEF SlotAt, TopAt
  <2>3. CASE pkg.from[s].kind = "const"
    BY <1>1, <2>1, <2>3 DEF SlotAt, ConstAt
  <2>4. CASE pkg.from[s].kind = "unit"
    <3>1. held[s] = Version(s, step)
      BY <1>1, <2>1, <2>4 DEF SlotAt, UnitAt, UnitBehind
    <3>2. step' - 1 = step
      BY <1>1, <1>3
    <3> QED BY <1>1, <2>4, <3>1, <3>2 DEF SlotAt, UnitAt, UnitBehind, Version
  <2> QED BY <1>1, <2>2, <2>3, <2>4 DEF SlotAt
<1> QED BY <1>5, <1>6, <1>7 DEF SyncInv

(* A phase is over: whatever waited has had its turn, and the next list       *)
(* starts with everybody waiting.                                             *)
LEMMA SyncAdvance ==
  ASSUME Typed, SyncInv, Promise!Advance
  PROVE  SyncInv'
<1>1. /\ phase \in Phases /\ Left = {} /\ phase' = NextPhase(phase)
      /\ UNCHANGED <<pkg, step, held, evals>>
  BY DEF Promise!Advance, Promise!Phases, Promise!NextPhase, Phases, NextPhase
<1>2. Fns(phase)' = Fns(phase') /\ Left' = 1..Len(Fns(phase'))
  BY <1>1, SameFns DEF Promise!Advance, Fns
<1>3. /\ step \in Nat /\ step # 0 /\ pkg.ok /\ DOMAIN held = DOMAIN pkg.from
  BY <1>1 DEF SyncInv, SyncTyped, Phases
<1>4. Faithful(pkg)
  BY <1>3, PackageFacts DEF Typed
<1>5. \A u : ~Waiting(u)
  BY <1>1 DEF Waiting
<1>6. \/ phase = "load" /\ phase' = "eval"
      \/ phase = "eval" /\ phase' = "update"
      \/ phase = "update" /\ phase' = "idle"
  BY <1>1 DEF Phases, NextPhase
<1>7. SyncTyped'
  <2>1. evals' \in [Elements(pkg.evals)' -> Int]
    BY <1>1 DEF SyncInv, SyncTyped, Elements
  <2> QED BY <1>1, <1>2, <1>3, <1>6, <2>1 DEF SyncTyped, Phases
<1>8. ASSUME NEW u \in Elements(pkg.evals)' PROVE EvalsAt(u)'
  <2>1. u \in Elements(pkg.evals) /\ EvalsAt(u)
    BY <1>1, <1>8 DEF SyncInv, Elements
  <2>2. CASE phase = "load"
    <3>1. evals[u] = step - 1
      BY <2>1, <2>2 DEF EvalsAt
    <3>2. Fns(phase)' = pkg.evals /\ Left' = 1..Len(pkg.evals) /\ phase' = "eval"
      BY <1>2, <1>6, <2>2 DEF Fns
    <3>3. Waiting(u)'
      BY <2>1, <3>2 DEF Waiting, Elements
    <3> QED BY <1>1, <3>1, <3>2, <3>3 DEF EvalsAt
  <2>3. CASE phase # "load"
    <3>1. evals[u] = step
      BY <1>5, <2>1, <2>3 DEF EvalsAt
    <3>2. phase' \notin {"load", "eval"}
      BY <1>6, <2>3
    <3> QED BY <1>1, <3>1, <3>2 DEF EvalsAt
  <2> QED BY <2>2, <2>3
<1>9. ASSUME NEW s \in (DOMAIN pkg.from)' PROVE SlotAt(s)'
  <2>1. s \in DOMAIN pkg.from /\ SlotAt(s)
    BY <1>1, <1>9 DEF SyncInv
  <2>2. CASE pkg.from[s].kind = "top"
    <3>1. phase' = "eval" => held[s] = Version(s, step)
      BY <1>5, <1>6, <2>1, <2>2 DEF SlotAt, TopAt
    <3>2. phase' # "load"
      BY <1>6
    <3> QED BY <1>1, <2>2, <3>1, <3>2 DEF SlotAt, TopAt, Version
  <2>3. CASE pkg.from[s].kind = "const"
    BY <1>1, <1>6, <2>1, <2>3 DEF SlotAt, ConstAt
  <2>4. CASE pkg.from[s].kind = "unit"
    <3>1. UnitBehind(s)' <=> UnitBehind(s)
      <4>1. CASE phase = "load"
        BY <1>6, <4>1 DEF UnitBehind
      <4>2. CASE phase = "eval"
        <5>1. Fns(phase)' = pkg.updates /\ Left' = 1..Len(pkg.updates) /\ phase' = "update"
          BY <1>2, <1>6, <4>2 DEF Fns
        <5>2. pkg.from[s].unit \in Elements(pkg.updates)
          BY <1>4, <2>1, <2>4 DEF Faithful, DriversFaithful, ListsFaithful
        <5>3. Waiting(pkg.from[s].unit)'
          BY <1>1, <5>1, <5>2 DEF Waiting, Elements
        <5> QED BY <4>2, <5>1, <5>3 DEF UnitBehind
      <4>3. CASE phase = "update"
        BY <1>5, <1>6, <4>3 DEF UnitBehind
      <4> QED BY <1>6, <4>1, <4>2, <4>3
    <3> QED BY <1>1, <2>1, <2>4, <3>1 DEF SlotAt, UnitAt, Version
  <2> QED BY <1>1, <2>2, <2>3, <2>4 DEF SlotAt
<1> QED BY <1>7, <1>8, <1>9 DEF SyncInv

(* The end of one function: its unit no longer waits, the others do as before.*)
LEMMA WaitingAfterRun ==
  ASSUME Typed, SyncTyped, phase \in Phases, NEW i \in Left, Left' = Left \ {i},
         UNCHANGED <<pkg, phase>>
  PROVE  /\ Fns(phase)[i] \in Elements(pkg.evals)
         /\ Waiting(Fns(phase)[i])
         /\ \A u : Waiting(u)' <=> Waiting(u) /\ u # Fns(phase)[i]
<1>1. /\ Fns(phase) \in Seq(Elements(pkg.evals))
      /\ \A j, k \in 1..Len(Fns(phase)) : Fns(phase)[j] = Fns(phase)[k] => j = k
  BY ListsHaveNoDuplicates DEF Typed
<1>2. Left \subseteq 1..Len(Fns(phase))
  BY DEF SyncTyped
<1>3. Fns(phase)' = Fns(phase)
  BY DEF Fns
<1> HIDE DEF Fns
<1>4. Fns(phase)[i] \in Elements(pkg.evals)
  BY <1>1, <1>2
<1>5. ASSUME NEW u PROVE Waiting(u)' <=> Waiting(u) /\ u # Fns(phase)[i]
  BY <1>1, <1>2, <1>3 DEF Waiting
<1>6. Waiting(Fns(phase)[i])
  BY DEF Waiting
<1> QED BY <1>4, <1>5, <1>6

(* run_load_u_, run_eval_u_ and run_update_u_ bring what they write up to date. *)
LEMMA SyncRun ==
  ASSUME Typed, SyncInv, NEW i \in Left, Promise!Run(i)
  PROVE  SyncInv'
<1> DEFINE f == Fns(phase)[i]
<1>1. Left' = Left \ {i} /\ UNCHANGED <<pkg, step, phase>> /\ CallFn(phase, i)
  BY SameCall DEF Promise!Run
<1>2. phase \in Phases
  BY <1>1 DEF CallFn, Phases
<1>3. /\ f \in Elements(pkg.evals) /\ Waiting(f)
      /\ \A u : Waiting(u)' <=> Waiting(u) /\ u # f
  BY <1>1, <1>2, WaitingAfterRun DEF SyncInv
<1>4. \/ phase = "load" /\ LoadFn(f)
      \/ phase = "eval" /\ EvalFn(f)
      \/ phase = "update" /\ UpdateFn(f)
  BY <1>1 DEF CallFn
<1>5. Fns(phase)' = Fns(phase)
  BY <1>1 DEF Fns
<1> HIDE DEF f
<1>6. /\ step \in Nat /\ DOMAIN held = DOMAIN pkg.from
      /\ evals \in [Elements(pkg.evals) -> Int]
  BY DEF SyncInv, SyncTyped
<1>7. SyncTyped'
  <2>1. DOMAIN held' = DOMAIN held
    BY <1>4 DEF LoadFn, EvalFn, UpdateFn, Filled
  <2>2. evals' \in [Elements(pkg.evals)' -> Int]
    <3>1. Elements(pkg.evals)' = Elements(pkg.evals)
      BY <1>1 DEF Elements
    <3>2. evals' = evals \/ evals' = [evals EXCEPT ![f] = @ + 1]
      BY <1>4 DEF LoadFn, EvalFn, UpdateFn
    <3> QED BY <1>3, <1>6, <3>1, <3>2
  <2> QED BY <1>1, <1>5, <1>6, <2>1, <2>2 DEF SyncInv, SyncTyped
<1>8. ASSUME NEW u \in Elements(pkg.evals)' PROVE EvalsAt(u)'
  <2>1. u \in Elements(pkg.evals) /\ EvalsAt(u)
    BY <1>1, <1>8 DEF SyncInv, Elements
  <2>2. CASE phase = "eval"
    <3>1. evals' = [evals EXCEPT ![f] = @ + 1]
      BY <1>4, <2>2 DEF EvalFn
    <3>2. CASE u = f
      BY <1>1, <1>3, <1>6, <2>1, <2>2, <3>1, <3>2 DEF EvalsAt
    <3>3. CASE u # f
      BY <1>1, <1>3, <1>6, <2>1, <2>2, <3>1, <3>3 DEF EvalsAt
    <3> QED BY <3>2, <3>3
  <2>3. CASE phase # "eval"
    <3>1. evals' = evals
      BY <1>4, <2>3 DEF LoadFn, UpdateFn
    <3> QED BY <1>1, <2>1, <2>3, <3>1 DEF EvalsAt
  <2> QED BY <2>2, <2>3
<1>9. ASSUME NEW s \in (DOMAIN pkg.from)' PROVE SlotAt(s)'
  <2>1. s \in DOMAIN pkg.from /\ s \in DOMAIN held /\ SlotAt(s)
    BY <1>1, <1>6, <1>9 DEF SyncInv
  <2>2. CASE phase = "load"
    <3>1. held' = Filled(TopSlots(f), step)
      BY <1>4, <2>2 DEF LoadFn
    <3>2. s \in TopSlots(f) <=> s[1] = f /\ pkg.from[s].kind = "top"
      BY <2>1 DEF TopSlots
    <3>3. CASE s \in TopSlots(f)
      <4>1. held'[s] = Version(s, step)
        <5>1. step # 0
          BY <2>2 DEF SyncInv, SyncTyped, Phases
        <5> QED BY <2>1, <3>1, <3>3, <5>1, FilledAt DEF Version
      <4> QED BY <1>1, <3>2, <3>3, <4>1 DEF SlotAt, TopAt, Version
    <3>4. CASE s \notin TopSlots(f)
      <4>1. held'[s] = held[s]
        BY <2>1, <3>1, <3>4, FilledAt
      <4>2. pkg.from[s].kind = "top" => (Waiting(s[1])' <=> Waiting(s[1]))
        BY <1>3, <3>2, <3>4
      <4> QED BY <1>1, <2>1, <2>2, <4>1, <4>2
              DEF SlotAt, TopAt, ConstAt, UnitAt, UnitBehind, Version
    <3> QED BY <3>3, <3>4
  <2>3. CASE phase = "eval"
    <3>1. held' = held
      BY <1>4, <2>3 DEF EvalFn
    <3> QED BY <1>1, <2>1, <2>3, <3>1 DEF SlotAt, TopAt, ConstAt, UnitAt, UnitBehind, Version
  <2>4. CASE phase = "update"
    <3>1. held' = Filled(PushedSlots(f), evals[f])
      BY <1>4, <2>4 DEF UpdateFn
    <3>2. s \in PushedSlots(f) <=> pkg.from[s].kind = "unit" /\ pkg.from[s].unit = f
      BY <2>1 DEF PushedSlots
    <3>3. CASE s \in PushedSlots(f)
      <4>1. evals[f] = step /\ step # 0
        BY <1>3, <2>4 DEF SyncInv, SyncTyped, EvalsAt, Phases
      <4>2. held'[s] = Version(s, step)
        BY <2>1, <3>1, <3>3, <4>1, FilledAt DEF Version
      <4>3. ~Waiting(pkg.from[s].unit)'
        BY <1>1, <1>3, <3>2, <3>3 DEF Waiting
      <4> QED BY <1>1, <2>4, <3>2, <3>3, <4>2, <4>3 DEF SlotAt, UnitAt, UnitBehind, Version
    <3>4. CASE s \notin PushedSlots(f)
      <4>1. held'[s] = held[s]
        BY <2>1, <3>1, <3>4, FilledAt
      <4>2. pkg.from[s].kind = "unit" =>
              (Waiting(pkg.from[s].unit)' <=> Waiting(pkg.from[s].unit))
        BY <1>1, <1>3, <3>2, <3>4 DEF Waiting
      <4> QED BY <1>1, <2>1, <2>4, <4>1, <4>2
              DEF SlotAt, TopAt, ConstAt, UnitAt, UnitBehind, Version
    <3> QED BY <3>3, <3>4
  <2> QED BY <1>2, <2>2, <2>3, <2>4 DEF Phases
<1> QED BY <1>7, <1>8, <1>9 DEF SyncInv

(* Every member holds the version that the point of the step asks for, in     *)
(* every reachable state.                                                     *)
THEOREM MembersAreUpToDate == Spec => []SyncInv
<1>1. IInv /\ IInv' /\ [Next]_vars /\ SyncInv => SyncInv'
  <2> SUFFICES ASSUME IInv, IInv', [Next]_vars, SyncInv PROVE SyncInv'
    OBVIOUS
  <2>1. [Promise!PhaseNext]_(Promise!phaseVars)
    BY RefineNext
  <2>2. Typed
    BY DEF IInv
  <2>3. CASE UNCHANGED Promise!phaseVars
    BY <2>3, SyncHidden DEF Hidden, memory, Promise!phaseVars, Promise!memory
  <2>4. CASE Promise!PhaseNext
    BY <2>2, <2>4, SyncSwitchOn, SyncBegin, SyncAdvance, SyncSwitchOff, SyncRun
       DEF Promise!PhaseNext
  <2> QED BY <2>1, <2>3, <2>4
<1> QED BY <1>1, SyncInit, Invariance, PTL DEF Spec

(* What StepSynchronous says of one step.                                     *)
Synchronous ==
  /\ \A u \in DOMAIN evals :
       evals'[u] # evals[u] =>
         /\ evals'[u] = step
         /\ \A s \in InputSlots(u) : held[s] = Expected(s)
  /\ phase = "update" /\ phase' = "idle" =>
       \A s \in PortSlots(pkg.graph) :
         held[s] = [from |-> Source(pkg.graph, Wire(pkg.graph, s)), at |-> step]

(* While the units are evaluated, every slot holds what the netlist expects.  *)
LEMMA EvalSeesExpected ==
  ASSUME Typed, SyncInv, phase = "eval", NEW s \in DOMAIN pkg.from
  PROVE  held[s] = Expected(s)
<1>1. step \in Nat /\ step # 0 /\ pkg.ok
  BY DEF SyncInv, SyncTyped, Phases
<1>2. Faithful(pkg)
  BY <1>1, PackageFacts DEF Typed
<1>3. /\ pkg.from[s] = Source(pkg.graph, Wire(pkg.graph, s))
      /\ pkg.from[s].kind \in {"top", "const", "unit"}
  BY <1>2 DEF Faithful, DriversFaithful, ListsFaithful
<1>4. SlotAt(s)
  BY DEF SyncInv
<1> HIDE DEF Source, Wire
<1>5. CASE pkg.from[s].kind = "top"
  <2>1. held[s] = [from |-> pkg.from[s], at |-> step]
    BY <1>1, <1>4, <1>5 DEF SlotAt, TopAt, Version
  <2> QED BY <1>3, <1>5, <2>1 DEF Expected
<1>6. CASE pkg.from[s].kind = "const"
  <2>1. held[s] = [from |-> pkg.from[s], at |-> 0]
    BY <1>4, <1>6 DEF SlotAt, ConstAt
  <2> QED BY <1>3, <1>6, <2>1 DEF Expected
<1>7. CASE pkg.from[s].kind = "unit"
  <2>1. held[s] = Version(s, step - 1)
    BY <1>4, <1>7 DEF SlotAt, UnitAt, UnitBehind
  <2>2. step - 1 = 0 <=> step = 1
    BY <1>1
  <2>3. held[s] = IF step = 1 THEN Zero ELSE [from |-> pkg.from[s], at |-> step - 1]
    BY <2>1, <2>2 DEF Version
  <2> QED BY <1>3, <1>7, <2>3 DEF Expected
<1> QED BY <1>3, <1>5, <1>6, <1>7

LEMMA RunSynchronous ==
  ASSUME Typed, SyncInv, NEW i \in Left, Promise!Run(i)
  PROVE  Synchronous
<1> DEFINE f == Fns(phase)[i]
<1>1. Left' = Left \ {i} /\ UNCHANGED <<pkg, step, phase>> /\ CallFn(phase, i)
  BY SameCall DEF Promise!Run
<1>2. phase \in Phases
  BY <1>1 DEF CallFn, Phases
<1>3. f \in Elements(pkg.evals) /\ Waiting(f)
  BY <1>1, <1>2, WaitingAfterRun DEF SyncInv
<1>4. evals \in [Elements(pkg.evals) -> Int] /\ step \in Nat
  BY DEF SyncInv, SyncTyped
<1>5. CASE phase = "eval"
  <2>1. evals' = [evals EXCEPT ![f] = @ + 1]
    BY <1>1, <1>5 DEF CallFn, EvalFn
  <2>2. evals[f] = step - 1
    BY <1>3, <1>5 DEF SyncInv, EvalsAt
  <2> HIDE DEF f
  <2>3. ASSUME NEW u \in DOMAIN evals, evals'[u] # evals[u]
        PROVE  evals'[u] = step /\ \A s \in InputSlots(u) : held[s] = Expected(s)
    <3>1. u = f
      BY <1>4, <2>1, <2>3
    <3>2. evals'[u] = step
      BY <1>3, <1>4, <2>1, <2>2, <3>1
    <3>3. \A s \in DOMAIN pkg.from : held[s] = Expected(s)
      BY <1>5, EvalSeesExpected
    <3> QED BY <3>2, <3>3 DEF InputSlots
  <2> QED BY <1>1, <1>5, <2>3 DEF Synchronous
<1>6. CASE phase # "eval"
  <2>1. evals' = evals
    BY <1>1, <1>6 DEF CallFn, LoadFn, UpdateFn
  <2> QED BY <1>1, <2>1 DEF Synchronous
<1> QED BY <1>5, <1>6

LEMMA AdvanceSynchronous ==
  ASSUME Typed, SyncInv, Promise!Advance
  PROVE  Synchronous
<1>1. Left = {} /\ evals' = evals
  BY DEF Promise!Advance
<1>2. ASSUME phase = "update", NEW s \in PortSlots(pkg.graph)
      PROVE  held[s] = [from |-> Source(pkg.graph, Wire(pkg.graph, s)), at |-> step]
  <2>1. step # 0 /\ pkg.ok
    BY <1>2 DEF SyncInv, SyncTyped, Phases
  <2>2. Faithful(pkg)
    BY <2>1, PackageFacts DEF Typed
  <2>3. /\ s \in DOMAIN pkg.from /\ pkg.from[s].kind = "unit"
        /\ pkg.from[s] = Source(pkg.graph, Wire(pkg.graph, s))
    BY <1>2, <2>2 DEF Faithful, DriversFaithful, ListsFaithful
  <2>4. ~UnitBehind(s)
    BY <1>1, <1>2 DEF UnitBehind, Waiting
  <2>5. held[s] = Version(s, step)
    BY <2>3, <2>4 DEF SyncInv, SlotAt, UnitAt
  <2> QED BY <2>1, <2>3, <2>5 DEF Version
<1> QED BY <1>1, <1>2 DEF Synchronous

(* A step on any number of threads computes what the serial one does: each    *)
(* unit is evaluated once in it, on the inputs of this step, the constants    *)
(* and the others' outputs of the step before, and the outputs of the top are *)
(* this step's when step() returns.                                           *)
THEOREM StepsAreSynchronous == Spec => StepSynchronous
<1>1. IInv /\ IInv' /\ SyncInv /\ [Next]_vars => [Synchronous]_vars
  <2> SUFFICES ASSUME IInv, IInv', SyncInv, [Next]_vars PROVE Synchronous
    OBVIOUS
  <2>1. [Promise!PhaseNext]_(Promise!phaseVars)
    BY RefineNext
  <2>2. Typed
    BY DEF IInv
  <2>3. CASE UNCHANGED Promise!phaseVars
    <3>1. evals' = evals /\ phase' = phase
      BY <2>3 DEF Promise!phaseVars, Promise!memory
    <3> QED BY <3>1 DEF Synchronous
  <2>4. CASE Promise!SwitchOn \/ Promise!Begin \/ Promise!SwitchOff
    <3>1. evals' = evals /\ phase # "update"
      BY <2>4 DEF Promise!SwitchOn, Promise!Begin, Promise!SwitchOff
    <3> QED BY <3>1 DEF Synchronous
  <2>5. CASE Promise!Advance
    BY <2>2, <2>5, AdvanceSynchronous
  <2>6. ASSUME NEW i \in Left, Promise!Run(i) PROVE Synchronous
    BY <2>2, <2>6, RunSynchronous
  <2> QED BY <2>1, <2>3, <2>4, <2>5, <2>6 DEF Promise!PhaseNext
<1>2. StepSynchronous <=> [][Synchronous]_vars
  BY DEF StepSynchronous, Synchronous
<1> QED BY <1>1, <1>2, Invariance, MembersAreUpToDate, PTL DEF Spec
===============================================================================
