----------------------- MODULE DesignRegistry_proofs -----------------------
(***************************************************************************)
(* Theorems of DesignRegistry.  Both designs stay well formed (WellFormed) *)
(* under every call, and a clone in progress holds the part of its source  *)
(* that its loops have passed (CloneSoFar).                                *)
(***************************************************************************)
EXTENDS DesignRegistry, TLAPS, SequenceTheorems

Rng(list) == {list[i] : i \in DOMAIN list}

-----------------------------------------------------------------------------
(* Maps and lists.                                                         *)

LEMMA PutType ==
  ASSUME NEW S, NEW f \in MapsTo(S), NEW n \in Names, NEW v \in S
  PROVE  /\ Put(f, n, v) \in MapsTo(S)
         /\ DOMAIN Put(f, n, v) = DOMAIN f \cup {n}
         /\ \A m \in DOMAIN f \cup {n} : Put(f, n, v)[m] = IF m = n THEN v ELSE f[m]
<1>1. PICK D \in SUBSET Names : f \in [D -> S]
  BY DEF MapsTo
<1>2. Put(f, n, v) \in [D \cup {n} -> S]
  BY <1>1 DEF Put
<1>3. D \cup {n} \in SUBSET Names
  OBVIOUS
<1>. QED
  BY <1>2, <1>3 DEF MapsTo, Put

LEMMA DropType ==
  ASSUME NEW S, NEW f \in MapsTo(S), NEW n
  PROVE  /\ Drop(f, n) \in MapsTo(S)
         /\ DOMAIN Drop(f, n) = DOMAIN f \ {n}
         /\ \A m \in DOMAIN f \ {n} : Drop(f, n)[m] = f[m]
<1>1. PICK D \in SUBSET Names : f \in [D -> S]
  BY DEF MapsTo
<1>2. Drop(f, n) \in [D \ {n} -> S]
  BY <1>1 DEF Drop
<1>3. D \ {n} \in SUBSET Names
  OBVIOUS
<1>. QED
  BY <1>2, <1>3 DEF MapsTo, Drop

LEMMA MapsToApply ==
  ASSUME NEW S, NEW f \in MapsTo(S)
  PROVE  DOMAIN f \subseteq Names /\ \A m \in DOMAIN f : f[m] \in S
  BY DEF MapsTo

LEMMA MapsToIntro ==
  ASSUME NEW S, NEW D \in SUBSET Names, NEW f \in [D -> S]
  PROVE  f \in MapsTo(S)
  BY DEF MapsTo

LEMMA MapsToEqual ==
  ASSUME NEW S, NEW f \in MapsTo(S), NEW g \in MapsTo(S),
         DOMAIN f = DOMAIN g, \A m \in DOMAIN f : f[m] = g[m]
  PROVE  f = g
<1>1. PICK D \in SUBSET Names : f \in [D -> S]
  BY DEF MapsTo
<1>2. PICK E \in SUBSET Names : g \in [E -> S]
  BY DEF MapsTo
<1>3. f = [m \in DOMAIN f |-> f[m]] /\ g = [m \in DOMAIN g |-> g[m]]
  BY <1>1, <1>2
<1>4. [m \in DOMAIN f |-> f[m]] = [m \in DOMAIN g |-> g[m]]
  OBVIOUS
<1>. QED
  BY <1>3, <1>4

LEMMA AppendOnce ==
  ASSUME NEW S, NEW list \in Seq(S), NEW n \in S, Once(list), ~In(list, n)
  PROVE  /\ Append(list, n) \in Seq(S)
         /\ Len(Append(list, n)) = Len(list) + 1
         /\ \A i \in 1..Len(list) : Append(list, n)[i] = list[i]
         /\ Append(list, n)[Len(list) + 1] = n
         /\ Once(Append(list, n))
         /\ Rng(Append(list, n)) = Rng(list) \cup {n}
<1>1. DOMAIN list = 1..Len(list) /\ DOMAIN Append(list, n) = 1..(Len(list) + 1) /\ Len(list) \in Nat
  OBVIOUS
<1>2. \A i \in 1..Len(list) : Append(list, n)[i] = list[i]
  OBVIOUS
<1>3. Append(list, n)[Len(list) + 1] = n
  OBVIOUS
<1>4. Once(Append(list, n))
  BY <1>1, <1>2, <1>3 DEF Once, In
<1>5. Rng(Append(list, n)) = Rng(list) \cup {n}
  BY <1>1, <1>2, <1>3 DEF Rng
<1>. QED
  BY <1>1, <1>2, <1>3, <1>4, <1>5

LEMMA WithOnce ==
  ASSUME NEW S, NEW list \in Seq(S), NEW n \in S, Once(list)
  PROVE  With(list, n) \in Seq(S) /\ Once(With(list, n)) /\ Rng(With(list, n)) = Rng(list) \cup {n}
<1>1. CASE In(list, n)
  BY <1>1 DEF With, In, Rng
<1>2. CASE ~In(list, n)
  BY <1>2, AppendOnce DEF With
<1>. QED
  BY <1>1, <1>2

LEMMA WithoutOnce ==
  ASSUME NEW S, NEW list \in Seq(S), NEW n, Once(list)
  PROVE  /\ Without(list, n) \in Seq(S)
         /\ Len(Without(list, n)) <= Len(list)
         /\ Once(Without(list, n))
         /\ Rng(Without(list, n)) = Rng(list) \ {n}
<1>0. DOMAIN list = 1..Len(list) /\ Len(list) \in Nat /\ \A i \in 1..Len(list) : list[i] \in S
  OBVIOUS
<1>1. CASE ~In(list, n)
  BY <1>0, <1>1 DEF Without, In, Rng
<1>2. CASE In(list, n)
  <2>. DEFINE k == CHOOSE i \in DOMAIN list : list[i] = n
              new == [j \in 1..(Len(list) - 1) |-> IF j < k THEN list[j] ELSE list[j + 1]]
  <2>1. k \in 1..Len(list) /\ list[k] = n
    BY <1>0, <1>2 DEF In
  <2>2. Without(list, n) = new
    BY <1>2 DEF Without
  <2>. HIDE DEF k
  <2>3. Len(list) - 1 \in Nat
    BY <1>0, <2>1
  <2>4. \A j \in 1..(Len(list) - 1) : new[j] \in S
    BY <1>0, <2>1
  <2>5. new \in Seq(S) /\ Len(new) = Len(list) - 1 /\ DOMAIN new = 1..(Len(list) - 1)
    BY <2>3, <2>4
  <2>6. \A j \in 1..(Len(list) - 1) : new[j] = IF j < k THEN list[j] ELSE list[j + 1]
    OBVIOUS
  <2>. HIDE DEF new
  <2>7. Once(new)
    <3>. SUFFICES ASSUME NEW i \in 1..(Len(list) - 1), NEW j \in 1..(Len(list) - 1), new[i] = new[j]
                  PROVE  i = j
      BY <2>5 DEF Once
    <3>. DEFINE p == IF i < k THEN i ELSE i + 1
                q == IF j < k THEN j ELSE j + 1
    <3>1. p \in DOMAIN list /\ q \in DOMAIN list /\ list[p] = list[q]
      BY <1>0, <2>1, <2>6
    <3>2. p = q
      BY <3>1 DEF Once
    <3>. QED
      BY <3>2, <2>1, <1>0
  <2>8. Rng(new) \subseteq Rng(list) \ {n}
    <3>. SUFFICES ASSUME NEW j \in 1..(Len(list) - 1) PROVE new[j] \in Rng(list) /\ new[j] # n
      BY <2>5 DEF Rng
    <3>. DEFINE q == IF j < k THEN j ELSE j + 1
    <3>1. q \in DOMAIN list /\ q # k /\ new[j] = list[q]
      BY <1>0, <2>1, <2>6
    <3>. QED
      BY <3>1, <2>1, <1>0 DEF Once, Rng
  <2>9. Rng(list) \ {n} \subseteq Rng(new)
    <3>. SUFFICES ASSUME NEW i \in 1..Len(list), list[i] # n PROVE \E j \in 1..(Len(list) - 1) : new[j] = list[i]
      BY <2>5, <1>0 DEF Rng
    <3>1. i # k
      BY <2>1
    <3>2. CASE i < k
      BY <3>2, <2>1, <2>6, <1>0
    <3>3. CASE i > k
      <4>1. i - 1 \in 1..(Len(list) - 1) /\ ~(i - 1 < k) /\ (i - 1) + 1 = i
        BY <3>3, <2>1, <1>0
      <4>. QED
        BY <4>1, <2>6
    <3>. QED
      BY <3>1, <3>2, <3>3, <2>1
  <2>. QED
    BY <2>2, <2>5, <2>7, <2>8, <2>9, <1>0
<1>. QED
  BY <1>1, <1>2

LEMMA EraseAt ==
  ASSUME NEW S, NEW x, NEW w \in Seq(S \cup {x}), NEW i \in DOMAIN w
  PROVE  /\ [w EXCEPT ![i] = x] \in Seq(S \cup {x})
         /\ Len([w EXCEPT ![i] = x]) = Len(w)
         /\ DOMAIN [w EXCEPT ![i] = x] = DOMAIN w
         /\ \A j \in DOMAIN w : [w EXCEPT ![i] = x][j] = IF j = i THEN x ELSE w[j]
<1>1. i \in 1..Len(w) /\ x \in S \cup {x}
  OBVIOUS
<1>. DEFINE T == S \cup {x}
<1>2. w \in Seq(T) /\ x \in T
  OBVIOUS
<1>. HIDE DEF T
<1>3. [w EXCEPT ![i] = x] \in Seq(T) /\ Len([w EXCEPT ![i] = x]) = Len(w)
  BY <1>1, <1>2, ExceptSeq
<1>4. DOMAIN [w EXCEPT ![i] = x] = DOMAIN w /\ \A j \in DOMAIN w : [w EXCEPT ![i] = x][j] = IF j = i THEN x ELSE w[j]
  OBVIOUS
<1>. QED
  BY <1>3, <1>4 DEF T

-----------------------------------------------------------------------------
(* Every call keeps a design well formed.                                  *)

IdsAgree(d) ==
  /\ DOMAIN d.ids = DOMAIN d.graphs
  /\ \A n \in DOMAIN d.ids : d.ids[n] \in DOMAIN d.owner /\ d.owner[d.ids[n]] = n
  /\ \A i \in DOMAIN d.owner :
       d.owner[i] # NoName => d.owner[i] \in DOMAIN d.ids /\ d.ids[d.owner[i]] = i
OrderAgrees(d) ==
  Once(d.order) /\ Rng(d.order) = DOMAIN d.graphs /\ Len(d.order) <= Len(d.owner)
AliasesAgree(d) == \A a \in DOMAIN d.aliases : d.aliases[a] \in DOMAIN d.graphs
TopsAgree(d) == Once(d.tops) /\ (TopsByName => Rng(d.tops) \subseteq DOMAIN d.graphs)
DeclaredAgree(d) == Once(d.declared) /\ Rng(d.declared) \subseteq d.symbols

WellFormed(d) ==
  /\ DesignType(d)
  /\ OrderAgrees(d)
  /\ IdsAgree(d)
  /\ AliasesAgree(d)
  /\ TopsAgree(d)
  /\ DeclaredAgree(d)

DesignSet == [graphs : MapsTo(Contents), ids : MapsTo(1..MaxGraphs), order : Seq(Names),
              aliases : MapsTo(Names), tops : Seq(Names), declared : Seq(Names),
              symbols : SUBSET Names, owner : Seq(Names \cup {NoName})]

LEMMA EmptyWellFormed == WellFormed(EmptyDesign)
<1>1. \A S : [n \in {} |-> Blank] \in MapsTo(S) /\ [n \in {} |-> 0] \in MapsTo(S) /\ [n \in {} |-> NoName] \in MapsTo(S)
  BY DEF MapsTo
<1>2. EmptyDesign \in DesignSet
  BY <1>1 DEF EmptyDesign, DesignSet
<1>3. Len(EmptyDesign.owner) = 0 /\ 0 <= MaxGraphs
  BY RegistryAssumption DEF EmptyDesign
<1>4. DesignType(EmptyDesign)
  BY <1>2, <1>3 DEF DesignType, DesignSet
<1>5. OrderAgrees(EmptyDesign)
  BY DEF OrderAgrees, EmptyDesign, Once, Rng
<1>6. IdsAgree(EmptyDesign)
  BY DEF IdsAgree, EmptyDesign
<1>7. AliasesAgree(EmptyDesign) /\ TopsAgree(EmptyDesign) /\ DeclaredAgree(EmptyDesign)
  BY DEF AliasesAgree, TopsAgree, DeclaredAgree, EmptyDesign, Once, Rng
<1>. QED
  BY <1>4, <1>5, <1>6, <1>7 DEF WellFormed

\* What is known of the fields of a well formed design.
LEMMA Fields ==
  ASSUME NEW d, DesignType(d)
  PROVE  /\ d \in DesignSet
         /\ d.graphs \in MapsTo(Contents) /\ d.ids \in MapsTo(1..MaxGraphs)
         /\ d.aliases \in MapsTo(Names) /\ d.order \in Seq(Names) /\ d.tops \in Seq(Names)
         /\ d.declared \in Seq(Names) /\ d.symbols \in SUBSET Names
         /\ d.owner \in Seq(Names \cup {NoName})
         /\ Len(d.owner) \in Nat /\ Len(d.owner) <= MaxGraphs
  BY DEF DesignType, DesignSet

\* A design from its fields, and what replacing one field makes of it.
Made(g, i, o, a, t, e, s, w) ==
  [graphs |-> g, ids |-> i, order |-> o, aliases |-> a, tops |-> t, declared |-> e,
   symbols |-> s, owner |-> w]
Remade(d) == Made(d.graphs, d.ids, d.order, d.aliases, d.tops, d.declared, d.symbols, d.owner)

LEMMA RemadeSame ==
  ASSUME NEW d \in DesignSet
  PROVE  d = Remade(d)
  BY DEF DesignSet, Remade, Made

WithGraphs(d, v) == [d EXCEPT !.graphs = v]
WithAliases(d, v) == [d EXCEPT !.aliases = v]
WithTops(d, v) == [d EXCEPT !.tops = v]
WithDeclared(d, v) == [d EXCEPT !.declared = v]
WithSymbols(d, v) == [d EXCEPT !.symbols = v]

LEMMA OneField ==
  ASSUME NEW d \in DesignSet, NEW v
  PROVE  /\ WithGraphs(d, v) = Made(v, d.ids, d.order, d.aliases, d.tops, d.declared, d.symbols, d.owner)
         /\ WithAliases(d, v) = Made(d.graphs, d.ids, d.order, v, d.tops, d.declared, d.symbols, d.owner)
         /\ WithTops(d, v) = Made(d.graphs, d.ids, d.order, d.aliases, v, d.declared, d.symbols, d.owner)
         /\ WithDeclared(d, v) = Made(d.graphs, d.ids, d.order, d.aliases, d.tops, v, d.symbols, d.owner)
         /\ WithSymbols(d, v) = Made(d.graphs, d.ids, d.order, d.aliases, d.tops, d.declared, v, d.owner)
<1>1. d = Remade(d)
  BY RemadeSame
<1>2. [Remade(d) EXCEPT !.graphs = v] = Made(v, d.ids, d.order, d.aliases, d.tops, d.declared, d.symbols, d.owner)
  BY DEF Remade, Made
<1>3. [Remade(d) EXCEPT !.aliases = v] = Made(d.graphs, d.ids, d.order, v, d.tops, d.declared, d.symbols, d.owner)
  BY DEF Remade, Made
<1>4. [Remade(d) EXCEPT !.tops = v] = Made(d.graphs, d.ids, d.order, d.aliases, v, d.declared, d.symbols, d.owner)
  BY DEF Remade, Made
<1>5. [Remade(d) EXCEPT !.declared = v] = Made(d.graphs, d.ids, d.order, d.aliases, d.tops, v, d.symbols, d.owner)
  BY DEF Remade, Made
<1>6. [Remade(d) EXCEPT !.symbols = v] = Made(d.graphs, d.ids, d.order, d.aliases, d.tops, d.declared, v, d.owner)
  BY DEF Remade, Made
<1>. QED
  BY <1>1, <1>2, <1>3, <1>4, <1>5, <1>6 DEF WithGraphs, WithAliases, WithTops, WithDeclared, WithSymbols

\* A design of which one field is replaced is well formed when the field fits.
LEMMA WithField ==
  ASSUME NEW d, WellFormed(d), NEW v
  PROVE  /\ (v \in MapsTo(Contents) /\ DOMAIN v = DOMAIN d.graphs) => WellFormed(WithGraphs(d, v))
         /\ (v \in MapsTo(Names) /\ \A a \in DOMAIN v : v[a] \in DOMAIN d.graphs) => WellFormed(WithAliases(d, v))
         /\ (v \in Seq(Names) /\ Once(v) /\ (TopsByName => Rng(v) \subseteq DOMAIN d.graphs))
            => WellFormed(WithTops(d, v))
         /\ (v \in Seq(Names) /\ Once(v) /\ Rng(v) \subseteq d.symbols) => WellFormed(WithDeclared(d, v))
         /\ (v \in SUBSET Names /\ d.symbols \subseteq v) => WellFormed(WithSymbols(d, v))
<1>0. /\ DesignType(d) /\ OrderAgrees(d) /\ IdsAgree(d) /\ AliasesAgree(d) /\ TopsAgree(d) /\ DeclaredAgree(d)
  BY DEF WellFormed
<1>1. d \in DesignSet
  BY <1>0, Fields
<1>. DEFINE g == d.graphs
            i == d.ids
            o == d.order
            al == d.aliases
            t == d.tops
            e == d.declared
            s == d.symbols
            w == d.owner
<1>2. /\ g \in MapsTo(Contents) /\ i \in MapsTo(1..MaxGraphs) /\ al \in MapsTo(Names)
      /\ o \in Seq(Names) /\ t \in Seq(Names) /\ e \in Seq(Names) /\ s \in SUBSET Names
      /\ w \in Seq(Names \cup {NoName}) /\ Len(w) <= MaxGraphs
  BY <1>0, Fields
<1>3. ASSUME v \in MapsTo(Contents), DOMAIN v = DOMAIN d.graphs
      PROVE  WellFormed(WithGraphs(d, v))
  <2>. DEFINE n == WithGraphs(d, v)
  <2>1. n = Made(v, d.ids, d.order, d.aliases, d.tops, d.declared, d.symbols, d.owner)
    BY <1>1, OneField
  <2>. HIDE DEF n
  <2>2. /\ n.graphs = v /\ n.ids = d.ids /\ n.order = d.order /\ n.aliases = d.aliases
        /\ n.tops = d.tops /\ n.declared = d.declared /\ n.symbols = d.symbols /\ n.owner = d.owner
    BY <2>1 DEF Made
  <2>3. n \in DesignSet
    BY <2>1, <1>2, <1>3 DEF Made, DesignSet
  <2>4. DesignType(n)
    BY <2>2, <2>3, <1>2 DEF DesignType, DesignSet
  <2>5. OrderAgrees(n) /\ IdsAgree(n)
    BY <2>2, <1>0, <1>3 DEF OrderAgrees, IdsAgree
  <2>6. AliasesAgree(n) /\ TopsAgree(n) /\ DeclaredAgree(n)
    BY <2>2, <1>0, <1>3 DEF AliasesAgree, TopsAgree, DeclaredAgree
  <2>7. WellFormed(n)
    BY <2>4, <2>5, <2>6 DEF WellFormed
  <2>. QED
    BY <2>7 DEF n
<1>4. ASSUME v \in MapsTo(Names), \A a \in DOMAIN v : v[a] \in DOMAIN d.graphs
      PROVE  WellFormed(WithAliases(d, v))
  <2>. DEFINE n == WithAliases(d, v)
  <2>1. n = Made(d.graphs, d.ids, d.order, v, d.tops, d.declared, d.symbols, d.owner)
    BY <1>1, OneField
  <2>. HIDE DEF n
  <2>2. /\ n.graphs = d.graphs /\ n.ids = d.ids /\ n.order = d.order /\ n.aliases = v
        /\ n.tops = d.tops /\ n.declared = d.declared /\ n.symbols = d.symbols /\ n.owner = d.owner
    BY <2>1 DEF Made
  <2>3. n \in DesignSet
    BY <2>1, <1>2, <1>4 DEF Made, DesignSet
  <2>4. DesignType(n)
    BY <2>2, <2>3, <1>2 DEF DesignType, DesignSet
  <2>5. OrderAgrees(n) /\ IdsAgree(n)
    BY <2>2, <1>0, <1>4 DEF OrderAgrees, IdsAgree
  <2>6. AliasesAgree(n) /\ TopsAgree(n) /\ DeclaredAgree(n)
    BY <2>2, <1>0, <1>4 DEF AliasesAgree, TopsAgree, DeclaredAgree
  <2>7. WellFormed(n)
    BY <2>4, <2>5, <2>6 DEF WellFormed
  <2>. QED
    BY <2>7 DEF n
<1>5. ASSUME v \in Seq(Names), Once(v), TopsByName => Rng(v) \subseteq DOMAIN d.graphs
      PROVE  WellFormed(WithTops(d, v))
  <2>. DEFINE n == WithTops(d, v)
  <2>1. n = Made(d.graphs, d.ids, d.order, d.aliases, v, d.declared, d.symbols, d.owner)
    BY <1>1, OneField
  <2>. HIDE DEF n
  <2>2. /\ n.graphs = d.graphs /\ n.ids = d.ids /\ n.order = d.order /\ n.aliases = d.aliases
        /\ n.tops = v /\ n.declared = d.declared /\ n.symbols = d.symbols /\ n.owner = d.owner
    BY <2>1 DEF Made
  <2>3. n \in DesignSet
    BY <2>1, <1>2, <1>5 DEF Made, DesignSet
  <2>4. DesignType(n)
    BY <2>2, <2>3, <1>2 DEF DesignType, DesignSet
  <2>5. OrderAgrees(n) /\ IdsAgree(n)
    BY <2>2, <1>0, <1>5 DEF OrderAgrees, IdsAgree
  <2>6. AliasesAgree(n) /\ TopsAgree(n) /\ DeclaredAgree(n)
    BY <2>2, <1>0, <1>5 DEF AliasesAgree, TopsAgree, DeclaredAgree
  <2>7. WellFormed(n)
    BY <2>4, <2>5, <2>6 DEF WellFormed
  <2>. QED
    BY <2>7 DEF n
<1>6. ASSUME v \in Seq(Names), Once(v), Rng(v) \subseteq d.symbols
      PROVE  WellFormed(WithDeclared(d, v))
  <2>. DEFINE n == WithDeclared(d, v)
  <2>1. n = Made(d.graphs, d.ids, d.order, d.aliases, d.tops, v, d.symbols, d.owner)
    BY <1>1, OneField
  <2>. HIDE DEF n
  <2>2. /\ n.graphs = d.graphs /\ n.ids = d.ids /\ n.order = d.order /\ n.aliases = d.aliases
        /\ n.tops = d.tops /\ n.declared = v /\ n.symbols = d.symbols /\ n.owner = d.owner
    BY <2>1 DEF Made
  <2>3. n \in DesignSet
    BY <2>1, <1>2, <1>6 DEF Made, DesignSet
  <2>4. DesignType(n)
    BY <2>2, <2>3, <1>2 DEF DesignType, DesignSet
  <2>5. OrderAgrees(n) /\ IdsAgree(n)
    BY <2>2, <1>0, <1>6 DEF OrderAgrees, IdsAgree
  <2>6. AliasesAgree(n) /\ TopsAgree(n) /\ DeclaredAgree(n)
    BY <2>2, <1>0, <1>6 DEF AliasesAgree, TopsAgree, DeclaredAgree
  <2>7. WellFormed(n)
    BY <2>4, <2>5, <2>6 DEF WellFormed
  <2>. QED
    BY <2>7 DEF n
<1>7. ASSUME v \in SUBSET Names, d.symbols \subseteq v
      PROVE  WellFormed(WithSymbols(d, v))
  <2>. DEFINE n == WithSymbols(d, v)
  <2>1. n = Made(d.graphs, d.ids, d.order, d.aliases, d.tops, d.declared, v, d.owner)
    BY <1>1, OneField
  <2>. HIDE DEF n
  <2>2. /\ n.graphs = d.graphs /\ n.ids = d.ids /\ n.order = d.order /\ n.aliases = d.aliases
        /\ n.tops = d.tops /\ n.declared = d.declared /\ n.symbols = v /\ n.owner = d.owner
    BY <2>1 DEF Made
  <2>3. n \in DesignSet
    BY <2>1, <1>2, <1>7 DEF Made, DesignSet
  <2>4. DesignType(n)
    BY <2>2, <2>3, <1>2 DEF DesignType, DesignSet
  <2>5. OrderAgrees(n) /\ IdsAgree(n)
    BY <2>2, <1>0, <1>7 DEF OrderAgrees, IdsAgree
  <2>6. AliasesAgree(n) /\ TopsAgree(n) /\ DeclaredAgree(n)
    BY <2>2, <1>0, <1>7 DEF AliasesAgree, TopsAgree, DeclaredAgree
  <2>7. WellFormed(n)
    BY <2>4, <2>5, <2>6 DEF WellFormed
  <2>. QED
    BY <2>7 DEF n
<1>. QED
  BY <1>3, <1>4, <1>5, <1>6, <1>7

LEMMA TwoFields ==
  ASSUME NEW d, NEW v, NEW u
  PROVE  /\ [d EXCEPT !.owner = v, !.ids = u] = [[d EXCEPT !.owner = v] EXCEPT !.ids = u]
         /\ [d EXCEPT !.graphs = v, !.order = u] = [[d EXCEPT !.graphs = v] EXCEPT !.order = u]
  OBVIOUS

LEMMA FourFields ==
  ASSUME NEW d, NEW v, NEW u, NEW x, NEW y
  PROVE  [d EXCEPT !.graphs = v, !.order = u, !.tops = x, !.aliases = y]
         = [[[[d EXCEPT !.graphs = v] EXCEPT !.order = u] EXCEPT !.tops = x] EXCEPT !.aliases = y]
  OBVIOUS

LEMMA AddGraphFields ==
  ASSUME NEW d \in DesignSet, NEW n, NEW c
  PROVE  AddGraph(d, n, c) =
           Made(Put(d.graphs, n, c), Put(d.ids, n, Len(d.owner) + 1), Append(d.order, n),
                d.aliases, d.tops, d.declared, d.symbols \cup {n}, Append(d.owner, n))
<1>. DEFINE ow == Append(d.owner, n)
            id == Put(d.ids, n, Len(d.owner) + 1)
            gr == Put(d.graphs, n, c)
            od == Append(d.order, n)
            sy == d.symbols \cup {n}
            e  == Made(d.graphs, d.ids, d.order, d.aliases, d.tops, d.declared, sy, d.owner)
            k  == Made(d.graphs, id, d.order, d.aliases, d.tops, d.declared, sy, ow)
<1>1. Intern(d, n) = e
  <2>1. Intern(d, n) = [d EXCEPT !.symbols = sy]
    BY DEF Intern
  <2>2. [Remade(d) EXCEPT !.symbols = sy] = e
    <3>. HIDE DEF sy
    <3>. QED
      BY DEF Remade, Made
  <2>. QED
    BY <2>1, <2>2, RemadeSame
<1>2. AllocateGraphId(e, n) = k
  <2>1. e.owner = d.owner /\ e.ids = d.ids
    BY DEF Made
  <2>2. AllocateGraphId(e, n) = [e EXCEPT !.owner = ow, !.ids = id]
    BY <2>1 DEF AllocateGraphId
  <2>3. [[e EXCEPT !.owner = ow] EXCEPT !.ids = id] = k
    <3>. HIDE DEF ow, id, sy
    <3>. DEFINE e1 == Made(d.graphs, d.ids, d.order, d.aliases, d.tops, d.declared, sy, ow)
    <3>1. [e EXCEPT !.owner = ow] = e1
      BY DEF Made
    <3>2. [e1 EXCEPT !.ids = id] = k
      BY DEF Made
    <3>. HIDE DEF e, e1, k
    <3>. QED
      BY <3>1, <3>2
  <2>. HIDE DEF e, k, ow, id
  <2>. QED
    BY <2>2, <2>3, TwoFields
<1>3. k.graphs = d.graphs /\ k.order = d.order
  BY DEF Made
<1>4. AddGraph(d, n, c) = [k EXCEPT !.graphs = gr, !.order = od]
  <2>. HIDE DEF k, e
  <2>. QED
    BY <1>1, <1>2, <1>3 DEF AddGraph
<1>5. [[k EXCEPT !.graphs = gr] EXCEPT !.order = od]
      = Made(gr, id, od, d.aliases, d.tops, d.declared, sy, ow)
  <2>. HIDE DEF gr, od, ow, id, sy
  <2>. DEFINE k1 == Made(gr, id, d.order, d.aliases, d.tops, d.declared, sy, ow)
              k2 == Made(gr, id, od, d.aliases, d.tops, d.declared, sy, ow)
  <2>1. [k EXCEPT !.graphs = gr] = k1
    BY DEF Made
  <2>2. [k1 EXCEPT !.order = od] = k2
    BY DEF Made
  <2>. HIDE DEF k, k1
  <2>. QED
    BY <2>1, <2>2
<1>. HIDE DEF k, e, gr, od
<1>6. AddGraph(d, n, c) = Made(gr, id, od, d.aliases, d.tops, d.declared, sy, ow)
  BY <1>4, <1>5, TwoFields
<1>. QED
  BY <1>6 DEF gr, od

Erased(d, n) ==
  Made(Drop(d.graphs, n), Drop(d.ids, n), Without(d.order, n),
       [a \in {b \in DOMAIN d.aliases : d.aliases[b] # n} |-> d.aliases[a]],
       Without(d.tops, n), Without(d.declared, n), d.symbols,
       [d.owner EXCEPT ![d.ids[n]] = NoName])

LEMMA EraseGraphFields ==
  ASSUME NEW d \in DesignSet, NEW n, n \in DOMAIN d.ids
  PROVE  EraseGraph(d, n) = Erased(d, n)
<1>. DEFINE ow == [d.owner EXCEPT ![d.ids[n]] = NoName]
            id == Drop(d.ids, n)
            gr == Drop(d.graphs, n)
            od == Without(d.order, n)
            tp == Without(d.tops, n)
            al == [a \in {b \in DOMAIN d.aliases : d.aliases[b] # n} |-> d.aliases[a]]
            de == Without(d.declared, n)
            e  == Made(d.graphs, d.ids, d.order, d.aliases, d.tops, de, d.symbols, d.owner)
            k  == Made(d.graphs, id, d.order, d.aliases, d.tops, de, d.symbols, ow)
<1>1. RemoveDeclared(d, n) = e
  <2>1. RemoveDeclared(d, n) = [d EXCEPT !.declared = de]
    BY DEF RemoveDeclared
  <2>2. [Remade(d) EXCEPT !.declared = de] = e
    <3>. HIDE DEF de
    <3>. QED
      BY DEF Remade, Made
  <2>. QED
    BY <2>1, <2>2, RemadeSame
<1>2. ReleaseGraphId(e, n) = k
  <2>1. e.owner = d.owner /\ e.ids = d.ids
    BY DEF Made
  <2>2. ReleaseGraphId(e, n) = [e EXCEPT !.owner = ow, !.ids = id]
    <3>. HIDE DEF e
    <3>. QED
      BY <2>1 DEF ReleaseGraphId
  <2>3. [[e EXCEPT !.owner = ow] EXCEPT !.ids = id] = k
    <3>. HIDE DEF ow, id, de
    <3>. DEFINE e1 == Made(d.graphs, d.ids, d.order, d.aliases, d.tops, de, d.symbols, ow)
    <3>1. [e EXCEPT !.owner = ow] = e1
      BY DEF Made
    <3>2. [e1 EXCEPT !.ids = id] = k
      BY DEF Made
    <3>. HIDE DEF e, e1, k
    <3>. QED
      BY <3>1, <3>2
  <2>. HIDE DEF e, k, ow, id
  <2>. QED
    BY <2>2, <2>3, TwoFields
<1>3. k.graphs = d.graphs /\ k.order = d.order /\ k.tops = d.tops /\ k.aliases = d.aliases
  BY DEF Made
<1>4. EraseGraph(d, n) = [k EXCEPT !.graphs = gr, !.order = od, !.tops = tp, !.aliases = al]
  <2>. HIDE DEF k, e
  <2>. QED
    BY <1>1, <1>2, <1>3 DEF EraseGraph
<1>5. [[[[k EXCEPT !.graphs = gr] EXCEPT !.order = od] EXCEPT !.tops = tp] EXCEPT !.aliases = al]
      = Made(gr, id, od, al, tp, de, d.symbols, ow)
  <2>. HIDE DEF gr, od, tp, al, ow, id, de
  <2>. DEFINE k1 == Made(gr, id, d.order, d.aliases, d.tops, de, d.symbols, ow)
              k2 == Made(gr, id, od, d.aliases, d.tops, de, d.symbols, ow)
              k3 == Made(gr, id, od, d.aliases, tp, de, d.symbols, ow)
              k4 == Made(gr, id, od, al, tp, de, d.symbols, ow)
  <2>1. [k EXCEPT !.graphs = gr] = k1
    BY DEF Made
  <2>2. [k1 EXCEPT !.order = od] = k2
    BY DEF Made
  <2>3. [k2 EXCEPT !.tops = tp] = k3
    BY DEF Made
  <2>4. [k3 EXCEPT !.aliases = al] = k4
    BY DEF Made
  <2>. HIDE DEF k, k1, k2, k3
  <2>. QED
    BY <2>1, <2>2, <2>3, <2>4
<1>. HIDE DEF k, e, gr, od, tp, al
<1>6. EraseGraph(d, n) = Made(gr, id, od, al, tp, de, d.symbols, ow)
  BY <1>4, <1>5, FourFields
<1>. QED
  BY <1>6 DEF gr, od, tp, al, Erased

LEMMA CanAllocateHolds ==
  ASSUME NEW d, WellFormed(d), NEW n
  PROVE  CanAllocate(d, n) <=> n \notin DOMAIN d.graphs
  BY DEF CanAllocate, WellFormed, IdsAgree

LEMMA AddGraphWellFormed ==
  ASSUME NEW d, WellFormed(d), NEW n \in Names, NEW c \in Contents,
         n \notin DOMAIN d.graphs, Len(d.owner) < MaxGraphs
  PROVE  WellFormed(AddGraph(d, n, c))
<1>. DEFINE e == AddGraph(d, n, c)
<1>0. DesignType(d) /\ OrderAgrees(d) /\ IdsAgree(d) /\ AliasesAgree(d) /\ TopsAgree(d) /\ DeclaredAgree(d)
  BY DEF WellFormed
<1>1. /\ e.graphs = Put(d.graphs, n, c) /\ e.ids = Put(d.ids, n, Len(d.owner) + 1)
      /\ e.order = Append(d.order, n) /\ e.aliases = d.aliases /\ e.tops = d.tops
      /\ e.declared = d.declared /\ e.symbols = d.symbols \cup {n} /\ e.owner = Append(d.owner, n)
  BY <1>0, Fields, AddGraphFields DEF Made
<1>2. /\ e.graphs \in MapsTo(Contents) /\ DOMAIN e.graphs = DOMAIN d.graphs \cup {n}
  <2>1. d.graphs \in MapsTo(Contents)
    BY <1>0, Fields
  <2>2. Put(d.graphs, n, c) \in MapsTo(Contents)
    BY <2>1, PutType
  <2>3. DOMAIN Put(d.graphs, n, c) = DOMAIN d.graphs \cup {n}
    BY DEF Put
  <2>. QED
    BY <2>2, <2>3, <1>1
<1>3. Len(d.owner) + 1 \in 1..MaxGraphs
  BY <1>0, Fields, RegistryAssumption
<1>4. /\ e.ids \in MapsTo(1..MaxGraphs) /\ DOMAIN e.ids = DOMAIN d.ids \cup {n}
      /\ \A m \in DOMAIN d.ids \cup {n} : e.ids[m] = IF m = n THEN Len(d.owner) + 1 ELSE d.ids[m]
  <2>1. d.ids \in MapsTo(1..MaxGraphs)
    BY <1>0, Fields
  <2>2. Put(d.ids, n, Len(d.owner) + 1) \in MapsTo(1..MaxGraphs)
    BY <2>1, <1>3, PutType
  <2>3. /\ DOMAIN Put(d.ids, n, Len(d.owner) + 1) = DOMAIN d.ids \cup {n}
        /\ \A m \in DOMAIN d.ids \cup {n} :
             Put(d.ids, n, Len(d.owner) + 1)[m] = IF m = n THEN Len(d.owner) + 1 ELSE d.ids[m]
    BY DEF Put
  <2>. QED
    BY <2>2, <2>3, <1>1
<1>5. ~In(d.order, n)
  BY <1>0 DEF OrderAgrees, Rng, In
<1>6. /\ e.order \in Seq(Names) /\ Len(e.order) = Len(d.order) + 1
      /\ Once(e.order) /\ Rng(e.order) = Rng(d.order) \cup {n}
  BY <1>0, <1>1, <1>5, Fields, AppendOnce DEF OrderAgrees
<1>7. /\ e.owner \in Seq(Names \cup {NoName}) /\ Len(e.owner) = Len(d.owner) + 1
      /\ DOMAIN e.owner = 1..(Len(d.owner) + 1)
      /\ \A i \in 1..Len(d.owner) : e.owner[i] = d.owner[i]
      /\ e.owner[Len(d.owner) + 1] = n
  BY <1>0, <1>1, Fields
<1>8. e \in DesignSet
  <2>1. e = [graphs |-> e.graphs, ids |-> e.ids, order |-> e.order, aliases |-> e.aliases,
             tops |-> e.tops, declared |-> e.declared, symbols |-> e.symbols, owner |-> e.owner]
    BY <1>0, Fields, AddGraphFields DEF Made
  <2>2. /\ e.aliases \in MapsTo(Names) /\ e.tops \in Seq(Names) /\ e.declared \in Seq(Names)
        /\ e.symbols \in SUBSET Names
    BY <1>0, <1>1, Fields
  <2>. HIDE DEF e
  <2>. QED
    BY <2>1, <2>2, <1>2, <1>4, <1>6, <1>7 DEF DesignSet
<1>. HIDE DEF e
<1>9. DesignType(e)
  BY <1>8, <1>7, <1>3 DEF DesignType, DesignSet
<1>10. OrderAgrees(e)
  BY <1>0, <1>2, <1>6, <1>7, Fields DEF OrderAgrees
<1>11. IdsAgree(e)
  <2>1. DOMAIN d.owner = 1..Len(d.owner) /\ Len(d.owner) \in Nat
    BY <1>0, Fields
  <2>2. DOMAIN e.ids = DOMAIN e.graphs
    BY <1>0, <1>2, <1>4 DEF IdsAgree
  <2>3. ASSUME NEW m \in DOMAIN e.ids
        PROVE  e.ids[m] \in DOMAIN e.owner /\ e.owner[e.ids[m]] = m
    <3>1. CASE m = n
      BY <3>1, <1>4, <1>7, <2>1
    <3>2. CASE m # n
      BY <3>2, <1>0, <1>4, <1>7, <2>1 DEF IdsAgree
    <3>. QED
      BY <3>1, <3>2
  <2>4. ASSUME NEW i \in DOMAIN e.owner, e.owner[i] # NoName
        PROVE  e.owner[i] \in DOMAIN e.ids /\ e.ids[e.owner[i]] = i
    <3>1. CASE i = Len(d.owner) + 1
      BY <3>1, <1>4, <1>7
    <3>2. CASE i # Len(d.owner) + 1
      <4>1. i \in DOMAIN d.owner /\ e.owner[i] = d.owner[i]
        BY <3>2, <1>7, <2>1
      <4>2. d.owner[i] \in DOMAIN d.ids /\ d.ids[d.owner[i]] = i
        BY <4>1, <2>4, <1>0 DEF IdsAgree
      <4>3. d.owner[i] # n
        BY <4>2, <1>0 DEF IdsAgree
      <4>. QED
        BY <4>1, <4>2, <4>3, <1>4
    <3>. QED
      BY <3>1, <3>2
  <2>. QED
    BY <2>2, <2>3, <2>4 DEF IdsAgree
<1>12. AliasesAgree(e) /\ TopsAgree(e) /\ DeclaredAgree(e)
  BY <1>0, <1>1, <1>2 DEF AliasesAgree, TopsAgree, DeclaredAgree
<1>13. WellFormed(e)
  BY <1>9, <1>10, <1>11, <1>12 DEF WellFormed
<1>. QED
  BY <1>13 DEF e

LEMMA EraseGraphWellFormed ==
  ASSUME NEW d, WellFormed(d), NEW n \in DOMAIN d.graphs
  PROVE  WellFormed(EraseGraph(d, n))
<1>. DEFINE e == EraseGraph(d, n)
            kept == {b \in DOMAIN d.aliases : d.aliases[b] # n}
<1>0. DesignType(d) /\ OrderAgrees(d) /\ IdsAgree(d) /\ AliasesAgree(d) /\ TopsAgree(d) /\ DeclaredAgree(d)
  BY DEF WellFormed
<1>1. n \in DOMAIN d.ids
  BY <1>0 DEF IdsAgree
<1>2. /\ e.graphs = Drop(d.graphs, n) /\ e.ids = Drop(d.ids, n) /\ e.order = Without(d.order, n)
      /\ e.aliases = [a \in kept |-> d.aliases[a]]
      /\ e.tops = Without(d.tops, n) /\ e.declared = Without(d.declared, n)
      /\ e.symbols = d.symbols /\ e.owner = [d.owner EXCEPT ![d.ids[n]] = NoName]
  <2>1. d \in DesignSet
    BY <1>0, Fields
  <2>2. e = Erased(d, n)
    BY <2>1, <1>1, EraseGraphFields
  <2>. HIDE DEF e
  <2>. QED
    BY <2>2 DEF Erased, Made
<1>3. /\ e.graphs \in MapsTo(Contents) /\ DOMAIN e.graphs = DOMAIN d.graphs \ {n}
      /\ e.ids \in MapsTo(1..MaxGraphs) /\ DOMAIN e.ids = DOMAIN d.ids \ {n}
      /\ \A m \in DOMAIN d.ids \ {n} : e.ids[m] = d.ids[m]
  <2>1. d.graphs \in MapsTo(Contents) /\ d.ids \in MapsTo(1..MaxGraphs)
    BY <1>0, Fields
  <2>2. Drop(d.graphs, n) \in MapsTo(Contents) /\ Drop(d.ids, n) \in MapsTo(1..MaxGraphs)
    BY <2>1, DropType
  <2>3. /\ DOMAIN Drop(d.graphs, n) = DOMAIN d.graphs \ {n}
        /\ DOMAIN Drop(d.ids, n) = DOMAIN d.ids \ {n}
        /\ \A m \in DOMAIN d.ids \ {n} : Drop(d.ids, n)[m] = d.ids[m]
    BY DEF Drop
  <2>. QED
    BY <2>2, <2>3, <1>2
<1>4. /\ e.order \in Seq(Names) /\ Len(e.order) <= Len(d.order)
      /\ Once(e.order) /\ Rng(e.order) = Rng(d.order) \ {n}
  BY <1>0, <1>2, Fields, WithoutOnce DEF OrderAgrees
<1>5. e.tops \in Seq(Names) /\ Once(e.tops) /\ Rng(e.tops) = Rng(d.tops) \ {n}
  BY <1>0, <1>2, Fields, WithoutOnce DEF TopsAgree
<1>6. e.declared \in Seq(Names) /\ Once(e.declared) /\ Rng(e.declared) = Rng(d.declared) \ {n}
  BY <1>0, <1>2, Fields, WithoutOnce DEF DeclaredAgree
<1>7. /\ e.owner \in Seq(Names \cup {NoName}) /\ Len(e.owner) = Len(d.owner)
      /\ DOMAIN e.owner = DOMAIN d.owner
      /\ \A i \in DOMAIN d.owner : e.owner[i] = IF i = d.ids[n] THEN NoName ELSE d.owner[i]
  <2>1. d.owner \in Seq(Names \cup {NoName})
    BY <1>0, Fields
  <2>2. d.ids[n] \in DOMAIN d.owner
    BY <1>0, <1>1 DEF IdsAgree
  <2>. DEFINE w == d.owner
              k == d.ids[n]
  <2>3. w \in Seq(Names \cup {NoName}) /\ k \in DOMAIN w
    BY <2>1, <2>2
  <2>. HIDE DEF e, w, k
  <2>4. /\ [w EXCEPT ![k] = NoName] \in Seq(Names \cup {NoName})
        /\ Len([w EXCEPT ![k] = NoName]) = Len(w)
        /\ DOMAIN [w EXCEPT ![k] = NoName] = DOMAIN w
        /\ \A i \in DOMAIN w : [w EXCEPT ![k] = NoName][i] = IF i = k THEN NoName ELSE w[i]
    BY <2>3, EraseAt
  <2>. QED
    BY <2>4, <1>2 DEF w, k
<1>8. /\ e.aliases \in MapsTo(Names) /\ DOMAIN e.aliases = kept
      /\ \A a \in kept : e.aliases[a] = d.aliases[a]
  <2>1. kept \in SUBSET Names /\ \A a \in kept : d.aliases[a] \in Names
    BY <1>0, Fields, MapsToApply
  <2>2. [a \in kept |-> d.aliases[a]] \in [kept -> Names]
    BY <2>1
  <2>. QED
    BY <2>1, <2>2, <1>2, MapsToIntro
<1>9. e \in DesignSet
  <2>1. e = [graphs |-> e.graphs, ids |-> e.ids, order |-> e.order, aliases |-> e.aliases,
             tops |-> e.tops, declared |-> e.declared, symbols |-> e.symbols, owner |-> e.owner]
    <3>1. d \in DesignSet
      BY <1>0, Fields
    <3>2. e = Erased(d, n)
      BY <3>1, <1>1, EraseGraphFields
    <3>. HIDE DEF e
    <3>. QED
      BY <3>2 DEF Erased, Made
  <2>2. e.symbols \in SUBSET Names
    BY <1>0, <1>2, Fields
  <2>. HIDE DEF e
  <2>. QED
    BY <2>1, <2>2, <1>3, <1>4, <1>5, <1>6, <1>7, <1>8 DEF DesignSet
<1>. HIDE DEF e
<1>10. DesignType(e)
  BY <1>0, <1>7, <1>9, Fields DEF DesignType, DesignSet
<1>11. OrderAgrees(e)
  BY <1>0, <1>3, <1>4, <1>7, <1>9, <1>10, Fields DEF OrderAgrees
<1>12. IdsAgree(e)
  <2>1. DOMAIN e.ids = DOMAIN e.graphs
    BY <1>0, <1>3 DEF IdsAgree
  <2>2. ASSUME NEW m \in DOMAIN e.ids
        PROVE  e.ids[m] \in DOMAIN e.owner /\ e.owner[e.ids[m]] = m
    BY <1>0, <1>1, <1>3, <1>7 DEF IdsAgree
  <2>3. ASSUME NEW i \in DOMAIN e.owner, e.owner[i] # NoName
        PROVE  e.owner[i] \in DOMAIN e.ids /\ e.ids[e.owner[i]] = i
    BY <2>3, <1>0, <1>1, <1>3, <1>7 DEF IdsAgree
  <2>. QED
    BY <2>1, <2>2, <2>3 DEF IdsAgree
<1>13. AliasesAgree(e)
  BY <1>0, <1>3, <1>8 DEF AliasesAgree
<1>14. TopsAgree(e) /\ DeclaredAgree(e)
  BY <1>0, <1>2, <1>3, <1>5, <1>6 DEF TopsAgree, DeclaredAgree
<1>15. WellFormed(e)
  BY <1>10, <1>11, <1>12, <1>13, <1>14 DEF WellFormed
<1>. QED
  BY <1>15 DEF e

-----------------------------------------------------------------------------
(* The calls of a client.                                                  *)

\* Ids stay with their graphs, and new ones are larger than any before.
IdsGrow(d, e) ==
  /\ Len(e.owner) >= Len(d.owner)
  /\ \A n \in DOMAIN e.ids :
       \/ n \in DOMAIN d.ids /\ e.ids[n] = d.ids[n]
       \/ e.ids[n] > Len(d.owner)

LEMMA SameIdsGrow ==
  ASSUME NEW d, WellFormed(d), NEW e, e.ids = d.ids, e.owner = d.owner
  PROVE  IdsGrow(d, e)
<1>1. Len(d.owner) \in Nat
  BY Fields DEF WellFormed
<1>. QED
  BY <1>1 DEF IdsGrow

LEMMA WithFieldIds ==
  ASSUME NEW d, WellFormed(d), NEW v
  PROVE  /\ IdsGrow(d, WithGraphs(d, v)) /\ IdsGrow(d, WithAliases(d, v)) /\ IdsGrow(d, WithTops(d, v))
         /\ IdsGrow(d, WithDeclared(d, v)) /\ IdsGrow(d, WithSymbols(d, v))
<1>1. d \in DesignSet
  BY Fields DEF WellFormed
<1>2. /\ WithGraphs(d, v).ids = d.ids /\ WithGraphs(d, v).owner = d.owner
      /\ WithAliases(d, v).ids = d.ids /\ WithAliases(d, v).owner = d.owner
      /\ WithTops(d, v).ids = d.ids /\ WithTops(d, v).owner = d.owner
      /\ WithDeclared(d, v).ids = d.ids /\ WithDeclared(d, v).owner = d.owner
      /\ WithSymbols(d, v).ids = d.ids /\ WithSymbols(d, v).owner = d.owner
  BY <1>1, OneField DEF Made
<1>. QED
  BY <1>2, SameIdsGrow

LEMMA AddGraphIds ==
  ASSUME NEW d, WellFormed(d), NEW n \in Names, NEW c
  PROVE  IdsGrow(d, AddGraph(d, n, c))
<1>. DEFINE e == AddGraph(d, n, c)
<1>1. d \in DesignSet /\ d.owner \in Seq(Names \cup {NoName})
  BY Fields DEF WellFormed
<1>2. e.ids = Put(d.ids, n, Len(d.owner) + 1) /\ e.owner = Append(d.owner, n)
  BY <1>1, AddGraphFields DEF Made
<1>3. Len(e.owner) = Len(d.owner) + 1 /\ Len(d.owner) \in Nat
  BY <1>1, <1>2
<1>4. /\ DOMAIN e.ids = DOMAIN d.ids \cup {n}
      /\ \A m \in DOMAIN e.ids : e.ids[m] = IF m = n THEN Len(d.owner) + 1 ELSE d.ids[m]
  BY <1>2 DEF Put
<1>. HIDE DEF e
<1>5. IdsGrow(d, e)
  BY <1>3, <1>4 DEF IdsGrow
<1>. QED
  BY <1>5 DEF e

LEMMA EraseGraphIds ==
  ASSUME NEW d, WellFormed(d), NEW n \in DOMAIN d.graphs
  PROVE  IdsGrow(d, EraseGraph(d, n))
<1>. DEFINE e == EraseGraph(d, n)
<1>1. d \in DesignSet /\ d.owner \in Seq(Names \cup {NoName}) /\ n \in DOMAIN d.ids
  BY Fields DEF WellFormed, IdsAgree
<1>2. e = Erased(d, n)
  BY <1>1, EraseGraphFields
<1>. HIDE DEF e
<1>3. e.ids = Drop(d.ids, n) /\ e.owner = [d.owner EXCEPT ![d.ids[n]] = NoName]
  BY <1>2 DEF Erased, Made
<1>4. d.ids[n] \in DOMAIN d.owner
  BY <1>1 DEF WellFormed, IdsAgree
<1>. DEFINE w == d.owner
            k == d.ids[n]
<1>5. w \in Seq(Names \cup {NoName}) /\ k \in DOMAIN w
  BY <1>1, <1>4
<1>. HIDE DEF w, k
<1>6. Len([w EXCEPT ![k] = NoName]) = Len(w) /\ Len(w) \in Nat
  BY <1>5, EraseAt
<1>7. Len(e.owner) = Len(d.owner) /\ Len(d.owner) \in Nat
  BY <1>3, <1>6 DEF w, k
<1>8. DOMAIN e.ids = DOMAIN d.ids \ {n} /\ \A m \in DOMAIN d.ids \ {n} : e.ids[m] = d.ids[m]
  BY <1>3 DEF Drop
<1>9. IdsGrow(d, e)
  BY <1>7, <1>8 DEF IdsGrow
<1>. QED
  BY <1>9 DEF e

\* What a call makes of a well formed design.
GoodCall(d, e) == WellFormed(e) /\ IdsGrow(d, e)

LEMMA AddGraphGood ==
  ASSUME NEW d, WellFormed(d), NEW n \in Names, NEW c \in Contents,
         n \notin DOMAIN d.graphs, Len(d.owner) < MaxGraphs
  PROVE  GoodCall(d, AddGraph(d, n, c))
  BY AddGraphWellFormed, AddGraphIds DEF GoodCall

LEMMA EraseGraphGood ==
  ASSUME NEW d, WellFormed(d), NEW n \in DOMAIN d.graphs
  PROVE  GoodCall(d, EraseGraph(d, n))
  BY EraseGraphWellFormed, EraseGraphIds DEF GoodCall

LEMMA PutContentGood ==
  ASSUME NEW d, WellFormed(d), NEW n \in DOMAIN d.graphs, NEW c \in Contents
  PROVE  GoodCall(d, WithGraphs(d, Put(d.graphs, n, c)))
<1>1. d.graphs \in MapsTo(Contents)
  BY Fields DEF WellFormed
<1>2. n \in Names
  BY <1>1, MapsToApply
<1>3. Put(d.graphs, n, c) \in MapsTo(Contents)
  BY <1>1, <1>2, PutType
<1>4. DOMAIN Put(d.graphs, n, c) = DOMAIN d.graphs
  BY DEF Put
<1>. DEFINE v == Put(d.graphs, n, c)
<1>. HIDE DEF v
<1>5. v \in MapsTo(Contents) /\ DOMAIN v = DOMAIN d.graphs
  BY <1>3, <1>4 DEF v
<1>6. GoodCall(d, WithGraphs(d, v))
  BY <1>5, WithField, WithFieldIds DEF GoodCall
<1>. QED
  BY <1>6 DEF v

LEMMA PutAliasGood ==
  ASSUME NEW d, WellFormed(d), NEW a \in Names, NEW n \in DOMAIN d.graphs
  PROVE  GoodCall(d, WithAliases(d, Put(d.aliases, a, n)))
<1>1. d.aliases \in MapsTo(Names) /\ d.graphs \in MapsTo(Contents) /\ AliasesAgree(d)
  BY Fields DEF WellFormed
<1>2. n \in Names
  BY <1>1, MapsToApply
<1>. DEFINE v == Put(d.aliases, a, n)
<1>3. v \in MapsTo(Names)
  BY <1>1, <1>2, PutType
<1>4. \A b \in DOMAIN v : v[b] \in DOMAIN d.graphs
  BY <1>1 DEF Put, AliasesAgree
<1>. HIDE DEF v
<1>5. GoodCall(d, WithAliases(d, v))
  BY <1>3, <1>4, WithField, WithFieldIds DEF GoodCall
<1>. QED
  BY <1>5 DEF v

LEMMA MarkAsTopGood ==
  ASSUME NEW d, WellFormed(d), NEW n \in Names, TopsByName => n \in DOMAIN d.graphs
  PROVE  GoodCall(d, MarkAsTop(d, n))
<1>1. d.tops \in Seq(Names) /\ TopsAgree(d)
  BY Fields DEF WellFormed
<1>. DEFINE v == With(d.tops, n)
<1>2. v \in Seq(Names) /\ Once(v) /\ Rng(v) = Rng(d.tops) \cup {n}
  BY <1>1, WithOnce DEF TopsAgree
<1>3. TopsByName => Rng(v) \subseteq DOMAIN d.graphs
  BY <1>1, <1>2 DEF TopsAgree
<1>4. MarkAsTop(d, n) = WithTops(d, v)
  BY DEF MarkAsTop, WithTops
<1>. HIDE DEF v
<1>. QED
  BY <1>2, <1>3, <1>4, WithField, WithFieldIds DEF GoodCall

LEMMA UnmarkAsTopGood ==
  ASSUME NEW d, WellFormed(d), NEW n \in Names
  PROVE  GoodCall(d, UnmarkAsTop(d, n))
<1>1. d.tops \in Seq(Names) /\ TopsAgree(d)
  BY Fields DEF WellFormed
<1>. DEFINE v == Without(d.tops, n)
<1>2. v \in Seq(Names) /\ Once(v) /\ Rng(v) = Rng(d.tops) \ {n}
  BY <1>1, WithoutOnce DEF TopsAgree
<1>3. TopsByName => Rng(v) \subseteq DOMAIN d.graphs
  BY <1>1, <1>2 DEF TopsAgree
<1>4. UnmarkAsTop(d, n) = WithTops(d, v)
  BY DEF UnmarkAsTop, WithTops
<1>. HIDE DEF v
<1>. QED
  BY <1>2, <1>3, <1>4, WithField, WithFieldIds DEF GoodCall

LEMMA AddDeclaredGood ==
  ASSUME NEW d, WellFormed(d), NEW n \in d.symbols
  PROVE  GoodCall(d, AddDeclared(d, n))
<1>1. d.declared \in Seq(Names) /\ DeclaredAgree(d) /\ n \in Names
  BY Fields DEF WellFormed
<1>. DEFINE v == With(d.declared, n)
<1>2. v \in Seq(Names) /\ Once(v) /\ Rng(v) = Rng(d.declared) \cup {n}
  BY <1>1, WithOnce DEF DeclaredAgree
<1>3. Rng(v) \subseteq d.symbols
  BY <1>1, <1>2 DEF DeclaredAgree
<1>4. AddDeclared(d, n) = WithDeclared(d, v)
  BY DEF AddDeclared, WithDeclared
<1>. HIDE DEF v
<1>. QED
  BY <1>2, <1>3, <1>4, WithField, WithFieldIds DEF GoodCall

LEMMA RemoveDeclaredGood ==
  ASSUME NEW d, WellFormed(d), NEW n
  PROVE  GoodCall(d, RemoveDeclared(d, n))
<1>1. d.declared \in Seq(Names) /\ DeclaredAgree(d)
  BY Fields DEF WellFormed
<1>. DEFINE v == Without(d.declared, n)
<1>2. v \in Seq(Names) /\ Once(v) /\ Rng(v) = Rng(d.declared) \ {n}
  BY <1>1, WithoutOnce DEF DeclaredAgree
<1>3. Rng(v) \subseteq d.symbols
  BY <1>1, <1>2 DEF DeclaredAgree
<1>4. RemoveDeclared(d, n) = WithDeclared(d, v)
  BY DEF RemoveDeclared, WithDeclared
<1>. HIDE DEF v
<1>. QED
  BY <1>2, <1>3, <1>4, WithField, WithFieldIds DEF GoodCall

LEMMA InternGood ==
  ASSUME NEW d, WellFormed(d), NEW n \in Names
  PROVE  GoodCall(d, Intern(d, n))
<1>1. d.symbols \in SUBSET Names
  BY Fields DEF WellFormed
<1>. DEFINE v == d.symbols \cup {n}
<1>2. v \in SUBSET Names /\ d.symbols \subseteq v
  BY <1>1
<1>3. Intern(d, n) = WithSymbols(d, v)
  BY DEF Intern, WithSymbols
<1>. HIDE DEF v
<1>. QED
  BY <1>2, <1>3, WithField, WithFieldIds DEF GoodCall

LEMMA ResolveIsGraph ==
  ASSUME NEW d, WellFormed(d), NEW n, Known(d, n)
  PROVE  Resolve(d, n) \in DOMAIN d.graphs
  BY DEF Known, Resolve

LEMMA ClientStepGood ==
  ASSUME WellFormed(design), ClientStep
  PROVE  GoodCall(design, design') /\ pc = "client" /\ UNCHANGED <<copy, pc, at>>
<1>0. \A n \in Names : CanAllocate(design, n) <=> n \notin DOMAIN design.graphs
  BY CanAllocateHolds
<1>1. ASSUME NEW n \in Names, CreateGraph(n)
      PROVE  GoodCall(design, design') /\ pc = "client" /\ UNCHANGED <<copy, pc, at>>
  BY <1>0, <1>1, AddGraphGood, RegistryAssumption DEF CreateGraph, CanCreate, Client
<1>2. ASSUME NEW n \in Names, DeleteGraph(n)
      PROVE  GoodCall(design, design') /\ pc = "client" /\ UNCHANGED <<copy, pc, at>>
  BY <1>2, EraseGraphGood, ResolveIsGraph DEF DeleteGraph, Client
<1>3. ASSUME NEW n \in Names, MarkTop(n)
      PROVE  GoodCall(design, design') /\ pc = "client" /\ UNCHANGED <<copy, pc, at>>
  BY <1>3, MarkAsTopGood DEF MarkTop, Client
<1>4. ASSUME NEW n \in Names, UnmarkTop(n)
      PROVE  GoodCall(design, design') /\ pc = "client" /\ UNCHANGED <<copy, pc, at>>
  BY <1>4, UnmarkAsTopGood DEF UnmarkTop, Client
<1>5. ASSUME NEW n \in Names, InternSymbol(n)
      PROVE  GoodCall(design, design') /\ pc = "client" /\ UNCHANGED <<copy, pc, at>>
  BY <1>5, InternGood DEF InternSymbol, Client
<1>6. ASSUME NEW n \in Names, DeclareSymbol(n)
      PROVE  GoodCall(design, design') /\ pc = "client" /\ UNCHANGED <<copy, pc, at>>
  BY <1>6, AddDeclaredGood DEF DeclareSymbol, Client
<1>7. ASSUME NEW n \in Names, UndeclareSymbol(n)
      PROVE  GoodCall(design, design') /\ pc = "client" /\ UNCHANGED <<copy, pc, at>>
  BY <1>7, RemoveDeclaredGood DEF UndeclareSymbol, Client
<1>8. ASSUME NEW n \in Names, NEW m \in Names, RegisterGraphAlias(n, m)
      PROVE  GoodCall(design, design') /\ pc = "client" /\ UNCHANGED <<copy, pc, at>>
  <2>1. RegisterAlias(design, n, m) = WithAliases(design, Put(design.aliases, n, m))
    BY DEF RegisterAlias, WithAliases
  <2>. QED
    BY <1>8, <2>1, PutAliasGood DEF RegisterGraphAlias, Client
<1>9. ASSUME NEW n \in Names, NEW m \in Names, NEW partial \in Contents \ Uncloneable, CloneGraph(m, n, partial)
      PROVE  GoodCall(design, design') /\ pc = "client" /\ UNCHANGED <<copy, pc, at>>
  <2>1. CanAllocate(design, n) /\ n \notin DOMAIN design.graphs /\ Len(design.owner) < MaxGraphs
    BY <1>0, <1>9 DEF CloneGraph, CanCreate
  <2>2. Resolve(design, m) \in DOMAIN design.graphs
    BY <1>9, ResolveIsGraph DEF CloneGraph
  <2>3. design.graphs \in MapsTo(Contents)
    BY Fields DEF WellFormed
  <2>4. design.graphs[Resolve(design, m)] \in Contents
    BY <2>2, <2>3, MapsToApply
  <2>5. PICK c \in Contents : Client(AddGraph(design, n, c))
    BY <1>9, <2>1, <2>4 DEF CloneGraph
  <2>. QED
    BY <2>1, <2>5, AddGraphGood DEF Client
<1>10. ASSUME NEW n \in Names, NEW content \in Contents, EditGraph(n, content)
       PROVE  GoodCall(design, design') /\ pc = "client" /\ UNCHANGED <<copy, pc, at>>
  <2>1. design' = WithGraphs(design, Put(design.graphs, n, content)) /\ n \in DOMAIN design.graphs
    BY <1>10 DEF EditGraph, Client, WithGraphs
  <2>2. pc = "client" /\ UNCHANGED <<copy, pc, at>>
    BY <1>10 DEF EditGraph, Client
  <2>. QED
    BY <2>1, <2>2, PutContentGood
<1>11. ASSUME ClearDeclared
       PROVE  GoodCall(design, design') /\ pc = "client" /\ UNCHANGED <<copy, pc, at>>
  <2>1. design' = WithDeclared(design, <<>>) /\ pc = "client" /\ UNCHANGED <<copy, pc, at>>
    BY <1>11 DEF ClearDeclared, Client, WithDeclared
  <2>2. <<>> \in Seq(Names) /\ Once(<<>>) /\ Rng(<<>>) \subseteq design.symbols
    BY DEF Once, Rng
  <2>. QED
    BY <2>1, <2>2, WithField, WithFieldIds DEF GoodCall
<1>. QED
  BY <1>1, <1>2, <1>3, <1>4, <1>5, <1>6, <1>7, <1>8, <1>9, <1>10, <1>11 DEF ClientStep

-----------------------------------------------------------------------------
(* The loops of clone().                                                   *)

\* The loop has reached position `at' of list, and part is what it passed.
Passed(part, list) ==
  /\ at <= Len(list) + 1
  /\ Len(part) = at - 1
  /\ \A i \in 1..(at - 1) : part[i] = list[i]

GraphsSoFar ==
  /\ Passed(copy.order, design.order)
  /\ Len(copy.owner) = at - 1
  /\ \A n \in DOMAIN copy.graphs : n \in DOMAIN design.graphs /\ copy.graphs[n] = design.graphs[n]
GraphsCopied == copy.order = design.order /\ copy.graphs = design.graphs

AliasesSoFar ==
  /\ at <= Len(design.order) + 1
  /\ \A a \in DOMAIN copy.aliases : a \in DOMAIN design.aliases /\ copy.aliases[a] = design.aliases[a]
  /\ \A a \in DOMAIN design.aliases : \A i \in 1..(at - 1) :
       design.aliases[a] = design.order[i] => a \in DOMAIN copy.aliases

CloneSoFar ==
  /\ pc = "graphs" => GraphsSoFar
  /\ pc \in {"aliases", "tops", "declared", "cloned"} => GraphsCopied
  /\ pc = "graphs" => DOMAIN copy.aliases = {}
  /\ pc = "aliases" => AliasesSoFar
  /\ pc \in {"tops", "declared", "cloned"} => copy.aliases = design.aliases
  /\ pc \in {"graphs", "aliases"} => copy.tops = <<>>
  /\ pc = "tops" => Passed(copy.tops, design.tops)
  /\ pc \in {"declared", "cloned"} => copy.tops = design.tops
  /\ pc \in {"graphs", "aliases", "tops"} => copy.declared = <<>>
  /\ pc = "declared" => Passed(copy.declared, design.declared)
  /\ pc = "cloned" => copy.declared = design.declared
  /\ pc = "threw" => ~TopsByName \/ \E n \in DOMAIN design.graphs : design.graphs[n] \in Uncloneable

IInv ==
  /\ WellFormed(design)
  /\ WellFormed(copy)
  /\ pc \in Phases
  /\ at \in Nat \ {0}
  /\ CloneSoFar

LEMMA PassedAll ==
  ASSUME NEW S, NEW part \in Seq(S), NEW list \in Seq(S), at \in Nat \ {0},
         Passed(part, list), at > Len(list)
  PROVE  part = list
<1>1. Len(part) = Len(list) /\ Len(list) \in Nat
  BY DEF Passed
<1>2. \A i \in 1..Len(part) : part[i] = list[i]
  BY <1>1 DEF Passed
<1>. QED
  BY <1>1, <1>2, SeqEqual

LEMMA PassedOne ==
  ASSUME NEW S, NEW part \in Seq(S), NEW list \in Seq(S), at \in Nat \ {0},
         Passed(part, list), at <= Len(list), Once(list)
  PROVE  /\ ~In(part, list[at])
         /\ list[at] \in S
         /\ at + 1 <= Len(list) + 1
         /\ Len(Append(part, list[at])) = (at + 1) - 1
         /\ \A i \in 1..((at + 1) - 1) : Append(part, list[at])[i] = list[i]
<1>1. Len(list) \in Nat /\ DOMAIN list = 1..Len(list) /\ DOMAIN part = 1..(at - 1) /\ at \in 1..Len(list)
  BY DEF Passed
<1>2. ~In(part, list[at])
  BY <1>1 DEF In, Once, Passed
<1>3. list[at] \in S
  BY <1>1
<1>4. Len(Append(part, list[at])) = (at + 1) - 1
  BY <1>3 DEF Passed
<1>5. ASSUME NEW i \in 1..((at + 1) - 1)
      PROVE  Append(part, list[at])[i] = list[i]
  <2>1. CASE i = at
    BY <2>1, <1>3 DEF Passed
  <2>2. CASE i # at
    <3>1. i \in 1..(at - 1)
      BY <2>2
    <3>. QED
      BY <3>1, <1>3 DEF Passed
  <2>. QED
    BY <2>1, <2>2
<1>. QED
  BY <1>1, <1>2, <1>3, <1>4, <1>5

LEMMA StartCloneKeeps == IInv /\ StartClone => IInv'
<1>. SUFFICES ASSUME IInv, StartClone PROVE IInv'
  OBVIOUS
<1>1. design' = design /\ copy' = EmptyDesign /\ pc' = "graphs" /\ at' = 1
  BY DEF StartClone
<1>2. WellFormed(copy')
  BY <1>1, EmptyWellFormed
<1>3. Len(design.order) \in Nat
  BY Fields DEF IInv, WellFormed
<1>4. /\ EmptyDesign.order = <<>> /\ EmptyDesign.owner = <<>> /\ EmptyDesign.tops = <<>>
      /\ EmptyDesign.declared = <<>> /\ DOMAIN EmptyDesign.graphs = {} /\ DOMAIN EmptyDesign.aliases = {}
  BY DEF EmptyDesign
<1>5. GraphsSoFar'
  BY <1>1, <1>3, <1>4 DEF GraphsSoFar, Passed
<1>6. CloneSoFar'
  BY <1>1, <1>4, <1>5 DEF CloneSoFar
<1>. QED
  BY <1>1, <1>2, <1>6 DEF IInv, Phases

LEMMA CopyGraphKeeps == IInv /\ CopyGraph => IInv'
<1>. SUFFICES ASSUME IInv, CopyGraph PROVE IInv'
  OBVIOUS
<1>. DEFINE n == design.order[at]
<1>0. /\ WellFormed(design) /\ WellFormed(copy) /\ pc = "graphs" /\ at \in Nat \ {0}
      /\ at <= Len(design.order) /\ CloneSoFar
  BY DEF IInv, CopyGraph
<1>1. /\ design.order \in Seq(Names) /\ copy.order \in Seq(Names) /\ Once(design.order)
      /\ Passed(copy.order, design.order) /\ DOMAIN copy.aliases = {}
      /\ copy.tops = <<>> /\ copy.declared = <<>>
  BY <1>0, Fields DEF WellFormed, CloneSoFar, GraphsSoFar, OrderAgrees
<1>2. /\ ~In(copy.order, n) /\ n \in Names
      /\ at + 1 <= Len(design.order) + 1
      /\ Len(Append(copy.order, n)) = (at + 1) - 1
      /\ \A i \in 1..((at + 1) - 1) : Append(copy.order, n)[i] = design.order[i]
  <2>1. /\ copy.order \in Seq(Names) /\ design.order \in Seq(Names) /\ at \in Nat \ {0}
        /\ Passed(copy.order, design.order) /\ at <= Len(design.order) /\ Once(design.order)
    BY <1>0, <1>1
  <2>. QED
    BY <2>1, PassedOne
<1>3. n \in DOMAIN design.graphs /\ n \notin DOMAIN copy.graphs
  BY <1>0, <1>1, <1>2 DEF WellFormed, OrderAgrees, Rng, In
<1>4. CanAllocate(copy, n)
  BY <1>0, <1>3, CanAllocateHolds
<1>5. design.graphs \in MapsTo(Contents) /\ design.graphs[n] \in Contents
  BY <1>0, <1>3, Fields, MapsToApply DEF WellFormed
<1>6. /\ Len(copy.owner) = at - 1 /\ Len(design.order) <= Len(design.owner)
      /\ Len(design.owner) <= MaxGraphs /\ Len(design.owner) \in Nat /\ Len(design.order) \in Nat
  BY <1>0, Fields DEF WellFormed, CloneSoFar, GraphsSoFar, OrderAgrees
<1>7. Len(copy.owner) < MaxGraphs
  BY <1>0, <1>6, RegistryAssumption
<1>8. CASE design.graphs[n] \in Uncloneable
  <2>1. Throw
    BY <1>8 DEF CopyGraph
  <2>2. design' = design /\ copy' = copy /\ pc' = "threw" /\ at' = at
    BY <2>1 DEF Throw
  <2>3. CloneSoFar'
    BY <1>3, <1>8, <2>2 DEF CloneSoFar
  <2>. QED
    BY <1>0, <2>2, <2>3 DEF IInv, Phases
<1>9. CASE design.graphs[n] \notin Uncloneable
  <2>. DEFINE e == AddGraph(copy, n, design.graphs[n])
  <2>1. design' = design /\ copy' = e /\ pc' = "graphs" /\ at' = at + 1
    BY <1>0, <1>3, <1>4, <1>9 DEF CopyGraph, Advance
  <2>2. WellFormed(e)
    BY <1>0, <1>2, <1>3, <1>5, <1>7, AddGraphWellFormed
  <2>3. copy \in DesignSet /\ copy.owner \in Seq(Names \cup {NoName}) /\ copy.graphs \in MapsTo(Contents)
    BY <1>0, Fields DEF WellFormed
  <2>4. /\ e.order = Append(copy.order, n) /\ e.owner = Append(copy.owner, n)
        /\ e.graphs = Put(copy.graphs, n, design.graphs[n])
        /\ e.aliases = copy.aliases /\ e.tops = copy.tops /\ e.declared = copy.declared
    BY <2>3, AddGraphFields DEF Made
  <2>5. Len(e.owner) = (at + 1) - 1
    <3>1. \A q \in Seq(Names \cup {NoName}) : Len(Append(q, n)) = Len(q) + 1
      BY <1>2
    <3>2. Len(Append(copy.owner, n)) = Len(copy.owner) + 1
      BY <2>3, <3>1
    <3>3. Len(e.owner) = Len(copy.owner) + 1
      BY <2>4, <3>2
    <3>. HIDE DEF e
    <3>. QED
      BY <1>0, <1>6, <3>3
  <2>6. \A m \in DOMAIN e.graphs : m \in DOMAIN design.graphs /\ e.graphs[m] = design.graphs[m]
    BY <1>0, <1>3, <2>4 DEF Put, CloneSoFar, GraphsSoFar
  <2>. HIDE DEF e, n
  <2>7. GraphsSoFar'
    BY <1>2, <2>1, <2>4, <2>5, <2>6 DEF GraphsSoFar, Passed
  <2>8. CloneSoFar'
    BY <1>1, <2>1, <2>4, <2>7 DEF CloneSoFar
  <2>. QED
    BY <1>0, <2>1, <2>2, <2>8 DEF IInv, Phases
<1>. QED
  BY <1>8, <1>9

LEMMA CopyAliasesKeeps == IInv /\ CopyAliases => IInv'
<1>. SUFFICES ASSUME IInv, CopyAliases PROVE IInv'
  OBVIOUS
<1>. DEFINE n == design.order[at]
            A == AliasesOf(design, n)
            v == [a \in DOMAIN copy.aliases \cup A |-> IF a \in A THEN n ELSE copy.aliases[a]]
<1>0. /\ WellFormed(design) /\ WellFormed(copy) /\ pc = "aliases" /\ at \in Nat \ {0}
      /\ at <= Len(design.order) /\ CloneSoFar
  BY DEF IInv, CopyAliases
<1>1. /\ copy.order = design.order /\ copy.graphs = design.graphs /\ AliasesSoFar
      /\ copy.tops = <<>> /\ copy.declared = <<>>
  BY <1>0 DEF CloneSoFar, GraphsCopied
<1>2. /\ design.order \in Seq(Names) /\ design.aliases \in MapsTo(Names) /\ copy.aliases \in MapsTo(Names)
      /\ design.graphs \in MapsTo(Contents)
  BY <1>0, Fields DEF WellFormed
<1>3. at \in DOMAIN design.order /\ Len(design.order) \in Nat
  BY <1>0, <1>2
<1>4. n \in DOMAIN copy.graphs /\ n \in Names
  BY <1>0, <1>1, <1>2, <1>3 DEF WellFormed, OrderAgrees, Rng
<1>5. design' = design /\ copy' = WithAliases(copy, v) /\ pc' = "aliases" /\ at' = at + 1
  BY <1>0, <1>4 DEF CopyAliases, Advance, WithAliases
<1>6. A \subseteq DOMAIN design.aliases /\ A \subseteq Names /\ \A a \in A : design.aliases[a] = n
  BY <1>2, MapsToApply DEF AliasesOf
<1>7. DOMAIN copy.aliases \subseteq Names /\ \A a \in DOMAIN copy.aliases : copy.aliases[a] \in Names
  BY <1>2, MapsToApply
<1>8. DOMAIN v = DOMAIN copy.aliases \cup A /\ \A a \in DOMAIN v : v[a] = IF a \in A THEN n ELSE copy.aliases[a]
  OBVIOUS
<1>9. v \in MapsTo(Names)
  <2>. DEFINE D == DOMAIN copy.aliases \cup A
  <2>1. D \in SUBSET Names
    BY <1>6, <1>7
  <2>2. v \in [D -> Names]
    BY <1>4, <1>7
  <2>. HIDE DEF v, D
  <2>. QED
    BY <2>1, <2>2, MapsToIntro
<1>. HIDE DEF v
<1>10. \A a \in DOMAIN v : v[a] \in DOMAIN copy.graphs
  BY <1>0, <1>4, <1>8 DEF WellFormed, AliasesAgree
<1>11. WellFormed(WithAliases(copy, v))
  BY <1>0, <1>9, <1>10, WithField
<1>12. /\ copy'.aliases = v /\ copy'.order = copy.order /\ copy'.graphs = copy.graphs
       /\ copy'.tops = copy.tops /\ copy'.declared = copy.declared
  <2>1. copy \in DesignSet
    BY <1>0, Fields DEF WellFormed
  <2>. QED
    BY <2>1, <1>5, OneField DEF Made
<1>13. \A a \in DOMAIN v : a \in DOMAIN design.aliases /\ v[a] = design.aliases[a]
  BY <1>1, <1>6, <1>8 DEF AliasesSoFar
<1>14. ASSUME NEW a \in DOMAIN design.aliases, NEW i \in 1..((at + 1) - 1),
              design.aliases[a] = design.order[i]
       PROVE  a \in DOMAIN v
  <2>1. CASE i = at
    BY <2>1, <1>14, <1>8 DEF AliasesOf
  <2>2. CASE i # at
    <3>1. i \in 1..(at - 1)
      BY <2>2, <1>0
    <3>. QED
      BY <3>1, <1>1, <1>8, <1>14 DEF AliasesSoFar
  <2>. QED
    BY <2>1, <2>2
<1>15. AliasesSoFar'
  BY <1>0, <1>3, <1>5, <1>12, <1>13, <1>14 DEF AliasesSoFar
<1>16. CloneSoFar'
  BY <1>1, <1>5, <1>12, <1>15 DEF CloneSoFar, GraphsCopied
<1>. QED
  BY <1>0, <1>5, <1>11, <1>16 DEF IInv, Phases

LEMMA CopyTopKeeps == IInv /\ CopyTop => IInv'
<1>. SUFFICES ASSUME IInv, CopyTop PROVE IInv'
  OBVIOUS
<1>. DEFINE n == design.tops[at]
<1>0. /\ WellFormed(design) /\ WellFormed(copy) /\ pc = "tops" /\ at \in Nat \ {0}
      /\ at <= Len(design.tops) /\ CloneSoFar
  BY DEF IInv, CopyTop
<1>1. /\ copy.order = design.order /\ copy.graphs = design.graphs /\ copy.aliases = design.aliases
      /\ Passed(copy.tops, design.tops) /\ copy.declared = <<>>
  BY <1>0 DEF CloneSoFar, GraphsCopied
<1>2. /\ design.tops \in Seq(Names) /\ copy.tops \in Seq(Names) /\ Once(design.tops) /\ at \in DOMAIN design.tops
      /\ Len(design.tops) \in Nat
  BY <1>0, Fields DEF WellFormed, TopsAgree
<1>3. /\ ~In(copy.tops, n) /\ n \in Names
      /\ at + 1 <= Len(design.tops) + 1
      /\ Len(Append(copy.tops, n)) = (at + 1) - 1
      /\ \A i \in 1..((at + 1) - 1) : Append(copy.tops, n)[i] = design.tops[i]
  BY <1>0, <1>1, <1>2, PassedOne
<1>4. TopsByName => n \in DOMAIN copy.graphs
  BY <1>0, <1>1, <1>2 DEF WellFormed, TopsAgree, Rng
<1>5. TopsByName => Known(copy, n)
  BY <1>3, <1>4, RegistryAssumption DEF Known, Resolve
<1>6. CASE ~Known(copy, n)
  <2>1. design' = design /\ copy' = copy /\ pc' = "threw" /\ at' = at
    BY <1>6 DEF CopyTop, Throw
  <2>2. CloneSoFar'
    BY <1>5, <1>6, <2>1 DEF CloneSoFar
  <2>. QED
    BY <1>0, <2>1, <2>2 DEF IInv, Phases
<1>7. CASE Known(copy, n)
  <2>1. design' = design /\ copy' = MarkAsTop(copy, n) /\ pc' = "tops" /\ at' = at + 1
    BY <1>0, <1>7 DEF CopyTop, Advance
  <2>2. WellFormed(MarkAsTop(copy, n))
    BY <1>0, <1>3, <1>4, MarkAsTopGood DEF GoodCall
  <2>3. MarkAsTop(copy, n) = WithTops(copy, Append(copy.tops, n))
    BY <1>3 DEF MarkAsTop, With, WithTops
  <2>4. /\ copy'.tops = Append(copy.tops, n) /\ copy'.order = copy.order /\ copy'.graphs = copy.graphs
        /\ copy'.aliases = copy.aliases /\ copy'.declared = copy.declared
    <3>. DEFINE v == Append(copy.tops, n)
    <3>1. copy \in DesignSet
      BY <1>0, Fields DEF WellFormed
    <3>2. copy' = WithTops(copy, v)
      BY <2>1, <2>3
    <3>. HIDE DEF v
    <3>3. copy' = Made(copy.graphs, copy.ids, copy.order, copy.aliases, v, copy.declared,
                       copy.symbols, copy.owner)
      BY <3>1, <3>2, OneField
    <3>4. /\ copy'.tops = v /\ copy'.order = copy.order /\ copy'.graphs = copy.graphs
          /\ copy'.aliases = copy.aliases /\ copy'.declared = copy.declared
      BY <3>3 DEF Made
    <3>. QED
      BY <3>4 DEF v
  <2>. HIDE DEF n
  <2>5. Passed(copy.tops, design.tops)'
    BY <1>3, <2>1, <2>4 DEF Passed
  <2>6. CloneSoFar'
    BY <1>1, <2>1, <2>4, <2>5 DEF CloneSoFar, GraphsCopied
  <2>. QED
    BY <1>0, <2>1, <2>2, <2>6 DEF IInv, Phases
<1>. QED
  BY <1>6, <1>7

LEMMA CopyDeclaredKeeps == IInv /\ CopyDeclared => IInv'
<1>. SUFFICES ASSUME IInv, CopyDeclared PROVE IInv'
  OBVIOUS
<1>. DEFINE n == design.declared[at]
            e == Intern(copy, n)
<1>0. /\ WellFormed(design) /\ WellFormed(copy) /\ pc = "declared" /\ at \in Nat \ {0}
      /\ at <= Len(design.declared) /\ CloneSoFar
  BY DEF IInv, CopyDeclared
<1>1. /\ copy.order = design.order /\ copy.graphs = design.graphs /\ copy.aliases = design.aliases
      /\ copy.tops = design.tops /\ Passed(copy.declared, design.declared)
  BY <1>0 DEF CloneSoFar, GraphsCopied
<1>2. design.declared \in Seq(Names) /\ copy.declared \in Seq(Names) /\ Once(design.declared)
  BY <1>0, Fields DEF WellFormed, DeclaredAgree
<1>3. /\ ~In(copy.declared, n) /\ n \in Names
      /\ at + 1 <= Len(design.declared) + 1
      /\ Len(Append(copy.declared, n)) = (at + 1) - 1
      /\ \A i \in 1..((at + 1) - 1) : Append(copy.declared, n)[i] = design.declared[i]
  BY <1>0, <1>1, <1>2, PassedOne
<1>4. design' = design /\ copy' = AddDeclared(e, n) /\ pc' = "declared" /\ at' = at + 1
  BY <1>0 DEF CopyDeclared, Advance
<1>5. copy \in DesignSet
  BY <1>0, Fields DEF WellFormed
<1>6. /\ e.order = copy.order /\ e.graphs = copy.graphs /\ e.aliases = copy.aliases
      /\ e.tops = copy.tops /\ e.declared = copy.declared /\ e.symbols = copy.symbols \cup {n}
  <2>1. e = WithSymbols(copy, copy.symbols \cup {n})
    BY DEF Intern, WithSymbols
  <2>. HIDE DEF e
  <2>. QED
    BY <1>5, <2>1, OneField DEF Made
<1>7. WellFormed(e)
  BY <1>0, <1>3, InternGood DEF GoodCall
<1>. HIDE DEF e, n
<1>8. WellFormed(AddDeclared(e, n))
  BY <1>6, <1>7, AddDeclaredGood DEF GoodCall
<1>9. /\ copy'.declared = Append(copy.declared, n) /\ copy'.order = copy.order /\ copy'.graphs = copy.graphs
      /\ copy'.aliases = copy.aliases /\ copy'.tops = copy.tops
  <2>1. AddDeclared(e, n) = WithDeclared(e, Append(copy.declared, n))
    BY <1>3, <1>6 DEF AddDeclared, With, WithDeclared
  <2>2. e \in DesignSet
    BY <1>7, Fields DEF WellFormed
  <2>. DEFINE v == Append(copy.declared, n)
  <2>3. copy' = WithDeclared(e, v)
    BY <1>4, <1>6, <2>1
  <2>. HIDE DEF v
  <2>4. copy' = Made(e.graphs, e.ids, e.order, e.aliases, e.tops, v, e.symbols, e.owner)
    BY <2>2, <2>3, OneField
  <2>5. /\ copy'.declared = v /\ copy'.order = e.order /\ copy'.graphs = e.graphs
        /\ copy'.aliases = e.aliases /\ copy'.tops = e.tops
    BY <2>4 DEF Made
  <2>. QED
    BY <1>6, <2>5 DEF v
<1>10. Passed(copy.declared, design.declared)'
  BY <1>3, <1>4, <1>9 DEF Passed
<1>11. CloneSoFar'
  BY <1>1, <1>4, <1>9, <1>10 DEF CloneSoFar, GraphsCopied
<1>. QED
  BY <1>0, <1>4, <1>8, <1>11 DEF IInv, Phases

LEMMA LoopEndKeeps ==
  ASSUME IInv,
         \/ Loop("graphs", design.order, "aliases")
         \/ Loop("aliases", design.order, "tops")
         \/ Loop("tops", design.tops, "declared")
         \/ Loop("declared", design.declared, "cloned")
  PROVE  IInv'
<1>0. /\ WellFormed(design) /\ WellFormed(copy) /\ at \in Nat \ {0} /\ CloneSoFar
      /\ design' = design /\ copy' = copy /\ at' = 1
  BY DEF IInv, Loop
<1>1. /\ design.order \in Seq(Names) /\ copy.order \in Seq(Names) /\ design.tops \in Seq(Names)
      /\ copy.tops \in Seq(Names) /\ design.declared \in Seq(Names) /\ copy.declared \in Seq(Names)
      /\ design.graphs \in MapsTo(Contents) /\ copy.graphs \in MapsTo(Contents)
      /\ design.aliases \in MapsTo(Names) /\ copy.aliases \in MapsTo(Names)
  BY <1>0, Fields DEF WellFormed
<1>2. Len(design.order) \in Nat /\ Len(design.tops) \in Nat /\ Len(design.declared) \in Nat
  BY <1>1
<1>3. CASE Loop("graphs", design.order, "aliases")
  <2>1. pc = "graphs" /\ at > Len(design.order) /\ pc' = "aliases"
    BY <1>3 DEF Loop
  <2>2. copy.order = design.order
    BY <1>0, <1>1, <2>1, PassedAll DEF CloneSoFar, GraphsSoFar
  <2>3. DOMAIN copy.graphs = DOMAIN design.graphs
    BY <1>0, <2>2 DEF WellFormed, OrderAgrees
  <2>4. copy.graphs = design.graphs
    BY <1>0, <1>1, <2>1, <2>3, MapsToEqual DEF CloneSoFar, GraphsSoFar
  <2>5. AliasesSoFar'
    BY <1>0, <1>2, <2>1 DEF CloneSoFar, AliasesSoFar
  <2>6. CloneSoFar'
    BY <1>0, <2>1, <2>2, <2>4, <2>5 DEF CloneSoFar, GraphsCopied
  <2>. QED
    BY <1>0, <2>1, <2>6 DEF IInv, Phases
<1>4. CASE Loop("aliases", design.order, "tops")
  <2>1. pc = "aliases" /\ at > Len(design.order) /\ pc' = "tops"
    BY <1>4 DEF Loop
  <2>2. \A a \in DOMAIN design.aliases : a \in DOMAIN copy.aliases
    <3>. SUFFICES ASSUME NEW a \in DOMAIN design.aliases PROVE a \in DOMAIN copy.aliases
      OBVIOUS
    <3>1. design.aliases[a] \in Rng(design.order)
      BY <1>0 DEF WellFormed, AliasesAgree, OrderAgrees
    <3>2. DOMAIN design.order = 1..Len(design.order)
      BY <1>1
    <3>3. PICK i \in 1..Len(design.order) : design.order[i] = design.aliases[a]
      BY <3>1, <3>2 DEF Rng
    <3>4. i \in 1..(at - 1)
      BY <1>0, <1>2, <2>1
    <3>. QED
      BY <1>0, <2>1, <3>3, <3>4 DEF CloneSoFar, AliasesSoFar
  <2>3. /\ DOMAIN copy.aliases \subseteq DOMAIN design.aliases
        /\ \A a \in DOMAIN copy.aliases : copy.aliases[a] = design.aliases[a]
    BY <1>0, <2>1 DEF CloneSoFar, AliasesSoFar
  <2>4. DOMAIN copy.aliases = DOMAIN design.aliases
    BY <2>2, <2>3
  <2>5. copy.aliases = design.aliases
    BY <1>1, <2>3, <2>4, MapsToEqual
  <2>6. Passed(copy.tops, design.tops)'
    BY <1>0, <1>2, <2>1 DEF CloneSoFar, Passed
  <2>7. CloneSoFar'
    BY <1>0, <2>1, <2>5, <2>6 DEF CloneSoFar, GraphsCopied
  <2>. QED
    BY <1>0, <2>1, <2>7 DEF IInv, Phases
<1>5. CASE Loop("tops", design.tops, "declared")
  <2>1. pc = "tops" /\ at > Len(design.tops) /\ pc' = "declared"
    BY <1>5 DEF Loop
  <2>2. copy.tops = design.tops
    BY <1>0, <1>1, <2>1, PassedAll DEF CloneSoFar
  <2>3. Passed(copy.declared, design.declared)'
    BY <1>0, <1>2, <2>1 DEF CloneSoFar, Passed
  <2>4. CloneSoFar'
    BY <1>0, <2>1, <2>2, <2>3 DEF CloneSoFar, GraphsCopied
  <2>. QED
    BY <1>0, <2>1, <2>4 DEF IInv, Phases
<1>6. CASE Loop("declared", design.declared, "cloned")
  <2>1. pc = "declared" /\ at > Len(design.declared) /\ pc' = "cloned"
    BY <1>6 DEF Loop
  <2>2. copy.declared = design.declared
    BY <1>0, <1>1, <2>1, PassedAll DEF CloneSoFar
  <2>3. CloneSoFar'
    BY <1>0, <2>1, <2>2 DEF CloneSoFar, GraphsCopied
  <2>. QED
    BY <1>0, <2>1, <2>3 DEF IInv, Phases
<1>. QED
  BY <1>3, <1>4, <1>5, <1>6

-----------------------------------------------------------------------------
(* The theorems.                                                           *)

LEMMA InitHolds == Init => IInv
<1>. SUFFICES ASSUME Init PROVE IInv
  OBVIOUS
<1>1. WellFormed(design) /\ WellFormed(copy)
  BY EmptyWellFormed DEF Init
<1>2. pc = "client" /\ at = 1
  BY DEF Init
<1>3. CloneSoFar
  BY <1>2 DEF CloneSoFar
<1>. QED
  BY <1>1, <1>2, <1>3 DEF IInv, Phases

LEMMA StepKeeps == IInv /\ [Next]_vars => IInv'
<1>. SUFFICES ASSUME IInv, [Next]_vars PROVE IInv'
  OBVIOUS
<1>1. CASE ClientStep
  <2>1. GoodCall(design, design') /\ pc = "client" /\ UNCHANGED <<copy, pc, at>>
    BY <1>1, ClientStepGood DEF IInv
  <2>2. CloneSoFar'
    BY <2>1 DEF CloneSoFar
  <2>. QED
    BY <2>1, <2>2 DEF IInv, GoodCall
<1>2. CASE StartClone
  BY <1>2, StartCloneKeeps
<1>3. CASE CopyGraph
  BY <1>3, CopyGraphKeeps
<1>4. CASE CopyAliases
  BY <1>4, CopyAliasesKeeps
<1>5. CASE CopyTop
  BY <1>5, CopyTopKeeps
<1>6. CASE CopyDeclared
  BY <1>6, CopyDeclaredKeeps
<1>7. CASE \/ Loop("graphs", design.order, "aliases")
           \/ Loop("aliases", design.order, "tops")
           \/ Loop("tops", design.tops, "declared")
           \/ Loop("declared", design.declared, "cloned")
  BY <1>7, LoopEndKeeps
<1>8. CASE Adopt
  <2>1. design' = copy /\ copy' = copy /\ pc' = "client" /\ at' = 1
    BY <1>8 DEF Adopt
  <2>2. CloneSoFar'
    BY <2>1 DEF CloneSoFar
  <2>. QED
    BY <2>1, <2>2 DEF IInv, Phases
<1>9. CASE Discard
  <2>1. design' = design /\ copy' = EmptyDesign /\ pc' = "client" /\ at' = 1
    BY <1>9 DEF Discard
  <2>2. CloneSoFar'
    BY <2>1 DEF CloneSoFar
  <2>. QED
    BY <2>1, <2>2, EmptyWellFormed DEF IInv, Phases
<1>10. CASE UNCHANGED vars
  <2>1. design' = design /\ copy' = copy /\ pc' = pc /\ at' = at
    BY <1>10 DEF vars
  <2>2. CloneSoFar'
    BY <2>1 DEF IInv, CloneSoFar, GraphsSoFar, GraphsCopied, AliasesSoFar, Passed
  <2>. QED
    BY <2>1, <2>2 DEF IInv
<1>. QED
  BY <1>1, <1>2, <1>3, <1>4, <1>5, <1>6, <1>7, <1>8, <1>9, <1>10 DEF Next, CloneStep

LEMMA Always == Spec => []IInv
  BY InitHolds, StepKeeps, PTL DEF Spec

\* Both designs are well formed records in every state.
THEOREM DesignsTyped == Spec => []TypeOK
<1>1. IInv => TypeOK
  BY DEF IInv, TypeOK, WellFormed
<1>. QED
  BY <1>1, Always, PTL

\* The order of a design lists exactly its graphs, each once
\* (addGraphInternal, deleteGraph).
THEOREM OrderIsExact == Spec => []OrderExact
<1>1. IInv => OrderExact
  BY DEF IInv, OrderExact, WellFormed, OrderAgrees, Rng
<1>. QED
  BY <1>1, Always, PTL

\* No alias outlives its graph (registerGraphAlias, deleteGraph).
THEOREM NoAliasDangles == Spec => []AliasesResolve
<1>1. IInv => AliasesResolve
  BY DEF IInv, AliasesResolve, WellFormed, AliasesAgree
<1>. QED
  BY <1>1, Always, PTL

\* Ids and graphs correspond one to one (allocateGraphId, releaseGraphId).
THEOREM IdsAreExact == Spec => []IdsExact
<1>1. IInv => IdsExact
  BY DEF IInv, IdsExact, WellFormed, IdsAgree
<1>. QED
  BY <1>1, Always, PTL

\* Declared symbols are interned ones, each declared once.
THEOREM DeclaredAreInterned == Spec => []DeclaredInterned
<1>1. IInv => DeclaredInterned
  BY DEF IInv, DeclaredInterned, WellFormed, DeclaredAgree, Rng
<1>. QED
  BY <1>1, Always, PTL

\* The tables of a design and of its half-made clone agree with each other.
THEOREM TablesAlwaysAgree == Spec => []TablesAgree
<1>1. OrderExact /\ AliasesResolve /\ IdsExact /\ DeclaredInterned <=> TablesAgree
  BY DEF TablesAgree
<1>. QED
  BY <1>1, OrderIsExact, NoAliasDangles, IdsAreExact, DeclaredAreInterned, PTL

\* When clients mark graphs by their own names, every top finds a graph.
THEOREM TopsFindGraphs == Spec => []TopsResolve
<1>1. ASSUME IInv, TopsByName, NEW d \in {design, copy}, NEW i \in DOMAIN d.tops
      PROVE  Known(d, d.tops[i])
  <2>1. WellFormed(d)
    BY <1>1 DEF IInv
  <2>2. d.tops[i] \in DOMAIN d.graphs
    BY <1>1, <2>1 DEF WellFormed, TopsAgree, Rng
  <2>3. d.tops[i] \in Names
    BY <2>1, <2>2, Fields, MapsToApply DEF WellFormed
  <2>. QED
    BY <2>2, <2>3, RegistryAssumption DEF Known, Resolve
<1>2. IInv => TopsResolve
  BY <1>1 DEF TopsResolve
<1>. QED
  BY <1>2, Always, PTL

\* Then clone() throws only at a graph whose contents cannot be cloned.
THEOREM CloneThrowsForContents ==
  ASSUME TopsByName
  PROVE  Spec => []CloneThrowsOnlyAtContents
<1>1. IInv => CloneThrowsOnlyAtContents
  BY DEF IInv, CloneSoFar, CloneThrowsOnlyAtContents
<1>. QED
  BY <1>1, Always, PTL

\* A finished clone has everything its source has, whatever was registered,
\* marked and deleted before (Design::clone).
THEOREM ClonesAreWhole == Spec => []CloneIsWhole
<1>1. IInv => CloneIsWhole
  BY DEF IInv, CloneSoFar, GraphsCopied, CloneIsWhole
<1>. QED
  BY <1>1, Always, PTL

\* A GraphId is never given to a second graph of a design, so a ValueId that
\* outlives its graph is never taken for one of a later graph.
THEOREM IdsAreNeverReused == Spec => IdsNeverReused
<1>1. ASSUME IInv, [Next]_vars, pc = "client"
      PROVE  IdsGrow(design, design')
  <2>1. CASE ClientStep
    BY <1>1, <2>1, ClientStepGood DEF IInv, GoodCall
  <2>2. CASE design' = design
    BY <1>1, <2>2, SameIdsGrow DEF IInv
  <2>3. CASE CloneStep
    BY <1>1, <2>2, <2>3 DEF CloneStep, StartClone, CopyGraph, CopyAliases, CopyTop, CopyDeclared, Loop, Adopt, Discard
  <2>. QED
    BY <1>1, <2>1, <2>2, <2>3 DEF Next, vars
<1>2. IInv /\ [Next]_vars =>
        [pc = "client" =>
           /\ Len(design'.owner) >= Len(design.owner)
           /\ \A n \in DOMAIN design'.ids :
                 \/ n \in DOMAIN design.ids /\ design'.ids[n] = design.ids[n]
                 \/ design'.ids[n] > Len(design.owner)]_vars
  BY <1>1 DEF IdsGrow
<1>. QED
  BY <1>2, Always, PTL DEF Spec, IdsNeverReused
=============================================================================
