------------------------------ MODULE Graph_proofs -----------------------------
(***************************************************************************)
(* Proofs about GraphBuilder and Graph, for graphs of any size, operations *)
(* of any arity and any symbols and port names.  First a builder: the two  *)
(* copies that it keeps of the edges, the definitions, the symbols and the *)
(* ports stay in step.  Inv is inductive; it has one part for each group   *)
(* of variables, and every call edits few groups.  No part is inductive    *)
(* alone: erasing a value leaves no dangling edge only because the use     *)
(* lists and defining operations it asks are exact, a definition is        *)
(* cleared only because a value is at one place among the results, and a   *)
(* new operation finds the use lists exact only because an entry not yet   *)
(* created has no operands.                                                *)
(*                                                                         *)
(* Then a graph that is frozen, thawed and written in any order: it keeps  *)
(* its builder's invariant, its cached lists, the names of its netlist,    *)
(* and the contract of UseDefGraph.  GraphInv is Inv with CachesOK. Writes *)
(* keep Inv because each is a call of the builder; freezing keeps it       *)
(* because live entries move to their ranks, a bijection onto 1, 2, ...    *)
(* that keeps their order, so every part of Inv is the image of itself.    *)
(* CachesOK needs the order: a new entry goes to the end of a cached list, *)
(* which is where a rebuild would put it only because no live entry lies   *)
(* above it.                                                               *)
(***************************************************************************)
EXTENDS Graph, SequenceTheorems, FiniteSetTheorems, TLAPS

USE BuilderAssumption DEF BuilderAssumption

-----------------------------------------------------------------------------
(* Sequences of values. *)

LEMMA InsertAtProperties ==
  ASSUME NEW s \in Seq(ValueIds), NEW k \in 1 .. Len(s) + 1, NEW v \in ValueIds
  PROVE  /\ InsertAt(s, k, v) \in Seq(ValueIds)
         /\ Len(InsertAt(s, k, v)) = Len(s) + 1
         /\ \A i \in 1 .. k - 1 : InsertAt(s, k, v)[i] = s[i]
         /\ InsertAt(s, k, v)[k] = v
         /\ \A i \in k .. Len(s) : InsertAt(s, k, v)[i + 1] = s[i]
<1> DEFINE a == SubSeq(s, 1, k - 1)  b == SubSeq(s, k, Len(s))
<1>1. a \in Seq(ValueIds) /\ Len(a) = k - 1 /\ \A i \in 1 .. k - 1 : a[i] = s[i]
  BY SubSeqProperties
<1>2. b \in Seq(ValueIds) /\ Len(b) = Len(s) - k + 1 /\ \A i \in 1 .. Len(s) - k + 1 : b[i] = s[k + i - 1]
  BY SubSeqProperties
<1>3. <<v>> \in Seq(ValueIds) /\ Len(<<v>>) = 1 /\ <<v>>[1] = v
  OBVIOUS
<1> HIDE DEF a, b
<1>4. /\ a \o <<v>> \in Seq(ValueIds) /\ Len(a \o <<v>>) = k
      /\ \A i \in 1 .. k : (a \o <<v>>)[i] = IF i < k THEN s[i] ELSE v
  BY <1>1, <1>3, ConcatProperties
<1> DEFINE c == a \o <<v>>
<1>5. InsertAt(s, k, v) = c \o b
  BY DEF InsertAt, a, b
<1> HIDE DEF c
<1>6. /\ c \o b \in Seq(ValueIds) /\ Len(c \o b) = Len(s) + 1
      /\ \A i \in 1 .. Len(s) + 1 : (c \o b)[i] = IF i <= k THEN c[i] ELSE b[i - k]
  <2>1. c \in Seq(ValueIds) /\ Len(c) = k
    BY <1>4 DEF c
  <2> QED
    BY <1>2, <2>1, ConcatProperties
<1>7. \A i \in k .. Len(s) : i + 1 - k \in 1 .. Len(s) - k + 1 /\ b[i + 1 - k] = s[i]
  BY <1>2
<1>8. \A i \in 1 .. k : c[i] = IF i < k THEN s[i] ELSE v
  BY <1>4 DEF c
<1>9. Len(s) \in Nat
  OBVIOUS
<1>10. ASSUME NEW i \in k .. Len(s) PROVE (c \o b)[i + 1] = s[i]
  <2>1. i + 1 \in 1 .. Len(s) + 1 /\ ~ (i + 1 <= k)
    BY <1>9
  <2>2. (c \o b)[i + 1] = b[i + 1 - k]
    BY <1>6, <2>1
  <2> QED
    BY <1>7, <2>2
<1>11. \A i \in 1 .. k - 1 : (c \o b)[i] = s[i]
  BY <1>6, <1>8, <1>9
<1>12. (c \o b)[k] = v
  BY <1>6, <1>8, <1>9
<1> QED
  BY <1>5, <1>6, <1>10, <1>11, <1>12

LEMMA RemoveAtProperties ==
  ASSUME NEW s \in Seq(ValueIds), NEW k \in 1 .. Len(s)
  PROVE  /\ RemoveAt(s, k) \in Seq(ValueIds)
         /\ Len(RemoveAt(s, k)) = Len(s) - 1
         /\ \A i \in 1 .. Len(s) - 1 :
              RemoveAt(s, k)[i] = IF i < k THEN s[i] ELSE s[i + 1]
<1> DEFINE a == SubSeq(s, 1, k - 1)  b == SubSeq(s, k + 1, Len(s))
<1>1. a \in Seq(ValueIds) /\ Len(a) = k - 1 /\ \A i \in 1 .. k - 1 : a[i] = s[i]
  BY SubSeqProperties
<1>2. b \in Seq(ValueIds) /\ Len(b) = Len(s) - k /\ \A i \in 1 .. Len(s) - k : b[i] = s[k + i]
  BY SubSeqProperties
<1> HIDE DEF a, b
<1>3. /\ a \o b \in Seq(ValueIds) /\ Len(a \o b) = Len(s) - 1
      /\ \A i \in 1 .. Len(s) - 1 : (a \o b)[i] = IF i <= k - 1 THEN a[i] ELSE b[i - (k - 1)]
  <2>1. /\ a \o b \in Seq(ValueIds) /\ Len(a \o b) = Len(a) + Len(b)
        /\ \A i \in 1 .. Len(a) + Len(b) : (a \o b)[i] = IF i <= Len(a) THEN a[i] ELSE b[i - Len(a)]
    BY <1>1, <1>2, ConcatProperties
  <2>2. Len(s) \in Nat /\ Len(a) = k - 1 /\ Len(a) + Len(b) = Len(s) - 1
    BY <1>1, <1>2
  <2> QED
    BY <2>1, <2>2
<1>4. RemoveAt(s, k) = a \o b
  BY DEF RemoveAt, a, b
<1>5. \A i \in 1 .. Len(s) - 1 : i >= k => i - (k - 1) \in 1 .. Len(s) - k /\ b[i - (k - 1)] = s[i + 1]
  BY <1>2
<1>6. Len(s) \in Nat
  OBVIOUS
<1>7. \A i \in 1 .. Len(s) - 1 : (a \o b)[i] = IF i < k THEN s[i] ELSE s[i + 1]
  BY <1>1, <1>3, <1>5, <1>6
<1> QED
  BY <1>3, <1>4, <1>7

-----------------------------------------------------------------------------
(* Use lists: what each bookkeeping operator does to lists that are exact. *)

Operands == [OpIds -> Seq(ValueIds)]
Lists == [ValueIds -> [Users -> Int]]

LEMMA UseAtRange == \A s, v, k : UseAt(s, v, k) \in {0, 1}
  BY DEF UseAt

LEMMA UsesOfType ==
  ASSUME NEW ops, NEW live
  PROVE  /\ UsesOf(ops, live) \in [ValueIds -> [Users -> Nat]]
         /\ UsesOf(ops, live) \in Lists
<1>1. UsesOf(ops, live) \in [ValueIds -> [Users -> {0, 1}]]
  BY UseAtRange DEF UsesOf
<1> QED
  BY <1>1 DEF Lists

LEMMA UsesReplaced ==
  ASSUME NEW ops \in Operands, NEW live, NEW o \in live \intersect OpIds, NEW s \in Seq(ValueIds)
  PROVE  AddOpUses(RemoveOpUses(UsesOf(ops, live), o, ops[o]), o, s)
           = UsesOf([ops EXCEPT ![o] = s], live)
<1> DEFINE L == AddOpUses(RemoveOpUses(UsesOf(ops, live), o, ops[o]), o, s)
           R == UsesOf([ops EXCEPT ![o] = s], live)
<1>1. \A v \in ValueIds, u \in Users : L[v][u] = R[v][u]
  <2> SUFFICES ASSUME NEW v \in ValueIds, NEW u \in Users PROVE L[v][u] = R[v][u]
    OBVIOUS
  <2>1. u[1] \in OpIds
    BY DEF Users
  <2>2. CASE u[1] = o
    <3>1. L[v][u] = UseAt(ops[o], v, u[2]) - UseAt(ops[o], v, u[2]) + UseAt(s, v, u[2])
      BY <2>2 DEF AddOpUses, RemoveOpUses, UsesOf
    <3>2. R[v][u] = UseAt(s, v, u[2])
      BY <2>2 DEF UsesOf, Operands
    <3> QED
      BY <3>1, <3>2, UseAtRange
  <2>3. CASE u[1] # o
    BY <2>1, <2>3 DEF AddOpUses, RemoveOpUses, UsesOf, Operands
  <2> QED
    BY <2>2, <2>3
<1>2. L = [v \in ValueIds |-> [u \in Users |-> L[v][u]]]
  BY DEF AddOpUses
<1>3. R = [v \in ValueIds |-> [u \in Users |-> R[v][u]]]
  BY DEF UsesOf
<1> HIDE DEF L, R
<1>4. L = R
  BY <1>1, <1>2, <1>3
<1> QED
  BY <1>4 DEF L, R

LEMMA UsesRetired ==
  ASSUME NEW ops, NEW live, NEW o \in live
  PROVE  RemoveOpUses(UsesOf(ops, live), o, ops[o]) = UsesOf(ops, live \ {o})
<1> DEFINE L == RemoveOpUses(UsesOf(ops, live), o, ops[o])
           R == UsesOf(ops, live \ {o})
<1>1. \A v \in ValueIds, u \in Users : L[v][u] = R[v][u]
  BY UseAtRange DEF RemoveOpUses, UsesOf
<1>2. L = [v \in ValueIds |-> [u \in Users |-> L[v][u]]]
  BY DEF RemoveOpUses
<1>3. R = [v \in ValueIds |-> [u \in Users |-> R[v][u]]]
  BY DEF UsesOf
<1> HIDE DEF L, R
<1>4. L = R
  BY <1>1, <1>2, <1>3
<1> QED
  BY <1>4 DEF L, R

\* What one use contributes to the use lists.
OneUse(v, o, k, w, u) == IF w = v /\ u = <<o, k>> THEN 1 ELSE 0

LEMMA AddedUser ==
  \A lists \in Lists, v \in ValueIds, o \in OpIds, k \in 1 .. MaxArity :
    /\ AddValueUser(lists, v, o, k) \in Lists
    /\ \A w \in ValueIds, u \in Users :
         AddValueUser(lists, v, o, k)[w][u] = lists[w][u] + OneUse(v, o, k, w, u)
    /\ RemoveValueUser(lists, v, o, k) \in Lists
    /\ \A w \in ValueIds, u \in Users :
         RemoveValueUser(lists, v, o, k)[w][u] = lists[w][u] - OneUse(v, o, k, w, u)
<1> SUFFICES ASSUME NEW lists \in Lists, NEW v \in ValueIds, NEW o \in OpIds, NEW k \in 1 .. MaxArity
             PROVE  /\ AddValueUser(lists, v, o, k) \in Lists
                    /\ \A w \in ValueIds, u \in Users :
                         AddValueUser(lists, v, o, k)[w][u] = lists[w][u] + OneUse(v, o, k, w, u)
                    /\ RemoveValueUser(lists, v, o, k) \in Lists
                    /\ \A w \in ValueIds, u \in Users :
                         RemoveValueUser(lists, v, o, k)[w][u] = lists[w][u] - OneUse(v, o, k, w, u)
  OBVIOUS
<1> DEFINE p == <<o, k>>
<1>1. p \in Users
  BY DEF Users
<1>2. lists \in [ValueIds -> [Users -> Int]] /\ \A w \in ValueIds : lists[w] \in [Users -> Int]
  BY DEF Lists
<1>3. /\ AddValueUser(lists, v, o, k) = [lists EXCEPT ![v] = [lists[v] EXCEPT ![p] = lists[v][p] + 1]]
      /\ RemoveValueUser(lists, v, o, k) = [lists EXCEPT ![v] = [lists[v] EXCEPT ![p] = lists[v][p] - 1]]
  BY DEF AddValueUser, RemoveValueUser
<1>4. \A w, u : OneUse(v, o, k, w, u) = IF w = v /\ u = p THEN 1 ELSE 0
  BY DEF OneUse
<1> HIDE DEF p
<1> DEFINE a == [lists[v] EXCEPT ![p] = lists[v][p] + 1]
           r == [lists[v] EXCEPT ![p] = lists[v][p] - 1]
<1>5. /\ a \in [Users -> Int] /\ \A u \in Users : a[u] = lists[v][u] + (IF u = p THEN 1 ELSE 0)
      /\ r \in [Users -> Int] /\ \A u \in Users : r[u] = lists[v][u] - (IF u = p THEN 1 ELSE 0)
  BY <1>1, <1>2
<1> HIDE DEF a, r
<1>6. \A w \in ValueIds : /\ [lists EXCEPT ![v] = a][w] = IF w = v THEN a ELSE lists[w]
                          /\ [lists EXCEPT ![v] = r][w] = IF w = v THEN r ELSE lists[w]
  BY <1>2
<1>7. [lists EXCEPT ![v] = a] \in Lists /\ [lists EXCEPT ![v] = r] \in Lists
  BY <1>2, <1>5 DEF Lists
<1>8. \A w \in ValueIds, u \in Users : lists[w][u] \in Int
  BY <1>2
<1>9. \A w \in ValueIds, u \in Users :
        /\ [lists EXCEPT ![v] = a][w][u] = lists[w][u] + OneUse(v, o, k, w, u)
        /\ [lists EXCEPT ![v] = r][w][u] = lists[w][u] - OneUse(v, o, k, w, u)
  BY <1>4, <1>5, <1>6, <1>8
<1> QED
  BY <1>3, <1>7, <1>9 DEF a, r

LEMMA SameLists ==
  \A A, B \in Lists : (\A v \in ValueIds, u \in Users : A[v][u] = B[v][u]) => A = B
<1> SUFFICES ASSUME NEW A \in Lists, NEW B \in Lists, \A v \in ValueIds, u \in Users : A[v][u] = B[v][u]
             PROVE  A = B
  OBVIOUS
<1>1. A \in [ValueIds -> [Users -> Int]] /\ B \in [ValueIds -> [Users -> Int]]
  BY DEF Lists
<1>2. \A v \in ValueIds : A[v] = B[v]
  <2> TAKE v \in ValueIds
  <2>1. A[v] \in [Users -> Int] /\ B[v] \in [Users -> Int] /\ \A u \in Users : A[v][u] = B[v][u]
    BY <1>1
  <2> QED
    BY <2>1
<1> QED
  BY <1>1, <1>2

LEMMA UsesAppended ==
  ASSUME NEW ops \in Operands, NEW live, NEW o \in live \intersect OpIds,
         NEW v \in ValueIds, Len(ops[o]) < MaxArity
  PROVE  AddValueUser(UsesOf(ops, live), v, o, Len(ops[o]) + 1)
           = UsesOf([ops EXCEPT ![o] = Append(ops[o], v)], live)
<1> DEFINE k == Len(ops[o]) + 1
           R == UsesOf([ops EXCEPT ![o] = Append(ops[o], v)], live)
<1>1. ops[o] \in Seq(ValueIds) /\ <<o, k>> \in Users /\ k \in Nat
  BY DEF Operands, Users
<1>2. UsesOf(ops, live) \in Lists
  BY UsesOfType
<1>3. ASSUME NEW w \in ValueIds, NEW u \in Users
      PROVE  UsesOf(ops, live)[w][u] + OneUse(v, o, k, w, u) = R[w][u]
  <2>1. u = <<u[1], u[2]>> /\ u[1] \in OpIds /\ u[2] \in 1 .. MaxArity
    BY DEF Users
  <2>2. UsesOf(ops, live)[w][u] \in Int
    BY <1>2 DEF Lists
  <2>3. CASE u[1] # o
    <3>1. R[w][u] = UsesOf(ops, live)[w][u]
      BY <2>1, <2>3 DEF UsesOf, Operands
    <3>2. OneUse(v, o, k, w, u) = 0
      BY <2>3 DEF OneUse
    <3> QED
      BY <2>2, <3>1, <3>2
  <2>4. CASE u[1] = o
    <3>1. R[w][u] = UseAt(Append(ops[o], v), w, u[2])
      BY <2>4 DEF UsesOf, Operands
    <3>2. UsesOf(ops, live)[w][u] = UseAt(ops[o], w, u[2])
      BY <2>4 DEF UsesOf
    <3>3. OneUse(v, o, k, w, u) = IF w = v /\ u[2] = k THEN 1 ELSE 0
      <4>1. u = <<o, k>> <=> u[2] = k
        BY <2>1, <2>4
      <4> QED
        BY <4>1 DEF OneUse
    <3>4. u[2] \in DOMAIN Append(ops[o], v) <=> u[2] \in DOMAIN ops[o] \/ u[2] = k
      BY <1>1, <2>1
    <3>5. u[2] \in DOMAIN ops[o] => u[2] # k /\ Append(ops[o], v)[u[2]] = ops[o][u[2]]
      BY <1>1, <2>1
    <3>6. Append(ops[o], v)[k] = v /\ k \notin DOMAIN ops[o]
      BY <1>1
    <3> HIDE DEF k
    <3>7. UseAt(Append(ops[o], v), w, u[2]) = UseAt(ops[o], w, u[2]) + OneUse(v, o, k, w, u)
      BY <3>3, <3>4, <3>5, <3>6 DEF UseAt
    <3> QED
      BY <3>1, <3>2, <3>7
  <2> QED
    BY <2>3, <2>4
<1> DEFINE L == AddValueUser(UsesOf(ops, live), v, o, k)
<1>4. k \in 1 .. MaxArity
  BY <1>1
<1> HIDE DEF k
<1>5. /\ L \in Lists
      /\ \A w \in ValueIds, u \in Users : L[w][u] = UsesOf(ops, live)[w][u] + OneUse(v, o, k, w, u)
  BY <1>2, <1>4, AddedUser
<1> HIDE DEF L, R
<1>6. L = R
  <2>1. R \in Lists
    BY UsesOfType DEF R
  <2> QED
    BY <1>3, <1>5, <2>1, SameLists
<1> QED
  BY <1>6 DEF k, L, R

LEMMA UsesExchanged ==
  ASSUME NEW ops \in Operands, NEW live, NEW o \in live \intersect OpIds,
         NEW v \in ValueIds, NEW k \in DOMAIN ops[o], Len(ops[o]) <= MaxArity,
         NEW s, s = [ops[o] EXCEPT ![k] = v]
  PROVE  AddValueUser(RemoveValueUser(UsesOf(ops, live), ops[o][k], o, k), v, o, k)
           = UsesOf([ops EXCEPT ![o] = s], live)
<1> DEFINE x == ops[o][k]
           M == RemoveValueUser(UsesOf(ops, live), x, o, k)
           R == UsesOf([ops EXCEPT ![o] = s], live)
<1>1. /\ ops[o] \in Seq(ValueIds) /\ <<o, k>> \in Users /\ x \in ValueIds
      /\ k \in 1 .. Len(ops[o]) /\ DOMAIN s = DOMAIN ops[o]
  BY DEF Operands, Users
<1>2. UsesOf(ops, live) \in Lists
  BY UsesOfType
<1>3. k \in 1 .. MaxArity /\ o \in OpIds
  BY <1>1
<1> HIDE DEF x
<1>4. /\ M \in Lists
      /\ \A w \in ValueIds, u \in Users : M[w][u] = UsesOf(ops, live)[w][u] - OneUse(x, o, k, w, u)
  BY <1>1, <1>2, <1>3, AddedUser
<1> HIDE DEF M
<1> DEFINE L == AddValueUser(M, v, o, k)
<1>5. /\ L \in Lists
      /\ \A w \in ValueIds, u \in Users : L[w][u] = M[w][u] + OneUse(v, o, k, w, u)
  BY <1>3, <1>4, AddedUser
<1>6. x = ops[o][k]
  BY DEF x
<1> HIDE DEF L
<1>7. ASSUME NEW w \in ValueIds, NEW u \in Users
      PROVE  M[w][u] + OneUse(v, o, k, w, u) = R[w][u]
  <2>1. u = <<u[1], u[2]>> /\ u[1] \in OpIds /\ u[2] \in 1 .. MaxArity
    BY DEF Users
  <2>2. UsesOf(ops, live)[w][u] \in Int
    BY <1>2 DEF Lists
  <2>3. M[w][u] = UsesOf(ops, live)[w][u] - OneUse(x, o, k, w, u)
    BY <1>4
  <2>4. CASE u[1] # o
    <3>1. R[w][u] = UsesOf(ops, live)[w][u]
      BY <2>1, <2>4 DEF UsesOf, Operands
    <3>2. OneUse(v, o, k, w, u) = 0 /\ OneUse(x, o, k, w, u) = 0
      BY <2>4 DEF OneUse
    <3> QED
      BY <2>2, <2>3, <3>1, <3>2
  <2>5. CASE u[1] = o
    <3>1. R[w][u] = UseAt(s, w, u[2])
      BY <2>5 DEF UsesOf, Operands
    <3>2. UsesOf(ops, live)[w][u] = UseAt(ops[o], w, u[2])
      BY <2>5 DEF UsesOf
    <3>3. CASE u[2] # k
      <4>1. UseAt(s, w, u[2]) = UseAt(ops[o], w, u[2])
        BY <1>1, <3>3 DEF UseAt
      <4>2. OneUse(v, o, k, w, u) = 0 /\ OneUse(x, o, k, w, u) = 0
        BY <3>3 DEF OneUse
      <4> QED
        BY <2>2, <2>3, <3>1, <3>2, <4>1, <4>2
    <3>4. CASE u[2] = k
      <4>1. UseAt(s, w, k) = IF w = v THEN 1 ELSE 0
        BY <1>1 DEF UseAt
      <4>2. UseAt(ops[o], w, k) = IF w = x THEN 1 ELSE 0
        BY <1>1, <1>6 DEF UseAt
      <4>3. u = <<o, k>>
        BY <2>1, <2>5, <3>4
      <4>4. /\ OneUse(v, o, k, w, u) = IF w = v THEN 1 ELSE 0
            /\ OneUse(x, o, k, w, u) = IF w = x THEN 1 ELSE 0
        BY <4>3 DEF OneUse
      <4> HIDE DEF R
      <4> QED
        BY <2>3, <3>1, <3>2, <3>4, <4>1, <4>2, <4>4
    <3> QED
      BY <3>3, <3>4
  <2> QED
    BY <2>4, <2>5
<1> HIDE DEF R
<1>8. L = R
  <2>1. R \in Lists
    BY UsesOfType DEF R
  <2> QED
    BY <1>5, <1>7, <2>1, SameLists
<1> QED
  BY <1>8 DEF L, M, R, x

LEMMA Rewritten ==
  ASSUME NEW ops \in Operands, NEW from \in ValueIds, NEW to \in ValueIds, NEW skip,
         \A o \in OpIds : Len(ops[o]) <= MaxArity
  PROVE  LET r == RewriteUses(ops, UsesOf(ops, opAlive), from, to, skip) IN
         /\ r \in Operands
         /\ \A o \in OpIds :
              /\ Len(r[o]) = Len(ops[o])
              /\ \A k \in 1 .. Len(ops[o]) :
                   r[o][k] = IF o \in opAlive \ skip /\ ops[o][k] = from THEN to ELSE ops[o][k]
<1> DEFINE r == RewriteUses(ops, UsesOf(ops, opAlive), from, to, skip)
<1>1. \A o \in OpIds : ops[o] \in Seq(ValueIds) /\ DOMAIN ops[o] = 1 .. Len(ops[o]) /\ Len(ops[o]) \in Nat
  BY DEF Operands
<1>2. ASSUME NEW o \in OpIds, NEW k \in 1 .. Len(ops[o])
      PROVE  o \in opAlive => (UsesOf(ops, opAlive)[from][<<o, k>>] > 0 <=> ops[o][k] = from)
  <2>1. <<o, k>> \in Users
    BY <1>1 DEF Users
  <2>2. UsesOf(ops, opAlive)[from][<<o, k>>] = IF o \in opAlive THEN UseAt(ops[o], from, k) ELSE 0
    BY <2>1 DEF UsesOf
  <2> QED
    BY <1>1, <2>2 DEF UseAt
<1>3. ASSUME NEW o \in OpIds
      PROVE  /\ r[o] \in Seq(ValueIds) /\ Len(r[o]) = Len(ops[o])
             /\ \A k \in 1 .. Len(ops[o]) :
                   r[o][k] = IF o \in opAlive \ skip /\ ops[o][k] = from THEN to ELSE ops[o][k]
  <2>1. r[o] = [k \in 1 .. Len(ops[o]) |->
                  IF o \in opAlive \ skip /\ UsesOf(ops, opAlive)[from][<<o, k>>] > 0 THEN to ELSE ops[o][k]]
    BY <1>1 DEF RewriteUses
  <2> DEFINE q == [k \in 1 .. Len(ops[o]) |->
                     IF o \in opAlive \ skip /\ ops[o][k] = from THEN to ELSE ops[o][k]]
  <2>2. r[o] = q
    BY <1>2, <2>1
  <2>3. \A k \in 1 .. Len(ops[o]) : ops[o][k] \in ValueIds
    BY <1>1
  <2>4. q \in Seq(ValueIds) /\ Len(q) = Len(ops[o])
    BY <1>1, <2>3
  <2> QED
    BY <2>2, <2>4
<1>4. r = [o \in OpIds |-> r[o]]
  BY DEF RewriteUses
<1> HIDE DEF r
<1>5. r \in Operands
  BY <1>3, <1>4 DEF Operands
<1> QED
  BY <1>3, <1>5 DEF r

LEMMA MovedUses ==
  ASSUME NEW ops \in Operands, NEW from \in ValueIds, NEW to \in ValueIds, NEW skip,
         \A o \in OpIds : Len(ops[o]) <= MaxArity
  PROVE  MoveUses(UsesOf(ops, opAlive), from, to, skip)
           = UsesOf(RewriteUses(ops, UsesOf(ops, opAlive), from, to, skip), opAlive)
<1> DEFINE r == RewriteUses(ops, UsesOf(ops, opAlive), from, to, skip)
           L == MoveUses(UsesOf(ops, opAlive), from, to, skip)
           R == UsesOf(r, opAlive)
<1>1. /\ r \in Operands
      /\ \A o \in OpIds :
           /\ Len(r[o]) = Len(ops[o])
           /\ \A k \in 1 .. Len(ops[o]) :
                r[o][k] = IF o \in opAlive \ skip /\ ops[o][k] = from THEN to ELSE ops[o][k]
  BY Rewritten
<1>2. \A o \in OpIds : DOMAIN ops[o] = 1 .. Len(ops[o]) /\ DOMAIN r[o] = 1 .. Len(ops[o])
  <2>1. \A o \in OpIds : ops[o] \in Seq(ValueIds) /\ r[o] \in Seq(ValueIds)
    BY <1>1 DEF Operands
  <2> QED
    BY <1>1, <2>1
<1> HIDE DEF r
<1>3. ASSUME NEW v \in ValueIds, NEW u \in Users
      PROVE  /\ UsesOf(ops, opAlive)[v][u] = (IF u[1] \in opAlive THEN UseAt(ops[u[1]], v, u[2]) ELSE 0)
             /\ R[v][u] = (IF u[1] \in opAlive THEN UseAt(r[u[1]], v, u[2]) ELSE 0)
             /\ u[1] \in OpIds
  BY DEF UsesOf, Users
<1>4. CASE from = to
  <2>1. L = UsesOf(ops, opAlive)
    BY <1>4 DEF MoveUses
  <2>2. \A v \in ValueIds, u \in Users : UsesOf(ops, opAlive)[v][u] = R[v][u]
    BY <1>1, <1>2, <1>3, <1>4 DEF UseAt
  <2>3. UsesOf(ops, opAlive) \in Lists /\ R \in Lists
    BY UsesOfType
  <2> HIDE DEF L, R
  <2> QED
    BY <2>1, <2>2, <2>3, SameLists DEF L, R, r
<1>5. CASE from # to
  <2>1. L = [v \in ValueIds |-> [u \in Users |-> MovedUse(UsesOf(ops, opAlive), from, to, skip, v, u)]]
    BY <1>5 DEF MoveUses
  <2>2. ASSUME NEW v \in ValueIds, NEW u \in Users
        PROVE  MovedUse(UsesOf(ops, opAlive), from, to, skip, v, u) = R[v][u]
    <3> DEFINE o == u[1]  k == u[2]
    <3>1. UseAt(ops[o], v, k) \in {0, 1} /\ UseAt(ops[o], from, k) \in {0, 1}
      BY UseAtRange
    <3>2. UsesOf(ops, opAlive)[from][u] = (IF o \in opAlive THEN UseAt(ops[o], from, k) ELSE 0)
      BY <1>3
    <3>3. CASE o \notin opAlive
      BY <1>3, <3>2, <3>3 DEF MovedUse
    <3>4. CASE o \in opAlive /\ o \in skip
      <4>1. UseAt(r[o], v, k) = UseAt(ops[o], v, k)
        BY <1>1, <1>2, <1>3, <3>4 DEF UseAt
      <4> QED
        BY <1>3, <3>4, <4>1 DEF MovedUse
    <3>5. CASE o \in opAlive /\ o \notin skip
      <4>1. MovedUse(UsesOf(ops, opAlive), from, to, skip, v, u)
              = (IF v = from THEN 0
                 ELSE IF v = to THEN UseAt(ops[o], v, k) + UseAt(ops[o], from, k)
                 ELSE UseAt(ops[o], v, k))
        BY <1>3, <3>2, <3>5 DEF MovedUse
      <4>2. UseAt(r[o], v, k) = (IF v = from THEN 0
                 ELSE IF v = to THEN UseAt(ops[o], v, k) + UseAt(ops[o], from, k)
                 ELSE UseAt(ops[o], v, k))
        BY <1>1, <1>2, <1>3, <1>5, <3>5 DEF UseAt
      <4> QED
        BY <1>3, <3>5, <4>1, <4>2
    <3> QED
      BY <3>3, <3>4, <3>5
  <2>3. \A v \in ValueIds, u \in Users : L[v][u] = R[v][u]
    BY <2>1, <2>2
  <2>4. R \in [ValueIds -> [Users -> Int]] /\ R \in Lists
    BY UsesOfType DEF Lists
  <2>5. L \in Lists
    <3>1. \A v \in ValueIds, u \in Users : MovedUse(UsesOf(ops, opAlive), from, to, skip, v, u) \in Int
      BY <2>2, <2>4
    <3> QED
      BY <2>1, <3>1 DEF Lists
  <2> HIDE DEF L, R
  <2> QED
    BY <2>3, <2>4, <2>5, SameLists DEF L, R, r
<1> QED
  BY <1>4, <1>5

-----------------------------------------------------------------------------
(* The inductive invariant, by the group of variables that a call edits.   *)

EntriesOK ==
  /\ valueCount \in 0 .. MaxValues /\ valueAlive \subseteq 1 .. valueCount
  /\ opCount \in 0 .. MaxOps /\ opAlive \subseteq 1 .. opCount

\* An entry of the array of operations that is not created yet has no operands:
\* the use lists are exact when it becomes live.
UsesOK ==
  /\ operands \in Operands
  /\ \A o \in OpIds : Len(operands[o]) <= MaxArity /\ (o > opCount => operands[o] = <<>>)
  /\ valueUsers = UsesOf(operands, opAlive)
  /\ \A o \in opAlive : \A k \in DOMAIN operands[o] : operands[o][k] \in valueAlive

DefsOK ==
  /\ definingOp \in [ValueIds -> OpIds \union {None}]
  /\ results \in Operands
  /\ \A o \in OpIds : Len(results[o]) <= MaxArity /\ (o > opCount => results[o] = <<>>)
  /\ DefExact
  /\ \A o \in opAlive : \A k \in DOMAIN results[o] : results[o][k] \in valueAlive

SymbolsOK ==
  /\ valueSymbol \in [ValueIds -> Syms \union {NoSym}]
  /\ opSymbol \in [OpIds -> Syms \union {NoSym}]
  /\ symbolIndex \in [Syms -> Bindings]
  /\ SymbolIndexExact

PortsOK ==
  /\ inputPorts \in [PortNames -> ValueIds \union {None}]
  /\ outputPorts \in [PortNames -> ValueIds \union {None}]
  /\ inoutPorts \in [InoutNames -> InoutPorts \union {Unbound}]
  /\ isInput \subseteq valueAlive /\ isOutput \subseteq valueAlive /\ isInout \subseteq ValueIds
  /\ InoutNeverErased
  /\ ~ PortCallsFail => FlagsExact /\ BoundNeverErased

Inv == EntriesOK /\ UsesOK /\ DefsOK /\ SymbolsOK /\ PortsOK

LEMMA Entries ==
  ASSUME EntriesOK
  PROVE  valueAlive \subseteq ValueIds /\ opAlive \subseteq OpIds
  BY DEF EntriesOK, ValueIds, OpIds

LEMMA NoneIsNoId == None \notin ValueIds /\ None \notin OpIds
  BY DEF None, ValueIds, OpIds

LEMMA InvImplies ==
  ASSUME Inv
  PROVE  TypeOK /\ UseListExact /\ DefExact /\ NoDanglingEdge /\ SymbolIndexExact /\ InoutNeverErased
<1>1. UseListExact /\ DefExact /\ SymbolIndexExact /\ InoutNeverErased
  BY DEF Inv, UsesOK, DefsOK, SymbolsOK, PortsOK, UseListExact
<1>2. NoDanglingEdge
  <2> SUFFICES ASSUME NEW o \in opAlive, NEW v \in ToSet(operands[o]) \union ToSet(results[o])
               PROVE  v \in valueAlive
    BY DEF NoDanglingEdge
  <2> QED
    BY DEF Inv, UsesOK, DefsOK, ToSet
<1>3. TypeOK
  <2>1. valueUsers \in [ValueIds -> [Users -> Nat]]
    BY UsesOfType DEF Inv, UsesOK
  <2> QED
    BY <2>1, Entries DEF Inv, EntriesOK, UsesOK, DefsOK, SymbolsOK, PortsOK, TypeOK, Operands
<1> QED
  BY <1>1, <1>2, <1>3

-----------------------------------------------------------------------------
(* Initial states. *)

LEMMA EmptyUses == UsesOf([o \in OpIds |-> <<>>], {}) = [v \in ValueIds |-> [u \in Users |-> 0]]
  BY DEF UsesOf

LEMMA InoutMember ==
  ASSUME NEW ports, NEW w
  PROVE  w \in InoutValues(ports) <=>
           w # None /\ \E n \in InoutNames : w = ports[n].in \/ w = ports[n].out \/ w = ports[n].oe
  BY DEF InoutValues

LEMMA BoundMember ==
  ASSUME NEW ports, NEW w
  PROVE  w \in BoundValues(ports) <=> w # None /\ \E n \in PortNames : w = ports[n]
  BY DEF BoundValues

LEMMA InitInv == Init => Inv
<1> SUFFICES ASSUME Init PROVE Inv
  OBVIOUS
<1>1. EntriesOK
  BY DEF Init, EntriesOK
<1>2. UsesOK
  BY EmptyUses DEF Init, UsesOK, Operands
<1>3. DefsOK
  BY NoneIsNoId DEF Init, DefsOK, DefExact, Operands
<1>4. SymbolsOK
  BY DEF Init, SymbolsOK, SymbolIndexExact, Bindings, NoBinding
<1>5. PortsOK
  <2>1. BoundValues(inputPorts) = {} /\ BoundValues(outputPorts) = {}
    BY BoundMember DEF Init
  <2>2. InoutValues(inoutPorts) = {}
    BY InoutMember DEF Init, Unbound
  <2> QED
    BY <2>1, <2>2 DEF Init, PortsOK, InoutNeverErased, FlagsExact, BoundNeverErased
<1> QED
  BY <1>1, <1>2, <1>3, <1>4, <1>5 DEF Inv

-----------------------------------------------------------------------------
(* Symbols. *)

\* What the index holds for one symbol, as SymbolIndexExact reads it.
SymbolNames(b, s, vs, os, vsym, osym) ==
  /\ \A w \in ValueIds : b = <<"value", w>> <=> w \in vs /\ vsym[w] = s
  /\ \A p \in OpIds : b = <<"op", p>> <=> p \in os /\ osym[p] = s

LEMMA BindingsDiffer ==
  \A v, w, o, p : /\ <<"value", v>> # <<"op", o>>
                  /\ <<"value", v>> = <<"value", w>> <=> v = w
                  /\ <<"op", o>> = <<"op", p>> <=> o = p
                  /\ v # None => <<"value", v>> # NoBinding
                  /\ o # None => <<"op", o>> # NoBinding
  BY DEF NoBinding

LEMMA ValueSymbolGiven ==
  ASSUME Inv, NEW v \in ValueIds, NEW sym \in Syms, NEW index,
         Free(sym), index \in [Syms -> Bindings],
         valueSymbol' = [valueSymbol EXCEPT ![v] = sym], symbolIndex' = BindSymbol(index, sym, <<"value", v>>),
         opSymbol' = opSymbol, opAlive' = opAlive, valueAlive' = valueAlive \union {v},
         \A s \in Syms : index[s] = IF v \in valueAlive /\ s = valueSymbol[v] THEN NoBinding ELSE symbolIndex[s]
  PROVE  SymbolsOK'
<1>1. /\ symbolIndex' \in [Syms -> Bindings]
      /\ \A s \in Syms : symbolIndex'[s] = IF s = sym THEN <<"value", v>> ELSE index[s]
  BY DEF BindSymbol, Bindings
<1>2. /\ valueSymbol' \in [ValueIds -> Syms \union {NoSym}]
      /\ \A w \in ValueIds : valueSymbol'[w] = IF w = v THEN sym ELSE valueSymbol[w]
  BY DEF Inv, SymbolsOK
<1>3. valueAlive \subseteq ValueIds /\ opAlive \subseteq OpIds
  BY Entries DEF Inv
<1>4. (\A w \in valueAlive' : valueSymbol'[w] \in Syms) /\ \A o \in opAlive' : opSymbol'[o] \in Syms
  BY <1>2, <1>3 DEF Inv, SymbolsOK, SymbolIndexExact
<1>5. ASSUME NEW s \in Syms
      PROVE  SymbolNames(symbolIndex'[s], s, valueAlive', opAlive', valueSymbol', opSymbol')
  <2>1. SymbolNames(symbolIndex[s], s, valueAlive, opAlive, valueSymbol, opSymbol)
    BY DEF SymbolNames, Inv, SymbolsOK, SymbolIndexExact
  <2>2. CASE s = sym
    <3>1. symbolIndex'[s] = <<"value", v>> /\ symbolIndex[s] = NoBinding
      BY <1>1, <2>2 DEF Free
    <3>2. /\ \A w \in ValueIds : ~ (w \in valueAlive /\ valueSymbol[w] = s)
          /\ \A p \in OpIds : ~ (p \in opAlive /\ opSymbol[p] = s)
      BY <2>1, <3>1, BindingsDiffer, NoneIsNoId DEF SymbolNames
    <3>3. \A w \in ValueIds : w \in valueAlive' /\ valueSymbol'[w] = s <=> w = v
      BY <1>2, <2>2, <3>2
    <3> QED
      BY <3>1, <3>2, <3>3, BindingsDiffer DEF SymbolNames
  <2>3. CASE s # sym
    <3>1. \A w \in ValueIds : w \in valueAlive' /\ valueSymbol'[w] = s
                                <=> w # v /\ w \in valueAlive /\ valueSymbol[w] = s
      BY <1>2, <2>3
    <3>2. symbolIndex'[s] = IF v \in valueAlive /\ s = valueSymbol[v] THEN NoBinding ELSE symbolIndex[s]
      BY <1>1, <2>3
    <3>3. CASE v \in valueAlive /\ s = valueSymbol[v]
      <4>1. symbolIndex[s] = <<"value", v>> /\ symbolIndex'[s] = NoBinding
        BY <2>1, <3>2, <3>3 DEF SymbolNames
      <4>2. /\ \A w \in ValueIds : w \in valueAlive /\ valueSymbol[w] = s <=> w = v
            /\ \A p \in OpIds : ~ (p \in opAlive /\ opSymbol[p] = s)
        BY <2>1, <4>1, BindingsDiffer DEF SymbolNames
      <4> QED
        BY <3>1, <4>1, <4>2, BindingsDiffer, NoneIsNoId DEF SymbolNames
    <3>4. CASE ~ (v \in valueAlive /\ s = valueSymbol[v])
      BY <2>1, <3>1, <3>2, <3>4 DEF SymbolNames
    <3> QED
      BY <3>3, <3>4
  <2> QED
    BY <2>2, <2>3
<1>6. SymbolIndexExact'
  BY <1>4, <1>5 DEF SymbolNames, SymbolIndexExact
<1> QED
  BY <1>1, <1>2, <1>6 DEF Inv, SymbolsOK

LEMMA OpSymbolGiven ==
  ASSUME Inv, NEW o \in OpIds, NEW sym \in Syms, NEW index,
         Free(sym), index \in [Syms -> Bindings],
         opSymbol' = [opSymbol EXCEPT ![o] = sym], symbolIndex' = BindSymbol(index, sym, <<"op", o>>),
         valueSymbol' = valueSymbol, valueAlive' = valueAlive, opAlive' = opAlive \union {o},
         \A s \in Syms : index[s] = IF o \in opAlive /\ s = opSymbol[o] THEN NoBinding ELSE symbolIndex[s]
  PROVE  SymbolsOK'
<1>1. /\ symbolIndex' \in [Syms -> Bindings]
      /\ \A s \in Syms : symbolIndex'[s] = IF s = sym THEN <<"op", o>> ELSE index[s]
  BY DEF BindSymbol, Bindings
<1>2. /\ opSymbol' \in [OpIds -> Syms \union {NoSym}]
      /\ \A p \in OpIds : opSymbol'[p] = IF p = o THEN sym ELSE opSymbol[p]
  BY DEF Inv, SymbolsOK
<1>3. valueAlive \subseteq ValueIds /\ opAlive \subseteq OpIds
  BY Entries DEF Inv
<1>4. (\A w \in valueAlive' : valueSymbol'[w] \in Syms) /\ \A p \in opAlive' : opSymbol'[p] \in Syms
  BY <1>2, <1>3 DEF Inv, SymbolsOK, SymbolIndexExact
<1>5. ASSUME NEW s \in Syms
      PROVE  SymbolNames(symbolIndex'[s], s, valueAlive', opAlive', valueSymbol', opSymbol')
  <2>1. SymbolNames(symbolIndex[s], s, valueAlive, opAlive, valueSymbol, opSymbol)
    BY DEF SymbolNames, Inv, SymbolsOK, SymbolIndexExact
  <2>2. CASE s = sym
    <3>1. symbolIndex'[s] = <<"op", o>> /\ symbolIndex[s] = NoBinding
      BY <1>1, <2>2 DEF Free
    <3>2. /\ \A w \in ValueIds : ~ (w \in valueAlive /\ valueSymbol[w] = s)
          /\ \A p \in OpIds : ~ (p \in opAlive /\ opSymbol[p] = s)
      BY <2>1, <3>1, BindingsDiffer, NoneIsNoId DEF SymbolNames
    <3>3. \A p \in OpIds : p \in opAlive' /\ opSymbol'[p] = s <=> p = o
      BY <1>2, <2>2, <3>2
    <3> QED
      BY <3>1, <3>2, <3>3, BindingsDiffer DEF SymbolNames
  <2>3. CASE s # sym
    <3>1. \A p \in OpIds : p \in opAlive' /\ opSymbol'[p] = s
                                <=> p # o /\ p \in opAlive /\ opSymbol[p] = s
      BY <1>2, <2>3
    <3>2. symbolIndex'[s] = IF o \in opAlive /\ s = opSymbol[o] THEN NoBinding ELSE symbolIndex[s]
      BY <1>1, <2>3
    <3>3. CASE o \in opAlive /\ s = opSymbol[o]
      <4>1. symbolIndex[s] = <<"op", o>> /\ symbolIndex'[s] = NoBinding
        BY <2>1, <3>2, <3>3 DEF SymbolNames
      <4>2. /\ \A p \in OpIds : p \in opAlive /\ opSymbol[p] = s <=> p = o
            /\ \A w \in ValueIds : ~ (w \in valueAlive /\ valueSymbol[w] = s)
        BY <2>1, <4>1, BindingsDiffer DEF SymbolNames
      <4> QED
        BY <3>1, <4>1, <4>2, BindingsDiffer, NoneIsNoId DEF SymbolNames
    <3>4. CASE ~ (o \in opAlive /\ s = opSymbol[o])
      BY <2>1, <3>1, <3>2, <3>4 DEF SymbolNames
    <3> QED
      BY <3>3, <3>4
  <2> QED
    BY <2>2, <2>3
<1>6. SymbolIndexExact'
  BY <1>4, <1>5 DEF SymbolNames, SymbolIndexExact
<1> QED
  BY <1>1, <1>2, <1>6 DEF Inv, SymbolsOK

\* An erased entry takes its symbol with it; so does a renamed one, until it is
\* given the new symbol.
LEMMA ValueSymbolRetired ==
  ASSUME Inv, NEW v \in valueAlive,
         symbolIndex' = UnbindSymbol(symbolIndex, valueSymbol[v]), valueAlive' = valueAlive \ {v},
         UNCHANGED <<valueSymbol, opSymbol, opAlive>>
  PROVE  SymbolsOK'
<1>1. v \in ValueIds /\ valueSymbol[v] \in Syms
  BY Entries DEF Inv, SymbolsOK, SymbolIndexExact
<1>2. /\ symbolIndex' \in [Syms -> Bindings]
      /\ \A s \in Syms : symbolIndex'[s] = IF s = valueSymbol[v] THEN NoBinding ELSE symbolIndex[s]
  BY DEF UnbindSymbol, Bindings, Inv, SymbolsOK
<1>3. ASSUME NEW s \in Syms
      PROVE  SymbolNames(symbolIndex'[s], s, valueAlive', opAlive', valueSymbol', opSymbol')
  <2>1. SymbolNames(symbolIndex[s], s, valueAlive, opAlive, valueSymbol, opSymbol)
    BY DEF SymbolNames, Inv, SymbolsOK, SymbolIndexExact
  <2>2. CASE s = valueSymbol[v]
    <3>1. symbolIndex[s] = <<"value", v>> /\ symbolIndex'[s] = NoBinding
      BY <1>1, <1>2, <2>1, <2>2 DEF SymbolNames
    <3>2. /\ \A w \in ValueIds : w \in valueAlive /\ valueSymbol[w] = s <=> w = v
          /\ \A p \in OpIds : ~ (p \in opAlive /\ opSymbol[p] = s)
      BY <2>1, <3>1, BindingsDiffer DEF SymbolNames
    <3> QED
      BY <3>1, <3>2, BindingsDiffer, NoneIsNoId DEF SymbolNames
  <2>3. CASE s # valueSymbol[v]
    <3>1. symbolIndex'[s] = symbolIndex[s]
      BY <1>2, <2>3
    <3>2. \A w \in ValueIds : w \in valueAlive' /\ valueSymbol'[w] = s <=> w \in valueAlive /\ valueSymbol[w] = s
      BY <2>3
    <3> QED
      BY <2>1, <3>1, <3>2 DEF SymbolNames
  <2> QED
    BY <2>2, <2>3
<1>4. SymbolIndexExact'
  BY <1>3 DEF SymbolNames, SymbolIndexExact, Inv, SymbolsOK
<1> QED
  BY <1>2, <1>4 DEF Inv, SymbolsOK

LEMMA OpSymbolRetired ==
  ASSUME Inv, NEW o \in opAlive,
         symbolIndex' = UnbindSymbol(symbolIndex, opSymbol[o]), opAlive' = opAlive \ {o},
         UNCHANGED <<valueSymbol, opSymbol, valueAlive>>
  PROVE  SymbolsOK'
<1>1. o \in OpIds /\ opSymbol[o] \in Syms
  BY Entries DEF Inv, SymbolsOK, SymbolIndexExact
<1>2. /\ symbolIndex' \in [Syms -> Bindings]
      /\ \A s \in Syms : symbolIndex'[s] = IF s = opSymbol[o] THEN NoBinding ELSE symbolIndex[s]
  BY DEF UnbindSymbol, Bindings, Inv, SymbolsOK
<1>3. ASSUME NEW s \in Syms
      PROVE  SymbolNames(symbolIndex'[s], s, valueAlive', opAlive', valueSymbol', opSymbol')
  <2>1. SymbolNames(symbolIndex[s], s, valueAlive, opAlive, valueSymbol, opSymbol)
    BY DEF SymbolNames, Inv, SymbolsOK, SymbolIndexExact
  <2>2. CASE s = opSymbol[o]
    <3>1. symbolIndex[s] = <<"op", o>> /\ symbolIndex'[s] = NoBinding
      BY <1>1, <1>2, <2>1, <2>2 DEF SymbolNames
    <3>2. /\ \A p \in OpIds : p \in opAlive /\ opSymbol[p] = s <=> p = o
          /\ \A w \in ValueIds : ~ (w \in valueAlive /\ valueSymbol[w] = s)
      BY <2>1, <3>1, BindingsDiffer DEF SymbolNames
    <3> QED
      BY <3>1, <3>2, BindingsDiffer, NoneIsNoId DEF SymbolNames
  <2>3. CASE s # opSymbol[o]
    <3>1. symbolIndex'[s] = symbolIndex[s]
      BY <1>2, <2>3
    <3>2. \A p \in OpIds : p \in opAlive' /\ opSymbol'[p] = s <=> p \in opAlive /\ opSymbol[p] = s
      BY <2>3
    <3> QED
      BY <2>1, <3>1, <3>2 DEF SymbolNames
  <2> QED
    BY <2>2, <2>3
<1>4. SymbolIndexExact'
  BY <1>3 DEF SymbolNames, SymbolIndexExact, Inv, SymbolsOK
<1> QED
  BY <1>2, <1>4 DEF Inv, SymbolsOK

LEMMA OperandsKept == ASSUME UsesOK, UNCHANGED <<entryVars, useVars>> PROVE UsesOK'
  BY DEF UsesOK, entryVars, useVars

LEMMA DefsKept == ASSUME DefsOK, UNCHANGED <<entryVars, defVars>> PROVE DefsOK'
  BY DEF DefsOK, DefExact, entryVars, defVars

LEMMA SymbolsKept == ASSUME SymbolsOK, UNCHANGED <<entryVars, symbolVars>> PROVE SymbolsOK'
  BY DEF SymbolsOK, SymbolIndexExact, entryVars, symbolVars

LEMMA PortsKept == ASSUME PortsOK, UNCHANGED portVars, valueAlive \subseteq valueAlive' PROVE PortsOK'
<1>1. BoundValues(inputPorts)' = BoundValues(inputPorts) /\ BoundValues(outputPorts)' = BoundValues(outputPorts)
      /\ InoutValues(inoutPorts)' = InoutValues(inoutPorts)
  BY DEF BoundValues, InoutValues, portVars
<1> QED
  BY <1>1 DEF PortsOK, InoutNeverErased, FlagsExact, BoundNeverErased, portVars

LEMMA SymbolSteps == ASSUME Inv, SymbolNext PROVE Inv'
<1> PICK sym \in Syms : \/ AddValue(sym) \/ AddOp(sym)
                        \/ \E v \in ValueIds : SetValueSymbol(v, sym)
                        \/ \E o \in OpIds : SetOpSymbol(o, sym)
  BY DEF SymbolNext
<1>1. CASE AddValue(sym)
  <2> DEFINE v == valueCount + 1
  <2>1. /\ v \in ValueIds /\ Free(sym) /\ valueCount' = v /\ valueAlive' = valueAlive \union {v}
        /\ UNCHANGED <<opCount, opAlive>>
    BY <1>1 DEF AddValue
  <2>2. v \notin valueAlive
    BY DEF Inv, EntriesOK
  <2>3. EntriesOK'
    BY <2>1 DEF Inv, EntriesOK, ValueIds
  <2>4. SymbolsOK'
    BY <1>1, <2>1, <2>2, ValueSymbolGiven DEF AddValue, Inv, SymbolsOK
  <2>5. UsesOK'
    BY <1>1 DEF AddValue, useVars, Inv, UsesOK
  <2>6. DefsOK'
    BY <1>1 DEF AddValue, defVars, Inv, DefsOK, DefExact
  <2>7. PortsOK'
    BY <1>1, PortsKept DEF AddValue, Inv
  <2> QED
    BY <2>3, <2>4, <2>5, <2>6, <2>7 DEF Inv
<1>2. CASE AddOp(sym)
  <2> DEFINE o == opCount + 1
  <2>1. /\ o \in OpIds /\ Free(sym) /\ opCount' = o /\ opAlive' = opAlive \union {o}
        /\ UNCHANGED <<valueCount, valueAlive>>
    BY <1>2 DEF AddOp
  <2>2. o \notin opAlive /\ o > opCount /\ \A p \in OpIds : p > o => p > opCount
    BY DEF Inv, EntriesOK, OpIds
  <2>3. EntriesOK'
    BY <2>1 DEF Inv, EntriesOK, OpIds
  <2>4. SymbolsOK'
    BY <1>2, <2>1, <2>2, OpSymbolGiven DEF AddOp, Inv, SymbolsOK
  <2>5. UsesOK'
    <3>1. operands[o] = <<>> /\ operands' = operands /\ valueUsers' = valueUsers
      BY <1>2, <2>1, <2>2 DEF AddOp, useVars, Inv, UsesOK
    <3>2. UsesOf(operands, opAlive \union {o}) = UsesOf(operands, opAlive)
      <4>1. \A v \in ValueIds, u \in Users : UsesOf(operands, opAlive \union {o})[v][u] = UsesOf(operands, opAlive)[v][u]
        BY <2>2, <3>1 DEF UsesOf, UseAt
      <4> DEFINE A == UsesOf(operands, opAlive \union {o})  B == UsesOf(operands, opAlive)
      <4>2. A \in Lists /\ B \in Lists
        BY UsesOfType
      <4> HIDE DEF A, B
      <4>3. \A v \in ValueIds, u \in Users : A[v][u] = B[v][u]
        BY <4>1 DEF A, B
      <4>4. A = B
        BY <4>2, <4>3, SameLists
      <4> QED
        BY <4>4 DEF A, B
    <3> HIDE DEF o
    <3> QED
      BY <2>1, <2>2, <3>1, <3>2 DEF Inv, UsesOK
  <2>6. DefsOK'
    <3>1. results[o] = <<>> /\ results' = results /\ definingOp' = definingOp
      BY <1>2, <2>1, <2>2 DEF AddOp, defVars, Inv, DefsOK
    <3> HIDE DEF o
    <3> QED
      BY <2>1, <2>2, <3>1 DEF Inv, DefsOK, DefExact
  <2>7. PortsOK'
    BY <1>2, PortsKept DEF AddOp, Inv
  <2> QED
    BY <2>3, <2>4, <2>5, <2>6, <2>7 DEF Inv
<1>3. ASSUME NEW v \in ValueIds, SetValueSymbol(v, sym) PROVE Inv'
  <2>1. UNCHANGED entryVars /\ UNCHANGED useVars /\ UNCHANGED defVars /\ UNCHANGED portVars /\ UNCHANGED opSymbol
    BY <1>3 DEF SetValueSymbol
  <2>2. UNCHANGED <<valueAlive, opAlive>> /\ EntriesOK'
    BY <2>1 DEF entryVars, Inv, EntriesOK
  <2>3. SymbolsOK'
    <3> DEFINE index == UnbindSymbol(symbolIndex, valueSymbol[v])
    <3>1. index \in [Syms -> Bindings] /\ \A s \in Syms : index[s] = IF s = valueSymbol[v] THEN NoBinding ELSE symbolIndex[s]
      BY DEF UnbindSymbol, Bindings, Inv, SymbolsOK
    <3>2. v \in valueAlive /\ Free(sym) /\ symbolIndex' = BindSymbol(index, sym, <<"value", v>>)
      BY <1>3 DEF SetValueSymbol
    <3>3. valueSymbol' = [valueSymbol EXCEPT ![v] = sym]
      BY <1>3 DEF SetValueSymbol
    <3>4. valueAlive' = valueAlive \union {v} /\ opAlive' = opAlive /\ opSymbol' = opSymbol
      BY <2>1, <2>2, <3>2
    <3>5. \A s \in Syms : index[s] = IF v \in valueAlive /\ s = valueSymbol[v] THEN NoBinding ELSE symbolIndex[s]
      BY <3>1, <3>2
    <3> HIDE DEF index
    <3> QED
      BY <3>1, <3>2, <3>3, <3>4, <3>5, ValueSymbolGiven
  <2> QED
    BY <2>1, <2>2, <2>3, OperandsKept, DefsKept, PortsKept DEF Inv
<1>4. ASSUME NEW o \in OpIds, SetOpSymbol(o, sym) PROVE Inv'
  <2>1. UNCHANGED entryVars /\ UNCHANGED useVars /\ UNCHANGED defVars /\ UNCHANGED portVars /\ UNCHANGED valueSymbol
    BY <1>4 DEF SetOpSymbol
  <2>2. UNCHANGED <<valueAlive, opAlive>> /\ EntriesOK'
    BY <2>1 DEF entryVars, Inv, EntriesOK
  <2>3. SymbolsOK'
    <3> DEFINE index == UnbindSymbol(symbolIndex, opSymbol[o])
    <3>1. index \in [Syms -> Bindings] /\ \A s \in Syms : index[s] = IF s = opSymbol[o] THEN NoBinding ELSE symbolIndex[s]
      BY DEF UnbindSymbol, Bindings, Inv, SymbolsOK
    <3>2. o \in opAlive /\ Free(sym) /\ symbolIndex' = BindSymbol(index, sym, <<"op", o>>)
      BY <1>4 DEF SetOpSymbol
    <3>3. opSymbol' = [opSymbol EXCEPT ![o] = sym]
      BY <1>4 DEF SetOpSymbol
    <3>4. opAlive' = opAlive \union {o} /\ valueAlive' = valueAlive /\ valueSymbol' = valueSymbol
      BY <2>1, <2>2, <3>2
    <3>5. \A s \in Syms : index[s] = IF o \in opAlive /\ s = opSymbol[o] THEN NoBinding ELSE symbolIndex[s]
      BY <3>1, <3>2
    <3> HIDE DEF index
    <3> QED
      BY <3>1, <3>2, <3>3, <3>4, <3>5, OpSymbolGiven
  <2> QED
    BY <2>1, <2>2, <2>3, OperandsKept, DefsKept, PortsKept DEF Inv
<1> QED
  BY <1>1, <1>2, <1>3, <1>4

-----------------------------------------------------------------------------
(* Operands. *)

\* The new operand list of one live operation, and use lists that are exact for it.
LEMMA OperandsEdited ==
  ASSUME Inv, NEW o \in opAlive, NEW s \in Seq(ValueIds), Len(s) <= MaxArity,
         \A k \in DOMAIN s : s[k] \in valueAlive,
         SetOperands(o, s), valueUsers' = UsesOf([operands EXCEPT ![o] = s], opAlive), UseStep
  PROVE  Inv'
<1>1. UNCHANGED entryVars /\ UNCHANGED defVars /\ UNCHANGED symbolVars /\ UNCHANGED portVars
  BY DEF UseStep
<1>2. UNCHANGED opCount /\ UNCHANGED valueAlive /\ UNCHANGED opAlive /\ EntriesOK'
  BY <1>1 DEF entryVars, Inv, EntriesOK
<1>3. /\ operands' = [operands EXCEPT ![o] = s] /\ operands' \in Operands
      /\ \A p \in OpIds : operands'[p] = IF p = o THEN s ELSE operands[p]
  BY DEF SetOperands, Inv, UsesOK, Operands
<1>4. o \in OpIds /\ ~ (o > opCount)
  BY DEF Inv, EntriesOK, OpIds
<1>5. opAlive \subseteq OpIds
  BY Entries DEF Inv
<1>6. valueUsers' = UsesOf(operands', opAlive')
  BY <1>2, <1>3
<1>7. UsesOK'
  BY <1>2, <1>3, <1>4, <1>5, <1>6 DEF Inv, UsesOK
<1> QED
  BY <1>1, <1>2, <1>7, DefsKept, SymbolsKept, PortsKept DEF Inv

LEMMA OperandTypes ==
  ASSUME Inv, NEW o \in opAlive
  PROVE  /\ o \in OpIds /\ operands \in Operands /\ operands[o] \in Seq(ValueIds)
         /\ DOMAIN operands[o] = 1 .. Len(operands[o]) /\ Len(operands[o]) \in Nat
         /\ Len(operands[o]) <= MaxArity
         /\ \A k \in 1 .. Len(operands[o]) : operands[o][k] \in valueAlive
         /\ valueUsers = UsesOf(operands, opAlive)
<1>1. o \in OpIds
  BY Entries DEF Inv
<1> QED
  BY <1>1 DEF Inv, UsesOK, Operands

LEMMA AddOperandStep == ASSUME Inv, NEW o \in OpIds, NEW v \in ValueIds, AddOperand(o, v) PROVE Inv'
<1> DEFINE s == Append(operands[o], v)
<1>1. o \in opAlive /\ v \in valueAlive /\ Len(operands[o]) < MaxArity /\ SetOperands(o, s) /\ UseStep
      /\ valueUsers' = AddValueUser(valueUsers, v, o, Len(operands[o]) + 1)
  BY DEF AddOperand
<1>2. s \in Seq(ValueIds) /\ Len(s) <= MaxArity /\ \A k \in DOMAIN s : s[k] \in valueAlive
  BY <1>1, OperandTypes
<1>3. valueUsers' = UsesOf([operands EXCEPT ![o] = s], opAlive)
  BY <1>1, OperandTypes, UsesAppended
<1> HIDE DEF s
<1> QED
  BY <1>1, <1>2, <1>3, OperandsEdited

LEMMA InsertOperandStep ==
  ASSUME Inv, NEW o \in OpIds, NEW v \in ValueIds, NEW k \in 1 .. MaxArity, InsertOperand(o, k, v) PROVE Inv'
<1> DEFINE s == InsertAt(operands[o], k, v)  n == Len(operands[o])
<1>1. /\ o \in opAlive /\ v \in valueAlive /\ n < MaxArity /\ SetOperands(o, s) /\ UseStep /\ k \in 1 .. n + 1
      /\ valueUsers' = AddOpUses(RemoveOpUses(valueUsers, o, operands[o]), o, s)
  BY DEF InsertOperand
<1>2. /\ operands \in Operands /\ operands[o] \in Seq(ValueIds) /\ valueUsers = UsesOf(operands, opAlive)
      /\ n \in Nat /\ \A i \in 1 .. n : operands[o][i] \in valueAlive
  BY <1>1, OperandTypes
<1>3. /\ s \in Seq(ValueIds) /\ Len(s) = n + 1
      /\ \A i \in 1 .. k - 1 : s[i] = operands[o][i]
      /\ s[k] = v
      /\ \A i \in k .. n : s[i + 1] = operands[o][i]
  BY <1>1, <1>2, InsertAtProperties
<1> HIDE DEF s, n
<1>4. Len(s) <= MaxArity /\ DOMAIN s = 1 .. n + 1
  BY <1>1, <1>2, <1>3
<1>5. \A i \in DOMAIN s : s[i] \in valueAlive
  <2> SUFFICES ASSUME NEW i \in 1 .. n + 1 PROVE s[i] \in valueAlive
    BY <1>4
  <2>1. CASE i < k
    BY <1>1, <1>2, <1>3, <2>1
  <2>2. CASE i = k
    BY <1>1, <1>3, <2>2
  <2>3. CASE i > k
    <3> DEFINE j == i - 1
    <3>1. j \in k .. n /\ i = j + 1
      BY <1>1, <1>2, <2>3
    <3> HIDE DEF j
    <3>2. s[i] = operands[o][j] /\ j \in 1 .. n
      BY <1>1, <1>2, <1>3, <3>1
    <3> QED
      BY <1>2, <3>2
  <2> QED
    BY <1>1, <1>2, <2>1, <2>2, <2>3
<1>6. valueUsers' = UsesOf([operands EXCEPT ![o] = s], opAlive)
  BY <1>1, <1>2, <1>3, UsesReplaced
<1> QED
  BY <1>1, <1>3, <1>4, <1>5, <1>6, OperandsEdited

LEMMA EraseOperandStep ==
  ASSUME Inv, NEW o \in OpIds, NEW k \in 1 .. MaxArity, EraseOperand(o, k) PROVE Inv'
<1> DEFINE s == RemoveAt(operands[o], k)  n == Len(operands[o])
<1>1. /\ o \in opAlive /\ k \in DOMAIN operands[o] /\ SetOperands(o, s) /\ UseStep
      /\ valueUsers' = AddOpUses(RemoveOpUses(valueUsers, o, operands[o]), o, s)
  BY DEF EraseOperand
<1>2. /\ operands \in Operands /\ operands[o] \in Seq(ValueIds) /\ valueUsers = UsesOf(operands, opAlive)
      /\ n \in Nat /\ n <= MaxArity /\ k \in 1 .. n /\ \A i \in 1 .. n : operands[o][i] \in valueAlive
  BY <1>1, OperandTypes
<1>3. /\ s \in Seq(ValueIds) /\ Len(s) = n - 1
      /\ \A i \in 1 .. n - 1 : s[i] = IF i < k THEN operands[o][i] ELSE operands[o][i + 1]
  BY <1>2, RemoveAtProperties
<1> HIDE DEF s, n
<1>4. Len(s) <= MaxArity /\ DOMAIN s = 1 .. n - 1
  BY <1>2, <1>3
<1>5. \A i \in DOMAIN s : s[i] \in valueAlive
  <2> SUFFICES ASSUME NEW i \in 1 .. n - 1 PROVE s[i] \in valueAlive
    BY <1>4
  <2>1. i \in 1 .. n /\ i + 1 \in 1 .. n
    BY <1>2
  <2> QED
    BY <1>2, <1>3, <2>1
<1>6. valueUsers' = UsesOf([operands EXCEPT ![o] = s], opAlive)
  BY <1>1, <1>2, <1>3, UsesReplaced
<1> QED
  BY <1>1, <1>3, <1>4, <1>5, <1>6, OperandsEdited

LEMMA ReplaceOperandStep ==
  ASSUME Inv, NEW o \in OpIds, NEW v \in ValueIds, NEW k \in 1 .. MaxArity, ReplaceOperand(o, k, v) PROVE Inv'
<1> DEFINE s == [operands[o] EXCEPT ![k] = v]
<1>1. /\ o \in opAlive /\ v \in valueAlive /\ k \in DOMAIN operands[o] /\ SetOperands(o, s) /\ UseStep
      /\ valueUsers' = AddValueUser(RemoveValueUser(valueUsers, operands[o][k], o, k), v, o, k)
  BY DEF ReplaceOperand
<1>2. s \in Seq(ValueIds) /\ Len(s) <= MaxArity /\ \A i \in DOMAIN s : s[i] \in valueAlive
  BY <1>1, OperandTypes
<1>3. operands \in Operands /\ valueUsers = UsesOf(operands, opAlive) /\ Len(operands[o]) <= MaxArity
  BY <1>1, OperandTypes
<1> SUFFICES ASSUME NEW t, t = s PROVE Inv'
  OBVIOUS
<1> HIDE DEF s
<1>4. t = [operands[o] EXCEPT ![k] = v]
  BY DEF s
<1>5. valueUsers' = UsesOf([operands EXCEPT ![o] = t], opAlive)
  BY <1>1, <1>3, <1>4, UsesExchanged
<1> QED
  BY <1>1, <1>2, <1>5, OperandsEdited

LEMMA ReplaceAllUsesStep ==
  ASSUME Inv, NEW from \in ValueIds, NEW to \in ValueIds, ReplaceAllUses(from, to) PROVE Inv'
<1> DEFINE r == RewriteUses(operands, valueUsers, from, to, {})
<1>1. to \in valueAlive /\ UseStep /\ operands' = r /\ valueUsers' = MoveUses(valueUsers, from, to, {})
  BY DEF ReplaceAllUses
<1>2. /\ operands \in Operands /\ valueUsers = UsesOf(operands, opAlive)
      /\ \A o \in OpIds : Len(operands[o]) <= MaxArity
  BY DEF Inv, UsesOK
<1>3. /\ r \in Operands
      /\ \A o \in OpIds :
           /\ Len(r[o]) = Len(operands[o])
           /\ \A k \in 1 .. Len(operands[o]) :
                r[o][k] = IF o \in opAlive \ {} /\ operands[o][k] = from THEN to ELSE operands[o][k]
  BY <1>2, Rewritten
<1>4. valueUsers' = UsesOf(r, opAlive)
  BY <1>1, <1>2, MovedUses
<1> HIDE DEF r
<1>5. UNCHANGED entryVars /\ UNCHANGED defVars /\ UNCHANGED symbolVars /\ UNCHANGED portVars
  BY <1>1 DEF UseStep
<1>6. UNCHANGED opCount /\ UNCHANGED valueAlive /\ UNCHANGED opAlive /\ EntriesOK'
  BY <1>5 DEF entryVars, Inv, EntriesOK
<1>7. \A o \in OpIds : Len(r[o]) <= MaxArity /\ (o > opCount => r[o] = <<>>)
  <2> TAKE o \in OpIds
  <2>1. r[o] \in Seq(ValueIds) /\ Len(r[o]) = Len(operands[o]) /\ Len(operands[o]) <= MaxArity
    BY <1>2, <1>3 DEF Operands
  <2>2. o > opCount => Len(operands[o]) = 0
    BY DEF Inv, UsesOK
  <2> QED
    BY <2>1, <2>2
<1>8. \A o \in opAlive : \A k \in DOMAIN r[o] : r[o][k] \in valueAlive
  <2> TAKE o \in opAlive
  <2>1. r[o] \in Seq(ValueIds) /\ o \in OpIds
    BY <1>3, OperandTypes DEF Operands
  <2>2. DOMAIN r[o] = 1 .. Len(operands[o])
    BY <1>3, <2>1
  <2> QED
    BY <1>1, <1>3, <2>1, <2>2, OperandTypes
<1>9. UsesOK'
  BY <1>1, <1>3, <1>4, <1>6, <1>7, <1>8 DEF UsesOK
<1> QED
  BY <1>5, <1>6, <1>9, DefsKept, SymbolsKept, PortsKept DEF Inv

LEMMA OperandSteps == ASSUME Inv, OperandNext PROVE Inv'
  BY AddOperandStep, InsertOperandStep, ReplaceOperandStep, ReplaceAllUsesStep DEF OperandNext

-----------------------------------------------------------------------------
(* Results. *)

In(v, s) == \E k \in DOMAIN s : s[k] = v
Distinct(s) == \A i, k \in DOMAIN s : s[i] = s[k] => i = k

LEMMA ResultTypes ==
  ASSUME Inv, NEW o \in opAlive
  PROVE  /\ o \in OpIds /\ o # None /\ results \in Operands /\ results[o] \in Seq(ValueIds)
         /\ DOMAIN results[o] = 1 .. Len(results[o]) /\ Len(results[o]) \in Nat
         /\ Len(results[o]) <= MaxArity
         /\ \A k \in 1 .. Len(results[o]) : results[o][k] \in valueAlive
         /\ Distinct(results[o])
         /\ definingOp \in [ValueIds -> OpIds \union {None}]
         /\ \A v \in ValueIds : definingOp[v] = o <=> In(v, results[o])
<1>1. o \in OpIds /\ o # None
  BY Entries, NoneIsNoId DEF Inv
<1> QED
  BY <1>1 DEF Inv, DefsOK, Operands, DefExact, Distinct, In

\* The new result list of one live operation: its values lose their definition
\* or find it in the operation, the other values keep theirs.
LEMMA ResultsEdited ==
  ASSUME Inv, NEW o \in opAlive, NEW s \in Seq(ValueIds), Len(s) <= MaxArity,
         \A k \in DOMAIN s : s[k] \in valueAlive, Distinct(s),
         SetResults(o, s), definingOp' \in [ValueIds -> OpIds \union {None}],
         \A v \in ValueIds : In(v, s) => definingOp[v] \in {None, o},
         \A v \in ValueIds : definingOp'[v] = IF In(v, s) THEN o
                                              ELSE IF definingOp[v] = o THEN None ELSE definingOp[v],
         DefStep
  PROVE  Inv'
<1>1. UNCHANGED entryVars /\ UNCHANGED useVars /\ UNCHANGED symbolVars /\ UNCHANGED portVars
  BY DEF DefStep
<1>2. UNCHANGED opCount /\ UNCHANGED valueAlive /\ UNCHANGED opAlive /\ EntriesOK'
  BY <1>1 DEF entryVars, Inv, EntriesOK
<1>3. /\ results' = [results EXCEPT ![o] = s] /\ results' \in Operands
      /\ \A p \in OpIds : results'[p] = IF p = o THEN s ELSE results[p]
  BY DEF SetResults, Inv, DefsOK, Operands
<1>4. o \in OpIds /\ ~ (o > opCount) /\ o # None
  BY NoneIsNoId DEF Inv, EntriesOK, OpIds
<1>5. opAlive \subseteq OpIds
  BY Entries DEF Inv
<1>6. ASSUME NEW v \in ValueIds, NEW p \in OpIds
      PROVE  definingOp'[v] = p <=> p \in opAlive' /\ In(v, results'[p])
  <2>1. definingOp[v] = p <=> p \in opAlive /\ In(v, results[p])
    BY DEF Inv, DefsOK, DefExact, In
  <2>2. p # None
    BY NoneIsNoId
  <2> QED
    BY <1>2, <1>3, <1>4, <2>1, <2>2
<1>7. \A p \in opAlive' : Distinct(results'[p])
  BY <1>2, <1>3, <1>5 DEF Inv, DefsOK, DefExact, Distinct
<1>8. DefExact'
  BY <1>6, <1>7 DEF DefExact, In, Distinct
<1>9. DefsOK'
  BY <1>2, <1>3, <1>4, <1>5, <1>8 DEF Inv, DefsOK
<1> QED
  BY <1>1, <1>2, <1>9, OperandsKept, SymbolsKept, PortsKept DEF Inv

LEMMA AddResultStep == ASSUME Inv, NEW o \in OpIds, NEW v \in ValueIds, AddResult(o, v) PROVE Inv'
<1> DEFINE s == Append(results[o], v)  r == results[o]  n == Len(results[o])
<1>1. /\ o \in opAlive /\ v \in valueAlive /\ definingOp[v] = None /\ n < MaxArity
      /\ SetResults(o, s) /\ DefStep /\ definingOp' = [definingOp EXCEPT ![v] = o]
  BY DEF AddResult
<1>2. /\ r \in Seq(ValueIds) /\ DOMAIN r = 1 .. n /\ n \in Nat /\ o # None
      /\ \A k \in 1 .. n : r[k] \in valueAlive
      /\ Distinct(r) /\ definingOp \in [ValueIds -> OpIds \union {None}]
      /\ \A w \in ValueIds : definingOp[w] = o <=> In(w, r)
  BY <1>1, ResultTypes
<1>3. ~ In(v, r)
  BY <1>1, <1>2
<1>4. /\ s \in Seq(ValueIds) /\ Len(s) = n + 1 /\ DOMAIN s = 1 .. n + 1
      /\ s[n + 1] = v /\ \A k \in 1 .. n : s[k] = r[k]
  BY <1>2
<1> HIDE DEF s, r, n
<1>5. \A k \in DOMAIN s : s[k] \in valueAlive
  BY <1>1, <1>2, <1>4
<1>6. Distinct(s)
  BY <1>2, <1>3, <1>4 DEF Distinct, In
<1>7. \A w \in ValueIds : In(w, s) <=> w = v \/ In(w, r)
  BY <1>2, <1>4 DEF In
<1>8. /\ definingOp' \in [ValueIds -> OpIds \union {None}]
      /\ \A w \in ValueIds : definingOp'[w] = IF In(w, s) THEN o
                                              ELSE IF definingOp[w] = o THEN None ELSE definingOp[w]
  BY <1>1, <1>2, <1>7
<1>9. (\A w \in ValueIds : In(w, s) => definingOp[w] \in {None, o}) /\ Len(s) <= MaxArity
  BY <1>1, <1>2, <1>4, <1>7
<1> QED
  BY <1>1, <1>4, <1>5, <1>6, <1>8, <1>9, ResultsEdited

LEMMA InsertResultStep ==
  ASSUME Inv, NEW o \in OpIds, NEW v \in ValueIds, NEW k \in 1 .. MaxArity, InsertResult(o, k, v) PROVE Inv'
<1> DEFINE s == InsertAt(results[o], k, v)  r == results[o]  n == Len(results[o])
<1>1. /\ o \in opAlive /\ v \in valueAlive /\ definingOp[v] = None /\ n < MaxArity /\ k \in 1 .. n + 1
      /\ SetResults(o, s) /\ DefStep /\ definingOp' = [definingOp EXCEPT ![v] = o]
  BY DEF InsertResult
<1>2. /\ r \in Seq(ValueIds) /\ DOMAIN r = 1 .. n /\ n \in Nat /\ o # None
      /\ \A j \in 1 .. n : r[j] \in valueAlive
      /\ Distinct(r) /\ definingOp \in [ValueIds -> OpIds \union {None}]
      /\ \A w \in ValueIds : definingOp[w] = o <=> In(w, r)
  BY <1>1, ResultTypes
<1>3. ~ In(v, r)
  BY <1>1, <1>2
<1>4. /\ s \in Seq(ValueIds) /\ Len(s) = n + 1
      /\ \A i \in 1 .. k - 1 : s[i] = r[i]
      /\ s[k] = v
      /\ \A i \in k .. n : s[i + 1] = r[i]
  <2>1. r \in Seq(ValueIds)
    BY <1>2
  <2> HIDE DEF r, n
  <2>2. k \in 1 .. Len(r) + 1
    BY <1>1 DEF r, n
  <2>3. n = Len(r) /\ s = InsertAt(r, k, v)
    BY DEF r, n
  <2> DEFINE t == InsertAt(r, k, v)
  <2>4. t \in Seq(ValueIds) /\ Len(t) = Len(r) + 1 /\ t[k] = v
    BY <2>1, <2>2, InsertAtProperties
  <2>5. (\A i \in 1 .. k - 1 : t[i] = r[i]) /\ \A i \in k .. Len(r) : t[i + 1] = r[i]
    BY <2>1, <2>2, InsertAtProperties
  <2> HIDE DEF s, t
  <2> QED
    BY <2>3, <2>4, <2>5 DEF t
<1> HIDE DEF s, r, n
<1>5. DOMAIN s = 1 .. n + 1
  BY <1>2, <1>4
<1>6. ASSUME NEW i \in 1 .. n + 1, i # k
      PROVE  \E j \in 1 .. n : s[i] = r[j] /\ i = (IF j < k THEN j ELSE j + 1)
  <2>1. CASE i < k
    <3>1. i \in 1 .. k - 1 /\ i \in 1 .. n
      BY <1>1, <1>2, <2>1
    <3> QED
      BY <1>4, <2>1, <3>1
  <2>2. CASE i > k
    <3> DEFINE j == i - 1
    <3>1. j \in k .. n /\ i = j + 1
      BY <1>1, <1>2, <2>2
    <3> HIDE DEF j
    <3>2. s[i] = r[j] /\ j \in 1 .. n /\ ~ (j < k)
      BY <1>1, <1>2, <1>4, <3>1
    <3> QED
      BY <3>1, <3>2
  <2> QED
    BY <1>1, <1>2, <1>6, <2>1, <2>2
<1>7. ASSUME NEW j \in 1 .. n PROVE \E i \in 1 .. n + 1 : s[i] = r[j]
  <2>1. CASE j < k
    BY <1>1, <1>2, <1>4, <2>1
  <2>2. CASE j >= k
    <3>1. j \in k .. n /\ j + 1 \in 1 .. n + 1
      BY <1>1, <1>2, <2>2
    <3> QED
      BY <1>4, <3>1
  <2> QED
    BY <1>1, <1>2, <2>1, <2>2
<1>8. \A i \in DOMAIN s : s[i] \in valueAlive
  BY <1>1, <1>2, <1>4, <1>5, <1>6
<1>9. Distinct(s)
  <2> SUFFICES ASSUME NEW i \in 1 .. n + 1, NEW j \in 1 .. n + 1, s[i] = s[j] PROVE i = j
    BY <1>5 DEF Distinct
  <2>1. \A x \in 1 .. n + 1 : x # k => s[x] # v
    BY <1>2, <1>3, <1>6 DEF In
  <2>2. CASE i = k \/ j = k
    BY <1>4, <2>1, <2>2
  <2>3. CASE i # k /\ j # k
    <3>1. PICK x \in 1 .. n : s[i] = r[x] /\ i = (IF x < k THEN x ELSE x + 1)
      BY <1>6, <2>3
    <3>2. PICK y \in 1 .. n : s[j] = r[y] /\ j = (IF y < k THEN y ELSE y + 1)
      BY <1>6, <2>3
    <3>3. x = y
      BY <1>2, <3>1, <3>2 DEF Distinct
    <3> QED
      BY <3>1, <3>2, <3>3
  <2> QED
    BY <2>2, <2>3
<1>10. \A w \in ValueIds : In(w, s) <=> w = v \/ In(w, r)
  <2> TAKE w \in ValueIds
  <2>1. In(w, s) => w = v \/ In(w, r)
    BY <1>2, <1>4, <1>5, <1>6 DEF In
  <2>2. In(v, s)
    BY <1>1, <1>4, <1>5 DEF In
  <2>3. In(w, r) => In(w, s)
    BY <1>2, <1>5, <1>7 DEF In
  <2> QED
    BY <2>1, <2>2, <2>3
<1>11. /\ definingOp' \in [ValueIds -> OpIds \union {None}]
       /\ \A w \in ValueIds : definingOp'[w] = IF In(w, s) THEN o
                                               ELSE IF definingOp[w] = o THEN None ELSE definingOp[w]
  BY <1>1, <1>2, <1>10
<1>12. (\A w \in ValueIds : In(w, s) => definingOp[w] \in {None, o}) /\ Len(s) <= MaxArity
  BY <1>1, <1>2, <1>4, <1>10
<1> QED
  BY <1>1, <1>4, <1>8, <1>9, <1>11, <1>12, ResultsEdited

LEMMA ReplaceResultStep ==
  ASSUME Inv, NEW o \in OpIds, NEW v \in ValueIds, NEW k \in 1 .. MaxArity, ReplaceResult(o, k, v) PROVE Inv'
<1> DEFINE s == [results[o] EXCEPT ![k] = v]  r == results[o]  n == Len(results[o])
<1>1. /\ o \in opAlive /\ v \in valueAlive /\ k \in DOMAIN r /\ r[k] # v /\ definingOp[v] = None
      /\ SetResults(o, s) /\ DefStep
      /\ definingOp' = [w \in ValueIds |->
           IF w = v THEN o ELSE IF w = r[k] /\ definingOp[w] = o THEN None ELSE definingOp[w]]
  BY DEF ReplaceResult
<1>2. /\ r \in Seq(ValueIds) /\ DOMAIN r = 1 .. n /\ n \in Nat /\ n <= MaxArity /\ o # None
      /\ \A j \in 1 .. n : r[j] \in valueAlive
      /\ Distinct(r) /\ definingOp \in [ValueIds -> OpIds \union {None}]
      /\ \A w \in ValueIds : definingOp[w] = o <=> In(w, r)
  BY <1>1, ResultTypes
<1>3. ~ In(v, r)
  BY <1>1, <1>2
<1>4. /\ s \in Seq(ValueIds) /\ Len(s) = n /\ DOMAIN s = DOMAIN r
      /\ \A i \in DOMAIN r : s[i] = IF i = k THEN v ELSE r[i]
  BY <1>1, <1>2
<1> HIDE DEF s, r, n
<1>5. \A i \in DOMAIN s : s[i] \in valueAlive
  BY <1>1, <1>2, <1>4
<1>6. Distinct(s)
  BY <1>1, <1>2, <1>3, <1>4 DEF Distinct, In
<1>7. \A w \in ValueIds : In(w, s) <=> w = v \/ (In(w, r) /\ w # r[k])
  BY <1>1, <1>2, <1>3, <1>4 DEF Distinct, In
<1>8. In(r[k], r)
  BY <1>1 DEF In
<1>9. /\ definingOp' \in [ValueIds -> OpIds \union {None}]
      /\ \A w \in ValueIds : definingOp'[w] = IF In(w, s) THEN o
                                              ELSE IF definingOp[w] = o THEN None ELSE definingOp[w]
  BY <1>1, <1>2, <1>7, <1>8
<1>10. (\A w \in ValueIds : In(w, s) => definingOp[w] \in {None, o}) /\ Len(s) <= MaxArity
  BY <1>1, <1>2, <1>4, <1>7
<1> QED
  BY <1>1, <1>4, <1>5, <1>6, <1>9, <1>10, ResultsEdited

LEMMA EraseResultStep ==
  ASSUME Inv, NEW o \in OpIds, NEW k \in 1 .. MaxArity, EraseResult(o, k) PROVE Inv'
<1> DEFINE s == RemoveAt(results[o], k)  r == results[o]  n == Len(results[o])
<1>1. /\ o \in opAlive /\ k \in DOMAIN r /\ SetResults(o, s) /\ DefStep
      /\ definingOp' = [definingOp EXCEPT ![r[k]] = None]
  BY DEF EraseResult
<1>2. /\ r \in Seq(ValueIds) /\ DOMAIN r = 1 .. n /\ n \in Nat /\ n <= MaxArity /\ o # None
      /\ \A j \in 1 .. n : r[j] \in valueAlive
      /\ Distinct(r) /\ definingOp \in [ValueIds -> OpIds \union {None}]
      /\ \A w \in ValueIds : definingOp[w] = o <=> In(w, r)
  BY <1>1, ResultTypes
<1>3. /\ s \in Seq(ValueIds) /\ Len(s) = n - 1
      /\ \A i \in 1 .. n - 1 : s[i] = IF i < k THEN r[i] ELSE r[i + 1]
  <2>1. r \in Seq(ValueIds) /\ k \in DOMAIN r
    BY <1>1, <1>2
  <2> HIDE DEF r, n
  <2>2. k \in 1 .. Len(r) /\ n = Len(r) /\ s = RemoveAt(r, k)
    BY <2>1 DEF r, n
  <2> HIDE DEF s
  <2> QED
    BY <2>1, <2>2, RemoveAtProperties
<1> HIDE DEF s, r, n
<1>4. Len(s) <= MaxArity /\ DOMAIN s = 1 .. n - 1 /\ k \in 1 .. n
  BY <1>1, <1>2, <1>3
<1>5. ASSUME NEW i \in 1 .. n - 1
      PROVE  \E j \in 1 .. n : j # k /\ s[i] = r[j] /\ j = (IF i < k THEN i ELSE i + 1)
  <2>1. i \in 1 .. n /\ i + 1 \in 1 .. n
    BY <1>2
  <2> QED
    BY <1>3, <1>4, <2>1
<1>6. ASSUME NEW j \in 1 .. n, j # k PROVE \E i \in 1 .. n - 1 : s[i] = r[j]
  <2>1. CASE j < k
    <3>1. j \in 1 .. n - 1
      BY <1>2, <1>4, <2>1
    <3> QED
      BY <1>3, <2>1, <3>1
  <2>2. CASE j > k
    <3> DEFINE i == j - 1
    <3>1. i \in k .. n - 1 /\ j = i + 1
      BY <1>2, <1>4, <2>2
    <3> HIDE DEF i
    <3>2. i \in 1 .. n - 1 /\ ~ (i < k)
      BY <1>4, <3>1
    <3> QED
      BY <1>3, <3>1, <3>2
  <2> QED
    BY <1>4, <1>6, <2>1, <2>2
<1>7. \A i \in DOMAIN s : s[i] \in valueAlive
  BY <1>2, <1>4, <1>5
<1>8. Distinct(s)
  <2> SUFFICES ASSUME NEW i \in 1 .. n - 1, NEW j \in 1 .. n - 1, s[i] = s[j] PROVE i = j
    BY <1>4 DEF Distinct
  <2>1. PICK x \in 1 .. n : s[i] = r[x] /\ x = (IF i < k THEN i ELSE i + 1)
    BY <1>5
  <2>2. PICK y \in 1 .. n : s[j] = r[y] /\ y = (IF j < k THEN j ELSE j + 1)
    BY <1>5
  <2>3. x = y
    BY <1>2, <2>1, <2>2 DEF Distinct
  <2> QED
    BY <1>4, <2>1, <2>2, <2>3
<1>9. \A w \in ValueIds : In(w, s) <=> In(w, r) /\ w # r[k]
  <2> TAKE w \in ValueIds
  <2>1. ASSUME In(w, s) PROVE In(w, r) /\ w # r[k]
    <3>1. PICK i \in 1 .. n - 1 : s[i] = w
      BY <1>4, <2>1 DEF In
    <3>2. PICK j \in 1 .. n : j # k /\ s[i] = r[j]
      BY <1>5
    <3>3. j \in DOMAIN r /\ k \in DOMAIN r /\ r[j] = w
      BY <1>2, <1>4, <3>1, <3>2
    <3> QED
      BY <1>2, <3>2, <3>3 DEF In, Distinct
  <2>2. In(w, r) /\ w # r[k] => In(w, s)
    BY <1>2, <1>4, <1>6 DEF In
  <2> QED
    BY <2>1, <2>2
<1>10. In(r[k], r) /\ r[k] \in ValueIds
  BY <1>1, <1>2 DEF In
<1>11. /\ definingOp' \in [ValueIds -> OpIds \union {None}]
       /\ \A w \in ValueIds : definingOp'[w] = IF In(w, s) THEN o
                                               ELSE IF definingOp[w] = o THEN None ELSE definingOp[w]
  BY <1>1, <1>2, <1>9, <1>10
<1>12. \A w \in ValueIds : In(w, s) => definingOp[w] \in {None, o}
  BY <1>2, <1>9
<1> QED
  BY <1>1, <1>3, <1>4, <1>7, <1>8, <1>11, <1>12, ResultsEdited

LEMMA ResultSteps == ASSUME Inv, ResultNext PROVE Inv'
  BY EraseOperandStep, AddResultStep, InsertResultStep, ReplaceResultStep, EraseResultStep DEF ResultNext

-----------------------------------------------------------------------------
(* Erasures. *)

\* A retired operation leaves no definition and no symbol behind.
LEMMA RetireOpKeeps == ASSUME Inv, NEW o \in opAlive, RetireOp(o), UsesOK' PROVE Inv'
<1>1. /\ opAlive' = opAlive \ {o} /\ UNCHANGED opCount /\ UNCHANGED valueCount /\ UNCHANGED valueAlive
      /\ UNCHANGED results /\ UNCHANGED valueSymbol /\ UNCHANGED opSymbol /\ UNCHANGED portVars
      /\ symbolIndex' = UnbindSymbol(symbolIndex, opSymbol[o])
      /\ definingOp' = [v \in ValueIds |->
           IF v \in ToSet(results[o]) /\ definingOp[v] = o THEN None ELSE definingOp[v]]
  BY DEF RetireOp
<1>2. EntriesOK'
  BY <1>1 DEF Inv, EntriesOK
<1>3. SymbolsOK'
  BY <1>1, OpSymbolRetired
<1>4. DefsOK'
  <2>1. o \in OpIds /\ opAlive \subseteq OpIds /\ o # None
    BY Entries, NoneIsNoId DEF Inv
  <2>2. \A v \in ValueIds : v \in ToSet(results[o]) <=> definingOp[v] = o
    BY <2>1 DEF ToSet, Inv, DefsOK, DefExact
  <2>3. definingOp' \in [ValueIds -> OpIds \union {None}]
    BY <1>1 DEF Inv, DefsOK
  <2>4. ASSUME NEW v \in ValueIds, NEW p \in OpIds
        PROVE  definingOp'[v] = p <=> p \in opAlive' /\ In(v, results'[p])
    <3>1. definingOp[v] = p <=> p \in opAlive /\ In(v, results[p])
      BY DEF Inv, DefsOK, DefExact, In
    <3>2. definingOp'[v] = IF definingOp[v] = o THEN None ELSE definingOp[v]
      BY <1>1, <2>2
    <3> QED
      BY <1>1, <2>1, <3>1, <3>2, NoneIsNoId
  <2>5. DefExact'
    BY <1>1, <2>4 DEF DefExact, In, Inv, DefsOK
  <2> QED
    BY <1>1, <2>3, <2>5 DEF Inv, DefsOK
<1>5. PortsOK'
  BY <1>1, PortsKept DEF Inv
<1> QED
  BY <1>2, <1>3, <1>4, <1>5 DEF Inv

LEMMA EraseOpStep ==
  ASSUME Inv, NEW o \in opAlive, RetireOp(o), operands' = operands,
         valueUsers' = RemoveOpUses(valueUsers, o, operands[o])
  PROVE  Inv'
<1>1. opAlive' = opAlive \ {o} /\ UNCHANGED opCount /\ UNCHANGED valueAlive
  BY DEF RetireOp
<1>2. valueUsers' = UsesOf(operands, opAlive \ {o})
  BY UsesRetired DEF Inv, UsesOK
<1>3. UsesOK'
  BY <1>1, <1>2 DEF Inv, UsesOK
<1> QED
  BY <1>3, RetireOpKeeps

LEMMA EraseOpReplacingStep == ASSUME Inv, NEW o \in OpIds, NEW to \in ValueIds, EraseOpReplacing(o, to) PROVE Inv'
<1> DEFINE from == results[o][1]
           r == RewriteUses(operands, valueUsers, from, to, {o})
<1>1. /\ o \in opAlive /\ to \in valueAlive /\ RetireOp(o) /\ operands' = r /\ Len(results[o]) = 1
      /\ valueUsers' = RemoveOpUses(MoveUses(valueUsers, from, to, {o}), o, operands[o])
  BY DEF EraseOpReplacing
<1>2. from \in ValueIds
  BY <1>1, ResultTypes, Entries DEF Inv
<1>3. /\ operands \in Operands /\ valueUsers = UsesOf(operands, opAlive)
      /\ \A p \in OpIds : Len(operands[p]) <= MaxArity
  BY DEF Inv, UsesOK
<1> HIDE DEF from
<1>4. /\ r \in Operands
      /\ \A p \in OpIds :
           /\ Len(r[p]) = Len(operands[p])
           /\ \A k \in 1 .. Len(operands[p]) :
                r[p][k] = IF p \in opAlive \ {o} /\ operands[p][k] = from THEN to ELSE operands[p][k]
  BY <1>2, <1>3, Rewritten
<1>5. MoveUses(valueUsers, from, to, {o}) = UsesOf(r, opAlive)
  BY <1>2, <1>3, MovedUses
<1> HIDE DEF r
<1>6. r[o] = operands[o]
  <2>1. r[o] \in Seq(ValueIds) /\ operands[o] \in Seq(ValueIds) /\ Len(r[o]) = Len(operands[o])
        /\ \A k \in 1 .. Len(operands[o]) : r[o][k] = operands[o][k]
    BY <1>3, <1>4 DEF Operands
  <2> QED
    BY <2>1
<1>7. valueUsers' = UsesOf(r, opAlive \ {o})
  BY <1>1, <1>5, <1>6, UsesRetired
<1>8. opAlive' = opAlive \ {o} /\ UNCHANGED opCount /\ UNCHANGED valueAlive
  BY <1>1 DEF RetireOp
<1>9. \A p \in OpIds : Len(r[p]) <= MaxArity /\ (p > opCount => r[p] = <<>>)
  <2> TAKE p \in OpIds
  <2>1. r[p] \in Seq(ValueIds) /\ Len(r[p]) = Len(operands[p]) /\ Len(operands[p]) <= MaxArity
    BY <1>3, <1>4 DEF Operands
  <2>2. p > opCount => Len(operands[p]) = 0
    BY DEF Inv, UsesOK
  <2> QED
    BY <2>1, <2>2
<1>10. \A p \in opAlive : \A k \in DOMAIN r[p] : r[p][k] \in valueAlive
  <2> TAKE p \in opAlive
  <2>1. r[p] \in Seq(ValueIds) /\ p \in OpIds
    BY <1>4, OperandTypes DEF Operands
  <2>2. DOMAIN r[p] = 1 .. Len(operands[p])
    BY <1>4, <2>1
  <2> QED
    BY <1>1, <1>4, <2>1, <2>2, OperandTypes
<1>11. UsesOK'
  BY <1>1, <1>4, <1>7, <1>8, <1>9, <1>10 DEF UsesOK
<1> QED
  BY <1>1, <1>11, RetireOpKeeps

LEMMA EraseValueStep ==
  ASSUME Inv, NEW v \in valueAlive, Unused(v), NoPort(v), definingOp[v] = None, RetireValue(v),
         valueUsers' = valueUsers
  PROVE  Inv'
<1>1. /\ valueAlive' = valueAlive \ {v} /\ UNCHANGED valueCount /\ UNCHANGED opCount /\ UNCHANGED opAlive
      /\ UNCHANGED defVars /\ UNCHANGED operands /\ UNCHANGED valueSymbol /\ UNCHANGED opSymbol
      /\ UNCHANGED portVars /\ symbolIndex' = UnbindSymbol(symbolIndex, valueSymbol[v])
  BY DEF RetireValue
<1>2. v \in ValueIds /\ opAlive \subseteq OpIds
  BY Entries DEF Inv
<1>3. EntriesOK'
  BY <1>1 DEF Inv, EntriesOK
<1>4. SymbolsOK'
  BY <1>1, ValueSymbolRetired
<1>5. \A o \in opAlive : \A k \in DOMAIN operands[o] : operands[o][k] # v
  <2> SUFFICES ASSUME NEW o \in opAlive, NEW k \in DOMAIN operands[o], operands[o][k] = v PROVE FALSE
    OBVIOUS
  <2>1. /\ operands[o] \in Seq(ValueIds) /\ k \in 1 .. Len(operands[o]) /\ Len(operands[o]) <= MaxArity
        /\ Len(operands[o]) \in Nat /\ o \in OpIds /\ valueUsers = UsesOf(operands, opAlive)
    BY OperandTypes
  <2>2. <<o, k>> \in Users
    BY <2>1 DEF Users
  <2>3. valueUsers[v][<<o, k>>] = 1
    BY <1>2, <2>1, <2>2 DEF UsesOf, UseAt
  <2> QED
    BY <2>2, <2>3 DEF Unused
<1>6. UsesOK'
  BY <1>1, <1>5 DEF Inv, UsesOK
<1>7. \A o \in opAlive : \A k \in DOMAIN results[o] : results[o][k] # v
  BY <1>2, NoneIsNoId DEF Inv, DefsOK, DefExact
<1>8. DefsOK'
  BY <1>1, <1>7 DEF defVars, Inv, DefsOK, DefExact
<1>9. PortsOK'
  <2>1. UNCHANGED inputPorts /\ UNCHANGED outputPorts /\ UNCHANGED inoutPorts
        /\ UNCHANGED isInput /\ UNCHANGED isOutput /\ UNCHANGED isInout
    BY <1>1 DEF portVars
  <2>2. BoundValues(inputPorts)' = BoundValues(inputPorts) /\ BoundValues(outputPorts)' = BoundValues(outputPorts)
        /\ InoutValues(inoutPorts)' = InoutValues(inoutPorts)
    BY <2>1 DEF BoundValues, InoutValues
  <2>3. InoutNeverErased'
    BY <1>1, <2>2 DEF Inv, PortsOK, InoutNeverErased, NoPort
  <2>4. ~ PortCallsFail => FlagsExact' /\ BoundNeverErased'
    BY <1>1, <2>1, <2>2 DEF Inv, PortsOK, FlagsExact, BoundNeverErased, NoPort
  <2>5. isInput' \subseteq valueAlive' /\ isOutput' \subseteq valueAlive' /\ isInout' \subseteq ValueIds
    BY <1>1, <2>1 DEF Inv, PortsOK, NoPort
  <2>6. /\ inputPorts' \in [PortNames -> ValueIds \union {None}]
        /\ outputPorts' \in [PortNames -> ValueIds \union {None}]
        /\ inoutPorts' \in [InoutNames -> InoutPorts \union {Unbound}]
    BY <2>1 DEF Inv, PortsOK
  <2> QED
    BY <2>3, <2>4, <2>5, <2>6 DEF PortsOK
<1> QED
  BY <1>3, <1>4, <1>6, <1>8, <1>9 DEF Inv

LEMMA EraseSteps == ASSUME Inv, EraseNext PROVE Inv'
<1>1. ASSUME NEW o \in OpIds, EraseOp(o) \/ EraseOpUnchecked(o) PROVE Inv'
  BY <1>1, EraseOpStep DEF EraseOp, EraseOpUnchecked
<1>2. ASSUME NEW v \in ValueIds, EraseValue(v) PROVE Inv'
  <2>1. v \in valueAlive /\ Unused(v) /\ NoPort(v) /\ definingOp[v] = None /\ RetireValue(v)
        /\ valueUsers' = [valueUsers EXCEPT ![v] = [u \in Users |-> 0]]
    BY <1>2 DEF EraseValue
  <2>2. valueUsers \in [ValueIds -> [Users -> Nat]]
    BY UsesOfType DEF Inv, UsesOK
  <2>3. valueUsers[v] = [u \in Users |-> 0]
    BY <2>1, <2>2 DEF Unused
  <2>4. valueUsers' = valueUsers
    BY <2>1, <2>2, <2>3
  <2> QED
    BY <2>1, <2>4, EraseValueStep
<1>3. ASSUME NEW v \in ValueIds, EraseValueUnchecked(v) PROVE Inv'
  BY <1>3, EraseValueStep DEF EraseValueUnchecked
<1> QED
  BY <1>1, <1>2, <1>3, EraseOpReplacingStep DEF EraseNext

-----------------------------------------------------------------------------
(* Ports. *)

PortTypes(in, out, inout) ==
  /\ in \in [PortNames -> ValueIds \union {None}]
  /\ out \in [PortNames -> ValueIds \union {None}]
  /\ inout \in [InoutNames -> InoutPorts \union {Unbound}]

LEMMA PortValues ==
  ASSUME NEW in, NEW out, NEW inout, PortTypes(in, out, inout)
  PROVE  BoundValues(in) \subseteq ValueIds /\ BoundValues(out) \subseteq ValueIds
         /\ InoutValues(inout) \subseteq ValueIds
<1>1. BoundValues(in) \subseteq ValueIds /\ BoundValues(out) \subseteq ValueIds
  BY BoundMember DEF PortTypes
<1>2. \A n \in InoutNames : inout[n].in \in ValueIds \union {None} /\ inout[n].out \in ValueIds \union {None}
                            /\ inout[n].oe \in ValueIds \union {None}
  BY DEF PortTypes, InoutPorts, Unbound
<1>3. InoutValues(inout) \subseteq ValueIds
  BY <1>2, InoutMember
<1> QED
  BY <1>1, <1>3

\* Whatever a port call does to the lists, the flags are recomputed from them or
\* the call fails; that no value of an inout port is erased needs the lists only.
LEMMA PortsEdited ==
  ASSUME Inv, PortStep, PortTypes(inputPorts', outputPorts', inoutPorts'),
         InoutValues(inoutPorts') \subseteq valueAlive,
         RecomputeFlags(inputPorts', outputPorts', inoutPorts') \/ (PortCallsFail /\ UNCHANGED flagVars)
  PROVE  Inv'
<1>1. UNCHANGED entryVars /\ UNCHANGED useVars /\ UNCHANGED defVars /\ UNCHANGED symbolVars
  BY DEF PortStep
<1>2. UNCHANGED valueAlive /\ EntriesOK'
  BY <1>1 DEF entryVars, Inv, EntriesOK
<1> DEFINE ins == BoundValues(inputPorts')  outs == BoundValues(outputPorts')  both == InoutValues(inoutPorts')
<1>3. ins \subseteq ValueIds /\ outs \subseteq ValueIds /\ both \subseteq ValueIds /\ valueAlive \subseteq ValueIds
  BY PortValues, Entries DEF Inv
<1>4. ASSUME RecomputeFlags(inputPorts', outputPorts', inoutPorts'),
             ~ RecomputeThrows(inputPorts', outputPorts', inoutPorts')
      PROVE  /\ isInput' = ins /\ isOutput' = outs /\ isInout' = both
             /\ ins \union outs \union both \subseteq valueAlive
  BY <1>4 DEF RecomputeFlags, RecomputeThrows, Dead
<1>5. ASSUME RecomputeFlags(inputPorts', outputPorts', inoutPorts'),
             RecomputeThrows(inputPorts', outputPorts', inoutPorts')
      PROVE  PortCallsFail /\ isInput' \subseteq valueAlive /\ isOutput' \subseteq valueAlive /\ isInout' \subseteq ValueIds
  <2>1. /\ PortCallsFail
        /\ isInput' \in IF Dead(ins) THEN SUBSET (ins \intersect valueAlive) ELSE {ins}
        /\ isOutput' \in CASE Dead(ins)  -> {{}}
                           [] Dead(outs) -> SUBSET (outs \intersect valueAlive)
                           [] OTHER      -> {outs}
        /\ isInout' \in IF Dead(ins \union outs) THEN {{}}
                        ELSE SUBSET ((both \intersect valueAlive) \ (ins \union outs))
    BY <1>5 DEF RecomputeFlags
  <2>2. isInput' \subseteq valueAlive
    BY <2>1 DEF Dead
  <2>3. isOutput' \subseteq valueAlive
    BY <2>1 DEF Dead
  <2>4. isInout' \subseteq ValueIds
    BY <1>3, <2>1
  <2> QED
    BY <2>1, <2>2, <2>3, <2>4
<1>6. isInput' \subseteq valueAlive /\ isOutput' \subseteq valueAlive /\ isInout' \subseteq ValueIds
  BY <1>3, <1>4, <1>5 DEF flagVars, Inv, PortsOK
<1>7. ASSUME ~ PortCallsFail PROVE FlagsExact' /\ BoundNeverErased'
  <2>1. RecomputeFlags(inputPorts', outputPorts', inoutPorts') /\ ~ RecomputeThrows(inputPorts', outputPorts', inoutPorts')
    BY <1>5, <1>7
  <2>2. ins \union outs \union both \subseteq valueAlive /\ both \intersect (ins \union outs) = {}
    BY <2>1 DEF RecomputeThrows, Dead
  <2> QED
    BY <1>2, <1>4, <2>1, <2>2 DEF FlagsExact, BoundNeverErased, BoundValues, InoutValues
<1>8. PortsOK'
  BY <1>2, <1>6, <1>7 DEF PortsOK, PortTypes, InoutNeverErased, InoutValues
<1> QED
  BY <1>1, <1>2, <1>8, OperandsKept, DefsKept, SymbolsKept DEF Inv

LEMMA PortsTyped == ASSUME Inv PROVE PortTypes(inputPorts, outputPorts, inoutPorts) /\ InoutValues(inoutPorts) \subseteq valueAlive
  BY DEF Inv, PortsOK, PortTypes, InoutNeverErased

LEMMA InputPortStep ==
  ASSUME Inv, NEW n \in PortNames, NEW v \in ValueIds \union {None}, SetInputPort(n, v) PROVE Inv'
<1>1. /\ inputPorts' = [inputPorts EXCEPT ![n] = v] /\ outputPorts' = outputPorts /\ inoutPorts' = inoutPorts
      /\ RecomputeFlags(inputPorts', outputPorts, inoutPorts) /\ PortStep
  BY DEF SetInputPort
<1>2. PortTypes(inputPorts', outputPorts', inoutPorts')
  BY <1>1, PortsTyped DEF PortTypes
<1> QED
  BY <1>1, <1>2, PortsTyped, PortsEdited

LEMMA OutputPortStep ==
  ASSUME Inv, NEW n \in PortNames, NEW v \in ValueIds \union {None}, SetOutputPort(n, v) PROVE Inv'
<1>1. /\ outputPorts' = [outputPorts EXCEPT ![n] = v] /\ inputPorts' = inputPorts /\ inoutPorts' = inoutPorts
      /\ RecomputeFlags(inputPorts, outputPorts', inoutPorts) /\ PortStep
  BY DEF SetOutputPort
<1>2. PortTypes(inputPorts', outputPorts', inoutPorts')
  BY <1>1, PortsTyped DEF PortTypes
<1> QED
  BY <1>1, <1>2, PortsTyped, PortsEdited

LEMMA InoutPortStep ==
  ASSUME Inv, NEW n \in InoutNames, NEW p \in InoutPorts \union {Unbound}, SetInoutPort(n, p),
         {p.in, p.out, p.oe} \subseteq valueAlive \union {None}
  PROVE  Inv'
<1>1. /\ inoutPorts' = [inoutPorts EXCEPT ![n] = p] /\ inputPorts' = inputPorts /\ outputPorts' = outputPorts
      /\ RecomputeFlags(inputPorts, outputPorts, inoutPorts') /\ PortStep
  BY DEF SetInoutPort
<1>2. inoutPorts \in [InoutNames -> InoutPorts \union {Unbound}]
  BY PortsTyped DEF PortTypes
<1>3. PortTypes(inputPorts', outputPorts', inoutPorts')
  BY <1>1, <1>2, PortsTyped DEF PortTypes
<1>4. \A m \in InoutNames : inoutPorts'[m] = IF m = n THEN p ELSE inoutPorts[m]
  BY <1>1, <1>2
<1>5. InoutValues(inoutPorts') \subseteq valueAlive
  BY <1>4, InoutMember, PortsTyped
<1> QED
  BY <1>1, <1>3, <1>5, PortsEdited

LEMMA AfterEntriesCases ==
  ASSUME NEW in, NEW out, NEW inout, NEW complete \in BOOLEAN, AfterEntries(in, out, inout, complete)
  PROVE  RecomputeFlags(in, out, inout) \/ (PortCallsFail /\ UNCHANGED flagVars)
  BY DEF AfterEntries

LEMMA BulkSteps ==
  ASSUME Inv, NEW complete \in BOOLEAN
  PROVE  /\ \A names \in SUBSET PortNames : BindInputPorts(names, complete) => Inv'
         /\ \A names \in SUBSET PortNames : BindOutputPorts(names, complete) => Inv'
         /\ \A names \in SUBSET InoutNames : BindInoutPorts(names, complete) => Inv'
<1>0. valueAlive \subseteq ValueIds
  BY Entries DEF Inv
<1>1. ASSUME NEW names \in SUBSET PortNames, BindInputPorts(names, complete) PROVE Inv'
  <2>1. PICK vals \in [names -> valueAlive] :
          inputPorts' = [n \in PortNames |-> IF n \in names THEN vals[n] ELSE inputPorts[n]]
    BY <1>1 DEF BindInputPorts
  <2>2. /\ AfterEntries(inputPorts', outputPorts, inoutPorts, complete)
        /\ outputPorts' = outputPorts /\ inoutPorts' = inoutPorts /\ PortStep
    BY <1>1 DEF BindInputPorts
  <2>3. PortTypes(inputPorts', outputPorts', inoutPorts')
    BY <1>0, <2>1, <2>2, PortsTyped DEF PortTypes
  <2>4. RecomputeFlags(inputPorts', outputPorts', inoutPorts') \/ (PortCallsFail /\ UNCHANGED flagVars)
    BY <2>2, AfterEntriesCases
  <2> QED
    BY <2>2, <2>3, <2>4, PortsTyped, PortsEdited
<1>2. ASSUME NEW names \in SUBSET PortNames, BindOutputPorts(names, complete) PROVE Inv'
  <2>1. PICK vals \in [names -> valueAlive] :
          outputPorts' = [n \in PortNames |-> IF n \in names THEN vals[n] ELSE outputPorts[n]]
    BY <1>2 DEF BindOutputPorts
  <2>2. /\ AfterEntries(inputPorts, outputPorts', inoutPorts, complete)
        /\ inputPorts' = inputPorts /\ inoutPorts' = inoutPorts /\ PortStep
    BY <1>2 DEF BindOutputPorts
  <2>3. PortTypes(inputPorts', outputPorts', inoutPorts')
    BY <1>0, <2>1, <2>2, PortsTyped DEF PortTypes
  <2>4. RecomputeFlags(inputPorts', outputPorts', inoutPorts') \/ (PortCallsFail /\ UNCHANGED flagVars)
    BY <2>2, AfterEntriesCases
  <2> QED
    BY <2>2, <2>3, <2>4, PortsTyped, PortsEdited
<1>3. ASSUME NEW names \in SUBSET InoutNames, BindInoutPorts(names, complete) PROVE Inv'
  <2>1. PICK ps \in [names -> [in : valueAlive, out : valueAlive, oe : valueAlive]] :
          inoutPorts' = [n \in InoutNames |-> IF n \in names THEN ps[n] ELSE inoutPorts[n]]
    BY <1>3 DEF BindInoutPorts
  <2>2. /\ AfterEntries(inputPorts, outputPorts, inoutPorts', complete)
        /\ inputPorts' = inputPorts /\ outputPorts' = outputPorts /\ PortStep
    BY <1>3 DEF BindInoutPorts
  <2>3. \A n \in names : ps[n] \in InoutPorts /\ {ps[n].in, ps[n].out, ps[n].oe} \subseteq valueAlive
    BY <1>0 DEF InoutPorts
  <2>4. inoutPorts' \in [InoutNames -> InoutPorts \union {Unbound}]
    BY <2>1, <2>3, PortsTyped DEF PortTypes
  <2>5. PortTypes(inputPorts', outputPorts', inoutPorts')
    BY <2>2, <2>4, PortsTyped DEF PortTypes
  <2>6. InoutValues(inoutPorts') \subseteq valueAlive
    BY <2>1, <2>3, InoutMember, PortsTyped
  <2>7. RecomputeFlags(inputPorts', outputPorts', inoutPorts') \/ (PortCallsFail /\ UNCHANGED flagVars)
    BY <2>2, AfterEntriesCases
  <2> QED
    BY <2>2, <2>5, <2>6, <2>7, PortsEdited
<1> QED
  BY <1>1, <1>2, <1>3

LEMMA PortSteps == ASSUME Inv, PortNext PROVE Inv'
<1> PICK complete \in BOOLEAN : InputPortCall(complete) \/ OutputPortCall(complete) \/ InoutPortCall(complete)
  BY DEF PortNext
<1>1. CASE InputPortCall(complete)
  BY <1>1, InputPortStep, BulkSteps DEF InputPortCall, BindInputPort, RemoveInputPort
<1>2. CASE OutputPortCall(complete)
  BY <1>2, OutputPortStep, BulkSteps DEF OutputPortCall, BindOutputPort, RemoveOutputPort
<1>3. CASE InoutPortCall(complete)
  <2>1. ASSUME NEW n \in InoutNames, NEW p \in InoutPorts, BindInoutPort(n, p) PROVE Inv'
    BY <2>1, InoutPortStep DEF BindInoutPort
  <2>2. ASSUME NEW n \in InoutNames, RemoveInoutPort(n) PROVE Inv'
    BY <2>2, InoutPortStep DEF RemoveInoutPort, Unbound
  <2> QED
    BY <1>3, <2>1, <2>2, BulkSteps DEF InoutPortCall
<1> QED
  BY <1>1, <1>2, <1>3

-----------------------------------------------------------------------------
LEMMA StutterKeepsInv == ASSUME Inv, UNCHANGED builderVars PROVE Inv'
<1>1. UNCHANGED entryVars /\ UNCHANGED useVars /\ UNCHANGED defVars /\ UNCHANGED symbolVars /\ UNCHANGED portVars
  BY DEF builderVars, entryVars, useVars, defVars, symbolVars, portVars
<1>2. UNCHANGED valueAlive /\ EntriesOK'
  BY <1>1 DEF entryVars, Inv, EntriesOK
<1> QED
  BY <1>1, <1>2, OperandsKept, DefsKept, SymbolsKept, PortsKept DEF Inv

\* Inv is inductive: every call of the builder keeps it, whatever calls came before.
THEOREM Invariance == Spec => []Inv
<1>1. Inv /\ [Next]_builderVars => Inv'
  BY SymbolSteps, OperandSteps, ResultSteps, EraseSteps, PortSteps, StutterKeepsInv DEF Next
<1> QED
  BY <1>1, InitInv, PTL DEF Spec

\* The state of a builder keeps its types and its arrays stay within their sizes.
THEOREM TypeCorrect == Spec => []TypeOK
  BY Invariance, InvImplies, PTL

\* Use lists never fall out of step with the operand lists, whatever operands are
\* inserted, removed, replaced or moved, and whichever operations are erased: the
\* exceptions "Value use-list out of sync" are unreachable.
THEOREM UseListsAreExact == Spec => []UseListExact
  BY Invariance, InvImplies, PTL

\* A value's defining operation is the one live operation that lists it as a result.
THEOREM DefinitionsAreExact == Spec => []DefExact
  BY Invariance, InvImplies, PTL

\* No live operation ever refers to an erased value.
THEOREM EdgesNeverDangle == Spec => []NoDanglingEdge
  BY Invariance, InvImplies, PTL

\* Looking a symbol up finds the live entry that carries it, and nothing else.
THEOREM SymbolIndexIsExact == Spec => []SymbolIndexExact
  BY Invariance, InvImplies, PTL

\* No value of an inout port is erased, even after port calls that threw.
THEOREM InoutPortsKeepTheirValues == Spec => []InoutNeverErased
  BY Invariance, InvImplies, PTL

\* While no port call throws, the flags on the values are what the port lists say.
THEOREM PortFlagsAreExact == Spec => [](~ PortCallsFail => FlagsExact)
<1>1. Inv => (~ PortCallsFail => FlagsExact)
  BY DEF Inv, PortsOK
<1> QED
  BY <1>1, Invariance, PTL

\* While no port call throws, no value that a port binds is erased.
THEOREM PortsKeepTheirValues == Spec => [](~ PortCallsFail => BoundNeverErased)
<1>1. Inv => (~ PortCallsFail => BoundNeverErased)
  BY DEF Inv, PortsOK
<1> QED
  BY <1>1, Invariance, PTL

-----------------------------------------------------------------------------
(* Numbering without gaps: the rank of a live entry.                          *)

\* An array of n entries, and those of them that are alive.
Indices(n, alive) == n \in Nat /\ alive \subseteq 1 .. n

LEMMA RankType ==
  ASSUME NEW n, NEW alive, Indices(n, alive), NEW i
  PROVE  /\ IsFiniteSet(alive) /\ Cardinality(alive) \in Nat /\ Cardinality(alive) <= n
         /\ IsFiniteSet({j \in alive : j <= i})
         /\ Rank(alive, i) \in Nat /\ Rank(alive, i) <= Cardinality(alive)
<1>0. n \in Nat /\ alive \subseteq 1 .. n
  BY DEF Indices
<1>1. IsFiniteSet(1 .. n) /\ Cardinality(1 .. n) = n
  BY <1>0, FS_Interval
<1>2. IsFiniteSet(alive) /\ Cardinality(alive) <= n
  BY <1>0, <1>1, FS_Subset
<1>3. Cardinality(alive) \in Nat
  BY <1>2, FS_CardinalityType
<1>4. {j \in alive : j <= i} \in SUBSET alive
  OBVIOUS
<1>5. IsFiniteSet({j \in alive : j <= i}) /\ Rank(alive, i) <= Cardinality(alive)
  BY <1>2, <1>4, FS_Subset DEF Rank
<1>6. Rank(alive, i) \in Nat
  BY <1>5, FS_CardinalityType DEF Rank
<1> QED
  BY <1>2, <1>3, <1>5, <1>6

\* What lies below an entry, among any integers.
LEMMA Below ==
  ASSUME NEW S, \A k \in S : k \in Int, NEW i \in S
  PROVE  /\ i \in {k \in S : k <= i}
         /\ \A j \in S : i < j => /\ {k \in S : k <= i} \subseteq {k \in S : k <= j}
                                  /\ j \notin {k \in S : k <= i}
<1>1. i \in {k \in S : k <= i}
  OBVIOUS
<1>2. ASSUME NEW j \in S, i < j
      PROVE  {k \in S : k <= i} \subseteq {k \in S : k <= j} /\ j \notin {k \in S : k <= i}
  BY <1>2
<1> QED
  BY <1>1, <1>2

LEMMA RankGrows ==
  ASSUME NEW n, NEW alive, Indices(n, alive), NEW i \in alive, NEW j \in alive, i < j
  PROVE  Rank(alive, i) < Rank(alive, j)
<1> DEFINE A == {k \in alive : k <= i}  B == {k \in alive : k <= j}
<1>1. A \subseteq B /\ j \in B /\ j \notin A
  <2>1. \A k \in alive : k \in Int
    BY DEF Indices
  <2> QED
    BY <2>1, Below
<1>2. IsFiniteSet(B)
  BY RankType
<1>3. Rank(alive, i) \in Nat /\ Rank(alive, j) \in Nat
  BY RankType
<1> HIDE DEF A, B
<1>4. Cardinality(A) <= Cardinality(B) /\ Cardinality(A) # Cardinality(B)
  BY <1>1, <1>2, FS_Subset
<1>5. Rank(alive, i) = Cardinality(A) /\ Rank(alive, j) = Cardinality(B)
  BY DEF Rank, A, B
<1> QED
  BY <1>3, <1>4, <1>5

LEMMA RankPositive ==
  ASSUME NEW n, NEW alive, Indices(n, alive), NEW i \in alive
  PROVE  Rank(alive, i) \in 1 .. Cardinality(alive)
<1> DEFINE A == {j \in alive : j <= i}
<1>1. i \in A
  <2>1. \A k \in alive : k \in Int
    BY DEF Indices
  <2> QED
    BY <2>1, Below
<1>2. IsFiniteSet(A) /\ Rank(alive, i) = Cardinality(A)
  BY RankType DEF Rank
<1> HIDE DEF A
<1>3. Rank(alive, i) # 0
  BY <1>1, <1>2, FS_EmptySet
<1>4. Rank(alive, i) \in Nat /\ Rank(alive, i) <= Cardinality(alive) /\ Cardinality(alive) \in Nat
  BY RankType
<1> QED
  BY <1>3, <1>4

\* The ranks are 1 to the number of live entries, each once.
LEMMA RankBijective ==
  ASSUME NEW n, NEW alive, Indices(n, alive)
  PROVE  /\ \A i, j \in alive : Rank(alive, i) = Rank(alive, j) => i = j
         /\ \A i \in alive : Rank(alive, i) \in Compact(alive) /\ At(alive, Rank(alive, i)) = i
         /\ \A r \in Compact(alive) : At(alive, r) \in alive /\ Rank(alive, At(alive, r)) = r
<1> DEFINE f == [i \in alive |-> Rank(alive, i)]  T == 1 .. Cardinality(alive)
<1>1. ASSUME NEW i \in alive, NEW j \in alive, Rank(alive, i) = Rank(alive, j) PROVE i = j
  <2>1. i \in Int /\ j \in Int
    BY DEF Indices
  <2>2. Rank(alive, i) \in Nat
    BY RankType
  <2>3. ~ (i < j) /\ ~ (j < i)
    BY <1>1, <2>2, RankGrows
  <2> QED
    BY <2>1, <2>3
<1>2. \A i \in alive : Rank(alive, i) \in T
  BY RankPositive
<1>3. f \in Injection(alive, T)
  BY <1>1, <1>2 DEF Injection, IsInjective
<1>4. IsFiniteSet(alive) /\ Cardinality(alive) \in Nat
  BY RankType
<1>5. IsFiniteSet(T) /\ Cardinality(T) = Cardinality(alive)
  BY <1>4, FS_Interval
<1>6. f \in Surjection(alive, T)
  BY <1>3, <1>4, <1>5, FS_Injection
<1>7. \A r \in T : \E i \in alive : f[i] = r
  BY <1>6 DEF Surjection
<1>8. \A r \in Compact(alive) : \E i \in alive : Rank(alive, i) = r
  BY <1>7 DEF Compact
<1>9. \A r \in Compact(alive) : At(alive, r) \in alive /\ Rank(alive, At(alive, r)) = r
  BY <1>8 DEF At
<1>10. \A i \in alive : Rank(alive, i) \in Compact(alive)
  BY <1>2 DEF Compact
<1> QED
  BY <1>1, <1>9, <1>10

\* An entry above all others is the last one.
LEMMA Above ==
  ASSUME NEW S, NEW m \in Int, \A k \in S : k \in Int /\ k < m
  PROVE  /\ m \notin S
         /\ {k \in S \union {m} : k <= m} = S \union {m}
         /\ \A i \in S : {k \in S \union {m} : k <= i} = {k \in S : k <= i}
<1>1. m \notin S
  OBVIOUS
<1>2. {k \in S \union {m} : k <= m} = S \union {m}
  OBVIOUS
<1>3. ASSUME NEW i \in S PROVE {k \in S \union {m} : k <= i} = {k \in S : k <= i}
  OBVIOUS
<1> QED
  BY <1>1, <1>2, <1>3

Extended(f, c, m) == [r \in 1 .. c + 1 |-> IF r <= c THEN f[r] ELSE m]

LEMMA AppendedFunction ==
  ASSUME NEW c \in Nat, NEW S, NEW f \in [1 .. c -> S], NEW m
  PROVE  Append(f, m) = Extended(f, c, m)
<1> DEFINE T == S \union {m}
<1>1. f \in Seq(T) /\ Len(f) = c /\ m \in T
  OBVIOUS
<1>2. /\ Append(f, m) \in Seq(T) /\ Len(Append(f, m)) = c + 1
      /\ \A i \in 1 .. c : Append(f, m)[i] = f[i]
      /\ Append(f, m)[c + 1] = m
  BY <1>1, AppendProperties
<1>3. Append(f, m) \in [1 .. c + 1 -> T]
  BY <1>2, LenProperties
<1>4. ASSUME NEW r \in 1 .. c + 1 PROVE Append(f, m)[r] = Extended(f, c, m)[r]
  <2>1. CASE r = c + 1
    BY <1>2, <2>1 DEF Extended
  <2>2. CASE r # c + 1
    <3>1. r \in 1 .. c /\ r <= c
      BY <2>2
    <3> QED
      BY <1>2, <3>1 DEF Extended
  <2> QED
    BY <2>1, <2>2
<1>5. Extended(f, c, m) = [r \in 1 .. c + 1 |-> Extended(f, c, m)[r]]
  BY DEF Extended
<1> QED
  BY <1>3, <1>4, <1>5

\* The list of the live entries gets a new entry, above all, at its end.
LEMMA AscendingAppend ==
  ASSUME NEW n, NEW alive, Indices(n, alive)
  PROVE  Ascending(alive \union {n + 1}) = Append(Ascending(alive), n + 1)
<1> DEFINE m == n + 1  more == alive \union {m}  c == Cardinality(alive)
<1>0. m \in Nat /\ \A k \in alive : k \in Int /\ k < m
  BY DEF Indices
<1>a. Indices(m, more)
  BY DEF Indices
<1>b. Rank(more, m) = Cardinality(more) /\ \A i \in alive : Rank(more, i) = Rank(alive, i)
  <2>1. m \in Int
    BY <1>0
  <2>2. /\ {k \in more : k <= m} = more
        /\ \A i \in alive : {k \in more : k <= i} = {k \in alive : k <= i}
    BY <1>0, <2>1, Above
  <2> HIDE DEF more, m
  <2> QED
    BY <2>2 DEF Rank
<1>c. m \notin alive
  BY <1>0, Above
<1>d. m \in more /\ alive \subseteq more
  OBVIOUS
<1>1. c \in Nat /\ Cardinality(more) = c + 1
  BY <1>c, RankType, FS_AddElement
<1> HIDE DEF more, c, m
<1>4. ASSUME NEW r \in 1 .. c PROVE At(more, r) = At(alive, r)
  <2>1. At(alive, r) \in alive /\ Rank(alive, At(alive, r)) = r
    BY RankBijective DEF Compact, c
  <2>2. At(more, Rank(more, At(alive, r))) = At(alive, r)
    BY <1>0, <1>a, <1>d, <2>1, RankBijective
  <2> QED
    BY <2>1, <2>2, <1>b
<1>5. At(more, c + 1) = m
  BY <1>0, <1>1, <1>a, <1>b, <1>d, RankBijective
<1>6. Compact(more) = 1 .. c + 1 /\ Compact(alive) = 1 .. c
  BY <1>1 DEF Compact, c
<1>7. Ascending(alive) = [r \in 1 .. c |-> At(alive, r)]
  BY <1>6 DEF Ascending
<1>8. Ascending(alive) \in [1 .. c -> alive]
  <2>1. \A r \in 1 .. c : At(alive, r) \in alive
    BY RankBijective DEF Compact, c
  <2> QED
    BY <2>1, <1>7
<1>9. Append(Ascending(alive), m) = [r \in 1 .. c + 1 |-> IF r <= c THEN At(alive, r) ELSE m]
  <2>1. Append(Ascending(alive), m) = Extended(Ascending(alive), c, m)
    BY <1>1, <1>8, AppendedFunction
  <2> QED
    BY <2>1, <1>1, <1>7 DEF Extended
<1>10. Ascending(more) = [r \in 1 .. c + 1 |-> At(more, r)]
  BY <1>6 DEF Ascending
<1>11. \A r \in 1 .. c + 1 : At(more, r) = IF r <= c THEN At(alive, r) ELSE m
  BY <1>1, <1>4, <1>5
<1>12. Ascending(more) = Append(Ascending(alive), m)
  BY <1>9, <1>10, <1>11
<1> QED
  BY <1>12 DEF more, m

-----------------------------------------------------------------------------
(* Freezing: live entries move to the indices 1, 2, ... in their order.       *)

NewV(v) == Moved(valueAlive, v)
NewO(o) == Moved(opAlive, o)
OldV(v) == At(valueAlive, v)
OldO(o) == At(opAlive, o)
MovedList(s) == [k \in DOMAIN s |-> NewV(s[k])]

\* Moving is a bijection between the entries alive and the indices without gaps.
Renumbers(alive, n) ==
  /\ \A i \in alive : Moved(alive, i) \in Compact(alive) /\ At(alive, Moved(alive, i)) = i
  /\ \A r \in Compact(alive) : At(alive, r) \in alive /\ Moved(alive, At(alive, r)) = r
  /\ \A i : i \notin alive => Moved(alive, i) = None
  /\ Compact(alive) \subseteq 1 .. n
  /\ Compact(alive) = 1 .. Cardinality(alive) /\ Cardinality(alive) \in 0 .. n

LEMMA MovedRenumbers ==
  ASSUME NEW n, NEW alive, Indices(n, alive)
  PROVE  Renumbers(alive, n)
<1>1. \A i \in alive : Moved(alive, i) = Rank(alive, i)
  BY DEF Moved
<1>2. \A i : i \notin alive => Moved(alive, i) = None
  BY DEF Moved
<1>3. \A i \in alive : Moved(alive, i) \in Compact(alive) /\ At(alive, Moved(alive, i)) = i
  BY <1>1, RankBijective
<1>4. \A r \in Compact(alive) : At(alive, r) \in alive /\ Moved(alive, At(alive, r)) = r
  BY <1>1, RankBijective
<1>5. Cardinality(alive) \in Nat /\ Cardinality(alive) <= n /\ n \in Nat
  BY RankType DEF Indices
<1>6. Compact(alive) \subseteq 1 .. n /\ Cardinality(alive) \in 0 .. n
  BY <1>5 DEF Compact
<1> QED
  BY <1>2, <1>3, <1>4, <1>6 DEF Renumbers, Compact

LEMMA LiveEntries ==
  ASSUME EntriesOK
  PROVE  /\ Indices(valueCount, valueAlive) /\ Indices(opCount, opAlive)
         /\ Renumbers(valueAlive, valueCount) /\ Renumbers(opAlive, opCount)
         /\ Compact(valueAlive) \subseteq ValueIds /\ Compact(opAlive) \subseteq OpIds
<1>1. Indices(valueCount, valueAlive) /\ Indices(opCount, opAlive)
  BY DEF EntriesOK, Indices
<1>2. Renumbers(valueAlive, valueCount) /\ Renumbers(opAlive, opCount)
  BY <1>1, MovedRenumbers
<1>3. 1 .. valueCount \subseteq ValueIds /\ 1 .. opCount \subseteq OpIds
  <2>1. valueCount \in 0 .. MaxValues /\ opCount \in 0 .. MaxOps
    BY DEF EntriesOK
  <2>2. 1 .. valueCount \subseteq 1 .. MaxValues
    BY <2>1
  <2>3. 1 .. opCount \subseteq 1 .. MaxOps
    BY <2>1
  <2> QED
    BY <2>2, <2>3 DEF ValueIds, OpIds
<1> QED
  BY <1>1, <1>2, <1>3 DEF Renumbers

LEMMA Renumbering ==
  ASSUME EntriesOK
  PROVE  /\ \A v \in valueAlive : NewV(v) \in Compact(valueAlive) /\ OldV(NewV(v)) = v
         /\ \A v \in Compact(valueAlive) : OldV(v) \in valueAlive /\ NewV(OldV(v)) = v
         /\ \A v : v \notin valueAlive => NewV(v) = None
         /\ \A o \in opAlive : NewO(o) \in Compact(opAlive) /\ OldO(NewO(o)) = o
         /\ \A o \in Compact(opAlive) : OldO(o) \in opAlive /\ NewO(OldO(o)) = o
         /\ \A o : o \notin opAlive => NewO(o) = None
         /\ Compact(valueAlive) \subseteq ValueIds /\ Compact(opAlive) \subseteq OpIds
         /\ valueAlive \subseteq ValueIds /\ opAlive \subseteq OpIds
  BY LiveEntries, Entries DEF Renumbers, NewV, NewO, OldV, OldO

LEMMA EmptyMoved == MovedList(<<>>) = <<>>
  BY DEF MovedList

\* What freeze() leaves behind, in terms of the old and the new indices.
LEMMA FreezeEntries ==
  ASSUME Freeze
  PROVE  /\ ~ frozen /\ frozen' = TRUE /\ ~ FreezeThrows /\ InvalidateCaches
         /\ valueCount' = Cardinality(valueAlive) /\ valueAlive' = Compact(valueAlive)
         /\ opCount' = Cardinality(opAlive) /\ opAlive' = Compact(opAlive)
  BY DEF Freeze

LEMMA FreezeEdges ==
  ASSUME Freeze
  PROVE  /\ operands' = [o \in OpIds |-> IF o \in opAlive' THEN MovedList(operands[OldO(o)]) ELSE <<>>]
         /\ results' = [o \in OpIds |-> IF o \in opAlive' THEN MovedList(results[OldO(o)]) ELSE <<>>]
         /\ valueUsers' = UsesOf(operands', opAlive')
         /\ definingOp' = [v \in ValueIds |-> IF v \in valueAlive' THEN NewO(definingOp[OldV(v)]) ELSE NewO(None)]
<1> DEFINE OfOp(f) == [o \in OpIds |-> IF o \in Compact(opAlive) THEN f[At(opAlive, o)] ELSE <<>>]
           OfValue(f) == [v \in ValueIds |-> IF v \in Compact(valueAlive) THEN f[At(valueAlive, v)] ELSE None]
           MovedSeq(s) == [k \in DOMAIN s |-> Moved(valueAlive, s[k])]
           Rows(f) == [o \in OpIds |-> MovedSeq(OfOp(f)[o])]
<1>1. operands' = Rows(operands) /\ results' = Rows(results)
  BY DEF Freeze
<1>2. valueUsers' = UsesOf(Rows(operands), Compact(opAlive))
      /\ definingOp' = [v \in ValueIds |-> Moved(opAlive, OfValue(definingOp)[v])]
  BY DEF Freeze
<1>3. ASSUME NEW f
      PROVE  Rows(f) = [o \in OpIds |-> IF o \in Compact(opAlive) THEN MovedList(f[OldO(o)]) ELSE <<>>]
  <2>1. ASSUME NEW o \in OpIds
        PROVE  MovedSeq(OfOp(f)[o]) = IF o \in Compact(opAlive) THEN MovedList(f[OldO(o)]) ELSE <<>>
    <3>1. OfOp(f)[o] = IF o \in Compact(opAlive) THEN f[OldO(o)] ELSE <<>>
      BY DEF OldO
    <3>2. \A s : MovedSeq(s) = MovedList(s)
      BY DEF MovedList, NewV
    <3> QED
      BY <3>1, <3>2, EmptyMoved
  <2> QED
    BY <2>1
<1>4. \A v \in ValueIds : Moved(opAlive, OfValue(definingOp)[v])
        = IF v \in Compact(valueAlive) THEN NewO(definingOp[OldV(v)]) ELSE NewO(None)
  BY DEF NewO, OldV
<1> HIDE DEF Rows
<1>5. valueAlive' = Compact(valueAlive) /\ opAlive' = Compact(opAlive)
  BY FreezeEntries
<1> QED
  BY <1>1, <1>2, <1>3, <1>4, <1>5

FoundAt(s) ==
  IF \E v \in valueAlive : valueSymbol[v] = s
  THEN <<"value", NewV(CHOOSE v \in valueAlive : valueSymbol[v] = s)>>
  ELSE IF \E o \in opAlive : opSymbol[o] = s
  THEN <<"op", NewO(CHOOSE o \in opAlive : opSymbol[o] = s)>> ELSE NoBinding

LEMMA FreezeSymbols ==
  ASSUME Freeze
  PROVE  /\ valueSymbol' = [v \in ValueIds |-> IF v \in valueAlive' THEN valueSymbol[OldV(v)] ELSE NoSym]
         /\ opSymbol' = [o \in OpIds |-> IF o \in opAlive' THEN opSymbol[OldO(o)] ELSE NoSym]
         /\ symbolIndex' = [s \in Syms |-> FoundAt(s)]
  BY FreezeEntries DEF Freeze, NewV, NewO, OldV, OldO, FoundAt

MovedInout(p) == [in |-> NewV(p.in), out |-> NewV(p.out), oe |-> NewV(p.oe)]

LEMMA FreezePorts ==
  ASSUME Freeze
  PROVE  /\ inputPorts' = [n \in PortNames |-> NewV(inputPorts[n])]
         /\ outputPorts' = [n \in PortNames |-> NewV(outputPorts[n])]
         /\ inoutPorts' = [n \in InoutNames |-> MovedInout(inoutPorts[n])]
         /\ isInput' = {NewV(v) : v \in isInput \intersect valueAlive}
         /\ isOutput' = {NewV(v) : v \in isOutput \intersect valueAlive}
         /\ isInout' = {NewV(v) : v \in isInout \intersect valueAlive}
  BY DEF Freeze, NewV, MovedInout, MovedPort

LEMMA MovedListType ==
  ASSUME EntriesOK, NEW s \in Seq(ValueIds), \A k \in DOMAIN s : s[k] \in valueAlive
  PROVE  /\ MovedList(s) \in Seq(ValueIds) /\ Len(MovedList(s)) = Len(s)
         /\ DOMAIN MovedList(s) = DOMAIN s
         /\ \A k \in DOMAIN s : /\ MovedList(s)[k] = NewV(s[k])
                                /\ MovedList(s)[k] \in Compact(valueAlive)
<1>1. Len(s) \in Nat /\ DOMAIN s = 1 .. Len(s)
  BY LenProperties
<1>2. \A k \in DOMAIN s : NewV(s[k]) \in ValueIds /\ NewV(s[k]) \in Compact(valueAlive)
  BY Renumbering
<1>3. MovedList(s) = [k \in 1 .. Len(s) |-> NewV(s[k])]
  BY <1>1 DEF MovedList
<1>4. MovedList(s) \in [1 .. Len(s) -> ValueIds]
  BY <1>1, <1>2, <1>3
<1>5. MovedList(s) \in Seq(ValueIds) /\ Len(MovedList(s)) = Len(s)
  BY <1>1, <1>4
<1> QED
  BY <1>1, <1>2, <1>3, <1>5

\* Both lists of the edges move in the same way.
LEMMA MovedEdges ==
  ASSUME EntriesOK, NEW edges \in Operands,
         \A o \in opAlive : \A k \in DOMAIN edges[o] : edges[o][k] \in valueAlive,
         \A o \in OpIds : Len(edges[o]) <= MaxArity,
         NEW moved, moved = [o \in OpIds |-> IF o \in Compact(opAlive) THEN MovedList(edges[OldO(o)]) ELSE <<>>]
  PROVE  /\ moved \in Operands
         /\ \A o \in OpIds : Len(moved[o]) <= MaxArity /\ (o \notin Compact(opAlive) => moved[o] = <<>>)
         /\ \A o \in Compact(opAlive) :
              /\ DOMAIN moved[o] = DOMAIN edges[OldO(o)]
              /\ \A k \in DOMAIN moved[o] : /\ moved[o][k] = NewV(edges[OldO(o)][k])
                                            /\ moved[o][k] \in Compact(valueAlive)
<1>1. ASSUME NEW o \in Compact(opAlive)
      PROVE  /\ moved[o] = MovedList(edges[OldO(o)]) /\ OldO(o) \in opAlive /\ edges[OldO(o)] \in Seq(ValueIds)
             /\ MovedList(edges[OldO(o)]) \in Seq(ValueIds) /\ Len(MovedList(edges[OldO(o)])) <= MaxArity
             /\ DOMAIN MovedList(edges[OldO(o)]) = DOMAIN edges[OldO(o)]
             /\ \A k \in DOMAIN edges[OldO(o)] :
                  /\ MovedList(edges[OldO(o)])[k] = NewV(edges[OldO(o)][k])
                  /\ MovedList(edges[OldO(o)])[k] \in Compact(valueAlive)
  <2>1. o \in OpIds /\ OldO(o) \in opAlive /\ OldO(o) \in OpIds
    BY Renumbering
  <2>2. edges[OldO(o)] \in Seq(ValueIds) /\ Len(edges[OldO(o)]) <= MaxArity
    BY <2>1 DEF Operands
  <2>3. \A k \in DOMAIN edges[OldO(o)] : edges[OldO(o)][k] \in valueAlive
    BY <2>1
  <2> QED
    BY <2>1, <2>2, <2>3, MovedListType
<1>2. \A o \in OpIds : o \notin Compact(opAlive) => moved[o] = <<>>
  OBVIOUS
<1>3. \A o \in OpIds : moved[o] \in Seq(ValueIds) /\ Len(moved[o]) <= MaxArity
  <2> TAKE o \in OpIds
  <2>1. CASE o \in Compact(opAlive)
    BY <1>1, <2>1
  <2>2. CASE o \notin Compact(opAlive)
    BY <1>2, <2>2
  <2> QED
    BY <2>1, <2>2
<1>4. moved \in Operands
  BY <1>3 DEF Operands
<1> QED
  BY <1>1, <1>2, <1>3, <1>4

LEMMA FreezeKeepsEntries ==
  ASSUME EntriesOK, Freeze
  PROVE  EntriesOK' /\ \A o \in OpIds : o > opCount' => o \notin Compact(opAlive)
<1>1. Renumbers(valueAlive, valueCount) /\ Renumbers(opAlive, opCount)
  BY LiveEntries
<1>2. /\ Compact(valueAlive) = 1 .. Cardinality(valueAlive) /\ Cardinality(valueAlive) \in 0 .. valueCount
      /\ Compact(opAlive) = 1 .. Cardinality(opAlive) /\ Cardinality(opAlive) \in 0 .. opCount
  BY <1>1 DEF Renumbers
<1>3. valueCount \in 0 .. MaxValues /\ opCount \in 0 .. MaxOps
  BY DEF EntriesOK
<1>4. valueCount' \in 0 .. MaxValues /\ opCount' \in 0 .. MaxOps
  BY <1>2, <1>3, FreezeEntries
<1>5. valueAlive' = 1 .. valueCount' /\ opAlive' = 1 .. opCount'
  BY <1>2, FreezeEntries
<1>6. \A o \in OpIds : o > opCount' => o \notin 1 .. opCount'
  <2>1. opCount' \in Int /\ \A o \in OpIds : o \in Int
    BY <1>4 DEF OpIds
  <2> QED
    BY <2>1
<1>7. 1 .. opCount' = Compact(opAlive)
  BY <1>5, FreezeEntries
<1> QED
  BY <1>4, <1>5, <1>6, <1>7 DEF EntriesOK

LEMMA FreezeKeepsUses == ASSUME EntriesOK, UsesOK, Freeze PROVE UsesOK'
<1>1. /\ operands \in Operands /\ \A o \in OpIds : Len(operands[o]) <= MaxArity
      /\ \A o \in opAlive : \A k \in DOMAIN operands[o] : operands[o][k] \in valueAlive
  BY DEF UsesOK
<1>2. operands' = [o \in OpIds |-> IF o \in Compact(opAlive) THEN MovedList(operands[OldO(o)]) ELSE <<>>]
  BY FreezeEdges, FreezeEntries
<1>3. /\ operands' \in Operands
      /\ \A o \in OpIds : Len(operands'[o]) <= MaxArity /\ (o \notin Compact(opAlive) => operands'[o] = <<>>)
      /\ \A o \in Compact(opAlive) : \A k \in DOMAIN operands'[o] : operands'[o][k] \in Compact(valueAlive)
  BY <1>1, <1>2, MovedEdges
<1>4. \A o \in OpIds : o > opCount' => o \notin Compact(opAlive)
  BY FreezeKeepsEntries
<1> QED
  BY <1>3, <1>4, FreezeEdges, FreezeEntries DEF UsesOK

LEMMA FreezeKeepsDefs == ASSUME EntriesOK, DefsOK, Freeze PROVE DefsOK'
<1>1. /\ results \in Operands /\ \A o \in OpIds : Len(results[o]) <= MaxArity
      /\ \A o \in opAlive : \A k \in DOMAIN results[o] : results[o][k] \in valueAlive
  BY DEF DefsOK
<1>2. results' = [o \in OpIds |-> IF o \in Compact(opAlive) THEN MovedList(results[OldO(o)]) ELSE <<>>]
  BY FreezeEdges, FreezeEntries
<1>3. /\ results' \in Operands
      /\ \A o \in OpIds : Len(results'[o]) <= MaxArity /\ (o \notin Compact(opAlive) => results'[o] = <<>>)
      /\ \A o \in Compact(opAlive) :
           /\ DOMAIN results'[o] = DOMAIN results[OldO(o)]
           /\ \A k \in DOMAIN results'[o] : /\ results'[o][k] = NewV(results[OldO(o)][k])
                                            /\ results'[o][k] \in Compact(valueAlive)
  BY <1>1, <1>2, MovedEdges
<1>4. \A o \in OpIds : o > opCount' => o \notin Compact(opAlive)
  BY FreezeKeepsEntries
<1>5. /\ \A v \in ValueIds : v \notin valueAlive' => definingOp'[v] = None
      /\ \A v \in ValueIds : v \in valueAlive' => definingOp'[v] = NewO(definingOp[OldV(v)])
  <2>1. NewO(None) = None
    BY Renumbering, NoneIsNoId
  <2> QED
    BY <2>1, FreezeEdges
<1>6. \A x : NewO(x) \in OpIds \union {None}
  <2> TAKE x
  <2>1. CASE x \in opAlive
    BY <2>1, Renumbering
  <2>2. CASE x \notin opAlive
    BY <2>2, Renumbering
  <2> QED
    BY <2>1, <2>2
<1>7. definingOp' \in [ValueIds -> OpIds \union {None}]
  BY <1>5, <1>6, FreezeEdges
<1>8. ASSUME NEW v \in ValueIds, NEW o \in OpIds
      PROVE  definingOp'[v] = o <=> o \in opAlive' /\ \E k \in DOMAIN results'[o] : results'[o][k] = v
  <2>0. o # None /\ valueAlive' = Compact(valueAlive) /\ opAlive' = Compact(opAlive)
    BY NoneIsNoId, FreezeEntries
  <2>1. CASE v \notin valueAlive'
    BY <1>3, <1>5, <2>0, <2>1
  <2>2. CASE v \in valueAlive'
    <3> DEFINE w == OldV(v)
    <3>1. w \in valueAlive /\ w \in ValueIds /\ NewV(w) = v
      BY <2>0, <2>2, Renumbering
    <3> HIDE DEF w
    <3>2. definingOp'[v] = NewO(definingOp[w])
      BY <1>5, <2>2 DEF w
    <3>3. ASSUME definingOp'[v] = o
          PROVE  o \in opAlive' /\ \E k \in DOMAIN results'[o] : results'[o][k] = v
      <4> DEFINE d == definingOp[w]
      <4>1. d \in opAlive /\ d \in OpIds
        BY <2>0, <3>2, <3>3, Renumbering
      <4>2. o \in Compact(opAlive) /\ OldO(o) = d
        BY <3>2, <3>3, <4>1, Renumbering
      <4>3. PICK k \in DOMAIN results[d] : results[d][k] = w
        BY <3>1, <4>1 DEF DefsOK, DefExact
      <4> HIDE DEF d
      <4> QED
        BY <1>3, <2>0, <3>1, <4>2, <4>3
    <3>4. ASSUME o \in opAlive', NEW k \in DOMAIN results'[o], results'[o][k] = v
          PROVE  definingOp'[v] = o
      <4> DEFINE d == OldO(o)
      <4>1. d \in opAlive /\ d \in OpIds /\ NewO(d) = o
        BY <2>0, <3>4, Renumbering
      <4>2. k \in DOMAIN results[d] /\ v = NewV(results[d][k])
        BY <1>3, <2>0, <3>4
      <4>3. results[d][k] \in valueAlive
        BY <1>1, <4>1, <4>2
      <4>4. results[d][k] = w
        BY <4>2, <4>3, Renumbering DEF w
      <4>5. definingOp[w] = d
        BY <3>1, <4>1, <4>2, <4>4 DEF DefsOK, DefExact
      <4> QED
        BY <3>2, <4>1, <4>5
    <3> QED
      BY <3>3, <3>4
  <2> QED
    BY <2>1, <2>2
<1>9. ASSUME NEW o \in opAlive', NEW i \in DOMAIN results'[o], NEW k \in DOMAIN results'[o],
             results'[o][i] = results'[o][k]
      PROVE  i = k
  <2> DEFINE d == OldO(o)
  <2>1. o \in Compact(opAlive) /\ d \in opAlive
    BY FreezeEntries, Renumbering
  <2>2. /\ i \in DOMAIN results[d] /\ k \in DOMAIN results[d]
        /\ results'[o][i] = NewV(results[d][i]) /\ results'[o][k] = NewV(results[d][k])
    BY <1>3, <2>1
  <2>3. results[d][i] \in valueAlive /\ results[d][k] \in valueAlive
    BY <1>1, <2>1, <2>2
  <2>4. results[d][i] = results[d][k]
    BY <1>9, <2>2, <2>3, Renumbering
  <2> QED
    BY <2>1, <2>2, <2>4 DEF DefsOK, DefExact
<1>10. DefExact'
  BY <1>8, <1>9 DEF DefExact
<1> QED
  BY <1>3, <1>4, <1>7, <1>10, FreezeEntries DEF DefsOK

LEMMA FreezeKeepsSymbols == ASSUME EntriesOK, SymbolsOK, Freeze PROVE SymbolsOK'
<1>1. /\ valueSymbol \in [ValueIds -> Syms \union {NoSym}] /\ opSymbol \in [OpIds -> Syms \union {NoSym}]
      /\ \A v \in valueAlive : valueSymbol[v] \in Syms
      /\ \A o \in opAlive : opSymbol[o] \in Syms
  BY DEF SymbolsOK, SymbolIndexExact
<1>2. /\ \A v \in valueAlive' : OldV(v) \in valueAlive /\ NewV(OldV(v)) = v /\ v \in ValueIds
                                /\ valueSymbol'[v] = valueSymbol[OldV(v)]
      /\ \A o \in opAlive' : OldO(o) \in opAlive /\ NewO(OldO(o)) = o /\ o \in OpIds
                             /\ opSymbol'[o] = opSymbol[OldO(o)]
  BY FreezeEntries, FreezeSymbols, Renumbering
<1>3. valueSymbol' \in [ValueIds -> Syms \union {NoSym}] /\ opSymbol' \in [OpIds -> Syms \union {NoSym}]
  <2>1. \A v \in ValueIds : (IF v \in valueAlive' THEN valueSymbol[OldV(v)] ELSE NoSym) \in Syms \union {NoSym}
    BY <1>1, <1>2
  <2>2. \A o \in OpIds : (IF o \in opAlive' THEN opSymbol[OldO(o)] ELSE NoSym) \in Syms \union {NoSym}
    BY <1>1, <1>2
  <2> QED
    BY <2>1, <2>2, FreezeSymbols
<1>4. (\A v \in valueAlive' : valueSymbol'[v] \in Syms) /\ \A o \in opAlive' : opSymbol'[o] \in Syms
  BY <1>1, <1>2
<1>5. ASSUME NEW s \in Syms
      PROVE  /\ FoundAt(s) \in Bindings
             /\ SymbolNames(FoundAt(s), s, valueAlive', opAlive', valueSymbol', opSymbol')
  <2>1. SymbolNames(symbolIndex[s], s, valueAlive, opAlive, valueSymbol, opSymbol)
    BY DEF SymbolNames, SymbolsOK, SymbolIndexExact
  <2>2. CASE \E v \in valueAlive : valueSymbol[v] = s
    <3> DEFINE v == CHOOSE w \in valueAlive : valueSymbol[w] = s
    <3>1. v \in valueAlive /\ valueSymbol[v] = s /\ FoundAt(s) = <<"value", NewV(v)>>
      BY <2>2 DEF FoundAt
    <3> HIDE DEF v
    <3>2. v \in ValueIds /\ NewV(v) \in valueAlive' /\ NewV(v) \in ValueIds /\ OldV(NewV(v)) = v
      BY <3>1, Renumbering, FreezeEntries
    <3>3. symbolIndex[s] = <<"value", v>>
      BY <2>1, <3>1, <3>2 DEF SymbolNames
    <3>4. /\ \A w \in ValueIds : w \in valueAlive /\ valueSymbol[w] = s <=> w = v
          /\ \A o \in OpIds : ~ (o \in opAlive /\ opSymbol[o] = s)
      BY <2>1, <3>3, BindingsDiffer DEF SymbolNames
    <3>5. \A w \in ValueIds : w \in valueAlive' /\ valueSymbol'[w] = s <=> w = NewV(v)
      <4> TAKE w \in ValueIds
      <4>1. ASSUME w \in valueAlive', valueSymbol'[w] = s PROVE w = NewV(v)
        <5>1. OldV(w) \in valueAlive /\ OldV(w) \in ValueIds /\ valueSymbol[OldV(w)] = s /\ NewV(OldV(w)) = w
          BY <1>2, <4>1, Entries
        <5> QED
          BY <3>4, <5>1
      <4>2. ASSUME w = NewV(v) PROVE w \in valueAlive' /\ valueSymbol'[w] = s
        BY <1>2, <3>1, <3>2, <4>2
      <4> QED
        BY <4>1, <4>2
    <3>6. \A o \in OpIds : ~ (o \in opAlive' /\ opSymbol'[o] = s)
      BY <1>2, <3>4, Entries
    <3>7. FoundAt(s) \in Bindings
      BY <3>1, <3>2 DEF Bindings
    <3> QED
      BY <3>1, <3>5, <3>6, <3>7, BindingsDiffer DEF SymbolNames
  <2>3. CASE (~ \E v \in valueAlive : valueSymbol[v] = s) /\ \E o \in opAlive : opSymbol[o] = s
    <3> DEFINE o == CHOOSE p \in opAlive : opSymbol[p] = s
    <3>1. o \in opAlive /\ opSymbol[o] = s /\ FoundAt(s) = <<"op", NewO(o)>>
      BY <2>3 DEF FoundAt
    <3> HIDE DEF o
    <3>2. o \in OpIds /\ NewO(o) \in opAlive' /\ NewO(o) \in OpIds /\ OldO(NewO(o)) = o
      BY <3>1, Renumbering, FreezeEntries
    <3>3. symbolIndex[s] = <<"op", o>>
      BY <2>1, <3>1, <3>2 DEF SymbolNames
    <3>4. \A p \in OpIds : p \in opAlive /\ opSymbol[p] = s <=> p = o
      BY <2>1, <3>3, BindingsDiffer DEF SymbolNames
    <3>5. \A p \in OpIds : p \in opAlive' /\ opSymbol'[p] = s <=> p = NewO(o)
      <4> TAKE p \in OpIds
      <4>1. ASSUME p \in opAlive', opSymbol'[p] = s PROVE p = NewO(o)
        <5>1. OldO(p) \in opAlive /\ OldO(p) \in OpIds /\ opSymbol[OldO(p)] = s /\ NewO(OldO(p)) = p
          BY <1>2, <4>1, Entries
        <5> QED
          BY <3>4, <5>1
      <4>2. ASSUME p = NewO(o) PROVE p \in opAlive' /\ opSymbol'[p] = s
        BY <1>2, <3>1, <3>2, <4>2
      <4> QED
        BY <4>1, <4>2
    <3>6. \A w \in ValueIds : ~ (w \in valueAlive' /\ valueSymbol'[w] = s)
      BY <1>2, <2>3
    <3>7. FoundAt(s) \in Bindings
      BY <3>1, <3>2 DEF Bindings
    <3> QED
      BY <3>1, <3>5, <3>6, <3>7, BindingsDiffer DEF SymbolNames
  <2>4. CASE (~ \E v \in valueAlive : valueSymbol[v] = s) /\ ~ \E o \in opAlive : opSymbol[o] = s
    <3>1. FoundAt(s) = NoBinding
      BY <2>4 DEF FoundAt
    <3>2. /\ \A w \in ValueIds : ~ (w \in valueAlive' /\ valueSymbol'[w] = s)
          /\ \A o \in OpIds : ~ (o \in opAlive' /\ opSymbol'[o] = s)
      BY <1>2, <2>4
    <3>3. NoBinding \in Bindings
      BY DEF Bindings
    <3> QED
      BY <3>1, <3>2, <3>3, BindingsDiffer, NoneIsNoId DEF SymbolNames
  <2> QED
    BY <2>2, <2>3, <2>4
<1>6. symbolIndex' \in [Syms -> Bindings] /\ \A s \in Syms : symbolIndex'[s] = FoundAt(s)
  BY <1>5, FreezeSymbols
<1>7. SymbolIndexExact'
  BY <1>4, <1>5, <1>6 DEF SymbolNames, SymbolIndexExact
<1> QED
  BY <1>3, <1>6, <1>7 DEF SymbolsOK

LEMMA FreezeKeepsPorts == ASSUME EntriesOK, PortsOK, Freeze PROVE PortsOK'
<1>1. \A x : NewV(x) \in Compact(valueAlive) \union {None} /\ (NewV(x) # None => x \in valueAlive)
  <2> TAKE x
  <2>1. CASE x \in valueAlive
    BY <2>1, Renumbering
  <2>2. CASE x \notin valueAlive
    BY <2>2, Renumbering
  <2> QED
    BY <2>1, <2>2
<1>2. Compact(valueAlive) \subseteq ValueIds /\ valueAlive' = Compact(valueAlive)
      /\ None \notin valueAlive /\ None \notin Compact(valueAlive) /\ NewV(None) = None
  BY FreezeEntries, Renumbering, NoneIsNoId
<1>3. /\ inputPorts' \in [PortNames -> ValueIds \union {None}]
      /\ outputPorts' \in [PortNames -> ValueIds \union {None}]
  BY <1>1, <1>2, FreezePorts
<1>4. ASSUME NEW n \in InoutNames
      PROVE  inoutPorts'[n] = MovedInout(inoutPorts[n]) /\ inoutPorts'[n] \in InoutPorts \union {Unbound}
  <2>1. inoutPorts'[n] = MovedInout(inoutPorts[n])
    BY FreezePorts
  <2>2. inoutPorts[n] \in InoutPorts \union {Unbound}
    BY DEF PortsOK
  <2>3. CASE inoutPorts[n] = Unbound
    BY <1>2, <2>1, <2>3 DEF MovedInout, Unbound
  <2>4. CASE inoutPorts[n] \in InoutPorts
    <3> DEFINE p == inoutPorts[n]
    <3>1. p.in \in ValueIds /\ p.out \in ValueIds /\ p.oe \in ValueIds
      BY <2>4 DEF InoutPorts
    <3>2. p.in \in valueAlive /\ p.out \in valueAlive /\ p.oe \in valueAlive
      BY <3>1, InoutMember, NoneIsNoId DEF PortsOK, InoutNeverErased
    <3> HIDE DEF p
    <3>3. NewV(p.in) \in ValueIds /\ NewV(p.out) \in ValueIds /\ NewV(p.oe) \in ValueIds
      BY <3>2, Renumbering
    <3>4. MovedInout(p) \in InoutPorts
      BY <3>3 DEF MovedInout, InoutPorts
    <3> QED
      BY <2>1, <3>4 DEF p
  <2> QED
    BY <2>1, <2>2, <2>3, <2>4
<1>5. inoutPorts' \in [InoutNames -> InoutPorts \union {Unbound}]
  BY <1>4, FreezePorts
<1>6. \A w : w \in InoutValues(inoutPorts)' <=> \E v \in InoutValues(inoutPorts) \intersect valueAlive : w = NewV(v)
  <2> TAKE w
  <2>1. w \in InoutValues(inoutPorts)' <=>
          w # None /\ \E n \in InoutNames : \/ w = NewV(inoutPorts[n].in) \/ w = NewV(inoutPorts[n].out)
                                            \/ w = NewV(inoutPorts[n].oe)
    <3>1. \A n \in InoutNames : /\ inoutPorts'[n].in = NewV(inoutPorts[n].in)
                                /\ inoutPorts'[n].out = NewV(inoutPorts[n].out)
                                /\ inoutPorts'[n].oe = NewV(inoutPorts[n].oe)
      <4> TAKE n \in InoutNames
      <4>1. inoutPorts'[n] = MovedInout(inoutPorts[n])
        BY <1>4
      <4> QED
        BY <4>1 DEF MovedInout
    <3> QED
      BY <3>1 DEF InoutValues
  <2>2. \A v : v \in InoutValues(inoutPorts) <=>
          v # None /\ \E n \in InoutNames : v = inoutPorts[n].in \/ v = inoutPorts[n].out \/ v = inoutPorts[n].oe
    BY DEF InoutValues
  <2>3. \A v \in valueAlive : NewV(v) # None /\ v # None
    BY <1>2, Renumbering
  <2> QED
    BY <1>1, <2>1, <2>2, <2>3
<1>7. \A w : /\ w \in BoundValues(inputPorts)' <=> \E v \in BoundValues(inputPorts) \intersect valueAlive : w = NewV(v)
             /\ w \in BoundValues(outputPorts)' <=> \E v \in BoundValues(outputPorts) \intersect valueAlive : w = NewV(v)
  <2> TAKE w
  <2>1. /\ w \in BoundValues(inputPorts)' <=> w # None /\ \E n \in PortNames : w = NewV(inputPorts[n])
        /\ w \in BoundValues(outputPorts)' <=> w # None /\ \E n \in PortNames : w = NewV(outputPorts[n])
    BY FreezePorts DEF BoundValues
  <2>2. \A v : /\ v \in BoundValues(inputPorts) <=> v # None /\ \E n \in PortNames : v = inputPorts[n]
               /\ v \in BoundValues(outputPorts) <=> v # None /\ \E n \in PortNames : v = outputPorts[n]
    BY BoundMember
  <2>3. \A v \in valueAlive : NewV(v) # None /\ v # None
    BY <1>2, Renumbering
  <2> QED
    BY <1>1, <2>1, <2>2, <2>3
<1>8. InoutNeverErased'
  BY <1>2, <1>6, Renumbering DEF InoutNeverErased
<1>9. isInput' \subseteq valueAlive' /\ isOutput' \subseteq valueAlive' /\ isInout' \subseteq ValueIds
  BY <1>2, FreezePorts, Renumbering
<1>10. ASSUME ~ PortCallsFail PROVE FlagsExact' /\ BoundNeverErased'
  <2>1. /\ isInput = BoundValues(inputPorts) /\ isOutput = BoundValues(outputPorts)
        /\ isInout = InoutValues(inoutPorts) /\ isInout \intersect (isInput \union isOutput) = {}
    BY <1>10 DEF PortsOK, FlagsExact
  <2>2. isInput' = BoundValues(inputPorts)' /\ isOutput' = BoundValues(outputPorts)'
        /\ isInout' = InoutValues(inoutPorts)'
    <3>1. /\ \A w : w \in isInput' <=> \E v \in isInput \intersect valueAlive : w = NewV(v)
          /\ \A w : w \in isOutput' <=> \E v \in isOutput \intersect valueAlive : w = NewV(v)
          /\ \A w : w \in isInout' <=> \E v \in isInout \intersect valueAlive : w = NewV(v)
      BY FreezePorts
    <3>2. \A w : w \in isInput' <=> w \in BoundValues(inputPorts)'
      BY <1>7, <2>1, <3>1
    <3>3. \A w : w \in isOutput' <=> w \in BoundValues(outputPorts)'
      BY <1>7, <2>1, <3>1
    <3>4. \A w : w \in isInout' <=> w \in InoutValues(inoutPorts)'
      BY <1>6, <2>1, <3>1
    <3> QED
      BY <3>2, <3>3, <3>4
  <2>3. isInout' \intersect (isInput' \union isOutput') = {}
    <3>1. \A v, w \in valueAlive : NewV(v) = NewV(w) => v = w
      BY Renumbering
    <3> QED
      BY <2>1, <3>1, FreezePorts
  <2>4. BoundNeverErased'
    BY <1>2, <1>6, <1>7, Renumbering DEF BoundNeverErased
  <2> QED
    BY <2>2, <2>3, <2>4 DEF FlagsExact
<1> QED
  BY <1>3, <1>5, <1>8, <1>9, <1>10 DEF PortsOK

LEMMA FreezeKeepsInv == ASSUME Inv, Freeze PROVE Inv'
  BY FreezeKeepsEntries, FreezeKeepsUses, FreezeKeepsDefs, FreezeKeepsSymbols, FreezeKeepsPorts DEF Inv

\* A cache holds what a rebuild would give; a frozen graph has none.
CachesOK ==
  /\ frozen => valuesCache = Stale /\ operationsCache = Stale /\ portsCache = Stale
  /\ valuesCache \in {Stale, Ascending(valueAlive)}
  /\ operationsCache \in {Stale, Ascending(opAlive)}
  /\ ~ PortCallsFail => portsCache \in {Stale, Ports(inputPorts, outputPorts, inoutPorts)}

GraphInv == Inv /\ CachesOK

LEMMA CachesKept ==
  ASSUME CachesOK, frozen' = FALSE, UNCHANGED <<cacheVars, valueAlive, opAlive, inputPorts, outputPorts, inoutPorts>>
  PROVE  CachesOK'
  BY DEF CachesOK, cacheVars, Ascending, Ports

\* What each kind of call leaves alone.
LEMMA EdgeStepsLeave ==
  ASSUME OperandNext \/ ResultNext
  PROVE  UNCHANGED <<entryVars, symbolVars, portVars>>
<1>1. CASE OperandNext
  BY <1>1 DEF OperandNext, AddOperand, InsertOperand, ReplaceOperand, ReplaceAllUses, UseStep
<1>2. CASE ResultNext
  BY <1>2 DEF ResultNext, EraseOperand, EraseResult, AddResult, InsertResult, ReplaceResult, UseStep, DefStep
<1> QED
  BY <1>1, <1>2

LEMMA EraseOperationLeaves ==
  ASSUME NEW o, EraseOp(o) \/ EraseOpUnchecked(o) \/ \E v \in ValueIds : EraseOpReplacing(o, v)
  PROVE  UNCHANGED <<valueCount, opCount, valueAlive, portVars>>
  BY DEF EraseOp, EraseOpUnchecked, EraseOpReplacing, RetireOp

LEMMA EraseValueLeaves ==
  ASSUME NEW v, EraseValue(v) \/ EraseValueUnchecked(v)
  PROVE  UNCHANGED <<valueCount, opCount, opAlive, portVars>>
  BY DEF EraseValue, EraseValueUnchecked, RetireValue

\* A port call that does not throw has returned when the cached list is edited.
LEMMA PortCallsReturn ==
  ASSUME ~ PortCallsFail, NEW complete \in BOOLEAN
  PROVE  /\ InputPortCall(complete) =>
              Returned(complete) /\ PortStep /\ UNCHANGED <<outputPorts, inoutPorts>>
         /\ OutputPortCall(complete) =>
              Returned(complete) /\ PortStep /\ UNCHANGED <<inputPorts, inoutPorts>>
         /\ InoutPortCall(complete) =>
              Returned(complete) /\ PortStep /\ UNCHANGED <<inputPorts, outputPorts>>
<1>1. \A in, out, inout : RecomputeFlags(in, out, inout) => ~ RecomputeThrows(in, out, inout)
  BY DEF RecomputeFlags
<1>2. \A in, out, inout : AfterEntries(in, out, inout, complete) => complete /\ ~ RecomputeThrows(in, out, inout)
  BY <1>1 DEF AfterEntries
<1>3. ASSUME InputPortCall(complete)
      PROVE  Returned(complete) /\ PortStep /\ UNCHANGED <<outputPorts, inoutPorts>>
  <2>1. /\ UNCHANGED <<outputPorts, inoutPorts>> /\ PortStep
        /\ \/ complete /\ RecomputeFlags(inputPorts', outputPorts, inoutPorts)
           \/ AfterEntries(inputPorts', outputPorts, inoutPorts, complete)
    BY <1>3 DEF InputPortCall, BindInputPort, RemoveInputPort, BindInputPorts, SetInputPort
  <2> QED
    BY <1>1, <1>2, <2>1 DEF Returned
<1>4. ASSUME OutputPortCall(complete)
      PROVE  Returned(complete) /\ PortStep /\ UNCHANGED <<inputPorts, inoutPorts>>
  <2>1. /\ UNCHANGED <<inputPorts, inoutPorts>> /\ PortStep
        /\ \/ complete /\ RecomputeFlags(inputPorts, outputPorts', inoutPorts)
           \/ AfterEntries(inputPorts, outputPorts', inoutPorts, complete)
    BY <1>4 DEF OutputPortCall, BindOutputPort, RemoveOutputPort, BindOutputPorts, SetOutputPort
  <2> QED
    BY <1>1, <1>2, <2>1 DEF Returned
<1>5. ASSUME InoutPortCall(complete)
      PROVE  Returned(complete) /\ PortStep /\ UNCHANGED <<inputPorts, outputPorts>>
  <2>1. /\ UNCHANGED <<inputPorts, outputPorts>> /\ PortStep
        /\ \/ complete /\ RecomputeFlags(inputPorts, outputPorts, inoutPorts')
           \/ AfterEntries(inputPorts, outputPorts, inoutPorts', complete)
    BY <1>5 DEF InoutPortCall, BindInoutPort, RemoveInoutPort, BindInoutPorts, SetInoutPort
  <2> QED
    BY <1>1, <1>2, <2>1 DEF Returned
<1> QED
  BY <1>3, <1>4, <1>5

LEMMA PortCallsLeave ==
  ASSUME NEW complete \in BOOLEAN, InputPortCall(complete) \/ OutputPortCall(complete) \/ InoutPortCall(complete)
  PROVE  PortStep
  BY DEF InputPortCall, BindInputPort, RemoveInputPort, BindInputPorts, SetInputPort,
         OutputPortCall, BindOutputPort, RemoveOutputPort, BindOutputPorts, SetOutputPort,
         InoutPortCall, BindInoutPort, RemoveInoutPort, BindInoutPorts, SetInoutPort

-----------------------------------------------------------------------------
(* The steps of a graph. *)

LEMMA GraphInitInv == GraphInit => GraphInv
  BY InitInv DEF GraphInit, GraphInv, CachesOK

LEMMA FreezeStep == ASSUME GraphInv, Freeze PROVE GraphInv'
<1>1. Inv'
  BY FreezeKeepsInv DEF GraphInv
<1>2. CachesOK'
  BY FreezeEntries DEF InvalidateCaches, CachesOK
<1> QED
  BY <1>1, <1>2 DEF GraphInv

\* Thawing computes again what the frozen graph had, so the contents stay.
LEMMA ThawRestores == ASSUME Inv, Thaw PROVE UNCHANGED builderVars
<1>1. definingOp' = definingOp
  BY DEF Thaw, ThawThrows
<1>2. valueUsers' = valueUsers
  BY DEF Thaw, Inv, UsesOK
<1> QED
  BY <1>1, <1>2 DEF Thaw, entryVars, symbolVars, portVars, builderVars

LEMMA ThawStep == ASSUME GraphInv, Thaw PROVE GraphInv'
<1>1. Inv'
  BY ThawRestores, StutterKeepsInv DEF GraphInv
<1>2. CachesOK'
  BY DEF Thaw, InvalidateCaches, CachesOK
<1> QED
  BY <1>1, <1>2 DEF GraphInv

LEMMA ReadSteps == ASSUME GraphInv, ReadValues \/ ReadOperations \/ ReadPorts PROVE GraphInv'
<1>1. UNCHANGED builderVars /\ ~ frozen /\ frozen' = frozen
  BY DEF ReadValues, ReadOperations, ReadPorts
<1>2. Inv'
  BY <1>1, StutterKeepsInv DEF GraphInv
<1>3. UNCHANGED valueAlive /\ UNCHANGED opAlive /\ UNCHANGED inputPorts /\ UNCHANGED outputPorts /\ UNCHANGED inoutPorts
  BY <1>1 DEF builderVars
<1>4. /\ Ascending(valueAlive)' = Ascending(valueAlive) /\ Ascending(opAlive)' = Ascending(opAlive)
      /\ Ports(inputPorts, outputPorts, inoutPorts)' = Ports(inputPorts, outputPorts, inoutPorts)
  BY <1>3
<1>5. CachesOK'
  <2>1. CASE ReadValues
    BY <1>1, <1>4, <2>1 DEF ReadValues, GraphInv, CachesOK
  <2>2. CASE ReadOperations
    BY <1>1, <1>4, <2>2 DEF ReadOperations, GraphInv, CachesOK
  <2>3. CASE ReadPorts
    BY <1>1, <1>4, <2>3 DEF ReadPorts, GraphInv, CachesOK
  <2> QED
    BY <2>1, <2>2, <2>3
<1> QED
  BY <1>2, <1>5 DEF GraphInv

LEMMA CreateValueStep == ASSUME GraphInv, NEW sym \in Syms, CreateValue(sym) PROVE GraphInv'
<1>1. Inv'
  BY SymbolSteps DEF CreateValue, SymbolNext, GraphInv
<1>2. /\ valueCount' = valueCount + 1 /\ valueAlive' = valueAlive \union {valueCount + 1}
      /\ opAlive' = opAlive /\ UNCHANGED portVars /\ frozen' = FALSE
      /\ valuesCache' = AppendTo(valuesCache, valueCount + 1)
      /\ operationsCache' = operationsCache /\ portsCache' = portsCache
  BY DEF CreateValue, AddValue, EnsureBuilder
<1>3. Ascending(valueAlive)' = Append(Ascending(valueAlive), valueCount + 1)
  BY <1>2, LiveEntries, AscendingAppend DEF GraphInv, Inv
<1>4. valuesCache' \in {Stale, Ascending(valueAlive)'}
  BY <1>2, <1>3 DEF AppendTo, GraphInv, CachesOK
<1>5. /\ Ascending(opAlive)' = Ascending(opAlive)
      /\ Ports(inputPorts, outputPorts, inoutPorts)' = Ports(inputPorts, outputPorts, inoutPorts)
  BY <1>2 DEF portVars
<1> QED
  BY <1>1, <1>2, <1>4, <1>5 DEF GraphInv, CachesOK

LEMMA CreateOperationStep == ASSUME GraphInv, NEW sym \in Syms, CreateOperation(sym) PROVE GraphInv'
<1>1. Inv'
  BY SymbolSteps DEF CreateOperation, SymbolNext, GraphInv
<1>2. /\ opCount' = opCount + 1 /\ opAlive' = opAlive \union {opCount + 1}
      /\ valueAlive' = valueAlive /\ UNCHANGED portVars /\ frozen' = FALSE
      /\ operationsCache' = AppendTo(operationsCache, opCount + 1)
      /\ valuesCache' = valuesCache /\ portsCache' = portsCache
  BY DEF CreateOperation, AddOp, EnsureBuilder
<1>3. Ascending(opAlive)' = Append(Ascending(opAlive), opCount + 1)
  BY <1>2, LiveEntries, AscendingAppend DEF GraphInv, Inv
<1>4. operationsCache' \in {Stale, Ascending(opAlive)'}
  BY <1>2, <1>3 DEF AppendTo, GraphInv, CachesOK
<1>5. /\ Ascending(valueAlive)' = Ascending(valueAlive)
      /\ Ports(inputPorts, outputPorts, inoutPorts)' = Ports(inputPorts, outputPorts, inoutPorts)
  BY <1>2 DEF portVars
<1> QED
  BY <1>1, <1>2, <1>4, <1>5 DEF GraphInv, CachesOK

LEMMA EditEdgesStep == ASSUME GraphInv, EditEdges PROVE GraphInv'
<1>1. Inv'
  BY OperandSteps, ResultSteps DEF EditEdges, GraphInv
<1>2. UNCHANGED entryVars /\ UNCHANGED portVars
  BY EdgeStepsLeave DEF EditEdges
<1>3. CachesOK'
  BY <1>2, CachesKept DEF EditEdges, EnsureBuilder, GraphInv, entryVars, portVars
<1> QED
  BY <1>1, <1>3 DEF GraphInv

LEMMA RenameStep == ASSUME GraphInv, NEW sym \in Syms, Rename(sym) PROVE GraphInv'
<1>1. Inv'
  BY SymbolSteps DEF Rename, SymbolNext, GraphInv
<1>2. UNCHANGED entryVars /\ UNCHANGED portVars
  BY DEF Rename, SetValueSymbol, SetOpSymbol
<1>3. CachesOK'
  BY <1>2, CachesKept DEF Rename, EnsureBuilder, GraphInv, entryVars, portVars
<1> QED
  BY <1>1, <1>3 DEF GraphInv

LEMMA EraseOperationStep == ASSUME GraphInv, NEW o \in OpIds, EraseOperation(o) PROVE GraphInv'
<1>1. Inv'
  BY EraseSteps DEF EraseOperation, EraseNext, GraphInv
<1>2. /\ UNCHANGED valueAlive /\ UNCHANGED portVars /\ frozen' = FALSE /\ operationsCache' = Stale
      /\ valuesCache' = valuesCache /\ portsCache' = portsCache
  BY EraseOperationLeaves DEF EraseOperation, EnsureBuilder
<1>3. /\ Ascending(valueAlive)' = Ascending(valueAlive)
      /\ Ports(inputPorts, outputPorts, inoutPorts)' = Ports(inputPorts, outputPorts, inoutPorts)
  BY <1>2 DEF portVars
<1> QED
  BY <1>1, <1>2, <1>3 DEF GraphInv, CachesOK

LEMMA DeleteValueStep == ASSUME GraphInv, NEW v \in ValueIds, DeleteValue(v) PROVE GraphInv'
<1>1. Inv'
  BY EraseSteps DEF DeleteValue, EraseNext, GraphInv
<1>2. /\ UNCHANGED opAlive /\ UNCHANGED portVars /\ frozen' = FALSE /\ valuesCache' = Stale
      /\ operationsCache' = operationsCache /\ portsCache' = portsCache
  BY EraseValueLeaves DEF DeleteValue, EnsureBuilder
<1>3. /\ Ascending(opAlive)' = Ascending(opAlive)
      /\ Ports(inputPorts, outputPorts, inoutPorts)' = Ports(inputPorts, outputPorts, inoutPorts)
  BY <1>2 DEF portVars
<1> QED
  BY <1>1, <1>2, <1>3 DEF GraphInv, CachesOK

PortWrites(complete) == WriteInputPorts(complete) \/ WriteOutputPorts(complete) \/ WriteInoutPorts(complete)

LEMMA PortWriteStep == ASSUME GraphInv, NEW complete \in BOOLEAN, PortWrites(complete) PROVE GraphInv'
<1>1. InputPortCall(complete) \/ OutputPortCall(complete) \/ InoutPortCall(complete)
  BY DEF PortWrites, WriteInputPorts, WriteOutputPorts, WriteInoutPorts
<1>2. Inv'
  BY <1>1, PortSteps DEF PortNext, GraphInv
<1>3. /\ UNCHANGED valueAlive /\ UNCHANGED opAlive /\ frozen' = FALSE
      /\ valuesCache' = valuesCache /\ operationsCache' = operationsCache
  BY <1>1, PortCallsLeave
     DEF PortStep, entryVars, PortWrites, WriteInputPorts, WriteOutputPorts, WriteInoutPorts, WritePorts, EnsureBuilder
<1>4. Ascending(valueAlive)' = Ascending(valueAlive) /\ Ascending(opAlive)' = Ascending(opAlive)
  BY <1>3
<1>5. ASSUME ~ PortCallsFail PROVE portsCache' \in {Stale, Ports(inputPorts', outputPorts', inoutPorts')}
  <2>0. portsCache \in {Stale, Ports(inputPorts, outputPorts, inoutPorts)}
    BY <1>5 DEF GraphInv, CachesOK
  <2>1. CASE WriteInputPorts(complete)
    <3>1. Returned(complete) /\ outputPorts' = outputPorts /\ inoutPorts' = inoutPorts
      BY <1>5, <2>1, PortCallsReturn DEF WriteInputPorts
    <3>2. portsCache' = IF portsCache # Stale THEN [portsCache EXCEPT !.in = inputPorts'] ELSE portsCache
      BY <2>1, <3>1 DEF WriteInputPorts, WritePorts
    <3> QED
      BY <2>0, <3>1, <3>2 DEF Ports
  <2>2. CASE WriteOutputPorts(complete)
    <3>1. Returned(complete) /\ inputPorts' = inputPorts /\ inoutPorts' = inoutPorts
      BY <1>5, <2>2, PortCallsReturn DEF WriteOutputPorts
    <3>2. portsCache' = IF portsCache # Stale THEN [portsCache EXCEPT !.out = outputPorts'] ELSE portsCache
      BY <2>2, <3>1 DEF WriteOutputPorts, WritePorts
    <3> QED
      BY <2>0, <3>1, <3>2 DEF Ports
  <2>3. CASE WriteInoutPorts(complete)
    <3>1. Returned(complete) /\ inputPorts' = inputPorts /\ outputPorts' = outputPorts
      BY <1>5, <2>3, PortCallsReturn DEF WriteInoutPorts
    <3>2. portsCache' = IF portsCache # Stale THEN [portsCache EXCEPT !.inout = inoutPorts'] ELSE portsCache
      BY <2>3, <3>1 DEF WriteInoutPorts, WritePorts
    <3> QED
      BY <2>0, <3>1, <3>2 DEF Ports
  <2> QED
    BY <2>1, <2>2, <2>3 DEF PortWrites
<1> QED
  BY <1>2, <1>3, <1>4, <1>5 DEF GraphInv, CachesOK

LEMMA GraphStutter ==
  ASSUME GraphInv, UNCHANGED <<builderVars, frozen, cacheVars>> PROVE GraphInv'
<1>1. Inv'
  BY StutterKeepsInv DEF GraphInv
<1>2. CachesOK'
  BY DEF GraphInv, CachesOK, builderVars, cacheVars, Ascending, Ports
<1> QED
  BY <1>1, <1>2 DEF GraphInv

\* Every call of a graph, frozen or not.
LEMMA GraphSteps == ASSUME GraphInv, GraphNext PROVE GraphInv'
<1>1. ASSUME NEW sym \in Syms, CreateValue(sym) \/ CreateOperation(sym) \/ Rename(sym) PROVE GraphInv'
  BY <1>1, CreateValueStep, CreateOperationStep, RenameStep
<1>2. ASSUME NEW complete \in BOOLEAN, WriteInputPorts(complete) \/ WriteOutputPorts(complete) \/ WriteInoutPorts(complete)
      PROVE  GraphInv'
  BY <1>2, PortWriteStep DEF PortWrites
<1>3. ASSUME NEW sym \in Declarable, Declare(sym) PROVE GraphInv'
  BY <1>3, GraphStutter DEF Declare
<1> QED
  BY <1>1, <1>2, <1>3, FreezeStep, ThawStep, ReadSteps, EditEdgesStep, EraseOperationStep, DeleteValueStep DEF GraphNext

\* GraphInv is inductive: every call of a graph keeps it, frozen or not.
THEOREM GraphInvariance == GraphSpec => []GraphInv
<1>1. GraphInv /\ [GraphNext]_graphVars => GraphInv'
  BY GraphSteps, GraphStutter DEF graphVars
<1> QED
  BY <1>1, GraphInitInv, PTL DEF GraphSpec

LEMMA GraphInvImplies ==
  ASSUME GraphInv
  PROVE  ~ PortCallsFail => CachesCoherent /\ ThawNeverFails /\ FreezeNeverFails
<1> SUFFICES ASSUME ~ PortCallsFail PROVE CachesCoherent /\ ThawNeverFails /\ FreezeNeverFails
  OBVIOUS
<1>1. CachesCoherent
  BY DEF GraphInv, CachesOK, CachesCoherent
<1>2. FlagsExact /\ BoundNeverErased /\ NoDanglingEdge
  BY InvImplies DEF GraphInv, Inv, PortsOK
<1>3. ~ RecomputeThrows(inputPorts, outputPorts, inoutPorts)
  BY <1>2 DEF RecomputeThrows, Dead, FlagsExact, BoundNeverErased
<1>4. definingOp = DefsOf(results, opAlive)
  <2>1. ASSUME NEW v \in ValueIds
        PROVE  definingOp[v] = IF \E o \in opAlive : v \in ToSet(results[o])
                               THEN CHOOSE o \in opAlive : v \in ToSet(results[o]) ELSE None
    <3>1. \A o \in opAlive : v \in ToSet(results[o]) <=> definingOp[v] = o
      BY Entries DEF GraphInv, Inv, DefsOK, DefExact, ToSet
    <3>2. definingOp[v] = None \/ definingOp[v] \in opAlive
      BY DEF GraphInv, Inv, DefsOK, DefExact
    <3> QED
      BY <3>1, <3>2
  <2>2. definingOp = [v \in ValueIds |-> definingOp[v]]
    BY DEF GraphInv, Inv, DefsOK
  <2> QED
    BY <2>1, <2>2 DEF DefsOf
<1>5. ThawNeverFails
  BY <1>2, <1>3, <1>4 DEF ThawNeverFails, ThawThrows, FlagsExact
<1>6. FreezeNeverFails
  BY <1>2 DEF FreezeNeverFails, FreezeThrows, Dead, NoDanglingEdge, BoundNeverErased
<1> QED
  BY <1>1, <1>5, <1>6

-----------------------------------------------------------------------------
(* Freezing keeps the netlist: what every symbol stands for stays.            *)

NextSymbolOf(v) == IF v = None THEN NoSym ELSE valueSymbol'[v]
NextNames(s) == [k \in DOMAIN s |-> NextSymbolOf(s[k])]

\* A live entry and its new index carry the same symbol.
LEMMA FreezeNames ==
  ASSUME Inv, Freeze
  PROVE  /\ \A v \in valueAlive : NewV(v) \in valueAlive' /\ OldV(NewV(v)) = v /\ valueSymbol'[NewV(v)] = valueSymbol[v]
         /\ \A v \in valueAlive' : OldV(v) \in valueAlive /\ NewV(OldV(v)) = v /\ valueSymbol'[v] = valueSymbol[OldV(v)]
         /\ \A o \in opAlive : NewO(o) \in opAlive' /\ OldO(NewO(o)) = o /\ opSymbol'[NewO(o)] = opSymbol[o]
         /\ \A o \in opAlive' : OldO(o) \in opAlive /\ NewO(OldO(o)) = o /\ opSymbol'[o] = opSymbol[OldO(o)]
<1>1. EntriesOK
  BY DEF Inv
<1>2. /\ \A v \in valueAlive : NewV(v) \in valueAlive' /\ OldV(NewV(v)) = v
      /\ \A v \in valueAlive' : OldV(v) \in valueAlive /\ NewV(OldV(v)) = v /\ v \in ValueIds
      /\ \A o \in opAlive : NewO(o) \in opAlive' /\ OldO(NewO(o)) = o
      /\ \A o \in opAlive' : OldO(o) \in opAlive /\ NewO(OldO(o)) = o /\ o \in OpIds
  BY <1>1, FreezeEntries, Renumbering
<1>3. /\ \A v \in valueAlive' : valueSymbol'[v] = valueSymbol[OldV(v)]
      /\ \A o \in opAlive' : opSymbol'[o] = opSymbol[OldO(o)]
  BY <1>2, FreezeSymbols
<1> QED
  BY <1>2, <1>3

LEMMA NamesMoved ==
  ASSUME Inv, Freeze
  PROVE  \A v \in valueAlive \union {None} : NextSymbolOf(NewV(v)) = SymbolOf(v)
<1>1. NewV(None) = None
  BY Renumbering, NoneIsNoId DEF Inv
<1>2. \A v \in valueAlive : v # None /\ NewV(v) # None /\ valueSymbol'[NewV(v)] = valueSymbol[v]
  <2>1. valueAlive \subseteq ValueIds /\ valueAlive' \subseteq ValueIds
    BY Renumbering, FreezeEntries DEF Inv
  <2> QED
    BY <2>1, FreezeNames, NoneIsNoId
<1> QED
  BY <1>1, <1>2 DEF NextSymbolOf, SymbolOf

\* The operands and the results of an operation, at its new index.
LEMMA EdgesMoved ==
  ASSUME Inv, Freeze, NEW o \in opAlive
  PROVE  /\ NextNames(operands'[NewO(o)]) = Names(operands[o])
         /\ NextNames(results'[NewO(o)]) = Names(results[o])
         /\ DOMAIN operands'[NewO(o)] = DOMAIN operands[o]
         /\ \A k \in DOMAIN operands[o] : operands[o][k] \in valueAlive /\ operands'[NewO(o)][k] = NewV(operands[o][k])
<1>1. NewO(o) \in opAlive' /\ NewO(o) \in OpIds /\ OldO(NewO(o)) = o
  BY FreezeNames, FreezeEntries, Renumbering DEF Inv
<1>2. operands'[NewO(o)] = MovedList(operands[o]) /\ results'[NewO(o)] = MovedList(results[o])
  BY <1>1, FreezeEdges
<1>3. /\ \A k \in DOMAIN operands[o] : operands[o][k] \in valueAlive
      /\ \A k \in DOMAIN results[o] : results[o][k] \in valueAlive
  BY DEF Inv, UsesOK, DefsOK
<1>4. ASSUME NEW s, \A k \in DOMAIN s : s[k] \in valueAlive
      PROVE  NextNames(MovedList(s)) = Names(s)
  <2>1. DOMAIN MovedList(s) = DOMAIN s /\ \A k \in DOMAIN s : MovedList(s)[k] = NewV(s[k])
    BY DEF MovedList
  <2>2. \A k \in DOMAIN s : NextSymbolOf(MovedList(s)[k]) = SymbolOf(s[k])
    BY <1>4, <2>1, NamesMoved
  <2> QED
    BY <2>1, <2>2 DEF NextNames, Names
<1>5. NextNames(operands'[NewO(o)]) = Names(operands[o]) /\ NextNames(results'[NewO(o)]) = Names(results[o])
  BY <1>2, <1>3, <1>4
<1> QED
  BY <1>2, <1>3, <1>5 DEF MovedList

LEMMA ValuesKept == ASSUME Inv, Freeze PROVE {valueSymbol'[v] : v \in valueAlive'} = {valueSymbol[v] : v \in valueAlive}
<1>1. \A v \in valueAlive' : \E w \in valueAlive : valueSymbol'[v] = valueSymbol[w]
  BY FreezeNames
<1>2. \A v \in valueAlive : \E w \in valueAlive' : valueSymbol'[w] = valueSymbol[v]
  BY FreezeNames
<1> QED
  BY <1>1, <1>2

LEMMA OpsKept ==
  ASSUME Inv, Freeze
  PROVE  {<<opSymbol'[o], NextNames(operands'[o]), NextNames(results'[o])>> : o \in opAlive'}
           = {<<opSymbol[o], Names(operands[o]), Names(results[o])>> : o \in opAlive}
<1> DEFINE new(o) == <<opSymbol'[o], NextNames(operands'[o]), NextNames(results'[o])>>
           old(o) == <<opSymbol[o], Names(operands[o]), Names(results[o])>>
<1>1. \A o \in opAlive : NewO(o) \in opAlive' /\ new(NewO(o)) = old(o)
  BY FreezeNames, EdgesMoved
<1>2. \A o \in opAlive' : \E p \in opAlive : o = NewO(p)
  BY FreezeNames
<1> HIDE DEF new, old
<1>3. {new(o) : o \in opAlive'} = {old(o) : o \in opAlive}
  BY <1>1, <1>2
<1> QED
  BY <1>3 DEF new, old

DefName(v) == IF definingOp[v] = None THEN NoSym ELSE opSymbol[definingOp[v]]
NextDefName(v) == IF definingOp'[v] = None THEN NoSym ELSE opSymbol'[definingOp'[v]]

LEMMA DefinitionsKept ==
  ASSUME Inv, Freeze
  PROVE  {<<valueSymbol'[v], NextDefName(v)>> : v \in valueAlive'} = {<<valueSymbol[v], DefName(v)>> : v \in valueAlive}
<1> DEFINE new(v) == <<valueSymbol'[v], NextDefName(v)>>
           old(v) == <<valueSymbol[v], DefName(v)>>
<1>1. ASSUME NEW v \in valueAlive PROVE NewV(v) \in valueAlive' /\ new(NewV(v)) = old(v)
  <2>1. /\ NewV(v) \in valueAlive' /\ NewV(v) \in ValueIds /\ v \in ValueIds
        /\ OldV(NewV(v)) = v /\ valueSymbol'[NewV(v)] = valueSymbol[v]
    BY FreezeNames, FreezeEntries, Renumbering DEF Inv
  <2>2. definingOp'[NewV(v)] = NewO(definingOp[v])
    BY <2>1, FreezeEdges
  <2>3. definingOp[v] = None \/ definingOp[v] \in opAlive
    BY <2>1 DEF Inv, DefsOK, DefExact
  <2>4. NewO(None) = None /\ \A o \in opAlive : o # None /\ NewO(o) # None /\ opSymbol'[NewO(o)] = opSymbol[o]
    <3>1. opAlive \subseteq OpIds /\ opAlive' \subseteq OpIds
      BY Renumbering, FreezeEntries DEF Inv
    <3>2. NewO(None) = None
      BY <3>1, Renumbering, NoneIsNoId DEF Inv
    <3> QED
      BY <3>1, <3>2, FreezeNames, NoneIsNoId
  <2>5. NextDefName(NewV(v)) = DefName(v)
    BY <2>2, <2>3, <2>4 DEF NextDefName, DefName
  <2> QED
    BY <2>1, <2>5
<1>2. \A v \in valueAlive' : \E w \in valueAlive : v = NewV(w)
  BY FreezeNames
<1> HIDE DEF new, old
<1>3. {new(v) : v \in valueAlive'} = {old(v) : v \in valueAlive}
  BY <1>1, <1>2
<1> QED
  BY <1>3 DEF new, old

LiveUsers == {w \in Users : w[1] \in opAlive}
NextLiveUsers == {w \in Users : w[1] \in opAlive'}

LEMMA UsesKept ==
  ASSUME Inv, Freeze
  PROVE  {<<valueSymbol'[v], opSymbol'[u[1]], u[2], valueUsers'[v][u]>> : v \in valueAlive', u \in NextLiveUsers}
           = {<<valueSymbol[v], opSymbol[u[1]], u[2], valueUsers[v][u]>> : v \in valueAlive, u \in LiveUsers}
<1> DEFINE new(v, u) == <<valueSymbol'[v], opSymbol'[u[1]], u[2], valueUsers'[v][u]>>
           old(v, u) == <<valueSymbol[v], opSymbol[u[1]], u[2], valueUsers[v][u]>>
           Moves(u) == <<NewO(u[1]), u[2]>>
<1>1. ASSUME NEW v \in valueAlive, NEW u \in LiveUsers
      PROVE  NewV(v) \in valueAlive' /\ Moves(u) \in NextLiveUsers /\ new(NewV(v), Moves(u)) = old(v, u)
  <2> DEFINE o == u[1]  k == u[2]
  <2>1. u = <<o, k>> /\ o \in opAlive /\ o \in OpIds /\ k \in 1 .. MaxArity /\ u \in Users
    BY DEF LiveUsers, Users
  <2>2. NewO(o) \in opAlive' /\ NewO(o) \in OpIds /\ opSymbol'[NewO(o)] = opSymbol[o]
    BY <2>1, FreezeNames, FreezeEntries, Renumbering DEF Inv
  <2>3. NewV(v) \in valueAlive' /\ NewV(v) \in ValueIds /\ v \in ValueIds /\ valueSymbol'[NewV(v)] = valueSymbol[v]
    BY FreezeNames, FreezeEntries, Renumbering DEF Inv
  <2> HIDE DEF o, k
  <2>4. <<NewO(o), k>> \in Users /\ <<NewO(o), k>> \in NextLiveUsers
    BY <2>1, <2>2 DEF Users, NextLiveUsers
  <2>5. valueUsers[v][u] = UseAt(operands[o], v, k)
    BY <2>1, <2>3 DEF Inv, UsesOK, UsesOf, o, k
  <2>6. valueUsers'[NewV(v)][<<NewO(o), k>>] = UseAt(operands'[NewO(o)], NewV(v), k)
    BY <2>2, <2>3, <2>4, FreezeEdges DEF UsesOf
  <2>7. /\ DOMAIN operands'[NewO(o)] = DOMAIN operands[o]
        /\ \A i \in DOMAIN operands[o] : operands[o][i] \in valueAlive /\ operands'[NewO(o)][i] = NewV(operands[o][i])
    BY <2>1, EdgesMoved
  <2>8. \A w \in valueAlive : NewV(w) = NewV(v) <=> w = v
    BY FreezeNames
  <2>9. UseAt(operands'[NewO(o)], NewV(v), k) = UseAt(operands[o], v, k)
    BY <2>7, <2>8 DEF UseAt
  <2>10. Moves(u) = <<NewO(o), k>> /\ Moves(u)[1] = NewO(o) /\ Moves(u)[2] = k
    BY DEF o, k
  <2>11. new(NewV(v), Moves(u)) = <<valueSymbol[v], opSymbol[o], k, valueUsers[v][u]>>
    BY <2>2, <2>3, <2>5, <2>6, <2>9, <2>10
  <2>12. old(v, u) = <<valueSymbol[v], opSymbol[o], k, valueUsers[v][u]>>
    BY DEF o, k
  <2> HIDE DEF new, old, Moves
  <2> QED
    BY <2>3, <2>4, <2>10, <2>11, <2>12
<1>2. ASSUME NEW v \in valueAlive', NEW u \in NextLiveUsers
      PROVE  \E w \in valueAlive, x \in LiveUsers : v = NewV(w) /\ u = Moves(x)
  <2> DEFINE x == <<OldO(u[1]), u[2]>>
  <2>1. u = <<u[1], u[2]>> /\ u[1] \in opAlive' /\ u[2] \in 1 .. MaxArity
    BY DEF NextLiveUsers, Users
  <2>2. OldO(u[1]) \in opAlive /\ OldO(u[1]) \in OpIds /\ NewO(OldO(u[1])) = u[1]
    BY <2>1, FreezeNames, Renumbering DEF Inv
  <2>3. x \in LiveUsers /\ Moves(x) = u
    BY <2>1, <2>2 DEF LiveUsers, Users
  <2>4. OldV(v) \in valueAlive /\ NewV(OldV(v)) = v
    BY FreezeNames
  <2> QED
    BY <2>3, <2>4
<1> HIDE DEF new, old, Moves
<1>3. {new(v, u) : v \in valueAlive', u \in NextLiveUsers} = {old(v, u) : v \in valueAlive, u \in LiveUsers}
  BY <1>1, <1>2
<1> QED
  BY <1>3 DEF new, old

LEMMA FlagsKept ==
  ASSUME Inv, Freeze
  PROVE  {<<valueSymbol'[v], v \in isInput', v \in isOutput', v \in isInout'>> : v \in valueAlive'}
           = {<<valueSymbol[v], v \in isInput, v \in isOutput, v \in isInout>> : v \in valueAlive}
<1> DEFINE new(v) == <<valueSymbol'[v], v \in isInput', v \in isOutput', v \in isInout'>>
           old(v) == <<valueSymbol[v], v \in isInput, v \in isOutput, v \in isInout>>
<1>1. ASSUME NEW v \in valueAlive PROVE NewV(v) \in valueAlive' /\ new(NewV(v)) = old(v)
  <2>1. NewV(v) \in valueAlive' /\ valueSymbol'[NewV(v)] = valueSymbol[v]
    BY FreezeNames
  <2>2. \A w \in valueAlive : NewV(w) = NewV(v) <=> w = v
    BY FreezeNames
  <2>3. \A S : NewV(v) \in {NewV(w) : w \in S \intersect valueAlive} <=> v \in S
    BY <2>2
  <2>4. /\ (NewV(v) \in isInput') = (v \in isInput)
        /\ (NewV(v) \in isOutput') = (v \in isOutput)
        /\ (NewV(v) \in isInout') = (v \in isInout)
    BY <2>3, FreezePorts
  <2> QED
    BY <2>1, <2>4, Zenon
<1>2. \A v \in valueAlive' : \E w \in valueAlive : v = NewV(w)
  BY FreezeNames
<1> HIDE DEF new, old
<1>3. {new(v) : v \in valueAlive'} = {old(v) : v \in valueAlive}
  BY <1>1, <1>2
<1> QED
  BY <1>3 DEF new, old

LEMMA FoundKept ==
  ASSUME Inv, Freeze, NEW s \in Syms
  PROVE  symbolIndex'[s] # NoBinding <=> symbolIndex[s] # NoBinding
<1>1. symbolIndex'[s] = FoundAt(s)
  BY FreezeSymbols
<1>2. /\ \A v \in ValueIds : symbolIndex[s] = <<"value", v>> <=> v \in valueAlive /\ valueSymbol[v] = s
      /\ \A o \in OpIds : symbolIndex[s] = <<"op", o>> <=> o \in opAlive /\ opSymbol[o] = s
      /\ symbolIndex[s] \in Bindings
  BY DEF Inv, SymbolsOK, SymbolIndexExact
<1>3. /\ \A v \in valueAlive : v \in ValueIds /\ NewV(v) \in ValueIds
      /\ \A o \in opAlive : o \in OpIds /\ NewO(o) \in OpIds
  BY Renumbering DEF Inv
<1>4. symbolIndex[s] # NoBinding <=>
        (\E v \in valueAlive : valueSymbol[v] = s) \/ (\E o \in opAlive : opSymbol[o] = s)
  <2>1. symbolIndex[s] # NoBinding <=>
          (\E v \in ValueIds : symbolIndex[s] = <<"value", v>>) \/ (\E o \in OpIds : symbolIndex[s] = <<"op", o>>)
    BY <1>2, BindingsDiffer, NoneIsNoId DEF Bindings
  <2> QED
    BY <1>2, <1>3, <2>1
<1>5. FoundAt(s) # NoBinding <=>
        (\E v \in valueAlive : valueSymbol[v] = s) \/ (\E o \in opAlive : opSymbol[o] = s)
  <2>1. CASE \E v \in valueAlive : valueSymbol[v] = s
    <3>1. (CHOOSE v \in valueAlive : valueSymbol[v] = s) \in valueAlive
      BY <2>1
    <3> QED
      BY <1>3, <2>1, <3>1, BindingsDiffer, NoneIsNoId DEF FoundAt
  <2>2. CASE (~ \E v \in valueAlive : valueSymbol[v] = s) /\ \E o \in opAlive : opSymbol[o] = s
    <3>1. (CHOOSE o \in opAlive : opSymbol[o] = s) \in opAlive
      BY <2>2
    <3> QED
      BY <1>3, <2>2, <3>1, BindingsDiffer, NoneIsNoId DEF FoundAt
  <2>3. CASE (~ \E v \in valueAlive : valueSymbol[v] = s) /\ ~ \E o \in opAlive : opSymbol[o] = s
    BY <2>3 DEF FoundAt
  <2> QED
    BY <2>1, <2>2, <2>3
<1> QED
  BY <1>1, <1>4, <1>5

\* The guard of freeze() says that no port binds an erased value.
LEMMA PortNamesKept ==
  ASSUME Inv, Freeze
  PROVE  /\ \A n \in PortNames : /\ NextSymbolOf(inputPorts'[n]) = SymbolOf(inputPorts[n])
                                 /\ NextSymbolOf(outputPorts'[n]) = SymbolOf(outputPorts[n])
         /\ \A n \in InoutNames : /\ NextSymbolOf(inoutPorts'[n].in) = SymbolOf(inoutPorts[n].in)
                                  /\ NextSymbolOf(inoutPorts'[n].out) = SymbolOf(inoutPorts[n].out)
                                  /\ NextSymbolOf(inoutPorts'[n].oe) = SymbolOf(inoutPorts[n].oe)
<1>1. BoundValues(inputPorts) \union BoundValues(outputPorts) \union InoutValues(inoutPorts) \subseteq valueAlive
  BY FreezeEntries DEF FreezeThrows, Dead
<1>2. ASSUME NEW n \in PortNames
      PROVE  inputPorts[n] \in valueAlive \union {None} /\ outputPorts[n] \in valueAlive \union {None}
  BY <1>1, BoundMember
<1>3. ASSUME NEW n \in InoutNames
      PROVE  {inoutPorts[n].in, inoutPorts[n].out, inoutPorts[n].oe} \subseteq valueAlive \union {None}
  BY <1>1, InoutMember
<1>4. \A n \in PortNames : inputPorts'[n] = NewV(inputPorts[n]) /\ outputPorts'[n] = NewV(outputPorts[n])
  BY FreezePorts
<1>5. ASSUME NEW n \in InoutNames
      PROVE  /\ inoutPorts'[n].in = NewV(inoutPorts[n].in) /\ inoutPorts'[n].out = NewV(inoutPorts[n].out)
             /\ inoutPorts'[n].oe = NewV(inoutPorts[n].oe)
  <2>1. inoutPorts'[n] = MovedInout(inoutPorts[n])
    BY FreezePorts
  <2> QED
    BY <2>1 DEF MovedInout
<1> QED
  BY <1>2, <1>3, <1>4, <1>5, NamesMoved

\* The netlist by its parts.
ValuePart == {valueSymbol[v] : v \in valueAlive}
OpPart == {<<opSymbol[o], Names(operands[o]), Names(results[o])>> : o \in opAlive}
DefPart == {<<valueSymbol[v], DefName(v)>> : v \in valueAlive}
UsePart == {<<valueSymbol[v], opSymbol[u[1]], u[2], valueUsers[v][u]>> : v \in valueAlive, u \in LiveUsers}
FlagPart == {<<valueSymbol[v], v \in isInput, v \in isOutput, v \in isInout>> : v \in valueAlive}
FoundPart == {s \in Syms : symbolIndex[s] # NoBinding}
InputPart == [n \in PortNames |-> SymbolOf(inputPorts[n])]
OutputPart == [n \in PortNames |-> SymbolOf(outputPorts[n])]
InoutPart == [n \in InoutNames |-> Names(<<inoutPorts[n].in, inoutPorts[n].out, inoutPorts[n].oe>>)]
PartsKept == /\ ValuePart' = ValuePart /\ OpPart' = OpPart /\ DefPart' = DefPart /\ UsePart' = UsePart
             /\ FlagPart' = FlagPart /\ FoundPart' = FoundPart
             /\ InputPart' = InputPart /\ OutputPart' = OutputPart /\ InoutPart' = InoutPart

LEMMA NetlistOfParts == ASSUME PartsKept PROVE NamedNetlist' = NamedNetlist
<1>1. NamedNetlist =
        [values |-> ValuePart, ops |-> OpPart, defs |-> DefPart, uses |-> UsePart, flags |-> FlagPart,
         found |-> FoundPart, inputs |-> InputPart, outputs |-> OutputPart, inouts |-> InoutPart]
  BY DEF NamedNetlist, ValuePart, OpPart, DefPart, UsePart, FlagPart, FoundPart, InputPart, OutputPart,
         InoutPart, DefName, LiveUsers
<1>2. NamedNetlist' =
        [values |-> ValuePart', ops |-> OpPart', defs |-> DefPart', uses |-> UsePart', flags |-> FlagPart',
         found |-> FoundPart', inputs |-> InputPart', outputs |-> OutputPart', inouts |-> InoutPart']
  BY DEF NamedNetlist, ValuePart, OpPart, DefPart, UsePart, FlagPart, FoundPart, InputPart, OutputPart,
         InoutPart, DefName, LiveUsers, Names, SymbolOf
<1> QED
  BY <1>1, <1>2 DEF PartsKept

LEMMA FreezeNetlist == ASSUME Inv, Freeze PROVE NamedNetlist' = NamedNetlist
<1>1. ValuePart' = ValuePart
  BY ValuesKept DEF ValuePart
<1>2. OpPart' = OpPart
  BY OpsKept DEF OpPart, NextNames, NextSymbolOf, Names, SymbolOf
<1>3. DefPart' = DefPart
  BY DefinitionsKept DEF DefPart, NextDefName, DefName
<1>4. UsePart' = UsePart
  BY UsesKept DEF UsePart, LiveUsers, NextLiveUsers
<1>5. FlagPart' = FlagPart
  BY FlagsKept DEF FlagPart
<1>6. FoundPart' = FoundPart
  BY FoundKept DEF FoundPart
<1>7. InputPart' = InputPart /\ OutputPart' = OutputPart
  BY PortNamesKept DEF InputPart, OutputPart, NextSymbolOf, SymbolOf
<1>8. InoutPart' = InoutPart
  <2>1. ASSUME NEW n \in InoutNames
        PROVE  NextNames(<<inoutPorts'[n].in, inoutPorts'[n].out, inoutPorts'[n].oe>>)
                 = Names(<<inoutPorts[n].in, inoutPorts[n].out, inoutPorts[n].oe>>)
    <3> DEFINE a == inoutPorts[n].in   b == inoutPorts[n].out   c == inoutPorts[n].oe
               x == inoutPorts'[n].in  y == inoutPorts'[n].out  z == inoutPorts'[n].oe
    <3>1. NextSymbolOf(x) = SymbolOf(a) /\ NextSymbolOf(y) = SymbolOf(b) /\ NextSymbolOf(z) = SymbolOf(c)
      BY PortNamesKept
    <3> HIDE DEF a, b, c, x, y, z
    <3>2. NextNames(<<x, y, z>>) = Names(<<a, b, c>>)
      BY <3>1 DEF NextNames, Names
    <3> QED
      BY <3>2 DEF a, b, c, x, y, z
  <2> QED
    BY <2>1 DEF InoutPart, NextNames, NextSymbolOf, Names, SymbolOf
<1> QED
  BY <1>1, <1>2, <1>3, <1>4, <1>5, <1>6, <1>7, <1>8, NetlistOfParts DEF PartsKept

\* Only freeze() turns a mutable graph into a frozen one.
LEMMA OnlyFreezeFreezes == ASSUME [GraphNext]_graphVars, ~ frozen, frozen' PROVE Freeze
<1>1. CASE UNCHANGED graphVars
  BY <1>1 DEF graphVars
<1>2. CASE GraphNext
  BY <1>2 DEF GraphNext, Thaw, ReadValues, ReadOperations, ReadPorts, CreateValue, CreateOperation, Rename,
     EditEdges, EraseOperation, DeleteValue, WriteInputPorts, WriteOutputPorts, WriteInoutPorts, Declare, EnsureBuilder
<1> QED
  BY <1>1, <1>2

LEMMA ThawNetlist == ASSUME Inv, Thaw PROVE NamedNetlist' = NamedNetlist
<1>1. UNCHANGED builderVars
  BY ThawRestores
<1>2. /\ valueAlive' = valueAlive /\ opAlive' = opAlive /\ definingOp' = definingOp /\ valueUsers' = valueUsers
      /\ operands' = operands /\ results' = results /\ valueSymbol' = valueSymbol /\ opSymbol' = opSymbol
      /\ symbolIndex' = symbolIndex /\ inputPorts' = inputPorts /\ outputPorts' = outputPorts
      /\ inoutPorts' = inoutPorts /\ isInput' = isInput /\ isOutput' = isOutput /\ isInout' = isInout
  BY <1>1 DEF builderVars
<1> QED
  BY <1>2 DEF NamedNetlist, Names, SymbolOf

\* Under its symbols the netlist is the same before and after freeze() and
\* ensureBuilder(): entries are renumbered, nothing is lost, added or reconnected.
THEOREM FreezingKeepsTheNetlist == GraphSpec => FreezeKeepsNetlist
<1>1. GraphInv /\ [GraphNext]_graphVars =>
        [Thaw \/ (~ frozen /\ frozen') => NamedNetlist' = NamedNetlist]_graphVars
  <2> SUFFICES ASSUME GraphInv, [GraphNext]_graphVars, Thaw \/ (~ frozen /\ frozen')
               PROVE  NamedNetlist' = NamedNetlist
    OBVIOUS
  <2> QED
    BY FreezeNetlist, ThawNetlist, OnlyFreezeFreezes DEF GraphInv
<1> QED
  BY <1>1, GraphInvariance, PTL DEF GraphSpec, FreezeKeepsNetlist

-----------------------------------------------------------------------------
(* A graph implements the netlist of UseDefGraph. *)

Ins == [o \in opAlive |-> operands[o]]
Outs == [o \in opAlive |-> results[o]]
Bound == BoundValues(inputPorts) \union BoundValues(outputPorts) \union InoutValues(inoutPorts)

Hidden == UNCHANGED <<valueAlive, opAlive, Ins, Outs, Bound>>

LEMMA BoundKept == ASSUME UNCHANGED portVars PROVE Bound' = Bound
  BY DEF portVars, Bound, BoundValues, InoutValues
LEMMA InsKept == ASSUME UNCHANGED <<opAlive, operands>> PROVE Ins' = Ins
  BY DEF Ins
LEMMA OutsKept == ASSUME UNCHANGED <<opAlive, results>> PROVE Outs' = Outs
  BY DEF Outs

LEMMA HiddenStutters == ASSUME Hidden PROVE UNCHANGED Abstract!netlist
  BY DEF Hidden, Abstract!netlist, Ins, Outs, Bound

-----------------------------------------------------------------------------
LEMMA AddValueMaps ==
  ASSUME Inv, NEW sym, AddValue(sym), NEW v, v = valueCount + 1 PROVE Abstract!NewValue(v)
<1>1. /\ valueAlive' = valueAlive \union {v} /\ opAlive' = opAlive /\ operands' = operands
      /\ results' = results /\ UNCHANGED portVars
  BY DEF AddValue, useVars, defVars
<1>2. v \notin valueAlive
  BY DEF Inv, EntriesOK
<1>3. Ins' = Ins /\ Outs' = Outs /\ Bound' = Bound
  BY <1>1, InsKept, OutsKept, BoundKept
<1> QED
  BY <1>1, <1>2, <1>3 DEF Abstract!NewValue, Ins, Outs, Bound

LEMMA AddOpMaps ==
  ASSUME Inv, NEW sym, AddOp(sym), NEW o, o = opCount + 1 PROVE Abstract!NewOp(o)
<1>1. /\ opAlive' = opAlive \union {o} /\ valueAlive' = valueAlive /\ operands' = operands
      /\ results' = results /\ UNCHANGED portVars /\ o \in OpIds
  BY DEF AddOp, useVars, defVars
<1>2. o \notin opAlive /\ o > opCount
  BY DEF Inv, EntriesOK
<1>3. operands[o] = <<>> /\ results[o] = <<>>
  BY <1>1, <1>2 DEF Inv, UsesOK, DefsOK
<1>4. Bound' = Bound
  BY <1>1, BoundKept
<1>5. Ins' = [p \in opAlive \union {o} |-> IF p = o THEN <<>> ELSE Ins[p]]
  BY <1>1, <1>3 DEF Ins
<1>6. Outs' = [p \in opAlive \union {o} |-> IF p = o THEN <<>> ELSE Outs[p]]
  BY <1>1, <1>3 DEF Outs
<1>7. Ins' = Abstract!Plus(Ins, o) /\ Outs' = Abstract!Plus(Outs, o)
  <2>1. DOMAIN Ins = opAlive /\ DOMAIN Outs = opAlive
    BY DEF Ins, Outs
  <2> QED
    BY <1>5, <1>6, <2>1 DEF Abstract!Plus
<1> QED
  BY <1>1, <1>2, <1>4, <1>7 DEF Abstract!NewOp, Ins, Outs, Bound

\* One operand list is edited.
LEMMA EditInsMaps ==
  ASSUME Inv, Inv', NEW o \in opAlive, NEW s, SetOperands(o, s), UseStep, Abstract!OneEdit(operands[o], s)
  PROVE  Abstract!EditIns(o)
<1>1. /\ valueAlive' = valueAlive /\ opAlive' = opAlive /\ results' = results /\ UNCHANGED portVars
  BY DEF UseStep, entryVars, defVars
<1>2. o \in OpIds /\ opAlive \subseteq OpIds /\ operands \in Operands
  BY OperandTypes, Entries DEF Inv
<1>3. operands' = [operands EXCEPT ![o] = s]
  BY DEF SetOperands
<1>4. \A p \in OpIds : operands'[p] = IF p = o THEN s ELSE operands[p]
  BY <1>2, <1>3 DEF Operands
<1>5. Outs' = Outs /\ Bound' = Bound
  BY <1>1, OutsKept, BoundKept
<1>6. DOMAIN Ins' = opAlive /\ DOMAIN Ins = opAlive /\ Ins'[o] = s /\ Ins[o] = operands[o]
  BY <1>1, <1>2, <1>4 DEF Ins
<1>7. Abstract!Without(Ins', o) = Abstract!Without(Ins, o)
  <2>1. \A p \in opAlive \ {o} : Ins'[p] = Ins[p]
    BY <1>1, <1>2, <1>4 DEF Ins
  <2> QED
    BY <1>6, <2>1 DEF Abstract!Without
<1>8. s \in Seq(valueAlive)
  <2>1. operands' \in Operands /\ \A k \in DOMAIN operands'[o] : operands'[o][k] \in valueAlive
    BY <1>1 DEF Inv, UsesOK
  <2>2. s = operands'[o] /\ s \in Seq(ValueIds)
    BY <1>2, <1>4, <2>1 DEF Operands
  <2> QED
    BY <2>1, <2>2
<1> QED
  BY <1>1, <1>5, <1>6, <1>7, <1>8 DEF Abstract!EditIns, Ins, Outs, Bound

\* The edits of one list, as the netlist sees them.
LEMMA AppendIsOneEdit ==
  ASSUME NEW s \in Seq(ValueIds), NEW v \in ValueIds PROVE Abstract!OneEdit(s, Append(s, v))
<1> DEFINE t == Append(s, v)  n == Len(s)
<1>1. /\ t \in Seq(ValueIds) /\ Len(t) = n + 1 /\ n \in Nat /\ \A i \in 1 .. n : t[i] = s[i]
  BY AppendProperties
<1>2. s = [i \in 1 .. n |-> s[i]]
  OBVIOUS
<1> HIDE DEF t, n
<1>3. s = Abstract!Drop(t, n + 1)
  <2>1. Abstract!Drop(t, n + 1) = [i \in 1 .. n |-> IF i < n + 1 THEN t[i] ELSE t[i + 1]]
    BY <1>1 DEF Abstract!Drop
  <2>2. \A i \in 1 .. n : s[i] = IF i < n + 1 THEN t[i] ELSE t[i + 1]
    BY <1>1
  <2> HIDE DEF n
  <2> QED
    BY <1>2, <2>1, <2>2
<1>4. n + 1 \in DOMAIN t
  BY <1>1
<1>5. Abstract!OneEdit(s, t)
  BY <1>1, <1>3, <1>4 DEF Abstract!OneEdit, n
<1> QED
  BY <1>5 DEF t

LEMMA InsertIsOneEdit ==
  ASSUME NEW s \in Seq(ValueIds), NEW k \in 1 .. Len(s) + 1, NEW v \in ValueIds
  PROVE  Abstract!OneEdit(s, InsertAt(s, k, v))
<1> DEFINE t == InsertAt(s, k, v)  n == Len(s)
<1>1. /\ t \in Seq(ValueIds) /\ Len(t) = n + 1 /\ n \in Nat
      /\ \A i \in 1 .. k - 1 : t[i] = s[i]
      /\ \A i \in k .. n : t[i + 1] = s[i]
  BY InsertAtProperties
<1>2. s = [i \in 1 .. n |-> s[i]] /\ k \in 1 .. n + 1
  OBVIOUS
<1> HIDE DEF t, n
<1>3. s = Abstract!Drop(t, k)
  <2>1. Abstract!Drop(t, k) = [i \in 1 .. n |-> IF i < k THEN t[i] ELSE t[i + 1]]
    BY <1>1 DEF Abstract!Drop
  <2>2. ASSUME NEW i \in 1 .. n PROVE s[i] = IF i < k THEN t[i] ELSE t[i + 1]
    <3>1. CASE i < k
      <4>1. i \in 1 .. k - 1
        BY <1>2, <3>1
      <4> QED
        BY <1>1, <3>1, <4>1
    <3>2. CASE ~ (i < k)
      <4>1. i \in k .. n
        BY <1>2, <3>2
      <4> QED
        BY <1>1, <3>2, <4>1
    <3> QED
      BY <3>1, <3>2
  <2> QED
    BY <1>2, <2>1, <2>2
<1>4. k \in DOMAIN t
  BY <1>1, <1>2
<1>5. Abstract!OneEdit(s, t)
  BY <1>1, <1>3, <1>4 DEF Abstract!OneEdit, n
<1> QED
  BY <1>5 DEF t

LEMMA RemoveIsOneEdit ==
  ASSUME NEW s \in Seq(ValueIds), NEW k \in 1 .. Len(s)
  PROVE  Abstract!OneEdit(s, RemoveAt(s, k))
<1> DEFINE t == RemoveAt(s, k)  n == Len(s)
<1>1. /\ t \in Seq(ValueIds) /\ Len(t) = n - 1 /\ n \in Nat
      /\ \A i \in 1 .. n - 1 : t[i] = IF i < k THEN s[i] ELSE s[i + 1]
  BY RemoveAtProperties
<1>2. t = [i \in 1 .. n - 1 |-> t[i]] /\ k \in DOMAIN s /\ n = (n - 1) + 1
  BY <1>1
<1> HIDE DEF t, n
<1>3. t = Abstract!Drop(s, k)
  <2>1. Abstract!Drop(s, k) = [i \in 1 .. n - 1 |-> IF i < k THEN s[i] ELSE s[i + 1]]
    BY DEF Abstract!Drop, n
  <2> QED
    BY <1>1, <1>2, <2>1
<1>5. Abstract!OneEdit(s, t)
  BY <1>1, <1>2, <1>3 DEF Abstract!OneEdit, n
<1> QED
  BY <1>5 DEF t

LEMMA ExchangeIsOneEdit ==
  ASSUME NEW s \in Seq(ValueIds), NEW k \in DOMAIN s, NEW v \in ValueIds
  PROVE  Abstract!OneEdit(s, [s EXCEPT ![k] = v])
<1> DEFINE t == [s EXCEPT ![k] = v]
<1>1. Len(t) = Len(s) /\ \A i \in DOMAIN s \ {k} : s[i] = t[i]
  OBVIOUS
<1> HIDE DEF t
<1>2. Abstract!OneEdit(s, t)
  BY <1>1 DEF Abstract!OneEdit
<1> QED
  BY <1>2 DEF t

-----------------------------------------------------------------------------
LEMMA OperandMaps == ASSUME Inv, Inv', OperandNext PROVE Abstract!NetNext
<1> SUFFICES ASSUME NEW v \in ValueIds,
               \/ \E o \in OpIds : AddOperand(o, v)
               \/ \E o \in OpIds, k \in 1 .. MaxArity : InsertOperand(o, k, v)
               \/ \E o \in OpIds, k \in 1 .. MaxArity : ReplaceOperand(o, k, v)
               \/ \E w \in ValueIds : ReplaceAllUses(v, w)
             PROVE  Abstract!NetNext
  BY DEF OperandNext
<1>1. ASSUME NEW o \in OpIds, AddOperand(o, v) PROVE Abstract!NetNext
  <2>1. o \in opAlive /\ SetOperands(o, Append(operands[o], v)) /\ UseStep
    BY <1>1 DEF AddOperand
  <2>2. operands[o] \in Seq(ValueIds)
    BY <2>1, OperandTypes
  <2>3. Abstract!EditIns(o)
    BY <2>1, <2>2, AppendIsOneEdit, EditInsMaps
  <2> QED
    BY <2>3 DEF Abstract!NetNext
<1>2. ASSUME NEW o \in OpIds, NEW k \in 1 .. MaxArity, InsertOperand(o, k, v) PROVE Abstract!NetNext
  <2>1. /\ o \in opAlive /\ SetOperands(o, InsertAt(operands[o], k, v)) /\ UseStep
        /\ k \in 1 .. Len(operands[o]) + 1
    BY <1>2 DEF InsertOperand
  <2>2. operands[o] \in Seq(ValueIds)
    BY <2>1, OperandTypes
  <2>3. Abstract!EditIns(o)
    BY <2>1, <2>2, InsertIsOneEdit, EditInsMaps
  <2> QED
    BY <2>3 DEF Abstract!NetNext
<1>3. ASSUME NEW o \in OpIds, NEW k \in 1 .. MaxArity, ReplaceOperand(o, k, v) PROVE Abstract!NetNext
  <2>1. o \in opAlive /\ SetOperands(o, [operands[o] EXCEPT ![k] = v]) /\ UseStep /\ k \in DOMAIN operands[o]
    BY <1>3 DEF ReplaceOperand
  <2>2. operands[o] \in Seq(ValueIds)
    BY <2>1, OperandTypes
  <2>3. Abstract!EditIns(o)
    BY <2>1, <2>2, ExchangeIsOneEdit, EditInsMaps
  <2> QED
    BY <2>3 DEF Abstract!NetNext
<1>4. ASSUME NEW w \in ValueIds, ReplaceAllUses(v, w) PROVE Abstract!NetNext
  <2>1. /\ v \in valueAlive /\ w \in valueAlive /\ UseStep
        /\ operands' = RewriteUses(operands, valueUsers, v, w, {})
    BY <1>4 DEF ReplaceAllUses
  <2>2. /\ operands \in Operands /\ valueUsers = UsesOf(operands, opAlive) /\ opAlive \subseteq OpIds
        /\ \A o \in OpIds : Len(operands[o]) <= MaxArity
    BY Entries DEF Inv, UsesOK
  <2>3. ASSUME NEW o \in opAlive PROVE operands'[o] = Abstract!Replaced(operands[o], v, w)
    <3>1. o \in OpIds /\ operands[o] \in Seq(ValueIds) /\ DOMAIN operands[o] = 1 .. Len(operands[o])
      BY OperandTypes
    <3>2. /\ operands' \in Operands /\ Len(operands'[o]) = Len(operands[o])
          /\ \A k \in 1 .. Len(operands[o]) :
               operands'[o][k] = IF o \in opAlive \ {} /\ operands[o][k] = v THEN w ELSE operands[o][k]
      BY <2>1, <2>2, <3>1, Rewritten
    <3>3. operands'[o] \in Seq(ValueIds)
      BY <3>1, <3>2 DEF Operands
    <3> QED
      BY <3>1, <3>2, <3>3 DEF Abstract!Replaced
  <2>4. /\ valueAlive' = valueAlive /\ opAlive' = opAlive /\ results' = results /\ UNCHANGED portVars
    BY <2>1 DEF UseStep, entryVars, defVars
  <2>5. Outs' = Outs /\ Bound' = Bound
    BY <2>4, OutsKept, BoundKept
  <2>6. Ins' = [o \in opAlive |-> Abstract!Replaced(Ins[o], v, w)]
    BY <2>3, <2>4 DEF Ins
  <2>7. Abstract!Substitute(v, w)
    BY <2>1, <2>4, <2>5, <2>6 DEF Abstract!Substitute, Ins, Outs, Bound
  <2> QED
    BY <2>7 DEF Abstract!NetNext
<1> QED
  BY <1>1, <1>2, <1>3, <1>4

LEMMA EraseOperandMaps ==
  ASSUME Inv, Inv', NEW o \in OpIds, NEW k \in 1 .. MaxArity, EraseOperand(o, k) PROVE Abstract!EditIns(o)
<1>1. o \in opAlive /\ SetOperands(o, RemoveAt(operands[o], k)) /\ UseStep /\ k \in DOMAIN operands[o]
  BY DEF EraseOperand
<1>2. operands[o] \in Seq(ValueIds) /\ k \in 1 .. Len(operands[o])
  BY <1>1, OperandTypes
<1> QED
  BY <1>1, <1>2, RemoveIsOneEdit, EditInsMaps

\* A result that comes had no definition; one that goes is unused and unbound.
LEMMA EditOutsMaps ==
  ASSUME Inv, Inv', NEW o \in opAlive, NEW s, SetResults(o, s), DefStep, Abstract!OneEdit(results[o], s),
         \A v \in valueAlive : In(v, s) /\ ~ In(v, results[o]) => definingOp[v] = None,
         Len(s) < Len(results[o]) =>
           \A v \in valueAlive : In(v, results[o]) /\ ~ In(v, s) => v \notin Bound /\ Unused(v)
  PROVE  Abstract!EditOuts(o)
<1>1. /\ valueAlive' = valueAlive /\ opAlive' = opAlive /\ operands' = operands /\ UNCHANGED portVars
  BY DEF DefStep, entryVars, useVars
<1>2. o \in OpIds /\ opAlive \subseteq OpIds /\ results \in Operands /\ valueAlive \subseteq ValueIds
  BY ResultTypes, Entries DEF Inv
<1>3. results' = [results EXCEPT ![o] = s]
  BY DEF SetResults
<1>4. \A p \in OpIds : results'[p] = IF p = o THEN s ELSE results[p]
  BY <1>2, <1>3 DEF Operands
<1>5. Ins' = Ins /\ Bound' = Bound
  BY <1>1, InsKept, BoundKept
<1>6. DOMAIN Outs' = opAlive /\ DOMAIN Outs = opAlive /\ Outs'[o] = s /\ Outs[o] = results[o]
  BY <1>1, <1>2, <1>4 DEF Outs
<1>7. Abstract!Without(Outs', o) = Abstract!Without(Outs, o)
  <2>1. \A p \in opAlive \ {o} : Outs'[p] = Outs[p]
    BY <1>1, <1>2, <1>4 DEF Outs
  <2> QED
    BY <1>6, <2>1 DEF Abstract!Without
<1>8. s \in Seq(valueAlive) /\ Distinct(s)
  <2>1. /\ results' \in Operands /\ \A k \in DOMAIN results'[o] : results'[o][k] \in valueAlive
        /\ Distinct(results'[o])
    BY <1>1 DEF Inv, DefsOK, DefExact, Distinct
  <2>2. s = results'[o] /\ s \in Seq(ValueIds)
    BY <1>2, <1>4, <2>1 DEF Operands
  <2> QED
    BY <2>1, <2>2
<1>9. \A t, v : Abstract!Mentions(t, v) <=> In(v, t)
  BY DEF Abstract!Mentions, In
<1>10. ASSUME NEW v \in valueAlive, definingOp[v] = None PROVE ~ Abstract!Defined(v)
  <2>1. \A p \in opAlive : ~ In(v, results[p])
    BY <1>2, <1>10, NoneIsNoId DEF Inv, DefsOK, DefExact, In
  <2>2. \A p \in opAlive : Outs[p] = results[p]
    BY DEF Outs
  <2> QED
    BY <1>9, <2>1, <2>2 DEF Abstract!Defined, Outs
<1>11. ASSUME NEW v \in valueAlive, Unused(v) PROVE \A p \in opAlive : ~ In(v, Ins[p])
  <2> SUFFICES ASSUME NEW p \in opAlive, NEW k \in DOMAIN operands[p], operands[p][k] = v PROVE FALSE
    BY DEF Ins, In
  <2>1. /\ p \in OpIds /\ k \in 1 .. Len(operands[p]) /\ Len(operands[p]) <= MaxArity /\ Len(operands[p]) \in Nat
        /\ valueUsers = UsesOf(operands, opAlive)
    BY OperandTypes
  <2>2. <<p, k>> \in Users
    BY <2>1 DEF Users
  <2>3. valueUsers[v][<<p, k>>] = 1
    BY <1>2, <2>1, <2>2 DEF UsesOf, UseAt
  <2> QED
    BY <1>11, <2>2, <2>3 DEF Unused
<1>12. \A v \in valueAlive : Abstract!Mentions(s, v) /\ ~ Abstract!Mentions(results[o], v) => ~ Abstract!Defined(v)
  BY <1>9, <1>10
<1>13. Len(s) < Len(results[o]) =>
         \A v \in valueAlive : Abstract!Mentions(results[o], v) /\ ~ Abstract!Mentions(s, v) =>
           v \notin Bound /\ \A p \in opAlive : ~ Abstract!Mentions(Ins[p], v)
  BY <1>9, <1>11
<1>14. \A i, k \in DOMAIN s : s[i] = s[k] => i = k
  BY <1>8 DEF Distinct
<1> QED
  BY <1>1, <1>5, <1>6, <1>7, <1>8, <1>12, <1>13, <1>14 DEF Abstract!EditOuts, Ins, Outs, Bound

\* While the flags are exact, what the erasures ask them says what is bound, and no
\* port binds an erased value: no input's or output's flag is set, or left, on one.
LEMMA NoPortUnbound == ASSUME Inv, FlagsExact, NEW v, NoPort(v) PROVE v \notin Bound
  BY DEF FlagsExact, NoPort, Bound

LEMMA BoundAlive == ASSUME Inv, FlagsExact PROVE Bound \subseteq valueAlive
  BY DEF Inv, PortsOK, InoutNeverErased, FlagsExact, Bound

LEMMA RemovedMember ==
  ASSUME NEW r \in Seq(ValueIds), NEW k \in 1 .. Len(r)
  PROVE  \A w : In(w, r) /\ ~ In(w, RemoveAt(r, k)) => w = r[k]
<1> DEFINE s == RemoveAt(r, k)  n == Len(r)
<1>1. /\ s \in Seq(ValueIds) /\ Len(s) = n - 1 /\ n \in Nat /\ k \in 1 .. n
      /\ \A i \in 1 .. n - 1 : s[i] = IF i < k THEN r[i] ELSE r[i + 1]
  BY RemoveAtProperties
<1> HIDE DEF s, n
<1>2. DOMAIN s = 1 .. n - 1 /\ DOMAIN r = 1 .. n
  BY <1>1 DEF n
<1>3. ASSUME NEW j \in DOMAIN r, j # k PROVE In(r[j], s)
  <2>1. CASE j < k
    <3>1. j \in 1 .. n - 1
      BY <1>1, <1>2, <2>1
    <3> QED
      BY <1>1, <1>2, <2>1, <3>1 DEF In
  <2>2. CASE ~ (j < k)
    <3> DEFINE i == j - 1
    <3>1. i \in 1 .. n - 1 /\ j = i + 1 /\ ~ (i < k)
      BY <1>1, <1>2, <1>3, <2>2
    <3> HIDE DEF i
    <3> QED
      BY <1>1, <1>2, <3>1 DEF In
  <2> QED
    BY <2>1, <2>2
<1>4. \A w : In(w, r) /\ ~ In(w, s) => w = r[k]
  BY <1>3 DEF In
<1> QED
  BY <1>4 DEF s

LEMMA ResultMaps == ASSUME Inv, Inv', FlagsExact, ResultNext PROVE Abstract!NetNext
<1> SUFFICES ASSUME NEW o \in OpIds, NEW k \in 1 .. MaxArity,
               \/ EraseOperand(o, k)
               \/ EraseResult(o, k)
               \/ \E v \in ValueIds : AddResult(o, v)
               \/ \E v \in ValueIds : InsertResult(o, k, v)
               \/ \E v \in ValueIds : ReplaceResult(o, k, v)
             PROVE  Abstract!NetNext
  BY DEF ResultNext
<1>1. CASE EraseOperand(o, k)
  <2>1. Abstract!EditIns(o)
    BY <1>1, EraseOperandMaps
  <2> QED
    BY <2>1 DEF Abstract!NetNext
<1>2. ASSUME NEW v \in ValueIds, AddResult(o, v) PROVE Abstract!NetNext
  <2> DEFINE s == Append(results[o], v)
  <2>1. o \in opAlive /\ SetResults(o, s) /\ DefStep /\ definingOp[v] = None
    BY <1>2 DEF AddResult
  <2>2. results[o] \in Seq(ValueIds)
    BY <2>1, ResultTypes
  <2>3. Abstract!OneEdit(results[o], s)
    BY <2>2, AppendIsOneEdit
  <2>4. ~ (Len(s) < Len(results[o])) /\ \A w : In(w, s) => w = v \/ In(w, results[o])
    BY <2>2 DEF In
  <2> HIDE DEF s
  <2>5. Abstract!EditOuts(o)
    BY <2>1, <2>3, <2>4, EditOutsMaps
  <2> QED
    BY <2>5 DEF Abstract!NetNext
<1>3. ASSUME NEW v \in ValueIds, InsertResult(o, k, v) PROVE Abstract!NetNext
  <2> DEFINE r == results[o]  s == InsertAt(results[o], k, v)
  <2>1. /\ o \in opAlive /\ SetResults(o, s) /\ DefStep /\ definingOp[v] = None /\ k \in 1 .. Len(r) + 1
    BY <1>3 DEF InsertResult
  <2>2. r \in Seq(ValueIds)
    BY <2>1, ResultTypes
  <2>3. Abstract!OneEdit(r, s)
    BY <2>1, <2>2, InsertIsOneEdit
  <2>4. /\ s \in Seq(ValueIds) /\ Len(s) = Len(r) + 1
        /\ \A i \in 1 .. k - 1 : s[i] = r[i]
        /\ s[k] = v
        /\ \A i \in k .. Len(r) : s[i + 1] = r[i]
    <3>1. results[o] \in Seq(ValueIds) /\ k \in 1 .. Len(results[o]) + 1
      BY <2>1, <2>2
    <3> QED BY <3>1, InsertAtProperties
  <2> HIDE DEF r, s
  <2>5. ASSUME NEW i \in DOMAIN s PROVE s[i] = v \/ \E j \in DOMAIN r : r[j] = s[i]
    <3>1. i \in 1 .. Len(r) + 1 /\ Len(r) \in Nat
      BY <2>2, <2>4
    <3>2. CASE i < k
      <4>1. i \in 1 .. k - 1 /\ i \in DOMAIN r
        BY <2>1, <2>2, <3>1, <3>2
      <4> QED
        BY <2>4, <4>1
    <3>3. CASE i = k
      BY <2>4, <3>3
    <3>4. CASE i > k
      <4> DEFINE j == i - 1
      <4>1. j \in k .. Len(r) /\ i = j + 1 /\ j \in DOMAIN r
        BY <2>1, <2>2, <3>1, <3>4
      <4> HIDE DEF j
      <4>2. s[i] = r[j]
        BY <2>4, <4>1
      <4> QED
        BY <4>1, <4>2
    <3> QED
      BY <2>1, <3>1, <3>2, <3>3, <3>4
  <2>6. \A w : In(w, s) => w = v \/ In(w, r)
    BY <2>5 DEF In
  <2>7. ~ (Len(s) < Len(r))
    BY <2>2, <2>4
  <2>8. Abstract!EditOuts(o)
    BY <2>1, <2>3, <2>6, <2>7, EditOutsMaps DEF r
  <2> QED
    BY <2>8 DEF Abstract!NetNext
<1>4. ASSUME NEW v \in ValueIds, ReplaceResult(o, k, v) PROVE Abstract!NetNext
  <2> DEFINE r == results[o]  s == [results[o] EXCEPT ![k] = v]
  <2>1. /\ o \in opAlive /\ SetResults(o, s) /\ DefStep /\ definingOp[v] = None /\ k \in DOMAIN r
    BY <1>4 DEF ReplaceResult
  <2>2. r \in Seq(ValueIds)
    BY <2>1, ResultTypes
  <2>3. Abstract!OneEdit(r, s)
    BY <2>1, <2>2, ExchangeIsOneEdit
  <2>4. ~ (Len(s) < Len(r)) /\ \A w : In(w, s) => w = v \/ In(w, r)
    BY <2>1, <2>2 DEF In
  <2> HIDE DEF r, s
  <2>5. Abstract!EditOuts(o)
    BY <2>1, <2>3, <2>4, EditOutsMaps DEF r
  <2> QED
    BY <2>5 DEF Abstract!NetNext
<1>5. CASE EraseResult(o, k)
  <2> DEFINE r == results[o]  s == RemoveAt(results[o], k)
  <2>1. /\ o \in opAlive /\ SetResults(o, s) /\ DefStep /\ k \in DOMAIN r
        /\ Unused(r[k]) /\ NoPort(r[k])
    BY <1>5 DEF EraseResult
  <2>2. r \in Seq(ValueIds) /\ k \in 1 .. Len(r)
    BY <2>1, ResultTypes
  <2>3. Abstract!OneEdit(r, s) /\ (\A w : In(w, r) /\ ~ In(w, s) => w = r[k])
    BY <2>2, RemoveIsOneEdit, RemovedMember
  <2>4. \A w : In(w, s) => In(w, r)
    <3> SUFFICES ASSUME NEW i \in DOMAIN s PROVE In(s[i], r)
      BY DEF In
    <3>1. /\ s \in Seq(ValueIds) /\ Len(s) = Len(r) - 1
          /\ \A j \in 1 .. Len(r) - 1 : s[j] = IF j < k THEN r[j] ELSE r[j + 1]
      BY <2>2, RemoveAtProperties
    <3> HIDE DEF r, s
    <3>2. i \in 1 .. Len(r) - 1 /\ i \in DOMAIN r /\ i + 1 \in DOMAIN r
      BY <2>2, <3>1
    <3> QED
      BY <3>1, <3>2 DEF In
  <2>5. r[k] \notin Bound /\ Unused(r[k])
    BY <2>1, NoPortUnbound
  <2> HIDE DEF s
  <2>6. Abstract!EditOuts(o)
    BY <2>1, <2>3, <2>4, <2>5, EditOutsMaps
  <2> QED
    BY <2>6 DEF Abstract!NetNext
<1> QED
  BY <1>1, <1>2, <1>3, <1>4, <1>5

-----------------------------------------------------------------------------
\* The use lists say who uses a value, the defining operation who makes it.
LEMMA UnusedMeans ==
  ASSUME Inv, NEW v \in valueAlive, NEW p \in opAlive, \A u \in Users : u[1] = p => valueUsers[v][u] = 0
  PROVE  ~ In(v, operands[p])
<1> SUFFICES ASSUME NEW k \in DOMAIN operands[p], operands[p][k] = v PROVE FALSE
  BY DEF In
<1>1. /\ p \in OpIds /\ k \in 1 .. Len(operands[p]) /\ Len(operands[p]) <= MaxArity /\ Len(operands[p]) \in Nat
      /\ valueUsers = UsesOf(operands, opAlive) /\ v \in ValueIds
  BY OperandTypes, Entries DEF Inv
<1>2. <<p, k>> \in Users
  BY <1>1 DEF Users
<1>3. valueUsers[v][<<p, k>>] = 1
  BY <1>1, <1>2 DEF UsesOf, UseAt
<1> QED
  BY <1>2, <1>3

LEMMA DropOpMaps ==
  ASSUME Inv, NEW o \in opAlive, RetireOp(o), operands' = operands,
         Unchecked \/ \A v \in ToSet(results[o]) : UnusedBut(v, o)
  PROVE  Abstract!DropOp(o)
<1>1. opAlive' = opAlive \ {o} /\ valueAlive' = valueAlive /\ results' = results /\ UNCHANGED portVars
  BY DEF RetireOp
<1>2. Bound' = Bound
  BY <1>1, BoundKept
<1>3. Ins' = Abstract!Without(Ins, o) /\ Outs' = Abstract!Without(Outs, o)
  BY <1>1 DEF Ins, Outs, Abstract!Without
<1>4. ASSUME ~ Unchecked, NEW p \in opAlive \ {o}, NEW v \in valueAlive,
             Abstract!Mentions(Outs[o], v), Abstract!Mentions(Ins[p], v)
      PROVE  FALSE
  <2>1. v \in ToSet(results[o]) /\ In(v, operands[p])
    BY <1>4 DEF Abstract!Mentions, Ins, Outs, In, ToSet
  <2>2. UnusedBut(v, o)
    BY <1>4, <2>1
  <2>3. \A u \in Users : u[1] = p => valueUsers[v][u] = 0
    BY <2>2 DEF UnusedBut
  <2> QED
    BY <2>1, <2>3, UnusedMeans
<1>5. Unchecked \/ \A p \in opAlive \ {o}, v \in valueAlive :
        ~ (Abstract!Mentions(Outs[o], v) /\ Abstract!Mentions(Ins[p], v))
  BY <1>4
<1> QED
  BY <1>1, <1>2, <1>3, <1>5 DEF Abstract!DropOp, Ins, Outs, Bound

LEMMA DropOpReplacingMaps ==
  ASSUME Inv, NEW o \in OpIds, NEW to \in ValueIds, EraseOpReplacing(o, to)
  PROVE  Abstract!DropOpReplacing(o, to)
<1> DEFINE from == results[o][1]
<1>1. /\ o \in opAlive /\ to \in valueAlive /\ RetireOp(o) /\ Len(results[o]) = 1
      /\ operands' = RewriteUses(operands, valueUsers, from, to, {o})
  BY DEF EraseOpReplacing
<1>2. from \in ValueIds
  BY <1>1, ResultTypes, Entries DEF Inv
<1>3. /\ operands \in Operands /\ valueUsers = UsesOf(operands, opAlive) /\ opAlive \subseteq OpIds
      /\ \A p \in OpIds : Len(operands[p]) <= MaxArity
  BY Entries DEF Inv, UsesOK
<1>4. opAlive' = opAlive \ {o} /\ valueAlive' = valueAlive /\ results' = results /\ UNCHANGED portVars
  BY <1>1 DEF RetireOp
<1> HIDE DEF from
<1>5. ASSUME NEW p \in opAlive \ {o} PROVE operands'[p] = Abstract!Replaced(operands[p], from, to)
  <2>1. p \in OpIds /\ operands[p] \in Seq(ValueIds) /\ DOMAIN operands[p] = 1 .. Len(operands[p])
    BY OperandTypes
  <2>2. /\ operands' \in Operands /\ Len(operands'[p]) = Len(operands[p])
        /\ \A k \in 1 .. Len(operands[p]) :
             operands'[p][k] = IF p \in opAlive \ {o} /\ operands[p][k] = from THEN to ELSE operands[p][k]
    BY <1>1, <1>2, <1>3, <2>1, Rewritten
  <2>3. operands'[p] \in Seq(ValueIds)
    BY <2>1, <2>2 DEF Operands
  <2> QED
    BY <2>1, <2>2, <2>3 DEF Abstract!Replaced
<1>6. Bound' = Bound
  BY <1>4, BoundKept
<1>7. Outs' = Abstract!Without(Outs, o)
  BY <1>4 DEF Outs, Abstract!Without
<1>8. Ins' = [p \in opAlive \ {o} |-> Abstract!Replaced(Ins[p], Outs[o][1], to)]
  BY <1>1, <1>4, <1>5 DEF Ins, Outs, from
<1>9. Len(Outs[o]) = 1
  BY <1>1 DEF Outs
<1> QED
  BY <1>1, <1>4, <1>6, <1>7, <1>8, <1>9 DEF Abstract!DropOpReplacing, Ins, Outs, Bound

LEMMA DropValueMaps ==
  ASSUME Inv, FlagsExact, NEW v \in valueAlive, Unused(v), NoPort(v), definingOp[v] = None, RetireValue(v)
  PROVE  Abstract!DropValue(v)
<1>1. /\ valueAlive' = valueAlive \ {v} /\ opAlive' = opAlive /\ operands' = operands /\ results' = results
      /\ UNCHANGED portVars
  BY DEF RetireValue, defVars
<1>2. Ins' = Ins /\ Outs' = Outs /\ Bound' = Bound
  BY <1>1, InsKept, OutsKept, BoundKept
<1>3. v \notin Bound
  BY NoPortUnbound
<1>4. \A p \in opAlive : ~ In(v, operands[p])
  BY UnusedMeans DEF Unused
<1>5. \A p \in opAlive : ~ In(v, results[p])
  BY Entries, NoneIsNoId DEF Inv, DefsOK, DefExact, In
<1>6. (\A p \in opAlive : ~ Abstract!Mentions(Ins[p], v)) /\ \A p \in opAlive : ~ Abstract!Mentions(Outs[p], v)
  BY <1>4, <1>5 DEF Ins, Outs, In, Abstract!Mentions
<1> QED
  BY <1>1, <1>2, <1>3, <1>6 DEF Abstract!DropValue, Abstract!Defined, Ins, Outs, Bound

LEMMA EraseMaps == ASSUME Inv, FlagsExact, EraseNext PROVE Abstract!NetNext
<1>1. ASSUME NEW o \in OpIds, EraseOp(o) \/ EraseOpUnchecked(o) PROVE Abstract!NetNext
  <2>1. Abstract!DropOp(o)
    BY <1>1, DropOpMaps DEF EraseOp, EraseOpUnchecked
  <2> QED
    BY <2>1 DEF Abstract!NetNext
<1>2. ASSUME NEW o \in OpIds, NEW v \in ValueIds, EraseOpReplacing(o, v) PROVE Abstract!NetNext
  <2>1. Abstract!DropOpReplacing(o, v)
    BY <1>2, DropOpReplacingMaps
  <2> QED
    BY <2>1 DEF Abstract!NetNext
<1>3. ASSUME NEW v \in ValueIds, EraseValue(v) \/ EraseValueUnchecked(v) PROVE Abstract!NetNext
  <2>1. Abstract!DropValue(v)
    BY <1>3, DropValueMaps DEF EraseValue, EraseValueUnchecked
  <2> QED
    BY <2>1 DEF Abstract!NetNext
<1> QED
  BY <1>1, <1>2, <1>3 DEF EraseNext

LEMMA SymbolMaps == ASSUME Inv, SymbolNext PROVE Abstract!NetNext \/ UNCHANGED Abstract!netlist
<1> SUFFICES ASSUME NEW sym \in Syms,
               \/ AddValue(sym) \/ AddOp(sym)
               \/ \E v \in ValueIds : SetValueSymbol(v, sym)
               \/ \E o \in OpIds : SetOpSymbol(o, sym)
             PROVE  Abstract!NetNext \/ UNCHANGED Abstract!netlist
  BY DEF SymbolNext
<1>1. CASE AddValue(sym)
  <2>1. PICK v \in ValueIds : v = valueCount + 1
    BY <1>1 DEF AddValue
  <2>2. Abstract!NewValue(v)
    BY <1>1, <2>1, AddValueMaps
  <2> QED
    BY <2>2 DEF Abstract!NetNext
<1>2. CASE AddOp(sym)
  <2>1. PICK o \in OpIds : o = opCount + 1
    BY <1>2 DEF AddOp
  <2>2. Abstract!NewOp(o)
    BY <1>2, <2>1, AddOpMaps
  <2> QED
    BY <2>2 DEF Abstract!NetNext
<1>3. CASE (\E v \in ValueIds : SetValueSymbol(v, sym)) \/ \E o \in OpIds : SetOpSymbol(o, sym)
  <2>1. UNCHANGED entryVars /\ UNCHANGED useVars /\ UNCHANGED defVars /\ UNCHANGED portVars
    BY <1>3 DEF SetValueSymbol, SetOpSymbol
  <2>2. Hidden
    BY <2>1, InsKept, OutsKept, BoundKept DEF entryVars, useVars, defVars, Hidden
  <2> QED
    BY <2>2, HiddenStutters
<1> QED
  BY <1>1, <1>2, <1>3

\* A port list that a call leaves behind, thrown or not, binds what it bound before and
\* live values.
LEMMA PortsGain ==
  ASSUME Inv, PortNext
  PROVE  /\ BoundValues(inputPorts') \subseteq BoundValues(inputPorts) \union valueAlive
         /\ BoundValues(outputPorts') \subseteq BoundValues(outputPorts) \union valueAlive
<1> PICK complete \in BOOLEAN : InputPortCall(complete) \/ OutputPortCall(complete) \/ InoutPortCall(complete)
  BY DEF PortNext
<1>0. PortTypes(inputPorts, outputPorts, inoutPorts)
  BY PortsTyped
<1>1. ASSUME InputPortCall(complete)
      PROVE  /\ outputPorts' = outputPorts
             /\ \A n \in PortNames : inputPorts'[n] \in {inputPorts[n], None} \union valueAlive
  <2>1. ASSUME NEW n \in PortNames, NEW v \in valueAlive \union {None}, SetInputPort(n, v)
        PROVE  /\ outputPorts' = outputPorts
               /\ \A m \in PortNames : inputPorts'[m] \in {inputPorts[m], None} \union valueAlive
    BY <1>0, <2>1 DEF SetInputPort, PortTypes
  <2>2. ASSUME NEW names \in SUBSET PortNames, BindInputPorts(names, complete)
        PROVE  /\ outputPorts' = outputPorts
               /\ \A m \in PortNames : inputPorts'[m] \in {inputPorts[m], None} \union valueAlive
    BY <1>0, <2>2 DEF BindInputPorts, PortTypes
  <2> QED
    BY <1>1, <2>1, <2>2 DEF InputPortCall, BindInputPort, RemoveInputPort
<1>2. ASSUME OutputPortCall(complete)
      PROVE  /\ inputPorts' = inputPorts
             /\ \A n \in PortNames : outputPorts'[n] \in {outputPorts[n], None} \union valueAlive
  <2>1. ASSUME NEW n \in PortNames, NEW v \in valueAlive \union {None}, SetOutputPort(n, v)
        PROVE  /\ inputPorts' = inputPorts
               /\ \A m \in PortNames : outputPorts'[m] \in {outputPorts[m], None} \union valueAlive
    BY <1>0, <2>1 DEF SetOutputPort, PortTypes
  <2>2. ASSUME NEW names \in SUBSET PortNames, BindOutputPorts(names, complete)
        PROVE  /\ inputPorts' = inputPorts
               /\ \A m \in PortNames : outputPorts'[m] \in {outputPorts[m], None} \union valueAlive
    BY <1>0, <2>2 DEF BindOutputPorts, PortTypes
  <2> QED
    BY <1>2, <2>1, <2>2 DEF OutputPortCall, BindOutputPort, RemoveOutputPort
<1>3. ASSUME InoutPortCall(complete) PROVE inputPorts' = inputPorts /\ outputPorts' = outputPorts
  BY <1>3 DEF InoutPortCall, BindInoutPort, RemoveInoutPort, SetInoutPort, BindInoutPorts
<1>4. CASE InputPortCall(complete)
  BY <1>1, <1>4, BoundMember
<1>5. CASE OutputPortCall(complete)
  BY <1>2, <1>5, BoundMember
<1>6. CASE InoutPortCall(complete)
  BY <1>3, <1>6
<1> QED
  BY <1>4, <1>5, <1>6

LEMMA PortMaps == ASSUME Inv, Inv', FlagsExact, PortNext PROVE Abstract!NetNext
<1>1. PortStep
  BY PortCallsLeave DEF PortNext
<1>2. valueAlive' = valueAlive /\ opAlive' = opAlive /\ operands' = operands /\ results' = results
  BY <1>1 DEF PortStep, entryVars, useVars, defVars
<1>3. Ins' = Ins /\ Outs' = Outs
  BY <1>2, InsKept, OutsKept
<1>4. Bound' \subseteq valueAlive
  <2>1. InoutValues(inoutPorts') \subseteq valueAlive
    BY <1>2 DEF Inv, PortsOK, InoutNeverErased, InoutValues
  <2> QED
    BY <2>1, BoundAlive, PortsGain DEF Bound
<1>5. Abstract!Rebind
  BY <1>2, <1>3, <1>4 DEF Abstract!Rebind, Ins, Outs, Bound
<1> QED
  BY <1>5 DEF Abstract!NetNext

LEMMA NextMaps ==
  ASSUME Inv, Inv', FlagsExact, [Next]_builderVars PROVE Abstract!NetNext \/ UNCHANGED Abstract!netlist
<1>1. CASE UNCHANGED builderVars
  <2>1. Hidden
    BY <1>1, InsKept, OutsKept, BoundKept DEF builderVars, portVars, Hidden
  <2> QED
    BY <2>1, HiddenStutters
<1>2. CASE Next
  BY <1>2, SymbolMaps, OperandMaps, ResultMaps, EraseMaps, PortMaps DEF Next
<1> QED
  BY <1>1, <1>2

LEMMA InitMaps == ASSUME Init PROVE Abstract!NetInit
<1>1. valueAlive = {} /\ opAlive = {}
  BY DEF Init
<1>2. Ins = <<>> /\ Outs = <<>>
  BY <1>1 DEF Ins, Outs
<1>3. Bound = {}
  <2>1. \A n \in PortNames : inputPorts[n] = None /\ outputPorts[n] = None
    BY DEF Init
  <2>2. \A n \in InoutNames : inoutPorts[n].in = None /\ inoutPorts[n].out = None /\ inoutPorts[n].oe = None
    BY DEF Init, Unbound
  <2> QED
    BY <2>1, <2>2, BoundMember, InoutMember DEF Bound
<1> QED
  BY <1>1, <1>2, <1>3 DEF Abstract!NetInit, Ins, Outs, Bound

\* The ports bind, after a freeze, what they bound before, at the new indices.
LEMMA FreezeBound == ASSUME Inv, Freeze PROVE Bound \subseteq valueAlive /\ Bound' = {NewV(v) : v \in Bound}
<1>1. Bound \subseteq valueAlive
  BY FreezeEntries DEF FreezeThrows, Dead, Bound
<1>2. /\ \A v \in valueAlive : NewV(v) # None
      /\ \A v : NewV(v) # None => v \in valueAlive
      /\ None \notin valueAlive
  BY Renumbering, NoneIsNoId DEF Inv
<1>3. /\ \A n \in PortNames : inputPorts'[n] = NewV(inputPorts[n]) /\ outputPorts'[n] = NewV(outputPorts[n])
      /\ \A n \in InoutNames : /\ inoutPorts'[n].in = NewV(inoutPorts[n].in)
                               /\ inoutPorts'[n].out = NewV(inoutPorts[n].out)
                               /\ inoutPorts'[n].oe = NewV(inoutPorts[n].oe)
  <2>1. \A n \in InoutNames : inoutPorts'[n] = MovedInout(inoutPorts[n])
    BY FreezePorts
  <2> QED
    BY <2>1, FreezePorts DEF MovedInout
<1>4. \A w : w \in BoundValues(inputPorts)' <=> \E v \in BoundValues(inputPorts) : w = NewV(v)
  <2> TAKE w
  <2>1. w \in BoundValues(inputPorts)' <=> w # None /\ \E n \in PortNames : w = NewV(inputPorts[n])
    BY <1>3 DEF BoundValues
  <2>2. \A v : v \in BoundValues(inputPorts) <=> v # None /\ \E n \in PortNames : v = inputPorts[n]
    BY BoundMember
  <2> QED
    BY <1>1, <1>2, <2>1, <2>2 DEF Bound
<1>5. \A w : w \in BoundValues(outputPorts)' <=> \E v \in BoundValues(outputPorts) : w = NewV(v)
  <2> TAKE w
  <2>1. w \in BoundValues(outputPorts)' <=> w # None /\ \E n \in PortNames : w = NewV(outputPorts[n])
    BY <1>3 DEF BoundValues
  <2>2. \A v : v \in BoundValues(outputPorts) <=> v # None /\ \E n \in PortNames : v = outputPorts[n]
    BY BoundMember
  <2> QED
    BY <1>1, <1>2, <2>1, <2>2 DEF Bound
<1>6. \A w : w \in InoutValues(inoutPorts)' <=> \E v \in InoutValues(inoutPorts) : w = NewV(v)
  <2> TAKE w
  <2>1. w \in InoutValues(inoutPorts)' <=>
          w # None /\ \E n \in InoutNames : \/ w = NewV(inoutPorts[n].in) \/ w = NewV(inoutPorts[n].out)
                                            \/ w = NewV(inoutPorts[n].oe)
    BY <1>3 DEF InoutValues
  <2>2. \A v : v \in InoutValues(inoutPorts) <=>
          v # None /\ \E n \in InoutNames : v = inoutPorts[n].in \/ v = inoutPorts[n].out \/ v = inoutPorts[n].oe
    BY InoutMember
  <2> QED
    BY <1>1, <1>2, <2>1, <2>2 DEF Bound
<1>7. \A w : w \in Bound' <=> \E v \in Bound : w = NewV(v)
  <2>1. \A w : w \in Bound' <=>
          w \in BoundValues(inputPorts)' \/ w \in BoundValues(outputPorts)' \/ w \in InoutValues(inoutPorts)'
    BY DEF Bound
  <2> QED
    BY <1>4, <1>5, <1>6, <2>1 DEF Bound
<1> QED
  BY <1>1, <1>7

\* New indices keep the order of the old ones.
LEMMA MovedIncreases ==
  ASSUME NEW n, NEW alive, Indices(n, alive) PROVE Abstract!Increasing([i \in alive |-> Moved(alive, i)])
<1>1. ASSUME NEW i \in alive, NEW k \in alive, i < k PROVE Moved(alive, i) < Moved(alive, k)
  BY <1>1, RankGrows DEF Moved
<1> QED
  BY <1>1 DEF Abstract!Increasing

LEMMA FreezeRenumbers == ASSUME Inv, Freeze PROVE Abstract!Renumber
<1> DEFINE f == [v \in valueAlive |-> NewV(v)]  g == [o \in opAlive |-> NewO(o)]
<1>1. f \in [valueAlive -> ValueIds] /\ g \in [opAlive -> OpIds]
  BY Renumbering DEF Inv
<1>2. Abstract!Increasing(f) /\ Abstract!Increasing(g)
  BY LiveEntries, MovedIncreases DEF Inv, NewV, NewO
<1>3. /\ valueAlive' = Compact(valueAlive) /\ opAlive' = Compact(opAlive)
      /\ Compact(opAlive) \subseteq OpIds
  BY FreezeEntries, Renumbering DEF Inv
<1>4. valueAlive' = {f[v] : v \in valueAlive} /\ opAlive' = {g[o] : o \in opAlive}
  BY <1>3, Renumbering DEF Inv
<1>5. Bound' = {f[v] : v \in Bound}
  BY FreezeBound
<1>6. DOMAIN Ins' = opAlive' /\ DOMAIN Outs' = opAlive'
  BY DEF Ins, Outs
<1>7. ASSUME NEW o \in opAlive
      PROVE  /\ Ins'[g[o]] = [k \in DOMAIN Ins[o] |-> f[Ins[o][k]]]
             /\ Outs'[g[o]] = [k \in DOMAIN Outs[o] |-> f[Outs[o][k]]]
  <2>1. g[o] = NewO(o) /\ NewO(o) \in opAlive' /\ NewO(o) \in OpIds /\ OldO(NewO(o)) = o
    BY <1>3, Renumbering DEF Inv
  <2>2. operands'[NewO(o)] = MovedList(operands[o]) /\ results'[NewO(o)] = MovedList(results[o])
    BY <2>1, FreezeEdges
  <2>3. /\ \A k \in DOMAIN operands[o] : operands[o][k] \in valueAlive
        /\ \A k \in DOMAIN results[o] : results[o][k] \in valueAlive
    BY DEF Inv, UsesOK, DefsOK
  <2>4. Ins'[g[o]] = MovedList(operands[o]) /\ Outs'[g[o]] = MovedList(results[o])
    BY <2>1, <2>2 DEF Ins, Outs
  <2>5. Ins[o] = operands[o] /\ Outs[o] = results[o]
    BY DEF Ins, Outs
  <2>6. /\ MovedList(operands[o]) = [k \in DOMAIN operands[o] |-> f[operands[o][k]]]
        /\ MovedList(results[o]) = [k \in DOMAIN results[o] |-> f[results[o][k]]]
    BY <2>3 DEF MovedList
  <2> QED
    BY <2>4, <2>5, <2>6
<1> HIDE DEF f, g
<1>8. \E ff \in [valueAlive -> ValueIds], gg \in [opAlive -> OpIds] :
        /\ Abstract!Increasing(ff) /\ Abstract!Increasing(gg)
        /\ valueAlive' = {ff[v] : v \in valueAlive} /\ Bound' = {ff[v] : v \in Bound}
        /\ opAlive' = {gg[o] : o \in opAlive}
        /\ DOMAIN Ins' = opAlive' /\ DOMAIN Outs' = opAlive'
        /\ \A o \in opAlive : /\ Ins'[gg[o]] = [k \in DOMAIN Ins[o] |-> ff[Ins[o][k]]]
                               /\ Outs'[gg[o]] = [k \in DOMAIN Outs[o] |-> ff[Outs[o][k]]]
  BY <1>1, <1>2, <1>4, <1>5, <1>6, <1>7
<1> QED
  BY <1>8 DEF Abstract!Renumber, Ins, Outs, Bound

-----------------------------------------------------------------------------
\* Each call of a graph is a call of the netlist, or changes nothing of it.
LEMMA GraphStepMaps ==
  ASSUME GraphInv, FlagsExact, GraphNext PROVE Abstract!NetNext \/ UNCHANGED Abstract!netlist
<1>0. Inv /\ Inv'
  BY GraphSteps DEF GraphInv
<1>a. ASSUME Next \/ UNCHANGED builderVars PROVE Abstract!NetNext \/ UNCHANGED Abstract!netlist
  BY <1>0, <1>a, NextMaps
<1>1. CASE Freeze
  <2>1. Abstract!Renumber
    BY <1>0, <1>1, FreezeRenumbers
  <2> QED
    BY <2>1 DEF Abstract!NetNext
<1>2. CASE Thaw
  BY <1>0, <1>2, <1>a, ThawRestores
<1>3. CASE ReadValues \/ ReadOperations \/ ReadPorts
  BY <1>3, <1>a DEF ReadValues, ReadOperations, ReadPorts
<1>4. ASSUME NEW sym \in Syms, CreateValue(sym) \/ CreateOperation(sym) \/ Rename(sym)
      PROVE  Abstract!NetNext \/ UNCHANGED Abstract!netlist
  <2>1. SymbolNext
    BY <1>4 DEF CreateValue, CreateOperation, Rename, SymbolNext
  <2> QED
    BY <1>a, <2>1 DEF Next
<1>5. CASE EditEdges
  BY <1>5, <1>a DEF EditEdges, Next
<1>6. ASSUME NEW o \in OpIds, EraseOperation(o) PROVE Abstract!NetNext \/ UNCHANGED Abstract!netlist
  <2>1. EraseNext
    BY <1>6 DEF EraseOperation, EraseNext
  <2> QED
    BY <1>a, <2>1 DEF Next
<1>7. ASSUME NEW v \in ValueIds, DeleteValue(v) PROVE Abstract!NetNext \/ UNCHANGED Abstract!netlist
  <2>1. EraseNext
    BY <1>7 DEF DeleteValue, EraseNext
  <2> QED
    BY <1>a, <2>1 DEF Next
<1>8. ASSUME NEW complete \in BOOLEAN,
             WriteInputPorts(complete) \/ WriteOutputPorts(complete) \/ WriteInoutPorts(complete)
      PROVE  Abstract!NetNext \/ UNCHANGED Abstract!netlist
  <2>1. PortNext
    BY <1>8 DEF WriteInputPorts, WriteOutputPorts, WriteInoutPorts, PortNext
  <2> QED
    BY <1>a, <2>1 DEF Next
<1>9. ASSUME NEW sym \in Declarable, Declare(sym) PROVE Abstract!NetNext \/ UNCHANGED Abstract!netlist
  BY <1>9, <1>a DEF Declare
<1> QED
  BY <1>1, <1>2, <1>3, <1>4, <1>5, <1>6, <1>7, <1>8, <1>9 DEF GraphNext

\* Every call of a graph that finds the port flags exact, freezes, thaws and calls that
\* throw included, is a call of the netlist that the API documents or changes nothing of
\* it: what the guards of the code ask of use lists, definitions and flags, the netlist
\* has as a whole.
THEOREM GraphImplementsNetlist == GraphSpec => RefinesNetlist
<1>1. GraphInit => Abstract!NetInit
  BY InitMaps DEF GraphInit
<1>2. GraphInv /\ [GraphNext]_graphVars => [FlagsExact => Abstract!NetNext]_(Abstract!netlist)
  <2> SUFFICES ASSUME GraphInv, [GraphNext]_graphVars, FlagsExact
               PROVE  Abstract!NetNext \/ UNCHANGED Abstract!netlist
    BY DEF Abstract!netlist
  <2>1. CASE UNCHANGED graphVars
    <3>1. UNCHANGED builderVars /\ Inv /\ Inv'
      BY <2>1, StutterKeepsInv DEF graphVars, GraphInv
    <3> QED
      BY <3>1, NextMaps
  <2> QED
    BY <2>1, GraphStepMaps
<1> QED
  BY <1>1, <1>2, GraphInvariance, PTL DEF GraphSpec, RefinesNetlist

\* The same for a builder by itself.
THEOREM BuilderImplementsNetlist == Spec => RefinesNetlist
<1>1. Init => Abstract!NetInit
  BY InitMaps
<1>2. Inv /\ [Next]_builderVars => [FlagsExact => Abstract!NetNext]_(Abstract!netlist)
  <2> SUFFICES ASSUME Inv, [Next]_builderVars, FlagsExact PROVE Abstract!NetNext \/ UNCHANGED Abstract!netlist
    BY DEF Abstract!netlist
  <2>1. Inv'
    BY SymbolSteps, OperandSteps, ResultSteps, EraseSteps, PortSteps, StutterKeepsInv DEF Next
  <2> QED
    BY <2>1, NextMaps
<1> QED
  BY <1>1, <1>2, Invariance, PTL DEF Spec, RefinesNetlist

-----------------------------------------------------------------------------
(* What GraphInv says to the clients of a graph. *)

\* While no port call throws, a list that a mutable graph has cached is what a rebuild
\* would give, in the same order.
THEOREM CachesStayCoherent == GraphSpec => [](~ PortCallsFail => CachesCoherent)
<1>1. GraphInv => (~ PortCallsFail => CachesCoherent)
  BY GraphInvImplies
<1> QED
  BY <1>1, GraphInvariance, PTL

\* While no port call throws, a frozen graph can be thawed: what fromView() computes
\* again is what the view says.
THEOREM ThawingNeverThrows == GraphSpec => [](~ PortCallsFail => ThawNeverFails)
<1>1. GraphInv => (~ PortCallsFail => ThawNeverFails)
  BY GraphInvImplies
<1> QED
  BY <1>1, GraphInvariance, PTL

\* While no port call throws, a mutable graph can be frozen: no edge and no port
\* refers to an erased value.
THEOREM FreezingNeverThrows == GraphSpec => [](~ PortCallsFail => FreezeNeverFails)
<1>1. GraphInv => (~ PortCallsFail => FreezeNeverFails)
  BY GraphInvImplies
<1> QED
  BY <1>1, GraphInvariance, PTL

\* What the builder keeps in step stays in step through freezes and thaws, and while
\* no port call throws so do the ports.
THEOREM GraphBookkeeping ==
  GraphSpec => [](/\ UseListExact /\ DefExact /\ NoDanglingEdge /\ SymbolIndexExact /\ InoutNeverErased
                  /\ ~ PortCallsFail => FlagsExact /\ BoundNeverErased)
<1>1. GraphInv => /\ UseListExact /\ DefExact /\ NoDanglingEdge /\ SymbolIndexExact /\ InoutNeverErased
                  /\ ~ PortCallsFail => FlagsExact /\ BoundNeverErased
  BY InvImplies DEF GraphInv, Inv, PortsOK
<1> QED
  BY <1>1, GraphInvariance, PTL
=============================================================================
