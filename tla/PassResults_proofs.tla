-------------------------- MODULE PassResults_proofs -------------------------
(***************************************************************************)
(* Lists, as the passes walk them, and the results of passes: a pass that  *)
(* reports neither a change nor a failure hands back what it was given.    *)
(***************************************************************************)
EXTENDS PassPipeline, FiniteSetTheorems, TLAPS

-----------------------------------------------------------------------------
(* Lists.                                                                  *)

(* Every nonempty set of naturals has a least element: of the intervals      *)
(* 0..k, ordered by inclusion, one is minimal.                               *)
LEMMA LeastNatural ==
  ASSUME NEW S \in SUBSET Nat, S # {}
  PROVE  \E m \in S : \A k \in S : m <= k
<1> DEFINE T == {0..k : k \in S}
           L == StrictSubsetOrdering(Nat)
<1>1. T \subseteq FiniteSubsetsOf(Nat) /\ T # {}
  <2>1. \A k \in S : IsFiniteSet(0..k) /\ 0..k \subseteq Nat
    BY FS_Interval
  <2> QED BY <2>1 DEF FiniteSubsetsOf
<1>2. IsWellFoundedOn(L, FiniteSubsetsOf(Nat))
  BY FS_StrictSubsetOrderingWellFounded
<1> HIDE DEF L, T
<1>3. \E x \in T : \A y \in T : <<y, x>> \notin L
  BY <1>1, <1>2, WFMin
<1>4. PICK m \in S : \A k \in S : <<0..k, 0..m>> \notin L
  BY <1>3 DEF T
<1>5. ASSUME NEW k \in S, ~(m <= k)
      PROVE  FALSE
  <2>1. 0..k \subseteq 0..m /\ m \in 0..m /\ m \notin 0..k /\ 0..m \subseteq Nat
    BY <1>5
  <2> DEFINE low == 0..k  high == 0..m
  <2>2. low \subseteq high /\ low # high /\ high \subseteq Nat
    BY <2>1
  <2> HIDE DEF low, high
  <2>3. <<low, high>> \in L
    BY <2>2 DEF L, StrictSubsetOrdering
  <2> QED BY <1>4, <2>3 DEF low, high
<1> QED BY <1>5

LEMMA SetToSeqIsList ==
  ASSUME NEW S, IsFiniteSet(S)
  PROVE  /\ SetToSeq(S) \in [1..Cardinality(S) -> S]
         /\ Cardinality(S) \in Nat
<1>1. Cardinality(S) \in Nat /\ ExistsBijection(1..Cardinality(S), S)
  BY FS_CardinalityType
<1> DEFINE C == 1..Cardinality(S)
<1>2. \E f \in [C -> S] : IsInjective(f)
  BY <1>1 DEF ExistsBijection, Bijection, Injection
<1> HIDE DEF C
<1>3. SetToSeq(S) \in [C -> S]
  BY <1>2 DEF SetToSeq, C
<1> QED BY <1>1, <1>3 DEF C

LEMMA GraphNamesIsList ==
  ASSUME NEW S, IsFiniteSet(S)
  PROVE  /\ Guards!SetToSeq(S) \in [1..Cardinality(S) -> S]
         /\ Xmr!SetToSeq(S) \in [1..Cardinality(S) -> S]
         /\ Cardinality(S) \in Nat
<1>1. Guards!SetToSeq(S) = SetToSeq(S) /\ Xmr!SetToSeq(S) = SetToSeq(S)
  BY Zenon DEF Guards!SetToSeq, Xmr!SetToSeq, SetToSeq, Guards!IsInjective, Xmr!IsInjective, IsInjective,
         Guards!Cardinality, Xmr!Cardinality, Cardinality
<1> QED BY <1>1, SetToSeqIsList

(* Ascending(S, n) is defined with a function on 0..n: IsUpto says which.    *)
IsUpto(S, n, f) ==
  f = [k \in 0..n |-> IF k = 0 THEN <<>> ELSE IF k \in S THEN Append(f[k - 1], k) ELSE f[k - 1]]
Upto(S, n) == CHOOSE f : IsUpto(S, n, f)
LEMMA AscendingIsUpto ==
  ASSUME NEW S, NEW n
  PROVE  Ascending(S, n) = Upto(S, n)[n]
  BY Zenon DEF Ascending, Upto, IsUpto

(* It exists: one more number at a time.                                     *)
UptoMore(S, d, e, f, x) ==
  [k \in 0..x |-> IF k < x THEN f[k] ELSE IF x \in S THEN Append(f[x - 1], x) ELSE f[x - 1]]
UptoHas(S, d, e, i, f) == IsUpto(S, i, f)
UptoFold == INSTANCE FoldRule WITH Op <- UptoMore, P <- UptoHas

LEMMA UptoExists ==
  ASSUME NEW S, NEW n \in Nat
  PROVE  IsUpto(S, n, Upto(S, n))
<1> DEFINE s == [k \in 1..n |-> k]
           base == [k \in 0..0 |-> <<>>]
<1>1. DOMAIN s = 1..n /\ UptoHas(S, 0, 0, 0, base)
  BY DEF UptoHas, IsUpto
<1>2. ASSUME NEW i \in 1..n, NEW f, UptoHas(S, 0, 0, i - 1, f)
      PROVE  UptoHas(S, 0, 0, i, UptoMore(S, 0, 0, f, s[i]))
  <2> DEFINE g == UptoMore(S, 0, 0, f, i)
             h == [k \in 0..i |-> IF k = 0 THEN <<>> ELSE IF k \in S THEN Append(g[k - 1], k) ELSE g[k - 1]]
             e == [k \in 0..(i - 1) |-> IF k = 0 THEN <<>> ELSE IF k \in S THEN Append(f[k - 1], k) ELSE f[k - 1]]
  <2>1. f = e
    BY <1>2 DEF UptoHas, IsUpto
  <2>2. \A k \in 0..(i - 1) : f[k] = IF k = 0 THEN <<>> ELSE IF k \in S THEN Append(f[k - 1], k) ELSE f[k - 1]
    <3> HIDE DEF g, h
    <3> QED BY <2>1
  <2>3. \A k \in 0..(i - 1) : g[k] = f[k]
    BY DEF UptoMore
  <2>4. g[i] = IF i \in S THEN Append(g[i - 1], i) ELSE g[i - 1]
    BY <2>3 DEF UptoMore
  <2>5. DOMAIN g = 0..i /\ g = [k \in 0..i |-> g[k]]
    BY DEF UptoMore
  <2> HIDE DEF g, e
  <2>6. \A k \in 0..i : g[k] = IF k = 0 THEN <<>> ELSE IF k \in S THEN Append(g[k - 1], k) ELSE g[k - 1]
    <3> TAKE k \in 0..i
    <3>1. CASE k = i
      BY <2>4, <3>1
    <3>2. CASE k \in 0..(i - 1)
      <4>1. k = 0 \/ k - 1 \in 0..(i - 1)
        BY <3>2
      <4> QED BY <2>2, <2>3, <3>2, <4>1
    <3> QED BY <3>1, <3>2
  <2>7. g = h
    BY <2>5, <2>6
  <2> QED BY <2>7 DEF UptoHas, IsUpto, g
<1> HIDE DEF s, base
<1>3. UptoHas(S, 0, 0, n, UptoFold!Folded(S, 0, 0, base, s))
  BY <1>1, <1>2, LeastNatural, UptoFold!Fold
<1> QED BY <1>3 DEF UptoHas, Upto

(* A fold that computes nothing is induction over 1..n.                      *)
Idle(c, d, e, acc, x) == acc
UptoLists(f, S, e, i, acc) ==
  /\ f[i] \in Seq(S \cap Nat)
  /\ \A x \in S : x \in 1..i => \E k \in 1..Len(f[i]) : f[i][k] = x
UptoInduction == INSTANCE FoldRule WITH Op <- Idle, P <- UptoLists

LEMMA AscendingIsList ==
  ASSUME NEW S, NEW n \in Nat
  PROVE  /\ Ascending(S, n) \in Seq(S \cap Nat)
         /\ \A x \in S : x \in 1..n => \E k \in 1..Len(Ascending(S, n)) : Ascending(S, n)[k] = x
<1> DEFINE f == Upto(S, n)
           s == [k \in 1..n |-> k]
<1>1. \A k \in 0..n : f[k] = IF k = 0 THEN <<>> ELSE IF k \in S THEN Append(f[k - 1], k) ELSE f[k - 1]
  <2>1. IsUpto(S, n, f)
    BY UptoExists
  <2> HIDE DEF f
  <2> QED BY <2>1 DEF IsUpto
<1> HIDE DEF f
<1>2. UptoLists(f, S, 0, 0, 0)
  <2>1. f[0] = <<>>
    BY <1>1
  <2> QED BY <2>1 DEF UptoLists
<1>3. ASSUME NEW i \in 1..n, UptoLists(f, S, 0, i - 1, 0)
      PROVE  UptoLists(f, S, 0, i, 0)
  <2> DEFINE a == f[i - 1]
  <2>1. /\ a \in Seq(S \cap Nat) /\ f[i] = IF i \in S THEN Append(a, i) ELSE a
        /\ \A x \in S : x \in 1..(i - 1) => \E k \in 1..Len(a) : a[k] = x
    BY <1>1, <1>3 DEF UptoLists
  <2> HIDE DEF a
  <2>2. CASE i \in S
    <3>1. f[i] = Append(a, i) /\ i \in S \cap Nat
      BY <2>1, <2>2
    <3>2. f[i] \in Seq(S \cap Nat) /\ Len(f[i]) = Len(a) + 1 /\ f[i][Len(a) + 1] = i
          /\ \A k \in 1..Len(a) : f[i][k] = a[k]
      BY <2>1, <3>1
    <3>3. ASSUME NEW x \in S, x \in 1..i
          PROVE  \E k \in 1..Len(f[i]) : f[i][k] = x
      <4>1. Len(a) \in Nat
        BY <2>1
      <4>2. CASE x = i
        BY <3>2, <4>1, <4>2
      <4>3. CASE x \in 1..(i - 1)
        BY <2>1, <3>2, <4>1, <4>3
      <4> QED BY <3>3, <4>2, <4>3
    <3> QED BY <3>2, <3>3 DEF UptoLists
  <2>3. CASE i \notin S
    <3>1. f[i] = a /\ \A x \in S : x \in 1..i => x \in 1..(i - 1)
      BY <2>1, <2>3
    <3> QED BY <2>1, <3>1 DEF UptoLists
  <2> QED BY <2>2, <2>3
<1>4. \A i \in 1..n : \A acc : UptoLists(f, S, 0, i - 1, acc) => UptoLists(f, S, 0, i, Idle(f, S, 0, acc, s[i]))
  BY <1>3 DEF UptoLists
<1>5. DOMAIN s = 1..n
  OBVIOUS
<1> HIDE DEF s
<1>6. UptoLists(f, S, 0, n, UptoInduction!Folded(f, S, 0, 0, s))
  BY <1>2, <1>4, <1>5, LeastNatural, UptoInduction!Fold
<1> QED BY <1>6, AscendingIsUpto DEF f, UptoLists

LEMMA ListOfSeq ==
  ASSUME NEW S, NEW s \in Seq(S)
  PROVE  IsList(s) /\ DOMAIN s = 1..Len(s)
  BY DEF IsList
LEMMA SeqOfList ==
  ASSUME NEW s, IsList(s)
  PROVE  \E S : s \in Seq(S)
<1> DEFINE S == {s[i] : i \in 1..Len(s)}
           t == [i \in 1..Len(s) |-> s[i]]
<1>1. Len(s) \in Nat /\ s = t
  BY DEF IsList
<1>2. t \in Seq(S)
  BY <1>1
<1> QED BY Zenon, <1>1, <1>2
LEMMA AppendIsList ==
  ASSUME NEW s, IsList(s), NEW e
  PROVE  IsList(Append(s, e))
<1>1. PICK S : s \in Seq(S)
  BY SeqOfList
<1>2. Append(s, e) \in Seq(S \cup {e})
  BY <1>1
<1> QED BY <1>2, ListOfSeq

-----------------------------------------------------------------------------
(* A pass that neither failed nor reports a change returns what it got.    *)
(* First the passes on one graph.                                          *)

Quiet(r)         == ~r.changed /\ ~r.failed
QuietGraph(r, g) == Quiet(r) => r.g = g
QuietDesign(r, d) == Quiet(r) => r.d = d

LEMMA ComparedQuiet ==
  ASSUME NEW g, NEW h, NEW changed, NEW failed, changed \/ h = g
  PROVE  QuietGraph(Result(h, changed, failed), g) /\ QuietGraph(Slice!Result(h, changed, failed), g)
  BY DEF QuietGraph, Quiet, Result, Slice!Result

LEMMA SliceQuiet ==
  ASSUME NEW g
  PROVE  QuietGraph(Slice!SliceIndexConst(g), g)
<1>1. PICK h : Slice!SliceIndexConst(g) = Slice!Result(h, h # g, FALSE)
  BY Zenon DEF Slice!SliceIndexConst
<1>2. (h # g) \/ h = g
  OBVIOUS
<1>3. QuietGraph(Slice!Result(h, h # g, FALSE), g)
  BY Zenon, <1>2, ComparedQuiet
<1> QED BY Zenon, <1>1, <1>3

LEMMA InitCheckQuiet ==
  ASSUME NEW g
  PROVE  QuietGraph(MemoryInitCheck(g), g)
<1>1. PICK failed : MemoryInitCheck(g) = Result(g, FALSE, failed)
  BY Zenon DEF MemoryInitCheck
<1> QED BY <1>1 DEF QuietGraph, Quiet, Result

LEMMA MemToRegQuiet ==
  ASSUME NEW g, NEW rowLimit, NEW strictInit
  PROVE  QuietGraph(MemToReg(g, rowLimit, strictInit), g)
<1>1. PICK h : MemToReg(g, rowLimit, strictInit) = Compared(g, h)
  BY Zenon DEF MemToReg
<1>2. (h # g) \/ h = g
  OBVIOUS
<1>3. QuietGraph(Result(h, h # g, FALSE), g)
  BY Zenon, <1>2, ComparedQuiet
<1> QED BY Zenon, <1>1, <1>3 DEF Compared

(* memory-read-retime has nothing to rewrite when it reports no change.      *)
Candidates(g, keep) == SelectSeq(OpIds(g), LAMBDA o : IsCandidate(g, o, keep))
RetimeStep(g, keep, e, h, o) ==
    IF IsRom(g, o, keep) THEN RetimeRom(h, Candidate(g, o)) ELSE RetimeRam(h, Candidate(g, o))
RetimeKept(g, keep, e, i, h) == i = 0 => h = g
RetimeFold == INSTANCE FoldRule WITH Op <- RetimeStep, P <- RetimeKept
LEMMA RetimeIsFold ==
  ASSUME NEW g, NEW keep
  PROVE  MemoryReadRetime(g, keep)
           = Result(RetimeFold!Folded(g, keep, 0, g, Candidates(g, keep)), Candidates(g, keep) # <<>>, FALSE)
  BY Zenon DEF MemoryReadRetime, RetimeFold!Folded, FoldLeft, MapThenFoldSet, Max, RetimeFold!Last,
         RetimeStep, Candidates
LEMMA RetimeQuiet ==
  ASSUME NEW g, NEW keep
  PROVE  QuietGraph(MemoryReadRetime(g, keep), g)
<1> SUFFICES ASSUME Candidates(g, keep) = <<>>
             PROVE  RetimeFold!Folded(g, keep, 0, g, Candidates(g, keep)) = g
  BY RetimeIsFold DEF QuietGraph, Quiet, Result
<1>1. DOMAIN <<>> = 1..0 /\ \A i \in 1..0 : FALSE
  OBVIOUS
<1>2. RetimeKept(g, keep, 0, 0, RetimeFold!Folded(g, keep, 0, g, <<>>))
  BY <1>1, LeastNatural, RetimeFold!Fold DEF RetimeKept
<1> QED BY <1>2 DEF RetimeKept

(* latch-transparent-read: every latch changes the graph, fails, or leaves   *)
(* it alone.                                                                 *)
LatchStep(g, d, e, r, s) == OpenLatch(r, g, s)
LatchKept(g, d, e, i, r) ==
  /\ {"g", "changed", "failed"} \subseteq DOMAIN r
  /\ QuietGraph(r, g)
LatchFold == INSTANCE FoldRule WITH Op <- LatchStep, P <- LatchKept
LatchShort(g) == \E o \in DOMAIN g.ops : ShortWrite(g, o)
LEMMA LatchIsFold ==
  ASSUME NEW g
  PROVE  LatchTransparentRead(g)
           = LatchFold!Folded(g, 0, 0, Result(g, FALSE, LatchShort(g)), SetToSeq(LatchSymbols(g) \ {Tmp}))
  BY Zenon DEF LatchTransparentRead, LatchFold!Folded, FoldLeft, MapThenFoldSet, Max, LatchFold!Last,
         LatchStep, LatchShort
LEMMA LatchSymbolsFinite ==
  ASSUME NEW g, IsFiniteSet(DOMAIN g.ops)
  PROVE  IsFiniteSet(LatchSymbols(g) \ {Tmp})
<1> DEFINE A == {o \in DOMAIN g.ops : Kind(g, o) = "kLatch"}
           B == {o \in DOMAIN g.ops : /\ Kind(g, o) \in {"kLatchWritePort", "kLatchReadPort"}
                                    /\ ~ShortWrite(g, o)}
           SA == {g.ops[o].sym : o \in A}
           SB == {Attr(g, o, "target", Tmp) : o \in B}
<1>1. IsFiniteSet(A) /\ IsFiniteSet(B)
  BY FS_Subset
<1>2. LatchSymbols(g) = SA \cup SB
  BY DEF LatchSymbols
<1> HIDE DEF A, B
<1>3. IsFiniteSet(SA)
  <2> DEFINE f == [o \in A |-> g.ops[o].sym]
  <2>1. f \in Surjection(A, SA)
    BY Zenon DEF Surjection
  <2> QED BY <1>1, <2>1, FS_Surjection
<1>4. IsFiniteSet(SB)
  <2> DEFINE f == [o \in B |-> Attr(g, o, "target", Tmp)]
  <2>1. f \in Surjection(B, SB)
    BY Zenon DEF Surjection
  <2> QED BY <1>1, <2>1, FS_Surjection
<1> HIDE DEF SA, SB
<1>5. IsFiniteSet(SA \cup SB)
  BY <1>3, <1>4, FS_Union
<1>6. (SA \cup SB) \ {Tmp} \in SUBSET (SA \cup SB)
  OBVIOUS
<1>7. IsFiniteSet((SA \cup SB) \ {Tmp})
  BY <1>5, <1>6, FS_Subset
<1> QED BY <1>2, <1>7
LEMMA LatchQuiet ==
  ASSUME NEW g, IsFiniteSet(DOMAIN g.ops)
  PROVE  QuietGraph(LatchTransparentRead(g), g)
<1> DEFINE s == SetToSeq(LatchSymbols(g) \ {Tmp})
           base == Result(g, FALSE, LatchShort(g))
<1>1. PICK n \in Nat : DOMAIN s = 1..n
  BY SetToSeqIsList, LatchSymbolsFinite
<1>2. LatchKept(g, 0, 0, 0, base)
  BY DEF LatchKept, QuietGraph, Quiet, Result
<1> HIDE DEF s, base
<1>3. ASSUME NEW i \in 1..n, NEW r, LatchKept(g, 0, 0, i - 1, r)
      PROVE  LatchKept(g, 0, 0, i, LatchStep(g, 0, 0, r, s[i]))
  <2>1. \/ LatchStep(g, 0, 0, r, s[i]) = r
        \/ LatchStep(g, 0, 0, r, s[i]) = [r EXCEPT !.failed = TRUE]
        \/ \E h : LatchStep(g, 0, 0, r, s[i]) = Result(h, TRUE, r.failed)
    <3>1. PICK reads, h :
             OpenLatch(r, g, s[i]) =
                CASE LatchDecl(g, s[i]) = 0 \/ Len(LatchWrites(g, s[i])) > 1 -> [r EXCEPT !.failed = TRUE]
                  [] LatchWrites(g, s[i]) = <<>> \/ reads = <<>> -> r
                  [] OTHER -> Result(h, TRUE, r.failed)
      BY Zenon DEF OpenLatch
    <3> QED BY Zenon, <3>1 DEF LatchStep
  <2> DEFINE q == [r EXCEPT !.failed = TRUE]
  <2>2. DOMAIN q = DOMAIN r /\ q.failed
    BY <1>3 DEF LatchKept
  <2> HIDE DEF q
  <2>3. CASE LatchStep(g, 0, 0, r, s[i]) = q
    BY <1>3, <2>2, <2>3 DEF LatchKept, QuietGraph, Quiet
  <2>4. ASSUME NEW h, LatchStep(g, 0, 0, r, s[i]) = Result(h, TRUE, r.failed)
        PROVE  LatchKept(g, 0, 0, i, LatchStep(g, 0, 0, r, s[i]))
    BY <2>4 DEF LatchKept, QuietGraph, Quiet, Result
  <2> QED BY <1>3, <2>1, <2>3, <2>4 DEF q, LatchKept
<1>4. LatchKept(g, 0, 0, n, LatchFold!Folded(g, 0, 0, base, s))
  BY <1>1, <1>2, <1>3, LeastNatural, LatchFold!Fold
<1> QED BY <1>4, LatchIsFold DEF LatchKept, s, base

-----------------------------------------------------------------------------
(* strip-debug.                                                            *)

StripStep(c, d, e, r, n) == Strip!Both(r, Strip!Split(r.d, n))
StripKept(c, d, e, i, r) ==
  /\ r = [d |-> r.d, changed |-> r.changed, failed |-> r.failed, err |-> r.err]
  /\ r.changed \/ r.failed \/ r.d = c
StripFold == INSTANCE FoldRule WITH Op <- StripStep, P <- StripKept

LEMMA StripIsFold ==
  ASSUME NEW d, NEW tops, NEW path
  PROVE  Strip!StripDebug(d, tops, path)
           = StripFold!Folded(d, 0, 0, Strip!DesignResult(d, FALSE, path # <<>> /\ Strip!StripTargets(d, tops, path) = <<>>),
                              Strip!StripTargets(d, tops, path))
  BY Zenon DEF Strip!StripDebug, StripFold!Folded, Strip!FoldLeft, Strip!MapThenFoldSet, Strip!Max,
         StripFold!Last, StripStep

LEMMA StripTargetsIsList ==
  ASSUME NEW d, NEW tops, IsList(tops), NEW path
  PROVE  \E n \in Nat : DOMAIN Strip!StripTargets(d, tops, path) = 1..n
<1>1. \E n \in Nat : DOMAIN tops = 1..n
  BY DEF IsList
<1>2. DOMAIN <<>> = 1..0 /\ \A x : DOMAIN <<x>> = 1..1
  OBVIOUS
<1>3. \/ Strip!StripTargets(d, tops, path) = tops
      \/ Strip!StripTargets(d, tops, path) = <<>>
      \/ \E x : Strip!StripTargets(d, tops, path) = <<x>>
  BY Zenon DEF Strip!StripTargets
<1> QED BY <1>1, <1>2, <1>3

LEMMA StripQuiet ==
  ASSUME NEW d, NEW tops, IsList(tops), NEW path,
         ~Strip!StripDebug(d, tops, path).changed, ~Strip!StripDebug(d, tops, path).failed
  PROVE  Strip!StripDebug(d, tops, path).d = d
<1> DEFINE s == Strip!StripTargets(d, tops, path)
           base == Strip!DesignResult(d, FALSE, path # <<>> /\ s = <<>>)
<1>1. PICK n \in Nat : DOMAIN s = 1..n
  BY StripTargetsIsList
<1>2. StripKept(d, 0, 0, 0, base)
  BY DEF StripKept, Strip!DesignResult
<1> HIDE DEF s, base
<1>3. ASSUME NEW i \in 1..n, NEW r, StripKept(d, 0, 0, i - 1, r)
      PROVE  StripKept(d, 0, 0, i, StripStep(d, 0, 0, r, s[i]))
  <2>1. r.changed \/ r.failed \/ r.d = d
    BY <1>3 DEF StripKept
  <2>2. Strip!Split(r.d, s[i]) = Strip!DesignResult(r.d, FALSE, FALSE)
        \/ Strip!Split(r.d, s[i]).changed \/ Strip!Split(r.d, s[i]).failed
    BY DEF Strip!Split, Strip!DesignResult
  <2>3. Strip!DesignResult(r.d, FALSE, FALSE).d = r.d
    BY DEF Strip!DesignResult
  <2> QED BY <2>1, <2>2, <2>3 DEF StripKept, StripStep, Strip!Both, Strip!DesignResult
<1>4. StripKept(d, 0, 0, n, StripFold!Folded(d, 0, 0, base, s))
  BY <1>1, <1>2, <1>3, LeastNatural, StripFold!Fold
<1> QED BY <1>4, StripIsFold DEF s, base, StripKept
-----------------------------------------------------------------------------
(* The passes on a design.                                                 *)

IsFunction(d) == d = [n \in DOMAIN d |-> d[n]]
LEMMA UnchangedAt ==
  ASSUME NEW d, IsFunction(d), NEW n
  PROVE  [d EXCEPT ![n] = d[n]] = d
<1> DEFINE e == [d EXCEPT ![n] = d[n]]
<1>1. DOMAIN e = DOMAIN d /\ \A m \in DOMAIN d : e[m] = d[m]
  BY Zenon
<1>2. e = [m \in DOMAIN e |-> e[m]]
  BY Zenon
<1> HIDE DEF e
<1>3. e = d
  BY <1>1, <1>2 DEF IsFunction
<1> QED BY <1>3 DEF e

(* What a pass answers when it refuses, finds nothing, or rewrites.          *)
LEMMA AnswersQuiet ==
  ASSUME NEW d, NEW e, NEW failed
  PROVE  /\ QuietDesign(Hier!DesignResult(d, FALSE, failed), d)
         /\ QuietDesign(Guards!DesignResult(d, FALSE, failed), d)
         /\ QuietDesign(Guards!DesignResult(e, TRUE, failed), d)
         /\ QuietDesign(Cut!DesignResult(d, FALSE, failed), d)
         /\ QuietDesign(Cut!DesignResult(e, TRUE, failed), d)
         /\ QuietDesign(Hier!DesignResult(e, ~failed, failed), d)
         /\ QuietDesign(Cut!DesignResult(e, failed, ~failed), d)
  BY DEF QuietDesign, Quiet, Hier!DesignResult, Guards!DesignResult, Cut!DesignResult

LEMMA BlackboxQuiet ==
  ASSUME NEW d
  PROVE  QuietDesign(Guards!BlackboxGuard(d), d)
<1>1. \/ Guards!BlackboxGuard(d) = Guards!DesignResult(d, FALSE, FALSE)
      \/ \E e : Guards!BlackboxGuard(d) = Guards!DesignResult(e, TRUE, FALSE)
  BY Zenon DEF Guards!BlackboxGuard
<1> QED BY Zenon, <1>1, AnswersQuiet

LEMMA MultidrivenQuiet ==
  ASSUME NEW d
  PROVE  QuietDesign(Guards!MultidrivenGuard(d), d)
<1>1. \E failed : Guards!MultidrivenGuard(d) = Guards!DesignResult(d, FALSE, failed)
  BY Zenon DEF Guards!MultidrivenGuard
<1> QED BY Zenon, <1>1, AnswersQuiet

LEMMA InlineQuiet ==
  ASSUME NEW d, NEW path
  PROVE  QuietDesign(Hier!InstanceInline(d, path), d)
<1> DEFINE at == Hier!ResolvePath(d, path)
           op == d[at.in].ops[at.op]
           child == d[op.a.module]
           prefix == Hier!FoldLeft(Hier!HierName, "", Tail(path))
<1>1. \/ Hier!InstanceInline(d, path) = Hier!Refuse(d)
      \/ Hier!InstanceInline(d, path) = Hier!InlineAt(d, at, op, child, Hier!AllPairs(child, op), prefix)
  BY Zenon DEF Hier!InstanceInline
<1> HIDE DEF at, op, child, prefix
<1>2. \A pairs : \E s : Hier!InlineAt(d, at, op, child, pairs, prefix) = Hier!InlinedAt(d, at, s)
  BY Zenon DEF Hier!InlineAt
<1>3. \A s : QuietDesign(Hier!InlinedAt(d, at, s), d)
  BY Zenon, AnswersQuiet DEF Hier!InlinedAt
<1>4. QuietDesign(Hier!Refuse(d), d)
  BY Zenon, AnswersQuiet DEF Hier!Refuse
<1> QED BY Zenon, <1>1, <1>2, <1>3, <1>4

LEMMA RepCutQuiet ==
  ASSUME NEW d, NEW o, NEW r \in Cut!RepCut(d, o)
  PROVE  QuietDesign(r, d)
<1> DEFINE Fine(R) == \A q \in R : QuietDesign(q, d)
<1>1. Fine({Cut!DesignResult(d, FALSE, FALSE)}) /\ Fine({Cut!DesignResult(d, FALSE, TRUE)})
  BY Zenon, AnswersQuiet
<1>2. \A name, cut, names, top : QuietDesign(Cut!Assemble(d, name, cut, names, top), d)
  <2> TAKE name, cut, names, top
  <2>1. \E e : Cut!Assemble(d, name, cut, names, top) = Cut!DesignResult(e, top.ok, ~top.ok)
    BY Zenon DEF Cut!Assemble
  <2>2. \A e : QuietDesign(Cut!DesignResult(e, top.ok, ~top.ok), d)
    <3> TAKE e
    <3> DEFINE ok == top.ok
    <3> HIDE DEF ok
    <3>1. QuietDesign(Cut!DesignResult(e, ok, ~ok), d)
      BY DEF QuietDesign, Quiet, Cut!DesignResult
    <3> QED BY <3>1 DEF ok
  <2> QED BY Zenon, <2>1, <2>2
<1>3. \A name, parts, P : QuietDesign(Cut!Rebuild(d, name, parts, P), d)
  BY Zenon, <1>2 DEF Cut!Rebuild, Cut!RebuildWith, Cut!JoinParts
<1>4. \A name, ascs, part, P : QuietDesign(Cut!Cut(d, name, ascs, part, P), d)
  BY Zenon, <1>3, AnswersQuiet DEF Cut!Cut, Cut!CutAt
<1>5. \A name, ascs, P : Fine(Cut!CutAscs(d, name, o, ascs, P))
  BY Zenon, <1>1, <1>4 DEF Cut!CutAscs
<1>6. \A name : Fine(Cut!CutGraph(d, name, o))
  BY Zenon, <1>1, <1>5 DEF Cut!CutGraph, Cut!CutValid
<1> QED BY Zenon, <1>1, <1>6 DEF Cut!RepCut

(* hier-flatten deletes the graphs below a top without instances and reports *)
(* no change, but leaves alone those it keeps.                               *)
KeepsOf(e, d) == IsFunction(e) /\ \A n \in DOMAIN e : n \in DOMAIN d /\ e[n] = d[n]
FlattenStep(d, top, mode, s, o) ==
  IF s.failed THEN s
  ELSE Hier!InlineInstance([d EXCEPT ![top] = s.g], [s EXCEPT !.g = Hier!EraseOpUnchecked(@, o)],
                           d[top].ops[o], [v \in DOMAIN d[top].vals |-> v], mode)
FlattenKept(d, top, mode, i, s) == i = 0 => s = Hier!Inlining(d[top])
FlattenFold == INSTANCE FoldRule WITH Op <- FlattenStep, P <- FlattenKept
LEMMA FlattenIsFold ==
  ASSUME NEW d, NEW top, NEW mode
  PROVE  Hier!Flatten(d, top, mode)
           = FlattenFold!Folded(d, top, mode, Hier!Inlining(d[top]), Hier!OpsOfKinds(d[top], {"kInstance"}))
  BY Zenon DEF Hier!Flatten, FlattenFold!Folded, Hier!FoldLeft, Hier!MapThenFoldSet, Hier!Max,
         FlattenFold!Last, FlattenStep
LEMMA FlattenQuiet ==
  ASSUME NEW d, IsFunction(d), NEW tops, NEW mode, NEW preserve,
         Quiet(Hier!HierFlatten(d, tops, mode, preserve))
  PROVE  KeepsOf(Hier!HierFlatten(d, tops, mode, preserve).d, d)
<1> DEFINE top == Hier!FlattenTop(d, tops)
           flat == Hier!Flatten(d, top, mode)
           r == Hier!HierFlatten(d, tops, mode, preserve)
           ids == Hier!OpsOfKinds(d[top], {"kInstance"})
<1>1. \/ r = Hier!DesignResult(d, FALSE, TRUE)
      \/ r = Hier!Flattened(d, top, flat, preserve)
  BY Zenon DEF Hier!HierFlatten
<1>2. ~Quiet(Hier!DesignResult(d, FALSE, TRUE))
  BY DEF Quiet, Hier!DesignResult
<1> HIDE DEF top, flat, r, ids
<1>3. \E S : r = Hier!DesignResult(Hier!Restrict([d EXCEPT ![top] = flat.g], S), ~flat.failed /\ ids # <<>>, flat.failed)
             /\ S \subseteq DOMAIN d
  <2> DEFINE kept == {top} \cup {flat.g.ops[o].a.module :
                       o \in {o \in DOMAIN flat.g.ops : Hier!Kind(flat.g, o) = "kBlackbox"}}
             S == IF flat.failed \/ preserve THEN DOMAIN d ELSE DOMAIN d \cap kept
  <2>1. r = Hier!DesignResult(Hier!Restrict([d EXCEPT ![top] = flat.g], S), ~flat.failed /\ ids # <<>>, flat.failed)
    BY Zenon, <1>1, <1>2 DEF Hier!Flattened, ids, r
  <2> HIDE DEF kept
  <2>2. S \subseteq DOMAIN d
    OBVIOUS
  <2> QED BY Zenon, <2>1, <2>2
<1>4. PICK S : r = Hier!DesignResult(Hier!Restrict([d EXCEPT ![top] = flat.g], S), ~flat.failed /\ ids # <<>>, flat.failed)
               /\ S \subseteq DOMAIN d
  BY Zenon, <1>3
<1>5. ids = <<>>
  <2>1. \A e, changed, failed : Quiet(Hier!DesignResult(e, changed, failed)) => ~changed /\ ~failed
    BY DEF Quiet, Hier!DesignResult
  <2>2. ~(~flat.failed /\ ids # <<>>) /\ ~flat.failed
    BY Zenon, <1>4, <2>1 DEF r
  <2> QED BY Zenon, <2>2
<1>6. flat = Hier!Inlining(d[top])
  <2>1. DOMAIN <<>> = 1..0 /\ \A i \in 1..0 : FALSE
    OBVIOUS
  <2>2. FlattenKept(d, top, mode, 0, FlattenFold!Folded(d, top, mode, Hier!Inlining(d[top]), <<>>))
    BY <2>1, LeastNatural, FlattenFold!Fold DEF FlattenKept
  <2> QED BY Zenon, <1>5, <2>2, FlattenIsFold DEF FlattenKept, flat, ids
<1>7. [d EXCEPT ![top] = flat.g] = d
  BY <1>6, UnchangedAt DEF Hier!Inlining
<1>8. r.d = [n \in S |-> d[n]]
  BY <1>4, <1>7 DEF Hier!DesignResult, Hier!Restrict
<1> QED BY <1>4, <1>8 DEF KeepsOf, IsFunction, r

-----------------------------------------------------------------------------
(* const-fold.  Every edit of the netlist keeps its shape, so that what the  *)
(* five steps walk are lists.                                                *)

Shape(g) == Fields \subseteq DOMAIN g /\ g.nop \in Nat \ {0}
LEMMA ShapeEdits ==
  ASSUME NEW g, Shape(g)
  PROVE  /\ \A w, sgn, sym : Shape(Fold!CreateValue(g, w, sgn, sym))
         /\ \A kind, in, out, a : Shape(Fold!CreateOp(g, kind, in, out, a))
         /\ \A from, to : Shape(Fold!ReplaceUsers(g, from, to))
         /\ \A o : Shape(Fold!EraseOp(g, o))
<1>1. ASSUME NEW w, NEW sgn, NEW sym PROVE Shape(Fold!CreateValue(g, w, sgn, sym))
  <2> DEFINE y == Fold!CreateValue(g, w, sgn, sym)
  <2>1. DOMAIN y = DOMAIN g /\ y.nop = g.nop
    BY DEF Shape, Fields, Fold!CreateValue
  <2> HIDE DEF y
  <2> QED BY <2>1 DEF Shape, y
<1>2. ASSUME NEW kind, NEW in, NEW out, NEW a PROVE Shape(Fold!CreateOp(g, kind, in, out, a))
  <2> DEFINE y == Fold!CreateOp(g, kind, in, out, a)
  <2>1. DOMAIN y = DOMAIN g /\ y.nop = g.nop + 1
    BY DEF Shape, Fields, Fold!CreateOp
  <2> HIDE DEF y
  <2>2. Shape(y)
    BY <2>1 DEF Shape
  <2> QED BY <2>2 DEF y
<1>3. ASSUME NEW from, NEW to PROVE Shape(Fold!ReplaceUsers(g, from, to))
  <2> DEFINE h == Fold!ReplaceAllUses(g, from, to)
             y == Fold!BindOutputs(h, from, to)
  <2>1. DOMAIN h = DOMAIN g /\ h.nop = g.nop
    BY DEF Shape, Fields, Fold!ReplaceAllUses, Fold!ReplaceIn
  <2> HIDE DEF h
  <2>2. DOMAIN y = DOMAIN g /\ y.nop = g.nop
    BY <2>1 DEF Shape, Fields, Fold!BindOutputs
  <2> HIDE DEF y
  <2>3. Shape(y)
    BY <2>2 DEF Shape
  <2> QED BY Zenon, <2>3 DEF y, h, Fold!ReplaceUsers
<1>4. ASSUME NEW o PROVE Shape(Fold!EraseOp(g, o))
  <2> DEFINE y == Fold!EraseOpUnchecked(g, o)
  <2>1. DOMAIN y = DOMAIN g /\ y.nop = g.nop
    BY DEF Shape, Fields, Fold!EraseOpUnchecked
  <2> HIDE DEF y
  <2>2. Shape(y)
    BY <2>1 DEF Shape
  <2> QED BY Zenon, <2>2 DEF y, Fold!EraseOp
<1> QED BY Zenon, <1>1, <1>2, <1>3, <1>4

LEMMA ShapeLists ==
  ASSUME NEW g, Shape(g)
  PROVE  /\ \A S : \E k \in Nat : DOMAIN Fold!Ascending(S, g.nop - 1) = 1..k
         /\ \E k \in Nat : DOMAIN Fold!OpIds(g) = 1..k
         /\ \A kinds : Fold!OpsOfKinds(g, kinds) \in Seq(DOMAIN g.ops)
<1>1. ASSUME NEW S
      PROVE  Fold!Ascending(S, g.nop - 1) \in Seq(S)
  <2>1. g.nop - 1 \in Nat
    BY DEF Shape
  <2>2. Fold!Ascending(S, g.nop - 1) = Ascending(S, g.nop - 1)
    BY Zenon DEF Fold!Ascending, Ascending
  <2>3. \A s : s \in Seq(S \cap Nat) => s \in Seq(S)
    OBVIOUS
  <2> QED BY <2>1, <2>2, <2>3, AscendingIsList
<1>2. ASSUME NEW S PROVE \E k \in Nat : DOMAIN Fold!Ascending(S, g.nop - 1) = 1..k
  <2> DEFINE s == Fold!Ascending(S, g.nop - 1)
  <2>1. s \in Seq(S)
    BY <1>1
  <2> HIDE DEF s
  <2>2. \E k \in Nat : DOMAIN s = 1..k
    BY <2>1
  <2> QED BY <2>2 DEF s
<1>3. \E k \in Nat : DOMAIN Fold!OpIds(g) = 1..k
  BY Zenon, <1>2 DEF Fold!OpIds
<1>4. ASSUME NEW kinds PROVE Fold!OpsOfKinds(g, kinds) \in Seq(DOMAIN g.ops)
  <2> DEFINE S == {o \in DOMAIN g.ops : Fold!Kind(g, o) \in kinds}
             s == Fold!Ascending(S, g.nop - 1)
  <2>1. s \in Seq(S)
    BY <1>1
  <2>2. S \subseteq DOMAIN g.ops
    OBVIOUS
  <2>3. Fold!OpsOfKinds(g, kinds) = s
    BY Zenon DEF Fold!OpsOfKinds
  <2> HIDE DEF S, s
  <2> QED BY <2>1, <2>2, <2>3
<1> QED BY Zenon, <1>2, <1>3, <1>4

(* A context of the pass on g0: it says so when the netlist is not g0.       *)
ContextFields == {"g", "consts", "pool", "keep", "xFold", "twoState", "changed", "failed"}
Context(c)    == ContextFields \subseteq DOMAIN c /\ Shape(c.g)
FoldOk(g0, c) == Context(c) /\ (c.changed \/ c.failed \/ c.g = g0)
SameResult(y, c) == y.g = c.g /\ y.changed = c.changed /\ y.failed = c.failed

LEMMA ContextUpdates ==
  ASSUME NEW c, Context(c)
  PROVE  /\ \A e : LET y == [c EXCEPT !.consts = e] IN Context(y) /\ SameResult(y, c)
         /\ \A e : LET y == [c EXCEPT !.pool = e] IN Context(y) /\ SameResult(y, c)
         /\ \A e, f : LET y == [c EXCEPT !.pool = e, !.consts = f] IN Context(y) /\ SameResult(y, c)
         /\ \A v, u : LET y == Fold!Redirect(c, v, u) IN Context(y) /\ y.changed
         /\ \A h : LET y == [c EXCEPT !.g = h] IN
                Shape(h) => Context(y) /\ y.changed = c.changed /\ y.failed = c.failed
         /\ LET y == Fold!Fail(c) IN Context(y) /\ y.failed /\ y.g = c.g /\ y.changed = c.changed
<1>1. ASSUME NEW e
      PROVE  LET y == [c EXCEPT !.consts = e] IN Context(y) /\ SameResult(y, c)
  <2> DEFINE y == [c EXCEPT !.consts = e]
  <2>1. DOMAIN y = DOMAIN c /\ y.g = c.g /\ y.changed = c.changed /\ y.failed = c.failed
    BY DEF Context, ContextFields
  <2> HIDE DEF y
  <2>2. Context(y) /\ SameResult(y, c)
    BY <2>1 DEF Context, SameResult
  <2> QED BY Zenon, <2>2 DEF y
<1>2. ASSUME NEW e
      PROVE  LET y == [c EXCEPT !.pool = e] IN Context(y) /\ SameResult(y, c)
  <2> DEFINE y == [c EXCEPT !.pool = e]
  <2>1. DOMAIN y = DOMAIN c /\ y.g = c.g /\ y.changed = c.changed /\ y.failed = c.failed
    BY DEF Context, ContextFields
  <2> HIDE DEF y
  <2>2. Context(y) /\ SameResult(y, c)
    BY <2>1 DEF Context, SameResult
  <2> QED BY Zenon, <2>2 DEF y
<1>3. ASSUME NEW e, NEW f
      PROVE  LET y == [c EXCEPT !.pool = e, !.consts = f] IN Context(y) /\ SameResult(y, c)
  <2> DEFINE y == [c EXCEPT !.pool = e, !.consts = f]
  <2>1. DOMAIN y = DOMAIN c /\ y.g = c.g /\ y.changed = c.changed /\ y.failed = c.failed
    BY DEF Context, ContextFields
  <2> HIDE DEF y
  <2>2. Context(y) /\ SameResult(y, c)
    BY <2>1 DEF Context, SameResult
  <2> QED BY Zenon, <2>2 DEF y
<1>4. ASSUME NEW v, NEW u
      PROVE  LET y == Fold!Redirect(c, v, u) IN Context(y) /\ y.changed
  <2> DEFINE h == Fold!ReplaceUsers(c.g, v, u)
             y == [c EXCEPT !.g = h, !.changed = TRUE]
  <2>1. Shape(h)
    BY ShapeEdits DEF Context
  <2> HIDE DEF h
  <2>2. DOMAIN y = DOMAIN c /\ y.g = h /\ y.changed = TRUE
    BY DEF Context, ContextFields
  <2> HIDE DEF y
  <2>3. Context(y) /\ y.changed
    BY <2>1, <2>2 DEF Context
  <2> QED BY Zenon, <2>3 DEF y, h, Fold!Redirect
<1>5. ASSUME NEW h, Shape(h)
      PROVE  LET y == [c EXCEPT !.g = h] IN Context(y) /\ y.changed = c.changed /\ y.failed = c.failed
  <2> DEFINE y == [c EXCEPT !.g = h]
  <2>1. DOMAIN y = DOMAIN c /\ y.g = h /\ y.changed = c.changed /\ y.failed = c.failed
    BY DEF Context, ContextFields
  <2> HIDE DEF y
  <2>2. Context(y) /\ y.changed = c.changed /\ y.failed = c.failed
    BY <1>5, <2>1 DEF Context, SameResult
  <2> QED BY Zenon, <2>2 DEF y
<1>6. LET y == Fold!Fail(c) IN Context(y) /\ y.failed /\ y.g = c.g /\ y.changed = c.changed
  <2> DEFINE y == Fold!Fail(c)
  <2>1. DOMAIN y = DOMAIN c /\ y.g = c.g /\ y.changed = c.changed /\ y.failed = TRUE
    BY DEF Context, ContextFields, Fold!Fail
  <2> HIDE DEF y
  <2>2. Context(y) /\ y.failed /\ y.g = c.g /\ y.changed = c.changed
    BY <2>1 DEF Context, SameResult
  <2> QED BY Zenon, <2>2 DEF y
<1> QED BY Zenon, <1>1, <1>2, <1>3, <1>4, <1>5, <1>6

LEMMA FoldOkUpdates ==
  ASSUME NEW g0, NEW c, FoldOk(g0, c)
  PROVE  /\ \A e : FoldOk(g0, [c EXCEPT !.consts = e])
         /\ \A e : FoldOk(g0, [c EXCEPT !.pool = e])
         /\ \A v, u : FoldOk(g0, Fold!Redirect(c, v, u))
         /\ FoldOk(g0, Fold!Fail(c))
<1>0. Context(c) /\ (c.changed \/ c.failed \/ c.g = g0)
  BY DEF FoldOk
<1>1. ASSUME NEW e PROVE FoldOk(g0, [c EXCEPT !.consts = e])
  <2> DEFINE y == [c EXCEPT !.consts = e]
  <2>1. Context(y) /\ SameResult(y, c)
    BY <1>0, ContextUpdates
  <2> HIDE DEF y
  <2>2. FoldOk(g0, y)
    BY Zenon, <1>0, <2>1 DEF FoldOk, SameResult
  <2> QED BY <2>2 DEF y
<1>2. ASSUME NEW e PROVE FoldOk(g0, [c EXCEPT !.pool = e])
  <2> DEFINE y == [c EXCEPT !.pool = e]
  <2>1. Context(y) /\ SameResult(y, c)
    BY <1>0, ContextUpdates
  <2> HIDE DEF y
  <2>2. FoldOk(g0, y)
    BY Zenon, <1>0, <2>1 DEF FoldOk, SameResult
  <2> QED BY <2>2 DEF y
<1>3. ASSUME NEW v, NEW u PROVE FoldOk(g0, Fold!Redirect(c, v, u))
  <2> DEFINE y == Fold!Redirect(c, v, u)
  <2>1. Context(y) /\ y.changed
    BY <1>0, ContextUpdates
  <2> HIDE DEF y
  <2>2. FoldOk(g0, y)
    BY Zenon, <1>0, <2>1 DEF FoldOk, SameResult
  <2> QED BY <2>2 DEF y
<1>4. FoldOk(g0, Fold!Fail(c))
  <2> DEFINE y == Fold!Fail(c)
  <2>1. Context(y) /\ y.failed
    BY <1>0, ContextUpdates
  <2> HIDE DEF y
  <2>2. FoldOk(g0, y)
    BY Zenon, <1>0, <2>1 DEF FoldOk, SameResult
  <2> QED BY <2>2 DEF y
<1> QED BY Zenon, <1>1, <1>2, <1>3, <1>4

(* Step 1.                                                                   *)
LEMMA FoldCollectOne ==
  ASSUME NEW g0, NEW c, FoldOk(g0, c), NEW o, NEW v
  PROVE  FoldOk(g0, Fold!CollectOne(c, o, v))
<1> DEFINE r == Fold!CollectOne(c, o, v)
           val == c.g.vals[v]
           bits == Fold!Normalize(val, c.g.ops[o].a.lit)
           key == Fold!Key(bits, val.sgn, val)
           seen == [c EXCEPT !.consts = Fold!With(@, v, bits)]
           pooled == [seen EXCEPT !.pool = Fold!With(@, key, v)]
           led == Fold!Redirect(seen, v, c.pool[key])
<1>1. r = c \/ r = Fold!Fail(c) \/ r = seen \/ r = pooled \/ r = led
  BY Zenon DEF Fold!CollectOne
<1>2. FoldOk(g0, seen)
  BY FoldOkUpdates
<1> HIDE DEF r, val, bits, key, seen
<1>3. FoldOk(g0, pooled)
  BY <1>2, FoldOkUpdates
<1>4. FoldOk(g0, led)
  BY <1>2, FoldOkUpdates
<1>5. FoldOk(g0, Fold!Fail(c))
  BY FoldOkUpdates
<1> HIDE DEF pooled, led
<1> QED BY Zenon, <1>1, <1>2, <1>3, <1>4, <1>5 DEF r

CollectOneStep(o, c, g0, d, v) == Fold!CollectOne(d, o, v)
CollectStep(c, e, g0, d, o)    == Fold!CollectResults(d, o, c.g.ops[o].out)
CollectKept(c, e, g0, i, d)    == FoldOk(g0, d)
CollectOneFold == INSTANCE FoldRule WITH Op <- CollectOneStep, P <- CollectKept
CollectFold == INSTANCE FoldRule WITH Op <- CollectStep, P <- CollectKept
LEMMA FoldCollectResults ==
  ASSUME NEW g0, NEW c, FoldOk(g0, c), NEW o, NEW out, IsList(out)
  PROVE  FoldOk(g0, Fold!CollectResults(c, o, out))
<1>1. Fold!CollectResults(c, o, out) = CollectOneFold!Folded(o, 0, g0, c, out)
  BY Zenon DEF Fold!CollectResults, CollectOneFold!Folded, Fold!FoldLeft, Fold!MapThenFoldSet, Fold!Max,
         CollectOneFold!Last, CollectOneStep
<1>2. Len(out) \in Nat /\ DOMAIN out = 1..Len(out)
  BY DEF IsList
<1>3. \A i \in 1..Len(out) : \A d :
         CollectKept(o, 0, g0, i - 1, d) => CollectKept(o, 0, g0, i, CollectOneStep(o, 0, g0, d, out[i]))
  BY Zenon, FoldCollectOne DEF CollectKept, CollectOneStep
<1>4. CollectKept(o, 0, g0, 0, c)
  BY DEF CollectKept
<1>5. CollectKept(o, 0, g0, Len(out), CollectOneFold!Folded(o, 0, g0, c, out))
  BY <1>2, <1>3, <1>4, LeastNatural, CollectOneFold!Fold
<1> QED BY Zenon, <1>1, <1>5 DEF CollectKept
LEMMA FoldCollect ==
  ASSUME NEW g0, IsGraph(g0), NEW c, FoldOk(g0, c), c.g = g0
  PROVE  FoldOk(g0, Fold!CollectConstants(c))
<1> DEFINE s == Fold!OpsOfKinds(c.g, {"kConstant"})
<1>1. Fold!CollectConstants(c) = CollectFold!Folded(c, 0, g0, c, s)
  BY Zenon DEF Fold!CollectConstants, CollectFold!Folded, Fold!FoldLeft, Fold!MapThenFoldSet, Fold!Max,
         CollectFold!Last, CollectStep
<1>2. s \in Seq(DOMAIN g0.ops)
  BY ShapeLists DEF FoldOk, Context
<1> HIDE DEF s
<1>3. \A i \in 1..Len(s) : s[i] \in DOMAIN g0.ops
  BY <1>2
<1>4. \A i \in 1..Len(s) : IsList(c.g.ops[s[i]].out)
  BY <1>3 DEF IsGraph
<1>5. \A i \in 1..Len(s) : \A d :
         CollectKept(c, 0, g0, i - 1, d) => CollectKept(c, 0, g0, i, CollectStep(c, 0, g0, d, s[i]))
  BY Zenon, <1>4, FoldCollectResults DEF CollectKept, CollectStep
<1>6. CollectKept(c, 0, g0, 0, c)
  BY DEF CollectKept
<1>7. Len(s) \in Nat /\ DOMAIN s = 1..Len(s)
  BY <1>2
<1>8. CollectKept(c, 0, g0, Len(s), CollectFold!Folded(c, 0, g0, c, s))
  BY <1>5, <1>6, <1>7, LeastNatural, CollectFold!Fold
<1> QED BY Zenon, <1>1, <1>8 DEF CollectKept

(* A scan collects the operations to erase, and says so when there are any.  *)
FoldedList(s) == IsList(s) /\ \A i \in 1..Len(s) : IsList(s[i].kept)
ScanOk(g0, acc) ==
  /\ {"c", "folded"} \subseteq DOMAIN acc
  /\ FoldOk(g0, acc.c) /\ FoldedList(acc.folded)
  /\ acc.folded = <<>> \/ acc.c.changed

LEMMA ScanMore ==
  ASSUME NEW g0, NEW acc, ScanOk(g0, acc), NEW c, FoldOk(g0, c), c.changed, NEW f, IsList(f.kept)
  PROVE  ScanOk(g0, [c |-> c, folded |-> Append(acc.folded, f)])
<1> DEFINE s == acc.folded
           t == Append(s, f)
<1>1. PICK S : s \in Seq(S)
  BY SeqOfList DEF ScanOk, FoldedList
<1>2. \A i \in 1..Len(s) : IsList(s[i].kept)
  BY DEF ScanOk, FoldedList
<1> HIDE DEF s
<1>3. t \in Seq(S \cup {f}) /\ Len(t) = Len(s) + 1 /\ Len(s) \in Nat /\ t[Len(s) + 1] = f
      /\ \A i \in 1..Len(s) : t[i] = s[i]
  BY <1>1
<1> HIDE DEF t
<1>4. \A i \in 1..Len(t) : i \in 1..Len(s) \/ i = Len(s) + 1
  BY <1>3
<1>5. FoldedList(t)
  BY <1>2, <1>3, <1>4, ListOfSeq DEF FoldedList
<1> QED BY <1>5 DEF ScanOk, t, s

(* A result is replaced by a constant, a change.                             *)
LEMMA FoldReplaced ==
  ASSUME NEW g0, NEW c, Context(c), NEW v, NEW bits, NEW sgn
  PROVE  FoldOk(g0, Fold!FoldResult(c, v, bits, sgn)) /\ Fold!FoldResult(c, v, bits, sgn).changed
<1> DEFINE val == c.g.vals[v]
           built == Fold!CreateConstant(c, val, bits)
           r == Fold!ReplacementConstant(c, val, bits, sgn)
           y == Fold!FoldResult(c, v, bits, sgn)
<1>1. Context(built)
  <2> DEFINE g1 == Fold!CreateValue(c.g, val.w, val.sgn, Fold!Tmp)
             h == Fold!CreateOp(g1, "kConstant", <<>>, <<c.g.nval>>, [lit |-> bits])
  <2>1. Shape(g1)
    BY ShapeEdits DEF Context
  <2> HIDE DEF g1
  <2>2. Shape(h)
    BY <2>1, ShapeEdits
  <2>3. built = [c EXCEPT !.g = h]
    BY Zenon DEF Fold!CreateConstant, g1
  <2> HIDE DEF h, built
  <2> QED BY <2>2, <2>3, ContextUpdates
<1> HIDE DEF built
<1>2. ASSUME NEW d, Context(d), NEW key, NEW u
      PROVE  Context(Fold!Noted(d, key, u, bits).c)
  <2> DEFINE e == Fold!Put(d.pool, key, u)
             f == Fold!Put(d.consts, u, bits)
  <2>1. Fold!Noted(d, key, u, bits).c = [d EXCEPT !.pool = e, !.consts = f]
    BY DEF Fold!Noted
  <2> HIDE DEF e, f
  <2>2. Context([d EXCEPT !.pool = e, !.consts = f])
    BY <1>2, ContextUpdates
  <2> QED BY Zenon, <2>1, <2>2
<1>3. \E key, u : r = Fold!Noted(c, key, u, bits) \/ r = Fold!Noted(built, key, u, bits)
  BY Zenon DEF Fold!ReplacementConstant, built
<1>4. y = Fold!Redirect(r.c, v, r.v)
  BY Zenon DEF Fold!FoldResult, Fold!ReplaceBy
<1> HIDE DEF r, val
<1>5. Context(r.c)
  BY Zenon, <1>1, <1>2, <1>3
<1>6. ASSUME NEW d, Context(d), NEW u
      PROVE  Context(Fold!Redirect(d, v, u)) /\ Fold!Redirect(d, v, u).changed
  BY <1>6, ContextUpdates
<1> HIDE DEF y
<1>7. Context(y) /\ y.changed
  BY Zenon, <1>4, <1>5, <1>6
<1> QED BY Zenon, <1>7 DEF FoldOk, y

LEMMA FoldFolded ==
  ASSUME NEW g0, NEW acc, ScanOk(g0, acc), NEW o, NEW v, NEW bits, NEW sgn
  PROVE  ScanOk(g0, Fold!Folded(acc, o, v, bits, sgn))
<1> DEFINE c == Fold!FoldResult(acc.c, v, bits, sgn)
           f == [o |-> o, kept |-> Fold!KeptConst(acc.c, v, bits)]
<1>1. FoldOk(g0, c) /\ c.changed
  BY FoldReplaced DEF ScanOk, FoldOk
<1>2. IsList(f.kept)
  <2>1. IsList(<<>>) /\ \A x : IsList(<<x>>)
    BY DEF IsList
  <2>2. IsList(Fold!KeptConst(acc.c, v, bits))
    BY Zenon, <2>1 DEF Fold!KeptConst
  <2> QED BY <2>2
<1>3. Fold!Folded(acc, o, v, bits, sgn) = [c |-> c, folded |-> Append(acc.folded, f)]
  BY Zenon DEF Fold!Folded
<1> HIDE DEF c, f
<1> QED BY <1>1, <1>2, <1>3, ScanMore

(* Step 2, what one operation does to the scan; steps 3 and 5 likewise.      *)
LEMMA FoldFoldOne ==
  ASSUME NEW g0, NEW acc, ScanOk(g0, acc), NEW o
  PROVE  ScanOk(g0, Fold!FoldOne(acc, o))
<1> DEFINE r == Fold!FoldOne(acc, o)
           failed == [acc EXCEPT !.c = Fold!Fail(acc.c)]
<1>1. \A v, raw : ScanOk(g0, Fold!FoldRaw(acc, o, v, raw))
  BY Zenon, FoldFolded DEF Fold!FoldRaw
<1>2. ScanOk(g0, failed)
  <2> DEFINE c == Fold!Fail(acc.c)
  <2>1. FoldOk(g0, c)
    BY FoldOkUpdates DEF ScanOk
  <2>2. c.changed = acc.c.changed
    BY ContextUpdates DEF ScanOk, FoldOk
  <2> HIDE DEF c
  <2>3. DOMAIN failed = DOMAIN acc /\ failed.c = c /\ failed.folded = acc.folded
    BY DEF ScanOk, c
  <2> HIDE DEF failed
  <2> QED BY <2>1, <2>2, <2>3 DEF ScanOk
<1>3. r = acc \/ r = failed \/ \E v, raw : r = Fold!FoldRaw(acc, o, v, raw)
  BY Zenon DEF Fold!FoldOne
<1> HIDE DEF r, failed
<1> QED BY Zenon, <1>1, <1>2, <1>3 DEF r

LEMMA FoldSliceOne ==
  ASSUME NEW g0, NEW acc, ScanOk(g0, acc), NEW o
  PROVE  ScanOk(g0, Fold!SliceOne(acc, o))
<1>1. ASSUME NEW v, NEW from PROVE ScanOk(g0, Fold!SliceFrom(acc, o, v, from))
  <2> DEFINE c == Fold!Redirect(acc.c, v, from)
             f == [o |-> o, kept |-> Fold!KeptAssign(acc.c, v, from)]
  <2>1. Context(c) /\ c.changed
    BY ContextUpdates DEF ScanOk, FoldOk
  <2>2. IsList(<<>>) /\ \A x : IsList(<<x>>)
    BY DEF IsList
  <2>3. IsList(Fold!KeptAssign(acc.c, v, from))
    BY Zenon, <2>2 DEF Fold!KeptAssign
  <2>4. IsList(f.kept)
    BY <2>3
  <2>5. Fold!SliceFrom(acc, o, v, from) = acc
        \/ Fold!SliceFrom(acc, o, v, from) = [c |-> c, folded |-> Append(acc.folded, f)]
    BY Zenon DEF Fold!SliceFrom
  <2> HIDE DEF c, f
  <2>6. FoldOk(g0, c)
    BY <2>1 DEF FoldOk
  <2>7. ScanOk(g0, [c |-> c, folded |-> Append(acc.folded, f)])
    BY <2>1, <2>4, <2>6, ScanMore
  <2> QED BY Zenon, <2>5, <2>7
<1> QED BY Zenon, <1>1 DEF Fold!SliceOne

LEMMA FoldCompareOne ==
  ASSUME NEW g0, NEW acc, ScanOk(g0, acc), NEW o
  PROVE  ScanOk(g0, Fold!CompareOne(acc, o))
  BY Zenon, FoldFolded DEF Fold!CompareOne, Fold!CompareFrom

ScanKept(c, e, g0, i, acc) == ScanOk(g0, acc)
FoldOneStep(c, e, g0, acc, o)    == Fold!FoldOne(acc, o)
SliceOneStep(c, e, g0, acc, o)   == Fold!SliceOne(acc, o)
CompareOneStep(c, e, g0, acc, o) == Fold!CompareOne(acc, o)
FoldOneFold    == INSTANCE FoldRule WITH Op <- FoldOneStep, P <- ScanKept
SliceOneFold   == INSTANCE FoldRule WITH Op <- SliceOneStep, P <- ScanKept
CompareOneFold == INSTANCE FoldRule WITH Op <- CompareOneStep, P <- ScanKept
LEMMA FoldScanned ==
  ASSUME NEW g0, NEW c, FoldOk(g0, c), NEW s, NEW k \in Nat, DOMAIN s = 1..k
  PROVE  /\ ScanOk(g0, Fold!FoldLeft(Fold!FoldOne, Fold!Scan(c), s))
         /\ ScanOk(g0, Fold!FoldLeft(Fold!SliceOne, Fold!Scan(c), s))
         /\ ScanOk(g0, Fold!FoldLeft(Fold!CompareOne, Fold!Scan(c), s))
<1>1. ScanKept(0, 0, g0, 0, Fold!Scan(c))
  BY DEF ScanKept, ScanOk, FoldedList, IsList, Fold!Scan
<1>2. ScanOk(g0, Fold!FoldLeft(Fold!FoldOne, Fold!Scan(c), s))
  <2>1. Fold!FoldLeft(Fold!FoldOne, Fold!Scan(c), s) = FoldOneFold!Folded(0, 0, g0, Fold!Scan(c), s)
    BY Zenon DEF FoldOneFold!Folded, Fold!FoldLeft, Fold!MapThenFoldSet, Fold!Max, FoldOneFold!Last, FoldOneStep
  <2>2. \A i \in 1..k : \A acc : ScanKept(0, 0, g0, i - 1, acc) => ScanKept(0, 0, g0, i, FoldOneStep(0, 0, g0, acc, s[i]))
    BY Zenon, FoldFoldOne DEF ScanKept, FoldOneStep
  <2>3. ScanKept(0, 0, g0, k, FoldOneFold!Folded(0, 0, g0, Fold!Scan(c), s))
    BY <1>1, <2>2, LeastNatural, FoldOneFold!Fold
  <2> QED BY Zenon, <2>1, <2>3 DEF ScanKept
<1>3. ScanOk(g0, Fold!FoldLeft(Fold!SliceOne, Fold!Scan(c), s))
  <2>1. Fold!FoldLeft(Fold!SliceOne, Fold!Scan(c), s) = SliceOneFold!Folded(0, 0, g0, Fold!Scan(c), s)
    BY Zenon DEF SliceOneFold!Folded, Fold!FoldLeft, Fold!MapThenFoldSet, Fold!Max, SliceOneFold!Last, SliceOneStep
  <2>2. \A i \in 1..k : \A acc : ScanKept(0, 0, g0, i - 1, acc) => ScanKept(0, 0, g0, i, SliceOneStep(0, 0, g0, acc, s[i]))
    BY Zenon, FoldSliceOne DEF ScanKept, SliceOneStep
  <2>3. ScanKept(0, 0, g0, k, SliceOneFold!Folded(0, 0, g0, Fold!Scan(c), s))
    BY <1>1, <2>2, LeastNatural, SliceOneFold!Fold
  <2> QED BY Zenon, <2>1, <2>3 DEF ScanKept
<1>4. ScanOk(g0, Fold!FoldLeft(Fold!CompareOne, Fold!Scan(c), s))
  <2>1. Fold!FoldLeft(Fold!CompareOne, Fold!Scan(c), s) = CompareOneFold!Folded(0, 0, g0, Fold!Scan(c), s)
    BY Zenon DEF CompareOneFold!Folded, Fold!FoldLeft, Fold!MapThenFoldSet, Fold!Max, CompareOneFold!Last, CompareOneStep
  <2>2. \A i \in 1..k : \A acc : ScanKept(0, 0, g0, i - 1, acc) => ScanKept(0, 0, g0, i, CompareOneStep(0, 0, g0, acc, s[i]))
    BY Zenon, FoldCompareOne DEF ScanKept, CompareOneStep
  <2>3. ScanKept(0, 0, g0, k, CompareOneFold!Folded(0, 0, g0, Fold!Scan(c), s))
    BY <1>1, <2>2, LeastNatural, CompareOneFold!Fold
  <2> QED BY Zenon, <2>1, <2>3 DEF ScanKept
<1> QED BY Zenon, <1>2, <1>3, <1>4

(* What a scan collected is erased, which is said already.                   *)
KeptStep(c, d, e, h, k)      == Fold!CreateOp(h, k.kind, k.in, <<k.v>>, k.a)
KeptShape(c, d, e, i, h)     == Shape(h)
KeptFold == INSTANCE FoldRule WITH Op <- KeptStep, P <- KeptShape
LEMMA FoldEraseOne ==
  ASSUME NEW g0, NEW c, FoldOk(g0, c), c.changed, NEW f, IsList(f.kept)
  PROVE  FoldOk(g0, Fold!EraseOne(c, f)) /\ Fold!EraseOne(c, f).changed
<1> DEFINE h == Fold!EraseOp(c.g, f.o)
           g1 == Fold!Materialize(h, f.kept)
           y == [c EXCEPT !.g = g1]
<1>1. Shape(h)
  BY ShapeEdits DEF FoldOk, Context
<1>2. g1 = KeptFold!Folded(0, 0, 0, h, f.kept)
  BY Zenon DEF Fold!Materialize, KeptFold!Folded, Fold!FoldLeft, Fold!MapThenFoldSet, Fold!Max,
         KeptFold!Last, KeptStep
<1>3. Fold!EraseOne(c, f) = y \/ Fold!EraseOne(c, f) = Fold!Fail(c)
  BY Zenon DEF Fold!EraseOne
<1> HIDE DEF h, g1
<1>4. \A i \in 1..Len(f.kept) : \A x : KeptShape(0, 0, 0, i - 1, x) => KeptShape(0, 0, 0, i, KeptStep(0, 0, 0, x, f.kept[i]))
  BY Zenon, ShapeEdits DEF KeptShape, KeptStep
<1>5. KeptShape(0, 0, 0, 0, h) /\ Len(f.kept) \in Nat /\ DOMAIN f.kept = 1..Len(f.kept)
  BY <1>1 DEF KeptShape, IsList
<1>6. Shape(g1)
  <2>1. KeptShape(0, 0, 0, Len(f.kept), KeptFold!Folded(0, 0, 0, h, f.kept))
    BY <1>4, <1>5, LeastNatural, KeptFold!Fold
  <2> QED BY <1>2, <2>1 DEF KeptShape
<1>7. Context(y) /\ y.changed = c.changed
  BY <1>6, ContextUpdates DEF FoldOk
<1> HIDE DEF y
<1>8. FoldOk(g0, Fold!Fail(c)) /\ Fold!Fail(c).changed = c.changed
  BY FoldOkUpdates, ContextUpdates DEF FoldOk
<1> QED BY Zenon, <1>3, <1>7, <1>8 DEF FoldOk

EraseKept(scan, e, g0, i, c) == FoldOk(g0, c) /\ (scan.folded = <<>> \/ c.changed)
EraseOneStep(scan, e, g0, c, f)   == Fold!EraseOne(c, f)
EraseSliceStep(scan, g, g0, c, f) == Fold!EraseSlice(c, g, f)
EraseOneFold   == INSTANCE FoldRule WITH Op <- EraseOneStep, P <- EraseKept
EraseSliceFold == INSTANCE FoldRule WITH Op <- EraseSliceStep, P <- EraseKept
LEMMA FoldErased ==
  ASSUME NEW g0, NEW scan, ScanOk(g0, scan)
  PROVE  FoldOk(g0, Fold!EraseScanned(scan)) /\ FoldOk(g0, Fold!EraseSlices(scan))
<1> DEFINE s == scan.folded
           c == scan.c
           g == scan.c.g
<1>1. EraseKept(scan, 0, g0, 0, c) /\ EraseKept(scan, g, g0, 0, c) /\ Len(s) \in Nat /\ DOMAIN s = 1..Len(s)
  BY DEF EraseKept, ScanOk, FoldedList, IsList
<1>2. \A i \in 1..Len(s) : IsList(s[i].kept) /\ s # <<>>
  BY DEF ScanOk, FoldedList
<1>3. Fold!EraseScanned(scan) = EraseOneFold!Folded(scan, 0, g0, c, s)
  BY Zenon DEF Fold!EraseScanned, Fold!EraseFolded, EraseOneFold!Folded, Fold!FoldLeft, Fold!MapThenFoldSet,
         Fold!Max, EraseOneFold!Last, EraseOneStep
<1>4. Fold!EraseSlices(scan) = EraseSliceFold!Folded(scan, g, g0, c, s)
  BY Zenon DEF Fold!EraseSlices, EraseSliceFold!Folded, Fold!FoldLeft, Fold!MapThenFoldSet,
         Fold!Max, EraseSliceFold!Last, EraseSliceStep
<1>5. ASSUME NEW i \in 1..Len(s), NEW x, FoldOk(g0, x) /\ (s = <<>> \/ x.changed)
      PROVE  FoldOk(g0, Fold!EraseOne(x, s[i])) /\ Fold!EraseOne(x, s[i]).changed
  BY <1>2, <1>5, FoldEraseOne
<1> HIDE DEF c, g
<1>6. \A i \in 1..Len(s) : \A x :
        EraseKept(scan, 0, g0, i - 1, x) => EraseKept(scan, 0, g0, i, EraseOneStep(scan, 0, g0, x, s[i]))
  BY Zenon, <1>5 DEF EraseKept, EraseOneStep
<1>7. \A i \in 1..Len(s) : \A x :
        EraseKept(scan, g, g0, i - 1, x) => EraseKept(scan, g, g0, i, EraseSliceStep(scan, g, g0, x, s[i]))
  BY Zenon, <1>5 DEF EraseKept, EraseSliceStep, Fold!EraseSlice
<1> HIDE DEF s
<1>8. EraseKept(scan, 0, g0, Len(s), EraseOneFold!Folded(scan, 0, g0, c, s))
  BY <1>1, <1>6, LeastNatural, EraseOneFold!Fold
<1>9. EraseKept(scan, g, g0, Len(s), EraseSliceFold!Folded(scan, g, g0, c, s))
  BY <1>1, <1>7, LeastNatural, EraseSliceFold!Fold
<1> QED BY Zenon, <1>3, <1>4, <1>8, <1>9 DEF EraseKept

(* Step 4.                                                                   *)
EraseOpStep(g, d, e, h, o)  == Fold!EraseOp(h, o)
EraseOpKept(g, d, e, i, h)  == Shape(h) /\ (i = 0 => h = g)
EraseOpFold == INSTANCE FoldRule WITH Op <- EraseOpStep, P <- EraseOpKept
LEMMA FoldDead ==
  ASSUME NEW g0, NEW c, FoldOk(g0, c)
  PROVE  FoldOk(g0, Fold!EliminateDeadConstants(c))
<1> DEFINE dead == Fold!Ascending({o \in DOMAIN c.g.ops : Fold!Kind(c.g, o) = "kConstant" /\ Fold!DeadConstant(c, o)},
                                  c.g.nop - 1)
           h == EraseOpFold!Folded(c.g, 0, 0, c.g, dead)
           some == dead # <<>>
           y == [c EXCEPT !.g = h, !.changed = @ \/ some]
<1>1. Fold!EliminateDeadConstants(c) = Fold!Erase(c, dead)
  BY Zenon DEF Fold!EliminateDeadConstants
<1>2. Fold!FoldLeft(Fold!EraseOp, c.g, dead) = h
  BY Zenon DEF EraseOpFold!Folded, Fold!FoldLeft, Fold!MapThenFoldSet, Fold!Max, EraseOpFold!Last, EraseOpStep
<1>3. PICK k \in Nat : DOMAIN dead = 1..k
  BY ShapeLists DEF FoldOk, Context
<1> HIDE DEF dead
<1>4. ~some => k = 0
  <2>1. DOMAIN <<>> = 1..0 /\ (k # 0 => 1 \in 1..k) /\ 1 \notin 1..0
    OBVIOUS
  <2> QED BY <1>3, <2>1
<1>5. \A i \in 1..k : \A x : EraseOpKept(c.g, 0, 0, i - 1, x) => EraseOpKept(c.g, 0, 0, i, EraseOpStep(c.g, 0, 0, x, dead[i]))
  <2>1. \A i \in 1..k : i # 0
    OBVIOUS
  <2> QED BY Zenon, <2>1, ShapeEdits DEF EraseOpKept, EraseOpStep
<1>6. EraseOpKept(c.g, 0, 0, 0, c.g)
  BY DEF EraseOpKept, FoldOk, Context
<1>7. EraseOpKept(c.g, 0, 0, k, h)
  BY <1>3, <1>5, <1>6, LeastNatural, EraseOpFold!Fold
<1>8. Fold!Erase(c, dead) = y
  BY Zenon, <1>2 DEF Fold!Erase
<1> HIDE DEF h, some
<1>9. DOMAIN y = DOMAIN c /\ y.g = h /\ y.changed = (c.changed \/ some) /\ y.failed = c.failed
  BY DEF FoldOk, Context, ContextFields
<1> HIDE DEF y
<1>10. Context(y)
  BY <1>7, <1>9 DEF FoldOk, Context, EraseOpKept
<1>11. y.changed \/ y.failed \/ y.g = g0
  BY Zenon, <1>4, <1>7, <1>9 DEF FoldOk, EraseOpKept
<1> QED BY Zenon, <1>1, <1>8, <1>10, <1>11 DEF FoldOk

LEMMA FoldQuiet ==
  ASSUME NEW g, IsGraph(g), NEW keep, NEW xFold, NEW twoState
  PROVE  QuietGraph(Fold!ConstFold(g, keep, xFold, twoState), g)
<1> DEFINE c0 == Fold!FoldContext(g, keep, xFold, twoState)
           c1 == Fold!CollectConstants(c0)
           c2 == Fold!IterativeFolding(c1)
           c3 == Fold!SimplifySlices(c2)
           c4 == Fold!EliminateDeadConstants(c3)
           c5 == Fold!SimplifyUnsignedComparisons(c4)
<1>0. Fold!ConstFold(g, keep, xFold, twoState) = Fold!FoldReport(c5)
  BY Zenon DEF Fold!ConstFold
<1>1. FoldOk(g, c0) /\ c0.g = g
  BY DEF FoldOk, Context, ContextFields, Shape, IsGraph, Fold!FoldContext
<1> HIDE DEF c0
<1>2. FoldOk(g, c1)
  BY <1>1, FoldCollect
<1> HIDE DEF c1
<1>2a. ASSUME NEW c, FoldOk(g, c)
       PROVE  /\ \E k \in Nat : DOMAIN Fold!OpIds(c.g) = 1..k
              /\ \A kinds : \E k \in Nat : DOMAIN Fold!OpsOfKinds(c.g, kinds) = 1..k
  <2>1. \A s : s \in Seq(DOMAIN c.g.ops) => \E k \in Nat : DOMAIN s = 1..k
    OBVIOUS
  <2> QED BY Zenon, <1>2a, <2>1, ShapeLists DEF FoldOk, Context
<1>2b. ASSUME NEW c, FoldOk(g, c), NEW s, NEW k \in Nat, DOMAIN s = 1..k
       PROVE  /\ FoldOk(g, Fold!EraseScanned(Fold!FoldLeft(Fold!FoldOne, Fold!Scan(c), s)))
              /\ FoldOk(g, Fold!EraseSlices(Fold!FoldLeft(Fold!SliceOne, Fold!Scan(c), s)))
              /\ FoldOk(g, Fold!EraseScanned(Fold!FoldLeft(Fold!CompareOne, Fold!Scan(c), s)))
  BY Zenon, <1>2b, FoldScanned, FoldErased
<1>3. FoldOk(g, c2)
  BY Zenon, <1>2, <1>2a, <1>2b DEF Fold!IterativeFolding
<1> HIDE DEF c2
<1>4. FoldOk(g, c3)
  BY Zenon, <1>3, <1>2a, <1>2b DEF Fold!SimplifySlices
<1> HIDE DEF c3
<1>5. FoldOk(g, c4)
  BY <1>4, FoldDead
<1> HIDE DEF c4
<1>6. FoldOk(g, c5)
  BY Zenon, <1>5, <1>2a, <1>2b DEF Fold!SimplifyUnsignedComparisons
<1> HIDE DEF c5
<1>7. LET r == Fold!FoldReport(c5) IN r.g = c5.g /\ r.changed = c5.changed /\ r.failed = c5.failed
  BY DEF Fold!FoldReport, Fold!Result
<1> QED BY Zenon, <1>0, <1>6, <1>7 DEF QuietGraph, Quiet, FoldOk

-----------------------------------------------------------------------------
(* The rounds that the arguments of simplify can ask for.                    *)
RoundBounds == {-1, 0, 1, 2, 4, 8}
ArgsKept(acc) ==
  /\ {"opts", "ok", "want"} \subseteq DOMAIN acc
  /\ "maxIterations" \in DOMAIN acc.opts /\ acc.opts["maxIterations"] \in RoundBounds
  /\ acc.want = <<>> \/ acc.want[1] \in Args!SimplifyArgs
ParseStep(c, d, e, acc, arg) == Args!ParseOne(Args!SimplifyArgs, acc, arg)
ParseKept(c, d, e, i, acc)   == ArgsKept(acc)
ParseFold == INSTANCE FoldRule WITH Op <- ParseStep, P <- ParseKept

LEMMA SimplifyOptions ==
  ASSUME NEW option \in Args!SimplifyArgs
  PROVE  option.type # "flag" /\ (option.key = "maxIterations" => option.type = "int")
  BY DEF Args!SimplifyArgs, Args!Opt, Args!Valued

LEMMA ConvertedBound ==
  ASSUME NEW text, Args!Convert("int", text) # <<>>
  PROVE  Args!Convert("int", text)[1] \in RoundBounds
<1>1. \A t \in DOMAIN Args!Numbers : Args!Numbers[t] \in RoundBounds
  <2> SUFFICES ASSUME NEW t \in DOMAIN Args!Numbers PROVE Args!Numbers[t] \in RoundBounds
    OBVIOUS
  <2>1. t \in {"-1", "0", "1", "2", "4", "8"}
    BY DEF Args!Numbers
  <2> QED BY <2>1 DEF Args!Numbers, RoundBounds
<1>2. Args!ValueTexts["int"] = Args!Numbers
  BY DEF Args!ValueTexts
<1>3. text \in DOMAIN Args!Numbers /\ Args!Convert("int", text) = <<Args!Numbers[text]>>
  BY <1>2 DEF Args!Convert
<1> QED BY <1>1, <1>3

LEMMA SimplifyTake ==
  ASSUME NEW acc, ArgsKept(acc), NEW option \in Args!SimplifyArgs, NEW text
  PROVE  ArgsKept(Args!Take(acc, option, text))
<1> DEFINE v == Args!Convert(option.type, text)
           no == [acc EXCEPT !.ok = FALSE]
           opts == [acc.opts EXCEPT ![option.key] = v[1]]
           yes == [acc EXCEPT !.opts[option.key] = v[1], !.want = <<>>]
<1>1. Args!Take(acc, option, text) = no \/ (v # <<>> /\ Args!Take(acc, option, text) = yes)
  BY Zenon DEF Args!Take
<1>2. ArgsKept(no)
  <2>1. DOMAIN no = DOMAIN acc /\ no.opts = acc.opts /\ no.want = acc.want
    BY DEF ArgsKept
  <2> HIDE DEF no
  <2> QED BY <2>1 DEF ArgsKept
<1>3. ASSUME v # <<>> PROVE ArgsKept(yes)
  <2>1. option.key = "maxIterations" => v[1] \in RoundBounds
    BY <1>3, SimplifyOptions, ConvertedBound
  <2> HIDE DEF v
  <2>2. DOMAIN yes = DOMAIN acc /\ yes.opts = opts /\ yes.want = <<>>
    BY DEF ArgsKept
  <2>3. DOMAIN opts = DOMAIN acc.opts
    OBVIOUS
  <2>4. opts["maxIterations"] \in RoundBounds
    BY <2>1 DEF ArgsKept
  <2> HIDE DEF yes, opts
  <2> QED BY <2>2, <2>3, <2>4 DEF ArgsKept
<1> QED BY Zenon, <1>1, <1>2, <1>3

LEMMA SimplifyParse ==
  ASSUME NEW acc, ArgsKept(acc), NEW arg
  PROVE  ArgsKept(Args!ParseOne(Args!SimplifyArgs, acc, arg))
<1> DEFINE table == Args!SimplifyArgs
           plain == {option \in table : arg[1] \in option.flags /\ (option.next \/ option.type = "flag")}
           equal == {option \in table : arg[1] \in option.flags /\ option.eq}
           p == CHOOSE option \in plain : TRUE
           q == CHOOSE option \in equal : TRUE
           no == [acc EXCEPT !.ok = FALSE]
<1>1. /\ plain # {} => p \in table
      /\ equal # {} => q \in table
  OBVIOUS
<1>2. ArgsKept(no)
  <2>1. DOMAIN no = DOMAIN acc /\ no.opts = acc.opts /\ no.want = acc.want
    BY DEF ArgsKept
  <2> HIDE DEF no
  <2> QED BY <2>1 DEF ArgsKept
<1>3. ASSUME NEW option \in table PROVE ArgsKept(Args!Accept(acc, option))
  <2> DEFINE y == [acc EXCEPT !.want = <<option>>]
  <2>1. Args!Accept(acc, option) = y
    BY SimplifyOptions DEF Args!Accept
  <2>2. DOMAIN y = DOMAIN acc /\ y.opts = acc.opts /\ y.want = <<option>>
    BY DEF ArgsKept
  <2> HIDE DEF y
  <2> QED BY <2>1, <2>2 DEF ArgsKept
<1>4. acc.want # <<>> => acc.want[1] \in table
  BY DEF ArgsKept
<1>5. \/ Args!ParseOne(table, acc, arg) \in {acc, no}
      \/ acc.want # <<>> /\ \E text : Args!ParseOne(table, acc, arg) = Args!Take(acc, acc.want[1], text)
      \/ equal # {} /\ Args!ParseOne(table, acc, arg) = Args!Take(acc, q, arg[2])
      \/ plain # {} /\ Args!ParseOne(table, acc, arg) = Args!Accept(acc, p)
  BY Zenon DEF Args!ParseOne
<1> HIDE DEF no, p, q, plain, equal, table
<1>6. \A option \in table : \A text : ArgsKept(Args!Take(acc, option, text))
  BY SimplifyTake DEF table
<1>7. ArgsKept(Args!ParseOne(table, acc, arg))
  BY Zenon, <1>1, <1>2, <1>3, <1>4, <1>5, <1>6
<1> QED BY <1>7 DEF table

LEMMA SimplifyBound ==
  ASSUME NEW args, IsList(args)
  PROVE  Args!MakePass("simplify", args).opts.maxIterations \in RoundBounds
<1> DEFINE base == Args!Unparsed("simplify")
           parsed == ParseFold!Folded(0, 0, 0, base, args)
<1>1. ParseKept(0, 0, 0, 0, base)
  <2>1. "simplify" \in Args!PassNames
    BY DEF Args!PassNames
  <2>2. Args!Defaults["simplify"] = [maxIterations |-> 8, xFold |-> "Known", twoState |-> FALSE]
    BY <2>1 DEF Args!Defaults
  <2> QED BY <2>2 DEF Args!Unparsed, ParseKept, ArgsKept, RoundBounds
<1> HIDE DEF base
<1>2. Len(args) \in Nat /\ DOMAIN args = 1..Len(args)
  BY DEF IsList
<1>3. \A i \in 1..Len(args) : \A acc : ParseKept(0, 0, 0, i - 1, acc) => ParseKept(0, 0, 0, i, ParseStep(0, 0, 0, acc, args[i]))
  BY Zenon, SimplifyParse DEF ParseKept, ParseStep
<1>4. ParseKept(0, 0, 0, Len(args), parsed)
  BY <1>1, <1>2, <1>3, LeastNatural, ParseFold!Fold
<1>5. Args!MakePass("simplify", args).opts = parsed.opts
  <2>1. "simplify" \in Args!PassNames
    BY DEF Args!PassNames
  <2>2. Args!ArgsOf["simplify"] = Args!SimplifyArgs
    BY <2>1 DEF Args!ArgsOf
  <2>3. parsed = Args!ParseAll(Args!SimplifyArgs, base, args)
    BY Zenon DEF ParseFold!Folded, Args!ParseAll, Args!FoldLeft, Args!MapThenFoldSet, Args!Max, ParseFold!Last, ParseStep
  <2> HIDE DEF parsed
  <2>4. \E b : Args!MakePass("simplify", args) = [ok |-> b, opts |-> parsed.opts]
    BY Zenon, <2>1, <2>2, <2>3 DEF Args!MakePass, base
  <2> QED BY <2>4
<1> HIDE DEF parsed
<1> QED BY Zenon, <1>4, <1>5 DEF ParseKept, ArgsKept
=============================================================================
