-------------------------- MODULE XmrResolve_proofs --------------------------
(***************************************************************************)
(* xmr-resolve, when it reports no change, hands back the design it was    *)
(* given.  Each loop of the pass is an instance of FoldRule; what is       *)
(* carried through all of them is XmrOk: the tables of ports to connect    *)
(* are lists, and the design is still the first one unless a change was    *)
(* noted.                                                                  *)
(***************************************************************************)
EXTENDS PassResults_proofs

(* A step of the pass reports a change whenever it edits the design it       *)
(* started from, d.                                                          *)

XmrFields == {"d", "names", "pads", "outs", "ins", "changed", "err"}
XmrOk(d, x) ==
  /\ XmrFields \subseteq DOMAIN x
  /\ IsList(x.outs) /\ IsList(x.ins)
  /\ x.changed \/ x.d = d

LEMMA XmrUpdates ==
  ASSUME NEW d, NEW x, XmrOk(d, x)
  PROVE  /\ \A n, g : XmrOk(d, Xmr!Edit(x, n, g))
         /\ \A p : XmrOk(d, [x EXCEPT !.outs = Append(@, p)])
         /\ \A p : XmrOk(d, [x EXCEPT !.ins = Append(@, p)])
         /\ \A e : XmrOk(d, [x EXCEPT !.names = e])
         /\ \A e : XmrOk(d, [x EXCEPT !.pads = e])
         /\ XmrOk(d, Xmr!Fail(x))
<1>1. ASSUME NEW n, NEW g PROVE XmrOk(d, Xmr!Edit(x, n, g))
  <2> DEFINE y == Xmr!Edit(x, n, g)
  <2>1. DOMAIN y = DOMAIN x /\ y.outs = x.outs /\ y.ins = x.ins /\ y.changed
    BY DEF XmrOk, XmrFields, Xmr!Edit
  <2> HIDE DEF y
  <2>2. XmrOk(d, y)
    BY <2>1 DEF XmrOk
  <2> QED BY <2>2 DEF y
<1>2. ASSUME NEW p PROVE XmrOk(d, [x EXCEPT !.outs = Append(@, p)])
  <2> DEFINE y == [x EXCEPT !.outs = Append(@, p)]
  <2>1. DOMAIN y = DOMAIN x /\ y.outs = Append(x.outs, p) /\ y.ins = x.ins /\ y.changed = x.changed /\ y.d = x.d
    BY DEF XmrOk, XmrFields
  <2> HIDE DEF y
  <2>2. XmrOk(d, y)
    BY <2>1, AppendIsList DEF XmrOk
  <2> QED BY <2>2 DEF y
<1>3. ASSUME NEW p PROVE XmrOk(d, [x EXCEPT !.ins = Append(@, p)])
  <2> DEFINE y == [x EXCEPT !.ins = Append(@, p)]
  <2>1. DOMAIN y = DOMAIN x /\ y.ins = Append(x.ins, p) /\ y.outs = x.outs /\ y.changed = x.changed /\ y.d = x.d
    BY DEF XmrOk, XmrFields
  <2> HIDE DEF y
  <2>2. XmrOk(d, y)
    BY <2>1, AppendIsList DEF XmrOk
  <2> QED BY <2>2 DEF y
<1>4. ASSUME NEW e PROVE XmrOk(d, [x EXCEPT !.names = e])
  <2> DEFINE y == [x EXCEPT !.names = e]
  <2>1. DOMAIN y = DOMAIN x /\ y.ins = x.ins /\ y.outs = x.outs /\ y.changed = x.changed /\ y.d = x.d
    BY DEF XmrOk, XmrFields
  <2> HIDE DEF y
  <2>2. XmrOk(d, y)
    BY <2>1 DEF XmrOk
  <2> QED BY <2>2 DEF y
<1>5. ASSUME NEW e PROVE XmrOk(d, [x EXCEPT !.pads = e])
  <2> DEFINE y == [x EXCEPT !.pads = e]
  <2>1. DOMAIN y = DOMAIN x /\ y.ins = x.ins /\ y.outs = x.outs /\ y.changed = x.changed /\ y.d = x.d
    BY DEF XmrOk, XmrFields
  <2> HIDE DEF y
  <2>2. XmrOk(d, y)
    BY <2>1 DEF XmrOk
  <2> QED BY <2>2 DEF y
<1>6. XmrOk(d, Xmr!Fail(x))
  <2> DEFINE y == Xmr!Fail(x)
  <2>1. DOMAIN y = DOMAIN x /\ y.ins = x.ins /\ y.outs = x.outs /\ y.changed = x.changed /\ y.d = x.d
    BY DEF XmrOk, XmrFields, Xmr!Fail
  <2> HIDE DEF y
  <2>2. XmrOk(d, y)
    BY <2>1 DEF XmrOk
  <2> QED BY <2>2 DEF y
<1> QED BY Zenon, <1>1, <1>2, <1>3, <1>4, <1>5, <1>6

LEMMA XmrPorts ==
  ASSUME NEW d, NEW x, XmrOk(d, x)
  PROVE  /\ \A n, tag, path, label : XmrOk(d, Xmr!GetPortName(x, n, tag, path, label))
         /\ \A n, port, v : XmrOk(d, Xmr!EnsureOutputPort(x, n, port, v))
         /\ \A n, port, w, sgn : XmrOk(d, Xmr!EnsureInputPort(x, n, port, w, sgn))
         /\ \A n, o, port, w, sgn : XmrOk(d, Xmr!EnsureInstanceOutput(x, n, o, port, w, sgn))
         /\ \A n, o, port, v : XmrOk(d, Xmr!EnsureInstanceInput(x, n, o, port, v))
         /\ \A n, w, sgn : XmrOk(d, Xmr!GetPadInput(x, n, w, sgn))
<1>1. \A n, tag, path, label : XmrOk(d, Xmr!GetPortName(x, n, tag, path, label))
  BY Zenon, XmrUpdates DEF Xmr!GetPortName
<1>2. \A n, port, v : XmrOk(d, Xmr!EnsureOutputPort(x, n, port, v))
  BY Zenon, XmrUpdates DEF Xmr!EnsureOutputPort
<1>3. \A n, g, pending, v : XmrOk(d, Xmr!AddInput(x, n, g, pending, v))
  BY Zenon, XmrUpdates DEF Xmr!AddInput
<1>4. \A n, port, w, sgn : XmrOk(d, Xmr!EnsureInputPort(x, n, port, w, sgn))
  BY Zenon, <1>3 DEF Xmr!EnsureInputPort
<1>5. \A n, o, port, w, sgn : XmrOk(d, Xmr!EnsureInstanceOutput(x, n, o, port, w, sgn))
  BY Zenon, XmrUpdates DEF Xmr!EnsureInstanceOutput
<1>6. \A n, o, port, v : XmrOk(d, Xmr!EnsureInstanceInput(x, n, o, port, v))
  BY Zenon, XmrUpdates DEF Xmr!EnsureInstanceInput
<1>7. \A n, w, sgn : XmrOk(d, Xmr!GetPadInput(x, n, w, sgn))
  BY Zenon, XmrUpdates DEF Xmr!GetPadInput
<1> QED BY Zenon, <1>1, <1>2, <1>4, <1>5, <1>6, <1>7

(* Reads: the value is handed up one hop at a time.                          *)
HandUpStep(d, path, e, acc, hop) == Xmr!HandUp(acc, path, hop)
HandUpKept(d, path, e, i, acc)   == XmrOk(d, acc.x)
HandUpFold == INSTANCE FoldRule WITH Op <- HandUpStep, P <- HandUpKept
LEMMA XmrHandUp ==
  ASSUME NEW d, NEW acc, XmrOk(d, acc.x), NEW path, NEW hop
  PROVE  XmrOk(d, Xmr!HandUp(acc, path, hop).x)
<1>1. \A x, port : Xmr!HandedUp(x, hop, port).x = x
  BY DEF Xmr!HandedUp
<1>2. ASSUME NEW x, XmrOk(d, x), NEW port
      PROVE  XmrOk(d, Xmr!HandUpBound(x, hop, port).x)
  <2> DEFINE v == x.d[hop.child].vals[Xmr!OutputValue(x, hop.child, port)]
             y == Xmr!EnsureInstanceOutput(x, hop.parent, hop.op, port, v.w, v.sgn)
  <2>1. XmrOk(d, y)
    BY <1>2, XmrPorts
  <2>2. Xmr!HandUpBound(x, hop, port) = Xmr!HandedUp(y, hop, port)
    BY Zenon DEF Xmr!HandUpBound
  <2> HIDE DEF y
  <2> QED BY <1>1, <2>1, <2>2
<1>3. ASSUME NEW x, XmrOk(d, x), NEW v
      PROVE  XmrOk(d, Xmr!HandUpFrom(x, path, hop, v).x)
  <2> DEFINE port == Xmr!PortNameOf(x, hop.child, "r", path, "")
             y == Xmr!EnsureOutputPort(x, hop.child, port, v)
  <2>1. XmrOk(d, y)
    BY <1>3, XmrPorts
  <2>2. Xmr!HandUpFrom(x, path, hop, v) = Xmr!HandUpBound(y, hop, port)
    BY Zenon DEF Xmr!HandUpFrom, Xmr!HandUpNamed
  <2> HIDE DEF y, port
  <2> QED BY <1>2, <2>1, <2>2
<1> DEFINE z == Xmr!GetPortName(acc.x, hop.child, "r", path, "")
<1>4. XmrOk(d, z)
  BY XmrPorts
<1>5. Xmr!HandUp(acc, path, hop) = Xmr!HandUpFrom(z, path, hop, acc.val)
  BY Zenon DEF Xmr!HandUp
<1> HIDE DEF z
<1> QED BY <1>3, <1>4, <1>5

LEMMA XmrReadFrom ==
  ASSUME NEW d, NEW leaf, XmrOk(d, leaf.x), NEW n, NEW o, NEW path, NEW v, NEW hops, IsList(hops)
  PROVE  XmrOk(d, Xmr!ReadFrom(leaf, n, o, path, v, hops))
<1> DEFINE s == Xmr!Reverse(hops)
<1>1. Len(hops) \in Nat /\ DOMAIN s = 1..Len(hops)
  BY DEF IsList, Xmr!Reverse
<1> HIDE DEF s
<1>2. \A i \in 1..Len(hops) : \A acc :
         HandUpKept(d, path, 0, i - 1, acc) => HandUpKept(d, path, 0, i, HandUpStep(d, path, 0, acc, s[i]))
  BY Zenon, XmrHandUp DEF HandUpKept, HandUpStep
<1>3. HandUpKept(d, path, 0, 0, leaf)
  BY DEF HandUpKept
<1>4. HandUpKept(d, path, 0, Len(hops), HandUpFold!Folded(d, path, 0, leaf, s))
  BY <1>1, <1>2, <1>3, LeastNatural, HandUpFold!Fold
<1>5. \A got : XmrOk(d, got.x) => XmrOk(d, Xmr!ReadResolved(got, n, o, v))
  BY XmrUpdates DEF Xmr!ReadResolved
<1>6. Xmr!ReadFrom(leaf, n, o, path, v, hops)
        = IF leaf.val = 0 THEN leaf.x
          ELSE Xmr!ReadResolved(HandUpFold!Folded(d, path, 0, leaf, s), n, o, v)
  BY Zenon DEF s, Xmr!ReadFrom, HandUpFold!Folded, Xmr!FoldLeft, Xmr!MapThenFoldSet, Xmr!Max,
         HandUpFold!Last, HandUpStep
<1> QED BY Zenon, <1>4, <1>5, <1>6 DEF HandUpKept

LEMMA XmrReadLeaf ==
  ASSUME NEW d, NEW x, XmrOk(d, x), NEW n, NEW path, NEW leaf, NEW atRoot
  PROVE  XmrOk(d, Xmr!ReadLeaf(x, n, path, leaf, atRoot).x)
<1>1. ASSUME NEW y, XmrOk(d, y), NEW name
      PROVE  XmrOk(d, Xmr!ReadFresh(y, leaf, name).x)
  <2>1. Xmr!ReadFresh(y, leaf, name).x = Xmr!Edit(y, leaf, Xmr!StorageReadPort(y.d[leaf], name))
    BY DEF Xmr!ReadFresh
  <2>2. \A m, h : XmrOk(d, Xmr!Edit(y, m, h))
    BY Zenon, <1>1, XmrUpdates
  <2> QED BY Zenon, <2>1, <2>2
<1>2. \A y, v : [x |-> y, val |-> v].x = y
  OBVIOUS
<1>3. ASSUME NEW y, XmrOk(d, y), NEW name
      PROVE  XmrOk(d, Xmr!ReadPorted(y, leaf, name, path).x)
  <2>1. \/ Xmr!ReadPorted(y, leaf, name, path) = Xmr!ReadFresh(y, leaf, name)
        \/ \E v : Xmr!ReadPorted(y, leaf, name, path) = [x |-> y, val |-> v]
    BY Zenon DEF Xmr!ReadPorted, Xmr!ReadNamed
  <2> QED BY Zenon, <1>1, <1>2, <1>3, <2>1
<1> DEFINE g == x.d[leaf]
           name == Xmr!Last(Xmr!Trim(n, path))
           y == Xmr!GetPortName(x, leaf, "r", path, "")
           r == Xmr!ReadLeaf(x, n, path, leaf, atRoot)
<1>4. XmrOk(d, y)
  BY XmrPorts
<1>5. XmrOk(d, Xmr!Fail(x))
  BY XmrUpdates
<1>6. r = [x |-> Xmr!Fail(x), val |-> 0] \/ r = Xmr!ReadFresh(x, leaf, name)
        \/ r = Xmr!ReadPorted(y, leaf, name, path) \/ r = [x |-> x, val |-> Xmr!FindValue(g, name)]
  BY Zenon DEF Xmr!ReadLeaf
<1> HIDE DEF r, g, name, y
<1> QED BY Zenon, <1>1, <1>2, <1>3, <1>4, <1>5, <1>6 DEF r

(* The hops of a path are a list.                                            *)
HopsStep(d, c, e, at, name) ==
  LET o == IF at.ok THEN Xmr!FindInstance(d[at.leaf], name) ELSE 0
      m == d[at.leaf].ops[o].a.module
  IN  IF ~at.ok \/ o = 0 \/ m \notin DOMAIN d THEN [at EXCEPT !.ok = FALSE]
      ELSE [ok |-> TRUE, leaf |-> m, hops |-> Append(at.hops, [parent |-> at.leaf, op |-> o, child |-> m])]
HopsKept(d, c, e, i, at) == {"ok", "leaf", "hops"} \subseteq DOMAIN at /\ IsList(at.hops)
HopsFold == INSTANCE FoldRule WITH Op <- HopsStep, P <- HopsKept
LEMMA HopsIsFold ==
  ASSUME NEW d, NEW n, NEW path
  PROVE  Xmr!Hops(d, n, path)
           = HopsFold!Folded(d, 0, 0, [ok |-> TRUE, leaf |-> n, hops |-> <<>>], Xmr!Front(path))
  BY Zenon DEF Xmr!Hops, HopsFold!Folded, Xmr!FoldLeft, Xmr!MapThenFoldSet, Xmr!Max, HopsFold!Last, HopsStep
LEMMA XmrHops ==
  ASSUME NEW d, NEW n, NEW path, IsList(path), path # <<>>
  PROVE  IsList(Xmr!Hops(d, n, path).hops)
<1> DEFINE s == Xmr!Front(path)
           base == [ok |-> TRUE, leaf |-> n, hops |-> <<>>]
<1>1. \E k \in Nat : DOMAIN s = 1..k
  <2>1. PICK S : path \in Seq(S)
    BY SeqOfList
  <2>2. Len(path) - 1 \in Nat
    BY <2>1
  <2>3. DOMAIN SubSeq(path, 1, Len(path) - 1) = 1..(Len(path) - 1)
    BY <2>1, <2>2
  <2> QED BY <2>2, <2>3 DEF Xmr!Front
<1>2. HopsKept(d, 0, 0, 0, base)
  BY DEF HopsKept, IsList
<1> HIDE DEF s, base
<1>3. ASSUME NEW i, NEW at, NEW name, HopsKept(d, 0, 0, i - 1, at)
      PROVE  HopsKept(d, 0, 0, i, HopsStep(d, 0, 0, at, name))
  <2> DEFINE q == [at EXCEPT !.ok = FALSE]
  <2>1. DOMAIN q = DOMAIN at /\ q.hops = at.hops
    BY <1>3 DEF HopsKept
  <2> HIDE DEF q
  <2>2. \/ HopsStep(d, 0, 0, at, name) = q
        \/ \E m, h : HopsStep(d, 0, 0, at, name) = [ok |-> TRUE, leaf |-> m, hops |-> Append(at.hops, h)]
    BY Zenon DEF HopsStep, q
  <2>3. \A m, h : HopsKept(d, 0, 0, i, [ok |-> TRUE, leaf |-> m, hops |-> Append(at.hops, h)])
    BY <1>3, AppendIsList DEF HopsKept
  <2>4. HopsKept(d, 0, 0, i, q)
    BY Zenon, <1>3, <2>1 DEF HopsKept
  <2> QED BY Zenon, <2>2, <2>3, <2>4
<1>4. PICK k \in Nat : DOMAIN s = 1..k
  BY <1>1
<1>5. HopsKept(d, 0, 0, k, HopsFold!Folded(d, 0, 0, base, s))
  BY <1>2, <1>3, <1>4, LeastNatural, HopsFold!Fold
<1> QED BY Zenon, <1>5, HopsIsFold DEF HopsKept, s, base

LEMMA XmrTrim ==
  ASSUME NEW n, NEW path, IsList(path)
  PROVE  IsList(Xmr!Trim(n, path))
<1>1. PICK S : path \in Seq(S)
  BY SeqOfList
<1>2. path # <<>> => Tail(path) \in Seq(S)
  BY <1>1
<1> QED BY <1>1, <1>2, ListOfSeq DEF Xmr!Trim

LEMMA XmrRead ==
  ASSUME NEW d, NEW x, XmrOk(d, x), NEW n, NEW o, NEW op, IsList(op.a.path)
  PROVE  XmrOk(d, Xmr!ResolveRead(x, n, o, op))
<1> DEFINE path == Xmr!Trim(n, op.a.path)
           to == Xmr!Hops(x.d, n, path)
<1>1. path # <<>> => IsList(to.hops)
  BY XmrTrim, XmrHops
<1> HIDE DEF path, to
<1>2. path # <<>> => XmrOk(d, Xmr!ReadFrom(Xmr!ReadLeaf(x, n, op.a.path, to.leaf, to.hops = <<>>), n, o,
                                           op.a.path, op.out[1], to.hops))
  BY Zenon, <1>1, XmrReadLeaf, XmrReadFrom
<1>3. XmrOk(d, Xmr!ReadAt(x, n, o, op, path, to))
  BY Zenon, <1>2 DEF Xmr!ReadAt
<1> QED BY Zenon, <1>3 DEF path, to, Xmr!ResolveRead

(* Writes: the operands are handed down one hop at a time.                   *)
LEMMA XmrLabels ==
  ASSUME NEW g, NEW s, NEW op, IsList(op.in)
  PROVE  IsList(Xmr!WriteLabels(g, s, op))
<1>1. /\ IsList(<<"">>) /\ IsList(<<>>) /\ IsList(<<"cond", "data", "mask">>)
      /\ IsList(<<"cond", "addr", "data", "mask">>)
  BY DEF IsList
<1>2. ASSUME NEW labels, IsList(labels) PROVE IsList(Xmr!WithEvents(op, labels))
  <2> DEFINE events == Len(op.in) - Len(labels)
             more == [i \in 1..events |-> Xmr!EventLabel(i)]
  <2>1. PICK S : labels \in Seq(S)
    BY <1>2, SeqOfList
  <2>2. events \in Int
    BY <2>1 DEF IsList
  <2> DEFINE T == S \cup {Xmr!EventLabel(i) : i \in 1..events}
  <2>3. (\A i \in 1..events : Xmr!EventLabel(i) \in T) /\ labels \in Seq(T)
    BY <2>1
  <2> HIDE DEF T
  <2>4. events > 0 => more \in Seq(T)
    <3> SUFFICES ASSUME events > 0 PROVE more \in Seq(T)
      OBVIOUS
    <3>1. events \in Nat
      BY <2>2
    <3> HIDE DEF events
    <3>2. more \in [1..events -> T]
      BY <2>3
    <3> HIDE DEF more
    <3> QED BY <3>1, <3>2
  <2> HIDE DEF more
  <2>5. events > 0 => labels \o more \in Seq(T)
    BY <2>3, <2>4
  <2>6. events > 0 => IsList(labels \o more)
    BY <2>5, ListOfSeq
  <2> QED BY Zenon, <1>1, <2>6 DEF Xmr!WithEvents, more
<1> DEFINE r == Xmr!WriteLabels(g, s, op)
<1>3. r = <<"">> \/ r = <<>> \/ r = <<"cond", "data", "mask">>
        \/ r = Xmr!WithEvents(op, <<"cond", "data", "mask">>)
        \/ r = Xmr!WithEvents(op, <<"cond", "addr", "data", "mask">>)
  BY Zenon DEF Xmr!WriteLabels
<1> HIDE DEF r
<1> QED BY Zenon, <1>1, <1>2, <1>3 DEF r

OperandStep(write, hop, d, acc, i)    == Xmr!HandDownOne(acc, write, hop, i)
OperandKept(write, hop, d, i, acc)    == XmrOk(d, acc.x)
OperandFold == INSTANCE FoldRule WITH Op <- OperandStep, P <- OperandKept
HandDownStep(write, c, d, acc, hop)   == Xmr!HandDown(acc, write, hop)
HandDownKept(write, c, d, i, acc)     == XmrOk(d, acc.x)
HandDownFold == INSTANCE FoldRule WITH Op <- HandDownStep, P <- HandDownKept

LEMMA XmrHandDownOne ==
  ASSUME NEW d, NEW acc, XmrOk(d, acc.x), NEW write, NEW hop, NEW i
  PROVE  XmrOk(d, Xmr!HandDownOne(acc, write, hop, i).x)
<1>1. \A x, inputs, port, vals : Xmr!HandedDown(x, inputs, port, vals, i).x = x
  BY DEF Xmr!HandedDown
<1>2. ASSUME NEW x, XmrOk(d, x), NEW port, NEW vals
      PROVE  XmrOk(d, Xmr!HandDownBound(x, hop, port, vals, i).x)
  <2> DEFINE y == Xmr!EnsureInstanceInput(x, hop.parent, hop.op, port, vals[i])
  <2>1. XmrOk(d, y)
    BY <1>2, XmrPorts
  <2>2. Xmr!HandDownBound(x, hop, port, vals, i) = Xmr!HandedDown(y, x.d[hop.child].inp, port, vals, i)
    BY Zenon DEF Xmr!HandDownBound
  <2> HIDE DEF y
  <2> QED BY <1>1, <2>1, <2>2
<1>3. ASSUME NEW x, XmrOk(d, x), NEW vals
      PROVE  XmrOk(d, Xmr!HandDownFrom(x, write, hop, vals, i).x)
  <2> DEFINE port == Xmr!PortNameOf(x, hop.child, "w", write.path, write.labels[i])
             v == x.d[hop.parent].vals[vals[i]]
             y == Xmr!EnsureInputPort(x, hop.child, port, v.w, v.sgn)
  <2>1. XmrOk(d, y)
    BY <1>3, XmrPorts
  <2>2. Xmr!HandDownFrom(x, write, hop, vals, i) = Xmr!HandDownBound(y, hop, port, vals, i)
    BY Zenon DEF Xmr!HandDownFrom, Xmr!HandDownNamed
  <2> HIDE DEF y, port
  <2> QED BY <1>2, <2>1, <2>2
<1> DEFINE z == Xmr!GetPortName(acc.x, hop.child, "w", write.path, write.labels[i])
<1>4. XmrOk(d, z)
  BY XmrPorts
<1>5. Xmr!HandDownOne(acc, write, hop, i) = Xmr!HandDownFrom(z, write, hop, acc.vals, i)
  BY Zenon DEF Xmr!HandDownOne
<1> HIDE DEF z
<1> QED BY <1>3, <1>4, <1>5

LEMMA XmrHandDown ==
  ASSUME NEW d, NEW acc, XmrOk(d, acc.x), NEW write, IsList(write.labels), NEW hop
  PROVE  XmrOk(d, Xmr!HandDown(acc, write, hop).x)
<1> DEFINE s == [i \in DOMAIN write.labels |-> i]
<1>1. Xmr!HandDown(acc, write, hop) = OperandFold!Folded(write, hop, d, acc, s)
  BY Zenon DEF Xmr!HandDown, Xmr!FoldLeftDomain, OperandFold!Folded, Xmr!FoldLeft, Xmr!MapThenFoldSet,
         Xmr!Max, OperandFold!Last, OperandStep
<1>2. Len(write.labels) \in Nat /\ DOMAIN s = 1..Len(write.labels)
  BY DEF IsList
<1> HIDE DEF s
<1>3. \A i \in 1..Len(write.labels) : \A z :
         OperandKept(write, hop, d, i - 1, z) => OperandKept(write, hop, d, i, OperandStep(write, hop, d, z, s[i]))
  BY Zenon, XmrHandDownOne DEF OperandKept, OperandStep
<1>4. OperandKept(write, hop, d, 0, acc)
  BY DEF OperandKept
<1>5. OperandKept(write, hop, d, Len(write.labels), OperandFold!Folded(write, hop, d, acc, s))
  BY <1>2, <1>3, <1>4, LeastNatural, OperandFold!Fold
<1> QED BY Zenon, <1>1, <1>5 DEF OperandKept

LEMMA XmrWriteAt ==
  ASSUME NEW d, NEW down, XmrOk(d, down.x), NEW n, NEW o, NEW op, NEW leaf, NEW s, NEW name
  PROVE  XmrOk(d, Xmr!WriteAt(down, n, o, op, leaf, s, name))
<1> DEFINE y == Xmr!WriteLeaf(down.x, leaf, s, name, op, down.vals)
<1>1. XmrOk(d, y)
  BY Zenon, XmrUpdates DEF Xmr!WriteLeaf
<1> HIDE DEF y
<1>2. \A m, g : XmrOk(d, Xmr!Edit(y, m, g))
  BY Zenon, <1>1, XmrUpdates
<1>3. XmrOk(d, Xmr!WriteResolved(y, n, o))
  BY Zenon, <1>2 DEF Xmr!WriteResolved
<1> QED BY Zenon, <1>3 DEF Xmr!WriteAt, y

LEMMA XmrWriteDown ==
  ASSUME NEW d, NEW x, XmrOk(d, x), NEW n, NEW o, NEW op, NEW to, IsList(to.hops), NEW s, NEW name,
         NEW write, IsList(write.labels)
  PROVE  XmrOk(d, Xmr!WriteDown(x, n, o, op, to, s, name, write))
<1> DEFINE base == Xmr!Operands(x, n, o, write.labels)
           down == HandDownFold!Folded(write, 0, d, base, to.hops)
<1>1. Xmr!WriteDown(x, n, o, op, to, s, name, write)
        = IF write.labels = <<>> THEN Xmr!Fail(x) ELSE Xmr!WriteAt(down, n, o, op, to.leaf, s, name)
  BY Zenon DEF Xmr!WriteDown, HandDownFold!Folded, Xmr!FoldLeft, Xmr!MapThenFoldSet,
         Xmr!Max, HandDownFold!Last, HandDownStep
<1>2. HandDownKept(write, 0, d, 0, base)
  BY DEF HandDownKept, Xmr!Operands
<1> HIDE DEF base
<1>3. \A i \in 1..Len(to.hops) : \A z :
         HandDownKept(write, 0, d, i - 1, z) => HandDownKept(write, 0, d, i, HandDownStep(write, 0, d, z, to.hops[i]))
  BY Zenon, XmrHandDown DEF HandDownKept, HandDownStep
<1>4. Len(to.hops) \in Nat /\ DOMAIN to.hops = 1..Len(to.hops)
  BY DEF IsList
<1>5. HandDownKept(write, 0, d, Len(to.hops), down)
  BY <1>2, <1>3, <1>4, LeastNatural, HandDownFold!Fold
<1> HIDE DEF down
<1>6. XmrOk(d, Xmr!WriteAt(down, n, o, op, to.leaf, s, name))
  BY Zenon, <1>5, XmrWriteAt DEF HandDownKept
<1>7. XmrOk(d, Xmr!Fail(x))
  BY XmrUpdates
<1> QED BY Zenon, <1>1, <1>6, <1>7

LEMMA XmrWrite ==
  ASSUME NEW d, NEW x, XmrOk(d, x), NEW n, NEW o, NEW op, IsList(op.in), IsList(op.a.path)
  PROVE  XmrOk(d, Xmr!ResolveWrite(x, n, o, op))
<1> DEFINE path == Xmr!Trim(n, op.a.path)
           to == Xmr!Hops(x.d, n, path)
           r == Xmr!ResolveWrite(x, n, o, op)
<1>1. path # <<>> => IsList(to.hops)
  BY XmrTrim, XmrHops
<1>2. XmrOk(d, Xmr!Fail(x))
  BY XmrUpdates
<1>3. r = Xmr!Fail(x) \/ r = x
        \/ (path # <<>> /\ \E s, name : r = Xmr!WriteStored(x, n, o, op, to, s, name))
  BY Zenon DEF Xmr!ResolveWrite, Xmr!WriteThrough
<1> HIDE DEF path, to, r
<1>4. ASSUME NEW s, NEW name, path # <<>>
      PROVE  XmrOk(d, Xmr!WriteStored(x, n, o, op, to, s, name))
  <2> DEFINE write == [path |-> op.a.path, labels |-> Xmr!WriteLabels(x.d[to.leaf], s, op)]
  <2>1. IsList(write.labels)
    BY XmrLabels
  <2>2. Xmr!WriteStored(x, n, o, op, to, s, name) = Xmr!WriteDown(x, n, o, op, to, s, name, write)
    BY Zenon DEF Xmr!WriteStored
  <2> HIDE DEF write
  <2> QED BY <1>1, <1>4, <2>1, <2>2, XmrWriteDown
<1> QED BY Zenon, <1>2, <1>3, <1>4 DEF r

(* The pass walks the graphs, the operations of a graph and the ports that   *)
(* are new.                                                                  *)
WholeDesign(d) == IsFunction(d) /\ IsFiniteSet(DOMAIN d) /\ \A n \in DOMAIN d : IsGraph(d[n])
LEMMA XmrLists ==
  ASSUME NEW d, WholeDesign(d)
  PROVE  /\ \E k \in Nat : Xmr!GraphNames(d) \in [1..k -> DOMAIN d]
         /\ \A n \in DOMAIN d : \A kinds : Xmr!OpsOfKinds(d[n], kinds) \in
                Seq({o \in DOMAIN d[n].ops : d[n].ops[o].kind \in kinds})
         /\ \A n \in DOMAIN d : \A m : IsList(Xmr!InstancesOf(d[n], m))
<1>1. \E k \in Nat : Xmr!GraphNames(d) \in [1..k -> DOMAIN d]
  BY GraphNamesIsList DEF WholeDesign, Xmr!GraphNames
<1>2. ASSUME NEW n \in DOMAIN d, NEW S
      PROVE  Xmr!Ascending(S, d[n].nop - 1) \in Seq(S \cap Nat)
  <2>1. d[n].nop - 1 \in Nat
    BY DEF WholeDesign, IsGraph
  <2>2. Xmr!Ascending(S, d[n].nop - 1) = Ascending(S, d[n].nop - 1)
    BY Zenon DEF Xmr!Ascending, Ascending
  <2> QED BY <2>1, <2>2, AscendingIsList
<1>3. ASSUME NEW n \in DOMAIN d, NEW kinds
      PROVE  Xmr!OpsOfKinds(d[n], kinds) \in Seq({o \in DOMAIN d[n].ops : d[n].ops[o].kind \in kinds})
  <2> DEFINE S == {o \in DOMAIN d[n].ops : d[n].ops[o].kind \in kinds}
  <2>1. Xmr!OpsOfKinds(d[n], kinds) = Xmr!Ascending(S, d[n].nop - 1)
    BY Zenon DEF Xmr!OpsOfKinds, Xmr!Kind
  <2> HIDE DEF S
  <2>2. \A s : s \in Seq(S \cap Nat) => s \in Seq(S)
    OBVIOUS
  <2>3. Xmr!OpsOfKinds(d[n], kinds) \in Seq(S)
    BY Zenon, <1>2, <2>1, <2>2
  <2> QED BY <2>3 DEF S
<1>4. ASSUME NEW n \in DOMAIN d, NEW m
      PROVE  IsList(Xmr!InstancesOf(d[n], m))
  <2> DEFINE S == {o \in DOMAIN d[n].ops :
                     Xmr!Kind(d[n], o) \in {"kInstance", "kBlackbox"} /\ d[n].ops[o].a.module = m}
  <2>1. Xmr!InstancesOf(d[n], m) = Xmr!Ascending(S, d[n].nop - 1)
    BY Zenon DEF Xmr!InstancesOf
  <2> HIDE DEF S
  <2> QED BY <1>2, <2>1, ListOfSeq
<1> QED BY Zenon, <1>1, <1>3, <1>4

XmrKept(c, e, d, i, x) == XmrOk(d, x)
ResolveOpStep(g, n, d, x, o) == Xmr!ResolveOp(x, n, o, g.ops[o])
ResolveOpFold == INSTANCE FoldRule WITH Op <- ResolveOpStep, P <- XmrKept
LEMMA XmrResolveGraph ==
  ASSUME NEW d, WholeDesign(d), NEW n \in DOMAIN d, NEW x, XmrOk(d, x)
  PROVE  XmrOk(d, Xmr!ResolveGraph(x, d[n], n))
<1> DEFINE s == Xmr!OpsOfKinds(d[n], {"kXMRRead", "kXMRWrite"})
           S == {o \in DOMAIN d[n].ops : d[n].ops[o].kind \in {"kXMRRead", "kXMRWrite"}}
<1>1. Xmr!ResolveGraph(x, d[n], n) = ResolveOpFold!Folded(d[n], n, d, x, s)
  BY Zenon DEF Xmr!ResolveGraph, ResolveOpFold!Folded, Xmr!FoldLeft, Xmr!MapThenFoldSet, Xmr!Max,
         ResolveOpFold!Last, ResolveOpStep
<1>2. s \in Seq(S)
  BY XmrLists
<1>3. \A o \in S : LET op == d[n].ops[o] IN IsList(op.in) /\ IsList(op.a.path)
  BY DEF WholeDesign, IsGraph, Kind
<1> HIDE DEF s, S
<1>4. ASSUME NEW i \in 1..Len(s), NEW y, XmrOk(d, y)
      PROVE  XmrOk(d, Xmr!ResolveOp(y, n, s[i], d[n].ops[s[i]]))
  <2> DEFINE op == d[n].ops[s[i]]
  <2>1. IsList(op.in) /\ IsList(op.a.path)
    BY <1>2, <1>3
  <2> HIDE DEF op
  <2>2. XmrOk(d, Xmr!ResolveRead(y, n, s[i], op)) /\ XmrOk(d, Xmr!ResolveWrite(y, n, s[i], op))
    BY <1>4, <2>1, XmrRead, XmrWrite
  <2>3. XmrOk(d, Xmr!ResolveOp(y, n, s[i], op))
    BY Zenon, <2>2 DEF Xmr!ResolveOp
  <2> QED BY <2>3 DEF op
<1>5. \A i \in 1..Len(s) : \A y : XmrKept(d[n], n, d, i - 1, y) => XmrKept(d[n], n, d, i, ResolveOpStep(d[n], n, d, y, s[i]))
  BY Zenon, <1>4 DEF XmrKept, ResolveOpStep
<1>6. XmrKept(d[n], n, d, 0, x)
  BY DEF XmrKept
<1>7. Len(s) \in Nat /\ DOMAIN s = 1..Len(s)
  BY <1>2
<1>8. XmrKept(d[n], n, d, Len(s), ResolveOpFold!Folded(d[n], n, d, x, s))
  BY <1>5, <1>6, <1>7, LeastNatural, ResolveOpFold!Fold
<1> QED BY Zenon, <1>1, <1>8 DEF XmrKept

ResolveStep(c, e, d, x, n) == Xmr!ResolveGraph(x, d[n], n)
ResolveAllFold == INSTANCE FoldRule WITH Op <- ResolveStep, P <- XmrKept
LEMMA XmrResolveAll ==
  ASSUME NEW d, WholeDesign(d), NEW x, XmrOk(d, x)
  PROVE  XmrOk(d, Xmr!ResolveAll(x, d))
<1> DEFINE s == Xmr!GraphNames(d)
<1>1. Xmr!ResolveAll(x, d) = ResolveAllFold!Folded(0, 0, d, x, s)
  BY Zenon DEF Xmr!ResolveAll, ResolveAllFold!Folded, Xmr!FoldLeft, Xmr!MapThenFoldSet, Xmr!Max,
         ResolveAllFold!Last, ResolveStep
<1>2. \E k \in Nat : DOMAIN s = 1..k /\ \A i \in 1..k : s[i] \in DOMAIN d
  BY XmrLists
<1> HIDE DEF s
<1>3. PICK k \in Nat : DOMAIN s = 1..k /\ \A i \in 1..k : s[i] \in DOMAIN d
  BY <1>2
<1>4. \A i \in 1..k : \A y : XmrKept(0, 0, d, i - 1, y) => XmrKept(0, 0, d, i, ResolveStep(0, 0, d, y, s[i]))
  BY Zenon, <1>3, XmrResolveGraph DEF XmrKept, ResolveStep
<1>5. XmrKept(0, 0, d, 0, x)
  BY DEF XmrKept
<1>6. XmrKept(0, 0, d, k, ResolveAllFold!Folded(0, 0, d, x, s))
  BY <1>3, <1>4, <1>5, LeastNatural, ResolveAllFold!Fold
<1> QED BY Zenon, <1>1, <1>6 DEF XmrKept

OutputInStep(n, p, d, x, o) == Xmr!EnsureInstanceOutput(x, n, o, p.name, p.w, p.sgn)
OutputInFold == INSTANCE FoldRule WITH Op <- OutputInStep, P <- XmrKept
LEMMA XmrOutputIn ==
  ASSUME NEW d, WholeDesign(d), NEW x, XmrOk(d, x), NEW p, NEW n \in DOMAIN d
  PROVE  XmrOk(d, Xmr!ConnectOutputIn(x, d, p, n))
<1> DEFINE s == Xmr!InstancesOf(d[n], p.module)
<1>1. Xmr!ConnectOutputIn(x, d, p, n) = OutputInFold!Folded(n, p, d, x, s)
  BY Zenon DEF Xmr!ConnectOutputIn, OutputInFold!Folded, Xmr!FoldLeft, Xmr!MapThenFoldSet, Xmr!Max,
         OutputInFold!Last, OutputInStep
<1>2. \E k \in Nat : DOMAIN s = 1..k
  BY XmrLists DEF IsList
<1> HIDE DEF s
<1>3. PICK k \in Nat : DOMAIN s = 1..k
  BY <1>2
<1>4. \A i \in 1..k : \A y : XmrKept(n, p, d, i - 1, y) => XmrKept(n, p, d, i, OutputInStep(n, p, d, y, s[i]))
  BY Zenon, <1>3, XmrPorts DEF XmrKept, OutputInStep
<1>5. XmrKept(n, p, d, 0, x)
  BY DEF XmrKept
<1>6. XmrKept(n, p, d, k, OutputInFold!Folded(n, p, d, x, s))
  BY <1>3, <1>4, <1>5, LeastNatural, OutputInFold!Fold
<1> QED BY Zenon, <1>1, <1>6 DEF XmrKept

OutputStep(p, e, d, x, n) == Xmr!ConnectOutputIn(x, d, p, n)
OutputEachFold == INSTANCE FoldRule WITH Op <- OutputStep, P <- XmrKept
LEMMA XmrOutputEach ==
  ASSUME NEW d, WholeDesign(d), NEW x, XmrOk(d, x), NEW p
  PROVE  XmrOk(d, Xmr!ConnectOutput(x, d, p))
<1> DEFINE s == Xmr!GraphNames(d)
<1>1. Xmr!ConnectOutput(x, d, p) = OutputEachFold!Folded(p, 0, d, x, s)
  BY Zenon DEF Xmr!ConnectOutput, OutputEachFold!Folded, Xmr!FoldLeft, Xmr!MapThenFoldSet, Xmr!Max,
         OutputEachFold!Last, OutputStep
<1>2. \E k \in Nat : DOMAIN s = 1..k /\ \A i \in 1..k : s[i] \in DOMAIN d
  BY XmrLists
<1> HIDE DEF s
<1>3. PICK k \in Nat : DOMAIN s = 1..k /\ \A i \in 1..k : s[i] \in DOMAIN d
  BY <1>2
<1>4. \A i \in 1..k : \A y : XmrKept(p, 0, d, i - 1, y) => XmrKept(p, 0, d, i, OutputStep(p, 0, d, y, s[i]))
  BY Zenon, <1>3, XmrOutputIn DEF XmrKept, OutputStep
<1>5. XmrKept(p, 0, d, 0, x)
  BY DEF XmrKept
<1>6. XmrKept(p, 0, d, k, OutputEachFold!Folded(p, 0, d, x, s))
  BY <1>3, <1>4, <1>5, LeastNatural, OutputEachFold!Fold
<1> QED BY Zenon, <1>1, <1>6 DEF XmrKept

OutputsStep(c, e, d, x, p) == Xmr!ConnectOutput(x, d, p)
OutputsFold == INSTANCE FoldRule WITH Op <- OutputsStep, P <- XmrKept
LEMMA XmrOutputs ==
  ASSUME NEW d, WholeDesign(d), NEW x, XmrOk(d, x)
  PROVE  XmrOk(d, Xmr!ConnectOutputs(x, d))
<1> DEFINE s == x.outs
<1>1. Xmr!ConnectOutputs(x, d) = OutputsFold!Folded(0, 0, d, x, s)
  BY Zenon DEF Xmr!ConnectOutputs, OutputsFold!Folded, Xmr!FoldLeft, Xmr!MapThenFoldSet, Xmr!Max,
         OutputsFold!Last, OutputsStep
<1>2. \E k \in Nat : DOMAIN s = 1..k
  BY DEF XmrOk, IsList
<1> HIDE DEF s
<1>3. PICK k \in Nat : DOMAIN s = 1..k
  BY <1>2
<1>4. \A i \in 1..k : \A y : XmrKept(0, 0, d, i - 1, y) => XmrKept(0, 0, d, i, OutputsStep(0, 0, d, y, s[i]))
  BY Zenon, <1>3, XmrOutputEach DEF XmrKept, OutputsStep
<1>5. XmrKept(0, 0, d, 0, x)
  BY DEF XmrKept
<1>6. XmrKept(0, 0, d, k, OutputsFold!Folded(0, 0, d, x, s))
  BY <1>3, <1>4, <1>5, LeastNatural, OutputsFold!Fold
<1> QED BY Zenon, <1>1, <1>6 DEF XmrKept

LEMMA XmrPadded ==
  ASSUME NEW d, NEW x, XmrOk(d, x), NEW n, NEW o, NEW p
  PROVE  XmrOk(d, Xmr!Padded(x, n, o, p))
<1> DEFINE y == Xmr!GetPadInput(x, n, p.w, p.sgn)
<1>1. XmrOk(d, y)
  BY XmrPorts
<1> HIDE DEF y
<1>2. \A v : XmrOk(d, Xmr!EnsureInstanceInput(y, n, o, p.name, v))
  BY <1>1, XmrPorts
<1> QED BY Zenon, <1>2 DEF Xmr!Padded, Xmr!PadInput, y

InputInStep(n, p, d, x, o) == Xmr!Padded(x, n, o, p)
InputInFold == INSTANCE FoldRule WITH Op <- InputInStep, P <- XmrKept
LEMMA XmrInputIn ==
  ASSUME NEW d, WholeDesign(d), NEW x, XmrOk(d, x), NEW p, NEW n \in DOMAIN d
  PROVE  XmrOk(d, Xmr!ConnectInputIn(x, d, p, n))
<1> DEFINE s == Xmr!InstancesOf(d[n], p.module)
<1>1. Xmr!ConnectInputIn(x, d, p, n) = InputInFold!Folded(n, p, d, x, s)
  BY Zenon DEF Xmr!ConnectInputIn, InputInFold!Folded, Xmr!FoldLeft, Xmr!MapThenFoldSet, Xmr!Max,
         InputInFold!Last, InputInStep
<1>2. \E k \in Nat : DOMAIN s = 1..k
  BY XmrLists DEF IsList
<1> HIDE DEF s
<1>3. PICK k \in Nat : DOMAIN s = 1..k
  BY <1>2
<1>4. \A i \in 1..k : \A y : XmrKept(n, p, d, i - 1, y) => XmrKept(n, p, d, i, InputInStep(n, p, d, y, s[i]))
  BY Zenon, <1>3, XmrPadded DEF XmrKept, InputInStep
<1>5. XmrKept(n, p, d, 0, x)
  BY DEF XmrKept
<1>6. XmrKept(n, p, d, k, InputInFold!Folded(n, p, d, x, s))
  BY <1>3, <1>4, <1>5, LeastNatural, InputInFold!Fold
<1> QED BY Zenon, <1>1, <1>6 DEF XmrKept

InputStep(p, e, d, x, n) == Xmr!ConnectInputIn(x, d, p, n)
InputEachFold == INSTANCE FoldRule WITH Op <- InputStep, P <- XmrKept
LEMMA XmrInputEach ==
  ASSUME NEW d, WholeDesign(d), NEW x, XmrOk(d, x), NEW p
  PROVE  XmrOk(d, Xmr!ConnectInput(x, d, p))
<1> DEFINE s == Xmr!GraphNames(d)
<1>1. Xmr!ConnectInput(x, d, p) = InputEachFold!Folded(p, 0, d, x, s)
  BY Zenon DEF Xmr!ConnectInput, InputEachFold!Folded, Xmr!FoldLeft, Xmr!MapThenFoldSet, Xmr!Max,
         InputEachFold!Last, InputStep
<1>2. \E k \in Nat : DOMAIN s = 1..k /\ \A i \in 1..k : s[i] \in DOMAIN d
  BY XmrLists
<1> HIDE DEF s
<1>3. PICK k \in Nat : DOMAIN s = 1..k /\ \A i \in 1..k : s[i] \in DOMAIN d
  BY <1>2
<1>4. \A i \in 1..k : \A y : XmrKept(p, 0, d, i - 1, y) => XmrKept(p, 0, d, i, InputStep(p, 0, d, y, s[i]))
  BY Zenon, <1>3, XmrInputIn DEF XmrKept, InputStep
<1>5. XmrKept(p, 0, d, 0, x)
  BY DEF XmrKept
<1>6. XmrKept(p, 0, d, k, InputEachFold!Folded(p, 0, d, x, s))
  BY <1>3, <1>4, <1>5, LeastNatural, InputEachFold!Fold
<1> QED BY Zenon, <1>1, <1>6 DEF XmrKept

InputsStep(c, e, d, x, p) == Xmr!ConnectInput(x, d, p)
InputsFold == INSTANCE FoldRule WITH Op <- InputsStep, P <- XmrKept
LEMMA XmrInputs ==
  ASSUME NEW d, WholeDesign(d), NEW x, XmrOk(d, x)
  PROVE  XmrOk(d, Xmr!ConnectInputs(x, d))
<1> DEFINE s == x.ins
<1>1. Xmr!ConnectInputs(x, d) = InputsFold!Folded(0, 0, d, x, s)
  BY Zenon DEF Xmr!ConnectInputs, InputsFold!Folded, Xmr!FoldLeft, Xmr!MapThenFoldSet, Xmr!Max,
         InputsFold!Last, InputsStep
<1>2. \E k \in Nat : DOMAIN s = 1..k
  BY DEF XmrOk, IsList
<1> HIDE DEF s
<1>3. PICK k \in Nat : DOMAIN s = 1..k
  BY <1>2
<1>4. \A i \in 1..k : \A y : XmrKept(0, 0, d, i - 1, y) => XmrKept(0, 0, d, i, InputsStep(0, 0, d, y, s[i]))
  BY Zenon, <1>3, XmrInputEach DEF XmrKept, InputsStep
<1>5. XmrKept(0, 0, d, 0, x)
  BY DEF XmrKept
<1>6. XmrKept(0, 0, d, k, InputsFold!Folded(0, 0, d, x, s))
  BY <1>3, <1>4, <1>5, LeastNatural, InputsFold!Fold
<1> QED BY Zenon, <1>1, <1>6 DEF XmrKept

LEMMA XmrQuiet ==
  ASSUME NEW d, WholeDesign(d)
  PROVE  QuietDesign(Xmr!XmrResolve(d), d)
<1> DEFINE x == Xmr!ResolveAll(Xmr!StartXmr(d), d)
           y == Xmr!ConnectAll(x, d)
<1>1. XmrOk(d, Xmr!StartXmr(d))
  BY DEF XmrOk, XmrFields, Xmr!StartXmr, IsList
<1>2. XmrOk(d, x)
  BY <1>1, XmrResolveAll
<1> HIDE DEF x
<1>3. XmrOk(d, Xmr!ConnectOutputs(x, d))
  BY <1>2, XmrOutputs
<1>4. XmrOk(d, y)
  BY <1>3, XmrInputs DEF Xmr!ConnectAll
<1> HIDE DEF y
<1>5. Xmr!XmrReport(y).changed = y.changed /\ Xmr!XmrReport(y).d = y.d
  BY DEF Xmr!XmrReport
<1>6. QuietDesign(Xmr!XmrReport(y), d)
  BY Zenon, <1>4, <1>5 DEF QuietDesign, Quiet, XmrOk
<1> QED BY Zenon, <1>6 DEF x, y, Xmr!XmrResolve
=============================================================================
