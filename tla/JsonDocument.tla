---------------------------- MODULE JsonDocument ----------------------------
(***************************************************************************)
(* A design written as a JSON document and read back, as write_json and    *)
(* read_json do.  The document is the tree of its fields: values and       *)
(* operations are known by their symbols, not by their ids, and what a     *)
(* port or an operand refers to is looked up again.  The three layouts     *)
(* hold the same fields.  The text of the tree is not modelled.            *)
(*                                                                         *)
(* An internal symbol is <<Tmp, n>> here: they are distinct texts, and the *)
(* reader makes them internal symbols again.  Source locations, use lists  *)
(* and defining operations are written, but nothing read depends on them.  *)
(***************************************************************************)
EXTENDS Netlist

Text(sym, id) == IF sym = Tmp THEN <<Tmp, id>> ELSE <<sym>>
Symbol(text)  == text[1]
ValueText(g, v) == Text(g.vals[v].sym, v)
\* The counters of internal names differ: no value has the name of an operation.
OpText(g, o)    == Text(g.ops[o].sym, -o)

\* The type of the value an attribute holds.
Strings == {"lit", "target", "name", "module", "inst", "path"}
Ints    == {"width", "row", "lo", "hi", "rep"}
Bools   == {"sgn", "none", "ret", "effects"}
StringArrays == {"ins", "outs", "ios", "edges", "kinds", "files", "values"}
IntArrays    == {"starts", "lens"}
ArrayTypes   == {"string[]", "int[]"}
AttrType(op, key) ==
    CASE key = "init" -> IF op.kind = "kMemory" THEN "string[]" ELSE "string"
      [] key \in Strings -> "string"
      [] key \in Ints    -> "int"
      [] key \in Bools   -> "bool"
      [] key \in StringArrays -> "string[]"
      [] key \in IntArrays    -> "int[]"

-----------------------------------------------------------------------------
(* Writing.                                                                *)

WriteAttr(type, val) == IF type \in ArrayTypes THEN [t |-> type, vs |-> val] ELSE [t |-> type, v |-> val]
WriteAttrs(op) == [key \in DOMAIN op.a |-> WriteAttr(AttrType(op, key), op.a[key])]
WriteValue(g, v) ==
    LET val == g.vals[v]
    IN  [sym |-> ValueText(g, v), w |-> val.w, sgn |-> val.sgn, type |-> val.typ,
         in |-> IsInput(g, v), out |-> IsOutput(g, v), inout |-> IsInout(g, v)]
WritePorts(g, ports) == [i \in DOMAIN ports |-> [name |-> ports[i].name, val |-> ValueText(g, ports[i].val)]]
WriteInoutPorts(g) ==
    [i \in DOMAIN g.io |-> [name |-> g.io[i].name, in |-> ValueText(g, g.io[i].in),
                            out |-> ValueText(g, g.io[i].out), oe |-> ValueText(g, g.io[i].oe)]]
WriteOperation(g, o) ==
    LET Texts(vs) == [i \in DOMAIN vs |-> ValueText(g, vs[i])]
    IN  [sym |-> OpText(g, o), kind |-> g.ops[o].kind, in |-> Texts(g.ops[o].in),
         out |-> Texts(g.ops[o].out), attrs |-> WriteAttrs(g.ops[o])]
WriteGraph(name, g) ==
    [symbol |-> name, declaredSymbols |-> g.decl,
     vals  |-> [i \in DOMAIN ValIds(g) |-> WriteValue(g, ValIds(g)[i])],
     ports |-> [in |-> WritePorts(g, g.inp), out |-> WritePorts(g, g.outp), inout |-> WriteInoutPorts(g)],
     ops   |-> [i \in DOMAIN OpIds(g) |-> WriteOperation(g, OpIds(g)[i])]]

\* The tops asked for; the file is refused when one is not there, or none.
ResolveTopGraphs(d, tops) == SelectSeq(tops, LAMBDA n : n \in DOMAIN d)
Storable(d, tops) == tops # <<>> /\ ResolveTopGraphs(d, tops) = tops
StoreJson(d, names, tops) ==
    [ok |-> Storable(d, tops),
     graphs |-> [i \in DOMAIN names |-> WriteGraph(names[i], d[names[i]])],
     tops |-> ResolveTopGraphs(d, tops)]

-----------------------------------------------------------------------------
(* Reading.  s is [g, val, ops, ok]: the graph so far, the value each text *)
(* names, the texts taken by operations, and whether nothing was refused.  *)

Refuse(s) == [s EXCEPT !.ok = FALSE]
Taken(s, text) == text \in DOMAIN s.val \cup s.ops
ReadValue(s, e) ==
    LET h == CreateValue(s.g, e.w, e.sgn, Symbol(e.sym))
    IN  IF Taken(s, e.sym) \/ e.w <= 0 \/ (e.inout /\ (e.in \/ e.out)) THEN Refuse(s)
        ELSE [s EXCEPT !.g = [h EXCEPT !.vals[s.g.nval].typ = e.type], !.val = @ @@ (e.sym :> s.g.nval)]

\* A port of a name that is there already takes its place.
AddPort(ports, p) ==
    LET i == SelectInSeq(ports, LAMBDA q : q.name = p.name)
    IN  IF i = 0 THEN Append(ports, p) ELSE [ports EXCEPT ![i] = p]
ReadPorts(s, entries) ==
    FoldLeft(LAMBDA ports, e : AddPort(ports, [name |-> e.name, val |-> s.val[e.val]]), <<>>, entries)
ReadInoutPorts(s, entries) ==
    FoldLeft(LAMBDA ports, e : AddPort(ports, [name |-> e.name, in |-> s.val[e.in], out |-> s.val[e.out],
                                               oe |-> s.val[e.oe]]), <<>>, entries)
PortTexts(ports) ==
    {e.val : e \in Range(ports.in) \cup Range(ports.out)}
      \cup UNION {{e.in, e.out, e.oe} : e \in Range(ports.inout)}
\* The flags of the values and the ports must agree.
FlagsAgree(s, e) ==
    LET Marked(flag) == {s.val[v.sym] : v \in {x \in Range(e.vals) : x[flag]}}
        V == DOMAIN s.g.vals
    IN  /\ Marked("in") = {v \in V : IsInput(s.g, v)}
        /\ Marked("out") = {v \in V : IsOutput(s.g, v)}
        /\ \A v \in V : ~(IsInout(s.g, v) /\ (IsInput(s.g, v) \/ IsOutput(s.g, v)))
        /\ Marked("inout") \subseteq {v \in V : IsInout(s.g, v)}
ReadAllPorts(s, e) ==
    LET t == [s EXCEPT !.g.inp = ReadPorts(s, e.ports.in), !.g.outp = ReadPorts(s, e.ports.out),
                       !.g.io = ReadInoutPorts(s, e.ports.inout)]
    IN  IF ~s.ok \/ ~(PortTexts(e.ports) \subseteq DOMAIN s.val) THEN Refuse(s)
        ELSE IF FlagsAgree(t, e) THEN t ELSE Refuse(s)

ReadAttr(e) == IF e.t \in ArrayTypes THEN e.vs ELSE e.v
ReadOperation(s, e) ==
    LET Ids(texts) == [i \in DOMAIN texts |-> s.val[texts[i]]]
        h == CreateOp(s.g, e.kind, Ids(e.in), Ids(e.out), [key \in DOMAIN e.attrs |-> ReadAttr(e.attrs[key])])
    IN  IF \/ ~s.ok \/ Taken(s, e.sym) \/ ~(Range(e.in) \cup Range(e.out) \subseteq DOMAIN s.val)
           \/ ~IsInjective(e.out) \/ \E v \in Range(Ids(e.out)) : Def(s.g, v) # 0
        THEN Refuse(s)
        ELSE [s EXCEPT !.g = [h EXCEPT !.ops[s.g.nop].sym = Symbol(e.sym)], !.ops = @ \cup {e.sym}]

EmptyGraph ==
    [ops |-> << >>, vals |-> << >>, inp |-> <<>>, outp |-> <<>>, io |-> <<>>, decl |-> {}, nop |-> 1, nval |-> 1]
ReadGraph(e) ==
    LET declared == [g |-> [EmptyGraph EXCEPT !.decl = e.declaredSymbols], val |-> << >>, ops |-> {}, ok |-> TRUE]
        values   == FoldLeft(LAMBDA s, v : IF s.ok THEN ReadValue(s, v) ELSE s, declared, e.vals)
    IN  FoldLeft(ReadOperation, ReadAllPorts(values, e), e.ops)

\* [ok, d]: a refusal anywhere refuses the document.
LoadJson(doc) ==
    LET graphs == [i \in DOMAIN doc.graphs |-> ReadGraph(doc.graphs[i])]
        names  == {doc.graphs[i].symbol : i \in DOMAIN doc.graphs}
        At(n)  == CHOOSE i \in DOMAIN doc.graphs : doc.graphs[i].symbol = n
    IN  [ok |-> /\ \A i \in DOMAIN graphs : graphs[i].ok
                /\ Cardinality(names) = Len(doc.graphs) /\ Range(doc.tops) \subseteq names,
         d  |-> [n \in names |-> graphs[At(n)].g]]
=============================================================================
