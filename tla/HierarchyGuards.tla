--------------------------- MODULE HierarchyGuards ---------------------------
(***************************************************************************)
(* The two passes that prepare a design for the hierarchy passes:          *)
(* blackbox-guard gives unresolved black boxes a stub graph and turns them *)
(* into instances, multidriven-guard reports inout ports that both sides   *)
(* of an instance drive.                                                   *)
(***************************************************************************)
EXTENDS OpSemantics

BlackboxesOf(g) == OpsOfKinds(g, {"kBlackbox"})
\* The graphs of a design, in some order: it keeps them in a hash map.
GraphNames(d) == SetToSeq(DOMAIN d)

-----------------------------------------------------------------------------
(* blackbox-guard.  A port specification is [name, w, sgn].                *)

Named(op) == {"ins", "outs"} \subseteq DOMAIN op.a
PortSpec(g, name, vs, i) ==
    IF i > Len(vs) THEN [name |-> name, w |-> 1, sgn |-> FALSE]
    ELSE [name |-> name, w |-> g.vals[vs[i]].w, sgn |-> g.vals[vs[i]].sgn]
StubSpec(g, op) ==
    LET ni == Len(op.a.ins)
        no == Len(op.a.outs)
        nio == Len(op.a.ios)
    IN  [ins  |-> [i \in 1..ni |-> PortSpec(g, op.a.ins[i], op.in, i)],
         outs |-> [i \in 1..no |-> PortSpec(g, op.a.outs[i], op.out, i)],
         ios  |-> [i \in 1..nio |->
                      [name |-> op.a.ios[i],
                       in   |-> PortSpec(g, op.a.ios[i] \o "__in", op.in, ni + i),
                       out  |-> PortSpec(g, op.a.ios[i] \o "__out", op.out, no + i),
                       oe   |-> PortSpec(g, op.a.ios[i] \o "__oe", op.out, no + nio + i)]]]

EmptyGraph == [ops |-> << >>, vals |-> << >>, inp |-> <<>>, outp |-> <<>>, io |-> <<>>,
               decl |-> {}, nop |-> 1, nval |-> 1]
NamedValue(h, p) == CreateValue(h, p.w, p.sgn, UniqueName(h, p.name, "_"))
StubGraph(spec) ==
    LET Input(h, p)  == [NamedValue(h, p) EXCEPT !.inp = Append(@, [name |-> p.name, val |-> h.nval])]
        Output(h, p) == [NamedValue(h, p) EXCEPT !.outp = Append(@, [name |-> p.name, val |-> h.nval])]
        Inout(h, p)  ==
            [NamedValue(NamedValue(NamedValue(h, p.in), p.out), p.oe)
                EXCEPT !.io = Append(@, [name |-> p.name, in |-> h.nval, out |-> h.nval + 1,
                                         oe |-> h.nval + 2])]
    IN  FoldLeft(Inout, FoldLeft(Output, FoldLeft(Input, EmptyGraph, spec.ins), spec.outs), spec.ios)

\* The first black box met decides the stub of an unknown module; every box
\* of a module that has a graph, or gets one, becomes an instance.
BlackboxGuard(d) ==
    LET boxes == FlattenSeq([k \in DOMAIN GraphNames(d) |->
                     LET n == GraphNames(d)[k]
                     IN  [i \in DOMAIN BlackboxesOf(d[n]) |->
                             [g |-> d[n], op |-> d[n].ops[BlackboxesOf(d[n])[i]]]]])
        usable == SelectSeq(boxes, LAMBDA b : b.op.a.module # "" /\
                                       (b.op.a.module \in DOMAIN d \/ Named(b.op)))
        known  == {usable[i].op.a.module : i \in DOMAIN usable}
        first(m) == usable[SelectInSeq(usable, LAMBDA b : b.op.a.module = m)]
        stubs  == [m \in known \ DOMAIN d |-> StubGraph(StubSpec(first(m).g, first(m).op))]
        Convert(g) ==
            [g EXCEPT !.ops = [o \in DOMAIN @ |->
                IF @[o].kind = "kBlackbox" /\ @[o].a.module \in known
                THEN [@[o] EXCEPT !.kind = "kInstance"] ELSE @[o]]]
    IN  IF known = {} THEN DesignResult(d, FALSE, FALSE)
        ELSE DesignResult([n \in DOMAIN d |-> Convert(d[n])] @@ stubs, TRUE, FALSE)

-----------------------------------------------------------------------------
(* multidriven-guard.                                                      *)

\* The instances of graph n it can compare: enough operands and results.
InoutInstances(d, n) ==
    {o \in DOMAIN d[n].ops :
        LET op == d[n].ops[o]
        IN  /\ op.kind = "kInstance" /\ op.a.module \in DOMAIN d
            /\ op.a.ios # <<>>
            /\ Len(op.in) >= Len(op.a.ins) + Len(op.a.ios)
            /\ Len(op.out) >= Len(op.a.outs) + 2 * Len(op.a.ios)}
\* Pairs of an inout's driven end in the child and the instance's result.
InoutEnds(d, op) ==
    LET no == Len(op.a.outs)
        n  == Len(op.a.ios)
        Child(i) == SelectInSeq(d[op.a.module].io, LAMBDA p : p.name = op.a.ios[i])
        there    == {i \in DOMAIN op.a.ios : Child(i) # 0}
    IN  {<<d[op.a.module].io[Child(i)].out, op.out[no + i]>> : i \in there}
          \cup {<<d[op.a.module].io[Child(i)].oe, op.out[no + n + i]>> : i \in there}

\* The inout ends of graph n that something drives, here or below.
Driven(d, name) ==
    LET driven[n \in DOMAIN d, above \in SUBSET DOMAIN d] ==
            LET g == d[n]
            IN  {v \in UNION {{g.io[i].out, g.io[i].oe} : i \in DOMAIN g.io} : Def(g, v) # 0}
                  \cup UNION {{e[2] : e \in {e \in InoutEnds(d, g.ops[o]) :
                                                e[1] \in driven[g.ops[o].a.module, above \cup {n}]}} :
                              o \in {o \in InoutInstances(d, n) : g.ops[o].a.module \notin above \cup {n}}}
    IN  driven[name, {}]

MultidrivenGuard(d) ==
    LET Conflict(n, o) ==
            \E e \in InoutEnds(d, d[n].ops[o]) :
                e[1] \in Driven(d, d[n].ops[o].a.module) /\ Def(d[n], e[2]) \notin {0, o}
    IN  DesignResult(d, FALSE, \E n \in DOMAIN d : \E o \in InoutInstances(d, n) : Conflict(n, o))
=============================================================================
