----------------------------- MODULE StripDebug -----------------------------
(***************************************************************************)
(* strip-debug: a graph is split into a part with its calls and instances  *)
(* and a part with the rest, and rebuilt as a wrapper around the two.      *)
(* The parts keep the ids of the graph they come from: the code makes new  *)
(* ones and maps them by symbol, which is unique in a graph.               *)
(***************************************************************************)
EXTENDS Hierarchy

StripKinds == {"kDpicCall", "kSystemTask", "kInstance", "kBlackbox"}

-----------------------------------------------------------------------------
(* The plan.                                                               *)

\* The operations to move: calls and instances, and the imports they name.
StripOps(g) ==
    LET moved == {o \in DOMAIN g.ops : Kind(g, o) \in StripKinds}
        named == {g.ops[o].a.target : o \in {o \in moved : Kind(g, o) = "kDpicCall"}}
    IN  moved \cup {o \in DOMAIN g.ops : Kind(g, o) = "kDpicImport" /\ g.ops[o].sym \in named}
InOrder(g, S) == SelectSeq(OpIds(g), LAMBDA o : o \in S)

AllOperands(g, S) == FlattenSeq([i \in DOMAIN InOrder(g, S) |-> g.ops[InOrder(g, S)[i]].in])
AllResults(g, S)  == FlattenSeq([i \in DOMAIN InOrder(g, S) |-> g.ops[InOrder(g, S)[i]].out])
Once(s) == FoldLeft(LAMBDA acc, v : IF Contains(acc, v) THEN acc ELSE Append(acc, v), <<>>, s)

\* Constants are copied, not handed over.
StripConsts(g, S) ==
    {o \in DOMAIN g.ops : Kind(g, o) = "kConstant"
                            /\ Range(g.ops[o].out) \cap Range(AllOperands(g, S)) # {}}
BoundaryInputs(g, S) ==
    Once(SelectSeq(AllOperands(g, S), LAMBDA v : Def(g, v) \notin S \cup StripConsts(g, S)))
OutputBound(g, v) ==
    IsOutput(g, v) \/ \E i \in DOMAIN g.io : v \in {g.io[i].out, g.io[i].oe}
BoundaryResults(g, S) ==
    Once(SelectSeq(AllResults(g, S), LAMBDA v : OutputBound(g, v) \/ ~(UsersOf(g, v) \subseteq S)))

-----------------------------------------------------------------------------
(* The two parts.                                                          *)

PortNamesOf(g) == Names(g.inp) \cup Names(g.outp) \cup Names(g.io)
FreshPortName(taken, base) ==
    LET free == {k \in 1..Cardinality(taken) : base \o "_" \o ToString(k) \notin taken}
    IN  IF base \notin taken THEN base
        ELSE base \o "_" \o ToString(CHOOSE k \in free : \A j \in free : k <= j)
AddPort(acc, name, v) ==
    [taken |-> acc.taken \cup {name}, ports |-> Append(acc.ports, [name |-> name, val |-> v])]
\* A port for each value, named after it: [name, val].
FreshPorts(used, prefix, g, vs) ==
    FoldLeft(LAMBDA acc, v : AddPort(acc, FreshPortName(acc.taken, prefix \o g.vals[v].sym), v),
             [taken |-> used, ports |-> <<>>], vs).ports

\* The end of an inout cannot be a plain port as well: a bridge value is put
\* between, driven by the end (output) or driving it (input).
BindPort(g, p, isInput) ==
    IF isInput THEN [g EXCEPT !.inp = Append(@, p)] ELSE [g EXCEPT !.outp = Append(@, p)]
Bridge(g, p, isInput) ==
    LET h == CreateValue(g, g.vals[p.val].w, g.vals[p.val].sgn, UniqueName(g, p.name, "_"))
        b == g.nval
    IN  IF ~IsInout(g, p.val) THEN BindPort(g, p, isInput)
        ELSE BindPort(CreateOp(h, "kAssign", <<IF isInput THEN b ELSE p.val>>,
                               <<IF isInput THEN p.val ELSE b>>, NoAttr),
                      [p EXCEPT !.val = b], isInput)
BindAll(g, ports, isInput) == FoldLeft(LAMBDA h, p : Bridge(h, p, isInput), g, ports)

\* A copied constant leaves the logic part when nothing there uses it.
DropConst(g, o) ==
    IF \E i \in DOMAIN g.ops[o].out : UsersOf(g, g.ops[o].out[i]) # {} \/ IsPort(g, g.ops[o].out[i])
    THEN g ELSE EraseOp(g, o)
LogicPart(g, S, toDebug, fromDebug) ==
    LET rest == FoldLeft(EraseOpUnchecked, g, InOrder(g, S))
    IN  FoldLeft(DropConst, BindAll(BindAll(rest, toDebug, FALSE), fromDebug, TRUE),
                 InOrder(g, StripConsts(g, S)))

DebugPart(g, S, toDebug, fromDebug) ==
    LET moved == S \cup StripConsts(g, S)
    IN  [ops  |-> Restrict(g.ops, moved),
         vals |-> Restrict(g.vals, Range(AllOperands(g, moved)) \cup Range(AllResults(g, moved))),
         inp  |-> toDebug, outp |-> fromDebug, io |-> <<>>, decl |-> {},
         nop  |-> g.nop, nval |-> g.nval]

-----------------------------------------------------------------------------
(* The wrapper.                                                            *)

PortValues(g) ==
    {g.inp[i].val : i \in DOMAIN g.inp} \cup {g.outp[i].val : i \in DOMAIN g.outp}
      \cup UNION {{g.io[i].in, g.io[i].out, g.io[i].oe} : i \in DOMAIN g.io}
Shell(g) == [g EXCEPT !.ops = << >>, !.vals = Restrict(@, PortValues(g)), !.decl = {}]

PortVals(ports) == [i \in DOMAIN ports |-> ports[i].val]
NameSeq(ports)  == [i \in DOMAIN ports |-> ports[i].name]
\* A link value for each boundary value: [g, links].
Links(h, g, vs) ==
    FoldLeft(LAMBDA acc, v :
                LET name == UniqueName(acc.g, "link_" \o g.vals[v].sym, "_")
                IN  [g |-> CreateValue(acc.g, g.vals[v].w, g.vals[v].sgn, name),
                     links |-> Append(acc.links, acc.g.nval)],
             [g |-> h, links |-> <<>>], vs)

Instance(h, module, name, ins, outs, in, out, ios) ==
    NamedOp(h, "kInstance", in, out,
            [module |-> module, inst |-> name, ins |-> ins, outs |-> outs, ios |-> ios],
            UniqueName(h, "inst_" \o name, "_"))

Wrapper(g, S, logic, debug, intOut, intIn, extIn, extOut) ==
    LET to   == Links(Shell(g), g, BoundaryInputs(g, S))
        from == Links(to.g, g, BoundaryResults(g, S))
        ends(f(_)) == [i \in DOMAIN g.io |-> f(g.io[i])]
        h == Instance(from.g, logic, "logic_part",
                      NameSeq(g.inp) \o NameSeq(intIn), NameSeq(g.outp) \o NameSeq(intOut),
                      PortVals(g.inp) \o from.links \o ends(LAMBDA p : p.in),
                      PortVals(g.outp) \o to.links \o ends(LAMBDA p : p.out) \o ends(LAMBDA p : p.oe),
                      NameSeq(g.io))
    IN  Instance(h, debug, "debug_part", NameSeq(extIn), NameSeq(extOut), to.links, from.links, <<>>)

\* Two results of one instance, outputs, inout outs and inout enables,
\* cannot be one value: addResult throws.
Unwrappable(g) ==
    ~IsInjective(PortVals(g.outp) \o [i \in DOMAIN g.io |-> g.io[i].out] \o [i \in DOMAIN g.io |-> g.io[i].oe])

FreeGraphName(d, base) ==
    LET name(k) == IF k = 0 THEN base ELSE base \o "_" \o ToString(k)
        free    == {k \in 0..Cardinality(DOMAIN d) : name(k) \notin DOMAIN d}
    IN  name(CHOOSE k \in free : \A j \in free : k <= j)

\* The design with n replaced by its wrapper and the two parts added.
Parts(d, n, wrapper, logic, logicPart, debug, debugPart) ==
    (logic :> logicPart) @@ (debug :> debugPart) @@ (n :> wrapper) @@ d

Split(d, n) ==
    LET g      == d[n]
        S      == StripOps(g)
        intOut == FreshPorts(PortNamesOf(g), "int_out_", g, BoundaryInputs(g, S))
        intIn  == FreshPorts(PortNamesOf(g) \cup Names(intOut), "int_in_", g, BoundaryResults(g, S))
        extIn  == FreshPorts({}, "ext_in_", g, BoundaryInputs(g, S))
        extOut == FreshPorts(Names(extIn), "ext_out_", g, BoundaryResults(g, S))
        logic  == FreeGraphName(d, n \o "_logic_part")
        debug  == FreeGraphName(d, n \o "_debug_part")
    IN  IF S = {} THEN DesignResult(d, FALSE, FALSE)
        ELSE IF Unwrappable(g) THEN DesignResult(d, FALSE, TRUE)
        ELSE DesignResult(Parts(d, n, Wrapper(g, S, logic, debug, intOut, intIn, extIn, extOut),
                                logic, LogicPart(g, S, intOut, intIn),
                                debug, DebugPart(g, S, extIn, extOut)),
                          TRUE, FALSE)

-----------------------------------------------------------------------------
\* Without a path every top graph is split; a path of one component names a
\* graph, a longer one is followed through the instances.
StripTargets(d, tops, path) ==
    LET at == ResolvePath(d, path)
    IN  IF path = <<>> THEN tops
        ELSE IF Len(path) = 1 THEN (IF path[1] \in DOMAIN d THEN <<path[1]>> ELSE <<>>)
        ELSE IF at.op = 0 \/ d[at.in].ops[at.op].a.module \notin DOMAIN d THEN <<>>
        ELSE <<d[at.in].ops[at.op].a.module>>
Both(r, one) == DesignResult(one.d, r.changed \/ one.changed, r.failed \/ one.failed)
StripDebug(d, tops, path) ==
    FoldLeft(LAMBDA r, n : Both(r, Split(r.d, n)),
             DesignResult(d, FALSE, path # <<>> /\ StripTargets(d, tops, path) = <<>>),
             StripTargets(d, tops, path))
=============================================================================
