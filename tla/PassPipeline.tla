---------------------------- MODULE PassPipeline ----------------------------
(***************************************************************************)
(* A pipeline of transform passes over a design, as the Python binding     *)
(* runs one: every pass is made from its name and arguments before any     *)
(* runs, then the pass manager runs them in order.  simplify runs a        *)
(* manager of its own over const-fold, redundant-elim and dead-code-elim,  *)
(* round after round; its passes are steps of their own here, one graph at *)
(* a time.  Every other pass is one step on the whole design; repcut asks  *)
(* an external partitioner, which may answer anything.  What a run leaves  *)
(* is stored as a JSON document, and the document is read back.            *)
(***************************************************************************)
EXTENDS Observe

CONSTANTS
    Scenarios,    \* records [design, top, tops, stimulus, specs]
    StopOnError   \* PassManagerOptions::stopOnError

\* What is asked for is a finite design of whole graphs, and a list of
\* passes with their lists of arguments; stats and hrbcut are not modelled.
IsList(s) == Len(s) \in Nat /\ s = [i \in 1..Len(s) |-> s[i]]
Fields == {"ops", "vals", "inp", "outp", "io", "decl", "nop", "nval"}
IsGraph(g) ==
    /\ g = [f \in Fields |-> g[f]] /\ g.nop \in Nat \ {0} /\ g.nval \in Nat \ {0}
    /\ DOMAIN g.ops \subseteq 1..(g.nop - 1)
    /\ \A o \in DOMAIN g.ops :
          /\ IsList(g.ops[o].in) /\ IsList(g.ops[o].out)
          /\ Kind(g, o) \in {"kXMRRead", "kXMRWrite"} => IsList(g.ops[o].a.path)
IsSpec(spec) == spec.name \notin {"stats", "hrbcut"} /\ IsList(spec.args)
ASSUME StopAssumption == StopOnError \in BOOLEAN
ASSUME ScenariosAssumption ==
    \A s \in Scenarios :
        /\ s.design = [n \in DOMAIN s.design |-> s.design[n]] /\ IsFiniteSet(DOMAIN s.design)
        /\ \A n \in DOMAIN s.design : IsGraph(s.design[n])
        /\ IsList(s.specs) /\ \A i \in DOMAIN s.specs : IsSpec(s.specs[i])
        /\ IsList(s.tops)

Args  == INSTANCE PassArgs
Fold  == INSTANCE ConstFold
Redundant == INSTANCE RedundantElim
Dead  == INSTANCE DeadCodeElim
Slice == INSTANCE SliceIndexConst
Hier  == INSTANCE Hierarchy
Guards == INSTANCE HierarchyGuards
Xmr   == INSTANCE XmrResolve
Strip == INSTANCE StripDebug
Loops == INSTANCE CombLoopElim
Cut   == INSTANCE RepCut
Json  == INSTANCE JsonDocument

\* keepDeclaredSymbols is on by default, and no caller turns it off.
Keep == TRUE

VARIABLES
    scenario,   \* what was asked for
    design,     \* the design, as the passes have left it
    made,       \* the passes made so far, [name, opts]
    phase,      \* "making", "running", "done", "stored", "loaded"; "rejected", "refused", "unreadable"
    doc,        \* the document the design is stored in
    pos,        \* the pass to run next
    simp,       \* where simplify is, or NoSimplify
    shown,      \* history: what the design showed before the first pass
    report      \* [changed, failed, err]: the manager's result and diagnostics

vars == <<scenario, doc, shown, design, made, phase, pos, simp, report>>

InnerPasses == <<"const-fold", "redundant-elim", "dead-code-elim">>
NoSimplify == [running |-> FALSE]
StartRound(iter, any) ==
    [running |-> TRUE, iter |-> iter, pass |-> 1, todo |-> Guards!GraphNames(design),
     changed |-> FALSE, failed |-> FALSE, any |-> any]

Init ==
    /\ scenario \in Scenarios
    /\ design = scenario.design
    /\ shown = Observe(scenario.design, scenario.top, scenario.stimulus)
    /\ made = <<>> /\ doc = [ok |-> FALSE] /\ phase = "making" /\ pos = 1 /\ simp = NoSimplify
    /\ report = [changed |-> FALSE, failed |-> FALSE, err |-> FALSE]

-----------------------------------------------------------------------------
(* Making the passes.                                                      *)

MakeNext ==
    LET spec == scenario.specs[Len(made) + 1]
        pass == Args!MakePass(spec.name, spec.args)
    IN  /\ phase = "making" /\ Len(made) < Len(scenario.specs)
        /\ IF pass.ok
           THEN made' = Append(made, [name |-> spec.name, opts |-> pass.opts]) /\ phase' = phase
           ELSE phase' = "rejected" /\ made' = made
        /\ UNCHANGED <<scenario, doc, shown, design, pos, simp, report>>

StartRun ==
    /\ phase = "making" /\ Len(made) = Len(scenario.specs)
    /\ phase' = "running"
    /\ UNCHANGED <<scenario, doc, shown, design, made, pos, simp, report>>

-----------------------------------------------------------------------------
(* The manager.                                                            *)

\* A pass over every graph, one after the other.
OverGraphs(results) ==
    DesignResult([n \in DOMAIN results |-> results[n].g],
                 \E n \in DOMAIN results : results[n].changed,
                 \E n \in DOMAIN results : results[n].failed)
\* A loop that is left fails comb-loop-elim, but is a warning.
ReportsError(name, r) == [r EXCEPT !.err = @ /\ name # "comb-loop-elim"]
GraphResult(pass, g) ==
    LET o == pass.opts
    IN  CASE pass.name = "slice-index-const" -> Slice!SliceIndexConst(g)
          [] pass.name = "memory-init-check" -> MemoryInitCheck(g)
          [] pass.name = "memory-read-retime" -> MemoryReadRetime(g, Keep)
          [] pass.name = "latch-transparent-read" -> LatchTransparentRead(g)
          [] pass.name = "mem-to-reg" -> MemToReg(g, o.rowLimit, o.strictInit)
          [] pass.name = "comb-loop-elim" -> Loops!CombLoopElim(g, o)

PassResult(pass) ==
    LET o == pass.opts
    IN  CASE pass.name = "hier-flatten" ->
                Hier!HierFlatten(design, scenario.tops, o.symProtect, o.preserve)
          [] pass.name = "instance-inline" -> Hier!InstanceInline(design, o.path)
          [] pass.name = "strip-debug" -> Strip!StripDebug(design, scenario.tops, o.path)
          [] pass.name = "xmr-resolve" -> Xmr!XmrResolve(design)
          [] pass.name = "blackbox-guard" -> Guards!BlackboxGuard(design)
          [] pass.name = "multidriven-guard" -> Guards!MultidrivenGuard(design)
          [] OTHER -> ReportsError(pass.name, OverGraphs([n \in DOMAIN design |-> GraphResult(pass, design[n])]))

Ready == phase = "running" /\ ~simp.running /\ pos <= Len(made)
\* The manager looks at the diagnostics before each pass and after it.
Blocked == StopOnError /\ report.err

\* Mutant: the last pass alone decides whether anything changed.
FinishLastPassOnly(changed, failed, err) ==
    LET r == [changed |-> changed, failed |-> report.failed \/ failed, err |-> report.err \/ err]
        stop == StopOnError /\ (failed \/ r.err)
    IN  /\ report' = [r EXCEPT !.failed = @ \/ stop]
        /\ phase' = IF stop THEN "done" ELSE phase
        /\ pos' = IF stop THEN pos ELSE pos + 1
\* After a pass: what is added to the report, and whether the run goes on.
Finish(changed, failed, err) ==
    LET r == [changed |-> report.changed \/ changed, failed |-> report.failed \/ failed,
              err |-> report.err \/ err]
        stop == StopOnError /\ (failed \/ r.err)
    IN  /\ report' = [r EXCEPT !.failed = @ \/ stop]
        /\ phase' = IF stop THEN "done" ELSE phase
        /\ pos' = IF stop THEN pos ELSE pos + 1

Ran(r) == design' = r.d /\ Finish(r.changed, r.failed, r.err)
RunPass ==
    /\ Ready /\ ~Blocked /\ made[pos].name \notin {"simplify", "repcut"}
    /\ Ran(PassResult(made[pos]))
    /\ UNCHANGED <<scenario, doc, shown, made, simp>>
RunRepcut ==
    /\ Ready /\ ~Blocked /\ made[pos].name = "repcut"
    /\ \E r \in Cut!RepCut(design, made[pos].opts) : Ran(r)
    /\ UNCHANGED <<scenario, doc, shown, made, simp>>

EndRun ==
    /\ phase = "running" /\ ~simp.running /\ (pos > Len(made) \/ Blocked)
    /\ phase' = "done"
    /\ report' = [report EXCEPT !.failed = @ \/ (Blocked /\ pos <= Len(made))]
    /\ UNCHANGED <<scenario, doc, shown, design, made, pos, simp>>

-----------------------------------------------------------------------------
(* simplify.                                                               *)

BeginSimplify ==
    /\ Ready /\ ~Blocked /\ made[pos].name = "simplify"
    /\ IF made[pos].opts.maxIterations > 0
       THEN simp' = StartRound(1, FALSE) /\ UNCHANGED <<report, phase, pos>>
       ELSE Finish(FALSE, FALSE, FALSE) /\ UNCHANGED simp
    /\ UNCHANGED <<scenario, doc, shown, design, made>>

InnerResult(g) ==
    LET o == made[pos].opts
    IN  CASE InnerPasses[simp.pass] = "const-fold" ->
                Fold!ConstFold(g, Keep, IF o.twoState THEN "Strict" ELSE o.xFold, o.twoState)
          [] InnerPasses[simp.pass] = "redundant-elim" -> Redundant!RedundantElim(g)
          [] InnerPasses[simp.pass] = "dead-code-elim" -> Compared(g, Dead!DeadCodeElim(g, Keep))

\* One pass of the round on one graph.
SimplifyStep(n, r) ==
    /\ design' = [design EXCEPT ![n] = r.g]
    /\ simp' = [simp EXCEPT !.todo = Tail(@), !.changed = @ \/ r.changed,
                            !.failed = @ \/ r.failed]
    /\ report' = [report EXCEPT !.err = @ \/ r.failed]
SimplifyGraph ==
    /\ simp.running /\ simp.todo # <<>>
    /\ SimplifyStep(Head(simp.todo), InnerResult(design[Head(simp.todo)]))
    /\ UNCHANGED <<scenario, doc, shown, made, phase, pos>>

\* The inner manager stops at the first pass that fails.
NextInnerPass ==
    /\ simp.running /\ simp.todo = <<>> /\ ~simp.failed /\ simp.pass < Len(InnerPasses)
    /\ simp' = [simp EXCEPT !.pass = @ + 1, !.todo = Guards!GraphNames(design)]
    /\ UNCHANGED <<scenario, doc, shown, design, made, phase, pos, report>>

\* Mutant: rounds are not counted.
EndRoundUncounted ==
    /\ simp.running /\ simp.todo = <<>> /\ (simp.failed \/ simp.pass = Len(InnerPasses))
    /\ IF simp.failed \/ ~simp.changed
       THEN simp' = NoSimplify /\ Finish(simp.any \/ (simp.changed /\ ~simp.failed), simp.failed, FALSE)
       ELSE simp' = StartRound(simp.iter, TRUE) /\ UNCHANGED <<report, phase, pos>>
    /\ UNCHANGED <<scenario, doc, shown, design, made>>

\* Mutant: the last round allowed is not run.
EndRoundEarly ==
    /\ simp.running /\ simp.todo = <<>> /\ (simp.failed \/ simp.pass = Len(InnerPasses))
    /\ IF simp.failed \/ ~simp.changed \/ simp.iter + 1 >= made[pos].opts.maxIterations
       THEN /\ simp' = NoSimplify
            /\ Finish(simp.any \/ (simp.changed /\ ~simp.failed), simp.failed, FALSE)
       ELSE /\ simp' = StartRound(simp.iter + 1, TRUE)
            /\ UNCHANGED <<report, phase, pos>>
    /\ UNCHANGED <<scenario, doc, shown, design, made>>

\* A round that fails ends simplify with what earlier rounds reported; one
\* that changes nothing ends it; so does the last one allowed.
EndRound ==
    /\ simp.running /\ simp.todo = <<>> /\ (simp.failed \/ simp.pass = Len(InnerPasses))
    /\ IF simp.failed \/ ~simp.changed \/ simp.iter = made[pos].opts.maxIterations
       THEN /\ simp' = NoSimplify
            /\ Finish(simp.any \/ (simp.changed /\ ~simp.failed), simp.failed, FALSE)
       ELSE /\ simp' = StartRound(simp.iter + 1, TRUE)
            /\ UNCHANGED <<report, phase, pos>>
    /\ UNCHANGED <<scenario, doc, shown, design, made>>

-----------------------------------------------------------------------------
(* write_json and read_json.                                               *)

StoreDesign ==
    /\ phase = "done" /\ ~report.failed
    /\ doc' = Json!StoreJson(design, Guards!GraphNames(design), scenario.tops)
    /\ phase' = IF doc'.ok THEN "stored" ELSE "refused"
    /\ UNCHANGED <<scenario, shown, design, made, pos, simp, report>>
LoadDesign ==
    LET loaded == Json!LoadJson(doc)
    IN  /\ phase = "stored"
        /\ IF loaded.ok THEN design' = loaded.d /\ phase' = "loaded"
           ELSE design' = design /\ phase' = "unreadable"
        /\ UNCHANGED <<scenario, doc, shown, made, pos, simp, report>>

\* A run that failed raises an exception in the caller.
Ended ==
    /\ phase \in {"rejected", "refused", "unreadable", "loaded"} \/ (phase = "done" /\ report.failed)
    /\ UNCHANGED vars

Next ==
    \/ MakeNext \/ StartRun \/ RunPass \/ RunRepcut \/ EndRun
    \/ BeginSimplify \/ SimplifyGraph \/ NextInnerPass \/ EndRound
    \/ StoreDesign \/ LoadDesign \/ Ended

Spec == Init /\ [][Next]_vars

-----------------------------------------------------------------------------
(* Properties.                                                             *)

\* What the top graph shows, and what it asks of calls and black boxes, is
\* what it showed before the first pass, after every pass and every inner
\* pass of simplify, and after what they left was stored and read back, which
\* the reader does not refuse; a bit that was unknown may have become known.
\* hier_flatten.cpp, const_fold.cpp, redundant_elim.cpp and the others: each
\* rewrites operations, users and ports of a shared netlist in place.
BetweenPasses == phase \in {"running", "loaded"} /\ (simp.running => simp.todo = <<>>)
OutputsPreserved ==
    /\ phase # "unreadable"
    /\ (BetweenPasses /\ ~report.failed /\ design # scenario.design) =>
        RefinesTrace(Observe(design, scenario.top, scenario.stimulus), shown)

ReadsOrWrites ==
    ("kRegisterReadPort" :> "kRegister") @@ ("kRegisterWritePort" :> "kRegister") @@
    ("kLatchReadPort" :> "kLatch") @@ ("kLatchWritePort" :> "kLatch") @@
    ("kMemoryReadPort" :> "kMemory") @@ ("kMemoryWritePort" :> "kMemory") @@
    ("kDpicCall" :> "kDpicImport")
Driven(g, v) == IsInput(g, v) \/ IsInout(g, v) \/ Def(g, v) # 0
EdgesIntact(g) ==
    /\ \A o \in DOMAIN g.ops : Range(g.ops[o].in) \cup Range(g.ops[o].out) \subseteq DOMAIN g.vals
    /\ \A o \in DOMAIN g.ops : \A v \in Range(g.ops[o].in) : Driven(g, v)
    /\ \A o, p \in DOMAIN g.ops : o # p => Range(g.ops[o].out) \cap Range(g.ops[p].out) = {}
    /\ \A o \in DOMAIN g.ops : IsInjective(g.ops[o].out)
IsInoutEnd(g, v) == \E i \in DOMAIN g.io : v \in {g.io[i].out, g.io[i].oe}
PortsIntact(g) ==
    /\ \A v \in DOMAIN g.vals : IsInput(g, v) => Def(g, v) = 0
    /\ \A i \in DOMAIN g.inp : g.inp[i].val \in DOMAIN g.vals
    /\ \A i \in DOMAIN g.outp : g.outp[i].val \in DOMAIN g.vals
    /\ \A i \in DOMAIN g.io : {g.io[i].in, g.io[i].out, g.io[i].oe} \subseteq DOMAIN g.vals
    /\ Shell(g) \/ \A v \in DOMAIN g.vals :
          IsOutput(g, v) \/ IsInoutEnd(g, v) => IsInput(g, v) \/ Def(g, v) # 0
TargetsIntact(g) ==
    \A o \in DOMAIN g.ops : Kind(g, o) \in DOMAIN ReadsOrWrites =>
        /\ FindOp(g, g.ops[o].a.target) # 0
        /\ Kind(g, FindOp(g, g.ops[o].a.target)) = ReadsOrWrites[Kind(g, o)]
SymbolsIntact(g) ==
    LET syms == [i \in DOMAIN OpIds(g) |-> g.ops[OpIds(g)[i]].sym]
                  \o [i \in DOMAIN ValIds(g) |-> g.vals[ValIds(g)[i]].sym]
    IN  IsInjective(SelectSeq(syms, LAMBDA s : s # Tmp))
InstancesIntact(d, g) ==
    \A o \in InstanceOps(d, g) :
        LET a == g.ops[o].a
            child == d[a.module]
        IN  /\ Range(a.ins) = Hier!Names(child.inp) /\ Range(a.outs) \subseteq Hier!Names(child.outp)
            /\ Range(a.ios) = Hier!Names(child.io)
            /\ Len(g.ops[o].in) = Len(a.ins) + Len(a.ios)
            /\ Len(g.ops[o].out) = Len(a.outs) + 2 * Len(a.ios)

\* Between passes the netlist is whole: no operand, port or storage target
\* names something erased, what an operation reads or an output port shows
\* is still driven, no value has two definitions, no symbol two owners, and
\* every instance fits the ports of its module.  The passes use
\* unchecked erasures and edit children and parents apart from each other
\* (dead_code_elim.cpp:282, xmr_resolve.cpp:372-499).
NetlistIntact ==
    ~report.failed =>
        \A n \in DOMAIN design :
            /\ EdgesIntact(design[n]) /\ PortsIntact(design[n])
            /\ TargetsIntact(design[n]) /\ SymbolsIntact(design[n])
            /\ InstancesIntact(design, design[n])

\* docs/transform/const-fold.md:5: const-fold computes constant expressions
\* and puts constants in their place, so an output port that was driven is
\* driven by the constant.
PortsKeepValues ==
    (phase = "done" /\ ~report.failed) =>
        \A n \in DOMAIN design : \A i \in DOMAIN design[n].outp : Driven(design[n], design[n].outp[i].val)

\* A run that neither failed nor reports a change has changed nothing: the
\* caller (and simplify's loop, which stops on it) relies on the flag.  Two
\* passes are less honest.  comb-loop-elim rewrites a loop it cuts nowhere
\* onto copies without saying so (comb_loop_elim.cpp:3137-3215); hier-flatten
\* deletes the graphs below a top without instances (hier_flatten.cpp:
\* 1020-1063), but leaves alone the graphs it keeps.
Makes(name) == \E i \in DOMAIN made : made[i].name = name
KeptGraphs == \A n \in DOMAIN design : n \in DOMAIN scenario.design /\ design[n] = scenario.design[n]
Untouched == design = scenario.design \/ (Makes("hier-flatten") /\ KeptGraphs)
ChangedHonest ==
    (phase = "done" /\ ~report.failed /\ ~report.changed) => Untouched \/ Makes("comb-loop-elim")

\* When simplify stops before its bound, there is nothing left for another
\* round: no foldable operation whose operands are known constants and whose
\* result is known, and no operation whose results nothing reads.
\* simplify.cpp:63-67 stops on the flags of three passes.
Folds(g, o) ==
    LET op == g.ops[o]
        lits == [i \in DOMAIN op.in |-> g.ops[Def(g, op.in[i])].a.lit]
    IN  /\ op.kind \in FoldableKinds \ {"kSystemFunction"} /\ op.in # <<>>
        /\ \A i \in DOMAIN op.in : DefKind(g, op.in[i]) = "kConstant" /\ Known(lits[i])
        /\ Known(FoldOperands(g, op, lits))
Unread(g, o) ==
    /\ g.ops[o].kind \notin Dead!KeptKinds /\ g.ops[o].out # <<>>
    /\ \A v \in Range(g.ops[o].out) : ~IsPort(g, v) /\ ~Declared(g, v) /\ UsersOf(g, v) = {}
Simplified(g) == \A o \in DOMAIN g.ops : ~Folds(g, o) /\ ~Unread(g, o)
SimplifyComplete ==
    [][(simp.running /\ ~simp'.running /\ ~simp.failed /\ simp.iter < made[pos].opts.maxIterations) =>
          \A n \in DOMAIN design : Simplified(design[n])]_vars

\* Every step brings the end of the run nearer: fewer passes to make, then
\* fewer to run, then fewer rounds, inner passes and graphs; none of them
\* below zero.  With no deadlock, every run ends: simplify stops at its
\* bound on rounds (simplify.cpp:44-70), a failing pass neither repeats nor
\* blocks the manager (transform.cpp:330-380).
RoundsLeft ==
    IF pos > Len(made) \/ phase # "running" \/ made[pos].name # "simplify" THEN 0
    ELSE made[pos].opts.maxIterations + (IF simp.running THEN 0 - simp.iter ELSE 1)
Remaining ==
    <<CASE phase = "making" -> 4 [] phase = "running" -> 3 [] phase = "done" -> 2 [] phase = "stored" -> 1
        [] OTHER -> 0,
      Len(scenario.specs) - Len(made), Len(scenario.specs) + 1 - pos, RoundsLeft,
      IF simp.running THEN Len(InnerPasses) - simp.pass ELSE 0,
      IF simp.running THEN Len(simp.todo) ELSE 0>>
Before(s, t) == \E i \in DOMAIN s : s[i] < t[i] /\ \A j \in 1..(i - 1) : s[j] = t[j]
Terminates ==
    [][Before(Remaining', Remaining) /\ \A i \in DOMAIN Remaining' : Remaining'[i] >= 0]_vars
=============================================================================
