------------------------- MODULE PassPipeline_proofs -------------------------
(***************************************************************************)
(* Theorems about the pass pipeline: a run that reports neither a change   *)
(* nor a failure left its design alone, and every run ends.                *)
(***************************************************************************)
EXTENDS XmrResolve_proofs

-----------------------------------------------------------------------------
(* The pipeline.                                                           *)

GraphPasses == {"slice-index-const", "memory-init-check", "memory-read-retime", "latch-transparent-read",
                "mem-to-reg"}
DesignPasses == {"hier-flatten", "instance-inline", "strip-debug", "xmr-resolve", "blackbox-guard",
                 "multidriven-guard"}
LEMMA GraphResultQuiet ==
  ASSUME NEW pass, pass.name \in GraphPasses, NEW g, IsGraph(g)
  PROVE  QuietGraph(GraphResult(pass, g), g)
<1>1. IsFiniteSet(DOMAIN g.ops)
  <2>1. g.nop - 1 \in Int /\ 1 \in Int /\ DOMAIN g.ops \subseteq 1..(g.nop - 1)
    BY DEF IsGraph
  <2>2. IsFiniteSet(1..(g.nop - 1))
    BY <2>1, FS_Interval
  <2> QED BY <2>1, <2>2, FS_Subset
<1>2. CASE pass.name = "slice-index-const"
  BY Zenon, <1>2, SliceQuiet DEF GraphResult
<1>3. CASE pass.name = "memory-init-check"
  BY Zenon, <1>3, InitCheckQuiet DEF GraphResult
<1>4. CASE pass.name = "memory-read-retime"
  BY Zenon, <1>4, RetimeQuiet DEF GraphResult
<1>5. CASE pass.name = "latch-transparent-read"
  BY Zenon, <1>1, <1>5, LatchQuiet DEF GraphResult
<1>6. CASE pass.name = "mem-to-reg"
  BY Zenon, <1>6, MemToRegQuiet DEF GraphResult
<1> QED BY Zenon, <1>2, <1>3, <1>4, <1>5, <1>6 DEF GraphPasses

LEMMA OverGraphsQuiet ==
  ASSUME NEW d, IsFunction(d), NEW name, NEW results, DOMAIN results = DOMAIN d,
         \A n \in DOMAIN d : QuietGraph(results[n], d[n])
  PROVE  QuietDesign(ReportsError(name, OverGraphs(results)), d)
<1> DEFINE e == [n \in DOMAIN results |-> results[n].g]
           changed == \E n \in DOMAIN results : results[n].changed
           failed == \E n \in DOMAIN results : results[n].failed
<1>1. ~changed /\ ~failed => e = d
  <2> SUFFICES ASSUME ~changed, ~failed PROVE e = d
    BY Zenon
  <2>1. \A n \in DOMAIN d : Quiet(results[n])
    BY Zenon DEF Quiet
  <2>2. \A n \in DOMAIN d : results[n].g = d[n]
    BY Zenon, <2>1 DEF QuietGraph
  <2> QED BY <2>2 DEF IsFunction
<1>2. OverGraphs(results) = DesignResult(e, changed, failed)
  BY Zenon DEF OverGraphs
<1> HIDE DEF e, changed, failed
<1>3. QuietDesign(ReportsError(name, DesignResult(e, changed, failed)), d)
  <2> DEFINE r == ReportsError(name, DesignResult(e, changed, failed))
  <2>1. r.d = e /\ r.changed = changed /\ r.failed = failed
    BY DEF ReportsError, DesignResult
  <2> HIDE DEF r
  <2>2. QuietDesign(r, d)
    BY Zenon, <1>1, <2>1 DEF QuietDesign, Quiet
  <2> QED BY <2>2 DEF r
<1> QED BY Zenon, <1>2, <1>3

(* A pass on the whole design; hier-flatten may drop graphs.                 *)
LEMMA PassResultQuiet ==
  ASSUME WholeDesign(design), IsList(scenario.tops), NEW pass, pass.name \in GraphPasses \cup DesignPasses,
         Quiet(PassResult(pass))
  PROVE  PassResult(pass).d = design \/ (pass.name = "hier-flatten" /\ KeepsOf(PassResult(pass).d, design))
<1> DEFINE o == pass.opts
           results == [n \in DOMAIN design |-> GraphResult(pass, design[n])]
<1>1. IsFunction(design)
  BY DEF WholeDesign
<1>2. CASE pass.name = "hier-flatten"
  <2>1. PassResult(pass) = Hier!HierFlatten(design, scenario.tops, o.symProtect, o.preserve)
    BY Zenon, <1>2 DEF PassResult
  <2> QED BY Zenon, <1>1, <1>2, <2>1, FlattenQuiet
<1>3. CASE pass.name = "instance-inline"
  <2>1. PassResult(pass) = Hier!InstanceInline(design, o.path)
    BY Zenon, <1>3 DEF PassResult
  <2> QED BY Zenon, <2>1, InlineQuiet DEF QuietDesign
<1>4. CASE pass.name = "strip-debug"
  <2>1. PassResult(pass) = Strip!StripDebug(design, scenario.tops, o.path)
    BY Zenon, <1>4 DEF PassResult
  <2> HIDE DEF o
  <2>2. ~Strip!StripDebug(design, scenario.tops, o.path).changed
        /\ ~Strip!StripDebug(design, scenario.tops, o.path).failed
    BY Zenon, <2>1 DEF Quiet
  <2>3. Strip!StripDebug(design, scenario.tops, o.path).d = design
    BY Zenon, <2>2, StripQuiet
  <2> QED BY Zenon, <2>1, <2>3
<1>5. CASE pass.name = "xmr-resolve"
  <2>1. PassResult(pass) = Xmr!XmrResolve(design)
    BY Zenon, <1>5 DEF PassResult
  <2> QED BY Zenon, <2>1, XmrQuiet DEF QuietDesign
<1>6. CASE pass.name = "blackbox-guard"
  <2>1. PassResult(pass) = Guards!BlackboxGuard(design)
    BY Zenon, <1>6 DEF PassResult
  <2> QED BY Zenon, <2>1, BlackboxQuiet DEF QuietDesign
<1>7. CASE pass.name = "multidriven-guard"
  <2>1. PassResult(pass) = Guards!MultidrivenGuard(design)
    BY Zenon, <1>7 DEF PassResult
  <2> QED BY Zenon, <2>1, MultidrivenQuiet DEF QuietDesign
<1>8. CASE pass.name \in GraphPasses
  <2>1. PassResult(pass) = ReportsError(pass.name, OverGraphs(results))
    BY Zenon, <1>8 DEF PassResult, GraphPasses
  <2>2. \A n \in DOMAIN design : QuietGraph(results[n], design[n])
    BY <1>8, GraphResultQuiet DEF WholeDesign
  <2>3. DOMAIN results = DOMAIN design
    OBVIOUS
  <2> HIDE DEF results
  <2>4. QuietDesign(ReportsError(pass.name, OverGraphs(results)), design)
    BY Zenon, <1>1, <2>2, <2>3, OverGraphsQuiet
  <2> QED BY Zenon, <2>1, <2>4 DEF QuietDesign
<1> QED BY Zenon, <1>2, <1>3, <1>4, <1>5, <1>6, <1>7, <1>8 DEF DesignPasses

LEMMA InnerResultQuiet ==
  ASSUME simp.pass \in 1..3, NEW g, IsGraph(g)
  PROVE  QuietGraph(InnerResult(g), g)
<1> DEFINE name == InnerPasses[simp.pass]
<1>1. name = "const-fold" \/ name = "redundant-elim" \/ name = "dead-code-elim"
  BY DEF InnerPasses
<1>2. CASE name = "const-fold"
  BY Zenon, <1>2, FoldQuiet DEF InnerResult
<1>3. CASE name = "redundant-elim"
  <2>1. \E h : Redundant!RedundantElim(g) = Redundant!Result(h, h # g, FALSE)
    BY Zenon DEF Redundant!RedundantElim
  <2>2. \A h, changed : (changed \/ h = g) => QuietGraph(Redundant!Result(h, changed, FALSE), g)
    BY DEF QuietGraph, Quiet, Redundant!Result
  <2>3. InnerResult(g) = Redundant!RedundantElim(g)
    BY Zenon, <1>3 DEF InnerResult
  <2> QED BY Zenon, <2>1, <2>2, <2>3
<1>4. CASE name = "dead-code-elim"
  <2>1. \E h : InnerResult(g) = Result(h, h # g, FALSE)
    BY Zenon, <1>4 DEF InnerResult, Compared
  <2>2. \A h : (h # g) \/ h = g
    OBVIOUS
  <2> QED BY Zenon, <2>1, <2>2, ComparedQuiet
<1> QED BY Zenon, <1>1, <1>2, <1>3, <1>4
-----------------------------------------------------------------------------
(* The flag.  Kept says how far the design may be from what was asked for    *)
(* when nothing that ran reported a change.                                  *)
RunNames == GraphPasses \cup DesignPasses \cup {"comb-loop-elim", "simplify", "repcut"}
Kept == design = scenario.design \/ (Makes("hier-flatten") /\ KeepsOf(design, scenario.design))
NothingReported ==
  /\ phase \in {"making", "running", "done"} /\ ~report.failed /\ ~report.changed
  /\ simp.running => ~simp.failed /\ ~simp.changed /\ ~simp.any
SimpFields == {"running", "iter", "pass", "todo", "changed", "failed", "any"}
SimpOk(s)  == s = NoSimplify \/ (SimpFields \subseteq DOMAIN s /\ s.running = TRUE /\ s.pass \in 1..3)
MadeOk(m)  == IsList(m) /\ \A i \in 1..Len(m) : m[i].name \in RunNames

HonestScenario == scenario \in Scenarios
HonestReport   == {"changed", "failed", "err"} \subseteq DOMAIN report
HonestMade     == MadeOk(made) /\ pos \in Nat \ {0}
HonestMaking   == (phase # "running" => simp = NoSimplify) /\ (phase = "making" => design = scenario.design)
HonestSimplify == SimpOk(simp)
HonestFlag     == NothingReported => Kept \/ Makes("comb-loop-elim")
HonestInv ==
  HonestScenario /\ HonestReport /\ HonestMade /\ HonestMaking /\ HonestSimplify /\ HonestFlag

LEMMA KeptWhole ==
  ASSUME HonestScenario, Kept
  PROVE  WholeDesign(design)
<1> DEFINE d == scenario.design
<1>1. WholeDesign(d)
  BY ScenariosAssumption DEF HonestScenario, WholeDesign, IsFunction
<1> HIDE DEF d
<1>2. CASE design = d
  BY <1>1, <1>2
<1>3. CASE KeepsOf(design, d)
  <2>1. DOMAIN design \subseteq DOMAIN d
    BY <1>3 DEF KeepsOf
  <2>2. IsFiniteSet(DOMAIN design)
    BY <1>1, <2>1, FS_Subset DEF WholeDesign
  <2> QED BY Zenon, <1>1, <1>3, <2>2 DEF WholeDesign, KeepsOf
<1> QED BY Zenon, <1>2, <1>3 DEF Kept, d

(* What Finish adds up, and what it leaves.                                  *)
LEMMA FinishReports ==
  ASSUME HonestReport, HonestMade, NEW changed, NEW failed, NEW err, Finish(changed, failed, err)
  PROVE  /\ HonestReport'
         /\ pos' = pos \/ pos' = pos + 1
         /\ phase' = phase \/ phase' = "done"
         /\ ~report'.failed => ~report.failed /\ ~failed
         /\ ~report'.changed => ~report.changed /\ ~changed
<1> DEFINE c == report.changed \/ changed
           f == report.failed \/ failed
           e == report.err \/ err
           r == [changed |-> c, failed |-> f, err |-> e]
           stop == StopOnError /\ (failed \/ r.err)
           y == [r EXCEPT !.failed = @ \/ stop]
<1>1. report' = y /\ phase' = (IF stop THEN "done" ELSE phase) /\ pos' = (IF stop THEN pos ELSE pos + 1)
  BY Zenon DEF Finish
<1>2. (~c => ~report.changed /\ ~changed) /\ (~f => ~report.failed /\ ~failed)
  BY Zenon
<1> HIDE DEF c, f, e
<1>3. DOMAIN y = {"changed", "failed", "err"} /\ y.changed = c /\ y.failed = (f \/ stop)
  BY Zenon
<1> HIDE DEF stop, y
<1>4. (pos' = pos \/ pos' = pos + 1) /\ (phase' = phase \/ phase' = "done")
  BY Zenon, <1>1
<1> QED BY Zenon, <1>1, <1>2, <1>3, <1>4 DEF HonestReport

(* A pass of the manager's that has ended, whatever ran.                     *)
LEMMA RanKeepsFlag ==
  ASSUME HonestInv, Ready, NEW r, Ran(r),
         UNCHANGED <<scenario, made, simp>>,
         \/ made[pos].name = "comb-loop-elim"
         \/ WholeDesign(design) /\ Quiet(r) =>
               r.d = design \/ (made[pos].name = "hier-flatten" /\ KeepsOf(r.d, design))
  PROVE  HonestInv'
<1> USE DEF HonestInv
<1>1. pos \in 1..Len(made) /\ phase = "running" /\ ~simp.running
  BY DEF Ready, HonestMade, MadeOk, IsList
<1>2. /\ HonestReport'
      /\ pos' = pos \/ pos' = pos + 1
      /\ phase' = phase \/ phase' = "done"
      /\ ~report'.failed => ~report.failed /\ ~r.failed
      /\ ~report'.changed => ~report.changed /\ ~r.changed
  <2>1. Finish(r.changed, r.failed, r.err)
    BY Zenon DEF Ran
  <2> QED BY Zenon, <2>1, FinishReports
<1>3. HonestScenario' /\ HonestMade' /\ HonestMaking' /\ HonestSimplify'
  <2>1. simp = NoSimplify
    BY <1>1 DEF HonestSimplify, SimpOk
  <2> QED BY <1>1, <1>2, <2>1 DEF HonestScenario, HonestMade, HonestMaking, HonestSimplify
<1>4. HonestFlag'
  <2> SUFFICES ASSUME NothingReported', made[pos].name # "comb-loop-elim"
               PROVE  Kept' \/ Makes("comb-loop-elim")'
    <3>1. made[pos].name = "comb-loop-elim" => Makes("comb-loop-elim")'
      BY <1>1 DEF Makes, HonestMade, MadeOk, IsList
    <3> QED BY Zenon, <3>1 DEF HonestFlag
  <2>1. NothingReported /\ Quiet(r)
    BY Zenon, <1>1, <1>2 DEF NothingReported, Quiet
  <2>2. CASE Makes("comb-loop-elim")
    BY Zenon, <2>2 DEF Makes
  <2>3. CASE Kept
    <3>1. r.d = design \/ (made[pos].name = "hier-flatten" /\ KeepsOf(r.d, design))
      BY Zenon, <2>1, <2>3, KeptWhole
    <3>2. design' = r.d /\ scenario' = scenario /\ made' = made
      BY Zenon DEF Ran
    <3>3. CASE r.d = design
      BY Zenon, <2>3, <3>2, <3>3 DEF Kept, Makes
    <3>4. CASE made[pos].name = "hier-flatten" /\ KeepsOf(r.d, design)
      <4>1. Makes("hier-flatten")'
        BY <1>1, <3>2, <3>4 DEF Makes, HonestMade, MadeOk, IsList
      <4>2. KeepsOf(r.d, scenario.design)
        BY Zenon, <2>3, <3>4 DEF Kept, KeepsOf
      <4> QED BY Zenon, <3>2, <4>1, <4>2 DEF Kept
    <3> QED BY Zenon, <3>1, <3>3, <3>4
  <2> QED BY Zenon, <2>1, <2>2, <2>3 DEF HonestFlag
<1> QED BY Zenon, <1>2, <1>3, <1>4

LEMMA SimplifyStepKeepsFlag ==
  ASSUME HonestInv, simp.running, NEW n, NEW r, SimplifyStep(n, r),
         WholeDesign(design) /\ n \in DOMAIN design => QuietGraph(r, design[n]),
         UNCHANGED <<scenario, made, phase, pos>>
  PROVE  HonestInv'
<1> USE DEF HonestInv
<1> DEFINE err == report.err \/ r.failed
           changed == simp.changed \/ r.changed
           failed == simp.failed \/ r.failed
           rep == [report EXCEPT !.err = err]
           s == [simp EXCEPT !.todo = Tail(@), !.changed = changed, !.failed = failed]
           e == [design EXCEPT ![n] = r.g]
<1>1. report' = rep /\ simp' = s /\ design' = e
  BY DEF SimplifyStep
<1>2. (~changed => ~simp.changed /\ ~r.changed) /\ (~failed => ~simp.failed /\ ~r.failed)
  BY Zenon
<1>3. SimpFields \subseteq DOMAIN simp /\ simp.running = TRUE /\ simp.pass \in 1..3
  BY DEF HonestSimplify, SimpOk, NoSimplify
<1> HIDE DEF changed, failed, err
<1>4. /\ DOMAIN s = DOMAIN simp /\ s.running = TRUE /\ s.pass \in 1..3
      /\ s.any = simp.any /\ s.changed = changed /\ s.failed = failed
  BY <1>3 DEF SimpFields
<1>5. DOMAIN rep = DOMAIN report /\ rep.changed = report.changed /\ rep.failed = report.failed
  BY DEF HonestReport
<1>6. n \notin DOMAIN design /\ IsFunction(design) => e = design
  BY DEF IsFunction
<1>7. r.g = design[n] /\ IsFunction(design) => e = design
  BY Zenon, UnchangedAt
<1> HIDE DEF s, rep, e
<1>8. HonestScenario' /\ HonestReport' /\ HonestMade' /\ HonestSimplify'
  BY <1>1, <1>3, <1>4, <1>5 DEF HonestScenario, HonestReport, HonestMade, HonestSimplify, SimpOk
<1>9. HonestMaking'
  BY DEF HonestMaking, NoSimplify
<1>10. HonestFlag'
  <2> SUFFICES ASSUME NothingReported' PROVE Kept' \/ Makes("comb-loop-elim")'
    BY Zenon DEF HonestFlag
  <2>1. NothingReported /\ Quiet(r)
    BY Zenon, <1>1, <1>2, <1>3, <1>4, <1>5 DEF NothingReported, Quiet
  <2>2. CASE Makes("comb-loop-elim")
    BY Zenon, <2>2 DEF Makes
  <2>3. CASE Kept
    <3>1. WholeDesign(design)
      BY Zenon, <2>3, KeptWhole
    <3>2. e = design
      BY Zenon, <1>6, <1>7, <2>1, <3>1 DEF QuietGraph, WholeDesign
    <3> QED BY Zenon, <1>1, <2>3, <3>2 DEF Kept, Makes
  <2> QED BY Zenon, <2>1, <2>2, <2>3 DEF HonestFlag
<1> QED BY Zenon, <1>8, <1>9, <1>10

LEMMA StartRoundOk ==
  ASSUME NEW iter, NEW any
  PROVE  SimpOk(StartRound(iter, any)) /\ StartRound(iter, any).any = any /\ StartRound(iter, any).running = TRUE
  BY DEF SimpOk, SimpFields, StartRound

LEMMA HonestInit == Init => HonestInv
<1> SUFFICES ASSUME Init PROVE HonestInv
  OBVIOUS
<1> USE DEF Init
<1>1. HonestScenario /\ HonestReport /\ HonestMaking
  BY DEF HonestScenario, HonestReport, HonestMaking
<1>2. HonestMade /\ HonestSimplify
  BY DEF HonestMade, MadeOk, IsList, HonestSimplify, SimpOk
<1>3. HonestFlag
  BY Zenon DEF HonestFlag, Kept
<1> QED BY Zenon, <1>1, <1>2, <1>3 DEF HonestInv

LEMMA HonestMakeNext ==
  ASSUME HonestInv, MakeNext
  PROVE  HonestInv'
<1> USE DEF HonestInv
<1> DEFINE spec == scenario.specs[Len(made) + 1]
           pass == Args!MakePass(spec.name, spec.args)
           new == [name |-> spec.name, opts |-> pass.opts]
<1>1. /\ phase = "making" /\ Len(made) < Len(scenario.specs)
      /\ \/ pass.ok /\ made' = Append(made, new) /\ phase' = phase
         \/ phase' = "rejected" /\ made' = made
      /\ UNCHANGED <<scenario, design, pos, simp, report>>
  BY Zenon DEF MakeNext
<1>2. IsSpec(spec)
  <2>1. scenario \in Scenarios /\ Len(made) \in Nat
    BY DEF HonestScenario, HonestMade, MadeOk, IsList
  <2>2. IsList(scenario.specs) /\ \A i \in DOMAIN scenario.specs : IsSpec(scenario.specs[i])
    BY <2>1, ScenariosAssumption
  <2>3. Len(made) + 1 \in DOMAIN scenario.specs
    BY <1>1, <2>1, <2>2 DEF IsList
  <2> QED BY <2>2, <2>3
<1>3. pass.ok => spec.name \in RunNames
  <2>1. pass.ok => spec.name \in Args!PassNames
    <3> SUFFICES ASSUME spec.name \notin Args!PassNames PROVE ~pass.ok
      OBVIOUS
    <3>1. pass = [ok |-> FALSE, opts |-> [none |-> TRUE]]
      BY Zenon DEF Args!MakePass
    <3> QED BY <3>1
  <2> QED BY <1>2, <2>1 DEF IsSpec, RunNames, GraphPasses, DesignPasses, Args!PassNames, Args!NoArgPasses
<1>4. new.name = spec.name
  OBVIOUS
<1> HIDE DEF pass, spec, new
<1>5. HonestMade'
  <2>1. CASE made' = made
    BY <1>1, <2>1 DEF HonestMade
  <2>2. CASE pass.ok /\ made' = Append(made, new)
    <3>1. PICK S : made \in Seq(S)
      BY SeqOfList DEF HonestMade, MadeOk
    <3> DEFINE T == S \cup {new}
    <3>2. made \in Seq(T) /\ new \in T
      BY <3>1
    <3>3. /\ made' \in Seq(T) /\ Len(made') = Len(made) + 1 /\ made'[Len(made) + 1] = new
          /\ \A i \in 1..Len(made) : made'[i] = made[i]
      BY <2>2, <3>2
    <3>4. IsList(made')
      BY <3>3, ListOfSeq
    <3>5. \A i \in 1..Len(made') : made'[i].name \in RunNames
      BY <1>3, <1>4, <2>2, <3>2, <3>3 DEF HonestMade, MadeOk
    <3> QED BY <1>1, <3>4, <3>5 DEF HonestMade, MadeOk
  <2> QED BY <1>1, <2>1, <2>2
<1>6. HonestScenario' /\ HonestReport' /\ HonestMaking' /\ HonestSimplify'
  BY <1>1 DEF HonestScenario, HonestReport, HonestMaking, HonestSimplify
<1>7. Kept'
  BY Zenon, <1>1 DEF HonestMaking, Kept
<1> QED BY Zenon, <1>5, <1>6, <1>7 DEF HonestFlag

LEMMA HonestRunPass ==
  ASSUME HonestInv, RunPass
  PROVE  HonestInv'
<1> DEFINE pass == made[pos]
<1>1. Ready /\ pass.name \notin {"simplify", "repcut"} /\ Ran(PassResult(pass)) /\ UNCHANGED <<scenario, made, simp>>
  BY Zenon DEF RunPass
<1>2. pos \in 1..Len(made) /\ scenario \in Scenarios
  BY <1>1 DEF Ready, HonestInv, HonestMade, HonestScenario, MadeOk, IsList
<1>3. pass.name \in RunNames /\ IsList(scenario.tops)
  BY <1>2, ScenariosAssumption DEF HonestInv, HonestMade, MadeOk
<1> HIDE DEF pass
<1>4. pass.name = "comb-loop-elim" \/ pass.name \in GraphPasses \cup DesignPasses
  BY <1>1, <1>3 DEF RunNames
<1>5. CASE pass.name = "comb-loop-elim"
  BY Zenon, <1>1, <1>5, RanKeepsFlag DEF pass
<1>6. CASE pass.name \in GraphPasses \cup DesignPasses
  <2>1. WholeDesign(design) /\ Quiet(PassResult(pass)) =>
          PassResult(pass).d = design \/ (pass.name = "hier-flatten" /\ KeepsOf(PassResult(pass).d, design))
    BY Zenon, <1>3, <1>6, PassResultQuiet
  <2> QED BY Zenon, <1>1, <2>1, RanKeepsFlag DEF pass
<1> QED BY Zenon, <1>4, <1>5, <1>6

LEMMA HonestRunRepcut ==
  ASSUME HonestInv, RunRepcut
  PROVE  HonestInv'
<1>1. PICK r \in Cut!RepCut(design, made[pos].opts) : Ran(r)
  BY Zenon DEF RunRepcut
<1>2. Ready /\ UNCHANGED <<scenario, made, simp>>
  BY Zenon DEF RunRepcut
<1>3. Quiet(r) => r.d = design
  BY Zenon, RepCutQuiet DEF QuietDesign
<1> QED BY Zenon, <1>1, <1>2, <1>3, RanKeepsFlag

LEMMA HonestBeginSimplify ==
  ASSUME HonestInv, BeginSimplify
  PROVE  HonestInv'
<1> USE DEF HonestInv
<1>1. /\ phase = "running" /\ ~simp.running /\ UNCHANGED <<scenario, design, made>>
      /\ \/ simp' = StartRound(1, FALSE) /\ UNCHANGED <<report, phase, pos>>
         \/ Finish(FALSE, FALSE, FALSE) /\ UNCHANGED simp
  BY Zenon DEF BeginSimplify, Ready
<1>2. CASE simp' = StartRound(1, FALSE) /\ UNCHANGED <<report, phase, pos>>
  <2>1. HonestScenario' /\ HonestReport' /\ HonestMade' /\ HonestMaking'
    BY <1>1, <1>2 DEF HonestScenario, HonestReport, HonestMade, HonestMaking
  <2>2. HonestSimplify'
    BY Zenon, <1>2, StartRoundOk DEF HonestSimplify
  <2>3. NothingReported' => NothingReported
    BY Zenon, <1>1, <1>2 DEF NothingReported
  <2>4. HonestFlag'
    BY Zenon, <1>1, <2>3 DEF HonestFlag, Kept, Makes
  <2> QED BY Zenon, <2>1, <2>2, <2>4
<1>3. CASE Finish(FALSE, FALSE, FALSE) /\ UNCHANGED simp
  <2>1. /\ HonestReport' /\ (pos' = pos \/ pos' = pos + 1) /\ (phase' = phase \/ phase' = "done")
        /\ ~report'.failed => ~report.failed
        /\ ~report'.changed => ~report.changed
    BY Zenon, <1>3, FinishReports
  <2>2. simp = NoSimplify
    BY <1>1 DEF HonestSimplify, SimpOk
  <2>3. HonestScenario' /\ HonestMade' /\ HonestMaking' /\ HonestSimplify'
    BY <1>1, <1>3, <2>1, <2>2 DEF HonestScenario, HonestMade, HonestMaking, HonestSimplify
  <2>4. NothingReported' => NothingReported
    BY Zenon, <1>1, <1>3, <2>1 DEF NothingReported
  <2>5. HonestFlag'
    BY Zenon, <1>1, <2>4 DEF HonestFlag, Kept, Makes
  <2> QED BY Zenon, <2>1, <2>3, <2>5
<1> QED BY Zenon, <1>1, <1>2, <1>3

LEMMA HonestSimplifyGraph ==
  ASSUME HonestInv, SimplifyGraph
  PROVE  HonestInv'
<1> DEFINE n == Head(simp.todo)
<1>1. simp.running /\ SimplifyStep(n, InnerResult(design[n])) /\ UNCHANGED <<scenario, made, phase, pos>>
  BY Zenon DEF SimplifyGraph
<1>2. simp.pass \in 1..3
  BY <1>1 DEF HonestInv, HonestSimplify, SimpOk, NoSimplify
<1> HIDE DEF n
<1>3. WholeDesign(design) /\ n \in DOMAIN design => QuietGraph(InnerResult(design[n]), design[n])
  <2> DEFINE g == design[n]
  <2>1. WholeDesign(design) /\ n \in DOMAIN design => IsGraph(g)
    BY Zenon DEF WholeDesign
  <2> HIDE DEF g
  <2>2. WholeDesign(design) /\ n \in DOMAIN design => QuietGraph(InnerResult(g), g)
    BY <1>2, <2>1, InnerResultQuiet
  <2> QED BY <2>2 DEF g
<1> QED BY Zenon, <1>1, <1>3, SimplifyStepKeepsFlag

LEMMA HonestNextInner ==
  ASSUME HonestInv, NextInnerPass
  PROVE  HonestInv'
<1> USE DEF HonestInv
<1> DEFINE s == [simp EXCEPT !.pass = @ + 1, !.todo = Guards!GraphNames(design)]
<1>1. /\ simp.running /\ simp.pass < Len(InnerPasses) /\ simp' = s
      /\ UNCHANGED <<scenario, design, made, phase, pos, report>>
  BY Zenon DEF NextInnerPass
<1>2. SimpFields \subseteq DOMAIN simp /\ simp.running = TRUE /\ simp.pass \in 1..3 /\ Len(InnerPasses) = 3
  BY <1>1 DEF HonestSimplify, SimpOk, NoSimplify, InnerPasses
<1>3. /\ DOMAIN s = DOMAIN simp /\ s.running = TRUE /\ s.pass \in 1..3
      /\ s.any = simp.any /\ s.changed = simp.changed /\ s.failed = simp.failed
  BY <1>1, <1>2 DEF SimpFields
<1> HIDE DEF s
<1>4. HonestScenario' /\ HonestReport' /\ HonestMade' /\ HonestSimplify'
  BY <1>1, <1>2, <1>3 DEF HonestScenario, HonestReport, HonestMade, HonestSimplify, SimpOk
<1>5. HonestMaking'
  BY <1>1 DEF HonestMaking, NoSimplify
<1>6. NothingReported' => NothingReported
  BY Zenon, <1>1, <1>2, <1>3 DEF NothingReported
<1>7. HonestFlag'
  BY Zenon, <1>1, <1>6 DEF HonestFlag, Kept, Makes
<1> QED BY Zenon, <1>4, <1>5, <1>7

LEMMA HonestEndRound ==
  ASSUME HonestInv, EndRound
  PROVE  HonestInv'
<1> USE DEF HonestInv
<1> DEFINE changed == simp.any \/ (simp.changed /\ ~simp.failed)
<1>1. /\ simp.running /\ UNCHANGED <<scenario, design, made>>
      /\ \/ simp' = NoSimplify /\ Finish(changed, simp.failed, FALSE)
         \/ \E i : simp' = StartRound(i, TRUE) /\ UNCHANGED <<report, phase, pos>>
  BY Zenon DEF EndRound
<1>2. phase = "running"
  BY <1>1 DEF HonestMaking, NoSimplify
<1>3. CASE simp' = NoSimplify /\ Finish(changed, simp.failed, FALSE)
  <2>1. ~changed /\ ~simp.failed => ~simp.any /\ ~simp.changed
    BY Zenon
  <2> HIDE DEF changed
  <2>2. /\ HonestReport' /\ (pos' = pos \/ pos' = pos + 1) /\ (phase' = phase \/ phase' = "done")
        /\ ~report'.failed => ~report.failed /\ ~simp.failed
        /\ ~report'.changed => ~report.changed /\ ~changed
    BY Zenon, <1>3, FinishReports
  <2>3. HonestScenario' /\ HonestMade' /\ HonestMaking' /\ HonestSimplify'
    BY <1>1, <1>2, <1>3, <2>2 DEF HonestScenario, HonestMade, HonestMaking, HonestSimplify, SimpOk
  <2>4. NothingReported' => NothingReported
    BY Zenon, <1>2, <2>1, <2>2 DEF NothingReported
  <2>5. HonestFlag'
    BY Zenon, <1>1, <2>4 DEF HonestFlag, Kept, Makes
  <2> QED BY Zenon, <2>2, <2>3, <2>5
<1>4. CASE \E i : simp' = StartRound(i, TRUE) /\ UNCHANGED <<report, phase, pos>>
  <2>1. simp'.any = TRUE /\ simp'.running = TRUE /\ HonestSimplify'
    BY Zenon, <1>4, StartRoundOk DEF HonestSimplify
  <2>2. HonestScenario' /\ HonestReport' /\ HonestMade' /\ HonestMaking'
    BY <1>1, <1>2, <1>4 DEF HonestScenario, HonestReport, HonestMade, HonestMaking
  <2>3. HonestFlag'
    BY Zenon, <2>1 DEF HonestFlag, NothingReported
  <2> QED BY Zenon, <2>1, <2>2, <2>3
<1> QED BY Zenon, <1>1, <1>3, <1>4

LEMMA HonestNext ==
  ASSUME HonestInv, [Next]_vars
  PROVE  HonestInv'
<1>1. CASE MakeNext
  BY <1>1, HonestMakeNext
<1>2. CASE StartRun
  <2>1. HonestScenario' /\ HonestReport' /\ HonestMade' /\ HonestMaking' /\ HonestSimplify'
    BY <1>2 DEF StartRun, HonestInv, HonestScenario, HonestReport, HonestMade, HonestMaking, HonestSimplify
  <2>2. HonestFlag'
    BY <1>2 DEF StartRun, HonestInv, HonestFlag, NothingReported, Kept, Makes
  <2> QED BY Zenon, <2>1, <2>2 DEF HonestInv
<1>3. CASE RunPass
  BY <1>3, HonestRunPass
<1>4. CASE RunRepcut
  BY <1>4, HonestRunRepcut
<1>5. CASE EndRun
  <2> DEFINE f == report.failed \/ (Blocked /\ pos <= Len(made))
             rep == [report EXCEPT !.failed = f]
  <2>1. report' = rep /\ phase' = "done" /\ phase = "running" /\ ~simp.running
        /\ UNCHANGED <<scenario, design, made, pos, simp>>
    BY <1>5 DEF EndRun
  <2>2. ~f => ~report.failed
    BY Zenon
  <2> HIDE DEF f
  <2>3. DOMAIN rep = DOMAIN report /\ rep.changed = report.changed /\ rep.failed = f
    BY DEF HonestInv, HonestReport
  <2> HIDE DEF rep
  <2>4. HonestScenario' /\ HonestReport' /\ HonestMade' /\ HonestMaking' /\ HonestSimplify'
    BY <2>1, <2>3 DEF HonestInv, HonestScenario, HonestReport, HonestMade, HonestMaking, HonestSimplify, SimpOk
  <2>5. NothingReported' => NothingReported
    BY Zenon, <2>1, <2>2, <2>3 DEF NothingReported
  <2> QED BY Zenon, <2>1, <2>4, <2>5 DEF HonestInv, HonestFlag, Kept, Makes
<1>6. CASE BeginSimplify
  BY <1>6, HonestBeginSimplify
<1>7. CASE SimplifyGraph
  BY <1>7, HonestSimplifyGraph
<1>8. CASE NextInnerPass
  BY <1>8, HonestNextInner
<1>9. CASE EndRound
  BY <1>9, HonestEndRound
<1>10. CASE StoreDesign
  <2>1. phase = "done" /\ phase' \in {"stored", "refused"} /\ UNCHANGED <<scenario, design, made, pos, simp, report>>
    BY <1>10 DEF StoreDesign
  <2> QED BY <2>1 DEF HonestInv, HonestScenario, HonestReport, HonestMade, HonestMaking, HonestSimplify,
                      HonestFlag, NothingReported
<1>11. CASE LoadDesign
  <2>1. phase = "stored" /\ phase' \in {"loaded", "unreadable"} /\ UNCHANGED <<scenario, made, pos, simp, report>>
    BY <1>11 DEF LoadDesign
  <2> QED BY <2>1 DEF HonestInv, HonestScenario, HonestReport, HonestMade, HonestMaking, HonestSimplify,
                      HonestFlag, NothingReported
<1>12. CASE UNCHANGED vars
  BY <1>12 DEF vars, HonestInv, HonestScenario, HonestReport, HonestMade, HonestMaking, HonestSimplify,
               HonestFlag, NothingReported, Kept, Makes
<1> QED
  BY Zenon, <1>1, <1>2, <1>3, <1>4, <1>5, <1>6, <1>7, <1>8, <1>9, <1>10, <1>11, <1>12 DEF Next, Ended

(* A run that neither failed nor reports a change has changed nothing, save  *)
(* what comb-loop-elim and hier-flatten do without saying so: the flag that  *)
(* the caller and simplify's loop rely on (transform.cpp:330-380).           *)
THEOREM PipelineChangedHonest == Spec => []ChangedHonest
<1>1. HonestInv => ChangedHonest
  <2> SUFFICES ASSUME HonestInv, phase = "done", ~report.failed, ~report.changed
               PROVE  Untouched \/ Makes("comb-loop-elim")
    BY Zenon DEF ChangedHonest
  <2>1. ~simp.running
    BY DEF HonestInv, HonestMaking, NoSimplify
  <2>2. NothingReported
    BY <2>1 DEF NothingReported
  <2>3. KeepsOf(design, scenario.design) => KeptGraphs
    BY Zenon DEF KeepsOf, KeptGraphs
  <2> QED BY Zenon, <2>2, <2>3 DEF HonestInv, HonestFlag, Kept, Untouched
<1> QED BY <1>1, HonestInit, HonestNext, PTL DEF Spec

-----------------------------------------------------------------------------
(* Termination.                                                            *)

(* What the measure rests on: how far the run is, and where simplify is.     *)
FiniteDesign == IsFiniteSet(DOMAIN design)
RunEnds == {"rejected", "refused", "unreadable", "loaded"}
TermPhase == phase \in {"making", "running", "done", "stored"} \cup RunEnds
TermMade  == Len(made) <= Len(scenario.specs) /\ pos <= Len(made) + 1
TermBound == \A i \in 1..Len(made) : made[i].name = "simplify" => made[i].opts.maxIterations \in RoundBounds
TermRound(s) ==
  s.running => /\ pos <= Len(made) /\ made[pos].name = "simplify"
               /\ s.iter \in 1..made[pos].opts.maxIterations
               /\ IsList(s.todo)
TermInv == TermPhase /\ TermMade /\ TermBound /\ TermRound(simp)

(* The components of Remaining, one by one.                                  *)
PhasesLeft == CASE phase = "making" -> 4 [] phase = "running" -> 3 [] phase = "done" -> 2 [] phase = "stored" -> 1
                [] OTHER -> 0
MakesLeft  == Len(scenario.specs) - Len(made)
PassesLeft == Len(scenario.specs) + 1 - pos
InnerLeft  == IF simp.running THEN Len(InnerPasses) - simp.pass ELSE 0
GraphsLeft == IF simp.running THEN Len(simp.todo) ELSE 0
AllLeft    == <<PhasesLeft, MakesLeft, PassesLeft, RoundsLeft, InnerLeft, GraphsLeft>>

LEMMA RemainingIs == Remaining = AllLeft /\ Remaining' = AllLeft'
  BY Zenon DEF Remaining, AllLeft, PhasesLeft, MakesLeft, PassesLeft, InnerLeft, GraphsLeft

LEMMA PhasesLeftIs ==
  ASSUME TermPhase
  PROVE  /\ PhasesLeft \in Nat
         /\ phase = "making" => PhasesLeft = 4
         /\ phase = "running" => PhasesLeft = 3
         /\ phase = "done" => PhasesLeft = 2
         /\ phase = "stored" => PhasesLeft = 1
         /\ phase \in RunEnds => PhasesLeft = 0
  BY DEF TermPhase, PhasesLeft, RunEnds

LeftNatural ==
  /\ PhasesLeft \in Nat /\ MakesLeft \in Nat /\ PassesLeft \in Nat
  /\ RoundsLeft \in Nat /\ InnerLeft \in Nat /\ GraphsLeft \in Nat
LEMMA LeftIsNatural ==
  ASSUME HonestInv, TermInv
  PROVE  LeftNatural
<1> USE DEF HonestInv, TermInv
<1>1. PhasesLeft \in Nat
  BY PhasesLeftIs
<1>2. Len(made) \in Nat /\ Len(scenario.specs) \in Nat /\ pos \in Nat \ {0}
  BY ScenariosAssumption DEF HonestScenario, HonestMade, MadeOk, IsList
<1>3. MakesLeft \in Nat /\ PassesLeft \in Nat
  BY <1>2 DEF MakesLeft, PassesLeft, TermMade
<1>4. RoundsLeft \in Nat
  <2> DEFINE bound == made[pos].opts.maxIterations
  <2>1. CASE pos > Len(made) \/ phase # "running" \/ made[pos].name # "simplify"
    BY <2>1 DEF RoundsLeft
  <2>2. CASE pos <= Len(made) /\ phase = "running" /\ made[pos].name = "simplify"
    <3>1. bound \in RoundBounds
      BY <1>2, <2>2 DEF TermBound
    <3>2. simp.running => simp.iter \in 1..bound
      BY DEF TermRound
    <3>3. RoundsLeft = bound + (IF simp.running THEN 0 - simp.iter ELSE 1)
      BY <1>2, <2>2 DEF RoundsLeft
    <3> HIDE DEF bound
    <3>4. bound \in Int /\ bound >= -1
      BY <3>1 DEF RoundBounds
    <3>5. CASE simp.running
      BY <3>2, <3>3, <3>4, <3>5
    <3>6. CASE ~simp.running
      BY <3>3, <3>4, <3>6
    <3> QED BY <3>5, <3>6
  <2> QED BY <1>2, <2>1, <2>2
<1>5. InnerLeft \in Nat
  BY DEF InnerLeft, HonestSimplify, SimpOk, NoSimplify, InnerPasses
<1>6. GraphsLeft \in Nat
  BY DEF GraphsLeft, TermRound, IsList
<1> QED BY <1>1, <1>3, <1>4, <1>5, <1>6 DEF LeftNatural

(* The order on what is left is lexicographic.                               *)
LEMMA BeforeFirst ==
  ASSUME NEW a1, NEW a2, NEW a3, NEW a4, NEW a5, NEW a6, NEW b1, NEW b2, NEW b3, NEW b4, NEW b5, NEW b6,
         \/ b1 < a1
         \/ b1 = a1 /\ b2 < a2
         \/ b1 = a1 /\ b2 = a2 /\ b3 < a3
         \/ b1 = a1 /\ b2 = a2 /\ b3 = a3 /\ b4 < a4
         \/ b1 = a1 /\ b2 = a2 /\ b3 = a3 /\ b4 = a4 /\ b5 < a5
         \/ b1 = a1 /\ b2 = a2 /\ b3 = a3 /\ b4 = a4 /\ b5 = a5 /\ b6 < a6
  PROVE  Before(<<b1, b2, b3, b4, b5, b6>>, <<a1, a2, a3, a4, a5, a6>>)
<1> DEFINE s == <<b1, b2, b3, b4, b5, b6>>
           t == <<a1, a2, a3, a4, a5, a6>>
<1>1. DOMAIN s = 1..6
  OBVIOUS
<1>2. /\ s[1] = b1 /\ s[2] = b2 /\ s[3] = b3 /\ s[4] = b4 /\ s[5] = b5 /\ s[6] = b6
      /\ t[1] = a1 /\ t[2] = a2 /\ t[3] = a3 /\ t[4] = a4 /\ t[5] = a5 /\ t[6] = a6
  OBVIOUS
<1> HIDE DEF s, t
<1>3. \E i \in 1..6 : s[i] < t[i] /\ \A j \in 1..(i - 1) : s[j] = t[j]
  <2>1. CASE b1 < a1
    <3>1. s[1] < t[1] /\ \A j \in 1..(1 - 1) : s[j] = t[j]
      BY <1>2, <2>1
    <3> QED BY <3>1
  <2>2. CASE b1 = a1 /\ b2 < a2
    <3>1. s[2] < t[2] /\ \A j \in 1..(2 - 1) : s[j] = t[j]
      BY <1>2, <2>2
    <3> QED BY <3>1
  <2>3. CASE b1 = a1 /\ b2 = a2 /\ b3 < a3
    <3>1. s[3] < t[3] /\ \A j \in 1..(3 - 1) : s[j] = t[j]
      BY <1>2, <2>3
    <3> QED BY <3>1
  <2>4. CASE b1 = a1 /\ b2 = a2 /\ b3 = a3 /\ b4 < a4
    <3>1. s[4] < t[4] /\ \A j \in 1..(4 - 1) : s[j] = t[j]
      BY <1>2, <2>4
    <3> QED BY <3>1
  <2>5. CASE b1 = a1 /\ b2 = a2 /\ b3 = a3 /\ b4 = a4 /\ b5 < a5
    <3>1. s[5] < t[5] /\ \A j \in 1..(5 - 1) : s[j] = t[j]
      BY <1>2, <2>5
    <3> QED BY <3>1
  <2>6. CASE b1 = a1 /\ b2 = a2 /\ b3 = a3 /\ b4 = a4 /\ b5 = a5 /\ b6 < a6
    <3>1. s[6] < t[6] /\ \A j \in 1..(6 - 1) : s[j] = t[j]
      BY <1>2, <2>6
    <3> QED BY <3>1
  <2> QED BY <2>1, <2>2, <2>3, <2>4, <2>5, <2>6
<1> QED BY <1>1, <1>3 DEF Before, s, t

Closer ==
  \/ PhasesLeft' < PhasesLeft
  \/ PhasesLeft' = PhasesLeft /\ MakesLeft' < MakesLeft
  \/ PhasesLeft' = PhasesLeft /\ MakesLeft' = MakesLeft /\ PassesLeft' < PassesLeft
  \/ /\ PhasesLeft' = PhasesLeft /\ MakesLeft' = MakesLeft /\ PassesLeft' = PassesLeft
     /\ \/ RoundsLeft' < RoundsLeft
        \/ RoundsLeft' = RoundsLeft /\ InnerLeft' < InnerLeft
        \/ RoundsLeft' = RoundsLeft /\ InnerLeft' = InnerLeft /\ GraphsLeft' < GraphsLeft

(* A pass that has ended is behind the run, or the run is over.              *)
LEMMA FinishCloser ==
  ASSUME HonestInv, TermInv, phase = "running", pos <= Len(made), UNCHANGED <<scenario, made>>,
         NEW changed, NEW failed, NEW err, Finish(changed, failed, err)
  PROVE  (TermPhase /\ TermMade /\ TermBound)' /\ Closer
<1>1. (phase' = phase /\ pos' = pos + 1) \/ (phase' = "done" /\ pos' = pos)
  BY Zenon DEF Finish
<1>2. Len(made) \in Nat /\ Len(scenario.specs) \in Nat /\ pos \in Nat \ {0}
  BY ScenariosAssumption DEF HonestInv, HonestScenario, HonestMade, MadeOk, IsList
<1>3. (TermPhase /\ TermMade /\ TermBound)'
  BY <1>1, <1>2 DEF TermInv, TermPhase, TermMade, TermBound
<1>4. CASE phase' = phase /\ pos' = pos + 1
  <2>1. scenario' = scenario /\ made' = made
    OBVIOUS
  <2>2. PhasesLeft' = PhasesLeft /\ MakesLeft' = MakesLeft
    BY <1>4, <2>1 DEF PhasesLeft, MakesLeft
  <2>3. PassesLeft' = Len(scenario.specs) + 1 - pos'
    BY Zenon, <2>1 DEF PassesLeft
  <2>4. pos' = pos + 1
    BY <1>4
  <2> DEFINE n == Len(scenario.specs)
  <2>5. PassesLeft = n + 1 - pos /\ PassesLeft' = n + 1 - pos'
    BY Zenon, <2>3 DEF PassesLeft
  <2>6. n \in Nat /\ pos \in Nat
    BY <1>2
  <2> HIDE DEF n
  <2>7. PassesLeft' < PassesLeft
    BY <2>4, <2>5, <2>6
  <2> QED BY Zenon, <1>3, <2>2, <2>7 DEF Closer
<1>5. CASE phase' = "done"
  <2>1. PhasesLeft = 3 /\ PhasesLeft' = 2
    BY <1>5 DEF PhasesLeft
  <2>2. PhasesLeft' < PhasesLeft
    BY <2>1
  <2> QED BY Zenon, <1>3, <2>2 DEF Closer
<1> QED BY <1>1, <1>3, <1>4, <1>5

LEMMA TermMakeNext ==
  ASSUME HonestInv, HonestInv', TermInv, MakeNext
  PROVE  TermInv' /\ Closer
<1> DEFINE spec == scenario.specs[Len(made) + 1]
           pass == Args!MakePass(spec.name, spec.args)
           new == [name |-> spec.name, opts |-> pass.opts]
<1>1. /\ phase = "making" /\ Len(made) < Len(scenario.specs)
      /\ \/ made' = Append(made, new) /\ phase' = phase
         \/ phase' = "rejected" /\ made' = made
      /\ UNCHANGED <<scenario, pos, simp>>
  BY Zenon DEF MakeNext
<1>2. Len(made) \in Nat /\ Len(scenario.specs) \in Nat /\ pos \in Nat \ {0}
  BY ScenariosAssumption DEF HonestInv, HonestScenario, HonestMade, MadeOk, IsList
<1>3. simp = NoSimplify
  BY <1>1 DEF HonestInv, HonestMaking
<1>4. TermRound(simp)'
  BY <1>1, <1>3 DEF TermRound, NoSimplify
<1>5. CASE made' = Append(made, new) /\ phase' = phase
  <2>1. new.name = "simplify" => new.opts.maxIterations \in RoundBounds
    <3>1. IsList(spec.args)
      <4>1. Len(made) + 1 \in DOMAIN scenario.specs
        BY <1>1, <1>2, ScenariosAssumption DEF HonestInv, HonestScenario, IsList
      <4> QED BY <4>1, ScenariosAssumption DEF HonestInv, HonestScenario, IsSpec
    <3>2. new.name = spec.name /\ new.opts = pass.opts
      OBVIOUS
    <3> HIDE DEF new
    <3>3. spec.name = "simplify" => pass.opts.maxIterations \in RoundBounds
      <4> DEFINE args == spec.args
      <4> HIDE DEF args
      <4>1. IsList(args) => Args!MakePass("simplify", args).opts.maxIterations \in RoundBounds
        BY Zenon, SimplifyBound
      <4> QED BY Zenon, <3>1, <4>1 DEF args
    <3> QED BY Zenon, <3>2, <3>3
  <2> HIDE DEF new, pass, spec
  <2>2. PICK S : made \in Seq(S)
    BY SeqOfList DEF HonestInv, HonestMade, MadeOk
  <2> DEFINE T == S \cup {new}
  <2>3. made \in Seq(T) /\ new \in T
    BY <2>2
  <2>4. /\ Len(made') = Len(made) + 1 /\ made'[Len(made) + 1] = new
        /\ \A i \in 1..Len(made) : made'[i] = made[i]
    BY <1>5, <2>3
  <2>5. TermBound'
    BY <1>2, <2>1, <2>4 DEF TermInv, TermBound
  <2>6. TermPhase' /\ TermMade'
    BY <1>1, <1>2, <1>5, <2>4 DEF TermInv, TermPhase, TermMade
  <2>7. PhasesLeft' = PhasesLeft /\ MakesLeft' < MakesLeft
    BY <1>1, <1>2, <1>5, <2>4 DEF PhasesLeft, MakesLeft
  <2> QED BY <1>4, <2>5, <2>6, <2>7 DEF TermInv, Closer
<1>6. CASE phase' = "rejected" /\ made' = made
  <2>1. PhasesLeft = 4 /\ PhasesLeft' = 0
    BY <1>1, <1>6 DEF PhasesLeft
  <2>2. TermPhase' /\ TermMade' /\ TermBound'
    BY <1>1, <1>6 DEF TermInv, TermPhase, TermMade, TermBound, RunEnds
  <2> QED BY <1>4, <2>1, <2>2 DEF TermInv, Closer
<1> QED BY <1>1, <1>5, <1>6

(* A pass of the manager's, whatever it did.                                 *)
LEMMA TermRan ==
  ASSUME HonestInv, TermInv, Ready, NEW r, Ran(r), UNCHANGED <<scenario, made, simp>>
  PROVE  TermInv' /\ Closer
<1>1. phase = "running" /\ ~simp.running /\ pos <= Len(made) /\ Finish(r.changed, r.failed, r.err)
  BY Zenon DEF Ready, Ran
<1>2. (TermPhase /\ TermMade /\ TermBound)' /\ Closer
  BY Zenon, <1>1, FinishCloser
<1>3. TermRound(simp)'
  BY <1>1 DEF TermRound
<1> QED BY Zenon, <1>2, <1>3 DEF TermInv

LEMMA GraphsAreList ==
  ASSUME FiniteDesign
  PROVE  IsList(Guards!GraphNames(design))
<1>1. Guards!GraphNames(design) \in [1..Cardinality(DOMAIN design) -> DOMAIN design]
      /\ Cardinality(DOMAIN design) \in Nat
  BY GraphNamesIsList DEF FiniteDesign, Guards!GraphNames
<1>2. Guards!GraphNames(design) \in Seq(DOMAIN design)
  BY <1>1
<1> QED BY <1>2, ListOfSeq

LEMMA RoundStarts ==
  ASSUME FiniteDesign, NEW iter, NEW any
  PROVE  LET s == StartRound(iter, any) IN s.running = TRUE /\ s.iter = iter /\ s.pass = 1 /\ IsList(s.todo)
<1> DEFINE q == Guards!GraphNames(design)
<1>1. IsList(q)
  BY GraphsAreList
<1> HIDE DEF q
<1> QED BY <1>1 DEF StartRound, q

LEMMA TermBeginSimplify ==
  ASSUME HonestInv, TermInv, FiniteDesign, BeginSimplify
  PROVE  TermInv' /\ Closer
<1>1. /\ phase = "running" /\ ~simp.running /\ pos <= Len(made) /\ made[pos].name = "simplify"
      /\ UNCHANGED <<scenario, made>>
      /\ \/ made[pos].opts.maxIterations > 0 /\ simp' = StartRound(1, FALSE) /\ UNCHANGED <<phase, pos>>
         \/ Finish(FALSE, FALSE, FALSE) /\ UNCHANGED simp
  BY Zenon DEF BeginSimplify, Ready
<1>2. CASE made[pos].opts.maxIterations > 0 /\ simp' = StartRound(1, FALSE) /\ UNCHANGED <<phase, pos>>
  <2> DEFINE bound == made[pos].opts.maxIterations
  <2>1. simp'.running = TRUE /\ simp'.iter = 1 /\ IsList(simp'.todo)
    BY <1>2, RoundStarts
  <2>2. bound \in RoundBounds
    BY <1>1 DEF TermInv, TermBound, HonestInv, HonestMade, MadeOk, IsList
  <2>3. bound \in Int /\ 1 \in 1..bound
    BY <1>2, <2>2 DEF RoundBounds
  <2>4. TermRound(simp)'
    BY <1>1, <1>2, <2>1, <2>3 DEF TermRound
  <2>5. TermPhase' /\ TermMade' /\ TermBound'
    BY <1>1, <1>2 DEF TermInv, TermPhase, TermMade, TermBound
  <2>6. PhasesLeft' = PhasesLeft /\ MakesLeft' = MakesLeft /\ PassesLeft' = PassesLeft
    BY <1>1, <1>2 DEF PhasesLeft, MakesLeft, PassesLeft
  <2>7. RoundsLeft = bound + 1 /\ RoundsLeft' = bound + (0 - 1)
    <3>1. ~(pos > Len(made)) /\ made' = made
      BY <1>1 DEF HonestInv, HonestMade, MadeOk, IsList
    <3> QED BY <1>1, <1>2, <2>1, <3>1 DEF RoundsLeft
  <2> HIDE DEF bound
  <2> QED BY <2>3, <2>4, <2>5, <2>6, <2>7 DEF TermInv, Closer
<1>3. CASE Finish(FALSE, FALSE, FALSE) /\ UNCHANGED simp
  <2>1. (TermPhase /\ TermMade /\ TermBound)' /\ Closer
    BY Zenon, <1>1, <1>3, FinishCloser
  <2>2. TermRound(simp)'
    BY <1>1, <1>3 DEF TermRound
  <2> QED BY Zenon, <2>1, <2>2 DEF TermInv
<1> QED BY <1>1, <1>2, <1>3

LEMMA TermSimplifyGraph ==
  ASSUME HonestInv, TermInv, SimplifyGraph
  PROVE  TermInv' /\ Closer
<1> DEFINE n == Head(simp.todo)
           r == InnerResult(design[n])
           changed == simp.changed \/ r.changed
           failed == simp.failed \/ r.failed
           s == [simp EXCEPT !.todo = Tail(@), !.changed = changed, !.failed = failed]
<1>1. simp.running /\ simp.todo # <<>> /\ simp' = s /\ UNCHANGED <<scenario, made, phase, pos>>
  BY Zenon DEF SimplifyGraph, SimplifyStep
<1> HIDE DEF changed, failed, r, n
<1>2. SimpFields \subseteq DOMAIN simp /\ simp.running = TRUE /\ simp.pass \in 1..3
  BY <1>1 DEF HonestInv, HonestSimplify, SimpOk, NoSimplify
<1>3. s.running = TRUE /\ s.pass = simp.pass /\ s.iter = simp.iter /\ s.todo = Tail(simp.todo)
  BY <1>2 DEF SimpFields
<1> HIDE DEF s
<1>4. IsList(simp.todo)
  BY <1>1 DEF TermInv, TermRound
<1>5. IsList(Tail(simp.todo)) /\ Len(Tail(simp.todo)) = Len(simp.todo) - 1
  <2>1. PICK S : simp.todo \in Seq(S)
    BY <1>4, SeqOfList
  <2>2. Tail(simp.todo) \in Seq(S) /\ Len(Tail(simp.todo)) = Len(simp.todo) - 1
    BY <1>1, <2>1
  <2> QED BY <2>2, ListOfSeq
<1>6. TermRound(simp)'
  BY <1>1, <1>3, <1>5 DEF TermInv, TermRound
<1>7. TermPhase' /\ TermMade' /\ TermBound'
  BY <1>1 DEF TermInv, TermPhase, TermMade, TermBound
<1>8. PhasesLeft' = PhasesLeft /\ MakesLeft' = MakesLeft /\ PassesLeft' = PassesLeft
  BY <1>1 DEF PhasesLeft, MakesLeft, PassesLeft
<1>9. RoundsLeft' = RoundsLeft /\ InnerLeft' = InnerLeft
  BY <1>1, <1>2, <1>3 DEF RoundsLeft, InnerLeft
<1>10. GraphsLeft' < GraphsLeft
  BY <1>1, <1>2, <1>3, <1>4, <1>5 DEF GraphsLeft, IsList
<1> QED BY Zenon, <1>6, <1>7, <1>8, <1>9, <1>10 DEF TermInv, Closer

LEMMA TermNextInner ==
  ASSUME HonestInv, TermInv, FiniteDesign, NextInnerPass
  PROVE  TermInv' /\ Closer
<1> DEFINE q == Guards!GraphNames(design)
           s == [simp EXCEPT !.pass = @ + 1, !.todo = q]
<1>1. simp.running /\ simp.pass < Len(InnerPasses) /\ simp' = s /\ UNCHANGED <<scenario, made, phase, pos>>
  BY Zenon DEF NextInnerPass
<1>2. SimpFields \subseteq DOMAIN simp /\ simp.running = TRUE /\ simp.pass \in 1..3
  BY <1>1 DEF HonestInv, HonestSimplify, SimpOk, NoSimplify
<1>3. IsList(q)
  BY GraphsAreList
<1> HIDE DEF q
<1>4. s.running = TRUE /\ s.pass = simp.pass + 1 /\ s.iter = simp.iter /\ s.todo = q
  BY <1>2 DEF SimpFields
<1> HIDE DEF s
<1>5. TermRound(simp)'
  BY <1>1, <1>3, <1>4 DEF TermInv, TermRound
<1>6. TermPhase' /\ TermMade' /\ TermBound'
  BY <1>1 DEF TermInv, TermPhase, TermMade, TermBound
<1>7. PhasesLeft' = PhasesLeft /\ MakesLeft' = MakesLeft /\ PassesLeft' = PassesLeft
  BY <1>1 DEF PhasesLeft, MakesLeft, PassesLeft
<1>8. RoundsLeft' = RoundsLeft
  BY <1>1, <1>2, <1>4 DEF RoundsLeft
<1>9. InnerLeft' < InnerLeft
  BY <1>1, <1>2, <1>4 DEF InnerLeft, InnerPasses
<1> QED BY Zenon, <1>5, <1>6, <1>7, <1>8, <1>9 DEF TermInv, Closer

LEMMA TermEndRound ==
  ASSUME HonestInv, TermInv, FiniteDesign, EndRound
  PROVE  TermInv' /\ Closer
<1> DEFINE bound == made[pos].opts.maxIterations
           changed == simp.any \/ (simp.changed /\ ~simp.failed)
<1>1. /\ simp.running /\ UNCHANGED <<scenario, made>>
      /\ \/ simp' = NoSimplify /\ Finish(changed, simp.failed, FALSE)
         \/ simp.iter # bound /\ simp' = StartRound(simp.iter + 1, TRUE) /\ UNCHANGED <<phase, pos>>
  BY Zenon DEF EndRound
<1>2. phase = "running"
  BY <1>1 DEF HonestInv, HonestMaking, NoSimplify
<1>3. pos <= Len(made) /\ made[pos].name = "simplify" /\ simp.iter \in 1..bound
  BY <1>1 DEF TermInv, TermRound
<1>4. CASE simp' = NoSimplify /\ Finish(changed, simp.failed, FALSE)
  <2>1. (TermPhase /\ TermMade /\ TermBound)' /\ Closer
    BY Zenon, <1>1, <1>2, <1>3, <1>4, FinishCloser
  <2>2. TermRound(simp)'
    BY <1>4 DEF TermRound, NoSimplify
  <2> QED BY Zenon, <2>1, <2>2 DEF TermInv
<1>5. CASE simp.iter # bound /\ simp' = StartRound(simp.iter + 1, TRUE) /\ UNCHANGED <<phase, pos>>
  <2>1. simp'.running = TRUE /\ simp'.iter = simp.iter + 1 /\ IsList(simp'.todo)
    BY <1>5, RoundStarts
  <2>2. bound \in RoundBounds /\ ~(pos > Len(made))
    BY <1>3 DEF TermInv, TermBound, HonestInv, HonestMade, MadeOk, IsList
  <2>3. bound \in Int /\ simp.iter + 1 \in 1..bound
    BY <1>3, <1>5, <2>2 DEF RoundBounds
  <2>4. TermRound(simp)'
    BY <1>1, <1>3, <1>5, <2>1, <2>3 DEF TermRound
  <2>5. TermPhase' /\ TermMade' /\ TermBound'
    BY <1>1, <1>5 DEF TermInv, TermPhase, TermMade, TermBound
  <2>6. PhasesLeft' = PhasesLeft /\ MakesLeft' = MakesLeft /\ PassesLeft' = PassesLeft
    BY <1>1, <1>5 DEF PhasesLeft, MakesLeft, PassesLeft
  <2>7. RoundsLeft = bound + (0 - simp.iter) /\ RoundsLeft' = bound + (0 - (simp.iter + 1))
    BY <1>1, <1>2, <1>3, <1>5, <2>1, <2>2 DEF RoundsLeft
  <2> HIDE DEF bound
  <2>8. RoundsLeft' < RoundsLeft
    BY <1>3, <2>3, <2>7
  <2> QED BY Zenon, <2>4, <2>5, <2>6, <2>8 DEF TermInv, Closer
<1> QED BY <1>1, <1>4, <1>5

LEMMA TermStep ==
  ASSUME HonestInv, HonestInv', TermInv, FiniteDesign, Next
  PROVE  TermInv' /\ (Closer \/ UNCHANGED vars)
<1>1. CASE MakeNext
  BY <1>1, TermMakeNext
<1>2. CASE RunPass
  <2>1. Ready /\ Ran(PassResult(made[pos])) /\ UNCHANGED <<scenario, made, simp>>
    BY Zenon, <1>2 DEF RunPass
  <2> QED BY Zenon, <2>1, TermRan
<1>3. CASE RunRepcut
  <2>1. PICK r \in Cut!RepCut(design, made[pos].opts) : Ran(r)
    BY Zenon, <1>3 DEF RunRepcut
  <2>2. Ready /\ UNCHANGED <<scenario, made, simp>>
    BY Zenon, <1>3 DEF RunRepcut
  <2> QED BY Zenon, <2>1, <2>2, TermRan
<1>4. CASE BeginSimplify
  BY <1>4, TermBeginSimplify
<1>5. CASE SimplifyGraph
  BY <1>5, TermSimplifyGraph
<1>6. CASE NextInnerPass
  BY <1>6, TermNextInner
<1>7. CASE EndRound
  BY <1>7, TermEndRound
<1>8. CASE StartRun \/ EndRun \/ StoreDesign \/ LoadDesign
  <2>1. /\ UNCHANGED <<scenario, made, pos, simp>>
        /\ \/ phase = "making" /\ phase' = "running"
           \/ phase = "running" /\ phase' = "done"
           \/ phase = "done" /\ phase' \in {"stored", "refused"}
           \/ phase = "stored" /\ phase' \in {"loaded", "unreadable"}
    BY <1>8 DEF StartRun, EndRun, StoreDesign, LoadDesign
  <2>2. PhasesLeft' < PhasesLeft
    BY <2>1 DEF PhasesLeft
  <2>3. TermInv'
    BY <2>1 DEF TermInv, TermPhase, TermMade, TermBound, TermRound, RunEnds
  <2> QED BY <2>2, <2>3 DEF Closer
<1>9. CASE Ended
  BY <1>9 DEF Ended, vars, TermInv, TermPhase, TermMade, TermBound, TermRound
<1> QED BY Zenon, <1>1, <1>2, <1>3, <1>4, <1>5, <1>6, <1>7, <1>8, <1>9 DEF Next

(* Every step of a run over finitely many graphs brings its end nearer, and  *)
(* nothing that is left falls below zero: the rounds of simplify are bounded *)
(* by what its arguments may ask for (simplify.cpp:44-70), and a pass that   *)
(* failed is not run again (transform.cpp:330-380).                          *)
THEOREM PipelineTerminates == Spec /\ []FiniteDesign => Terminates
<1> DEFINE Step == Before(Remaining', Remaining) /\ \A i \in DOMAIN Remaining' : Remaining'[i] >= 0
<1>1. Init => TermInv
  <2> SUFFICES ASSUME Init PROVE TermInv
    OBVIOUS
  <2>1. made = <<>> /\ pos = 1 /\ phase = "making" /\ simp.running = FALSE /\ Len(scenario.specs) \in Nat
    BY ScenariosAssumption DEF Init, NoSimplify, IsList
  <2> QED BY <2>1 DEF TermInv, TermPhase, TermMade, TermBound, TermRound
<1>2. HonestInv /\ HonestInv' /\ TermInv /\ FiniteDesign /\ [Next]_vars => TermInv'
  <2>1. UNCHANGED vars /\ TermInv => TermInv'
    BY DEF vars, TermInv, TermPhase, TermMade, TermBound, TermRound
  <2> QED BY Zenon, <2>1, TermStep
<1>3. HonestInv /\ HonestInv' /\ TermInv /\ LeftNatural' /\ FiniteDesign /\ [Next]_vars => [Step]_vars
  <2> SUFFICES ASSUME HonestInv, HonestInv', TermInv, LeftNatural', FiniteDesign, Next, vars' # vars
               PROVE  Step
    OBVIOUS
  <2>1. Closer
    BY Zenon, TermStep
  <2>2. Before(AllLeft', AllLeft)
    BY <2>1, BeforeFirst DEF Closer, AllLeft
  <2>3. /\ PhasesLeft' \in Nat /\ MakesLeft' \in Nat /\ PassesLeft' \in Nat
        /\ RoundsLeft' \in Nat /\ InnerLeft' \in Nat /\ GraphsLeft' \in Nat
    BY DEF LeftNatural
  <2>4. \A i \in DOMAIN AllLeft' : AllLeft'[i] >= 0
    BY <2>3 DEF AllLeft
  <2> QED BY Zenon, <2>2, <2>4, RemainingIs
<1>4. HonestInv /\ TermInv => LeftNatural
  BY LeftIsNatural
<1> QED BY <1>1, <1>2, <1>3, <1>4, HonestInit, HonestNext, PTL DEF Spec, Terminates
=============================================================================
