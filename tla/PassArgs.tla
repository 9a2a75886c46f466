------------------------------ MODULE PassArgs ------------------------------
(***************************************************************************)
(* makePass: the arguments of a pass, as the command line and the Python   *)
(* binding give them, become its options or an error.  An argument is      *)
(* <<text>>, or <<flag, value>> for the form flag=value.  The options of a *)
(* pass are a table; an entry says under which spellings it is accepted,   *)
(* whether the value may follow as the next argument (next) or after an    *)
(* equals sign (eq), and of which type it is.  A path is the sequence of   *)
(* its components.                                                         *)
(***************************************************************************)
EXTENDS Integers, Sequences, SequencesExt, TLC

Opt(flags, key, type, next, eq) ==
    [flags |-> flags, key |-> key, type |-> type, next |-> next, eq |-> eq]
Valued(flags, key, type) == Opt(flags, key, type, TRUE, TRUE)
\* A flag sets its key to a fixed value.
Flag(flag, key, value) ==
    [flags |-> {flag}, key |-> key, type |-> "flag", next |-> FALSE, eq |-> FALSE, value |-> value]

HierFlattenArgs ==
    {Flag("-preserve-modules", "preserve", TRUE), Valued({"-sym-protect"}, "symProtect", "protect")}
InstanceInlineArgs == {Valued({"-path"}, "path", "path")}
SimplifyArgs ==
    {Opt({"-max-iter"}, "maxIterations", "int", TRUE, FALSE),
     Valued({"-x-fold"}, "xFold", "xfold"), Valued({"-semantics"}, "twoState", "semantics")}
CombLoopElimArgs ==
    {Valued({"-max-analysis-nodes", "-max-nodes"}, "maxAnalysisNodes", "size"),
     Valued({"-num-threads", "-threads"}, "numThreads", "size"),
     Flag("-fix-false-loops", "fixFalseLoops", TRUE),
     Flag("-no-fix-false-loops", "fixFalseLoops", FALSE),
     Opt({"-fix-false-loops"}, "fixFalseLoops", "bool", FALSE, TRUE),
     Valued({"-max-fix-iter", "-max-fix-iterations"}, "maxFixIterations", "size"),
     Flag("-fail-on-true-loop", "failOnTrueLoop", TRUE)}
MemToRegArgs ==
    {Valued({"-row-limit"}, "rowLimit", "int"), Flag("-strict-init", "strictInit", TRUE),
     Flag("-no-strict-init", "strictInit", FALSE)}
StripDebugArgs == {Valued({"-path"}, "path", "path")}
HrbcutArgs ==
    {Valued({"-target-graph", "-graph"}, "targetGraphSymbol", "text"),
     Valued({"-partition-count"}, "partitionCount", "size"),
     Valued({"-balance-threshold"}, "balanceThreshold", "real"),
     Valued({"-target-candidate-count"}, "targetCandidateCount", "size"),
     Valued({"-max-trials"}, "maxTrials", "size"),
     Valued({"-split-stop-threshold"}, "splitStopThreshold", "size")}
RepcutArgs ==
    {Valued({"-path"}, "path", "path"),
     Valued({"-partition-count"}, "partitionCount", "size"),
     Valued({"-imbalance-factor"}, "imbalanceFactor", "real"),
     Valued({"-work-dir"}, "workDir", "text"),
     Valued({"-partitioner"}, "partitioner", "text"),
     Valued({"-mtkahypar-preset"}, "mtKaHyParPreset", "text"),
     Valued({"-mtkahypar-threads"}, "mtKaHyParThreads", "size"),
     Flag("-keep-intermediate-files", "keepIntermediateFiles", TRUE)}

NoArgPasses ==
    {"xmr-resolve", "multidriven-guard", "blackbox-guard", "slice-index-const",
     "memory-init-check", "memory-read-retime", "latch-transparent-read", "stats"}
PassNames ==
    NoArgPasses \cup {"hier-flatten", "instance-inline", "simplify", "comb-loop-elim",
                      "mem-to-reg", "strip-debug", "hrbcut", "repcut"}
ArgsOf ==
    [p \in PassNames |->
        CASE p = "hier-flatten" -> HierFlattenArgs [] p = "instance-inline" -> InstanceInlineArgs
          [] p = "simplify" -> SimplifyArgs        [] p = "comb-loop-elim" -> CombLoopElimArgs
          [] p = "mem-to-reg" -> MemToRegArgs      [] p = "strip-debug" -> StripDebugArgs
          [] p = "hrbcut" -> HrbcutArgs            [] p = "repcut" -> RepcutArgs
          [] OTHER -> {}]

\* What each pass does when no argument says otherwise.
Defaults ==
    [p \in PassNames |->
        CASE p = "hier-flatten" -> [preserve |-> FALSE, symProtect |-> "all"]
          [] p = "simplify" -> [maxIterations |-> 8, xFold |-> "Known", twoState |-> FALSE]
          [] p = "comb-loop-elim" -> [maxAnalysisNodes |-> 0, numThreads |-> 0,
                                      fixFalseLoops |-> TRUE, maxFixIterations |-> 100,
                                      failOnTrueLoop |-> FALSE]
          [] p = "mem-to-reg" -> [rowLimit |-> 32, strictInit |-> FALSE]
          [] p \in {"instance-inline", "strip-debug"} -> [path |-> <<>>]
          [] p = "hrbcut" -> [targetGraphSymbol |-> "", partitionCount |-> 2,
                              balanceThreshold |-> "0.05", targetCandidateCount |-> 8,
                              maxTrials |-> 32, splitStopThreshold |-> 8]
          [] p = "repcut" -> [path |-> <<>>, partitionCount |-> 2, imbalanceFactor |-> "0.015",
                              workDir |-> ".", partitioner |-> "mt-kahypar",
                              mtKaHyParPreset |-> "deterministic-quality",
                              mtKaHyParThreads |-> 0, keepIntermediateFiles |-> FALSE]
          [] OTHER -> [none |-> TRUE]]

-----------------------------------------------------------------------------
(* Bound: the number texts told apart.  An unsigned conversion wraps a     *)
(* negative number instead of refusing it; Huge stands for the result.     *)
Huge == 2^30
Numbers ==
    [t \in {"-1", "0", "1", "2", "4", "8"} |->
        CASE t = "-1" -> -1 [] t = "0" -> 0 [] t = "1" -> 1 [] t = "2" -> 2 [] t = "4" -> 4
          [] t = "8" -> 8]
Reals == DOMAIN Numbers \cup {"0.05", "0.5"}
ValueTexts ==
    [protect |-> [m \in {"all", "hierarchy", "stateful", "none"} |-> m],
     xfold |-> [x \in {"strict", "known", "propagate"} |->
                   CASE x = "strict" -> "Strict" [] x = "known" -> "Known" [] OTHER -> "Propagate"],
     semantics |-> [s \in {"2state", "4state"} |-> s = "2state"],
     bool |-> [b \in {"1", "true", "yes", "0", "false", "no"} |-> b \in {"1", "true", "yes"}],
     int  |-> Numbers,
     size |-> [n \in DOMAIN Numbers |-> IF Numbers[n] < 0 THEN Huge ELSE Numbers[n]],
     real |-> [r \in Reals |-> r]]

\* <<>> when the text is no value of the type.
Convert(type, text) ==
    IF type \in {"text", "path"} THEN <<text>>
    ELSE IF text \in DOMAIN ValueTexts[type] THEN <<ValueTexts[type][text]>> ELSE <<>>

\* acc = [opts, ok, want]: want holds the option whose value comes next, and
\* takes the next argument whatever it looks like.
Text(arg) == IF Len(arg) = 1 THEN arg[1] ELSE arg[1] \o "=" \o arg[2]
Take(acc, option, text) ==
    LET v == Convert(option.type, text)
    IN  IF v = <<>> THEN [acc EXCEPT !.ok = FALSE]
        ELSE [acc EXCEPT !.opts[option.key] = v[1], !.want = <<>>]
Accept(acc, option) ==
    IF option.type = "flag" THEN [acc EXCEPT !.opts[option.key] = option.value]
    ELSE [acc EXCEPT !.want = <<option>>]
ParseOne(table, acc, arg) ==
    LET plain == {option \in table : arg[1] \in option.flags /\ (option.next \/ option.type = "flag")}
        equal == {option \in table : arg[1] \in option.flags /\ option.eq}
    IN  IF ~acc.ok THEN acc
        ELSE IF acc.want # <<>> THEN Take(acc, acc.want[1], Text(arg))
        ELSE IF Len(arg) = 2 /\ equal # {} THEN Take(acc, CHOOSE option \in equal : TRUE, arg[2])
        ELSE IF Len(arg) = 1 /\ plain # {} THEN Accept(acc, CHOOSE option \in plain : TRUE)
        ELSE [acc EXCEPT !.ok = FALSE]

Unparsed(name) == [opts |-> Defaults[name], ok |-> TRUE, want |-> <<>>]
ParseAll(table, start, args) == FoldLeft(LAMBDA acc, arg : ParseOne(table, acc, arg), start, args)
\* [ok, opts]; the name is spelled with hyphens.
MakePass(name, args) ==
    LET parsed == ParseAll(ArgsOf[name], Unparsed(name), args)
        valid  == CASE name = "instance-inline" -> parsed.opts.path # <<>>
                    [] name = "mem-to-reg"      -> parsed.opts.rowLimit > 0
                    [] OTHER                    -> TRUE
    IN  IF name \notin PassNames THEN [ok |-> FALSE, opts |-> [none |-> TRUE]]
        ELSE [ok |-> parsed.ok /\ parsed.want = <<>> /\ valid, opts |-> parsed.opts]
=============================================================================
