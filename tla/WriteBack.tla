----------------------------- MODULE WriteBack -----------------------------
(***************************************************************************)
(* The write-back pass: when a module is lowered, the writes of a target   *)
(* by one domain and event are folded into one entry, which says when the  *)
(* target changes and what it changes to; the graph assembler makes of an  *)
(* entry an assignment, a latch or a register write port.                  *)
(***************************************************************************)
EXTENDS StatementLowering

VARIABLES
    groups,     \* the writes of each target, domain and event, in program order
    entries,    \* what is written back
    turn        \* the next group to fold; 0 while the module is being lowered

backVars == <<groups, entries, turn>>
wbVars   == <<lowerVars, backVars>>

-----------------------------------------------------------------------------
(* resolveSliceSelection, for one bit or an indexed part of a vector.      *)

IsSlice(wr)   == wr.sel # <<>>
IsStatic(wr)  == wr.sel[1].const.ok
SliceBits(wr) == LowOf(wr.sel[1]) .. LowOf(wr.sel[1]) + wr.sel[1].w - 1
InRange(wr)   == IsStatic(wr) => SliceBits(wr) \subseteq 0..Widths[wr.target] - 1
StaticSlice(wr) == IsSlice(wr) /\ IsStatic(wr) /\ InRange(wr)

\* The slice every write has, if they all have the same static one.
SameSlice(ws) ==
    /\ \A wr \in Range(ws) : StaticSlice(wr)
    /\ \A wr \in Range(ws) : SliceBits(wr) = SliceBits(ws[1])
FullSlice(ws) == SameSlice(ws) /\ ws[1].sel[1].w = Widths[ws[1].target]

HasUnconditional(ws) ==
    \/ \E wr \in Range(ws) : wr.always \/ (wr.covers /\ ~IsSlice(wr))
    \/ FullSlice(ws) /\ \A wr \in Range(ws) : wr.covers

\* slicesCoverFullWidth.
CoverAll(ws) ==
    /\ \A wr \in Range(ws) : IsSlice(wr) => StaticSlice(wr)
    /\ \/ \E wr \in Range(ws) : ~IsSlice(wr)
       \/ UNION {SliceBits(wr) : wr \in Range(ws)} = 0 .. Widths[ws[1].target] - 1

\* Whether what the slices leave out is taken to be zero.
ZeroBase(ws, domain) ==
    \/ FullSlice(ws)
    \/ /\ CoverAll(ws)
       /\ domain = "Combinational" \/ \A wr \in Range(ws) : IsSlice(wr) => wr.always

\* Slices that tile the target, each written once and always.
Tiles(ws) ==
    /\ \A wr \in Range(ws) : StaticSlice(wr) /\ wr.always
    /\ CoverAll(ws)
    /\ FoldLeft(LAMBDA n, wr : n + wr.sel[1].w, 0, ws) = Widths[ws[1].target]

-----------------------------------------------------------------------------
(* The value written.                                                      *)

\* spliceDynamic: the bits under the mask are cleared and replaced.
SpliceDynamic(base, index, n, value, w, id) ==
    LET one     == ConstNode(FromNat(1, IntWidth), w, id)
        ones    == Node("kSub", <<Node("kShl", <<one, Number(n, id)>>, 0, id), one>>, 0, id)
        mask    == Node("kShl", <<ones, index>>, 0, id)
        cleared == Node("kAnd", <<base, Node("kNot", <<mask>>, 0, id)>>, 0, id)
        zeros   == ConstNode([i \in 1..(w - n) |-> 0], w - n, id)
        padded  == IF w > n THEN Node("kConcat", <<zeros, value>>, w, id) ELSE value
    IN  Node("kOr", <<cleared, Node("kShl", <<padded, index>>, w, id)>>, 0, id)

Applied(wr, base, id) ==
    LET part == wr.sel[1]
        w    == Widths[wr.target]
    IN  IF ~IsSlice(wr) THEN wr.value
        ELSE IF IsStatic(wr) THEN SpliceStatic(base, LowOf(wr.sel[1]), part.w, wr.value, w, id)
        ELSE SpliceDynamic(base, part.index, part.w, wr.value, w, id)

\* replaceSymbolWithValue.
RECURSIVE Replaced(_, _, _)
Replaced(t, s, by) ==
    IF t = by THEN t
    ELSE IF t.op = "symbol" /\ t.sym = s THEN by
    ELSE [t EXCEPT !.in = [i \in DOMAIN @ |-> Replaced(@[i], s, by)]]

\* One write more: a later one goes before the earlier ones, and a blocking
\* one outside clocked blocks sees what they wrote.
Seen(wr, value, before) ==
    IF wr.nb \/ wr.domain = "Sequential" \/ before = NoNode THEN value
    ELSE Replaced(value, wr.target, before)
Chosen1(wr, value, before, id) ==
    IF wr.always \/ before = NoNode THEN value ELSE Mux(wr.guard, value, before, id)
FoldWrite(acc, wr, id) ==
    IF IsSlice(wr) /\ ~InRange(wr) THEN acc
    ELSE [cond |-> LogicOr(acc.cond, GuardOrOne(wr.guard, <<<<0>>, 0>>), id),
          next |-> Chosen1(wr, Seen(wr, Applied(wr, acc.next, id), acc.next), acc.next, id)]

Id3(k) == <<<<0, turn, k>>, 0>>
Folded(ws, domain) ==
    LET s    == ws[1].target
        base == IF \A wr \in Range(ws) : ~IsSlice(wr) THEN NoNode
                ELSE IF ZeroBase(ws, domain) THEN ConstNode(<<0>>, Widths[s], Id3(0))
                ELSE SymbolNode(s, 0, Id3(0))
    IN  FoldLeft(LAMBDA acc, k : FoldWrite(acc, ws[k], Id3(k)),
                 [cond |-> NoNode, next |-> base], [k \in DOMAIN ws |-> k])

Concatenated(ws) ==
    LET down == SetToSortSeq(Range(ws), LAMBDA x, y : LowOf(x.sel[1]) > LowOf(y.sel[1]))
    IN  [cond |-> One(<<<<0>>, 0>>),
         next |-> Node("kConcat", [i \in DOMAIN down |-> down[i].value],
                       Widths[ws[1].target], Id3(0))]

\* A combinational target that is not written for sure keeps its value.
Finalize(domain, ws, v) ==
    IF /\ domain = "Combinational" /\ ~HasUnconditional(ws)
       /\ ~IsAlwaysTrue(v.cond) \/ UsesSymbol(v.next, ws[1].target)
    THEN "Latch" ELSE domain

EntryFor(ws, first, v) ==
    IF NoNode \in {v.cond, v.next} THEN <<>>
    ELSE <<[target |-> first.target, domain |-> Finalize(first.domain, ws, v),
            event |-> first.event, cond |-> v.cond, next |-> v.next,
            mask |-> IF SameSlice(ws) THEN SliceBits(first) ELSE 0..Widths[first.target] - 1]>>
EntryOf(ws) ==
    EntryFor(ws, ws[1], IF Tiles(ws) THEN Concatenated(ws) ELSE Folded(ws, ws[1].domain))

-----------------------------------------------------------------------------

WBInit == LowerInit /\ groups = <<>> /\ entries = <<>> /\ turn = 0

SameGroup(x, y) == x.target = y.target /\ x.domain = y.domain /\ x.event = y.event
Grouped(gs, wr) ==
    IF \E i \in DOMAIN gs : SameGroup(gs[i][1], wr)
    THEN [i \in DOMAIN gs |-> IF SameGroup(gs[i][1], wr) THEN Append(gs[i], wr) ELSE gs[i]]
    ELSE Append(gs, <<wr>>)

GroupWrites ==
    /\ Lowered /\ turn = 0
    /\ groups' = FoldLeft(Grouped, <<>>, writes)
    /\ turn' = 1
    /\ UNCHANGED <<lowerVars, entries>>

WriteGroup ==
    /\ turn \in DOMAIN groups
    /\ entries' = entries \o EntryOf(groups[turn])
    /\ turn' = turn + 1
    /\ UNCHANGED <<lowerVars, groups>>

WBNext == \/ LowerNext /\ UNCHANGED backVars
          \/ GroupWrites
          \/ WriteGroup

WBSpec == WBInit /\ [][WBNext]_wbVars

WrittenBack == turn > Len(groups) /\ turn # 0

-----------------------------------------------------------------------------
(* emitWriteBack, and what the emitted entries do: assignments and open    *)
(* latches settle, then every register port writes its bits.               *)

BitsUnder(mask, v, old) ==
    [i \in DOMAIN old |-> IF i - 1 \in mask /\ i <= Len(v) THEN v[i] ELSE old[i]]
Enabled(e, env) == Truth(Meaning(e.cond, env)) = 1
Stored(e, v, on, old) ==
    IF e.domain = "Combinational" THEN v ELSE IF on THEN BitsUnder(e.mask, v, old) ELSE old
Emitted(e, acc, env) ==
    [acc EXCEPT ![e.target] =
        Stored(e, Resize(Meaning(e.next, env), Widths[e.target], FALSE), Enabled(e, env), @)]

Levelled(env) ==
    FoldLeft(LAMBDA acc, e : IF e.domain = "Sequential" THEN acc ELSE Emitted(e, acc, acc), env, entries)
Rest(env) == Settled(Levelled, env, Len(entries) + 1)
Clocked(still) ==
    FoldLeft(LAMBDA acc, e : IF e.domain = "Sequential" THEN Emitted(e, acc, still) ELSE acc,
             still, entries)

-----------------------------------------------------------------------------
(* Properties.                                                             *)

Targets == UNION {WrittenBy(b.body) : b \in Range(program)}
Inputs  == ((UNION {ReadBy(b.body) : b \in Range(program)}) \cap DOMAIN Widths) \ Targets

\* Every value of the inputs, and targets that hold zeros or ones.
Vectors(S) == {f \in [S -> UNION {[1..Widths[s] -> {0, 1}] : s \in S}] :
                    \A s \in S : Len(f[s]) = Widths[s]}
Stimuli == {f @@ [s \in Targets |-> [i \in 1..Widths[s] |-> bit]] : f \in Vectors(Inputs), bit \in {0, 1}}

Settles(still)     == Levelled(still) = still
SameOn(S, x, y)    == \A s \in S : x[s] = y[s]
\* still is what the emitted entries settle to, meant what the source gives.
Agrees(still, meant) == Settles(still) /\ SameOn(Targets, Clocked(still), meant)

\* A module that was lowered and written back without an error settles for
\* every input, and every target then holds what its procedural blocks give
\* it when they are run statement by statement.
MeaningKept ==
    WrittenBack /\ ~failed =>
        \A env \in Stimuli : Agrees(Rest(env), Shows(program, env))

\* A combinational block that assigns a target on every path becomes
\* combinational logic and never a latch, for the blocks of the families checked:
\* other conditions that cover every case may go unrecognised.
StaysCombinational ==
    WrittenBack /\ ~failed =>
        \A b \in Range(program) : \A e \in Range(entries) :
            (Domain(b.proc) = "Combinational" /\ AssignsSurely(b.body, e.target)
                /\ ~PartlyBy(b.body, e.target))
            => e.domain = "Combinational"
=============================================================================
