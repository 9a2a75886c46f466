---------------------------- MODULE DeadCodeElim ----------------------------
(***************************************************************************)
(* The dead-code-elim pass on one graph.  It copies use counts,            *)
(* definitions, port and declaration marks once, and from then on decides  *)
(* every erasure by its copies, erasing through the unchecked calls.       *)
(***************************************************************************)
EXTENDS Netlist

KeptKinds ==
    {"kMemory", "kMemoryWritePort", "kRegisterWritePort", "kLatchWritePort", "kInstance",
     "kBlackbox", "kSystemFunction", "kSystemTask", "kDpicImport", "kDpicCall"}

\* Mutant: the ends of inout ports are not marked.
SnapshotWithoutInouts(g, keep) ==
    [uses |-> [v \in DOMAIN g.vals |-> UseCount(g, v)],
     def  |-> [v \in DOMAIN g.vals |-> Def(g, v)],
     live |-> {v \in DOMAIN g.vals : IsInput(g, v) \/ IsOutput(g, v) \/ (keep /\ Declared(g, v))}]
\* The pass's copies: uses and def are updated by the pass, live is not.
Snapshot(g, keep) ==
    [uses |-> [v \in DOMAIN g.vals |-> UseCount(g, v)],
     def  |-> [v \in DOMAIN g.vals |-> Def(g, v)],
     live |-> {v \in DOMAIN g.vals : IsPort(g, v) \/ (keep /\ Declared(g, v))}]

DeadByCopy(g, c, o) ==
    LET op == g.ops[o]
    IN  /\ op.kind \notin KeptKinds /\ op.out # <<>>
        /\ \A i \in DOMAIN op.out : op.out[i] \notin c.live /\ c.uses[op.out[i]] = 0

\* Erase the operation at the head; an operand whose count drops to zero
\* brings its definition onto the worklist.
EraseDead(s) ==
    LET o   == Head(s.work)
        op  == s.g.ops[o]
        Drop(acc, v) ==
            LET n == acc.c.uses[v] - 1
                d == [acc EXCEPT !.c.uses[v] = n]
            IN  IF n = 0 /\ acc.c.def[v] # 0
                THEN [d EXCEPT !.work = Append(@, acc.c.def[v])] ELSE d
        c1  == [s.c EXCEPT !.def = [v \in DOMAIN @ |->
                   IF Contains(op.out, v) /\ @[v] = o THEN 0 ELSE @[v]]]
    IN  IF o \notin DOMAIN s.g.ops \/ ~DeadByCopy(s.g, s.c, o)
        THEN [s EXCEPT !.work = Tail(@)]
        ELSE FoldLeft(Drop, [g |-> EraseOpUnchecked(s.g, o), c |-> c1, work |-> Tail(s.work)],
                      op.in)

\* Each operand is dropped once, so the worklist is drained within as many
\* rounds as there are operations and operands.
DeadOps(g, keep) ==
    LET c      == Snapshot(g, keep)
        rounds == FoldLeft(LAMBDA n, o : n + 1 + Len(g.ops[o].in), 0, OpIds(g))
        start  == [g |-> g, c |-> c, work |-> SelectSeq(OpIds(g), LAMBDA o : DeadByCopy(g, c, o))]
    IN  FoldLeft(LAMBDA s, i : IF s.work = <<>> THEN s ELSE EraseDead(s), start,
                 [i \in 1..rounds |-> i])

\* Then the values that have no port, declaration, reader or definition.
DeadCodeElim(g, keep) ==
    LET s == DeadOps(g, keep)
    IN  FoldLeft(LAMBDA h, v : IF v \notin s.c.live /\ s.c.uses[v] = 0 /\ s.c.def[v] = 0
                               THEN EraseValueUnchecked(h, v) ELSE h,
                 s.g, ValIds(s.g))
=============================================================================
