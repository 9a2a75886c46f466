------------------------------ MODULE UseDefGraph ------------------------------
(***************************************************************************)
(* What the graph API promises its callers (docs/grh/grh-api.md, sections  *)
(* 3.4 to 3.7): a netlist of values and operations with no bookkeeping at  *)
(* all.  Each call edits one place of it, a value has at most one          *)
(* definition, and nothing is erased that the rest of the netlist still    *)
(* refers to: the guards look at the whole netlist, where GraphBuilder     *)
(* looks at its use lists, defining operations and port flags.             *)
(***************************************************************************)
EXTENDS Naturals, Sequences

CONSTANTS ValueIds, OpIds,
          Trusted            \* may a client erase an operation whose results are in use?

VARIABLES values, ops,       \* those that exist
          ins, outs,         \* of each existing operation: sequences of values
          bound              \* values that ports bind

netlist == <<values, ops, ins, outs, bound>>

Mentions(s, v) == \E k \in DOMAIN s : s[k] = v
Defined(v) == \E o \in ops : Mentions(outs[o], v)

\* t is s with one element put in, taken out or exchanged.
Drop(s, k) == [i \in 1 .. Len(s) - 1 |-> IF i < k THEN s[i] ELSE s[i + 1]]
OneEdit(s, t) ==
  \/ \E k \in DOMAIN t : Len(t) = Len(s) + 1 /\ s = Drop(t, k)
  \/ \E k \in DOMAIN s : Len(s) = Len(t) + 1 /\ t = Drop(s, k)
  \/ Len(s) = Len(t) /\ \E k \in DOMAIN s : \A i \in DOMAIN s \ {k} : s[i] = t[i]

Replaced(s, v, w) == [k \in DOMAIN s |-> IF s[k] = v THEN w ELSE s[k]]
Without(f, o) == [p \in DOMAIN f \ {o} |-> f[p]]
Plus(f, o) == [p \in DOMAIN f \union {o} |-> IF p = o THEN <<>> ELSE f[p]]

NetInit == values = {} /\ ops = {} /\ ins = <<>> /\ outs = <<>> /\ bound = {}

NewValue(v) == /\ v \notin values /\ values' = values \union {v}
               /\ UNCHANGED <<ops, ins, outs, bound>>

NewOp(o) == /\ o \notin ops /\ ops' = ops \union {o}
            /\ ins' = Plus(ins, o) /\ outs' = Plus(outs, o)
            /\ UNCHANGED <<values, bound>>

EditIns(o) == /\ UNCHANGED <<values, ops, outs, bound>>
              /\ DOMAIN ins' = ops /\ Without(ins', o) = Without(ins, o)
              /\ o \in ops /\ ins'[o] \in Seq(values) /\ OneEdit(ins[o], ins'[o])

\* A new result has no other definition; an old one goes only if the operations
\* that use it keep a definition they may use: results are removed when unused and
\* unbound, and exchanged freely.
EditOuts(o) ==
  /\ UNCHANGED <<values, ops, ins, bound>>
  /\ DOMAIN outs' = ops /\ Without(outs', o) = Without(outs, o)
  /\ o \in ops /\ outs'[o] \in Seq(values) /\ OneEdit(outs[o], outs'[o])
  /\ \A v \in values : Mentions(outs'[o], v) /\ ~ Mentions(outs[o], v) => ~ Defined(v)
  /\ \A i, k \in DOMAIN outs'[o] : outs'[o][i] = outs'[o][k] => i = k
  /\ Len(outs'[o]) < Len(outs[o]) =>
       \A v \in values : Mentions(outs[o], v) /\ ~ Mentions(outs'[o], v) =>
         v \notin bound /\ \A p \in ops : ~ Mentions(ins[p], v)

Substitute(v, w) == /\ {v, w} \subseteq values
                    /\ ins' = [o \in ops |-> Replaced(ins[o], v, w)]
                    /\ UNCHANGED <<values, ops, outs, bound>>

DropOp(o) == /\ o \in ops
             /\ Trusted \/ \A p \in ops \ {o}, v \in values :
                              ~ (Mentions(outs[o], v) /\ Mentions(ins[p], v))
             /\ ops' = ops \ {o} /\ ins' = Without(ins, o) /\ outs' = Without(outs, o)
             /\ UNCHANGED <<values, bound>>

DropOpReplacing(o, w) ==
  /\ o \in ops /\ w \in values /\ Len(outs[o]) = 1
  /\ ops' = ops \ {o} /\ outs' = Without(outs, o)
  /\ ins' = [p \in ops \ {o} |-> Replaced(ins[p], outs[o][1], w)]
  /\ UNCHANGED <<values, bound>>

DropValue(v) == /\ v \in values \ bound /\ ~ Defined(v)
                /\ \A o \in ops : ~ Mentions(ins[o], v)
                /\ values' = values \ {v}
                /\ UNCHANGED <<ops, ins, outs, bound>>

Rebind == /\ bound' \in SUBSET values
          /\ UNCHANGED <<values, ops, ins, outs>>

\* Freezing numbers the values and the operations anew, in the same order.
Increasing(f) == \A i, k \in DOMAIN f : i < k => f[i] < f[k]
Renumber ==
  \E f \in [values -> ValueIds], g \in [ops -> OpIds] :
    /\ Increasing(f) /\ Increasing(g)
    /\ values' = {f[v] : v \in values} /\ bound' = {f[v] : v \in bound}
    /\ ops' = {g[o] : o \in ops}
    /\ DOMAIN ins' = ops' /\ DOMAIN outs' = ops'
    /\ \A o \in ops : /\ ins'[g[o]] = [k \in DOMAIN ins[o] |-> f[ins[o][k]]]
                       /\ outs'[g[o]] = [k \in DOMAIN outs[o] |-> f[outs[o][k]]]

NetNext == \/ \E v \in ValueIds : NewValue(v) \/ DropValue(v)
           \/ \E o \in OpIds : NewOp(o) \/ EditIns(o) \/ EditOuts(o) \/ DropOp(o)
           \/ \E o \in OpIds, w \in ValueIds : DropOpReplacing(o, w)
           \/ \E v, w \in ValueIds : Substitute(v, w)
           \/ Rebind \/ Renumber

NetSpec == NetInit /\ [][NetNext]_netlist
=============================================================================
