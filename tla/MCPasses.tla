------------------------------- MODULE MCPasses ------------------------------
(***************************************************************************)
(* Small designs and the pipelines run on them.  A netlist is written as   *)
(* its inputs, its operations in order and its outputs: value i is input i *)
(* or, after the inputs, the i-th result; operation k is the k-th listed.  *)
(***************************************************************************)
EXTENDS PassPipeline

In(name, w)  == [name |-> name, w |-> w]
\* An operation: its kind, operands, the width of its result (0: none), its
\* attributes and the name of the result, or of the operation without one.
Op(kind, in, w, a, sym) == [kind |-> kind, in |-> in, w |-> w, a |-> a, sym |-> sym]
Const(bits) == Op("kConstant", <<>>, Len(bits), [lit |-> bits], Tmp)
Calc(kind, in, w) == Op(kind, in, w, NoAttr, Tmp)

Internal(s) == s \in {Tmp, ""}
AddInput(g, p) ==
    [CreateValue(g, p.w, FALSE, p.name)
        EXCEPT !.inp = Append(@, [name |-> p.name, val |-> g.nval]), !.decl = @ \cup {p.name}]
AddOp(g, op) ==
    LET h == IF op.w = 0 THEN NamedOp(g, op.kind, op.in, <<>>, op.a, op.sym)
             ELSE CreateOp(CreateValue(g, op.w, FALSE, op.sym), op.kind, op.in, <<g.nval>>, op.a)
    IN  IF Internal(op.sym) THEN h ELSE [h EXCEPT !.decl = @ \cup {op.sym}]
AddOutput(g, p) == [g EXCEPT !.outp = Append(@, p)]

Net(ins, ops, outs) ==
    FoldLeft(AddOutput, FoldLeft(AddOp, FoldLeft(AddInput, Guards!EmptyGraph, ins), ops), outs)
Out(name, v) == [name |-> name, val |-> v]

-----------------------------------------------------------------------------
\* Every assignment of one-bit inputs, up and down again: each input changes
\* while every other one is high and low.  clk is the clock, always at its
\* edge.
Up(names) ==
    [k \in 1..2^Len(names) |->
        [n \in Range(names) |-> <<((k - 1) \div 2^(SelectInSeq(names, LAMBDA m : m = n) - 1)) % 2>>]
          @@ ("clk" :> <<1>>)]
Stimulus(names) == Up(names) \o Reverse(Up(names))

Pass(name) == [name |-> name, args |-> <<>>]
PassWith(name, args) == [name |-> name, args |-> args]
Scenario(d, inputs, specs) ==
    [design |-> d, top |-> "top", tops |-> <<"top">>, stimulus |-> Stimulus(inputs),
     specs |-> specs]
Alone(g) == "top" :> g

-----------------------------------------------------------------------------
(* Gates: a, b, constants 0 and 1 (values 3, 4), two gates (5, 6); the     *)
(* first result is named or not, the second is the output.                 *)

Gates(kinds, vs) == {Calc(k, <<a, b>>, 1) : k \in kinds, a \in vs, b \in vs}
Inverters(vs) == {Calc(k, <<a>>, 1) : k \in {"kNot", "kLogicNot", "kAssign"}, a \in vs}
TwoGates(first, second, names) ==
    {Net(<<In("a", 1), In("b", 1)>>,
         <<Const(<<0>>), Const(<<1>>), [g1 EXCEPT !.sym = n], [g2 EXCEPT !.sym = "y"]>>,
         <<Out("y", 6)>>) : g1 \in first, g2 \in second, n \in names}

-----------------------------------------------------------------------------
(* A memory of one-bit rows.  Inputs en, a, b, clk (values 1..4), the mask *)
(* (5); the address is an input, or a register loaded with it.             *)

Row(rows, more) == [width |-> 1, row |-> rows, sgn |-> FALSE] @@ more
Entries(starts, values) ==
    [kinds |-> [i \in DOMAIN starts |-> "literal"], files |-> [i \in DOMAIN starts |-> ""],
     starts |-> starts, lens |-> [i \in DOMAIN starts |-> 1], values |-> values]
Inits == {<< >>, Entries(<<-1>>, << <<1>> >>), Entries(<<0, 1>>, << <<1>>, <<0>> >>),
          Entries(<<-1, 0>>, << <<0>>, <<1>> >>)}
WritePort == Op("kMemoryWritePort", <<1, 2, 3, 5, 4>>, 0, [target |-> "m", edges |-> <<"pos">>], Tmp)
MemoryNet(rows, init, writes) ==
    Net(<<In("en", 1), In("a", 1), In("b", 1), In("clk", 1)>>,
        <<Const(<<1>>), Op("kMemory", <<>>, 0, Row(rows, init), "m")>> \o writes \o
        <<Op("kMemoryReadPort", <<2>>, 1, [target |-> "m"], Tmp), [Calc("kNot", <<6>>, 1) EXCEPT !.sym = "y"]>>,
        <<Out("y", 7)>>)
\* The address register is loaded from a when the input en is high, or from
\* b: then a write may hit the address it holds.
RetimeNet(rows, init, addr, regInit, writes) ==
    Net(<<In("en", 1), In("a", 1), In("b", 1), In("clk", 1)>>,
        <<Const(<<1>>), Op("kMemory", <<>>, 0, Row(rows, init), "m"),
          Op("kRegister", <<>>, 0, [width |-> 1, sgn |-> FALSE] @@ regInit, Tmp \o "addr"),
          Op("kRegisterReadPort", <<>>, 1, [target |-> Tmp \o "addr"], Tmp),
          Op("kRegisterWritePort", <<addr[1], addr[2], 5, 4>>, 0,
             [target |-> Tmp \o "addr", edges |-> <<"pos">>], Tmp)>> \o writes \o
        <<Op("kMemoryReadPort", <<6>>, 1, [target |-> "m"], Tmp),
          [Calc("kNot", <<7>>, 1) EXCEPT !.sym = "y"]>>,
        <<Out("y", 8)>>)

\* Two reads of the memory, each behind an address register of its own (6
\* and 7), loaded from the given values; 8 and 9 are what they read.
AddressRegister(s, init) == Op("kRegister", <<>>, 0, [width |-> 1, sgn |-> FALSE, init |-> init], Tmp \o s)
AddressReader(s) == Op("kRegisterReadPort", <<>>, 1, [target |-> Tmp \o s], Tmp)
AddressLoad(s, en, from) ==
    Op("kRegisterWritePort", <<en, from, 5, 4>>, 0, [target |-> Tmp \o s, edges |-> <<"pos">>], Tmp)
MemoryRead(addr) == Op("kMemoryReadPort", <<addr>>, 1, [target |-> "m"], Tmp)
TwoReadsNet(loads, writes) ==
    Net(<<In("en", 1), In("a", 1), In("b", 1), In("clk", 1)>>,
        <<Const(<<1>>), Op("kMemory", <<>>, 0, Row(2, Entries(<<0, 1>>, << <<1>>, <<0>> >>)), "m"),
          AddressRegister("p", <<0>>), AddressRegister("q", <<1>>), AddressReader("p"), AddressReader("q"),
          AddressLoad("p", 1, loads[1]), AddressLoad("q", 3, loads[2])>> \o writes \o
        <<MemoryRead(6), MemoryRead(7), [Calc("kNot", <<8>>, 1) EXCEPT !.sym = "y"],
          [Calc("kXor", <<8, 9>>, 1) EXCEPT !.sym = "z"]>>,
        <<Out("y", 10), Out("z", 11)>>)
WriteOf(data) == Op("kMemoryWritePort", <<3, 2, data, 5, 4>>, 0, [target |-> "m", edges |-> <<"pos">>], Tmp)
\* The registers are loaded from inputs, the first from what either read
\* gives, or both from the second; a write stores what the second reads.
ReadPairs ==
    {TwoReadsNet(loads, writes) : loads \in {<<2, 3>>, <<8, 3>>, <<9, 3>>, <<9, 9>>},
                                  writes \in {<<>>, <<WriteOf(1)>>}}
      \cup {TwoReadsNet(<<2, 2>>, <<WriteOf(9)>>)}
\* The second register is loaded, or the memory written, from the first read,
\* which is rewritten before the second is: the second keeps a value that
\* nothing drives any more.  No scenario has them (README, section 4).
BrokenReadPairs ==
    {TwoReadsNet(<<2, 8>>, writes) : writes \in {<<>>, <<WriteOf(1)>>}}
      \cup {TwoReadsNet(<<2, 3>>, <<WriteOf(8)>>)}

\* A memory of two-bit rows (7 is a concat of a and b); ports write all of a
\* row or one bit of it; the address is an input or a register (9).
WideWrite(en, mask) == Op("kMemoryWritePort", <<en, 2, 7, mask, 4>>, 0, [target |-> "m", edges |-> <<"pos">>], Tmp)
WideNet(addr, writes) ==
    Net(<<In("en", 1), In("a", 1), In("b", 1), In("clk", 1)>>,
        <<Const(<<1, 1>>), Const(<<1, 0>>), Calc("kConcat", <<2, 3>>, 2),
          Op("kMemory", <<>>, 0, [Row(2, Entries(<<-1>>, << <<1, 0>> >>)) EXCEPT !.width = 2], "m"),
          Const(<<1>>), AddressRegister("p", <<0>>), AddressReader("p"),
          Op("kRegisterWritePort", <<1, 3, 8, 4>>, 0, [target |-> Tmp \o "p", edges |-> <<"pos">>], Tmp)>>
        \o writes \o
        <<Op("kMemoryReadPort", <<addr>>, 2, [target |-> "m"], Tmp), [Calc("kNot", <<10>>, 2) EXCEPT !.sym = "y"]>>,
        <<Out("y", 11)>>)
WideNets ==
    {WideNet(addr, writes) : addr \in {2, 9},
        writes \in {<<WideWrite(1, 5)>>, <<WideWrite(1, 6)>>, <<WideWrite(1, 5), WideWrite(3, 6)>>,
                    <<WideWrite(3, 6), WideWrite(1, 5)>>}}

-----------------------------------------------------------------------------
(* A latch written when en is high, under a mask that is 1 or an input.    *)

LatchNet(mask) ==
    Net(<<In("en", 1), In("a", 1), In("b", 1)>>,
        <<Const(<<1>>), Op("kLatch", <<>>, 0, [width |-> 1, sgn |-> FALSE, init |-> <<0>>], "l"),
          Op("kLatchWritePort", <<1, 2, mask>>, 0, [target |-> "l", edges |-> <<>>], Tmp),
          Op("kLatchReadPort", <<>>, 1, [target |-> "l"], Tmp),
          [Calc("kNot", <<5>>, 1) EXCEPT !.sym = "y"]>>,
        <<Out("y", 6)>>)

(* Slices of the two-bit or three-bit concat of a and b (values 1, 2).     *)
StaticSlice(from, lo, hi) == Op("kSliceStatic", <<from>>, hi - lo + 1, [lo |-> lo, hi |-> hi], "y")
DynamicSlice(from, at) == Op("kSliceDynamic", <<from, at>>, 1, [width |-> 1], "y")
SliceNets ==
    {Net(<<In("a", 1), In("b", 1)>>, <<Calc("kConcat", <<1, 2, 1>>, 3), StaticSlice(3, r[1], r[2])>>,
         <<Out("y", 4)>>) : r \in {<<0, 0>>, <<1, 1>>, <<2, 2>>, <<0, 1>>}}
    \cup
    {Net(<<In("a", 1), In("b", 1)>>,
         <<Calc("kConcat", <<1, 2>>, 2), Const(c), Const(e), Calc(k, <<4, 5>>, 2), DynamicSlice(3, at)>>,
         <<Out("y", 7)>>) :
        c \in {<<0, 0>>, <<1, 0>>}, e \in {<<1, 0>>, <<0, 0>>},
        k \in {"kAdd", "kShl", "kSub"}, at \in {1, 4, 6}}

(* Constants with unknown bits, and comparisons with zero.                 *)
UnknownNets ==
    {Net(<<In("a", 1), In("b", 1)>>,
         <<Const(<<2>>), Const(<<c>>), Calc(k, <<3, x>>, 1), [Calc(l, <<5, y>>, 1) EXCEPT !.sym = "y"]>>,
         <<Out("y", 6)>>) :
        c \in {0, 1}, k \in {"kAnd", "kOr", "kEq", "kCaseEq"}, x \in {1, 3, 4},
        l \in {"kOr", "kCaseEq"}, y \in {1, 4}}
CompareNets ==
    {Net(<<In("a", 1), In("b", 1)>>,
         <<Const(<<0>>), Calc(k, p, 1), [Calc(l, <<4, q>>, 1) EXCEPT !.sym = "y"]>>,
         <<Out("y", 5)>>) :
        k \in {"kGe", "kLe", "kGt", "kLt"}, p \in {<<1, 3>>, <<3, 1>>},
        l \in {"kXor", "kGe", "kLt"}, q \in {2, 3}}

\* Constant operations in an order against their data flow.
ReversedNets ==
    {Net(<<In("a", 1), In("b", 1)>>,
         <<Const(<<0>>), [Calc(k, <<3, 5>>, 1) EXCEPT !.sym = "y"], Calc(l, <<3, 3>>, 1)>>,
         <<Out("y", 4)>>) : k \in {"kAdd", "kEq"}, l \in {"kOr", "kAdd"}}

-----------------------------------------------------------------------------
(* Hierarchy.  A leaf holds a register loaded from its input p, and shows  *)
(* its inverse as o and, through a second port of the same value, as o2.   *)
(* A middle graph holds two leaves in a row.                               *)

Inst(module, name, ins, outs) ==
    [module |-> module, inst |-> name, ins |-> ins, outs |-> outs, ios |-> <<>>]
\* Several results: the first is given by Op, the rest are added.
MultiOut(g, op, ws) ==
    FoldLeft(LAMBDA h, w : [CreateValue(h, w, FALSE, Tmp) EXCEPT !.ops[g.nop].out = Append(@, h.nval)],
             AddOp(g, op), ws)
Leaf ==
    Net(<<In("p", 1), In("clk", 1)>>,
        <<Const(<<1>>), Op("kRegister", <<>>, 0, [width |-> 1, sgn |-> FALSE, init |-> <<0>>], "r"),
          Op("kRegisterWritePort", <<3, 1, 3, 2>>, 0, [target |-> "r", edges |-> <<"pos">>], Tmp),
          Op("kRegisterReadPort", <<>>, 1, [target |-> "r"], Tmp),
          [Calc("kNot", <<4>>, 1) EXCEPT !.sym = "n"]>>,
        <<Out("o", 5)>>)
LeafTwice == AddOutput(Leaf, Out("o2", 5))
Mid ==
    Net(<<In("p", 1), In("clk", 1)>>,
        <<Op("kInstance", <<1, 2>>, 1, Inst("leaf", "u", <<"p", "clk">>, <<"o">>), Tmp),
          Op("kInstance", <<3, 2>>, 1, Inst("leaf", "v", <<"p", "clk">>, <<"o">>), "q")>>,
        <<Out("o", 4)>>)
\* top: an instance of m and, if asked for, a second one of the same name.
Top(m, second) ==
    Net(<<In("a", 1), In("clk", 1)>>,
        <<Op("kInstance", <<1, 2>>, 1, Inst(m, "u", <<"p", "clk">>, <<"o">>), Tmp)>> \o second \o
        <<[Calc("kXor", <<1, 3>>, 1) EXCEPT !.sym = "y"]>>,
        <<Out("y", IF second = <<>> THEN 4 ELSE 5), Out("z", IF second = <<>> THEN 3 ELSE 4)>>)
Second(m) == <<Op("kInstance", <<3, 2>>, 1, Inst(m, "u", <<"p", "clk">>, <<"o">>), Tmp)>>
TopTwice ==
    MultiOut(Net(<<In("a", 1), In("clk", 1)>>, <<>>, <<Out("y", 3), Out("z", 4)>>),
             Op("kInstance", <<1, 2>>, 1, Inst("leaf", "u", <<"p", "clk">>, <<"o", "o2">>), "s"), <<1>>)
\* A top without instances.
Inverted == Net(<<In("a", 1)>>, <<[Calc("kNot", <<1>>, 1) EXCEPT !.sym = "y"]>>, <<Out("y", 2)>>)
HierDesign == ("top" :> Top("leaf", <<>>)) @@ ("leaf" :> Leaf)
HierDesigns ==
    {HierDesign,
     ("top" :> Top("leaf", Second("leaf"))) @@ ("leaf" :> Leaf),
     ("top" :> Top("mid", Second("leaf"))) @@ ("mid" :> Mid) @@ ("leaf" :> Leaf),
     ("top" :> Top("mid", <<>>)) @@ ("mid" :> Mid) @@ ("leaf" :> Leaf),
     ("top" :> TopTwice) @@ ("leaf" :> LeafTwice)}

(* Hierarchical names: the top reads a name below, or writes one.          *)
XmrRead(path) == Op("kXMRRead", <<>>, 1, [path |-> path, edges |-> <<>>], Tmp)
XmrNet(m, read, write) ==
    Net(<<In("a", 1), In("b", 1), In("clk", 1)>>,
        <<Op("kInstance", <<1, 3>>, 1, Inst(m, "u", <<"p", "clk">>, <<"o">>), Tmp), read>> \o write \o
        <<[Calc("kXor", <<4, 5>>, 1) EXCEPT !.sym = "y"]>>,
        <<Out("y", 6)>>)
XmrDesigns(write) ==
    {("top" :> XmrNet("leaf", XmrRead(<<"u", n>>), write)) @@ ("leaf" :> Leaf) : n \in {"r", "n", "p"}}
    \cup
    {("top" :> XmrNet("mid", XmrRead(<<"u", i, n>>), write)) @@ ("mid" :> Mid) @@ ("leaf" :> Leaf) :
        i \in {"u", "v"}, n \in {"r", "n"}}
WireWrite(path) == Op("kXMRWrite", <<2>>, 0, [path |-> path, edges |-> <<>>], Tmp)

(* A black box between a and the output, and an inout leaf.                *)
BoxDesign ==
    "top" :> Net(<<In("a", 1), In("b", 1)>>,
                 <<Op("kBlackbox", <<1>>, 1, Inst("ext", "x", <<"p">>, <<"o">>), Tmp),
                   [Calc("kAnd", <<2, 3>>, 1) EXCEPT !.sym = "y"]>>, <<Out("y", 4)>>)

-----------------------------------------------------------------------------
(* A calling design: a task and an imported function see a gate and a      *)
(* constant, the result of the function feeds a gate, and leaf is below.   *)

CallNet(shared) ==
    Net(<<In("a", 1), In("b", 1), In("clk", 1)>>,
        <<Const(<<1>>), [Calc("kXor", <<1, 2>>, 1) EXCEPT !.sym = "x"],
          Op("kSystemTask", <<4, 5>>, 0, [name |-> "display"], Tmp),
          Op("kDpicImport", <<>>, 0, NoAttr, "fn"),
          Op("kDpicCall", <<4, 5, 1>>, 1, [target |-> "fn"], "r"),
          Op("kInstance", <<6, 3>>, 1, Inst("leaf", "u", <<"p", "clk">>, <<"o">>), "o"),
          [Calc("kAnd", <<5, IF shared THEN 4 ELSE 2>>, 1) EXCEPT !.sym = "y"]>>,
        <<Out("y", 8), Out("z", 7)>>)
CallDesigns == {("top" :> CallNet(s)) @@ ("leaf" :> Leaf) : s \in BOOLEAN}

\* An inout port: the child drives it from p when en is high.
Tristate ==
    [Net(<<In("p", 1), In("en", 1)>>, <<Calc("kNot", <<1>>, 1), Calc("kAssign", <<2>>, 1)>>, <<>>)
        EXCEPT !.vals = @ @@ (5 :> [w |-> 1, sgn |-> FALSE, sym |-> "pad", typ |-> "Logic"]),
               !.nval = 6, !.io = <<[name |-> "pad", in |-> 5, out |-> 3, oe |-> 4]>>]
\* The pad of the parent carries that of an instance of Tristate.
PadTop ==
    [MultiOut([Net(<<In("a", 1), In("b", 1)>>, <<>>, <<>>)
                  EXCEPT !.vals = @ @@ (3 :> [w |-> 1, sgn |-> FALSE, sym |-> "pad", typ |-> "Logic"]),
                         !.nval = 4],
              Op("kInstance", <<1, 2, 3>>, 1,
                 [module |-> "tri", inst |-> "t", ins |-> <<"p", "en">>, outs |-> <<>>, ios |-> <<"pad">>],
                 "pad_out"), <<1>>)
        EXCEPT !.io = <<[name |-> "pad", in |-> 3, out |-> 4, oe |-> 5]>>]
PadDesign == ("top" :> PadTop) @@ ("tri" :> Tristate)

\* A constant replication, with its count and without.
ReplicateNet(attr) ==
    Net(<<In("a", 1), In("b", 1)>>,
        <<Const(<<1>>), Op("kReplicate", <<3>>, 2, attr, Tmp), Op("kSliceDynamic", <<4, 1>>, 1, [width |-> 1], "y")>>,
        <<Out("y", 5)>>)

-----------------------------------------------------------------------------
(* Graphs to cut.  Two registers, r of one bit and s of two, load each     *)
(* other: with their sinks in two parts both cross, and a gate both need   *)
(* (7) is copied.  c is a constant of both; u is a register nothing writes.*)

Reg(name, w) == Op("kRegister", <<>>, 0, [width |-> w, sgn |-> FALSE, init |-> [i \in 1..w |-> 0]], name)
ReadReg(name, w) == Op("kRegisterReadPort", <<>>, w, [target |-> name], Tmp)
LoadReg(name, in) == Op("kRegisterWritePort", in, 0, [target |-> name, edges |-> <<"pos">>], Tmp)
CrossNet ==
    Net(<<In("a", 1), In("b", 1), In("clk", 1)>>,
        <<Const(<<1>>), Const(<<1, 1>>), Reg("r", 1), Reg("s", 2), ReadReg("r", 1), ReadReg("s", 2),
          [Calc("kXor", <<1, 6>>, 1) EXCEPT !.sym = "x"],
          LoadReg("r", <<2, 8, 4, 3>>), Calc("kConcat", <<8, 6>>, 2), LoadReg("s", <<4, 9, 5, 3>>),
          [Calc("kNot", <<7>>, 2) EXCEPT !.sym = "y"]>>,
        <<Out("y", 10), Out("x", 8)>>)
\* Two registers of different widths are written in one asc (a memory joins
\* them) and read in others: their values cross as one bundle.
BundleNet ==
    Net(<<In("a", 1), In("b", 1), In("clk", 1)>>,
        <<Const(<<1>>), Const(<<1, 1>>), Reg("r", 1), Reg("s", 2), ReadReg("r", 1), ReadReg("s", 2),
          Op("kMemory", <<>>, 0, Row(2, Entries(<<0, 1>>, << <<1>>, <<0>> >>)), "m"),
          Op("kMemoryReadPort", <<1>>, 1, [target |-> "m"], Tmp),
          LoadReg("r", <<4, 8, 4, 3>>), Calc("kConcat", <<8, 2>>, 2), LoadReg("s", <<4, 9, 5, 3>>),
          Op("kMemoryWritePort", <<2, 1, 6, 4, 3>>, 0, [target |-> "m", edges |-> <<"pos">>], Tmp),
          [Calc("kConcat", <<6, 7>>, 3) EXCEPT !.sym = "y"], [Calc("kConcat", <<7, 6>>, 3) EXCEPT !.sym = "z"]>>,
        <<Out("y", 10), Out("z", 11)>>)
\* A call whose result two sinks use, a task, a latch and a register that
\* nothing writes; z is an input shown as an output.
CallCutNet ==
    Net(<<In("a", 1), In("b", 1)>>,
        <<Const(<<1>>), Op("kDpicImport", <<>>, 0, NoAttr, "fn"),
          Op("kDpicCall", <<1, 3, 2>>, 1, [target |-> "fn", ret |-> TRUE], Tmp),
          Op("kLatch", <<>>, 0, [width |-> 1, sgn |-> FALSE, init |-> <<0>>], "l"),
          Op("kLatchWritePort", <<2, 1, 3>>, 0, [target |-> "l", edges |-> <<>>], Tmp),
          Op("kLatchReadPort", <<>>, 1, [target |-> "l"], Tmp),
          Reg("u", 1), ReadReg("u", 1),
          [Calc("kAnd", <<5, 6>>, 1) EXCEPT !.sym = "y"],
          Calc("kOr", <<4, 5>>, 1), [Calc("kXor", <<6, 4>>, 1) EXCEPT !.sym = "w"]>>,
        <<Out("y", 7), Out("v", 8), Out("w", 9), Out("z", 1)>>)
TaskCutNet ==
    Net(<<In("a", 1), In("clk", 1)>>,
        <<Const(<<1>>), Reg("r", 1), ReadReg("r", 1), LoadReg("r", <<3, 1, 3, 2>>),
          Op("kSystemTask", <<4, 3>>, 0, [name |-> "display"], Tmp), [Calc("kNot", <<4>>, 1) EXCEPT !.sym = "y"]>>,
        <<Out("y", 5)>>)
CutNets == {CrossNet, BundleNet, CallCutNet, TaskCutNet}
\* Nothing to cut.
NoSinkNet == Net(<<In("a", 1), In("b", 1)>>, <<Calc("kAnd", <<1, 2>>, 1)>>, <<>>)

-----------------------------------------------------------------------------
(* Loops through v (3) = {z (5), a} whose bits do not depend on           *)
(* themselves: z is bit 0 of t (4), which is computed from v.             *)
LoopNet(t, z) ==
    Net(<<In("a", 1), In("b", 1)>>,
        <<Calc("kConcat", <<5, 1>>, 2), t, z, StaticSlice(4, 1, 1), [Calc("kNot", <<3>>, 2) EXCEPT !.sym = "w"],
          Const(<<1, 0>>), Calc("kConcat", <<1, 2>>, 2), Const(<<0>>)>>,
        <<Out("y", 6), Out("w", 7), Out("v", 3)>>)
LowBit == Op("kSliceStatic", <<4>>, 1, [lo |-> 0, hi |-> 0], Tmp)
LowBitAt == Op("kSliceDynamic", <<4, 10>>, 1, [width |-> 1], Tmp)
\* v (3) = {z (4), a}, z computed from bit 0 of v (5).
BitLoopNet(z) ==
    Net(<<In("a", 1), In("b", 1)>>,
        <<Calc("kConcat", <<4, 1>>, 2), z, Op("kSliceStatic", <<3>>, 1, [lo |-> 0, hi |-> 0], Tmp)>>,
        <<Out("v", 3)>>)
FalseLoopNets ==
    {LoopNet(t, z) :
        t \in {Calc("kAssign", <<3>>, 2), Calc("kNot", <<3>>, 2), Calc("kAnd", <<3, 9>>, 2), Calc("kXnor", <<9, 3>>, 2),
               Calc("kAdd", <<3, 8>>, 2), Calc("kMux", <<2, 3, 9>>, 2)},
        z \in {LowBit, LowBitAt}}
    \cup
    {BitLoopNet(z) : z \in {Calc("kLogicNot", <<5>>, 1), Calc("kReduceOr", <<5>>, 1), Calc("kGt", <<2, 5>>, 1),
                            Calc("kMux", <<5, 2, 5>>, 1), Calc("kAdd", <<5, 2>>, 1)}}
\* A ring of two gates, none of them cut.
RingNet ==
    Net(<<In("a", 1), In("b", 1)>>, <<Calc("kNot", <<4>>, 1), Calc("kNot", <<3>>, 1)>>, <<Out("y", 4)>>)
\* A loop that is one: z is the inverse of bit 1 of v, which is z.
TrueLoopNet ==
    Net(<<In("a", 1), In("b", 1)>>,
        <<Calc("kConcat", <<4, 1>>, 2), Calc("kNot", <<5>>, 1), StaticSlice(3, 1, 1)>>,
        <<Out("v", 3), Out("y", 5)>>)

-----------------------------------------------------------------------------
(* Which designs go through which pipelines. *)
Simplify == Pass("simplify")
MemToRegPass == PassWith("mem-to-reg", << <<"-row-limit", "4">> >>)
RetimePass == Pass("memory-read-retime")

GateScenarios ==
    {Scenario(Alone(g), <<"a", "b">>, <<Simplify>>) :
        g \in TwoGates(Gates({"kXor", "kLogicOr"}, {1, 2, 4}) \cup Inverters({1, 4}),
                         Gates({"kAnd", "kLogicOr", "kXor"}, {1, 5}) \cup Inverters({5}), {Tmp, "n"})}

MemoryScenarios ==
    {Scenario(Alone(g), <<"en", "a", "b">>, p) :
        g \in {MemoryNet(r, i, w) : r \in {1, 2}, i \in Inits, w \in {<<>>, <<WritePort>>}},
        p \in {<<MemToRegPass, Simplify>>, <<Simplify, MemToRegPass>>}}
RetimeScenarios ==
    {Scenario(Alone(RetimeNet(2, i, ad, ri, w)), <<"en", "a", "b">>, p) :
        i \in Inits, ad \in {<<1, 2>>, <<2, 3>>, <<5, 3>>},
        ri \in {<< >>, [init |-> <<1>>]}, w \in {<<>>, <<WritePort>>},
        p \in {<<RetimePass, MemToRegPass>>, <<Simplify, RetimePass>>}}
    \cup
    {Scenario(Alone(g), <<"en", "a", "b">>, <<RetimePass, Simplify>>) : g \in ReadPairs}
    \cup
    {Scenario(Alone(g), <<"en", "a", "b">>, <<RetimePass, MemToRegPass, Simplify>>) : g \in WideNets}

LatchScenarios ==
    {Scenario(Alone(LatchNet(m)), <<"en", "a", "b">>, p) : m \in {3, 4},
        p \in {<<Pass("latch-transparent-read"), Simplify>>, <<Simplify, Pass("latch-transparent-read")>>}}
SliceScenarios ==
    {Scenario(Alone(g), <<"a", "b">>, p) : g \in SliceNets,
        p \in {<<Pass("slice-index-const"), Simplify>>, <<Simplify>>}}
SimplifyWith(args) == PassWith("simplify", args)
UnknownScenarios ==
    {Scenario(Alone(g), <<"a", "b">>, <<SimplifyWith(args)>>) : g \in UnknownNets,
        args \in {<<>>, <<<<"-x-fold", "strict">>>>, << <<"-x-fold">>, <<"propagate">> >>}}
    \cup
    {Scenario(Alone(g), <<"a", "b">>, <<SimplifyWith(args)>>) : g \in CompareNets,
        args \in {<<>>, <<<<"-semantics", "2state">>, <<"-max-iter">>, <<"2">>>>}}
    \cup
    {Scenario(Alone(g), <<"a", "b">>, <<SimplifyWith(args)>>) : g \in ReversedNets,
        args \in {<<>>, << <<"-max-iter", "2">> >>}}

Flatten(args) == PassWith("hier-flatten", args)
HierScenarios ==
    {Scenario(("top" :> Inverted) @@ ("spare" :> Leaf), <<"a">>, <<Flatten(args)>>) :
        args \in {<<>>, << <<"-preserve-modules">> >>}}
    \cup
    {Scenario(d, <<"a">>, p) : d \in HierDesigns,
        p \in {<<Flatten(<<>>), Simplify>>, <<Simplify, Flatten(<<<<"-sym-protect", "none">>>>)>>,
               <<Flatten(<<<<"-sym-protect", "hierarchy">>, <<"-preserve-modules">>>>)>>,
               <<Flatten(<<<<"-sym-protect", "stateful">>>>), Simplify>>,
               <<PassWith("instance-inline", <<<<"-path", <<"top", "u">>>>>>), Flatten(<<>>)>>,
               <<PassWith("instance-inline", <<<<"-path", <<"top", "u", "v">>>>>>), Simplify, Flatten(<<>>)>>}}
XmrPass == Pass("xmr-resolve")
XmrScenarios ==
    {Scenario(d, <<"a", "b">>, p) : d \in XmrDesigns(<<>>) \cup XmrDesigns(<<WireWrite(<<"u", "n">>)>>),
        p \in {<<XmrPass>>, <<XmrPass, Flatten(<<>>), Simplify>>, <<Flatten(<<>>), XmrPass>>}}
BoxScenarios ==
    {Scenario(BoxDesign, <<"a", "b">>, p) :
        p \in {<<Pass("blackbox-guard"), Pass("multidriven-guard"), XmrPass, Simplify>>}}
StripPass(path) == PassWith("strip-debug", IF path = <<>> THEN <<>> ELSE << <<"-path">>, <<path>> >>)
StripScenarios ==
    {Scenario(d, <<"a", "b">>, p) : d \in CallDesigns,
        p \in {<<StripPass(<<>>)>>, <<StripPass(<<"top">>), Simplify>>, <<StripPass(<<>>), Flatten(<<>>), Simplify>>,
               <<StripPass(<<"top", "u">>), Simplify>>, <<StripPass(<<"top", "w">>)>>}}
PadScenarios ==
    {Scenario(PadDesign, <<"a", "b", "pad">>, p) :
        p \in {<<Flatten(<<>>)>>, <<Simplify>>, <<StripPass(<<>>)>>, <<Pass("multidriven-guard")>>}}

LoopPass(args) == PassWith("comb-loop-elim", args)
LoopScenarios ==
    {Scenario(Alone(g), <<"a", "b">>, p) : g \in FalseLoopNets,
        p \in {<<LoopPass(<<>>), Simplify>>, <<Simplify, LoopPass(<< <<"-fail-on-true-loop">> >>)>>,
               <<LoopPass(<< <<"-max-fix-iter", "1">> >>)>>}}
    \cup
    {Scenario(Alone(RingNet), <<"a", "b">>, <<LoopPass(<<>>)>>)}
    \cup
    {Scenario(Alone(g), <<"a", "b">>, <<LoopPass(args)>>) : g \in {TrueLoopNet, LoopNet(Calc("kNot", <<3>>, 2), LowBit)},
        args \in {<< <<"-no-fix-false-loops">> >>, << <<"-fix-false-loops", "no">>, <<"-fail-on-true-loop">> >>,
                  << <<"-max-nodes">>, <<"4">> >>}}

CutPass(path, more) == PassWith("repcut", << <<"-path">>, <<path>> >> \o more)
CutTop(more) == CutPass(<<"top">>, more)
CutScenarios ==
    {Scenario(Alone(g), <<"a", "b">>, p) : g \in CutNets,
        p \in {<<CutTop(<<>>), Flatten(<<>>), Simplify>>, <<Simplify, CutTop(<<>>)>>,
               <<CutTop(<<>>), CutPass(<<"top_repcut_part0">>, <<>>)>>}}
    \cup
    {Scenario(Alone(BundleNet), <<"a", "b">>, <<CutTop(<< <<"-partition-count", "4">> >>)>>)}
    \cup
    {Scenario(HierDesign, <<"a">>, p) :
        p \in {<<CutPass(<<"top", "u">>, <<>>), Flatten(<<>>), Simplify>>, <<CutTop(<<>>)>>, <<CutPass(<<"top", "w">>, <<>>)>>}}
    \cup
    {Scenario(PadDesign, <<"a", "b", "pad">>, <<CutPass(<<"top", "t">>, <<>>), Flatten(<<>>)>>)}
    \cup
    {Scenario(Alone(NoSinkNet), <<"a", "b">>, <<CutTop(args)>>) :
        args \in {<<>>, << <<"-partition-count">>, <<"1">> >>, << <<"-partition-count", "-1">> >>,
                  << <<"-imbalance-factor", "-1">> >>}}
    \cup
    {Scenario(Alone(TaskCutNet), <<"a">>, <<CutTop(args)>>) :
        args \in {<< <<"-partitioner">>, <<"hmetis">> >>, << <<"-mtkahypar-preset", "fast">> >>}}

\* Runs that stop early: a bad initial value, a constant without its
\* attribute, arguments no pass takes, no rounds at all.
FailScenarios ==
    {Scenario(Alone(MemoryNet(2, Entries(<<5>>, << <<1>> >>), <<>>)), <<"en", "a", "b">>, p) :
        p \in {<<Pass("memory-init-check"), Simplify>>, <<MemToRegPass>>}}
    \cup
    {Scenario(Alone(ReplicateNet(attr)), <<"a", "b">>, <<spec, Pass("memory-init-check")>>) :
        attr \in {NoAttr, [rep |-> 2]},
        spec \in {Simplify, SimplifyWith(<< <<"-max-iter", "0">> >>), Pass("dead-code-elim"),
                  SimplifyWith(<< <<"-max-iter">>, <<"0">> >>), SimplifyWith(<< <<"-max-iter">>, <<"1">> >>),
                  SimplifyWith(<< <<"-max-iter">> >>), PassWith("instance-inline", <<>>)}}
\* a >= 0 with a constant one that nothing reads.
UnreadConstant ==
    Net(<<In("a", 1), In("b", 1)>>,
          <<Const(<<0>>), Const(<<1>>), [Calc("kGe", <<1, 3>>, 1) EXCEPT !.sym = "y"]>>,
          <<Out("y", 5)>>)
UnreadScenarios ==
    {Scenario(Alone(g), <<"a", "b">>, <<Simplify>>) : g \in CompareNets \cup {UnreadConstant}}

MCScenarios ==
    UNION {GateScenarios, MemoryScenarios, RetimeScenarios, LatchScenarios, SliceScenarios, UnknownScenarios,
           HierScenarios, XmrScenarios, BoxScenarios, StripScenarios, PadScenarios, LoopScenarios, CutScenarios,
           FailScenarios}
=============================================================================
