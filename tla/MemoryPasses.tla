----------------------------- MODULE MemoryPasses ----------------------------
(***************************************************************************)
(* The storage passes on one graph: latch-transparent-read,                *)
(* memory-init-check and mem-to-reg.  A storage is an operation named by   *)
(* its symbol; its ports name it in the attribute target.  A memory's      *)
(* initialisation is four parallel sequences kinds, files, starts, lens    *)
(* (and values for the literal kind), each of which may be missing.        *)
(***************************************************************************)
EXTENDS Netlist

PortsOf(g, kind, s) ==
    SelectSeq(OpIds(g), LAMBDA o : Kind(g, o) = kind /\ Attr(g, o, "target", Tmp) = s)

-----------------------------------------------------------------------------
(* latch-transparent-read: readers of a latch see the written value while  *)
(* the latch is open.                                                      *)

\* A write port without a condition and a value is reported and left out.
ShortWrite(g, o) == Kind(g, o) = "kLatchWritePort" /\ Len(g.ops[o].in) < 2
LatchWrites(g, s) == SelectSeq(PortsOf(g, "kLatchWritePort", s), LAMBDA o : ~ShortWrite(g, o))
LatchSymbols(g) ==
    {g.ops[o].sym : o \in {o \in DOMAIN g.ops : Kind(g, o) = "kLatch"}}
      \cup {Attr(g, o, "target", Tmp) :
               o \in {o \in DOMAIN g.ops : /\ Kind(g, o) \in {"kLatchWritePort", "kLatchReadPort"}
                                           /\ ~ShortWrite(g, o)}}
LatchDecl(g, s) ==
    LET D == {o \in DOMAIN g.ops : Kind(g, o) = "kLatch" /\ g.ops[o].sym = s}
    IN  IF D = {} THEN 0 ELSE CHOOSE o \in D : \A p \in D : p <= o

\* (next & mask) | (held & ~mask), when the write port has a mask.
MaskedNext(g, w, sgn, in, held) ==
    LET h1 == Gate(g, "kNot", <<in[3]>>, w, sgn, NoAttr)
        h2 == Gate(h1, "kAnd", <<in[2], in[3]>>, w, sgn, NoAttr)
        h3 == Gate(h2, "kAnd", <<held, Newest(h1)>>, w, sgn, NoAttr)
    IN  Gate(h3, "kOr", <<Newest(h2), Newest(h3)>>, w, sgn, NoAttr)

\* The users taken before the new operations exist are moved to the mux.
\* Ports that carry the read value are not moved.
OpenRead(g, latch, in, read) ==
    LET held  == g.ops[read].out[1]
        w     == Attr(g, latch, "width", 1)
        sgn   == Attr(g, latch, "sgn", FALSE)
        users == UsersOf(g, held)
        h     == IF Len(in) >= 3 THEN MaskedNext(g, w, sgn, in, held) ELSE g
        next  == IF Len(in) >= 3 THEN Newest(h) ELSE in[2]
        m     == Gate(h, "kMux", <<in[1], next, held>>, w, sgn, NoAttr)
    IN  [m EXCEPT !.ops = [o \in DOMAIN @ |->
            IF o \in users THEN [@[o] EXCEPT !.in = ReplaceAll(@, held, Newest(m))] ELSE @[o]]]

\* The ports and what the write port reads (in) are those of g, the graph
\* before any latch was opened.
OpenLatch(r, g, s) ==
    LET latch  == LatchDecl(g, s)
        writes == LatchWrites(g, s)
        reads  == SelectSeq(PortsOf(g, "kLatchReadPort", s), LAMBDA o : g.ops[o].out # <<>>)
        in     == g.ops[writes[1]].in
    IN  CASE latch = 0 \/ Len(writes) > 1 -> [r EXCEPT !.failed = TRUE]
          [] writes = <<>> \/ reads = <<>> -> r
          [] OTHER -> Result(FoldLeft(LAMBDA h, o : OpenRead(h, latch, in, o), r.g, reads), TRUE, r.failed)

LatchTransparentRead(g) ==
    LET short == \E o \in DOMAIN g.ops : ShortWrite(g, o)
    IN  FoldLeft(LAMBDA r, s : OpenLatch(r, g, s), Result(g, FALSE, short), SetToSeq(LatchSymbols(g) \ {Tmp}))

-----------------------------------------------------------------------------
(* memory-init-check: the initialisation attributes agree with each other. *)

InitKeys == {"kinds", "files", "starts", "lens"}
HasInit(op) == InitKeys \cap DOMAIN op.a # {}
SeqAttr(op, key) == IF key \in DOMAIN op.a THEN op.a[key] ELSE <<>>
BadInit(op) ==
    \/ Len(SeqAttr(op, "kinds")) # Len(SeqAttr(op, "files"))
    \/ ~({"starts", "lens"} \subseteq DOMAIN op.a)
    \/ Len(op.a.starts) # Len(op.a.kinds) \/ Len(op.a.lens) # Len(op.a.kinds)
InitInfo(op) == [key \in InitKeys |-> op.a[key]]
\* Neither kinds nor files: a warning only.
Incomplete(op) == SeqAttr(op, "kinds") = <<>> /\ SeqAttr(op, "files") = <<>>

MemoryInitCheck(g) ==
    LET memories == {o \in DOMAIN g.ops : Kind(g, o) = "kMemory" /\ HasInit(g.ops[o])
                                            /\ ~Incomplete(g.ops[o])}
        good == {o \in memories : ~BadInit(g.ops[o])}
        differs == \E o, p \in good : /\ g.ops[o].sym = g.ops[p].sym
                                      /\ InitInfo(g.ops[o]) # InitInfo(g.ops[p])
    IN  Result(g, FALSE, good # memories \/ differs)

-----------------------------------------------------------------------------
(* mem-to-reg: a memory of few rows becomes one register per row.          *)

WritePortFits(g, o) ==
    /\ Len(g.ops[o].in) >= 4
    /\ DefKind(g, g.ops[o].in[4]) = "kConstant"
    /\ Len(SeqAttr(g.ops[o], "edges")) = Len(g.ops[o].in) - 4
ReadPortFits(g, o) == Len(g.ops[o].in) = 1 /\ Len(g.ops[o].out) = 1

\* The literal rows get from the entries in turn, later entries winning.
NoInit == <<>>
InitLiteral(op, i) ==
    IF i \in DOMAIN SeqAttr(op, "values") THEN op.a.values[i] ELSE FromNat(0, op.a.width)
InitEntry(op, rows, init, i) ==
    [r \in 0..(rows - 1) |->
        IF op.a.starts[i] < 0 \/ r \in op.a.starts[i]..(op.a.starts[i] + op.a.lens[i] - 1)
        THEN InitLiteral(op, i) ELSE init[r]]
InitMap(op, rows) ==
    FoldLeftDomain(LAMBDA init, i : InitEntry(op, rows, init, i),
                   [r \in 0..(rows - 1) |-> NoInit], SeqAttr(op, "kinds"))
InitFits(op, strictInit) ==
    IF ~HasInit(op) THEN ~strictInit
    ELSE /\ InitKeys \subseteq DOMAIN op.a /\ ~BadInit(op) /\ op.a.kinds # <<>>
         /\ \A i \in DOMAIN op.a.kinds :
               /\ op.a.kinds[i] = "literal" /\ Known(InitLiteral(op, i))
               /\ op.a.starts[i] < 0 \/ op.a.lens[i] > 0

FitsRegisters(g, m, rowLimit, strictInit) ==
    LET op == g.ops[m]
    IN  /\ Attr(g, m, "width", 0) > 0 /\ Attr(g, m, "row", 0) \in 1..rowLimit
        /\ \A o \in Range(PortsOf(g, "kMemoryWritePort", op.sym)) : WritePortFits(g, o)
        /\ \A o \in Range(PortsOf(g, "kMemoryReadPort", op.sym)) : ReadPortFits(g, o)
        /\ InitFits(op, strictInit)

\* One register per row, named after the memory: [g, regs].
RowRegister(acc, name, a) ==
    [g |-> NamedOp(acc.g, "kRegister", <<>>, <<>>, a, name), regs |-> Append(acc.regs, name)]
RowAttrs(op, init) ==
    [width |-> op.a.width, sgn |-> "sgn" \in DOMAIN op.a /\ op.a.sgn]
      @@ (IF init = NoInit THEN << >> ELSE [init |-> init])
RowRegisters(g, m) ==
    LET op == g.ops[m]
    IN  FoldLeft(LAMBDA acc, i :
                    RowRegister(acc, UniqueName(acc.g, op.sym \o "$row$" \o ToString(i), "$m2r$"),
                                RowAttrs(op, InitMap(op, op.a.row)[i])),
                 [g |-> g, regs |-> <<>>], [i \in 1..op.a.row |-> i - 1])

\* addr = row, compared with a constant of the width of the address.
RowHit(g, addr, row) ==
    Gate(ConstGate(g, FromNat(row, g.vals[addr].w), g.vals[addr].sgn),
         "kEq", <<addr, g.nval>>, 1, FALSE, NoAttr)

\* A read port becomes a chain of muxes over the rows, row 0 outermost; an
\* address beyond the rows reads zero.
\* The values made for a row follow each other: its data, its number, its hit.
ReadRows(g, regs, addr, val) ==
    FoldLeftDomain(LAMBDA h, i :
                      RowHit(Gate(h, "kRegisterReadPort", <<>>, val.w, val.sgn, [target |-> regs[i]]),
                             addr, i - 1),
                   g, regs)
MuxRows(h, first, regs, val) ==
    FoldLeft(LAMBDA k, i : Gate(k, "kMux", <<first + 3 * i - 1, first + 3 * i - 3, Newest(k)>>,
                                val.w, val.sgn, NoAttr),
             ConstGate(h, FromNat(0, val.w), val.sgn), Reverse([i \in DOMAIN regs |-> i]))
InPlaceOf(h, o) == EraseOpInto(h, o, Newest(h))
LowerRead(g, regs, o) ==
    LET val == g.vals[g.ops[o].out[1]]
    IN  InPlaceOf(MuxRows(ReadRows(g, regs, g.ops[o].in[1], val), g.nval, regs, val), o)

\* A write port becomes one register write per row, enabled by its row.
LowerWrite(g, regs, o) ==
    LET op == g.ops[o]
        Enabled(e) == Gate(e, "kAnd", <<op.in[1], Newest(e)>>, 1, FALSE, NoAttr)
        Written(c, i) == CreateOp(c, "kRegisterWritePort",
                                  <<Newest(c)>> \o SubSeq(op.in, 3, Len(op.in)), <<>>,
                                  [target |-> regs[i], edges |-> op.a.edges])
    IN  EraseOp(FoldLeftDomain(LAMBDA h, i : Written(Enabled(RowHit(h, op.in[2], i - 1)), i), g, regs), o)

\* rows = [g, regs]: the registers are made; the ports follow, reads first.
LowerPorts(rows, g, m) ==
    LET Ports(kind) == PortsOf(g, kind, g.ops[m].sym)
    IN  EraseOp(FoldLeft(LAMBDA h, o : LowerWrite(h, rows.regs, o),
                         FoldLeft(LAMBDA h, o : LowerRead(h, rows.regs, o), rows.g,
                                  Ports("kMemoryReadPort")),
                         Ports("kMemoryWritePort")), m)
LowerMemory(g, m) == LowerPorts(RowRegisters(g, m), g, m)

Compared(g, h) == Result(h, h # g, FALSE)
MemToReg(g, rowLimit, strictInit) ==
    Compared(g, FoldLeft(LAMBDA h, m :
                            IF /\ m \in DOMAIN h.ops /\ Kind(h, m) = "kMemory"
                               /\ FitsRegisters(h, m, rowLimit, strictInit)
                            THEN LowerMemory(h, m) ELSE h,
                         g, OpIds(g)))

-----------------------------------------------------------------------------
(***************************************************************************)
(* The memory-read-retime pass on one graph: a memory read whose address   *)
(* comes from a register of its own is moved before the clock edge, and    *)
(* the data is registered instead of the address.                          *)
(***************************************************************************)

StorageNamed(g, kind, s) ==
    LET O == {o \in DOMAIN g.ops : Kind(g, o) = kind /\ g.ops[o].sym = s}
    IN  IF O = {} THEN 0 ELSE CHOOSE o \in O : \A p \in O : o <= p

\* isFullMaskConst: a constant whose low w bits are all one.
FullMask(g, v, w) ==
    LET o == Def(g, v)
    IN  /\ DefKind(g, v) = "kConstant" /\ "lit" \in DOMAIN g.ops[o].a
        /\ \A i \in 1..w : Resize(g.ops[o].a.lit, w, FALSE)[i] = 1

-----------------------------------------------------------------------------
(* matchCandidate, condition by condition.                                 *)

AddressRead(g, read) == Def(g, g.ops[read].in[1])
AddressName(g, read) == g.ops[AddressRead(g, read)].a.target
AddressWrite(g, read) == PortsOf(g, "kRegisterWritePort", AddressName(g, read))[1]
MemoryWrites(g, read) == PortsOf(g, "kMemoryWritePort", g.ops[read].a.target)

\* The address is read from a register nothing else reads.
DedicatedAddress(g, read) ==
    LET addr == g.ops[read].in[1]
    IN  /\ DefKind(g, addr) = "kRegisterReadPort"
        /\ StorageNamed(g, "kRegister", AddressName(g, read)) # 0
        /\ PortsOf(g, "kRegisterReadPort", AddressName(g, read)) = <<AddressRead(g, read)>>
        /\ UsersOf(g, addr) = {read} /\ UseCount(g, addr) = 1
        /\ ~IsOutput(g, addr)

\* The register is written whole, by one port.
PlainAddressWrite(g, read) ==
    LET name  == AddressName(g, read)
        reg   == StorageNamed(g, "kRegister", name)
        write == g.ops[AddressWrite(g, read)]
    IN  /\ Len(PortsOf(g, "kRegisterWritePort", name)) = 1
        /\ Len(write.in) >= 3
        /\ FullMask(g, write.in[3], g.ops[reg].a.width)
        /\ Len(write.a.edges) = Len(write.in) - 3

\* ROM: nothing writes the memory.  The address register goes, so it must
\* not be a declared one that is kept.
IsRom(g, read, keep) ==
    /\ MemoryWrites(g, read) = <<>>
    /\ ~(keep /\ AddressName(g, read) \in g.decl)

\* Simple RAM: one write port, whole rows, on the events of the register.
IsSimpleRam(g, read) ==
    LET mem == g.ops[StorageNamed(g, "kMemory", g.ops[read].a.target)]
        reg == g.ops[StorageNamed(g, "kRegister", AddressName(g, read))]
        write == g.ops[MemoryWrites(g, read)[1]]
        addressWrite == g.ops[AddressWrite(g, read)]
    IN  /\ Len(MemoryWrites(g, read)) = 1
        /\ Len(write.in) >= 4 /\ Len(write.a.edges) = Len(write.in) - 4
        /\ SubSeq(write.in, 5, Len(write.in)) = SubSeq(addressWrite.in, 4, Len(addressWrite.in))
        /\ write.a.edges = addressWrite.a.edges
        /\ FullMask(g, write.in[4], mem.a.width)
        /\ g.vals[write.in[2]].w = reg.a.width /\ g.vals[write.in[3]].w = mem.a.width

IsCandidate(g, read, keep) ==
    /\ Kind(g, read) = "kMemoryReadPort"
    /\ Len(g.ops[read].in) = 1 /\ Len(g.ops[read].out) = 1
    /\ DedicatedAddress(g, read)
    /\ PlainAddressWrite(g, read)
    /\ StorageNamed(g, "kMemory", g.ops[read].a.target) # 0
    /\ IsRom(g, read, keep) \/ IsSimpleRam(g, read)

\* What is noted of a candidate when it is matched: the memory, the address
\* register and what its write port (load) and the memory's (write) read.
Candidate(g, read) ==
    LET load == g.ops[AddressWrite(g, read)]
    IN  [read    |-> read,
         result  |-> g.ops[read].out[1],
         address |-> g.ops[read].in[1],
         mem     |-> g.ops[StorageNamed(g, "kMemory", g.ops[read].a.target)],
         reg     |-> g.ops[StorageNamed(g, "kRegister", AddressName(g, read))],
         load    |-> load.in,
         edges   |-> load.a.edges,
         write   |-> IF MemoryWrites(g, read) = <<>> THEN <<>> ELSE g.ops[MemoryWrites(g, read)[1]].in,
         register |-> <<AddressRead(g, read), AddressWrite(g, read),
                        StorageNamed(g, "kRegister", AddressName(g, read))>>]

-----------------------------------------------------------------------------
(* The rewrite of a candidate c on the graph that the candidates before it *)
(* have left.  Their readers have moved to new values; what c holds has    *)
(* not moved with them.                                                    *)

\* The literal of the data register: the row the address starts at, when
\* every row of the memory has a literal.
DataInit(mem, reg) ==
    LET row   == ToNat(Resize(reg.a.init, reg.a.width, FALSE))
        table == InitMap(mem, mem.a.row)
    IN  IF /\ "init" \in DOMAIN reg.a /\ Known(reg.a.init) /\ row < mem.a.row
           /\ HasInit(mem) /\ InitKeys \subseteq DOMAIN mem.a /\ ~BadInit(mem)
           /\ \A i \in DOMAIN mem.a.kinds :
                 mem.a.kinds[i] = "literal" /\ (mem.a.starts[i] < 0 \/ mem.a.lens[i] > 0)
           /\ \A r \in DOMAIN table : table[r] # NoInit
        THEN table[row] ELSE NoInit

\* The data register, named after the memory.
RegisterAttrs(mem, init) ==
    IF init = NoInit THEN [width |-> mem.a.width, sgn |-> mem.a.sgn]
    ELSE [width |-> mem.a.width, sgn |-> mem.a.sgn, init |-> init]
DataName(g, mem) == UniqueName(g, mem.sym \o "$retime_data", "$")
DataRegister(g, mem, reg) ==
    NamedOp(g, "kRegister", <<>>, <<>>, RegisterAttrs(mem, DataInit(mem, reg)), DataName(g, mem))

\* Write the register from data when enabled, and read it in place of the
\* memory: operands and output ports move to the new value.
RegisterData(g, c, name, enable, data) ==
    LET w   == c.mem.a.width
        Mask(h)     == ConstGate(h, FromNat((2^w) - 1, w), FALSE)
        Written(h)  == CreateOp(h, "kRegisterWritePort",
                                <<enable, data, Newest(h)>> \o SubSeq(c.load, 4, Len(c.load)),
                                <<>>, [target |-> name, edges |-> c.edges])
        ReadBack(h) == Gate(h, "kRegisterReadPort", <<>>, w, c.mem.a.sgn, [target |-> name])
        Moved(h)    == EraseOp(ReplaceUsers(h, c.result, Newest(h)), c.read)
    IN  Moved(ReadBack(Written(Mask(g))))

\* The memory read at the address before the edge.
EarlyRead(g, mem, addr) ==
    Gate(g, "kMemoryReadPort", <<addr>>, mem.a.width, mem.a.sgn, [target |-> mem.sym])

\* The address register goes with its ports.
RetimeRom(g, c) ==
    LET h == EarlyRead(DataRegister(g, c.mem, c.reg), c.mem, c.load[2])
    IN  FoldLeft(EraseOp, RegisterData(h, c, DataName(g, c.mem), c.load[1], Newest(h)), c.register)

\* Mutant: a write to the address is not forwarded.
RetimeRamWithoutBypass(g, c) ==
    LET h == EarlyRead(DataRegister(g, c.mem, c.reg), c.mem, c.load[2])
    IN  RegisterData(h, c, DataName(g, c.mem), c.load[1], Newest(h))

\* The register stays; a write that hits the address being held or loaded
\* is forwarded into the data.  The new values are numbered from g.nval up:
\* the address in use, the row, whether the write hits it (two gates), the
\* enable and the data.
RetimeRam(g, c) ==
    LET Value(i) == g.nval + i - 1
        Bit(h, kind, in) == Gate(h, kind, in, 1, FALSE, NoAttr)
        Sel(h)  == Gate(h, "kMux", <<c.load[1], c.load[2], c.address>>, c.reg.a.width, FALSE, NoAttr)
        Row(h)  == EarlyRead(h, c.mem, Value(1))
        Hit(h)  == Bit(Bit(h, "kEq", <<c.write[2], Value(1)>>), "kLogicAnd", <<c.write[1], Value(3)>>)
        En(h)   == Bit(h, "kLogicOr", <<c.load[1], Value(4)>>)
        Next(h) == Gate(h, "kMux", <<Value(4), c.write[3], Value(2)>>, c.mem.a.width, c.mem.a.sgn, NoAttr)
    IN  RegisterData(Next(En(Hit(Row(Sel(DataRegister(g, c.mem, c.reg)))))), c, DataName(g, c.mem),
                     Value(5), Value(6))

\* Candidates are matched on the graph as it was, then rewritten in turn.
MemoryReadRetime(g, keep) ==
    LET candidates == SelectSeq(OpIds(g), LAMBDA o : IsCandidate(g, o, keep))
    IN  Result(FoldLeft(LAMBDA h, o : IF IsRom(g, o, keep) THEN RetimeRom(h, Candidate(g, o))
                                      ELSE RetimeRam(h, Candidate(g, o)),
                        g, candidates),
               candidates # <<>>, FALSE)
=============================================================================
