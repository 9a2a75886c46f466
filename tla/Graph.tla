--------------------------------- MODULE Graph ---------------------------------
(***************************************************************************)
(* wolvrix::lib::grh::Graph: one netlist graph as its clients see it.  It  *)
(* is either mutable (builder_ holds a GraphBuilder) or frozen (view_      *)
(* holds a GraphView whose values and operations are numbered without      *)
(* gaps); a write thaws it first.  While it is mutable, the lists that     *)
(* values(), operations() and the port accessors return are caches, some   *)
(* of them updated in place, some rebuilt by the next read.                *)
(*                                                                         *)
(* The variables of GraphBuilder hold the contents in both states: frozen  *)
(* says whether they are the view's.                                       *)
(***************************************************************************)
EXTENDS GraphBuilder, FiniteSets

CONSTANTS Declarable,              \* symbols that clients declare
          Stale                    \* a cache whose dirty flag is set: its contents are never read

VARIABLES
  frozen,                          \* view_ holds the graph, builder_ is empty
  valuesCache, operationsCache,    \* sequences of ids, or Stale
  portsCache,                      \* input, output and inout ports, or Stale
  declared                         \* declaredSymbols_

cacheVars == <<valuesCache, operationsCache, portsCache>>
graphVars == <<builderVars, frozen, cacheVars, declared>>

\* The constructor freezes an empty builder.
GraphInit ==
  /\ Init
  /\ frozen = TRUE /\ declared = {}
  /\ valuesCache = Stale /\ operationsCache = Stale /\ portsCache = Stale

InvalidateCaches == valuesCache' = Stale /\ operationsCache' = Stale /\ portsCache' = Stale

(***************************************************************************)
(* freeze(): live entries move to the next free index, the edges and the   *)
(* ports follow, the use lists are built from the operands, the flags are  *)
(* copied.  It throws, and changes nothing, at an edge or a port of an     *)
(* erased value.                                                           *)
(***************************************************************************)
Rank(alive, i) == Cardinality({j \in alive : j <= i})
At(alive, r) == CHOOSE i \in alive : Rank(alive, i) = r
Moved(alive, i) == IF i \in alive THEN Rank(alive, i) ELSE None
\* Mutant: exchanges the enable and the output of an inout port.
MovedPortSwapped(p) == [in  |-> Moved(valueAlive, p.in), out |-> Moved(valueAlive, p.oe),
                        oe  |-> Moved(valueAlive, p.out)]

MovedPort(p) == [in  |-> Moved(valueAlive, p.in), out |-> Moved(valueAlive, p.out),
                 oe  |-> Moved(valueAlive, p.oe)]
Compact(alive) == 1 .. Cardinality(alive)

FreezeThrows ==
  Dead((UNION {ToSet(operands[o]) \union ToSet(results[o]) : o \in opAlive})
         \union BoundValues(inputPorts) \union BoundValues(outputPorts)
         \union InoutValues(inoutPorts))

Freeze ==
  LET M(v) == Moved(valueAlive, v)
      MovedSeq(s) == [k \in DOMAIN s |-> M(s[k])]
      OfValue(f, default) == [v \in ValueIds |->
        IF v \in Compact(valueAlive) THEN f[At(valueAlive, v)] ELSE default]
      OfOp(f, default) == [o \in OpIds |->
        IF o \in Compact(opAlive) THEN f[At(opAlive, o)] ELSE default]
      ops == [o \in OpIds |-> MovedSeq(OfOp(operands, <<>>)[o])]
  IN
  /\ ~ frozen /\ ~ FreezeThrows
  /\ frozen' = TRUE
  /\ valueCount' = Cardinality(valueAlive) /\ valueAlive' = Compact(valueAlive)
  /\ opCount' = Cardinality(opAlive) /\ opAlive' = Compact(opAlive)
  /\ operands' = ops
  /\ results' = [o \in OpIds |-> MovedSeq(OfOp(results, <<>>)[o])]
  /\ valueUsers' = UsesOf(ops, Compact(opAlive))
  /\ definingOp' = [v \in ValueIds |-> Moved(opAlive, OfValue(definingOp, None)[v])]
  /\ valueSymbol' = OfValue(valueSymbol, NoSym) /\ opSymbol' = OfOp(opSymbol, NoSym)
  /\ symbolIndex' = [s \in Syms |->
       IF \E v \in valueAlive : valueSymbol[v] = s
       THEN <<"value", M(CHOOSE v \in valueAlive : valueSymbol[v] = s)>>
       ELSE IF \E o \in opAlive : opSymbol[o] = s
       THEN <<"op", Moved(opAlive, CHOOSE o \in opAlive : opSymbol[o] = s)>> ELSE NoBinding]
  /\ inputPorts' = [n \in PortNames |-> M(inputPorts[n])]
  /\ outputPorts' = [n \in PortNames |-> M(outputPorts[n])]
  /\ inoutPorts' = [n \in InoutNames |-> MovedPort(inoutPorts[n])]
  /\ isInput' = {M(v) : v \in isInput \intersect valueAlive}
  /\ isOutput' = {M(v) : v \in isOutput \intersect valueAlive}
  /\ isInout' = {M(v) : v \in isInout \intersect valueAlive}
  /\ InvalidateCaches
  /\ UNCHANGED declared

(***************************************************************************)
(* ensureBuilder(), called alone by reserve*Capacity and by writes that    *)
(* then throw: fromView rebuilds the builder from the view and throws when *)
(* what it computes again (definitions, flags) is not what the view says;  *)
(* the graph is then still frozen.                                         *)
(***************************************************************************)
DefsOf(res, live) ==
  [v \in ValueIds |-> IF \E o \in live : v \in ToSet(res[o])
                      THEN CHOOSE o \in live : v \in ToSet(res[o]) ELSE None]

ThawThrows ==
  \/ RecomputeThrows(inputPorts, outputPorts, inoutPorts)
  \/ isInput # BoundValues(inputPorts) \/ isOutput # BoundValues(outputPorts)
  \/ isInout # InoutValues(inoutPorts)
  \/ definingOp # DefsOf(results, opAlive)

Thaw ==
  /\ frozen /\ ~ ThawThrows
  /\ frozen' = FALSE
  /\ definingOp' = DefsOf(results, opAlive)
  /\ valueUsers' = UsesOf(operands, opAlive)
  /\ InvalidateCaches
  /\ UNCHANGED <<entryVars, operands, results, symbolVars, portVars, declared>>

(***************************************************************************)
(* Reads that fill a cache.                                                *)
(***************************************************************************)
Ascending(ids) == [i \in Compact(ids) |-> At(ids, i)]

Ports(in, out, inout) == [in |-> in, out |-> out, inout |-> inout]

ReadValues == /\ ~ frozen /\ valuesCache = Stale
              /\ valuesCache' = Ascending(valueAlive)
              /\ UNCHANGED <<builderVars, frozen, operationsCache, portsCache, declared>>

ReadOperations == /\ ~ frozen /\ operationsCache = Stale
                  /\ operationsCache' = Ascending(opAlive)
                  /\ UNCHANGED <<builderVars, frozen, valuesCache, portsCache, declared>>

ReadPorts == /\ ~ frozen /\ portsCache = Stale
             /\ portsCache' = Ports(inputPorts, outputPorts, inoutPorts)
             /\ UNCHANGED <<builderVars, frozen, valuesCache, operationsCache, declared>>

(***************************************************************************)
(* Writes: ensureBuilder, the builder's operation, then the caches.  A     *)
(* frozen graph's caches are Stale and thawing rebuilds what was frozen,   *)
(* so a write that thaws changes frozen and what the operation changes.    *)
(***************************************************************************)
EnsureBuilder == (frozen => ~ ThawThrows) /\ frozen' = FALSE

AppendTo(cache, id) == IF cache = Stale THEN Stale ELSE Append(cache, id)

CreateValue(sym) ==
  /\ EnsureBuilder /\ AddValue(sym)
  /\ valuesCache' = AppendTo(valuesCache, valueCount')
  /\ UNCHANGED <<operationsCache, portsCache, declared>>

CreateOperation(sym) ==
  /\ EnsureBuilder /\ AddOp(sym)
  /\ operationsCache' = AppendTo(operationsCache, opCount')
  /\ UNCHANGED <<valuesCache, portsCache, declared>>

EditEdges ==
  /\ EnsureBuilder /\ (OperandNext \/ ResultNext)
  /\ UNCHANGED <<cacheVars, declared>>

Rename(sym) ==
  /\ EnsureBuilder
  /\ \/ \E v \in ValueIds : SetValueSymbol(v, sym)
     \/ \E o \in OpIds : SetOpSymbol(o, sym)
  /\ UNCHANGED <<cacheVars, declared>>

EraseOperation(o) ==
  /\ EnsureBuilder
  /\ EraseOp(o) \/ EraseOpUnchecked(o) \/ \E v \in ValueIds : EraseOpReplacing(o, v)
  /\ operationsCache' = Stale
  /\ declared' = declared \ {opSymbol[o]}
  /\ UNCHANGED <<valuesCache, portsCache>>

\* Mutant: leaves the cached list of values as it is.
DeleteValueKeepsCache(v) ==
  /\ EnsureBuilder
  /\ EraseValue(v) \/ EraseValueUnchecked(v)
  /\ declared' = declared \ {valueSymbol[v]}
  /\ UNCHANGED cacheVars

DeleteValue(v) ==
  /\ EnsureBuilder
  /\ EraseValue(v) \/ EraseValueUnchecked(v)
  /\ valuesCache' = Stale
  /\ declared' = declared \ {valueSymbol[v]}
  /\ UNCHANGED <<operationsCache, portsCache>>

\* The cached list is synchronised only when the builder's call has returned.
Returned(complete) == complete /\ ~ RecomputeThrows(inputPorts', outputPorts', inoutPorts')
WritePorts(synced, complete) ==
  /\ portsCache' = IF portsCache # Stale /\ Returned(complete) THEN synced ELSE portsCache
  /\ UNCHANGED <<valuesCache, operationsCache, declared>>

WriteInputPorts(complete) ==
  /\ EnsureBuilder /\ InputPortCall(complete)
  /\ WritePorts([portsCache EXCEPT !.in = inputPorts'], complete)

WriteOutputPorts(complete) ==
  /\ EnsureBuilder /\ OutputPortCall(complete)
  /\ WritePorts([portsCache EXCEPT !.out = outputPorts'], complete)

WriteInoutPorts(complete) ==
  /\ EnsureBuilder /\ InoutPortCall(complete)
  /\ WritePorts([portsCache EXCEPT !.inout = inoutPorts'], complete)

\* addDeclaredSymbol, removeDeclaredSymbol: no thaw, the list is the graph's own.
Declare(sym) == /\ declared' \in {declared \union {sym}, declared \ {sym}}
                /\ UNCHANGED <<builderVars, frozen, cacheVars>>

GraphNext ==
  \/ Freeze \/ Thaw \/ ReadValues \/ ReadOperations \/ ReadPorts
  \/ \E sym \in Syms : CreateValue(sym) \/ CreateOperation(sym) \/ Rename(sym)
  \/ EditEdges
  \/ \E o \in OpIds : EraseOperation(o)
  \/ \E v \in ValueIds : DeleteValue(v)
  \/ \E complete \in BOOLEAN :
       WriteInputPorts(complete) \/ WriteOutputPorts(complete) \/ WriteInoutPorts(complete)
  \/ \E sym \in Declarable : Declare(sym)

GraphSpec == GraphInit /\ [][GraphNext]_graphVars

-----------------------------------------------------------------------------
\* While the graph is mutable, a list that is not marked dirty is what a rebuild
\* would give, in the same order, however creations, erasures, port calls, freezes
\* and thaws were mixed.
CachesCoherent ==
  ~ frozen =>
    /\ valuesCache \in {Stale, Ascending(valueAlive)}
    /\ operationsCache \in {Stale, Ascending(opAlive)}
    /\ portsCache \in {Stale, Ports(inputPorts, outputPorts, inoutPorts)}

\* "A write thaws the graph by itself" (docs/grh/grh-api.md:377): no sequence of
\* calls makes a frozen graph that fromView refuses to turn into a builder again.
ThawNeverFails == frozen => ~ ThawThrows

\* A graph can always be frozen: no call leaves an edge or a port of an erased
\* value behind for freeze() to throw at.
FreezeNeverFails == ~ frozen => ~ FreezeThrows

\* The netlist as its symbols tell it, without the ids.
SymbolOf(v) == IF v = None THEN NoSym ELSE valueSymbol[v]
Names(s) == [k \in DOMAIN s |-> SymbolOf(s[k])]
NamedNetlist ==
  [values  |-> {valueSymbol[v] : v \in valueAlive},
   ops     |-> {<<opSymbol[o], Names(operands[o]), Names(results[o])>> : o \in opAlive},
   defs    |-> {<<valueSymbol[v], IF definingOp[v] = None THEN NoSym ELSE opSymbol[definingOp[v]]>>
                  : v \in valueAlive},
   uses    |-> {<<valueSymbol[v], opSymbol[u[1]], u[2], valueUsers[v][u]>> :
                  v \in valueAlive, u \in {w \in Users : w[1] \in opAlive}},
   flags   |-> {<<valueSymbol[v], v \in isInput, v \in isOutput, v \in isInout>> : v \in valueAlive},
   found   |-> {s \in Syms : symbolIndex[s] # NoBinding},
   inputs  |-> [n \in PortNames |-> SymbolOf(inputPorts[n])],
   outputs |-> [n \in PortNames |-> SymbolOf(outputPorts[n])],
   inouts  |-> [n \in InoutNames |-> Names(<<inoutPorts[n].in, inoutPorts[n].out, inoutPorts[n].oe>>)]]

\* Freezing and thawing renumber values and operations but lose, add or reconnect
\* nothing: under its symbols the netlist is the same before and after.
FreezeKeepsNetlist == [][Thaw \/ (~ frozen /\ frozen') => NamedNetlist' = NamedNetlist]_graphVars
=============================================================================
