---------------------------- MODULE MCGraphBuilder ----------------------------
EXTENDS GraphBuilder, TLC
SymSymmetry == Permutations(Syms)

\* Ports are explored on small netlists, larger netlists without ports.
NoPorts ==
  /\ isInput = {} /\ isOutput = {} /\ isInout = {}
  /\ \A n \in PortNames : inputPorts[n] = None /\ outputPorts[n] = None
  /\ \A n \in InoutNames : inoutPorts[n] = Unbound
SmallNetlist ==
  /\ opCount <= 1
  /\ \A o \in OpIds : Len(operands[o]) <= 1 /\ Len(results[o]) <= 1
PortsOrSize == NoPorts \/ SmallNetlist
=============================================================================
