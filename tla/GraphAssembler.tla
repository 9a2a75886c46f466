---------------------------- MODULE GraphAssembler ----------------------------
(***************************************************************************)
(* The naming side of GraphAssembler: a plan key gets its graph name once, *)
(* the first candidate no other key holds (base, base_1, base_2, ...), and *)
(* the design's createGraph refuses a name it already has.  resolveGraphName *)
(* runs under nameMutex_, createGraph under the design mutex.              *)
(***************************************************************************)
EXTENDS PlanCache, Naturals, FiniteSets

CONSTANTS Names,
          Candidate(_, _)   \* Candidate(k, n): the n-th name tried for key k

VARIABLES graphName,    \* graphNames_: key -> its name, or Unnamed
          design        \* names of the graphs the design holds

namingVars == <<graphName, design>>

Unnamed == "<unnamed>"

\* Model bound on the search for a free suffix: fewer keys than this hold names.
SuffixBound == Cardinality(Keys)

NamingTypeOK == /\ graphName \in [Keys -> Names \union {Unnamed}]
                /\ design \in SUBSET (Names \union {Unnamed})

NamingInit == graphName = [k \in Keys |-> Unnamed] /\ design = {}

Reserved == {graphName[k] : k \in Keys} \ {Unnamed}

\* Mutant: takes the base name whoever holds it.
IsBaseName(k, n) == n = 0

\* Some n in 0..SuffixBound is always free: each key holds one name, and the
\* candidates of a key differ.
IsFirstFree(k, n) == /\ Candidate(k, n) \notin Reserved
                     /\ \A m \in 0..(n - 1) : Candidate(k, m) \in Reserved

ResolveGraphName(k) ==
  /\ \/ graphName[k] # Unnamed /\ UNCHANGED graphName
     \/ /\ graphName[k] = Unnamed
        /\ \E n \in 0..SuffixBound :
              /\ IsFirstFree(k, n)
              /\ graphName' = [graphName EXCEPT ![k] = Candidate(k, n)]
  /\ UNCHANGED design

CreateGraph(k) == /\ graphName[k] \notin design
                  /\ design' = design \union {graphName[k]}
                  /\ UNCHANGED graphName
=============================================================================
