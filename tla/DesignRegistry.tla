--------------------------- MODULE DesignRegistry ---------------------------
(***************************************************************************)
(* The registry of a Design: its graphs by name and in order, aliases, top *)
(* graphs, declared symbols, and the table that gives each graph its       *)
(* GraphId.  Design::clone() builds a second design through the same calls *)
(* on it, which may throw; it is modelled call by call.                    *)
(*                                                                         *)
(* A design is a record, so that the calls are operators on either of the  *)
(* two.  A symbol stands for its own id: interning is one to one within a  *)
(* design, and nothing here compares the ids of two designs.  A call that  *)
(* throws and changes nothing is a call that is not enabled.               *)
(***************************************************************************)
EXTENDS Naturals, Sequences, FiniteSets, TLC

CONSTANTS
  Names,        \* graph names and aliases, the empty one left out
  Contents,     \* what a graph holds
  Blank,        \* the content of a new graph
  Uncloneable,  \* contents at which cloneGraphContents throws
  TopsByName,   \* TRUE when clients pass markAsTop a graph's own name only
  NoName,
  MaxGraphs     \* bound on the GraphIds of a design

ASSUME RegistryAssumption ==
  /\ Blank \in Contents \ Uncloneable
  /\ NoName \notin Names
  /\ TopsByName \in BOOLEAN
  /\ MaxGraphs \in Nat

VARIABLES
  design,  \* the design the clients work on
  copy,    \* the design that clone() is building
  pc,      \* "client", the loop of clone() that runs, "cloned" or "threw"
  at       \* the position of that loop

vars == <<design, copy, pc, at>>
Phases == {"client", "graphs", "aliases", "tops", "declared", "cloned", "threw"}

\* Partial maps, and lists that hold a name at most once.
MapsTo(S) == UNION {[D -> S] : D \in SUBSET Names}
Put(f, n, v) == [m \in DOMAIN f \cup {n} |-> IF m = n THEN v ELSE f[m]]
Drop(f, n) == [m \in DOMAIN f \ {n} |-> f[m]]
In(list, n) == \E i \in DOMAIN list : list[i] = n
Without(list, n) ==
  IF ~In(list, n) THEN list
  ELSE LET i == CHOOSE i \in DOMAIN list : list[i] = n
       IN  [j \in 1..(Len(list) - 1) |-> IF j < i THEN list[j] ELSE list[j + 1]]
With(list, n) == IF In(list, n) THEN list ELSE Append(list, n)

-----------------------------------------------------------------------------
(* The calls on one design.                                                *)

EmptyDesign ==
  [graphs |-> [n \in {} |-> Blank], ids |-> [n \in {} |-> 0], order |-> <<>>,
   aliases |-> [n \in {} |-> NoName], tops |-> <<>>, declared |-> <<>>,
   symbols |-> {}, owner |-> <<>>]

\* A name and an alias share one name space; a graph's own name comes first.
Resolve(d, n) ==
  IF n \in DOMAIN d.graphs THEN n
  ELSE IF n \in DOMAIN d.aliases /\ d.aliases[n] \in DOMAIN d.graphs THEN d.aliases[n]
  ELSE NoName
Known(d, n) == Resolve(d, n) # NoName

Intern(d, n) == [d EXCEPT !.symbols = @ \cup {n}]

\* allocateGraphId: ids are handed out in order and never again.
CanAllocate(d, n) == n \notin DOMAIN d.ids
\* Mutant: a released id is handed out again.
AllocateFreeGraphId(d, n) ==
  LET free == {i \in DOMAIN d.owner : d.owner[i] = NoName}
      id   == IF free = {} THEN Len(d.owner) + 1 ELSE CHOOSE i \in free : TRUE
  IN  [d EXCEPT !.owner = [i \in 1..(IF free = {} THEN id ELSE Len(@)) |-> IF i = id THEN n ELSE @[i]],
                !.ids = Put(@, n, id)]
AllocateGraphId(d, n) ==
  [d EXCEPT !.owner = Append(@, n), !.ids = Put(@, n, Len(d.owner) + 1)]
ReleaseGraphId(d, n) ==
  IF n \notin DOMAIN d.ids THEN d
  ELSE [d EXCEPT !.owner = [@ EXCEPT ![d.ids[n]] = NoName], !.ids = Drop(@, n)]

AddGraph(d, n, content) ==
  [AllocateGraphId(Intern(d, n), n)
     EXCEPT !.graphs = Put(@, n, content), !.order = Append(@, n)]
CanCreate(d, n) == n \notin DOMAIN d.graphs /\ Len(d.owner) < MaxGraphs

AddDeclared(d, n) == [d EXCEPT !.declared = With(@, n)]
RemoveDeclared(d, n) == [d EXCEPT !.declared = Without(@, n)]

\* Mutant: aliases of a deleted graph stay.
EraseGraphKeepsAliases(d, n) ==
  [ReleaseGraphId(RemoveDeclared(d, n), n)
     EXCEPT !.graphs = Drop(@, n), !.order = Without(@, n), !.tops = Without(@, n)]
\* Mutant: a deleted graph stays a top graph.
EraseGraphKeepsTop(d, n) ==
  [ReleaseGraphId(RemoveDeclared(d, n), n)
     EXCEPT !.graphs = Drop(@, n), !.order = Without(@, n),
            !.aliases = [a \in {b \in DOMAIN @ : @[b] # n} |-> @[a]]]
\* deleteGraph on the resolved name: the list of tops loses the graph's own
\* name, not the aliases it may hold.
EraseGraph(d, n) ==
  [ReleaseGraphId(RemoveDeclared(d, n), n)
     EXCEPT !.graphs = Drop(@, n), !.order = Without(@, n), !.tops = Without(@, n),
            !.aliases = [a \in {b \in DOMAIN @ : @[b] # n} |-> @[a]]]

RegisterAlias(d, a, n) == [d EXCEPT !.aliases = Put(@, a, n)]
AliasesOf(d, n) == {a \in DOMAIN d.aliases : d.aliases[a] = n}
\* The text of the argument is stored, whatever it resolves to.
MarkAsTop(d, n) == [d EXCEPT !.tops = With(@, n)]
UnmarkAsTop(d, n) == [d EXCEPT !.tops = Without(@, n)]

-----------------------------------------------------------------------------
(* What a client may do.                                                   *)

Init ==
  /\ design = EmptyDesign
  /\ copy = EmptyDesign
  /\ pc = "client"
  /\ at = 1

Client(d) == pc = "client" /\ design' = d /\ UNCHANGED <<copy, pc, at>>

CreateGraph(n) ==
  /\ CanCreate(design, n)
  /\ IF CanAllocate(design, n) THEN Client(AddGraph(design, n, Blank))
     ELSE Client(Intern(design, n))

DeleteGraph(n) == Known(design, n) /\ Client(EraseGraph(design, Resolve(design, n)))

\* When the contents cannot be cloned the new graph stays, with what was
\* copied so far.
CloneGraph(source, n, partial) ==
  /\ Known(design, source)
  /\ CanCreate(design, n)
  /\ LET content == design.graphs[Resolve(design, source)]
     IN  IF ~CanAllocate(design, n) THEN Client(Intern(design, n))
         ELSE Client(AddGraph(design, n, IF content \in Uncloneable THEN partial ELSE content))

EditGraph(n, content) ==
  /\ n \in DOMAIN design.graphs
  /\ Client([design EXCEPT !.graphs = Put(@, n, content)])

RegisterGraphAlias(a, n) == n \in DOMAIN design.graphs /\ Client(RegisterAlias(design, a, n))

MarkTop(n) ==
  /\ Known(design, n)
  /\ TopsByName => n \in DOMAIN design.graphs
  /\ Client(MarkAsTop(design, n))
UnmarkTop(n) == Known(design, n) /\ Client(UnmarkAsTop(design, n))

InternSymbol(n) == Client(Intern(design, n))
DeclareSymbol(n) == n \in design.symbols /\ Client(AddDeclared(design, n))
UndeclareSymbol(n) == n \in design.symbols /\ Client(RemoveDeclared(design, n))
ClearDeclared == Client([design EXCEPT !.declared = <<>>])

ClientStep ==
  \/ \E n \in Names :
       \/ CreateGraph(n)
       \/ DeleteGraph(n)
       \/ MarkTop(n)
       \/ UnmarkTop(n)
       \/ InternSymbol(n)
       \/ DeclareSymbol(n)
       \/ UndeclareSymbol(n)
       \/ \E m \in Names : RegisterGraphAlias(n, m)
       \/ \E m \in Names, partial \in Contents \ Uncloneable : CloneGraph(m, n, partial)
       \/ \E content \in Contents : EditGraph(n, content)
  \/ ClearDeclared

-----------------------------------------------------------------------------
(* Design::clone(): four loops over the lists of the source.               *)

StartClone ==
  /\ pc = "client"
  /\ copy' = EmptyDesign /\ pc' = "graphs" /\ at' = 1
  /\ UNCHANGED design

Loop(phase, list, next) ==
  /\ pc = phase
  /\ at > Len(list)
  /\ pc' = next /\ at' = 1
  /\ UNCHANGED <<design, copy>>
Advance(d) == copy' = d /\ at' = at + 1 /\ UNCHANGED <<design, pc>>
Throw == pc' = "threw" /\ UNCHANGED <<design, copy, at>>

CopyGraph ==
  /\ pc = "graphs"
  /\ at <= Len(design.order)
  /\ LET n == design.order[at]
     IN  IF /\ n \in DOMAIN design.graphs
            /\ n \notin DOMAIN copy.graphs /\ CanAllocate(copy, n)
            /\ design.graphs[n] \notin Uncloneable
         THEN Advance(AddGraph(copy, n, design.graphs[n]))
         ELSE Throw

\* Mutant: registers the aliases of the first graph only.
CopyAliasesOnce ==
  /\ pc = "aliases"
  /\ at <= Len(design.order)
  /\ LET n == design.order[at]
         A == IF at = 1 THEN AliasesOf(design, n) ELSE {}
     IN  IF n \in DOMAIN copy.graphs
         THEN Advance([copy EXCEPT !.aliases =
                         [a \in DOMAIN @ \cup A |-> IF a \in A THEN n ELSE @[a]]])
         ELSE Throw
CopyAliases ==
  /\ pc = "aliases"
  /\ at <= Len(design.order)
  /\ LET n == design.order[at]
         A == AliasesOf(design, n)
     IN  IF n \in DOMAIN copy.graphs
         THEN Advance([copy EXCEPT !.aliases =
                         [a \in DOMAIN @ \cup A |-> IF a \in A THEN n ELSE @[a]]])
         ELSE Throw

CopyTop ==
  /\ pc = "tops"
  /\ at <= Len(design.tops)
  /\ IF Known(copy, design.tops[at]) THEN Advance(MarkAsTop(copy, design.tops[at])) ELSE Throw

CopyDeclared ==
  /\ pc = "declared"
  /\ at <= Len(design.declared)
  /\ Advance(AddDeclared(Intern(copy, design.declared[at]), design.declared[at]))

\* The caller goes on with the copy, or with the source.
Adopt == pc = "cloned" /\ design' = copy /\ pc' = "client" /\ at' = 1 /\ UNCHANGED copy
Discard ==
  /\ pc \in {"cloned", "threw"}
  /\ pc' = "client" /\ copy' = EmptyDesign /\ at' = 1
  /\ UNCHANGED design

CloneStep ==
  \/ StartClone
  \/ CopyGraph
  \/ CopyAliases
  \/ CopyTop
  \/ CopyDeclared
  \/ Loop("graphs", design.order, "aliases")
  \/ Loop("aliases", design.order, "tops")
  \/ Loop("tops", design.tops, "declared")
  \/ Loop("declared", design.declared, "cloned")
  \/ Adopt
  \/ Discard

Next == ClientStep \/ CloneStep

Spec == Init /\ [][Next]_vars

-----------------------------------------------------------------------------
(* Properties.                                                             *)

Once(list) == \A i, j \in DOMAIN list : list[i] = list[j] => i = j
DesignType(d) ==
  /\ d \in [graphs : MapsTo(Contents), ids : MapsTo(1..MaxGraphs), order : Seq(Names),
            aliases : MapsTo(Names), tops : Seq(Names), declared : Seq(Names),
            symbols : SUBSET Names, owner : Seq(Names \cup {NoName})]
  /\ Len(d.owner) <= MaxGraphs

\* Both designs are well formed records, and the position of a loop is a
\* position of its list or the one after it.
TypeOK ==
  /\ DesignType(design)
  /\ DesignType(copy)
  /\ pc \in Phases
  /\ at \in Nat \ {0}

\* The list that clone, the writers and the passes walk names exactly the
\* graphs of the map, each once (addGraphInternal, deleteGraph).
OrderExact == \A d \in {design, copy} : Once(d.order) /\ {d.order[i] : i \in DOMAIN d.order} = DOMAIN d.graphs

\* No alias outlives its graph: an alias that is found by name but leads
\* nowhere would make deleteGraph erase what does not exist.
AliasesResolve == \A d \in {design, copy} : \A a \in DOMAIN d.aliases : d.aliases[a] \in DOMAIN d.graphs

\* The two maps of the symbol table agree with the graphs: a graph has an id,
\* the id is its own, and createGraph never meets a name that still has one.
IdsExact ==
  \A d \in {design, copy} :
    /\ DOMAIN d.ids = DOMAIN d.graphs
    /\ \A n \in DOMAIN d.ids : d.ids[n] \in DOMAIN d.owner /\ d.owner[d.ids[n]] = n
    /\ \A i \in DOMAIN d.owner : d.owner[i] # NoName => d.owner[i] \in DOMAIN d.ids /\ d.ids[d.owner[i]] = i

\* A ValueId carries the id of its graph: an id given to a second graph would
\* let a stale ValueId of a deleted graph pass for one of the new graph.
IdsNeverReused ==
  [][pc = "client" =>
       /\ Len(design'.owner) >= Len(design.owner)
       /\ \A n \in DOMAIN design'.ids :
             \/ n \in DOMAIN design.ids /\ design'.ids[n] = design.ids[n]
             \/ design'.ids[n] > Len(design.owner)]_vars

\* Every declared symbol is in the symbol table, once.
DeclaredInterned == \A d \in {design, copy} : Once(d.declared) /\ \A i \in DOMAIN d.declared : d.declared[i] \in d.symbols

\* The five tables of a design agree after any calls, and so do those of a
\* clone after each of its calls: deleteGraph and the calls of clone clear and
\* fill them one by one, and a name that one of them forgets or keeps is what
\* the next lookup, clone or createGraph of that name finds.
TablesAgree == OrderExact /\ AliasesResolve /\ IdsExact /\ DeclaredInterned

\* Every name in the list of tops finds a graph, for clients that mark graphs
\* by their own names.
TopsResolve == TopsByName => \A d \in {design, copy} : \A i \in DOMAIN d.tops : Known(d, d.tops[i])

\* clone() throws only at a graph whose contents cannot be cloned.
CloneThrowsOnlyAtContents ==
  pc = "threw" => \E n \in DOMAIN design.graphs : design.graphs[n] \in Uncloneable

\* A finished copy has the graphs, contents, order, aliases, tops and declared
\* symbols of the source.
CloneIsWhole ==
  pc = "cloned" =>
    /\ copy.graphs = design.graphs /\ copy.order = design.order
    /\ copy.aliases = design.aliases /\ copy.tops = design.tops
    /\ copy.declared = design.declared

\* For model checking: the names of graphs are interchangeable.
NameSymmetry == Permutations(Names)
=============================================================================
