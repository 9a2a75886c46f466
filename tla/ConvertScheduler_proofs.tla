----------------------- MODULE ConvertScheduler_proofs -----------------------
(***************************************************************************)
(* Proofs about the parallel conversion, for any number of workers and any *)
(* module hierarchy.                                                       *)
(*                                                                         *)
(* ConvertInv is inductive.  Its parts, in the order of the proofs:        *)
(*   TypeOK     the types, and each thread at work holds a key;            *)
(*   CountInv   the counter is the number of tasks left;                   *)
(*   PlacesInv  a key is at one place, and was scheduled to get there;     *)
(*   DiagInv    where messages are, and why a conversion is cancelled;     *)
(*   StageInv   the status of a key follows the stage of its worker;       *)
(*   ClosedInv  the queue is closed only when nothing needs it;            *)
(*   FoundInv   a module is built after its instances were found;          *)
(*   SettleInv  no scheduled key is lost between two places;               *)
(*   TopsInv    a top that was finalized stays marked or warned about.     *)
(* A part may rest on those above it.  At the end, each step of the        *)
(* conversion is a step of ConvertRun or changes nothing that it sees.     *)
(***************************************************************************)
EXTENDS ConvertScheduler, TLAPS, FiniteSetTheorems

USE SchedulerAssumption DEF SchedulerAssumption, Threads, At

-----------------------------------------------------------------------------
(* Types. *)

LEMMA TypeInit == Init => TypeOK
<1> SUFFICES ASSUME Init PROVE TypeOK
  OBVIOUS
<1> USE DEF Init
<1>1. QueueTypeOK
  <2>1. queue = <<>> /\ closed = FALSE /\ asleep = {}
    BY DEF QueueInit
  <2>2. <<>> \in Seq(Keys)
    OBVIOUS
  <2>3. queue \in Seq(Keys)
    BY <2>1, <2>2
  <2>4. asleep \in SUBSET Workers
    BY <2>1
  <2>5. closed \in BOOLEAN
    BY <2>1
  <2> QED
    BY <2>3, <2>4, <2>5 DEF QueueTypeOK
<1>2. CacheTypeOK
  BY DEF CacheInit, CacheTypeOK, Statuses
<1>3. NamingTypeOK
  BY DEF NamingInit, NamingTypeOK
<1>4. /\ scheduled \in SUBSET Keys /\ ready \in SUBSET Keys
      /\ pending \in Nat /\ cancel \in BOOLEAN /\ dropped \in Nat
  OBVIOUS
<1>5. buffer \in [Threads -> SUBSET Messages] /\ messages \in SUBSET Messages
  OBVIOUS
<1>6. /\ hasError \in BOOLEAN /\ outcome \in {"none", "design", "abort"}
      /\ tops \in SUBSET (Names \union {Unnamed})
      /\ aliases \in [Names -> Names \union {Unnamed}]
  OBVIOUS
<1>7. DataOK
  BY <1>1, <1>2, <1>3, <1>4, <1>5, <1>6 DEF DataOK
<1>8. /\ pc \in [Threads -> WorkerPcs \union MainPcs]
      /\ pc[Main] \in MainPcs /\ \A w \in Workers : pc[w] \in WorkerPcs
  BY DEF WorkerPcs, MainPcs
<1>9. \A t \in Threads : pc[t] \notin TaskPcs /\ pc[t] \notin EnqueuePcs
  BY DEF TaskPcs, EnqueuePcs, ConvertPcs, CatchPcs, RequestPcs
<1>10. ret \in [Threads -> FallibleStages \union {"again", "flush"}]
  BY DEF FallibleStages
<1>11. key \in [Threads -> Keys \union {NoKey}] /\ next \in [Threads -> Nat \ {0}]
  OBVIOUS
<1>12. ControlOK
  BY <1>8, <1>9, <1>10, <1>11 DEF ControlOK
<1> QED
  BY <1>7, <1>12 DEF TypeOK

\* A step of t that only moves t to a place where it may be keeps ControlOK.
LEMMA GotoOK ==
  ASSUME ControlOK, NEW t \in Threads, NEW l, Goto(t, l), UNCHANGED <<key, next, ret>>,
         IF t = Main THEN l \in MainPcs ELSE l \in WorkerPcs,
         t # Main /\ l \in TaskPcs => key[t] \in Keys,
         l \in EnqueuePcs => next[t] <= Len(Instances(t))
  PROVE  ControlOK'
BY DEF ControlOK, Goto, Instances

\* The same when t also goes on to its next instance; it is not enqueueing then.
LEMMA CollectNextOK ==
  ASSUME ControlOK, NEW t \in Threads, CollectNext(t), UNCHANGED <<key, ret>>,
         t # Main => key[t] \in Keys
  PROVE  ControlOK'
<1>1. CollectPc(t) \notin EnqueuePcs
  BY DEF CollectPc, EnqueuePcs
<1>2. IF t = Main THEN CollectPc(t) \in MainPcs ELSE CollectPc(t) \in WorkerPcs
  BY DEF CollectPc, MainPcs, WorkerPcs, TaskPcs, ConvertPcs
<1> QED
  BY <1>1, <1>2 DEF ControlOK, CollectNext, Goto, Instances

\* The instance an enqueueing thread looks at is a key.
LEMMA InstanceIsKey ==
  ASSUME ControlOK, NEW t \in Threads, pc[t] \in EnqueuePcs
  PROVE  Instance(t) \in Keys
<1>1. t # Main => key[t] \in Keys
  BY DEF ControlOK, TaskPcs
<1>2. Instances(t) \in Seq(Keys)
  BY <1>1 DEF Instances
<1>3. next[t] \in 1..Len(Instances(t))
  BY DEF ControlOK
<1> QED
  BY <1>2, <1>3 DEF Instance

USE DEF queueVars, cacheVars, namingVars, registryVars, diagVars, endVars

LEMMA DataFrame ==
  ASSUME DataOK,
         UNCHANGED <<queueVars, cacheVars, namingVars, registryVars, pending, cancel, dropped,
                     diagVars, endVars>>
  PROVE  DataOK'
BY DEF DataOK, QueueTypeOK, CacheTypeOK, NamingTypeOK

LEMMA PushOK ==
  ASSUME QueueTypeOK, NEW k \in Keys, TryPushAccepts(k) \/ TryPushRefuses
  PROVE  QueueTypeOK'
<1>1. queue' \in Seq(Keys)
  <2>1. CASE TryPushAccepts(k)
    <3>1. queue' = Append(queue, k) /\ queue \in Seq(Keys)
      BY <2>1 DEF TryPushAccepts, QueueTypeOK
    <3> QED
      BY <3>1
  <2>2. CASE TryPushRefuses
    BY <2>2 DEF TryPushRefuses, QueueTypeOK
  <2> QED
    BY <2>1, <2>2
<1>2. asleep' \subseteq asleep
  BY DEF TryPushAccepts, TryPushRefuses, NotifyOne
<1>3. closed' \in BOOLEAN
  BY DEF TryPushAccepts, TryPushRefuses, QueueTypeOK
<1> QED
  BY <1>1, <1>2, <1>3 DEF QueueTypeOK

LEMMA TypeEnqueue ==
  ASSUME TypeOK, NEW t \in Threads, Enqueue(t)
  PROVE  TypeOK'
<1> USE DEF TypeOK
<1>k. pc[t] \in TaskPcs /\ t # Main => key[t] \in Keys
  BY DEF ControlOK
<1>c. CollectPc(t) = pc[t] /\ t # Main => key[t] \in Keys
  BY <1>k DEF CollectPc, TaskPcs, ConvertPcs
<1>w. EnqueuePcs \subseteq MainPcs /\ EnqueuePcs \subseteq TaskPcs /\ TaskPcs \subseteq WorkerPcs
  BY DEF MainPcs, TaskPcs, WorkerPcs
<1>1. CASE EnqueueCancelled(t)
  <2>1. DataOK'
    BY <1>1, DataFrame DEF EnqueueCancelled
  <2>2. ControlOK'
    BY <1>1, <1>c, CollectNextOK DEF EnqueueCancelled, Collecting
  <2> QED
    BY <2>1, <2>2
<1>2. CASE EnqueueCheck(t)
  <2>1. DataOK'
    BY <1>2, DataFrame DEF EnqueueCheck
  <2>2. "schedule" \in EnqueuePcs
    BY DEF EnqueuePcs
  <2>3. ControlOK'
    BY <1>2, <1>c, <1>w, <2>2, GotoOK DEF EnqueueCheck, Collecting
  <2> QED
    BY <2>1, <2>3
<1>3. CASE EnqueueSchedule(t)
  <2>0. pc[t] \in EnqueuePcs /\ "count" \in EnqueuePcs
    BY <1>3 DEF EnqueueSchedule, EnqueuePcs
  <2>1. Instance(t) \in Keys
    BY <2>0, InstanceIsKey
  <2>2. DataOK'
    BY <1>3, <2>1 DEF EnqueueSchedule, DataOK, QueueTypeOK, CacheTypeOK, NamingTypeOK
  <2>3. ControlOK'
    <3>1. CASE CollectNext(t)
      BY <1>3, <3>1, <2>0, <1>k, <1>w, CollectNextOK DEF EnqueueSchedule
    <3>2. CASE Goto(t, "count") /\ UNCHANGED next
      <4>1. next[t] <= Len(Instances(t))
        BY <2>0 DEF ControlOK
      <4> QED
        BY <1>3, <3>2, <4>1, <2>0, <1>k, <1>w, GotoOK DEF EnqueueSchedule
    <3> QED
      BY <1>3, <3>1, <3>2 DEF EnqueueSchedule
  <2> QED
    BY <2>2, <2>3
<1>4. CASE EnqueueCount(t)
  <2>0. pc[t] \in EnqueuePcs /\ "push" \in EnqueuePcs
    BY <1>4 DEF EnqueueCount, EnqueuePcs
  <2>1. DataOK'
    BY <1>4 DEF EnqueueCount, DataOK, QueueTypeOK, CacheTypeOK, NamingTypeOK
  <2>2. next[t] <= Len(Instances(t))
    BY <2>0 DEF ControlOK
  <2>3. ControlOK'
    BY <1>4, <2>0, <2>2, <1>k, <1>w, GotoOK DEF EnqueueCount
  <2> QED
    BY <2>1, <2>3
<1>5. CASE EnqueuePush(t)
  <2>0. pc[t] \in EnqueuePcs /\ "uncount" \in EnqueuePcs
    BY <1>5 DEF EnqueuePush, EnqueuePcs
  <2>1. Instance(t) \in Keys
    BY <2>0, InstanceIsKey
  <2>2. DataOK'
    <3>1. QueueTypeOK'
      BY <1>5, <2>1, PushOK DEF EnqueuePush, DataOK
    <3> QED
      BY <1>5, <3>1 DEF EnqueuePush, DataOK, CacheTypeOK, NamingTypeOK
  <2>3. CASE CollectNext(t)
    <3>1. ControlOK'
      BY <1>5, <2>3, <2>0, <1>k, <1>w, CollectNextOK DEF EnqueuePush
    <3> QED
      BY <3>1, <2>2
  <2>4. CASE Goto(t, "uncount") /\ UNCHANGED next
    <3>1. next[t] <= Len(Instances(t))
      BY <2>0 DEF ControlOK
    <3>2. ControlOK'
      BY <1>5, <2>4, <3>1, <2>0, <1>k, <1>w, GotoOK DEF EnqueuePush
    <3> QED
      BY <3>2, <2>2
  <2> QED
    BY <1>5, <2>3, <2>4 DEF EnqueuePush
<1>6. CASE EnqueueUncount(t)
  <2>0. pc[t] \in EnqueuePcs
    BY <1>6 DEF EnqueueUncount, EnqueuePcs
  <2>1. pending' \in Nat
    BY <1>6 DEF EnqueueUncount, FetchSub, DataOK
  <2>2. DataOK'
    BY <1>6, <2>1 DEF EnqueueUncount, DataOK, QueueTypeOK, CacheTypeOK, NamingTypeOK
  <2>3. ControlOK'
    BY <1>6, <2>0, <1>k, <1>w, CollectNextOK DEF EnqueueUncount
  <2> QED
    BY <2>2, <2>3
<1> QED
  BY <1>1, <1>2, <1>3, <1>4, <1>5, <1>6 DEF Enqueue

LEMMA CloseOK == ASSUME QueueTypeOK, Close PROVE QueueTypeOK'
BY DEF QueueTypeOK, Close, NotifyAll

LEMMA DrainOK == ASSUME QueueTypeOK, Drain PROVE QueueTypeOK'
<1>1. queue' = <<>> /\ <<>> \in Seq(Keys)
  BY DEF Drain
<1> QED
  BY <1>1 DEF QueueTypeOK, Drain, NotifyAll

LEMMA ResolveOK == ASSUME NamingTypeOK, NEW k \in Keys, ResolveGraphName(k) PROVE NamingTypeOK'
<1>1. CASE UNCHANGED graphName
  BY <1>1 DEF ResolveGraphName, NamingTypeOK
<1>2. CASE \E n \in 0..SuffixBound : graphName' = [graphName EXCEPT ![k] = Candidate(k, n)]
  <2>1. PICK n \in 0..SuffixBound : graphName' = [graphName EXCEPT ![k] = Candidate(k, n)]
    BY <1>2
  <2>2. Candidate(k, n) \in Names
    BY NamesAssumption DEF NamesAssumption
  <2>3. graphName' \in [Keys -> Names \union {Unnamed}]
    BY <2>1, <2>2 DEF NamingTypeOK
  <2> QED
    BY <2>3 DEF ResolveGraphName, NamingTypeOK
<1> QED
  BY <1>1, <1>2 DEF ResolveGraphName

LEMMA ResolvedName ==
  ASSUME NamingTypeOK, NEW k \in Keys, ResolveGraphName(k)
  PROVE  graphName'[k] \in Names
<1>1. CASE graphName[k] # Unnamed /\ UNCHANGED graphName
  BY <1>1 DEF NamingTypeOK
<1>2. CASE \E n \in 0..SuffixBound : graphName' = [graphName EXCEPT ![k] = Candidate(k, n)]
  <2>1. PICK n \in 0..SuffixBound : graphName' = [graphName EXCEPT ![k] = Candidate(k, n)]
    BY <1>2
  <2>2. Candidate(k, n) \in Names
    BY NamesAssumption DEF NamesAssumption
  <2> QED
    BY <2>1, <2>2 DEF NamingTypeOK
<1> QED
  BY <1>1, <1>2 DEF ResolveGraphName

LEMMA ClaimOK ==
  ASSUME CacheTypeOK, NEW k \in Keys, TryClaim(k) \/ TryClaimLoses(k)
  PROVE  CacheTypeOK'
<1>1. CASE TryClaimLoses(k)
  BY <1>1 DEF TryClaimLoses, CacheTypeOK
<1>2. CASE TryClaim(k)
  <2>1. artifacts' \in [Keys -> SUBSET ArtifactKinds]
    BY <1>2 DEF TryClaim, CacheTypeOK
  <2>2. status' \in [Keys -> Statuses]
    BY <1>2 DEF TryClaim, CacheTypeOK, Statuses
  <2> QED
    BY <2>1, <2>2 DEF CacheTypeOK
<1> QED
  BY <1>1, <1>2

LEMMA StoreOK ==
  ASSUME CacheTypeOK, NEW k \in Keys,
         StorePlan(k) \/ \E kind \in ArtifactKinds : SetArtifact(k, kind)
  PROVE  CacheTypeOK'
<1>1. CASE StorePlan(k)
  <2>1. artifacts' \in [Keys -> SUBSET ArtifactKinds]
    BY <1>1 DEF StorePlan, CacheTypeOK, ArtifactKinds
  <2>2. status' \in [Keys -> Statuses]
    BY <1>1 DEF StorePlan, CacheTypeOK, Statuses
  <2> QED
    BY <2>1, <2>2 DEF CacheTypeOK
<1>2. ASSUME NEW kind \in ArtifactKinds, SetArtifact(k, kind) PROVE CacheTypeOK'
  BY <1>2 DEF SetArtifact, CacheTypeOK
<1> QED
  BY <1>1, <1>2

LEMMA CreateOK == ASSUME NamingTypeOK, NEW k \in Keys, CreateGraph(k) PROVE NamingTypeOK'
<1>1. graphName[k] \in Names \union {Unnamed}
  BY DEF NamingTypeOK
<1>2. design' = design \union {graphName[k]} /\ graphName' = graphName
  BY DEF CreateGraph
<1> QED
  BY <1>1, <1>2 DEF NamingTypeOK

LEMMA TypeConvert ==
  ASSUME TypeOK, NEW w \in Workers, Convert(w)
  PROVE  TypeOK'
<1> USE DEF TypeOK
<1>m. w \in Threads /\ w # Main
  OBVIOUS
<1>k. pc[w] \in TaskPcs => key[w] \in Keys
  BY DEF ControlOK
<1>p. /\ ConvertPcs \union {"flush", "finSub"} \subseteq TaskPcs \ EnqueuePcs
      /\ TaskPcs \union {"waitPop", "exit"} \subseteq WorkerPcs
      /\ {"waitPop", "exit"} \intersect EnqueuePcs = {}
      /\ "exit" \notin TaskPcs
  BY DEF ConvertPcs, TaskPcs, EnqueuePcs, WorkerPcs, CatchPcs, RequestPcs
<1>g. ASSUME NEW l \in ConvertPcs \union {"flush", "finSub"}, Goto(w, l), key[w] \in Keys,
             UNCHANGED <<key, ret>>, next' = next \/ next' = [next EXCEPT ![w] = 1]
      PROVE  ControlOK'
  <2>1. l \in WorkerPcs /\ l \notin EnqueuePcs
    BY <1>p
  <2>2. /\ pc' \in [Threads -> WorkerPcs \union MainPcs]
        /\ pc'[Main] \in MainPcs /\ \A v \in Workers : pc'[v] \in WorkerPcs
    BY <1>g, <1>m, <2>1 DEF ControlOK, Goto
  <2>3. key' \in [Threads -> Keys \union {NoKey}] /\ next' \in [Threads -> Nat \ {0}]
    <3>1. next \in [Threads -> Nat \ {0}] /\ key \in [Threads -> Keys \union {NoKey}]
      BY DEF ControlOK
    <3>2. [next EXCEPT ![w] = 1] \in [Threads -> Nat \ {0}]
      BY <3>1
    <3> QED
      BY <1>g, <3>1, <3>2
  <2>4. \A v \in Workers : pc'[v] \in TaskPcs => key'[v] \in Keys
    BY <1>g, <1>m DEF ControlOK, Goto
  <2>5. \A t \in Threads : pc'[t] \in EnqueuePcs => next'[t] <= Len(Instances(t)')
    BY <1>g, <1>m, <2>1 DEF ControlOK, Goto, Instances
  <2>6. ret' \in [Threads -> FallibleStages \union {"again", "flush"}]
    BY <1>g DEF ControlOK
  <2> QED
    BY <2>2, <2>3, <2>4, <2>5, <2>6 DEF ControlOK
<1>1. CASE WaitPop(w)
  <2>1. CASE WaitSleeps(w, cancel) /\ UNCHANGED <<pc, key>>
    <3>1. QueueTypeOK'
      BY <2>1 DEF WaitSleeps, DataOK, QueueTypeOK
    <3> QED
      BY <1>1, <2>1, <3>1 DEF WaitPop, DataOK, CacheTypeOK, NamingTypeOK, ControlOK, Instances
  <2>2. CASE WaitStops(cancel) /\ Goto(w, "exit") /\ UNCHANGED key
    <3>1. DataOK'
      BY <1>1, <2>2, DataFrame DEF WaitPop, WaitStops
    <3>2. ControlOK'
      BY <1>1, <2>2, <1>m, <1>p, GotoOK DEF WaitPop
    <3> QED
      BY <3>1, <3>2
  <2>3. CASE WaitTakes(cancel) /\ key' = [key EXCEPT ![w] = Head(queue)] /\ Goto(w, "begin")
    <3>1. Head(queue) \in Keys /\ Tail(queue) \in Seq(Keys)
      BY <2>3 DEF WaitTakes, DataOK, QueueTypeOK
    <3>2. QueueTypeOK'
      BY <2>3, <3>1 DEF WaitTakes, DataOK, QueueTypeOK
    <3>3. DataOK'
      BY <1>1, <3>2 DEF WaitPop, DataOK, CacheTypeOK, NamingTypeOK
    <3>4. "begin" \in ConvertPcs
      BY DEF ConvertPcs
    <3>5. ControlOK'
      BY <1>1, <2>3, <3>1, <3>4, <1>m, <1>p DEF WaitPop, ControlOK, Goto, Instances
    <3> QED
      BY <3>3, <3>5
  <2> QED
    BY <1>1, <2>1, <2>2, <2>3 DEF WaitPop
<1>2. CASE Begin(w)
  <2>1. DataOK'
    BY <1>2, DataFrame DEF Begin
  <2>2. ControlOK'
    BY <1>2, <1>g, <1>k, <1>p DEF Begin, ConvertPcs
  <2> QED
    BY <2>1, <2>2
<1>3. CASE Enter(w)
  <2>1. DataOK'
    BY <1>3, DataFrame DEF Enter
  <2>2. ControlOK'
    BY <1>3, <1>g, <1>k, <1>p DEF Enter, ConvertPcs
  <2> QED
    BY <2>1, <2>2
<1>4. CASE Claim(w)
  <2>1. key[w] \in Keys
    BY <1>4, <1>k, <1>p DEF Claim, ConvertPcs
  <2>2. CacheTypeOK'
    BY <1>4, <2>1, ClaimOK DEF Claim, DataOK
  <2>3. DataOK'
    BY <1>4, <2>2 DEF Claim, DataOK, QueueTypeOK, NamingTypeOK
  <2>4. ControlOK'
    BY <1>4, <2>1, <1>g DEF Claim, ConvertPcs
  <2> QED
    BY <2>3, <2>4
<1>5. CASE PlanDone(w)
  <2>1. DataOK'
    BY <1>5, DataFrame DEF PlanDone
  <2>2. ControlOK'
    BY <1>5, <1>g, <1>k, <1>p DEF PlanDone, ConvertPcs
  <2> QED
    BY <2>1, <2>2
<1>6. CASE LowerDone(w)
  <2>1. DataOK'
    BY <1>6, DataFrame DEF LowerDone
  <2>2. ControlOK'
    BY <1>6, <1>g, <1>k, <1>p DEF LowerDone, ConvertPcs
  <2> QED
    BY <2>1, <2>2
<1>7. CASE NameGraph(w)
  <2>1. key[w] \in Keys
    BY <1>7, <1>k, <1>p DEF NameGraph, ConvertPcs
  <2>2. NamingTypeOK'
    BY <1>7, <2>1, ResolveOK DEF NameGraph, DataOK
  <2>3. DataOK'
    BY <1>7, <2>2 DEF NameGraph, DataOK, QueueTypeOK, CacheTypeOK
  <2>4. ControlOK'
    BY <1>7, <2>1, <1>g DEF NameGraph, ConvertPcs
  <2> QED
    BY <2>3, <2>4
<1>8. CASE Create(w)
  <2>1. key[w] \in Keys
    BY <1>8, <1>k, <1>p DEF Create, ConvertPcs
  <2>2. NamingTypeOK'
    BY <1>8, <2>1, CreateOK DEF Create, DataOK
  <2>3. DataOK'
    BY <1>8, <2>2 DEF Create, DataOK, QueueTypeOK, CacheTypeOK
  <2>4. ControlOK'
    BY <1>8, <2>1, <1>g DEF Create, ConvertPcs
  <2> QED
    BY <2>3, <2>4
<1>9. CASE NameInstance(w)
  <2>1. key[w] \in Keys /\ "refs" \notin EnqueuePcs
    BY <1>9, <1>k, <1>p DEF NameInstance, ConvertPcs
  <2>2. Instance(w) \in Keys
    BY <1>9, <2>1, <1>m DEF NameInstance, Instance, Instances, ControlOK
  <2>3. NamingTypeOK'
    <3>1. CASE UNCHANGED namingVars
      BY <3>1 DEF DataOK, NamingTypeOK
    <3>2. CASE ResolveGraphName(Instance(w))
      BY <3>2, <2>2, ResolveOK DEF DataOK
    <3> QED
      BY <1>9, <3>1, <3>2 DEF NameInstance
  <2>4. DataOK'
    BY <1>9, <2>3 DEF NameInstance, DataOK, QueueTypeOK, CacheTypeOK
  <2>5. ControlOK'
    BY <1>9, <2>1, <1>m DEF NameInstance, ControlOK, Instances
  <2> QED
    BY <2>4, <2>5
<1>10. CASE AssemblyDone(w)
  <2>1. DataOK'
    BY <1>10, DataFrame DEF AssemblyDone
  <2>2. ControlOK'
    BY <1>10, <1>g, <1>k, <1>p DEF AssemblyDone, ConvertPcs
  <2> QED
    BY <2>1, <2>2
<1>11. CASE Store(w)
  <2>1. key[w] \in Keys
    BY <1>11, <1>k, <1>p DEF Store, ConvertPcs
  <2>2. CacheTypeOK'
    BY <1>11, <2>1, StoreOK DEF Store, DataOK, ArtifactKinds
  <2>3. DataOK'
    BY <1>11, <2>2 DEF Store, DataOK, QueueTypeOK, NamingTypeOK
  <2>4. ControlOK'
    BY <1>11, <2>1, <1>g DEF Store, ConvertPcs
  <2> QED
    BY <2>3, <2>4
<1>12. CASE MarkReady(w)
  <2>1. DataOK'
    BY <1>12 DEF MarkReady, DataOK, QueueTypeOK, CacheTypeOK, NamingTypeOK
  <2>2. ControlOK'
    BY <1>12, <1>g, <1>k, <1>p DEF MarkReady, ConvertPcs
  <2> QED
    BY <2>1, <2>2
<1>13. CASE Flush(w)
  <2>1. DataOK'
    BY <1>13 DEF Flush, DataOK, QueueTypeOK, CacheTypeOK, NamingTypeOK
  <2>2. ControlOK'
    BY <1>13, <1>g, <1>k, <1>p DEF Flush
  <2> QED
    BY <2>1, <2>2
<1> QED
  BY <1>1, <1>2, <1>3, <1>4, <1>5, <1>6, <1>7, <1>8, <1>9, <1>10, <1>11, <1>12, <1>13
     DEF Convert

LEMMA NotifyOK ==
  ASSUME ControlOK, NEW w \in Workers, NEW l \in WorkerPcs \ EnqueuePcs, NotifyDone(w, l),
         UNCHANGED <<key, next, ret>>, l \in TaskPcs => key[w] \in Keys
  PROVE  ControlOK'
<1>1. {"parked", "await"} \subseteq MainPcs \ EnqueuePcs
  BY DEF MainPcs, EnqueuePcs
<1>2. /\ pc' \in [Threads -> WorkerPcs \union MainPcs]
      /\ pc'[Main] \in MainPcs /\ \A v \in Workers : pc'[v] \in WorkerPcs
  BY <1>1 DEF ControlOK, NotifyDone
<1>3. \A v \in Workers : pc'[v] \in TaskPcs => key[v] \in Keys
  BY DEF ControlOK, NotifyDone
<1>4. \A t \in Threads : pc'[t] \in EnqueuePcs => next[t] <= Len(Instances(t))
  BY <1>1 DEF ControlOK, NotifyDone
<1> QED
  BY <1>2, <1>3, <1>4 DEF ControlOK, Instances

LEMMA TypeFinish ==
  ASSUME TypeOK, NEW w \in Workers, Finish(w)
  PROVE  TypeOK'
<1> USE DEF TypeOK
<1>m. w \in Threads /\ w # Main
  OBVIOUS
<1>p. FinishPcs \union {"waitPop"} \subseteq WorkerPcs \ (TaskPcs \union EnqueuePcs)
  BY DEF ConvertPcs, TaskPcs, EnqueuePcs, WorkerPcs, CatchPcs, RequestPcs, FinishPcs
<1>1. CASE FinSub(w)
  <2>1. pending' \in Nat
    BY <1>1 DEF FinSub, FetchSub, DataOK
  <2>2. DataOK'
    BY <1>1, <2>1 DEF FinSub, DataOK, QueueTypeOK, CacheTypeOK, NamingTypeOK
  <2>3. ControlOK'
    BY <1>1, <1>m, <1>p, GotoOK DEF FinSub, FinishPcs
  <2> QED
    BY <2>2, <2>3
<1>2. CASE FinStore(w)
  <2>1. DataOK'
    BY <1>2 DEF FinStore, DataOK, QueueTypeOK, CacheTypeOK, NamingTypeOK
  <2>2. ControlOK'
    BY <1>2, <1>m, <1>p, GotoOK DEF FinStore, FinishPcs
  <2> QED
    BY <2>1, <2>2
<1>3. CASE FinClose(w)
  <2>1. QueueTypeOK'
    BY <1>3, CloseOK DEF FinClose, DataOK
  <2>2. DataOK'
    BY <1>3, <2>1 DEF FinClose, DataOK, CacheTypeOK, NamingTypeOK
  <2>3. ControlOK'
    BY <1>3, <1>m, <1>p, GotoOK DEF FinClose, FinishPcs
  <2> QED
    BY <2>2, <2>3
<1>4. CASE FinNotify(w)
  <2>1. DataOK'
    BY <1>4, DataFrame DEF FinNotify
  <2>2. ControlOK'
    BY <1>4, <1>p, NotifyOK DEF FinNotify
  <2> QED
    BY <2>1, <2>2
<1> QED
  BY <1>1, <1>2, <1>3, <1>4 DEF Finish

LEMMA ReportOK ==
  ASSUME DataOK, NEW w \in Workers, NEW m \in Messages, Report(w, m),
         UNCHANGED <<queueVars, cacheVars, namingVars, registryVars, pending, cancel, dropped,
                     endVars>>
  PROVE  DataOK'
<1>1. buffer' \in [Threads -> SUBSET Messages]
  BY DEF DataOK, Report
<1> QED
  BY <1>1 DEF DataOK, Report, QueueTypeOK, CacheTypeOK, NamingTypeOK

LEMMA TypeError ==
  ASSUME TypeOK, NEW w \in Workers, ReportError(w) \/ Throw(w) \/ Request(w)
  PROVE  TypeOK'
<1> USE DEF TypeOK
<1>m. w \in Threads /\ w # Main
  OBVIOUS
<1>k. pc[w] \in TaskPcs => key[w] \in Keys
  BY DEF ControlOK
<1>p. /\ FallibleStages \union RequestPcs \union CatchPcs \union {"create", "flush"}
           \subseteq TaskPcs \ EnqueuePcs
      /\ TaskPcs \subseteq WorkerPcs
  BY DEF ConvertPcs, TaskPcs, EnqueuePcs, WorkerPcs, CatchPcs, RequestPcs, FallibleStages
<1>r. /\ ret \in [Threads -> FallibleStages \union {"again", "flush"}]
      /\ ret[w] \in TaskPcs \ EnqueuePcs
  BY <1>p, <1>m DEF ControlOK, CatchPcs
<1>g. ASSUME NEW l \in TaskPcs \ EnqueuePcs, Goto(w, l), key[w] \in Keys, UNCHANGED <<key, next>>,
             NEW r \in FallibleStages \union {"again", "flush"},
             ret' = ret \/ ret' = [ret EXCEPT ![w] = r]
      PROVE  ControlOK'
  <2>1. ret' \in [Threads -> FallibleStages \union {"again", "flush"}]
    <3>1. [ret EXCEPT ![w] = r] \in [Threads -> FallibleStages \union {"again", "flush"}]
      BY <1>g, <1>r
    <3> QED
      BY <1>g, <1>r, <3>1
  <2>2. /\ pc' \in [Threads -> WorkerPcs \union MainPcs]
        /\ pc'[Main] \in MainPcs /\ \A v \in Workers : pc'[v] \in WorkerPcs
    BY <1>g, <1>m, <1>p DEF ControlOK, Goto
  <2>3. \A v \in Workers : pc'[v] \in TaskPcs => key[v] \in Keys
    BY <1>g, <1>m DEF ControlOK, Goto
  <2>4. \A t \in Threads : pc'[t] \in EnqueuePcs => next[t] <= Len(Instances(t))
    BY <1>g, <1>m DEF ControlOK, Goto
  <2> QED
    BY <1>g, <2>1, <2>2, <2>3, <2>4 DEF ControlOK, Instances
<1>1. CASE ReportError(w)
  <2>1. key[w] \in Keys /\ pc[w] \in TaskPcs \ EnqueuePcs
    BY <1>1, <1>k, <1>p DEF ReportError
  <2>2. <<key[w], "error">> \in Messages
    BY <2>1 DEF Messages, Errors
  <2>3. DataOK'
    BY <1>1, <2>2, ReportOK DEF ReportError
  <2>4. CASE Goto(w, "reqCas") /\ ret' = [ret EXCEPT ![w] = pc[w]]
    BY <1>1, <2>4, <2>1, <2>3, <1>p, <1>g DEF ReportError, RequestPcs
  <2>5. CASE UNCHANGED <<pc, ret>>
    <3>1. ControlOK'
      BY <1>1, <2>5 DEF ReportError, ControlOK, Instances
    <3> QED
      BY <3>1, <2>3
  <2> QED
    BY <1>1, <2>4, <2>5 DEF ReportError
<1>2. CASE Throw(w)
  <2>1. key[w] \in Keys
    BY <1>2, <1>k, <1>p DEF Throw
  <2>2. DataOK'
    BY <1>2, DataFrame DEF Throw
  <2>3. ControlOK'
    BY <1>2, <2>1, <1>p, <1>g DEF Throw, CatchPcs
  <2> QED
    BY <2>2, <2>3
<1>3. CASE Catch(w)
  <2>1. key[w] \in Keys
    BY <1>3, <1>k, <1>p DEF Catch, CatchPcs
  <2>2. <<key[w], "workerFailed">> \in Messages
    BY <2>1 DEF Messages, Errors
  <2>3. DataOK'
    BY <1>3, <2>2, ReportOK DEF Catch
  <2>4. ControlOK'
    BY <1>3, <2>1, <1>p, <1>g DEF Catch, RequestPcs
  <2> QED
    BY <2>3, <2>4
<1>4. CASE RequestAgain(w)
  <2>1. DataOK'
    BY <1>4, DataFrame DEF RequestAgain
  <2>2. ControlOK'
    BY <1>4, <1>k, <1>p, <1>g DEF RequestAgain, RequestPcs, CatchPcs
  <2> QED
    BY <2>1, <2>2
<1>5. CASE RequestCas(w)
  <2>1. DataOK'
    BY <1>5 DEF RequestCas, DataOK, QueueTypeOK, CacheTypeOK, NamingTypeOK
  <2>2. ControlOK'
    BY <1>5, <1>k, <1>p, <1>r, <1>g DEF RequestCas, RequestPcs
  <2> QED
    BY <2>1, <2>2
<1>6. CASE RequestDrain(w)
  <2>1. QueueTypeOK' /\ dropped' \in Nat
    BY <1>6, DrainOK DEF RequestDrain, DataOK, QueueTypeOK
  <2>2. DataOK'
    BY <1>6, <2>1 DEF RequestDrain, DataOK, CacheTypeOK, NamingTypeOK
  <2>3. ControlOK'
    BY <1>6, <1>k, <1>p, <1>r, <1>g DEF RequestDrain, RequestPcs
  <2> QED
    BY <2>2, <2>3
<1>7. CASE RequestSub(w)
  <2>1. pending' \in Nat
    BY <1>7 DEF RequestSub, FetchSub, DataOK
  <2>2. DataOK'
    BY <1>7, <2>1 DEF RequestSub, DataOK, QueueTypeOK, CacheTypeOK, NamingTypeOK
  <2>3. ControlOK'
    BY <1>7, <1>k, <1>p, <1>r, <1>g DEF RequestSub, RequestPcs
  <2> QED
    BY <2>2, <2>3
<1>8. CASE RequestClose(w)
  <2>1. QueueTypeOK'
    BY <1>8, CloseOK DEF RequestClose, DataOK
  <2>2. DataOK'
    BY <1>8, <2>1 DEF RequestClose, DataOK, CacheTypeOK, NamingTypeOK
  <2>3. ControlOK'
    BY <1>8, <1>k, <1>p, <1>r, <1>g DEF RequestClose, RequestPcs
  <2> QED
    BY <2>2, <2>3
<1>9. CASE RequestNotify(w)
  <2>1. DataOK'
    BY <1>9, DataFrame DEF RequestNotify
  <2>2. key[w] \in Keys
    BY <1>9, <1>k, <1>p DEF RequestNotify, RequestPcs
  <2>3. ControlOK'
    BY <1>9, <2>2, <1>p, <1>r, NotifyOK DEF RequestNotify
  <2> QED
    BY <2>1, <2>3
<1> QED
  BY <1>1, <1>2, <1>3, <1>4, <1>5, <1>6, <1>7, <1>8, <1>9 DEF Request

\* The steps of the main thread after the joins.
EndPcs == {"finalize", "return", "over"}
Ending == Join \/ FinalizeTop \/ ReturnDesign \/ CallerFlush

LEMMA FinalizedIsKey ==
  ASSUME TypeOK, FinalizeTop
  PROVE  /\ next[Main] \in 1..Len(Tops)
         /\ Instance(Main) = Tops[next[Main]] /\ Instance(Main) \in Keys
<1>1. next[Main] \in Nat \ {0} /\ next[Main] <= Len(Tops)
  BY DEF FinalizeTop, TypeOK, ControlOK
<1> QED
  BY <1>1 DEF Instance, Instances

\* Finalizing a top adds warnings to the main thread's buffer.
LEMMA FinalizeOK ==
  ASSUME DataOK, NEW k \in Keys, Finalize(k)
  PROVE  /\ NamingTypeOK' /\ UNCHANGED design
         /\ aliases' \in [Names -> Names \union {Unnamed}]
         /\ tops' \in SUBSET (Names \union {Unnamed})
         /\ \E new \in SUBSET Warnings : Warn(new)
<1>1. NamingTypeOK' /\ UNCHANGED design /\ graphName'[k] \in Names
  BY ResolveOK, ResolvedName DEF Finalize, ResolveGraphName, DataOK
<1> DEFINE graph == FindGraph(graphName'[k])
<1>2. <<k, "missingTop">> \in Warnings /\ <<k, "aliasConflict">> \in Warnings
  BY DEF Warnings
<1>3. graph \in Names \union {Unnamed}
  BY <1>1 DEF FindGraph, DataOK
<1>4. CASE graph = Unnamed
  <2>1. Warn({<<k, "missingTop">>}) /\ UNCHANGED <<tops, aliases>>
    BY <1>4 DEF Finalize
  <2>2. {<<k, "missingTop">>} \in SUBSET Warnings
    BY <1>2
  <2> QED
    BY <1>1, <2>1, <2>2 DEF DataOK
<1>5. CASE graph # Unnamed
  <2> HIDE DEF graph
  <2>1. tops' = tops \union {graph} /\ RegisterAliases(k, graph)
    BY <1>5 DEF Finalize, graph
  <2> DEFINE free == {n \in TopAliases[k] : FindGraph(n) \in {Unnamed, graph}}
  <2>2. /\ aliases' = [n \in Names |-> IF n \in free THEN graph ELSE aliases[n]]
        /\ Warn(IF free = TopAliases[k] THEN {} ELSE {<<k, "aliasConflict">>})
    BY <2>1 DEF RegisterAliases
  <2> HIDE DEF free
  <2>3. aliases' \in [Names -> Names \union {Unnamed}]
    BY <1>3, <2>2 DEF DataOK
  <2>4. (IF free = TopAliases[k] THEN {} ELSE {<<k, "aliasConflict">>}) \in SUBSET Warnings
    BY <1>2
  <2>5. tops' \in SUBSET (Names \union {Unnamed})
    BY <1>3, <2>1 DEF DataOK
  <2> QED
    BY <1>1, <2>2, <2>3, <2>4, <2>5
<1> QED
  BY <1>4, <1>5

\* After the joins the main thread moves between its last places, and of what
\* the other threads know only messages may grow.
LEMMA EndingSteps ==
  ASSUME TypeOK, Ending
  PROVE  /\ pc[Main] \in {"join", "finalize", "return"}
         /\ \E l \in EndPcs : Goto(Main, l)
         /\ \E n \in Nat \ {0} : next' = [next EXCEPT ![Main] = n]
         /\ \E b \in SUBSET Messages : buffer' = [buffer EXCEPT ![Main] = b]
         /\ messages' \in SUBSET Messages /\ messages \subseteq messages'
         /\ UNCHANGED <<queueVars, cacheVars, registryVars, design, pending, cancel, dropped,
                        hasError, key, ret>>
<1>1. /\ pc \in [Threads -> WorkerPcs \union MainPcs] /\ next \in [Threads -> Nat \ {0}]
      /\ buffer \in [Threads -> SUBSET Messages] /\ messages \in SUBSET Messages
  BY DEF TypeOK, DataOK, ControlOK
<1>2. next' = next => \E n \in Nat \ {0} : next' = [next EXCEPT ![Main] = n]
  BY <1>1
<1>3. buffer' = buffer => \E b \in SUBSET Messages : buffer' = [buffer EXCEPT ![Main] = b]
  BY <1>1
<1>4. buffer' = [buffer EXCEPT ![Main] = {}]
        => \E b \in SUBSET Messages : buffer' = [buffer EXCEPT ![Main] = b]
  OBVIOUS
<1>5. CASE Join
  <2>1. \E l \in EndPcs : Goto(Main, l)
    BY <1>5 DEF Join, EndPcs
  <2>2. next' = [next EXCEPT ![Main] = 1] /\ 1 \in Nat \ {0}
    BY <1>5 DEF Join
  <2>3. \E n \in Nat \ {0} : next' = [next EXCEPT ![Main] = n]
    BY <2>2
  <2>4. messages' \in SUBSET Messages /\ messages \subseteq messages'
    BY <1>1, <1>5 DEF Join
  <2> QED
    BY <1>4, <1>5, <2>1, <2>3, <2>4 DEF Join
<1>6. CASE FinalizeTop
  <2>1. Goto(Main, "finalize")
    BY <1>1, <1>6 DEF FinalizeTop, Goto
  <2>2. next[Main] + 1 \in Nat \ {0} /\ next' = [next EXCEPT ![Main] = next[Main] + 1]
    BY <1>1, <1>6 DEF FinalizeTop
  <2>4. \E n \in Nat \ {0} : next' = [next EXCEPT ![Main] = n]
    BY <2>2
  <2>3. /\ UNCHANGED design
        /\ \E b \in SUBSET Messages : buffer' = [buffer EXCEPT ![Main] = b]
    <3>1. CASE UNCHANGED <<namingVars, buffer, tops, aliases>>
      BY <1>3, <3>1
    <3>2. CASE Finalize(Instance(Main))
      <4>1. UNCHANGED design /\ \E new \in SUBSET Warnings : Warn(new)
        BY <1>6, <3>2, FinalizedIsKey, FinalizeOK DEF TypeOK
      <4>2. PICK new \in SUBSET Warnings : Warn(new)
        BY <4>1
      <4>3. buffer[Main] \union new \in SUBSET Messages
        BY <1>1 DEF Messages
      <4> QED
        BY <4>1, <4>2, <4>3 DEF Warn
    <3> QED
      BY <1>6, <3>1, <3>2 DEF FinalizeTop
  <2> QED
    BY <1>1, <1>6, <2>1, <2>3, <2>4 DEF FinalizeTop, EndPcs
<1>7. CASE ReturnDesign
  BY <1>1, <1>2, <1>3, <1>7 DEF ReturnDesign, EndPcs
<1>8. CASE CallerFlush
  BY <1>1, <1>2, <1>4, <1>8 DEF CallerFlush, EndPcs
<1> QED
  BY <1>5, <1>6, <1>7, <1>8 DEF Ending

LEMMA TypeEnding == ASSUME TypeOK, Ending PROVE TypeOK'
<1>1. /\ NamingTypeOK' /\ outcome' \in {"none", "design", "abort"}
      /\ tops' \in SUBSET (Names \union {Unnamed})
      /\ aliases' \in [Names -> Names \union {Unnamed}]
  <2>1. CASE Join \/ ReturnDesign \/ CallerFlush
    BY <2>1 DEF Join, ReturnDesign, CallerFlush, TypeOK, DataOK, NamingTypeOK
  <2>2. CASE FinalizeTop
    <3>1. CASE UNCHANGED <<namingVars, buffer, tops, aliases>>
      BY <2>2, <3>1 DEF FinalizeTop, TypeOK, DataOK, NamingTypeOK
    <3>2. CASE Finalize(Instance(Main))
      BY <2>2, <3>2, FinalizedIsKey, FinalizeOK DEF FinalizeTop, TypeOK, DataOK
    <3> QED
      BY <2>2, <3>1, <3>2 DEF FinalizeTop
  <2> QED
    BY <2>1, <2>2 DEF Ending
<1>2. buffer' \in [Threads -> SUBSET Messages] /\ messages' \in SUBSET Messages
  <2>1. PICK b \in SUBSET Messages : buffer' = [buffer EXCEPT ![Main] = b]
    BY EndingSteps
  <2> QED
    BY <2>1, EndingSteps DEF TypeOK, DataOK
<1>3. UNCHANGED <<queueVars, cacheVars, registryVars, pending, cancel, dropped, hasError>>
  BY EndingSteps
<1>4. DataOK'
  BY <1>1, <1>2, <1>3 DEF TypeOK, DataOK, QueueTypeOK, CacheTypeOK
<1>5. ControlOK'
  <2>1. PICK l \in EndPcs : Goto(Main, l)
    BY EndingSteps
  <2>2. PICK n \in Nat \ {0} : next' = [next EXCEPT ![Main] = n]
    BY EndingSteps
  <2>3. l \in MainPcs \ EnqueuePcs
    BY DEF EndPcs, MainPcs, EnqueuePcs
  <2> QED
    BY <2>1, <2>2, <2>3, EndingSteps DEF TypeOK, ControlOK, Goto, Instances
<1> QED
  BY <1>4, <1>5 DEF TypeOK

LEMMA TypeMain ==
  ASSUME TypeOK, MainStep
  PROVE  TypeOK'
<1> USE DEF TypeOK
<1>p. MainPcs \intersect EnqueuePcs = EnqueuePcs
  BY DEF MainPcs
<1>1. CASE Enqueue(Main)
  BY <1>1, TypeEnqueue
<1>2. CASE CollectDone
  <2>1. DataOK'
    BY <1>2, DataFrame DEF CollectDone
  <2>2. ControlOK'
    BY <1>2, GotoOK DEF CollectDone, MainPcs, EnqueuePcs
  <2> QED
    BY <2>1, <2>2
<1>3. CASE Launch
  <2>1. QueueTypeOK'
    BY <1>3 DEF Launch, DataOK, QueueTypeOK
  <2>2. DataOK'
    BY <1>3, <2>1 DEF Launch, DataOK, CacheTypeOK, NamingTypeOK
  <2>3. "await" \in MainPcs \ EnqueuePcs /\ "waitPop" \in WorkerPcs \ (TaskPcs \union EnqueuePcs)
    BY DEF MainPcs, WorkerPcs, EnqueuePcs, TaskPcs, ConvertPcs, CatchPcs, RequestPcs
  <2>4. /\ pc' = [t \in Threads |-> IF t = Main THEN "await" ELSE "waitPop"]
        /\ UNCHANGED <<key, next, ret>>
    BY <1>3 DEF Launch
  <2>5. ControlOK'
    BY <2>3, <2>4 DEF ControlOK, Instances
  <2> QED
    BY <2>2, <2>5
<1>4. CASE AwaitDone
  <2>1. DataOK'
    BY <1>4, DataFrame DEF AwaitDone
  <2>2. ControlOK'
    BY <1>4, GotoOK DEF AwaitDone, MainPcs, EnqueuePcs
  <2> QED
    BY <2>1, <2>2
<1>5. CASE Park
  <2>1. DataOK'
    BY <1>5, DataFrame DEF Park
  <2>2. ControlOK'
    BY <1>5, GotoOK DEF Park, MainPcs, EnqueuePcs
  <2> QED
    BY <2>1, <2>2
<1>6. CASE CloseQueue
  <2>1. QueueTypeOK'
    BY <1>6, CloseOK DEF CloseQueue, DataOK
  <2>2. DataOK'
    BY <1>6, <2>1 DEF CloseQueue, DataOK, CacheTypeOK, NamingTypeOK
  <2>3. ControlOK'
    BY <1>6, GotoOK DEF CloseQueue, MainPcs, EnqueuePcs
  <2> QED
    BY <2>2, <2>3
<1>7. CASE Ending
  BY <1>7, TypeEnding
<1> QED
  BY <1>1, <1>2, <1>3, <1>4, <1>5, <1>6, <1>7 DEF MainStep, Ending

LEMMA TypeStep == TypeOK /\ [Next]_vars => TypeOK'
<1> SUFFICES ASSUME TypeOK, [Next]_vars PROVE TypeOK'
  OBVIOUS
<1>1. CASE MainStep
  BY <1>1, TypeMain
<1>2. CASE WakeUpMain
  <2>1. DataOK'
    BY <1>2, DataFrame DEF WakeUpMain, TypeOK
  <2>2. ControlOK'
    BY <1>2, GotoOK DEF WakeUpMain, MainPcs, EnqueuePcs, TypeOK
  <2> QED
    BY <2>1, <2>2 DEF TypeOK
<1>3. ASSUME NEW w \in Workers, WorkerStep(w) PROVE TypeOK'
  BY <1>3, TypeEnqueue, TypeConvert, TypeFinish, TypeError DEF WorkerStep
<1>4. ASSUME NEW w \in Workers, WakeUp(w) PROVE TypeOK'
  BY <1>4 DEF WakeUp, SpuriousWake, TypeOK, DataOK, QueueTypeOK, CacheTypeOK, NamingTypeOK,
              ControlOK, Instances
<1>5. CASE UNCHANGED vars
  <2>1. DataOK'
    BY <1>5, DataFrame DEF vars, TypeOK
  <2>2. ControlOK'
    BY <1>5 DEF vars, TypeOK, ControlOK, Instances
  <2> QED
    BY <2>1, <2>2 DEF TypeOK
<1> QED
  BY <1>1, <1>2, <1>3, <1>4, <1>5 DEF Next

\* The variables keep their types, and a worker in a task holds a key, in every
\* conversion of every design.
THEOREM TypeCorrect == Spec => []TypeOK
BY TypeInit, TypeStep, PTL DEF Spec

-----------------------------------------------------------------------------
(* The task counter.  PendingExact is not inductive: the two stores of zero   *)
(* are harmless only because nothing is left when they happen, and the drain  *)
(* is subtracted once only because a single thread wins the cancel flag.      *)

StartPcs == {"collect", "launch"} \union EnqueuePcs
PastPcs == {"closing", "join"} \union EndPcs
DrainPcs == {"reqDrain", "reqSub"}
OfferPcs == {"push", "uncount"}

LastTaskLeft == \A w \in Workers : pc[w] = "finStore" => pending = 0
MainPassedAtZero == pc[Main] \in PastPcs => pending = 0
WorkersWaitForLaunch == pc[Main] \in StartPcs => \A w \in Workers : pc[w] = "unborn"
OneDrains == /\ \A v, w \in Workers : pc[v] \in DrainPcs /\ pc[w] \in DrainPcs => v = w
             /\ \A w \in Workers : pc[w] \in DrainPcs => cancel
             /\ dropped # 0 => \E w \in Workers : pc[w] = "reqSub"

CountInv == /\ PendingExact /\ LastTaskLeft /\ MainPassedAtZero
            /\ WorkersWaitForLaunch /\ OneDrains

LEMMA SetsFinite ==
  ASSUME TypeOK
  PROVE  /\ IsFiniteSet(InFlight) /\ IsFiniteSet(Counted)
         /\ Cardinality(InFlight) \in Nat /\ Cardinality(Counted) \in Nat
         /\ Len(queue) \in Nat /\ dropped \in Nat /\ pending \in Nat
<1>1. IsFiniteSet(Workers \union {Main})
  BY FS_AddElement
<1>2. InFlight \subseteq Workers /\ Counted \subseteq Workers \union {Main}
  BY DEF InFlight, Counted
<1>3. IsFiniteSet(InFlight) /\ IsFiniteSet(Counted)
  BY <1>1, <1>2, FS_Subset
<1>4. Len(queue) \in Nat
  BY DEF TypeOK, DataOK, QueueTypeOK
<1> QED
  BY <1>3, <1>4, FS_CardinalityType DEF TypeOK, DataOK

\* A task in flight is counted; a counter at zero means nothing is left.
LEMMA InFlightCounts ==
  ASSUME TypeOK, PendingExact, NEW w \in InFlight
  PROVE  pending >= 1 + dropped + Len(queue)
<1>1. Cardinality(InFlight) # 0
  BY SetsFinite, FS_EmptySet
<1> QED
  BY <1>1, SetsFinite DEF PendingExact

LEMMA ZeroMeansQuiet ==
  ASSUME TypeOK, PendingExact, pending = 0
  PROVE  queue = <<>> /\ InFlight = {} /\ Counted = {} /\ dropped = 0
<1>1. /\ Len(queue) = 0 /\ dropped = 0
      /\ Cardinality(InFlight) = 0 /\ Cardinality(Counted) = 0
  BY SetsFinite DEF PendingExact
<1>2. InFlight = {} /\ Counted = {}
  BY <1>1, SetsFinite, FS_EmptySet
<1>3. queue = <<>>
  BY <1>1 DEF TypeOK, DataOK, QueueTypeOK
<1> QED
  BY <1>1, <1>2, <1>3

LEMMA InFlightSame ==
  ASSUME TypeOK, NEW t \in Threads, NEW l, Goto(t, l),
         t # Main => (pc[t] \in TaskPcs <=> l \in TaskPcs)
  PROVE  InFlight' = InFlight
BY DEF InFlight, Goto, TypeOK, ControlOK

LEMMA CountedSame ==
  ASSUME TypeOK, NEW t \in Threads, NEW l, Goto(t, l), pc[t] \in OfferPcs <=> l \in OfferPcs
  PROVE  Counted' = Counted
BY DEF Counted, Goto, TypeOK, ControlOK, OfferPcs

LEMMA CountedAdd ==
  ASSUME TypeOK, NEW t \in Threads, NEW l \in OfferPcs, Goto(t, l), pc[t] \notin OfferPcs
  PROVE  Cardinality(Counted') = Cardinality(Counted) + 1
<1>1. Counted' = Counted \union {t} /\ t \notin Counted
  BY DEF Counted, Goto, TypeOK, ControlOK, OfferPcs
<1> QED
  BY <1>1, SetsFinite, FS_AddElement

LEMMA CountedRemove ==
  ASSUME TypeOK, NEW t \in Threads, NEW l, l \notin OfferPcs, Goto(t, l), pc[t] \in OfferPcs
  PROVE  Cardinality(Counted') = Cardinality(Counted) - 1
<1>1. Counted' = Counted \ {t} /\ t \in Counted
  BY DEF Counted, Goto, TypeOK, ControlOK, OfferPcs
<1> QED
  BY <1>1, SetsFinite, FS_RemoveElement

LEMMA InFlightAdd ==
  ASSUME TypeOK, NEW w \in Workers, NEW l \in TaskPcs, Goto(w, l), pc[w] \notin TaskPcs
  PROVE  Cardinality(InFlight') = Cardinality(InFlight) + 1
<1>1. InFlight' = InFlight \union {w} /\ w \notin InFlight
  BY DEF InFlight, Goto, TypeOK, ControlOK
<1> QED
  BY <1>1, SetsFinite, FS_AddElement

LEMMA InFlightRemove ==
  ASSUME TypeOK, NEW w \in Workers, NEW l, l \notin TaskPcs, Goto(w, l), pc[w] \in TaskPcs
  PROVE  Cardinality(InFlight') = Cardinality(InFlight) - 1
<1>1. InFlight' = InFlight \ {w} /\ w \in InFlight
  BY DEF InFlight, Goto, TypeOK, ControlOK
<1> QED
  BY <1>1, SetsFinite, FS_RemoveElement

\* Most steps move one thread and touch neither the counter nor the queue.
LEMMA NeutralStep ==
  ASSUME TypeOK, CountInv, NEW t \in Threads, NEW l, Goto(t, l),
         UNCHANGED <<queue, pending, dropped>>, cancel => cancel',
         t # Main => (pc[t] \in TaskPcs <=> l \in TaskPcs),
         pc[t] \in OfferPcs <=> l \in OfferPcs,
         l = "finStore" => pending = 0,
         t = Main /\ l \in PastPcs => pending = 0,
         t = Main /\ l \in StartPcs => pc[t] \in StartPcs,
         t # Main => pc[t] # "unborn" /\ pc[t] # "reqSub" /\ l \notin DrainPcs
  PROVE  CountInv'
<1> USE DEF CountInv
<1>1. PendingExact'
  BY InFlightSame, CountedSame DEF PendingExact
<1>2. pc \in [Threads -> WorkerPcs \union MainPcs]
  BY DEF TypeOK, ControlOK
<1>3. LastTaskLeft'
  BY <1>2 DEF LastTaskLeft, Goto
<1>4. MainPassedAtZero'
  BY <1>2 DEF MainPassedAtZero, Goto
<1>5. WorkersWaitForLaunch'
  BY <1>2 DEF WorkersWaitForLaunch, Goto
<1>6. OneDrains'
  <2>1. \A w \in Workers : pc'[w] \in DrainPcs => pc[w] \in DrainPcs
    BY <1>2 DEF Goto, DrainPcs
  <2>2. \A w \in Workers : pc[w] = "reqSub" => pc'[w] = "reqSub"
    BY <1>2 DEF Goto
  <2> QED
    BY <2>1, <2>2 DEF OneDrains
<1> QED
  BY <1>1, <1>3, <1>4, <1>5, <1>6

\* The steps in which an in-flight worker, or the main thread before the launch,
\* changes the counter, the queue or their places.
LEMMA ActiveStep ==
  ASSUME TypeOK, CountInv, NEW t \in Threads, NEW l, Goto(t, l), PendingExact',
         cancel' = cancel, dropped' = dropped,
         pc[t] \in TaskPcs, t = Main => pc[t] \in StartPcs,
         l = "finStore" => pending' = 0,
         t = Main => l \in StartPcs,
         t # Main => pc[t] \notin DrainPcs /\ l \notin DrainPcs /\ pc[t] # "unborn"
  PROVE  CountInv'
<1> USE DEF CountInv
<1>2. pc \in [Threads -> WorkerPcs \union MainPcs]
  BY DEF TypeOK, ControlOK
<1>q. ~(\E w \in Workers : pc[w] = "finStore")
  <2>1. CASE t = Main
    BY <2>1 DEF WorkersWaitForLaunch
  <2>2. CASE t # Main
    <3>1. t \in InFlight
      BY <2>2 DEF InFlight
    <3>2. pending # 0
      BY <3>1, InFlightCounts, SetsFinite
    <3> QED
      BY <3>2 DEF LastTaskLeft
  <2> QED
    BY <2>1, <2>2
<1>r. pc[Main] \notin PastPcs
  <2>1. CASE t = Main
    BY <2>1 DEF StartPcs, PastPcs, EnqueuePcs, EndPcs
  <2>2. CASE t # Main
    <3>1. t \in InFlight
      BY <2>2 DEF InFlight
    <3>2. pending # 0
      BY <3>1, InFlightCounts, SetsFinite
    <3> QED
      BY <3>2 DEF MainPassedAtZero
  <2> QED
    BY <2>1, <2>2
<1>3. LastTaskLeft'
  BY <1>2, <1>q DEF LastTaskLeft, Goto
<1>4. MainPassedAtZero'
  <2>1. StartPcs \intersect PastPcs = {}
    BY DEF StartPcs, PastPcs, EnqueuePcs, EndPcs
  <2> QED
    BY <1>2, <1>r, <2>1 DEF MainPassedAtZero, Goto
<1>5. WorkersWaitForLaunch'
  BY <1>2 DEF WorkersWaitForLaunch, Goto
<1>6. OneDrains'
  <2>1. \A w \in Workers : pc'[w] \in DrainPcs <=> pc[w] \in DrainPcs
    BY <1>2 DEF Goto
  <2>2. \A w \in Workers : pc[w] = "reqSub" => pc'[w] = "reqSub"
    BY <1>2 DEF Goto, DrainPcs
  <2> QED
    BY <2>1, <2>2 DEF OneDrains
<1> QED
  BY <1>3, <1>4, <1>5, <1>6

LEMMA CountEnqueue ==
  ASSUME TypeOK, CountInv, NEW t \in Threads, Enqueue(t)
  PROVE  CountInv'
<1> USE DEF CountInv
<1>s. /\ t = Main => pc[t] \in StartPcs
      /\ t # Main => pc[t] \in TaskPcs
      /\ pc[t] \in EnqueuePcs \union {CollectPc(t)}
  BY DEF Enqueue, EnqueueCancelled, EnqueueCheck, EnqueueSchedule, EnqueueCount, EnqueuePush,
         EnqueueUncount, Collecting, StartPcs, EnqueuePcs, TaskPcs, ConvertPcs, CollectPc
<1>p. /\ EnqueuePcs \subseteq StartPcs /\ EnqueuePcs \subseteq TaskPcs
      /\ EnqueuePcs \intersect (DrainPcs \union PastPcs \union {"unborn", "finStore"}) = {}
      /\ OfferPcs \subseteq EnqueuePcs
  BY DEF EnqueuePcs, StartPcs, TaskPcs, DrainPcs, PastPcs, EndPcs, OfferPcs
<1>c. /\ t = Main => CollectPc(t) \in StartPcs
      /\ t # Main => CollectPc(t) \in TaskPcs
      /\ CollectPc(t) \notin OfferPcs \union DrainPcs \union PastPcs \union {"unborn", "finStore"}
  BY DEF CollectPc, StartPcs, TaskPcs, ConvertPcs, OfferPcs, DrainPcs, PastPcs, EndPcs
<1>d. "reqSub" \in DrainPcs
  BY DEF DrainPcs
<1>1. CASE EnqueueCancelled(t)
  BY <1>1, <1>s, <1>p, <1>c, <1>d, NeutralStep DEF EnqueueCancelled, Collecting, CollectNext
<1>2. CASE EnqueueCheck(t)
  <2>1. "schedule" \in EnqueuePcs \ OfferPcs
    BY DEF EnqueuePcs, OfferPcs
  <2> QED
    BY <1>2, <2>1, <1>s, <1>p, <1>c, <1>d, NeutralStep DEF EnqueueCheck, Collecting
<1>3. CASE EnqueueSchedule(t)
  <2>1. "schedule" \in EnqueuePcs \ OfferPcs /\ "count" \in EnqueuePcs \ OfferPcs
    BY DEF EnqueuePcs, OfferPcs
  <2>2. CASE CollectNext(t)
    BY <1>3, <2>1, <2>2, <1>s, <1>p, <1>c, <1>d, NeutralStep DEF EnqueueSchedule, CollectNext
  <2>3. CASE Goto(t, "count")
    BY <1>3, <2>1, <2>3, <1>s, <1>p, <1>c, <1>d, NeutralStep DEF EnqueueSchedule
  <2> QED
    BY <1>3, <2>2, <2>3 DEF EnqueueSchedule
<1>4. CASE EnqueueCount(t)
  <2>1. "count" \in EnqueuePcs \ OfferPcs /\ "push" \in EnqueuePcs \intersect OfferPcs
    BY DEF EnqueuePcs, OfferPcs
  <2>2. /\ At(t, "count") /\ Goto(t, "push") /\ pending' = pending + 1
        /\ UNCHANGED <<queue, dropped, cancel>>
    BY <1>4 DEF EnqueueCount
  <2>3. Cardinality(Counted') = Cardinality(Counted) + 1
    BY <2>1, <2>2, CountedAdd
  <2>4. InFlight' = InFlight
    BY <2>1, <2>2, <1>p, InFlightSame
  <2>5. PendingExact'
    BY <2>2, <2>3, <2>4, SetsFinite DEF PendingExact
  <2> QED
    BY <2>1, <2>2, <2>5, <1>p, <1>s, ActiveStep
<1>5. CASE EnqueuePush(t)
  <2>1. "push" \in EnqueuePcs \intersect OfferPcs /\ "uncount" \in EnqueuePcs \intersect OfferPcs
    BY DEF EnqueuePcs, OfferPcs
  <2>2. CASE TryPushAccepts(Instance(t)) /\ CollectNext(t)
    <3>1. /\ At(t, "push") /\ Goto(t, CollectPc(t)) /\ UNCHANGED <<pending, dropped, cancel>>
      BY <1>5, <2>2 DEF EnqueuePush, CollectNext
    <3>2. Len(queue') = Len(queue) + 1
      BY <2>2 DEF TryPushAccepts, TypeOK, DataOK, QueueTypeOK
    <3>3. Cardinality(Counted') = Cardinality(Counted) - 1
      BY <3>1, <2>1, <1>c, CountedRemove
    <3>4. InFlight' = InFlight
      BY <3>1, <2>1, <1>c, <1>p, InFlightSame
    <3>5. PendingExact'
      BY <3>1, <3>2, <3>3, <3>4, SetsFinite DEF PendingExact
    <3> QED
      BY <3>1, <3>5, <2>1, <1>p, <1>s, <1>c, ActiveStep
  <2>3. CASE TryPushRefuses /\ Goto(t, "uncount")
    BY <1>5, <2>1, <2>3, <1>s, <1>p, <1>c, <1>d, NeutralStep DEF EnqueuePush, TryPushRefuses
  <2> QED
    BY <1>5, <2>2, <2>3 DEF EnqueuePush
<1>6. CASE EnqueueUncount(t)
  <2>1. "uncount" \in EnqueuePcs \intersect OfferPcs
    BY DEF EnqueuePcs, OfferPcs
  <2>2. /\ At(t, "uncount") /\ Goto(t, CollectPc(t)) /\ pending' = FetchSub(pending, 1)
        /\ UNCHANGED <<queue, dropped, cancel>>
    BY <1>6 DEF EnqueueUncount, CollectNext
  <2>3. Cardinality(Counted') = Cardinality(Counted) - 1
    BY <2>1, <2>2, <1>c, CountedRemove
  <2>4. InFlight' = InFlight
    BY <2>1, <2>2, <1>c, <1>p, InFlightSame
  <2>5. t \in Counted
    BY <2>2 DEF Counted
  <2>6. Cardinality(Counted) # 0
    BY <2>5, SetsFinite, FS_EmptySet
  <2>7. pending' = pending - 1
    BY <2>2, <2>6, SetsFinite DEF PendingExact, FetchSub
  <2>8. PendingExact'
    BY <2>2, <2>3, <2>4, <2>7, SetsFinite DEF PendingExact
  <2> QED
    BY <2>1, <2>2, <2>8, <1>p, <1>s, <1>c, ActiveStep
<1> QED
  BY <1>1, <1>2, <1>3, <1>4, <1>5, <1>6 DEF Enqueue

LEMMA CountConvert ==
  ASSUME TypeOK, CountInv, NEW w \in Workers, Convert(w)
  PROVE  CountInv'
<1> USE DEF CountInv
<1>m. w \in Threads /\ w # Main
  OBVIOUS
<1>p. /\ ConvertPcs \union {"flush", "finSub"} \subseteq TaskPcs
      /\ (ConvertPcs \union {"flush", "finSub", "waitPop", "exit"})
           \intersect (OfferPcs \union DrainPcs \union {"unborn", "finStore"}) = {}
      /\ "waitPop" \notin TaskPcs /\ "exit" \notin TaskPcs
      /\ "reqSub" \in DrainPcs
  BY DEF ConvertPcs, TaskPcs, OfferPcs, DrainPcs, EnqueuePcs, CatchPcs, RequestPcs
<1>n. ASSUME NEW l \in ConvertPcs \union {"flush", "finSub"}, Goto(w, l),
             pc[w] \in ConvertPcs \union {"flush"}, UNCHANGED <<queue, pending, dropped, cancel>>
      PROVE  CountInv'
  BY <1>n, <1>m, <1>p, NeutralStep
<1>1. CASE WaitPop(w)
  <2>1. CASE WaitSleeps(w, cancel) /\ UNCHANGED <<pc, key>>
    BY <1>1, <2>1 DEF WaitPop, WaitSleeps, PendingExact, InFlight, Counted, LastTaskLeft,
                      MainPassedAtZero, WorkersWaitForLaunch, OneDrains
  <2>2. CASE WaitStops(cancel) /\ Goto(w, "exit")
    BY <1>1, <2>2, <1>m, <1>p, NeutralStep DEF WaitPop, WaitStops
  <2>3. CASE WaitTakes(cancel) /\ Goto(w, "begin")
    <3>1. /\ At(w, "waitPop") /\ UNCHANGED <<pending, dropped, cancel>> /\ "begin" \in ConvertPcs
      BY <1>1, <2>3 DEF WaitPop, ConvertPcs
    <3>2. queue \in Seq(Keys) /\ queue # <<>> /\ queue' = Tail(queue)
      BY <2>3 DEF WaitTakes, TypeOK, DataOK, QueueTypeOK
    <3>3. Len(queue') = Len(queue) - 1 /\ Len(queue) # 0
      BY <3>2
    <3>4. Cardinality(InFlight') = Cardinality(InFlight) + 1
      BY <2>3, <3>1, <1>p, InFlightAdd
    <3>5. Counted' = Counted
      BY <2>3, <3>1, <1>p, <1>m, CountedSame
    <3>6. PendingExact'
      BY <3>1, <3>3, <3>4, <3>5, SetsFinite DEF PendingExact
    <3>7. pc \in [Threads -> WorkerPcs \union MainPcs]
      BY DEF TypeOK, ControlOK
    <3>8. LastTaskLeft'
      BY <2>3, <3>1, <3>7 DEF LastTaskLeft, Goto
    <3>9. MainPassedAtZero' /\ WorkersWaitForLaunch'
      BY <2>3, <3>1, <3>7, <1>m DEF MainPassedAtZero, WorkersWaitForLaunch, Goto
    <3>10. \A v \in Workers : pc'[v] \in DrainPcs <=> pc[v] \in DrainPcs
      BY <2>3, <3>1, <3>7, <1>p DEF Goto
    <3>11. \A v \in Workers : pc[v] = "reqSub" => pc'[v] = "reqSub"
      BY <2>3, <3>1, <3>7 DEF Goto
    <3>12. OneDrains'
      BY <3>1, <3>10, <3>11 DEF OneDrains
    <3> QED
      BY <3>6, <3>8, <3>9, <3>12
  <2> QED
    BY <1>1, <2>1, <2>2, <2>3 DEF WaitPop
<1>2. CASE Begin(w)
  BY <1>2, <1>n DEF Begin, ConvertPcs
<1>3. CASE Enter(w)
  BY <1>3, <1>n DEF Enter, ConvertPcs
<1>4. CASE Claim(w)
  BY <1>4, <1>n DEF Claim, ConvertPcs
<1>5. CASE PlanDone(w)
  BY <1>5, <1>n DEF PlanDone, ConvertPcs
<1>6. CASE LowerDone(w)
  BY <1>6, <1>n DEF LowerDone, ConvertPcs
<1>7. CASE NameGraph(w)
  BY <1>7, <1>n DEF NameGraph, ConvertPcs
<1>8. CASE Create(w)
  BY <1>8, <1>n DEF Create, ConvertPcs
<1>10. CASE AssemblyDone(w)
  BY <1>10, <1>n DEF AssemblyDone, ConvertPcs
<1>11. CASE Store(w)
  BY <1>11, <1>n DEF Store, ConvertPcs
<1>12. CASE MarkReady(w)
  BY <1>12, <1>n DEF MarkReady, ConvertPcs
<1>13. CASE Flush(w)
  BY <1>13, <1>n DEF Flush, ConvertPcs
<1>9. CASE NameInstance(w)
  BY <1>9 DEF NameInstance, PendingExact, InFlight, Counted, LastTaskLeft,
              MainPassedAtZero, WorkersWaitForLaunch, OneDrains
<1> QED
  BY <1>1, <1>2, <1>3, <1>4, <1>5, <1>6, <1>7, <1>8, <1>9, <1>10, <1>11, <1>12, <1>13
     DEF Convert

LEMMA NotifyCounts ==
  ASSUME TypeOK, CountInv, NEW w \in Workers, NEW l, NotifyDone(w, l),
         UNCHANGED <<queue, pending, dropped, cancel>>,
         pc[w] \in TaskPcs <=> l \in TaskPcs,
         pc[w] \notin OfferPcs \union {"unborn", "reqSub"},
         l \notin OfferPcs \union DrainPcs \union {"finStore"}
  PROVE  CountInv'
<1> USE DEF CountInv
<1>1. pc \in [Threads -> WorkerPcs \union MainPcs]
  BY DEF TypeOK, ControlOK
<1>2. /\ \A v \in Workers : pc'[v] = IF v = w THEN l ELSE pc[v]
      /\ pc'[Main] = IF pc[Main] = "parked" THEN "await" ELSE pc[Main]
  BY <1>1 DEF NotifyDone
<1>3. {"parked", "await"} \intersect (OfferPcs \union PastPcs \union StartPcs) = {}
  BY DEF OfferPcs, PastPcs, EndPcs, StartPcs, EnqueuePcs
<1>4. InFlight' = InFlight
  BY <1>2 DEF InFlight
<1>5. Counted' = Counted
  BY <1>2, <1>3 DEF Counted, OfferPcs
<1>6. PendingExact'
  BY <1>4, <1>5 DEF PendingExact
<1>7. LastTaskLeft'
  BY <1>2 DEF LastTaskLeft
<1>8. MainPassedAtZero' /\ WorkersWaitForLaunch'
  BY <1>2, <1>3 DEF MainPassedAtZero, WorkersWaitForLaunch
<1>9. OneDrains'
  <2>1. \A v \in Workers : pc'[v] \in DrainPcs => pc[v] \in DrainPcs
    BY <1>2
  <2>2. \A v \in Workers : pc[v] = "reqSub" => pc'[v] = "reqSub"
    BY <1>2
  <2> QED
    BY <2>1, <2>2 DEF OneDrains
<1> QED
  BY <1>6, <1>7, <1>8, <1>9

LEMMA CountFinish ==
  ASSUME TypeOK, CountInv, NEW w \in Workers, Finish(w)
  PROVE  CountInv'
<1> USE DEF CountInv
<1>m. w \in Threads /\ w # Main
  OBVIOUS
<1>p. /\ "finSub" \in TaskPcs
      /\ ({"waitPop"} \union FinishPcs) \intersect TaskPcs = {}
      /\ ({"waitPop", "finSub"} \union FinishPcs)
           \intersect (OfferPcs \union DrainPcs \union {"unborn"}) = {}
      /\ "reqSub" \in DrainPcs
  BY DEF ConvertPcs, TaskPcs, OfferPcs, DrainPcs, EnqueuePcs, CatchPcs, RequestPcs, FinishPcs
<1>1. CASE FinSub(w)
  <2>1. w \in InFlight
    BY <1>1, <1>p DEF FinSub, InFlight
  <2>2. pending >= 1
    BY <2>1, InFlightCounts, SetsFinite
  <2>3. pending' = pending - 1
    BY <1>1, <2>2, SetsFinite DEF FinSub, FetchSub
  <2>4. PICK l \in {"waitPop", "finStore"} : Goto(w, l) /\ (l = "finStore" => pending' = 0)
    BY <1>1, <2>2, <2>3, SetsFinite DEF FinSub
  <2>5. /\ At(w, "finSub") /\ UNCHANGED <<queue, dropped, cancel>>
    BY <1>1 DEF FinSub
  <2>6. l \notin TaskPcs /\ l \notin OfferPcs \union DrainPcs
    BY <1>p DEF FinishPcs
  <2>7. Cardinality(InFlight') = Cardinality(InFlight) - 1
    BY <2>4, <2>5, <2>6, <1>p, InFlightRemove
  <2>8. Counted' = Counted
    BY <2>4, <2>5, <2>6, <1>p, <1>m, CountedSame
  <2>9. PendingExact'
    BY <2>3, <2>5, <2>7, <2>8, SetsFinite DEF PendingExact
  <2> QED
    BY <2>4, <2>5, <2>6, <2>9, <1>p, <1>m, ActiveStep
<1>2. CASE FinStore(w)
  <2>1. pending = 0
    BY <1>2 DEF FinStore, LastTaskLeft
  <2> QED
    BY <1>2, <2>1, <1>m, <1>p, NeutralStep DEF FinStore, FinishPcs
<1>3. CASE FinClose(w)
  BY <1>3, <1>m, <1>p, NeutralStep DEF FinClose, Close, FinishPcs
<1>4. CASE FinNotify(w)
  BY <1>4, <1>m, <1>p, NotifyCounts DEF FinNotify, FinishPcs
<1> QED
  BY <1>1, <1>2, <1>3, <1>4 DEF Finish

LEMMA CountError ==
  ASSUME TypeOK, CountInv, NEW w \in Workers, ReportError(w) \/ Throw(w) \/ Request(w)
  PROVE  CountInv'
<1> USE DEF CountInv
<1>m. w \in Threads /\ w # Main
  OBVIOUS
<1>p. /\ FallibleStages \union RequestPcs \union CatchPcs \union {"create", "flush"} \subseteq TaskPcs
      /\ (FallibleStages \union RequestPcs \union CatchPcs \union {"create", "flush"})
           \intersect (OfferPcs \union {"unborn", "finStore"}) = {}
      /\ (FallibleStages \union CatchPcs
            \union {"create", "flush", "reqCas", "reqClose", "reqNotify"}) \intersect DrainPcs = {}
      /\ "reqSub" \in DrainPcs
  BY DEF ConvertPcs, TaskPcs, OfferPcs, DrainPcs, EnqueuePcs, CatchPcs, RequestPcs, FallibleStages
<1>r. ret[w] \in FallibleStages \union {"again", "flush"}
  BY <1>m DEF TypeOK, ControlOK
<1>t. pc \in [Threads -> WorkerPcs \union MainPcs]
  BY DEF TypeOK, ControlOK
\* A move of w between places of a task, which leaves the drain to DrainInv.
<1>d. ASSUME NEW l \in RequestPcs \union FallibleStages \union {"again", "flush"}, Goto(w, l),
             pc[w] \in RequestPcs
      PROVE  /\ InFlight' = InFlight /\ Counted' = Counted
             /\ pending' = pending => LastTaskLeft' /\ MainPassedAtZero'
             /\ WorkersWaitForLaunch'
  <2>1. l \in TaskPcs /\ l \notin OfferPcs \union {"unborn", "finStore"}
    BY <1>p DEF CatchPcs
  <2>2. InFlight' = InFlight /\ Counted' = Counted
    BY <1>d, <1>m, <1>p, <2>1, InFlightSame, CountedSame
  <2>3. pending' = pending => LastTaskLeft'
    BY <1>d, <1>t, <2>1 DEF LastTaskLeft, Goto
  <2>4. pending' = pending => MainPassedAtZero'
    BY <1>d, <1>t, <1>m DEF MainPassedAtZero, Goto
  <2>5. WorkersWaitForLaunch'
    BY <1>d, <1>t, <1>m, <1>p DEF WorkersWaitForLaunch, Goto
  <2> QED
    BY <2>2, <2>3, <2>4, <2>5
<1>1. CASE ReportError(w)
  <2>1. CASE Goto(w, "reqCas")
    BY <1>1, <2>1, <1>m, <1>p, NeutralStep DEF ReportError, RequestPcs
  <2>2. CASE UNCHANGED <<pc, ret>>
    BY <1>1, <2>2 DEF ReportError, PendingExact, InFlight, Counted, LastTaskLeft,
                      MainPassedAtZero, WorkersWaitForLaunch, OneDrains
  <2> QED
    BY <1>1, <2>1, <2>2 DEF ReportError
<1>2. CASE Throw(w)
  BY <1>2, <1>m, <1>p, NeutralStep DEF Throw, CatchPcs
<1>3. CASE Catch(w)
  BY <1>3, <1>m, <1>p, NeutralStep DEF Catch, CatchPcs, RequestPcs
<1>4. CASE RequestAgain(w)
  BY <1>4, <1>m, <1>p, NeutralStep DEF RequestAgain, CatchPcs, RequestPcs
<1>5. CASE RequestCas(w)
  <2>1. CASE cancel
    BY <1>5, <2>1, <1>m, <1>p, <1>r, NeutralStep DEF RequestCas, RequestPcs, CatchPcs
  <2>2. CASE ~cancel
    <3>1. /\ At(w, "reqCas") /\ Goto(w, "reqDrain") /\ cancel' = TRUE
          /\ UNCHANGED <<queue, pending, dropped>>
          /\ "reqDrain" \in RequestPcs /\ "reqCas" \in RequestPcs
      BY <1>5, <2>2 DEF RequestCas, RequestPcs
    <3>2. PendingExact' /\ LastTaskLeft' /\ MainPassedAtZero' /\ WorkersWaitForLaunch'
      BY <3>1, <1>d DEF PendingExact
    <3>3. \A v \in Workers : pc[v] \notin DrainPcs
      BY <2>2 DEF OneDrains
    <3>4. dropped = 0
      BY <3>3, <1>p DEF OneDrains
    <3>5. \A v \in Workers : pc'[v] \in DrainPcs => v = w
      BY <3>1, <3>3, <1>t DEF Goto
    <3>6. OneDrains'
      BY <3>1, <3>4, <3>5 DEF OneDrains
    <3> QED
      BY <3>2, <3>6
  <2> QED
    BY <2>1, <2>2
<1>6. CASE RequestDrain(w)
  <2>1. /\ At(w, "reqDrain") /\ queue' = <<>> /\ dropped' = Len(queue) /\ UNCHANGED <<pending, cancel>>
        /\ "reqDrain" \in RequestPcs \intersect DrainPcs
    BY <1>6 DEF RequestDrain, Drain, RequestPcs, DrainPcs
  <2>2. PICK l \in {"reqClose", "reqSub"} : Goto(w, l) /\ (dropped' # 0 => l = "reqSub")
    BY <1>6, <2>1 DEF RequestDrain
  <2>3. l \in RequestPcs
    BY DEF RequestPcs
  <2>4. \A v \in Workers : pc[v] \in DrainPcs => v = w
    BY <2>1 DEF OneDrains
  <2>5. dropped = 0
    BY <2>1, <2>4, <1>p DEF OneDrains
  <2>6. /\ InFlight' = InFlight /\ Counted' = Counted /\ LastTaskLeft' /\ MainPassedAtZero'
        /\ WorkersWaitForLaunch'
    BY <2>1, <2>2, <2>3, <1>d
  <2>7. Len(queue') = 0
    BY <2>1
  <2>8. PendingExact'
    BY <2>1, <2>5, <2>6, <2>7, SetsFinite DEF PendingExact
  <2>9. \A v \in Workers : pc'[v] \in DrainPcs => v = w
    BY <2>2, <2>4, <1>t DEF Goto
  <2>10. pc'[w] = l /\ cancel' = cancel /\ cancel
    BY <2>1, <2>2, <1>t DEF Goto, OneDrains
  <2>11. OneDrains'
    BY <2>2, <2>9, <2>10 DEF OneDrains
  <2> QED
    BY <2>6, <2>8, <2>11
<1>7. CASE RequestSub(w)
  <2>1. /\ At(w, "reqSub") /\ Goto(w, "reqClose") /\ dropped' = 0 /\ UNCHANGED <<queue, cancel>>
        /\ "reqSub" \in RequestPcs /\ "reqClose" \in RequestPcs
    BY <1>7 DEF RequestSub, RequestPcs
  <2>2. w \in InFlight
    BY <2>1, <1>p DEF InFlight
  <2>3. pending >= 1 + dropped
    BY <2>2, InFlightCounts, SetsFinite
  <2>4. pending' = pending - dropped
    BY <1>7, <2>3, SetsFinite DEF RequestSub, FetchSub
  <2>5. InFlight' = InFlight /\ Counted' = Counted /\ WorkersWaitForLaunch'
    BY <2>1, <1>d
  <2>6. PendingExact'
    BY <2>1, <2>4, <2>5, SetsFinite DEF PendingExact
  <2>7. \A v \in Workers : pc[v] # "finStore"
    BY <2>3, SetsFinite DEF LastTaskLeft
  <2>8. LastTaskLeft'
    BY <2>1, <2>7, <1>t DEF LastTaskLeft, Goto
  <2>9. MainPassedAtZero'
    BY <2>1, <2>3, <1>t, <1>m, SetsFinite DEF MainPassedAtZero, Goto
  <2>10. \A v \in Workers : pc'[v] \notin DrainPcs
    BY <2>1, <1>t, <1>p DEF OneDrains, Goto
  <2>11. OneDrains'
    BY <2>1, <2>10 DEF OneDrains
  <2> QED
    BY <2>5, <2>6, <2>8, <2>9, <2>11
<1>8. CASE RequestClose(w)
  BY <1>8, <1>m, <1>p, NeutralStep DEF RequestClose, Close, RequestPcs
<1>9. CASE RequestNotify(w)
  BY <1>9, <1>m, <1>p, <1>r, NotifyCounts DEF RequestNotify, RequestPcs, CatchPcs
<1> QED
  BY <1>1, <1>2, <1>3, <1>4, <1>5, <1>6, <1>7, <1>8, <1>9 DEF Request

LEMMA CountMain ==
  ASSUME TypeOK, CountInv, MainStep \/ WakeUpMain
  PROVE  CountInv'
<1> USE DEF CountInv
<1>p. /\ "reqSub" \in DrainPcs /\ "collect" \in StartPcs /\ "launch" \in StartPcs
      /\ {"collect", "launch", "await", "parking", "parked", "closing", "join"}
           \intersect (OfferPcs \union {"finStore"}) = {}
      /\ {"await", "parking", "parked"} \intersect (StartPcs \union PastPcs) = {}
      /\ PastPcs \intersect (StartPcs \union OfferPcs \union {"finStore"}) = {}
  BY DEF OfferPcs, DrainPcs, StartPcs, PastPcs, EnqueuePcs, EndPcs
<1>1. CASE Enqueue(Main)
  BY <1>1, CountEnqueue
<1>2. CASE CollectDone
  BY <1>2, <1>p, NeutralStep DEF CollectDone, PastPcs
<1>3. CASE Launch
  <2>1. /\ pc[Main] = "launch" /\ UNCHANGED <<queue, pending, dropped, cancel>>
        /\ pc' = [t \in Threads |-> IF t = Main THEN "await" ELSE "waitPop"]
    BY <1>3 DEF Launch
  <2>2. \A w \in Workers : pc[w] = "unborn"
    BY <2>1, <1>p DEF WorkersWaitForLaunch
  <2>3. /\ {"unborn", "waitPop"} \intersect (TaskPcs \union OfferPcs \union DrainPcs) = {}
        /\ {"launch", "await"} \intersect OfferPcs = {}
    BY DEF ConvertPcs, TaskPcs, OfferPcs, DrainPcs, EnqueuePcs, CatchPcs, RequestPcs
  <2>4. InFlight' = {} /\ InFlight = {} /\ Counted = {} /\ Counted' = {}
    BY <2>1, <2>2, <2>3 DEF InFlight, Counted, OfferPcs
  <2>5. PendingExact'
    BY <2>1, <2>4 DEF PendingExact
  <2>6. LastTaskLeft' /\ MainPassedAtZero' /\ WorkersWaitForLaunch'
    BY <2>1, <1>p DEF LastTaskLeft, MainPassedAtZero, WorkersWaitForLaunch
  <2>7. dropped = 0
    BY <2>2 DEF OneDrains
  <2>8. \A w \in Workers : pc'[w] \notin DrainPcs
    BY <2>1, <2>3
  <2>9. OneDrains'
    BY <2>1, <2>7, <2>8 DEF OneDrains
  <2> QED
    BY <2>5, <2>6, <2>9
<1>4. CASE AwaitDone
  <2>1. CASE pending = 0
    BY <1>4, <2>1, <1>p, NeutralStep DEF AwaitDone, PastPcs
  <2>2. CASE pending # 0
    BY <1>4, <2>2, <1>p, NeutralStep DEF AwaitDone
  <2> QED
    BY <2>1, <2>2
<1>5. CASE Park
  BY <1>5, <1>p, NeutralStep DEF Park
<1>6. CASE CloseQueue
  <2>1. pending = 0
    BY <1>6 DEF CloseQueue, MainPassedAtZero, PastPcs
  <2> QED
    BY <1>6, <2>1, <1>p, NeutralStep DEF CloseQueue, Close, PastPcs
<1>7. CASE Ending
  <2>1. PICK l \in EndPcs : Goto(Main, l)
    BY <1>7, EndingSteps
  <2>2. pc[Main] \in PastPcs /\ l \in PastPcs
    BY <1>7, EndingSteps DEF PastPcs, EndPcs
  <2>3. pending = 0
    BY <2>2 DEF MainPassedAtZero
  <2> QED
    BY <1>7, <2>1, <2>2, <2>3, <1>p, EndingSteps, NeutralStep
<1>8. CASE WakeUpMain
  BY <1>8, <1>p, NeutralStep DEF WakeUpMain
<1> QED
  BY <1>1, <1>2, <1>3, <1>4, <1>5, <1>6, <1>7, <1>8 DEF MainStep, Ending

LEMMA CountInit == Init => CountInv
<1> SUFFICES ASSUME Init PROVE CountInv
  OBVIOUS
<1>1. /\ pc = [t \in Threads |-> IF t = Main THEN "collect" ELSE "unborn"]
      /\ pending = 0 /\ dropped = 0 /\ queue = <<>>
  BY DEF Init, QueueInit
<1>2. {"collect", "unborn"} \intersect (TaskPcs \union OfferPcs \union DrainPcs \union PastPcs) = {}
  BY DEF ConvertPcs, TaskPcs, OfferPcs, DrainPcs, EnqueuePcs, CatchPcs, RequestPcs, PastPcs, EndPcs
<1>3. InFlight = {} /\ Counted = {}
  BY <1>1, <1>2 DEF InFlight, Counted, OfferPcs
<1>4. Cardinality(InFlight) = 0 /\ Cardinality(Counted) = 0
  BY <1>3, FS_EmptySet
<1>5. PendingExact
  BY <1>1, <1>4 DEF PendingExact
<1>6. LastTaskLeft /\ MainPassedAtZero /\ WorkersWaitForLaunch /\ OneDrains
  BY <1>1, <1>2 DEF LastTaskLeft, MainPassedAtZero, WorkersWaitForLaunch, OneDrains
<1> QED
  BY <1>5, <1>6 DEF CountInv

LEMMA CountStep == TypeOK /\ CountInv /\ [Next]_vars => CountInv'
<1> SUFFICES ASSUME TypeOK, CountInv, [Next]_vars PROVE CountInv'
  OBVIOUS
<1>1. CASE MainStep \/ WakeUpMain
  BY <1>1, CountMain
<1>2. ASSUME NEW w \in Workers, WorkerStep(w) PROVE CountInv'
  BY <1>2, CountEnqueue, CountConvert, CountFinish, CountError DEF WorkerStep
<1>3. CASE UNCHANGED <<queue, pending, dropped, cancel, pc>>
  BY <1>3 DEF CountInv, PendingExact, InFlight, Counted, LastTaskLeft, MainPassedAtZero,
              WorkersWaitForLaunch, OneDrains
<1>4. ASSUME NEW w \in Workers, WakeUp(w) PROVE CountInv'
  BY <1>3, <1>4 DEF WakeUp, SpuriousWake
<1> QED
  BY <1>1, <1>2, <1>3, <1>4 DEF Next, vars

LEMMA CountCorrect == Spec => []CountInv
BY TypeInit, TypeStep, CountInit, CountStep, PTL DEF Spec

\* The task counter equals the work that is left at every step of every
\* conversion, so it never wraps and reaches zero only when nothing is left.
THEOREM CounterIsExact == Spec => []PendingExact
BY CountCorrect, PTL DEF CountInv

\* The main thread passes its wait only when nothing is queued and no task runs.
THEOREM WaitEndsWhenQuiet == Spec => []DoneMeansQuiet
<1>1. TypeOK /\ CountInv => DoneMeansQuiet
  BY ZeroMeansQuiet DEF CountInv, MainPassedAtZero, PastPcs, EndPcs, DoneMeansQuiet
<1> QED
  BY <1>1, CountCorrect, TypeCorrect, PTL

USE DEF queueVars, cacheVars, namingVars, registryVars, diagVars, endVars

-----------------------------------------------------------------------------
(* One key, one place.  KeyInOnePlace needs that whatever is at a place has   *)
(* been scheduled: then a key that is offered for the first time, which is    *)
(* not scheduled yet, is nowhere else.                                        *)

OfferingPcs == {"count", "push"}

PlacesScheduled ==
  /\ Members(queue) \subseteq scheduled
  /\ \A w \in InFlight : key[w] \in scheduled
  /\ \A t \in Threads : Offering(t) => Instance(t) \in scheduled

PlacesInv == KeyInOnePlace /\ PlacesScheduled

\* t goes to l; of the others, only a parked main thread may move: it is woken.
Moves(t, l) ==
  /\ pc'[t] = l
  /\ \A u \in Threads \ {t} :
       pc'[u] = pc[u] \/ (u = Main /\ pc[u] = "parked" /\ pc'[u] = "await")

LEMMA GotoMoves ==
  ASSUME TypeOK, NEW t \in Threads, NEW l, Goto(t, l)
  PROVE  Moves(t, l)
BY DEF Moves, Goto, TypeOK, ControlOK

LEMMA NotifyMoves ==
  ASSUME TypeOK, NEW w \in Workers, NEW l, NotifyDone(w, l)
  PROVE  Moves(w, l)
BY DEF Moves, NotifyDone, TypeOK, ControlOK

LEMMA StayMoves ==
  ASSUME NEW t \in Threads, UNCHANGED pc
  PROVE  Moves(t, pc[t])
BY DEF Moves

LEMMA PcSets ==
  /\ OfferingPcs \subseteq EnqueuePcs /\ EnqueuePcs \subseteq TaskPcs
  /\ ({"collect", "launch", "await", "parking", "parked", "closing", "join"} \union EndPcs)
        \intersect TaskPcs = {}
  /\ ({"unborn", "waitPop", "exit"} \union FinishPcs) \intersect TaskPcs = {}
  /\ ConvertPcs \union CatchPcs \union RequestPcs \union {"flush", "finSub"} \subseteq TaskPcs
  /\ (ConvertPcs \union CatchPcs \union RequestPcs \union {"flush", "finSub"})
        \intersect EnqueuePcs = {}
  /\ FallibleStages \union {"create"} \subseteq ConvertPcs
BY DEF OfferingPcs, EnqueuePcs, TaskPcs, FinishPcs, ConvertPcs, CatchPcs, RequestPcs,
       FallibleStages, EndPcs

LEMMA MembersOf ==
  ASSUME NEW S, NEW s \in Seq(S)
  PROVE  \A x : x \in Members(s) <=> \E i \in 1..Len(s) : x = s[i]
<1>1. DOMAIN s = 1..Len(s)
  OBVIOUS
<1> QED
  BY <1>1 DEF Members

\* A push adds one member.
LEMMA AppendMembers ==
  ASSUME NEW s \in Seq(Keys), NEW k \in Keys
  PROVE  Members(Append(s, k)) = Members(s) \union {k}
<1>1. /\ Append(s, k) \in Seq(Keys) /\ Len(Append(s, k)) = Len(s) + 1 /\ Len(s) \in Nat
      /\ \A i \in 1..Len(s) : Append(s, k)[i] = s[i]
      /\ Append(s, k)[Len(s) + 1] = k
  OBVIOUS
<1>2. \A x : x \in Members(s) <=> \E i \in 1..Len(s) : x = s[i]
  BY MembersOf
<1>3. \A x : x \in Members(Append(s, k)) <=> \E i \in 1..Len(Append(s, k)) : x = Append(s, k)[i]
  BY <1>1, MembersOf
<1>4. \A i \in 1..Len(Append(s, k)) : i \in 1..Len(s) \/ i = Len(s) + 1
  BY <1>1
<1>5. \A i \in 1..Len(s) : i \in 1..Len(Append(s, k))
  BY <1>1
<1>6. Len(s) + 1 \in 1..Len(Append(s, k))
  BY <1>1
<1>7. ASSUME NEW x \in Members(Append(s, k)) PROVE x \in Members(s) \union {k}
  <2>1. PICK i \in 1..Len(Append(s, k)) : x = Append(s, k)[i]
    BY <1>3
  <2>2. CASE i \in 1..Len(s)
    BY <2>1, <2>2, <1>1, <1>2
  <2>3. CASE i = Len(s) + 1
    BY <2>1, <2>3, <1>1
  <2> QED
    BY <1>4, <2>2, <2>3
<1>8. ASSUME NEW x \in Members(s) PROVE x \in Members(Append(s, k))
  <2>1. PICK i \in 1..Len(s) : x = s[i]
    BY <1>2
  <2>2. i \in 1..Len(Append(s, k)) /\ x = Append(s, k)[i]
    BY <2>1, <1>1, <1>5
  <2> QED
    BY <2>2, <1>3
<1>9. k \in Members(Append(s, k))
  BY <1>1, <1>3, <1>6
<1> QED
  BY <1>7, <1>8, <1>9

\* A step that brings nothing to a place.
LEMMA PlacesMove ==
  ASSUME TypeOK, PlacesInv, NEW t \in Threads, NEW l, Moves(t, l),
         queue' = queue \/ queue' = <<>>, scheduled \subseteq scheduled', key' = key,
         \A u \in Threads \ {t} : next'[u] = next[u],
         l \in OfferingPcs => pc[t] \in OfferingPcs /\ next'[t] = next[t],
         t # Main /\ l \in TaskPcs => pc[t] \in TaskPcs
  PROVE  PlacesInv'
<1>1. InFlight' \subseteq InFlight
  BY DEF InFlight, Moves
<1>2. ASSUME NEW u \in Threads, Offering(u)'
      PROVE  Offering(u) /\ Instance(u)' = Instance(u)
  <2>1. pc'[u] \in OfferingPcs
    BY <1>2 DEF Offering, OfferingPcs
  <2>2. pc[u] \in OfferingPcs /\ next'[u] = next[u]
    BY <2>1 DEF Moves, OfferingPcs
  <2> QED
    BY <2>2 DEF Offering, OfferingPcs, Instance, Instances
<1>3. Members(queue') \subseteq Members(queue)
  BY DEF Members
<1>4. (\A i, j \in 1..Len(queue) : queue[i] = queue[j] => i = j)'
  BY DEF PlacesInv, KeyInOnePlace
<1>5. KeyInOnePlace'
  BY <1>1, <1>2, <1>3, <1>4 DEF PlacesInv, KeyInOnePlace
<1>6. PlacesScheduled'
  BY <1>1, <1>2, <1>3 DEF PlacesInv, PlacesScheduled
<1> QED
  BY <1>5, <1>6 DEF PlacesInv

\* The first to ask for a key offers it.
LEMMA PlacesOffer ==
  ASSUME TypeOK, PlacesInv, NEW t \in Threads, pc[t] = "schedule", Goto(t, "count"),
         Instance(t) \notin scheduled, scheduled' = scheduled \union {Instance(t)},
         UNCHANGED <<queue, key, next>>
  PROVE  PlacesInv'
<1>m. Moves(t, "count")
  BY GotoMoves
<1>p. "schedule" \in TaskPcs /\ "count" \in TaskPcs
  BY PcSets DEF EnqueuePcs
<1>1. InFlight' = InFlight
  BY <1>m, <1>p, PcSets DEF Moves, InFlight
<1>2. \A u \in Threads : Instance(u)' = Instance(u)
  BY DEF Instance, Instances
<1>3. \A u \in Threads : Offering(u)' <=> Offering(u) \/ u = t
  BY <1>m DEF Moves, Offering
<1>4. /\ Instance(t) \notin Members(queue)
      /\ \A w \in InFlight : key[w] # Instance(t)
      /\ \A u \in Threads : Offering(u) => Instance(u) # Instance(t)
  BY DEF PlacesInv, PlacesScheduled
<1>5. KeyInOnePlace'
  BY <1>1, <1>2, <1>3, <1>4 DEF PlacesInv, KeyInOnePlace
<1>6. PlacesScheduled'
  BY <1>1, <1>2, <1>3 DEF PlacesInv, PlacesScheduled
<1> QED
  BY <1>5, <1>6 DEF PlacesInv

\* A push moves the key from its offering thread to the queue.
LEMMA PlacesPush ==
  ASSUME TypeOK, PlacesInv, NEW t \in Threads, NEW l, pc[t] = "push", Goto(t, l),
         l \notin OfferingPcs, t # Main => l \in TaskPcs,
         queue' = Append(queue, Instance(t)), UNCHANGED <<scheduled, key>>,
         \A u \in Threads \ {t} : next'[u] = next[u]
  PROVE  PlacesInv'
<1>m. Moves(t, l)
  BY GotoMoves
<1>p. "push" \in TaskPcs
  BY PcSets DEF EnqueuePcs
<1>1. InFlight' = InFlight
  BY <1>m, <1>p DEF Moves, InFlight
<1>2. \A u \in Threads : Offering(u)' => u # t /\ Offering(u) /\ Instance(u)' = Instance(u)
  BY <1>m DEF Moves, Offering, OfferingPcs, Instance, Instances
<1>q. queue \in Seq(Keys) /\ Instance(t) \in Keys
  BY InstanceIsKey DEF TypeOK, DataOK, QueueTypeOK, EnqueuePcs
<1>a. /\ queue' \in Seq(Keys) /\ Len(queue') = Len(queue) + 1 /\ Len(queue) \in Nat
      /\ \A i \in 1..Len(queue') : queue'[i] = IF i <= Len(queue) THEN queue[i] ELSE Instance(t)
  BY <1>q
<1>3. Members(queue') = Members(queue) \union {Instance(t)}
  <2>1. Members(Append(queue, Instance(t))) = Members(queue) \union {Instance(t)}
    BY <1>q, AppendMembers
  <2>2. Members(queue') = Members(Append(queue, Instance(t)))
    BY DEF Members
  <2> QED
    BY <2>1, <2>2
<1>4. Offering(t) /\ Instance(t) \notin Members(queue)
  BY DEF Offering, PlacesInv, KeyInOnePlace
<1>5. (\A i, j \in 1..Len(queue) : queue[i] = queue[j] => i = j)'
  <2>1. \A i \in 1..Len(queue) : queue[i] # Instance(t)
    BY <1>4, <1>q DEF Members
  <2>2. \A i, j \in 1..Len(queue) : queue[i] = queue[j] => i = j
    BY DEF PlacesInv, KeyInOnePlace
  <2>3. ASSUME NEW i \in 1..Len(queue'), NEW j \in 1..Len(queue'), queue'[i] = queue'[j] PROVE i = j
    <3>1. /\ queue'[i] = IF i <= Len(queue) THEN queue[i] ELSE Instance(t)
          /\ queue'[j] = IF j <= Len(queue) THEN queue[j] ELSE Instance(t)
      BY <1>a
    <3>2. /\ i <= Len(queue) => i \in 1..Len(queue)
          /\ j <= Len(queue) => j \in 1..Len(queue)
          /\ ~(i <= Len(queue)) => i = Len(queue) + 1
          /\ ~(j <= Len(queue)) => j = Len(queue) + 1
      BY <1>a
    <3> QED
      BY <2>1, <2>2, <2>3, <3>1, <3>2
  <2> QED
    BY <2>3
<1>6. KeyInOnePlace'
  <2>1. \A w \in InFlight : key[w] \notin Members(queue')
    BY <1>3, <1>4 DEF PlacesInv, KeyInOnePlace
  <2>2. \A u \in Threads : Offering(u)' => Instance(u)' \notin Members(queue')
    BY <1>2, <1>3, <1>4 DEF PlacesInv, KeyInOnePlace
  <2> QED
    BY <1>1, <1>2, <1>5, <2>1, <2>2 DEF PlacesInv, KeyInOnePlace
<1>7. PlacesScheduled'
  BY <1>1, <1>2, <1>3, <1>4 DEF PlacesInv, PlacesScheduled
<1> QED
  BY <1>6, <1>7 DEF PlacesInv

\* A pop moves the key from the head of the queue to the worker.
LEMMA PlacesTake ==
  ASSUME TypeOK, PlacesInv, NEW w \in Workers, pc[w] = "waitPop", Goto(w, "begin"),
         queue # <<>>, queue' = Tail(queue), key' = [key EXCEPT ![w] = Head(queue)],
         UNCHANGED <<scheduled, next>>
  PROVE  PlacesInv'
<1>m. Moves(w, "begin")
  BY GotoMoves
<1>p. "begin" \in TaskPcs /\ "waitPop" \notin TaskPcs
  BY PcSets DEF ConvertPcs
<1>1. InFlight' = InFlight \union {w} /\ w \notin InFlight
  BY <1>m, <1>p DEF Moves, InFlight
<1>2. \A u \in Threads : Offering(u)' => u # w /\ Offering(u)
  BY <1>m DEF Moves, Offering
<1>q. queue \in Seq(Keys) /\ key \in [Threads -> Keys \union {NoKey}]
  BY DEF TypeOK, DataOK, QueueTypeOK, ControlOK
<1>3. key'[w] = Head(queue) /\ \A u \in Threads \ {w} : key'[u] = key[u]
  BY <1>q
<1>4. \A u \in Threads \ {w} : Instance(u)' = Instance(u)
  BY <1>3 DEF Instance, Instances
<1>5. /\ Len(queue') = Len(queue) - 1 /\ Len(queue) \in Nat \ {0}
      /\ \A i \in 1..Len(queue') : queue'[i] = queue[i + 1]
      /\ Head(queue) = queue[1]
  BY <1>q
<1>6. \A i, j \in 1..Len(queue) : queue[i] = queue[j] => i = j
  BY DEF PlacesInv, KeyInOnePlace
<1>7. (\A i, j \in 1..Len(queue) : queue[i] = queue[j] => i = j)'
  BY <1>5, <1>6
<1>8. /\ Members(queue') \subseteq Members(queue)
      /\ Head(queue) \in Members(queue) /\ Head(queue) \notin Members(queue')
  <2>1. \A x : x \in Members(queue) <=> \E i \in 1..Len(queue) : x = queue[i]
    BY <1>q, MembersOf
  <2>2. \A x : x \in Members(queue') <=> \E i \in 1..Len(queue') : x = queue'[i]
    <3>1. queue' \in Seq(Keys)
      <4>1. \A q \in Seq(Keys) : q # <<>> => Tail(q) \in Seq(Keys)
        OBVIOUS
      <4> QED
        BY <4>1, <1>q
    <3> QED
      BY <3>1, MembersOf
  <2>3. \A i \in 1..Len(queue') : i + 1 \in 1..Len(queue) /\ queue'[i] # queue[1]
    BY <1>5, <1>6
  <2> QED
    BY <2>1, <2>2, <2>3, <1>5
<1>9. KeyInOnePlace'
  <2>1. \A u, v \in InFlight' : key'[u] = key'[v] => u = v
    BY <1>1, <1>3, <1>8 DEF PlacesInv, KeyInOnePlace, InFlight
  <2>2. \A u \in InFlight' : key'[u] \notin Members(queue')
    BY <1>1, <1>3, <1>8 DEF PlacesInv, KeyInOnePlace, InFlight
  <2>3. ASSUME NEW u \in Threads, Offering(u)'
        PROVE  /\ Instance(u)' \notin Members(queue')
               /\ \A v \in InFlight' : key'[v] # Instance(u)'
               /\ \A v \in Threads : Offering(v)' /\ Instance(v)' = Instance(u)' => v = u
    <3>1. u # w /\ Offering(u) /\ Instance(u)' = Instance(u)
      BY <2>3, <1>2, <1>4
    <3>2. /\ Instance(u) \notin Members(queue)
          /\ \A v \in InFlight : key[v] # Instance(u)
          /\ \A v \in Threads : Offering(v) /\ Instance(v) = Instance(u) => v = u
      BY <3>1 DEF PlacesInv, KeyInOnePlace
    <3>3. \A v \in InFlight' : key'[v] # Instance(u)
      BY <3>2, <1>1, <1>3, <1>8 DEF InFlight
    <3>4. \A v \in Threads : Offering(v)' => Offering(v) /\ Instance(v)' = Instance(v)
      BY <1>2, <1>4
    <3> QED
      BY <3>1, <3>2, <3>3, <3>4, <1>8
  <2> QED
    BY <1>7, <2>1, <2>2, <2>3 DEF KeyInOnePlace
<1>10. PlacesScheduled'
  <2>1. \A u \in InFlight' : key'[u] \in scheduled
    BY <1>1, <1>3, <1>8 DEF PlacesInv, PlacesScheduled, InFlight
  <2>2. \A u \in Threads : Offering(u)' => Instance(u)' \in scheduled
    BY <1>2, <1>4 DEF PlacesInv, PlacesScheduled
  <2> QED
    BY <1>8, <2>1, <2>2 DEF PlacesInv, PlacesScheduled
<1> QED
  BY <1>9, <1>10 DEF PlacesInv

LEMMA PlacesEnqueue ==
  ASSUME TypeOK, PlacesInv, NEW t \in Threads, Enqueue(t)
  PROVE  PlacesInv'
<1>n. next \in [Threads -> Nat \ {0}]
  BY DEF TypeOK, ControlOK
<1>p. /\ CollectPc(t) \notin OfferingPcs /\ (t # Main => CollectPc(t) \in TaskPcs)
      /\ {"schedule", "count", "push", "uncount"} \subseteq TaskPcs
      /\ {"schedule", "uncount"} \intersect OfferingPcs = {}
  BY PcSets DEF CollectPc, OfferingPcs, ConvertPcs, EnqueuePcs
<1>g. ASSUME CollectNext(t), pc[t] \in {CollectPc(t), "schedule", "count", "push", "uncount"},
             UNCHANGED <<queue, scheduled, key>>
      PROVE  PlacesInv'
  <2>1. Moves(t, CollectPc(t)) /\ \A u \in Threads \ {t} : next'[u] = next[u]
    BY <1>g, <1>n, GotoMoves DEF CollectNext
  <2> QED
    BY <1>g, <2>1, <1>p, PlacesMove
<1>1. CASE EnqueueCancelled(t)
  BY <1>1, <1>g DEF EnqueueCancelled, Collecting
<1>2. CASE EnqueueCheck(t)
  BY <1>2, <1>p, GotoMoves, PlacesMove DEF EnqueueCheck, Collecting
<1>3. CASE EnqueueSchedule(t)
  <2>1. CASE CollectNext(t) /\ UNCHANGED scheduled
    BY <1>3, <2>1, <1>g DEF EnqueueSchedule
  <2> QED
    BY <1>3, <2>1, PlacesOffer DEF EnqueueSchedule
<1>4. CASE EnqueueCount(t)
  BY <1>4, <1>p, GotoMoves, PlacesMove DEF EnqueueCount, OfferingPcs
<1>5. CASE EnqueuePush(t)
  <2>1. CASE TryPushAccepts(Instance(t)) /\ CollectNext(t)
    <3>1. \A u \in Threads \ {t} : next'[u] = next[u]
      BY <2>1, <1>n DEF CollectNext
    <3> QED
      BY <1>5, <2>1, <3>1, <1>p, PlacesPush DEF EnqueuePush, TryPushAccepts, CollectNext
  <2>2. CASE TryPushRefuses /\ Goto(t, "uncount") /\ UNCHANGED next
    BY <1>5, <2>2, <1>p, GotoMoves, PlacesMove DEF EnqueuePush, TryPushRefuses
  <2> QED
    BY <1>5, <2>1, <2>2 DEF EnqueuePush
<1>6. CASE EnqueueUncount(t)
  BY <1>6, <1>g DEF EnqueueUncount
<1> QED
  BY <1>1, <1>2, <1>3, <1>4, <1>5, <1>6 DEF Enqueue

LEMMA PlacesWorker ==
  ASSUME TypeOK, PlacesInv, NEW w \in Workers,
         Convert(w) \/ Finish(w) \/ ReportError(w) \/ Throw(w) \/ Request(w)
  PROVE  PlacesInv'
<1>m. w \in Threads /\ w # Main
  OBVIOUS
<1>p. /\ ConvertPcs \union CatchPcs \union RequestPcs \union {"flush", "finSub"}
           \subseteq TaskPcs \ OfferingPcs
      /\ ({"waitPop", "exit"} \union FinishPcs) \intersect TaskPcs = {}
      /\ FallibleStages \union {"create"} \subseteq ConvertPcs
      /\ OfferingPcs \subseteq TaskPcs
  BY PcSets
\* w moves, and keeps its key.
<1>g. ASSUME NEW l \in (TaskPcs \ OfferingPcs) \union {"waitPop", "exit"} \union FinishPcs,
             Moves(w, l), l \in TaskPcs => pc[w] \in TaskPcs,
             queue' = queue \/ queue' = <<>>, scheduled' = scheduled, key' = key,
             next' = next \/ next' = [next EXCEPT ![w] = 1]
      PROVE  PlacesInv'
  <2>1. \A u \in Threads \ {w} : next'[u] = next[u]
    BY <1>g DEF TypeOK, ControlOK
  <2> QED
    BY <1>g, <2>1, <1>m, <1>p, PlacesMove
<1>1. CASE WaitPop(w)
  <2>1. CASE WaitSleeps(w, cancel) /\ UNCHANGED <<pc, key>>
    BY <1>1, <2>1, <1>g, <1>m, <1>p, StayMoves DEF WaitPop, WaitSleeps
  <2>2. CASE WaitStops(cancel) /\ Goto(w, "exit") /\ UNCHANGED key
    BY <1>1, <2>2, <1>g, <1>m, <1>p, GotoMoves DEF WaitPop, WaitStops
  <2>3. CASE WaitTakes(cancel) /\ key' = [key EXCEPT ![w] = Head(queue)] /\ Goto(w, "begin")
    BY <1>1, <2>3, PlacesTake DEF WaitPop, WaitTakes
  <2> QED
    BY <1>1, <2>1, <2>2, <2>3 DEF WaitPop
<1>2. CASE Begin(w) \/ Enter(w) \/ Claim(w)
  BY <1>2, <1>g, <1>m, <1>p, GotoMoves DEF Begin, Enter, Claim, ConvertPcs
<1>3. CASE PlanDone(w) \/ LowerDone(w) \/ NameGraph(w) \/ Create(w)
  BY <1>3, <1>g, <1>m, <1>p, GotoMoves DEF PlanDone, LowerDone, NameGraph, Create, ConvertPcs
<1>4. CASE NameInstance(w)
  <2>1. Moves(w, "refs") /\ "refs" \in TaskPcs \ OfferingPcs
    BY <1>4, <1>m, <1>p, StayMoves DEF NameInstance, ConvertPcs
  <2>2. \A u \in Threads \ {w} : next'[u] = next[u]
    BY <1>4 DEF NameInstance, TypeOK, ControlOK
  <2> QED
    BY <1>4, <2>1, <2>2, <1>m, PlacesMove DEF NameInstance
<1>5. CASE AssemblyDone(w) \/ Store(w)
  BY <1>5, <1>g, <1>m, <1>p, GotoMoves DEF AssemblyDone, Store, ConvertPcs
<1>6. CASE MarkReady(w) \/ Flush(w)
  BY <1>6, <1>g, <1>m, <1>p, GotoMoves DEF MarkReady, Flush, ConvertPcs
<1>7. CASE Finish(w)
  <2>1. CASE FinSub(w) \/ FinStore(w) \/ FinClose(w)
    BY <2>1, <1>g, <1>m, <1>p, GotoMoves DEF FinSub, FinStore, FinClose, Close, FinishPcs
  <2>2. CASE FinNotify(w)
    BY <2>2, <1>g, <1>m, <1>p, NotifyMoves DEF FinNotify
  <2> QED
    BY <1>7, <2>1, <2>2 DEF Finish
<1>8. CASE ReportError(w)
  <2>1. CASE Goto(w, "reqCas")
    BY <1>8, <2>1, <1>g, <1>m, <1>p, GotoMoves DEF ReportError, RequestPcs
  <2>2. CASE UNCHANGED pc
    BY <1>8, <2>2, <1>g, <1>m, <1>p, StayMoves DEF ReportError
  <2> QED
    BY <1>8, <2>1, <2>2 DEF ReportError
<1>9. CASE Throw(w)
  BY <1>9, <1>g, <1>m, <1>p, GotoMoves DEF Throw, CatchPcs
<1>10. CASE Request(w)
  <2>r. ret[w] \in TaskPcs \ OfferingPcs
    BY <1>m, <1>p DEF TypeOK, ControlOK, CatchPcs
  <2>1. CASE Catch(w) \/ RequestAgain(w)
    BY <2>1, <1>g, <1>m, <1>p, GotoMoves DEF Catch, RequestAgain, CatchPcs, RequestPcs
  <2>2. CASE RequestCas(w)
    BY <2>2, <2>r, <1>g, <1>m, <1>p, GotoMoves DEF RequestCas, RequestPcs
  <2>3. CASE RequestDrain(w) \/ RequestSub(w) \/ RequestClose(w)
    BY <2>3, <1>g, <1>m, <1>p, GotoMoves
       DEF RequestDrain, RequestSub, RequestClose, Drain, Close, RequestPcs
  <2>4. CASE RequestNotify(w)
    BY <2>4, <2>r, <1>g, <1>m, <1>p, NotifyMoves DEF RequestNotify, RequestPcs
  <2> QED
    BY <1>10, <2>1, <2>2, <2>3, <2>4 DEF Request
<1> QED
  BY <1>1, <1>2, <1>3, <1>4, <1>5, <1>6, <1>7, <1>8, <1>9, <1>10 DEF Convert

LEMMA PlacesMain ==
  ASSUME TypeOK, PlacesInv, MainStep \/ WakeUpMain
  PROVE  PlacesInv'
<1>p. ({"launch", "await", "parking", "parked", "closing", "join"} \union EndPcs)
        \intersect OfferingPcs = {}
  BY DEF OfferingPcs, EndPcs
<1>1. CASE Enqueue(Main)
  BY <1>1, PlacesEnqueue
<1>2. CASE Launch
  <2>1. {"await", "waitPop"} \intersect (TaskPcs \union OfferingPcs) = {}
    BY PcSets DEF OfferingPcs
  <2>2. InFlight' = {} /\ \A t \in Threads : ~Offering(t)'
    BY <1>2, <2>1 DEF Launch, InFlight, Offering, OfferingPcs
  <2> QED
    BY <1>2, <2>2 DEF Launch, PlacesInv, KeyInOnePlace, PlacesScheduled
<1>3. CASE CollectDone \/ AwaitDone \/ Park \/ CloseQueue \/ WakeUpMain
  BY <1>3, <1>p, GotoMoves, PlacesMove
     DEF CollectDone, AwaitDone, Park, CloseQueue, Close, WakeUpMain
<1>4. CASE Ending
  <2>1. PICK l \in EndPcs : Moves(Main, l)
    BY <1>4, EndingSteps, GotoMoves
  <2>2. \A u \in Threads \ {Main} : next'[u] = next[u]
    BY <1>4, EndingSteps DEF TypeOK, ControlOK
  <2> QED
    BY <1>4, <2>1, <2>2, <1>p, EndingSteps, PlacesMove
<1> QED
  BY <1>1, <1>2, <1>3, <1>4 DEF MainStep, Ending

LEMMA PlacesInit == Init => PlacesInv
<1> SUFFICES ASSUME Init PROVE PlacesInv
  OBVIOUS
<1>1. /\ pc = [t \in Threads |-> IF t = Main THEN "collect" ELSE "unborn"]
      /\ queue = <<>> /\ scheduled = {}
  BY DEF Init, QueueInit
<1>2. InFlight = {} /\ \A t \in Threads : ~Offering(t)
  BY <1>1, PcSets DEF InFlight, Offering
<1>3. Members(queue) = {} /\ Len(queue) = 0
  BY <1>1 DEF Members
<1> QED
  BY <1>2, <1>3 DEF PlacesInv, KeyInOnePlace, PlacesScheduled

LEMMA PlacesStep == TypeOK /\ PlacesInv /\ [Next]_vars => PlacesInv'
<1> SUFFICES ASSUME TypeOK, PlacesInv, [Next]_vars PROVE PlacesInv'
  OBVIOUS
<1>1. CASE MainStep \/ WakeUpMain
  BY <1>1, PlacesMain
<1>2. ASSUME NEW w \in Workers, WorkerStep(w) PROVE PlacesInv'
  BY <1>2, PlacesEnqueue, PlacesWorker DEF WorkerStep
<1>3. CASE UNCHANGED <<queue, scheduled, pc, key, next>>
  BY <1>3 DEF PlacesInv, KeyInOnePlace, PlacesScheduled, InFlight, Offering, Instance, Instances,
              Members
<1>4. ASSUME NEW w \in Workers, WakeUp(w) PROVE PlacesInv'
  BY <1>3, <1>4 DEF WakeUp, SpuriousWake
<1> QED
  BY <1>1, <1>2, <1>3, <1>4 DEF Next, vars

LEMMA PlacesCorrect == Spec => []PlacesInv
BY TypeInit, TypeStep, PlacesInit, PlacesStep, PTL DEF Spec

\* A module is offered, queued or held once at any time, for any number of
\* workers and any hierarchy, also while an abort drops the queue.
THEOREM KeyAtOnePlace == Spec => []KeyInOnePlace
BY PlacesCorrect, PTL DEF PlacesInv

-----------------------------------------------------------------------------
(* Diagnostics and the outcome.  A message is in the buffer of a worker that  *)
(* still has its flush before it, or it is shared; the error flag is raised   *)
(* with the first error, and from then on, when errors abort, the flag        *)
(* `cancel` is set or a worker is about to set it.  Only warnings about the   *)
(* top graphs, which come after the joins, are in the main thread's buffer.   *)

BuffersOpen ==
  /\ \A w \in Workers : buffer[w] # {} => pc[w] \in TaskPcs \ {"finSub"}
  /\ buffer[Main] \subseteq Warnings
  /\ buffer[Main] # {} => pc[Main] \in {"finalize", "return"}
ErrorsKnown ==
  hasError <=> \E m \in Errors : m \in messages \/ \E t \in Threads : m \in buffer[t]
AbortHasReason ==
  /\ cancel => hasError /\ AbortOnError
  /\ \A w \in Workers : pc[w] \in RequestPcs \union {"again"} => hasError /\ AbortOnError
AbortIsAsked ==
  hasError /\ AbortOnError => cancel \/ \E w \in Workers : pc[w] = "reqCas"
ReturnIsLast ==
  /\ outcome # "none" <=> pc[Main] \in {"return", "over"}
  /\ pc[Main] \in EndPcs => \A w \in Workers : pc[w] = "exit"
  /\ pc[Main] = "finalize" => ~cancel
  /\ outcome # "none" => (outcome = "abort" <=> cancel)

DiagInv == /\ BuffersOpen /\ ErrorsKnown /\ AbortHasReason /\ AbortIsAsked
           /\ ReturnIsLast

LEMMA ErrorsAreNoWarnings == Errors \intersect Warnings = {}
BY DEF Errors, Warnings

\* Before the end nothing has come out, and the main thread has said nothing.
LEMMA NotOver ==
  ASSUME DiagInv, pc[Main] \notin EndPcs
  PROVE  outcome = "none" /\ buffer[Main] = {}
BY DEF DiagInv, ReturnIsLast, BuffersOpen, EndPcs

LEMMA StaysOpen ==
  ASSUME DiagInv, pc[Main] \notin EndPcs, pc'[Main] \notin EndPcs, UNCHANGED outcome
  PROVE  ReturnIsLast'
BY NotOver DEF ReturnIsLast, EndPcs

\* A step of t that says nothing.
LEMMA DiagMove ==
  ASSUME TypeOK, DiagInv, NEW t \in Threads, NEW l, Moves(t, l),
         UNCHANGED <<buffer, messages, hasError, cancel, outcome>>,
         pc[t] \notin {"exit"} \union EndPcs, l \notin EndPcs,
         t \in Workers => /\ pc[t] \in TaskPcs => l \in TaskPcs
                          /\ l = "finSub" => buffer[t] = {}
                          /\ pc[t] # "reqCas"
                          /\ l \in RequestPcs \union {"again"} => hasError /\ AbortOnError
  PROVE  DiagInv'
<1> USE DEF DiagInv
<1>n. pc[Main] \notin EndPcs
  BY DEF ReturnIsLast
<1>1. BuffersOpen'
  BY <1>n, NotOver DEF BuffersOpen, Moves
<1>2. ErrorsKnown'
  BY DEF ErrorsKnown
<1>3. AbortHasReason'
  BY DEF AbortHasReason, Moves
<1>4. AbortIsAsked'
  BY DEF AbortIsAsked, Moves
<1>5. pc'[Main] \notin EndPcs
  BY <1>n DEF Moves, EndPcs
<1>6. ReturnIsLast'
  BY <1>5, <1>n, StaysOpen
<1> QED
  BY <1>1, <1>2, <1>3, <1>4, <1>6

\* A worker reports m and goes to l: to the request, when errors abort.
LEMMA DiagReport ==
  ASSUME TypeOK, DiagInv, NEW w \in Workers, NEW l \in TaskPcs \ {"finSub", "again"}, Moves(w, l),
         NEW m \in Errors, Report(w, m), UNCHANGED <<cancel, outcome>>,
         pc[w] \in TaskPcs, pc[w] # "reqCas",
         IF AbortOnError THEN l = "reqCas" ELSE l \notin RequestPcs
  PROVE  DiagInv'
<1> USE DEF DiagInv
<1>m. w \in Threads /\ w # Main
  OBVIOUS
<1>b. /\ buffer'[w] = buffer[w] \union {m} /\ \A u \in Threads \ {w} : buffer'[u] = buffer[u]
      /\ hasError' /\ messages' = messages
  BY DEF Report, TypeOK, DataOK
<1>e. "exit" \notin TaskPcs
  BY PcSets
<1>n. pc[Main] \notin EndPcs
  BY <1>e DEF ReturnIsLast
<1>1. BuffersOpen'
  BY <1>n, NotOver, <1>b, <1>m DEF BuffersOpen, Moves
<1>2. ErrorsKnown'
  BY <1>b, <1>m DEF ErrorsKnown
<1>3. AbortHasReason'
  BY <1>b DEF AbortHasReason, Moves
<1>4. AbortIsAsked'
  BY <1>m DEF AbortIsAsked, Moves
<1>5. pc'[Main] \notin EndPcs
  BY <1>n, <1>m DEF Moves, EndPcs
<1>6. ReturnIsLast'
  BY <1>5, <1>n, StaysOpen
<1> QED
  BY <1>1, <1>2, <1>3, <1>4, <1>6

LEMMA DiagCas ==
  ASSUME TypeOK, DiagInv, NEW w \in Workers, RequestCas(w)
  PROVE  DiagInv'
<1> USE DEF DiagInv
<1>m. w \in Threads /\ w # Main
  OBVIOUS
<1>1. PICK l \in {"reqDrain", ret[w]} : Moves(w, l)
  BY GotoMoves DEF RequestCas
<1>2. /\ pc[w] = "reqCas" /\ hasError /\ AbortOnError /\ cancel'
      /\ UNCHANGED <<buffer, messages, hasError, outcome>>
  BY DEF RequestCas, RequestPcs, AbortHasReason
<1>3. l \in TaskPcs \ {"finSub", "exit"}
  BY <1>m, PcSets DEF TypeOK, ControlOK, FallibleStages, CatchPcs, RequestPcs
<1>n. pc[Main] \notin EndPcs
  BY <1>2 DEF ReturnIsLast
<1>4. BuffersOpen'
  BY <1>n, NotOver, <1>1, <1>2, <1>3, <1>m DEF BuffersOpen, Moves
<1>5. ErrorsKnown' /\ AbortHasReason' /\ AbortIsAsked'
  BY <1>2 DEF ErrorsKnown, AbortHasReason, AbortIsAsked
<1>6. pc'[Main] \notin EndPcs
  BY <1>1, <1>n, <1>m DEF Moves, EndPcs
<1>7. ReturnIsLast'
  BY <1>2, <1>6, <1>n, StaysOpen
<1> QED
  BY <1>4, <1>5, <1>7

LEMMA DiagFlush ==
  ASSUME TypeOK, DiagInv, NEW w \in Workers, Flush(w)
  PROVE  DiagInv'
<1> USE DEF DiagInv
<1>m. w \in Threads /\ w # Main
  OBVIOUS
<1>1. /\ Moves(w, "finSub") /\ pc[w] = "flush" /\ UNCHANGED <<hasError, cancel, outcome>>
      /\ messages' = messages \union buffer[w]
  BY <1>m, GotoMoves DEF Flush
<1>2. buffer'[w] = {} /\ \A u \in Threads \ {w} : buffer'[u] = buffer[u]
  BY DEF Flush, TypeOK, DataOK
<1>3. "finSub" \notin RequestPcs \union {"again", "exit"}
  BY DEF RequestPcs
<1>n. pc[Main] \notin EndPcs
  BY <1>1 DEF ReturnIsLast
<1>4. BuffersOpen'
  BY <1>n, NotOver, <1>1, <1>2, <1>m DEF BuffersOpen, Moves
<1>5. ErrorsKnown'
  BY <1>1, <1>2, <1>m DEF ErrorsKnown
<1>6. AbortHasReason' /\ AbortIsAsked'
  BY <1>1, <1>3 DEF AbortHasReason, AbortIsAsked, Moves
<1>7. pc'[Main] \notin EndPcs
  BY <1>1, <1>n, <1>m DEF Moves, EndPcs
<1>8. ReturnIsLast'
  BY <1>1, <1>7, <1>n, StaysOpen
<1> QED
  BY <1>4, <1>5, <1>6, <1>8

\* After the joins the main thread says nothing but warnings, which its buffer
\* keeps until they are flushed.
LEMMA EndingSays ==
  ASSUME TypeOK, DiagInv, Ending
  PROVE  /\ \A w \in Workers : /\ pc[w] = "exit" /\ pc'[w] = "exit"
                               /\ buffer[w] = {} /\ buffer'[w] = {}
         /\ buffer'[Main] \subseteq Warnings
         /\ buffer'[Main] # {} => pc'[Main] \in {"finalize", "return"}
         /\ \A m \in Errors : /\ m \in messages' <=> m \in messages
                              /\ \A t \in Threads : m \notin buffer[t] /\ m \notin buffer'[t]
<1> USE DEF DiagInv
<1>1. PICK l \in EndPcs : Moves(Main, l) /\ Goto(Main, l)
  BY EndingSteps, GotoMoves
<1>3. /\ \A w \in Workers : pc[w] = "exit" /\ pc'[w] = "exit"
      /\ pc'[Main] = l
  <2>1. \A w \in Workers : pc[w] = "exit"
    BY DEF Ending, Join, FinalizeTop, ReturnDesign, CallerFlush, ReturnIsLast, EndPcs
  <2> QED
    BY <1>1, <2>1 DEF Moves
<1>4. /\ \A w \in Workers : buffer[w] = {} /\ buffer'[w] = {}
      /\ buffer \in [Threads -> SUBSET Messages]
  <2>1. \A w \in Workers : buffer[w] = {}
    BY <1>3, PcSets DEF BuffersOpen
  <2> QED
    BY <2>1, EndingSteps DEF TypeOK, DataOK
<1>5. /\ buffer'[Main] \subseteq Warnings
      /\ buffer'[Main] # {} => l \in {"finalize", "return"}
      /\ messages' \in {messages, messages \union buffer[Main]}
  <2>1. CASE Join \/ CallerFlush
    BY <1>4, <2>1 DEF Join, CallerFlush
  <2>2. CASE ReturnDesign
    BY <1>3, <2>2 DEF ReturnDesign, BuffersOpen, Goto, TypeOK, ControlOK
  <2>3. CASE FinalizeTop
    <3>1. l = "finalize" /\ messages' = messages
      BY <1>3, <2>3 DEF FinalizeTop
    <3>2. CASE UNCHANGED <<namingVars, buffer, tops, aliases>>
      BY <3>1, <3>2 DEF BuffersOpen
    <3>3. CASE Finalize(Instance(Main))
      <4>1. PICK new \in SUBSET Warnings : Warn(new)
        BY <3>3, <2>3, FinalizedIsKey, FinalizeOK DEF TypeOK
      <4> QED
        BY <1>4, <3>1, <4>1 DEF Warn, BuffersOpen
    <3> QED
      BY <2>3, <3>2, <3>3 DEF FinalizeTop
  <2> QED
    BY <2>1, <2>2, <2>3 DEF Ending
<1>7. \A m \in Errors : /\ m \in messages' <=> m \in messages
                       /\ \A t \in Threads : m \notin buffer[t] /\ m \notin buffer'[t]
  BY <1>4, <1>5, ErrorsAreNoWarnings DEF BuffersOpen
<1> QED
  BY <1>3, <1>4, <1>5, <1>7

LEMMA DiagEnding ==
  ASSUME TypeOK, DiagInv, Ending
  PROVE  DiagInv'
<1> USE DEF DiagInv
<1>2. UNCHANGED <<hasError, cancel>> /\ pc \in [Threads -> WorkerPcs \union MainPcs]
  BY EndingSteps DEF TypeOK, ControlOK
<1>3. \A w \in Workers : pc[w] = "exit" /\ pc'[w] = "exit"
  BY EndingSays
<1>6. BuffersOpen'
  BY EndingSays DEF BuffersOpen
<1>8. ErrorsKnown'
  BY <1>2, EndingSays DEF ErrorsKnown
<1>9. AbortHasReason' /\ AbortIsAsked'
  BY <1>2, <1>3 DEF AbortHasReason, AbortIsAsked, RequestPcs
<1>10. ReturnIsLast'
  <2>1. CASE Join
    <3>1. outcome = "none"
      BY <2>1, NotOver DEF Join, EndPcs
    <3> QED
      BY <1>2, <1>3, <2>1, <3>1
         DEF Join, Goto, AbortHasReason, ReturnIsLast, EndPcs
  <2>2. CASE FinalizeTop
    BY <1>2, <1>3, <2>2 DEF FinalizeTop, ReturnIsLast, EndPcs
  <2>3. CASE ReturnDesign
    BY <1>2, <1>3, <2>3 DEF ReturnDesign, Goto, ReturnIsLast, EndPcs
  <2>4. CASE CallerFlush
    BY <1>2, <1>3, <2>4 DEF CallerFlush, Goto, ReturnIsLast, EndPcs
  <2> QED
    BY <2>1, <2>2, <2>3, <2>4 DEF Ending
<1> QED
  BY <1>6, <1>8, <1>9, <1>10

LEMMA DiagWorker ==
  ASSUME TypeOK, DiagInv, NEW w \in Workers, WorkerStep(w)
  PROVE  DiagInv'
<1>m. w \in Threads /\ w # Main
  OBVIOUS
<1>p. /\ ConvertPcs \union CatchPcs \union RequestPcs \union {"flush", "finSub"} \subseteq TaskPcs
      /\ ({"waitPop", "exit", "unborn"} \union FinishPcs) \intersect TaskPcs = {}
      /\ FallibleStages \union {"create"} \subseteq ConvertPcs
      /\ EnqueuePcs \subseteq TaskPcs
  BY PcSets
<1>q. /\ ({"exit", "reqCas"} \union EndPcs)
           \intersect (ConvertPcs \union CatchPcs \union EnqueuePcs \union FinishPcs
                        \union {"flush", "finSub", "waitPop", "caught"}) = {}
      /\ (RequestPcs \union {"again", "finSub"})
           \intersect (ConvertPcs \union EnqueuePcs \union FinishPcs
                        \union {"flush", "caught", "waitPop", "exit"}) = {}
      /\ ({"exit", "finSub"} \union EndPcs) \intersect RequestPcs = {}
      /\ {"again", "reqCas", "reqDrain", "reqSub", "reqClose", "reqNotify"} \intersect EndPcs = {}
  BY DEF ConvertPcs, CatchPcs, EnqueuePcs, FinishPcs, RequestPcs, EndPcs
\* w moves without a word, within its task or outside of it.
<1>g. ASSUME NEW l \in ConvertPcs \union EnqueuePcs \union FinishPcs
                        \union {"flush", "caught", "waitPop", "exit"},
             Moves(w, l), pc[w] \notin {"exit", "reqCas"} \union EndPcs,
             pc[w] \in TaskPcs => l \in TaskPcs,
             UNCHANGED <<buffer, messages, hasError, cancel, outcome>>
      PROVE  DiagInv'
  <2>1. l \notin {"finSub", "again"} \union RequestPcs \union EndPcs
    <3>1. l = "exit" => l \notin EndPcs
      BY DEF EndPcs
    <3> QED
      BY <1>g, <1>q, <3>1
  <2>2. /\ pc[w] \notin {"exit"} \union EndPcs /\ pc[w] # "reqCas" /\ l # "finSub"
        /\ l \notin EndPcs /\ l \notin RequestPcs \union {"again"}
    BY <1>g, <2>1
  <2>3. pc[w] \in TaskPcs => l \in TaskPcs
    BY <1>g
  <2> QED
    BY <1>g, <1>m, <2>2, <2>3, DiagMove
<1>e. pc[w] \in TaskPcs => {<<key[w], "error">>, <<key[w], "workerFailed">>} \subseteq Errors
  BY DEF Errors, TypeOK, ControlOK
<1>1. CASE Enqueue(w)
  <2>1. CollectPc(w) \in ConvertPcs
    BY <1>m DEF CollectPc, ConvertPcs
  <2>2. PICK l \in EnqueuePcs \union {CollectPc(w)} : Moves(w, l)
    BY <1>1, <1>m, GotoMoves
       DEF Enqueue, EnqueueCancelled, EnqueueCheck, EnqueueSchedule, EnqueueCount, EnqueuePush,
           EnqueueUncount, CollectNext, EnqueuePcs
  <2>3. pc[w] \in EnqueuePcs \union {CollectPc(w)}
    BY <1>1, <1>m
       DEF Enqueue, EnqueueCancelled, EnqueueCheck, EnqueueSchedule, EnqueueCount, EnqueuePush,
           EnqueueUncount, Collecting, EnqueuePcs
  <2>4. UNCHANGED <<buffer, messages, hasError, cancel, outcome>>
    BY <1>1
       DEF Enqueue, EnqueueCancelled, EnqueueCheck, EnqueueSchedule, EnqueueCount, EnqueuePush,
           EnqueueUncount
  <2> QED
    BY <2>1, <2>2, <2>3, <2>4, <1>p, <1>q, <1>g
<1>2. CASE WaitPop(w)
  <2>1. PICK l \in {"waitPop", "exit", "begin"} : Moves(w, l)
    BY <1>2, <1>m, GotoMoves, StayMoves DEF WaitPop
  <2> QED
    BY <1>2, <2>1, <1>p, <1>q, <1>g DEF WaitPop, ConvertPcs
<1>3. CASE Begin(w) \/ Enter(w) \/ Claim(w)
  BY <1>3, <1>g, <1>m, <1>p, <1>q, GotoMoves DEF Begin, Enter, Claim, ConvertPcs
<1>4. CASE PlanDone(w) \/ LowerDone(w) \/ NameGraph(w) \/ Create(w)
  BY <1>4, <1>g, <1>m, <1>p, <1>q, GotoMoves DEF PlanDone, LowerDone, NameGraph, Create, ConvertPcs
<1>5. CASE NameInstance(w)
  <2>1. Moves(w, "refs")
    BY <1>5, <1>m, StayMoves DEF NameInstance
  <2> QED
    BY <1>5, <2>1, <1>g, <1>p, <1>q DEF NameInstance, ConvertPcs
<1>6. CASE AssemblyDone(w) \/ Store(w) \/ MarkReady(w)
  BY <1>6, <1>g, <1>m, <1>p, <1>q, GotoMoves DEF AssemblyDone, Store, MarkReady, ConvertPcs
<1>7. CASE Flush(w)
  BY <1>7, DiagFlush
<1>8. CASE FinSub(w)
  <2>1. buffer[w] = {} /\ pc[w] = "finSub"
    BY <1>8, <1>m DEF FinSub, DiagInv, BuffersOpen
  <2>2. PICK l \in FinishPcs \union {"waitPop"} : Moves(w, l)
    BY <1>8, <1>m, GotoMoves DEF FinSub, FinishPcs
  <2>3. UNCHANGED <<buffer, messages, hasError, cancel, outcome>>
    BY <1>8 DEF FinSub
  <2>8. pc[Main] \notin EndPcs
    BY <2>1 DEF DiagInv, ReturnIsLast
  <2>4. /\ BuffersOpen' /\ ErrorsKnown'
    BY <2>1, <2>2, <2>3, <2>8, NotOver DEF DiagInv, BuffersOpen, ErrorsKnown, Moves
  <2>5. AbortHasReason' /\ AbortIsAsked'
    BY <2>1, <2>2, <2>3, <1>q DEF DiagInv, AbortHasReason, AbortIsAsked, Moves
  <2>6. pc[Main] \notin EndPcs /\ pc'[Main] \notin EndPcs
    BY <2>1, <2>2, <1>m DEF DiagInv, ReturnIsLast, Moves, EndPcs
  <2>7. ReturnIsLast'
    BY <2>3, <2>6, StaysOpen
  <2> QED
    BY <2>4, <2>5, <2>7 DEF DiagInv
<1>9. CASE FinStore(w) \/ FinClose(w)
  BY <1>9, <1>g, <1>m, <1>p, <1>q, GotoMoves DEF FinStore, FinClose, FinishPcs
<1>10. CASE FinNotify(w)
  BY <1>10, <1>g, <1>m, <1>p, <1>q, NotifyMoves DEF FinNotify, FinishPcs
<1>11. CASE ReportError(w)
  <2>1. pc[w] \in FallibleStages
    BY <1>11 DEF ReportError
  <2>2. CASE AbortOnError
    <3>1. Moves(w, "reqCas") /\ Report(w, <<key[w], "error">>) /\ UNCHANGED <<cancel, outcome>>
      BY <1>11, <2>2, <1>m, GotoMoves DEF ReportError
    <3>2. pc[w] \in TaskPcs /\ pc[w] # "reqCas"
      BY <2>1, <1>p, <1>q
    <3>3. "reqCas" \in TaskPcs \ {"finSub", "again"}
      BY <1>p DEF RequestPcs
    <3> QED
      BY <2>2, <3>1, <3>2, <3>3, <1>e, DiagReport
  <2>3. CASE ~AbortOnError
    <3>1. Moves(w, pc[w])
      BY <1>11, <2>3, <1>m, StayMoves DEF ReportError
    <3>2. pc[w] \in TaskPcs \ {"finSub", "again"} /\ pc[w] \notin RequestPcs /\ pc[w] # "reqCas"
      BY <2>1, <1>p, <1>q
    <3> QED
      BY <1>11, <2>3, <3>1, <3>2, <1>e, DiagReport DEF ReportError
  <2> QED
    BY <2>2, <2>3
<1>12. CASE Throw(w)
  BY <1>12, <1>g, <1>m, <1>p, <1>q, GotoMoves DEF Throw, CatchPcs
<1>13. CASE Catch(w)
  <2>1. PICK l \in {"reqCas", "flush"} : Moves(w, l) /\ (l = "reqCas" <=> AbortOnError)
    BY <1>13, <1>m, GotoMoves DEF Catch
  <2>2. "flush" \notin RequestPcs /\ "reqCas" \in RequestPcs /\ "caught" \in CatchPcs
    BY DEF RequestPcs, CatchPcs
  <2>3. /\ Report(w, <<key[w], "workerFailed">>) /\ UNCHANGED <<cancel, outcome>>
        /\ pc[w] \in TaskPcs /\ pc[w] # "reqCas"
    BY <1>13, <2>2, <1>p, <1>q DEF Catch
  <2>4. l \in TaskPcs \ {"finSub", "again"}
    BY <2>1, <2>2, <1>p
  <2> QED
    BY <2>1, <2>2, <2>3, <2>4, <1>e, DiagReport
<1>14. CASE RequestCas(w)
  BY <1>14, DiagCas
<1>15. CASE RequestAgain(w) \/ RequestDrain(w) \/ RequestSub(w) \/ RequestClose(w) \/ RequestNotify(w)
  <2>1. PICK l \in RequestPcs \union {ret[w]} : Moves(w, l)
    BY <1>15, <1>m, GotoMoves, NotifyMoves
       DEF RequestAgain, RequestDrain, RequestSub, RequestClose, RequestNotify, RequestPcs
  <2>2. pc[w] \in (RequestPcs \ {"reqCas"}) \union {"again"}
    BY <1>15 DEF RequestAgain, RequestDrain, RequestSub, RequestClose, RequestNotify, RequestPcs
  <2>3. l \in TaskPcs \ ({"finSub", "exit"} \union EndPcs)
    BY <1>m, <1>p, <1>q DEF TypeOK, ControlOK, FallibleStages, CatchPcs
  <2>4. UNCHANGED <<buffer, messages, hasError, cancel, outcome>>
    BY <1>15 DEF RequestAgain, RequestDrain, RequestSub, RequestClose, RequestNotify
  <2>5. hasError /\ AbortOnError
    BY <2>2 DEF DiagInv, AbortHasReason
  <2>6. pc[w] \notin {"exit", "reqCas"} \union EndPcs
    BY <2>2, <1>q
  <2> QED
    BY <2>1, <2>3, <2>4, <2>5, <2>6, <1>m, DiagMove
<1> QED
  BY <1>1, <1>2, <1>3, <1>4, <1>5, <1>6, <1>7, <1>8, <1>9, <1>10, <1>11, <1>12, <1>13, <1>14, <1>15
     DEF WorkerStep, Convert, Finish, Request

LEMMA DiagMain ==
  ASSUME TypeOK, WorkersWaitForLaunch, DiagInv, MainStep \/ WakeUpMain
  PROVE  DiagInv'
<1>1. CASE Enqueue(Main)
  <2>1. PICK l \in EnqueuePcs \union {"collect"} : Moves(Main, l)
    BY <1>1, GotoMoves
       DEF Enqueue, EnqueueCancelled, EnqueueCheck, EnqueueSchedule, EnqueueCount, EnqueuePush,
           EnqueueUncount, CollectNext, CollectPc, EnqueuePcs
  <2>2. pc[Main] \in EnqueuePcs \union {"collect"}
    BY <1>1
       DEF Enqueue, EnqueueCancelled, EnqueueCheck, EnqueueSchedule, EnqueueCount, EnqueuePush,
           EnqueueUncount, Collecting, CollectPc, EnqueuePcs
  <2>3. UNCHANGED <<buffer, messages, hasError, cancel, outcome>>
    BY <1>1
       DEF Enqueue, EnqueueCancelled, EnqueueCheck, EnqueueSchedule, EnqueueCount, EnqueuePush,
           EnqueueUncount
  <2>4. ({"exit"} \union EndPcs) \intersect (EnqueuePcs \union {"collect"}) = {}
    BY DEF EnqueuePcs, EndPcs
  <2> QED
    BY <2>1, <2>2, <2>3, <2>4, DiagMove
<1>2. CASE CollectDone \/ AwaitDone \/ Park \/ CloseQueue \/ WakeUpMain
  BY <1>2, GotoMoves, DiagMove DEF CollectDone, AwaitDone, Park, CloseQueue, WakeUpMain, EndPcs
<1>3. CASE Ending
  BY <1>3, DiagEnding
<1>4. CASE Launch
  <2>1. /\ pc[Main] = "launch" /\ UNCHANGED <<buffer, messages, hasError, cancel, outcome>>
        /\ pc' = [t \in Threads |-> IF t = Main THEN "await" ELSE "waitPop"]
    BY <1>4 DEF Launch
  <2>2. \A w \in Workers : pc[w] = "unborn" /\ pc'[w] = "waitPop"
    BY <2>1 DEF WorkersWaitForLaunch, StartPcs
  <2>3. {"unborn", "waitPop"} \intersect (TaskPcs \union RequestPcs \union {"again", "exit", "reqCas"}) = {}
    BY PcSets DEF RequestPcs
  <2>4. \A t \in Threads : buffer[t] = {}
    BY <2>1, <2>2, <2>3 DEF DiagInv, BuffersOpen
  <2>5. BuffersOpen' /\ ErrorsKnown'
    BY <2>1, <2>4 DEF DiagInv, BuffersOpen, ErrorsKnown
  <2>6. AbortHasReason' /\ AbortIsAsked'
    BY <2>1, <2>2, <2>3 DEF DiagInv, AbortHasReason, AbortIsAsked
  <2>7. pc'[Main] = "await"
    BY <2>1
  <2>8. ReturnIsLast'
    BY <2>1, <2>7, StaysOpen DEF EndPcs
  <2> QED
    BY <2>5, <2>6, <2>8 DEF DiagInv
<1> QED
  BY <1>1, <1>2, <1>3, <1>4 DEF MainStep, Ending

LEMMA DiagInit == Init => DiagInv
<1> SUFFICES ASSUME Init PROVE DiagInv
  OBVIOUS
<1>1. /\ pc = [t \in Threads |-> IF t = Main THEN "collect" ELSE "unborn"]
      /\ buffer = [t \in Threads |-> {}] /\ messages = {} /\ hasError = FALSE
      /\ cancel = FALSE /\ outcome = "none"
  BY DEF Init
<1>2. {"collect", "unborn"} \intersect (RequestPcs \union {"again"} \union EndPcs) = {}
  BY DEF RequestPcs, EndPcs
<1> QED
  BY <1>1, <1>2
     DEF DiagInv, BuffersOpen, ErrorsKnown, AbortHasReason, AbortIsAsked, ReturnIsLast,
         EndPcs

LEMMA DiagStep == TypeOK /\ CountInv /\ DiagInv /\ [Next]_vars => DiagInv'
<1> SUFFICES ASSUME TypeOK, CountInv, DiagInv, [Next]_vars PROVE DiagInv'
  OBVIOUS
<1>1. CASE MainStep \/ WakeUpMain
  BY <1>1, DiagMain DEF CountInv
<1>2. ASSUME NEW w \in Workers, WorkerStep(w) PROVE DiagInv'
  BY <1>2, DiagWorker
<1>3. CASE UNCHANGED <<buffer, messages, hasError, cancel, outcome, pc>>
  BY <1>3 DEF DiagInv, BuffersOpen, ErrorsKnown, AbortHasReason, AbortIsAsked, ReturnIsLast
<1>4. ASSUME NEW w \in Workers, WakeUp(w) PROVE DiagInv'
  BY <1>3, <1>4 DEF WakeUp, SpuriousWake
<1> QED
  BY <1>1, <1>2, <1>3, <1>4 DEF Next, vars

LEMMA DiagCorrect == Spec => []DiagInv
BY TypeInit, TypeStep, CountInit, CountStep, DiagInit, DiagStep, PTL DEF Spec

\* When convert is over, every error any worker has reported is in the shared
\* list, the error flag tells the truth about it, the caller gets ConvertAbort
\* exactly when an error was reported and errors abort, and only warnings about
\* the top graphs wait in the main thread's buffer for the caller's flush.
THEOREM DiagnosticsAreDelivered == Spec => []DiagnosticsDelivered
<1>1. TypeOK /\ DiagInv => DiagnosticsDelivered
  <2> SUFFICES ASSUME TypeOK, DiagInv, outcome # "none"
               PROVE  /\ \A w \in Workers : buffer[w] = {}
                      /\ buffer[Main] \subseteq IF pc[Main] = "over" THEN {} ELSE Warnings
                      /\ hasError <=> messages \intersect Errors # {}
                      /\ outcome = "abort" <=> (AbortOnError /\ hasError)
    BY DEF DiagnosticsDelivered
  <2>1. \A w \in Workers : pc[w] = "exit"
    BY DEF DiagInv, ReturnIsLast, EndPcs
  <2>2. \A w \in Workers : buffer[w] = {}
    BY <2>1, PcSets DEF DiagInv, BuffersOpen
  <2>3. buffer[Main] \subseteq IF pc[Main] = "over" THEN {} ELSE Warnings
    BY DEF DiagInv, BuffersOpen
  <2>4. \A m \in Errors : \A t \in Threads : m \notin buffer[t]
    BY <2>2, ErrorsAreNoWarnings DEF DiagInv, BuffersOpen
  <2>5. hasError <=> messages \intersect Errors # {}
    BY <2>4 DEF DiagInv, ErrorsKnown
  <2>6. cancel <=> hasError /\ AbortOnError
    BY <2>1 DEF DiagInv, AbortHasReason, AbortIsAsked
  <2> QED
    BY <2>2, <2>3, <2>5, <2>6 DEF DiagInv, ReturnIsLast
<1> QED
  BY <1>1, DiagCorrect, TypeCorrect, PTL

-----------------------------------------------------------------------------
(* The stages of a key.  What the cache, the names and the design say of a    *)
(* key follows from the stage its worker is in: where the worker is in its    *)
(* task, or will go on once an enqueue or an abort request is over.           *)

UnclaimedPcs    == {"begin", "enter", "claim"}
UncreatedStages == {"plan", "lower", "name", "create"}
CreatedStages   == {"refs", "setLowering", "setWriteBack", "store"}
StagePcs        == UncreatedStages \union CreatedStages \union {"ready"}

Stage(w) == IF pc[w] \in RequestPcs THEN ret[w]
            ELSE IF pc[w] \in EnqueuePcs THEN "plan" ELSE pc[w]
Begun(k) == status[k] # "Absent"

\* A key that waits for its turn is not begun, and a begun key is scheduled.
WaitingUnbegun ==
  /\ \A k \in Members(queue) : ~Begun(k)
  /\ \A t \in Threads : Offering(t) => ~Begun(Instance(t))
  /\ \A w \in Workers : pc[w] \in UnclaimedPcs => ~Begun(key[w])
  /\ \A k \in Keys : Begun(k) => k \in scheduled

NamesDiffer ==
  /\ \A j, k \in Keys : graphName[j] = graphName[k] => j = k \/ graphName[j] = Unnamed
  /\ design \subseteq Reserved

StageOK(k, s) ==
  /\ s \in UncreatedStages \union CreatedStages => status[k] = "Planning"
  /\ s \in UncreatedStages => graphName[k] \notin design
  /\ s = "create" => graphName[k] # Unnamed
  /\ s \in CreatedStages => graphName[k] \in design
  /\ s \in {"setWriteBack", "store"} => "lowering" \in artifacts[k]
  /\ s = "store" => "writeBack" \in artifacts[k]
  /\ s = "ready" => status[k] = "Done" \/ cancel
StagesOK == \A w \in Workers : StageOK(key[w], Stage(w))

StatusKnown ==
  \A k \in Keys : /\ status[k] \in {"Absent", "Planning", "Done"}
                  /\ status[k] = "Done" => Converted(k)
                  /\ graphName[k] \in design => Begun(k)

StageInv == WaitingUnbegun /\ NamesDiffer /\ StagesOK /\ StatusKnown /\ ReadyMeansStored

LEMMA StageSets ==
  /\ UnclaimedPcs \union StagePcs \subseteq ConvertPcs
  /\ UnclaimedPcs \intersect StagePcs = {}
  /\ UncreatedStages \intersect (CreatedStages \union {"ready"}) = {}
  /\ CreatedStages \intersect {"ready"} = {}
  /\ (UnclaimedPcs \union StagePcs) \intersect
        (EnqueuePcs \union RequestPcs \union CatchPcs \union FinishPcs
           \union {"flush", "finSub", "waitPop", "exit", "unborn"}) = {}
  /\ FallibleStages \subseteq StagePcs
  /\ (FallibleStages \union {"again", "flush"}) \intersect (EnqueuePcs \union RequestPcs) = {}
BY DEF UnclaimedPcs, StagePcs, UncreatedStages, CreatedStages, ConvertPcs, EnqueuePcs,
       RequestPcs, CatchPcs, FinishPcs, FallibleStages

\* A worker in a stage is in flight, so nobody else holds its key.
LEMMA StageInFlight ==
  ASSUME TypeOK, NEW w \in Workers, Stage(w) \in StagePcs
  PROVE  w \in InFlight /\ key[w] \in Keys
<1>1. pc[w] \in TaskPcs
  BY PcSets, StageSets DEF Stage
<1> QED
  BY <1>1 DEF InFlight, TypeOK, ControlOK

LEMMA StageAlone ==
  ASSUME TypeOK, KeyInOnePlace, NEW w \in InFlight, NEW u \in Workers, u # w,
         Stage(u) \in StagePcs
  PROVE  key[u] # key[w]
BY StageInFlight DEF KeyInOnePlace

\* What a step must keep of the waiting keys.
LEMMA WaitingMove ==
  ASSUME TypeOK, WaitingUnbegun, NEW t \in Threads, NEW l, Moves(t, l),
         Members(queue') \subseteq Members(queue), key' = key,
         \A u \in Threads \ {t} : next'[u] = next[u],
         l \in OfferingPcs => pc[t] \in OfferingPcs /\ next'[t] = next[t],
         t # Main /\ l \in UnclaimedPcs => pc[t] \in UnclaimedPcs,
         scheduled \subseteq scheduled',
         \A k \in Keys : status'[k] = "Absent" <=> status[k] = "Absent"
  PROVE  WaitingUnbegun'
<1>q. queue \in Seq(Keys)
  BY DEF TypeOK, DataOK, QueueTypeOK
<1>0. \A k \in Keys : Begun(k)' <=> Begun(k)
  BY DEF Begun
<1>1. ASSUME NEW u \in Threads, Offering(u)'
      PROVE  Offering(u) /\ Instance(u)' = Instance(u) /\ Instance(u) \in Keys
  <2>1. pc'[u] \in OfferingPcs
    BY <1>1 DEF Offering, OfferingPcs
  <2>2. pc[u] \in OfferingPcs /\ next'[u] = next[u]
    BY <2>1 DEF Moves, OfferingPcs
  <2>3. pc[u] \in EnqueuePcs
    BY <2>2, PcSets
  <2> QED
    BY <2>2, <2>3, InstanceIsKey DEF Offering, OfferingPcs, Instance, Instances, TypeOK
<1>2. Members(queue) \subseteq Keys
  BY <1>q DEF Members
<1>3. \A k \in Members(queue') : ~Begun(k)'
  BY <1>0, <1>2 DEF WaitingUnbegun
<1>4. \A u \in Threads : Offering(u)' => ~(Begun(Instance(u))')
  BY <1>0, <1>1 DEF WaitingUnbegun, Begun
<1>5. ASSUME NEW w \in Workers, pc'[w] \in UnclaimedPcs PROVE ~(Begun(key[w])')
  <2>1. pc[w] \in UnclaimedPcs
    BY <1>5 DEF Moves
  <2>2. key[w] \in Keys
    BY <2>1, PcSets, StageSets DEF TypeOK, ControlOK
  <2> QED
    BY <2>1, <2>2, <1>0 DEF WaitingUnbegun, Begun
<1>6. \A k \in Keys : Begun(k)' => k \in scheduled'
  BY <1>0 DEF WaitingUnbegun
<1> QED
  BY <1>3, <1>4, <1>5, <1>6 DEF WaitingUnbegun

\* The stages of the threads that do not step.
LEMMA OthersStay ==
  ASSUME TypeOK, NEW t \in Threads, NEW l, Moves(t, l),
         \A u \in Threads \ {t} : ret'[u] = ret[u],
         NEW w \in Workers, w # t
  PROVE  Stage(w)' = Stage(w)
BY DEF Moves, Stage

\* A step that changes neither the cache nor the names, and takes nobody to a
\* stage that it has not reached.
LEMMA StageFrame ==
  ASSUME TypeOK, StageInv, NEW t \in Threads, NEW l, Moves(t, l), WaitingUnbegun', key' = key,
         \A u \in Threads \ {t} : ret'[u] = ret[u],
         scheduled \subseteq scheduled', cancel => cancel',
         UNCHANGED <<cacheVars, namingVars>>,
         ready' = ready \/ \E k \in Keys : ready' \subseteq ready \union {k}
                                           /\ (status[k] = "Done" \/ cancel),
         t # Main => \/ Stage(t)' = Stage(t)
                     \/ Stage(t)' \notin StagePcs
                     \/ StageOK(key[t], Stage(t))'
  PROVE  StageInv'
<1>1. NamesDiffer' /\ StatusKnown'
  BY DEF StageInv, NamesDiffer, StatusKnown, Reserved, Converted, Begun
<1>2. ReadyMeansStored'
  BY DEF StageInv, ReadyMeansStored
<1>3. ASSUME NEW w \in Workers PROVE StageOK(key[w], Stage(w))'
  <2>1. CASE w # t
    <3>1. Stage(w)' = Stage(w) /\ StageOK(key[w], Stage(w))
      BY <2>1, OthersStay DEF StageInv, StagesOK
    <3> QED
      BY <3>1 DEF StageOK
  <2>2. CASE w = t
    <3>1. StageOK(key[t], Stage(t))
      BY <2>2 DEF StageInv, StagesOK
    <3>2. CASE Stage(t)' = Stage(t)
      BY <2>2, <3>1, <3>2 DEF StageOK
    <3>3. CASE Stage(t)' \notin StagePcs
      BY <2>2, <3>3 DEF StageOK, StagePcs, UncreatedStages, CreatedStages
    <3>4. t # Main
      BY <2>2
    <3> QED
      BY <2>2, <3>2, <3>3, <3>4
  <2> QED
    BY <2>1, <2>2
<1> QED
  BY <1>1, <1>2, <1>3 DEF StageInv, StagesOK

LEMMA StageMove ==
  ASSUME TypeOK, StageInv, NEW t \in Threads, NEW l, Moves(t, l),
         queue' = queue \/ queue' = <<>>, key' = key,
         \A u \in Threads \ {t} : next'[u] = next[u] /\ ret'[u] = ret[u],
         l \in OfferingPcs => pc[t] \in OfferingPcs /\ next'[t] = next[t],
         t # Main /\ l \in UnclaimedPcs => pc[t] \in UnclaimedPcs,
         scheduled \subseteq scheduled', cancel => cancel',
         UNCHANGED <<cacheVars, namingVars, ready>>,
         t # Main => \/ Stage(t)' = Stage(t)
                     \/ Stage(t)' \notin StagePcs
                     \/ StageOK(key[t], Stage(t))'
  PROVE  StageInv'
<1>1. Members(queue') \subseteq Members(queue)
  BY DEF Members
<1>2. WaitingUnbegun'
  BY <1>1, WaitingMove DEF StageInv
<1> QED
  BY <1>2, StageFrame

LEMMA TailMembers ==
  ASSUME NEW s \in Seq(Keys), s # <<>>
  PROVE  Members(Tail(s)) \subseteq Members(s) /\ Head(s) \in Members(s)
<1>1. /\ Tail(s) \in Seq(Keys) /\ Len(Tail(s)) = Len(s) - 1 /\ Len(s) \in Nat \ {0}
      /\ \A i \in 1..Len(Tail(s)) : Tail(s)[i] = s[i + 1]
      /\ Head(s) = s[1]
  OBVIOUS
<1>2. \A x : x \in Members(s) <=> \E i \in 1..Len(s) : x = s[i]
  BY MembersOf
<1>3. \A x : x \in Members(Tail(s)) <=> \E i \in 1..Len(Tail(s)) : x = Tail(s)[i]
  BY <1>1, MembersOf
<1>4. \A i \in 1..Len(Tail(s)) : i + 1 \in 1..Len(s)
  BY <1>1
<1> QED
  BY <1>1, <1>2, <1>3, <1>4

LEMMA StageEnqueue ==
  ASSUME TypeOK, PlacesInv, StageInv, NEW t \in Threads, Enqueue(t)
  PROVE  StageInv'
<1>n. next \in [Threads -> Nat \ {0}]
  BY DEF TypeOK, ControlOK
<1>p. /\ CollectPc(t) \notin OfferingPcs \union UnclaimedPcs
      /\ {"schedule", "count", "push", "uncount"} \intersect UnclaimedPcs = {}
      /\ {"schedule", "uncount"} \intersect OfferingPcs = {}
      /\ OfferingPcs = {"count", "push"}
  BY DEF CollectPc, OfferingPcs, UnclaimedPcs
\* The worker stays in the stage "plan".
<1>s. ASSUME NEW l, Moves(t, l), pc[t] \in EnqueuePcs \union {CollectPc(t)},
             l \in EnqueuePcs \union {CollectPc(t)}, ret' = ret, t # Main
      PROVE  Stage(t)' = Stage(t)
  <2>1. CollectPc(t) = "plan" /\ (EnqueuePcs \union {"plan"}) \intersect RequestPcs = {}
    BY <1>s DEF CollectPc, EnqueuePcs, RequestPcs
  <2> QED
    BY <1>s, <2>1 DEF Moves, Stage
<1>c. ASSUME CollectNext(t)
      PROVE  Moves(t, CollectPc(t)) /\ \A u \in Threads \ {t} : next'[u] = next[u]
  BY <1>c, <1>n, GotoMoves DEF CollectNext
<1>g. ASSUME CollectNext(t), pc[t] \in {CollectPc(t), "schedule", "uncount"},
             UNCHANGED <<queue, registryVars, key, cacheVars, namingVars, cancel, ret>>
      PROVE  StageInv'
  BY <1>g, <1>c, <1>p, <1>s, StageMove DEF EnqueuePcs
<1>1. CASE EnqueueCancelled(t)
  BY <1>1, <1>g DEF EnqueueCancelled, Collecting
<1>2. CASE EnqueueCheck(t)
  <2>1. Moves(t, "schedule") /\ pc[t] = CollectPc(t)
    BY <1>2, GotoMoves DEF EnqueueCheck, Collecting
  <2> QED
    BY <1>2, <2>1, <1>p, <1>s, StageMove DEF EnqueueCheck, EnqueuePcs
<1>3. CASE EnqueueSchedule(t)
  <2>1. CASE CollectNext(t) /\ UNCHANGED scheduled
    BY <1>3, <2>1, <1>g DEF EnqueueSchedule
  <2>2. CASE Instance(t) \notin scheduled /\ Goto(t, "count")
    <3>1. /\ Moves(t, "count") /\ pc[t] = "schedule" /\ UNCHANGED next
          /\ scheduled' = scheduled \union {Instance(t)}
          /\ UNCHANGED <<queue, ready, key, cacheVars, namingVars, cancel, ret>>
      BY <1>3, <2>2, GotoMoves DEF EnqueueSchedule
    <3>2. Instance(t) \in Keys
      BY <3>1, InstanceIsKey DEF TypeOK, EnqueuePcs
    <3>3. ~Begun(Instance(t))
      BY <2>2, <3>2 DEF StageInv, WaitingUnbegun
    <3>4. \A u \in Threads : Instance(u)' = Instance(u)
      BY <3>1 DEF Instance, Instances
    <3>5. WaitingUnbegun'
      <4>1. \A k \in Members(queue') : ~Begun(k)'
        BY <3>1 DEF StageInv, WaitingUnbegun, Begun, Members
      <4>2. \A u \in Threads : Offering(u)' => ~(Begun(Instance(u))')
        BY <3>1, <3>3, <3>4 DEF StageInv, WaitingUnbegun, Begun, Offering, Moves
      <4>3. \A w \in Workers : pc'[w] \in UnclaimedPcs => ~(Begun(key[w])')
        BY <3>1, <1>p DEF StageInv, WaitingUnbegun, Begun, Moves
      <4>4. \A k \in Keys : Begun(k)' => k \in scheduled'
        BY <3>1 DEF StageInv, WaitingUnbegun, Begun
      <4> QED
        BY <4>1, <4>2, <4>3, <4>4 DEF WaitingUnbegun
    <3> QED
      BY <3>1, <3>5, <1>s, StageFrame DEF EnqueuePcs
  <2> QED
    BY <1>3, <2>1, <2>2 DEF EnqueueSchedule
<1>4. CASE EnqueueCount(t)
  <2>1. Moves(t, "push") /\ pc[t] = "count"
    BY <1>4, GotoMoves DEF EnqueueCount
  <2> QED
    BY <1>4, <2>1, <1>p, <1>s, StageMove DEF EnqueueCount, EnqueuePcs
<1>5. CASE EnqueuePush(t)
  <2>1. CASE TryPushAccepts(Instance(t)) /\ CollectNext(t)
    <3>1. /\ Moves(t, CollectPc(t)) /\ pc[t] = "push"
          /\ \A u \in Threads \ {t} : next'[u] = next[u]
          /\ UNCHANGED <<registryVars, key, cacheVars, namingVars, cancel, ret>>
          /\ queue' = Append(queue, Instance(t))
      BY <1>5, <2>1, <1>c DEF EnqueuePush, TryPushAccepts
    <3>2. Instance(t) \in Keys /\ queue \in Seq(Keys)
      BY <3>1, InstanceIsKey DEF TypeOK, EnqueuePcs, DataOK, QueueTypeOK
    <3>3. Members(queue') = Members(queue) \union {Instance(t)}
      BY <3>1, <3>2, AppendMembers
    <3>4. ~Begun(Instance(t))
      BY <3>1 DEF StageInv, WaitingUnbegun, Offering
    <3>5. WaitingUnbegun'
      <4>1. \A k \in Members(queue') : ~Begun(k)'
        BY <3>1, <3>3, <3>4 DEF StageInv, WaitingUnbegun, Begun
      <4>2. \A u \in Threads : Offering(u)' => Offering(u) /\ Instance(u)' = Instance(u)
        BY <3>1, <1>p DEF Offering, Moves, Instance, Instances, OfferingPcs
      <4>3. \A u \in Threads : Offering(u)' => ~(Begun(Instance(u))')
        BY <3>1, <4>2 DEF StageInv, WaitingUnbegun, Begun
      <4>4. \A w \in Workers : pc'[w] \in UnclaimedPcs => ~(Begun(key[w])')
        BY <3>1, <1>p DEF StageInv, WaitingUnbegun, Begun, Moves
      <4>5. \A k \in Keys : Begun(k)' => k \in scheduled'
        BY <3>1 DEF StageInv, WaitingUnbegun, Begun
      <4> QED
        BY <4>1, <4>3, <4>4, <4>5 DEF WaitingUnbegun
    <3> QED
      BY <3>1, <3>5, <1>s, StageFrame DEF EnqueuePcs
  <2>2. CASE TryPushRefuses /\ Goto(t, "uncount") /\ UNCHANGED next
    <3>1. Moves(t, "uncount") /\ pc[t] = "push"
      BY <1>5, <2>2, GotoMoves DEF EnqueuePush
    <3> QED
      BY <1>5, <2>2, <3>1, <1>p, <1>s, StageMove DEF EnqueuePush, TryPushRefuses, EnqueuePcs
  <2> QED
    BY <1>5, <2>1, <2>2 DEF EnqueuePush
<1>6. CASE EnqueueUncount(t)
  BY <1>6, <1>g DEF EnqueueUncount
<1> QED
  BY <1>1, <1>2, <1>3, <1>4, <1>5, <1>6 DEF Enqueue

\* Naming a key takes no name that is taken and renames no other key.
LEMMA ResolveKeeps ==
  ASSUME TypeOK, NamesDiffer, NEW k \in Keys, ResolveGraphName(k)
  PROVE  /\ NamesDiffer' /\ design' = design /\ graphName'[k] # Unnamed
         /\ \A j \in Keys : \/ graphName'[j] = graphName[j]
                            \/ graphName[j] = Unnamed /\ graphName'[j] \notin design
<1>g. graphName \in [Keys -> Names \union {Unnamed}] /\ design' = design
  BY DEF TypeOK, DataOK, NamingTypeOK, ResolveGraphName
<1>d. \A x \in design : x # Unnamed /\ \E j \in Keys : x = graphName[j]
  BY DEF NamesDiffer, Reserved
<1>1. CASE graphName[k] # Unnamed /\ UNCHANGED graphName
  BY <1>1, <1>g DEF NamesDiffer, Reserved
<1>2. CASE graphName[k] = Unnamed /\ \E n \in 0..SuffixBound :
             IsFirstFree(k, n) /\ graphName' = [graphName EXCEPT ![k] = Candidate(k, n)]
  <2>1. PICK n \in 0..SuffixBound :
             IsFirstFree(k, n) /\ graphName' = [graphName EXCEPT ![k] = Candidate(k, n)]
    BY <1>2
  <2> DEFINE x == Candidate(k, n)
  <2>2. x # Unnamed /\ x \notin Reserved
    BY <2>1, NamesAssumption DEF NamesAssumption, IsFirstFree
  <2>3. \A j \in Keys : graphName'[j] = IF j = k THEN x ELSE graphName[j]
    BY <2>1, <1>g
  <2>4. \A j \in Keys : graphName[j] # x
    BY <2>2 DEF Reserved
  <2>5. x \notin design
    BY <2>2 DEF NamesDiffer
  <2>6. \A i, j \in Keys : graphName'[i] = graphName'[j] => i = j \/ graphName'[i] = Unnamed
    BY <2>3, <2>4, <2>2 DEF NamesDiffer
  <2>7. \A y \in design : y \in Reserved'
    <3> SUFFICES ASSUME NEW y \in design PROVE y \in Reserved'
      OBVIOUS
    <3>1. PICK j \in Keys : y = graphName[j] /\ y # Unnamed
      BY <1>d
    <3>2. j # k
      BY <3>1, <1>2
    <3> QED
      BY <3>1, <3>2, <2>3 DEF Reserved
  <2>8. NamesDiffer'
    BY <1>g, <2>6, <2>7 DEF NamesDiffer
  <2> QED
    BY <1>g, <1>2, <2>2, <2>3, <2>5, <2>8
<1> QED
  BY <1>1, <1>2 DEF ResolveGraphName

\* A worker w that changes what is known of keys, and the stages it leaves alone.
LEMMA StageData ==
  ASSUME TypeOK, StageInv, NEW w \in Workers, NEW l, Moves(w, l), WaitingUnbegun', NamesDiffer',
         StatusKnown', key' = key, ret' = ret, ready' = ready, cancel' = cancel,
         \A k \in Keys : status[k] = "Done" => status'[k] = "Done",
         StageOK(key[w], Stage(w))',
         \A u \in Workers \ {w} : Stage(u) \in StagePcs /\ StageOK(key[u], Stage(u))
             => \/ UNCHANGED <<status[key[u]], artifacts[key[u]]>>
                   /\ design' = design
                   /\ \/ graphName'[key[u]] = graphName[key[u]]
                      \/ graphName[key[u]] = Unnamed /\ graphName'[key[u]] \notin design
                \/ UNCHANGED <<status[key[u]], artifacts[key[u]], graphName[key[u]]>>
                   /\ design \subseteq design'
                   /\ (graphName[key[u]] \in design' => graphName[key[u]] \in design)
  PROVE  StageInv'
<1>1. ReadyMeansStored'
  <2>1. ready \subseteq Keys
    BY DEF TypeOK, DataOK
  <2> QED
    BY <2>1 DEF StageInv, ReadyMeansStored
<1>2. ASSUME NEW u \in Workers PROVE StageOK(key[u], Stage(u))'
  <2>1. CASE u = w
    BY <2>1
  <2>2. CASE u # w /\ Stage(u) \notin StagePcs
    <3>1. Stage(u)' = Stage(u)
      BY <2>2, OthersStay
    <3> QED
      BY <2>2, <3>1 DEF StageOK, StagePcs, UncreatedStages, CreatedStages
  <2>3. CASE u # w /\ Stage(u) \in StagePcs
    <3>1. Stage(u)' = Stage(u)
      BY <2>3, OthersStay
    <3>2. StageOK(key[u], Stage(u))
      BY DEF StageInv, StagesOK
    <3>3. Unnamed \notin design
      BY DEF StageInv, NamesDiffer, Reserved
    <3> QED
      BY <2>3, <3>1, <3>2, <3>3 DEF StageOK, UncreatedStages, CreatedStages
  <2> QED
    BY <2>1, <2>2, <2>3
<1> QED
  BY <1>1, <1>2 DEF StageInv, StagesOK

LEMMA StageClaim ==
  ASSUME TypeOK, PlacesInv, StageInv, NEW w \in Workers, Claim(w)
  PROVE  StageInv'
<1>m. w \in Threads /\ w # Main
  OBVIOUS
<1>k. pc[w] = "claim" /\ w \in InFlight /\ key[w] \in Keys /\ key[w] \in scheduled
  <2>1. pc[w] = "claim" /\ "claim" \in TaskPcs
    BY PcSets DEF Claim, ConvertPcs
  <2> QED
    BY <2>1 DEF InFlight, TypeOK, ControlOK, PlacesInv, PlacesScheduled
<1>u. UNCHANGED <<queue, namingVars, registryVars, cancel, key, ret>>
  BY DEF Claim
<1>t. /\ status \in [Keys -> Statuses] /\ artifacts \in [Keys -> SUBSET ArtifactKinds]
      /\ next \in [Threads -> Nat \ {0}]
  BY DEF TypeOK, DataOK, CacheTypeOK, ControlOK
<1>a. ~Begun(key[w])
  BY <1>k DEF StageInv, WaitingUnbegun, UnclaimedPcs
<1>1. TryClaim(key[w]) /\ Moves(w, "plan") /\ next' = [next EXCEPT ![w] = 1]
  BY <1>a, <1>m, GotoMoves DEF Claim, TryClaimLoses, Claimable, Begun
<1>2. \A k \in Keys : status'[k] = IF k = key[w] THEN "Planning" ELSE status[k]
  BY <1>1, <1>k, <1>t DEF TryClaim
<1>3. \A k \in Keys \ {key[w]} : artifacts'[k] = artifacts[k]
  BY <1>1, <1>k, <1>t DEF TryClaim
<1>4. graphName[key[w]] \notin design
  BY <1>a, <1>k DEF StageInv, StatusKnown
<1>5. WaitingUnbegun'
  <2>q. Members(queue) \subseteq Keys
    BY DEF TypeOK, DataOK, QueueTypeOK, Members
  <2>1. \A k \in Members(queue') : ~Begun(k)'
    BY <1>u, <1>2, <1>k, <2>q DEF StageInv, WaitingUnbegun, Begun, PlacesInv, KeyInOnePlace
  <2>2. ASSUME NEW u \in Threads, Offering(u)' PROVE ~(Begun(Instance(u))')
    <3>1. u # w /\ Offering(u)
      BY <2>2, <1>1 DEF Moves, Offering
    <3>2. Instance(u)' = Instance(u)
      BY <3>1, <1>1, <1>u, <1>t DEF Instance, Instances
    <3>3. Instance(u) # key[w] /\ ~Begun(Instance(u))
      BY <3>1, <1>k DEF PlacesInv, KeyInOnePlace, StageInv, WaitingUnbegun
    <3>4. Instance(u) \in Keys
      BY <3>1, InstanceIsKey DEF TypeOK, Offering, EnqueuePcs
    <3> QED
      BY <3>2, <3>3, <3>4, <1>2 DEF Begun
  <2>3. ASSUME NEW v \in Workers, pc'[v] \in UnclaimedPcs PROVE ~(Begun(key[v])')
    <3>1. v # w /\ pc[v] \in UnclaimedPcs
      BY <2>3, <1>1 DEF Moves, UnclaimedPcs
    <3>2. v \in InFlight /\ key[v] \in Keys
      BY <3>1, PcSets, StageSets DEF InFlight, TypeOK, ControlOK
    <3>3. key[v] # key[w]
      BY <3>1, <3>2, <1>k DEF PlacesInv, KeyInOnePlace
    <3> QED
      BY <3>1, <3>2, <3>3, <1>2, <1>u DEF StageInv, WaitingUnbegun, Begun
  <2>4. \A k \in Keys : Begun(k)' => k \in scheduled'
    BY <1>u, <1>2, <1>k DEF StageInv, WaitingUnbegun, Begun
  <2> QED
    BY <2>1, <2>2, <2>3, <2>4 DEF WaitingUnbegun
<1>6. NamesDiffer'
  BY <1>u DEF StageInv, NamesDiffer, Reserved
<1>7. StatusKnown'
  BY <1>u, <1>2, <1>3 DEF StageInv, StatusKnown, Converted, Begun
<1>8. StageOK(key[w], Stage(w))'
  <2>1. Stage(w)' = "plan"
    BY <1>1 DEF Moves, Stage, RequestPcs, EnqueuePcs
  <2> QED
    BY <2>1, <1>u, <1>2, <1>4, <1>k DEF StageOK, UncreatedStages, CreatedStages
<1>9. \A k \in Keys : status[k] = "Done" => status'[k] = "Done"
  BY <1>2, <1>a DEF StageInv, StatusKnown, Begun, Claim, TryClaim, Claimable
<1>10. ASSUME NEW u \in Workers \ {w}, Stage(u) \in StagePcs
       PROVE  UNCHANGED <<status[key[u]], artifacts[key[u]]>>
  <2>1. key[u] # key[w] /\ key[u] \in Keys
    BY <1>10, <1>k, StageAlone, StageInFlight DEF PlacesInv
  <2> QED
    BY <2>1, <1>2, <1>3, <1>u
<1> QED
  BY <1>1, <1>u, <1>5, <1>6, <1>7, <1>8, <1>9, <1>10, StageData

\* Naming a graph; w goes to l, the next step of its task.
LEMMA StageName ==
  ASSUME TypeOK, PlacesInv, StageInv, NEW w \in Workers, NEW l, Moves(w, l),
         NEW k \in Keys, ResolveGraphName(k),
         UNCHANGED <<queue, cacheVars, registryVars, cancel, key, ret>>,
         \A u \in Threads \ {w} : next'[u] = next[u],
         \/ pc[w] = "refs" /\ l = "refs"
         \/ pc[w] = "name" /\ l = "create" /\ k = key[w]
  PROVE  StageInv'
<1>m. w \in Threads /\ w # Main
  OBVIOUS
<1>n. /\ NamesDiffer' /\ design' = design /\ graphName'[k] # Unnamed
      /\ \A j \in Keys : \/ graphName'[j] = graphName[j]
                         \/ graphName[j] = Unnamed /\ graphName'[j] \notin design
  BY ResolveKeeps DEF StageInv
<1>d. Unnamed \notin design
  BY DEF StageInv, NamesDiffer, Reserved
<1>1. WaitingUnbegun'
  BY <1>m, WaitingMove DEF StageInv, Members, UnclaimedPcs, OfferingPcs
<1>2. StatusKnown'
  BY <1>n, <1>d DEF StageInv, StatusKnown, Converted, Begun
<1>3. Stage(w) \in StagePcs /\ Stage(w) = pc[w]
  BY DEF Stage, StagePcs, UncreatedStages, CreatedStages, RequestPcs, EnqueuePcs
<1>4. key[w] \in Keys /\ StageOK(key[w], Stage(w))
  BY <1>3, StageInFlight DEF StageInv, StagesOK
<1>5. StageOK(key[w], Stage(w))'
  <2>1. Stage(w)' = l
    BY DEF Moves, Stage, RequestPcs, EnqueuePcs
  <2> QED
    BY <2>1, <1>3, <1>4, <1>n, <1>d DEF StageOK, UncreatedStages, CreatedStages
<1>6. ASSUME NEW u \in Workers \ {w}, Stage(u) \in StagePcs
      PROVE  /\ UNCHANGED <<status[key[u]], artifacts[key[u]]>> /\ design' = design
             /\ \/ graphName'[key[u]] = graphName[key[u]]
                \/ graphName[key[u]] = Unnamed /\ graphName'[key[u]] \notin design
  BY <1>6, <1>n, StageInFlight
<1> QED
  BY <1>n, <1>1, <1>2, <1>5, <1>6, StageData

LEMMA StageCreate ==
  ASSUME TypeOK, PlacesInv, StageInv, NEW w \in Workers, Create(w)
  PROVE  StageInv'
<1>m. w \in Threads /\ w # Main
  OBVIOUS
<1>u. /\ UNCHANGED <<queue, cacheVars, registryVars, cancel, key, ret, graphName>>
      /\ design' = design \union {graphName[key[w]]} /\ pc[w] = "create" /\ Moves(w, "refs")
      /\ \A u \in Threads \ {w} : next'[u] = next[u]
  <2>1. \A u \in Threads \ {w} : next'[u] = next[u]
    BY DEF Create, TypeOK, ControlOK
  <2> QED
    BY <2>1, <1>m, GotoMoves DEF Create, CreateGraph
<1>1. WaitingUnbegun'
  BY <1>u, <1>m, WaitingMove DEF StageInv, Members, UnclaimedPcs, OfferingPcs
<1>2. Stage(w) = "create" /\ "create" \in StagePcs
  BY <1>u DEF Stage, RequestPcs, EnqueuePcs, StagePcs, UncreatedStages
<1>3. /\ w \in InFlight /\ key[w] \in Keys /\ status[key[w]] = "Planning"
      /\ graphName[key[w]] # Unnamed
  BY <1>2, StageInFlight DEF StageInv, StagesOK, StageOK, UncreatedStages
<1>4. \A k \in Keys : graphName[k] = graphName[key[w]] => k = key[w]
  BY <1>3 DEF StageInv, NamesDiffer
<1>5. NamesDiffer'
  BY <1>u, <1>3 DEF StageInv, NamesDiffer, Reserved
<1>6. StatusKnown'
  BY <1>u, <1>3, <1>4 DEF StageInv, StatusKnown, Converted, Begun
<1>7. StageOK(key[w], Stage(w))'
  <2>1. Stage(w)' = "refs"
    BY <1>u DEF Moves, Stage, RequestPcs, EnqueuePcs
  <2> QED
    BY <2>1, <1>u, <1>3 DEF StageOK, UncreatedStages
<1>8. ASSUME NEW u \in Workers \ {w}, Stage(u) \in StagePcs
      PROVE  /\ UNCHANGED <<status[key[u]], artifacts[key[u]], graphName[key[u]]>>
             /\ design \subseteq design'
             /\ graphName[key[u]] \in design' => graphName[key[u]] \in design
  <2>1. key[u] # key[w] /\ key[u] \in Keys
    BY <1>8, <1>3, StageAlone, StageInFlight DEF PlacesInv
  <2> QED
    BY <2>1, <1>u, <1>4
<1> QED
  BY <1>u, <1>1, <1>5, <1>6, <1>7, <1>8, StageData

LEMMA StageStore ==
  ASSUME TypeOK, PlacesInv, StageInv, NEW w \in Workers, Store(w)
  PROVE  StageInv'
<1>m. w \in Threads /\ w # Main
  OBVIOUS
<1>p. pc[w] \in {"setLowering", "setWriteBack", "store"}
  BY DEF Store
<1>u. UNCHANGED <<queue, namingVars, registryVars, cancel, key, next, ret>>
  BY DEF Store
<1>1. Stage(w) = pc[w] /\ pc[w] \in StagePcs
  BY <1>p DEF Stage, RequestPcs, EnqueuePcs, StagePcs, CreatedStages
<1>2. /\ w \in InFlight /\ key[w] \in Keys /\ StageOK(key[w], pc[w])
      /\ status[key[w]] = "Planning" /\ graphName[key[w]] \in design
  BY <1>1, <1>p, StageInFlight DEF StageInv, StagesOK, StageOK, CreatedStages
<1>3. \A k \in Keys \ {key[w]} : status'[k] = status[k] /\ artifacts'[k] = artifacts[k]
  BY <1>2 DEF Store, SetArtifact, StorePlan, TypeOK, DataOK, CacheTypeOK
<1>t. /\ status \in [Keys -> Statuses] /\ artifacts \in [Keys -> SUBSET ArtifactKinds]
  BY DEF TypeOK, DataOK, CacheTypeOK
<1>4. CASE pc[w] = "setLowering" \/ pc[w] = "setWriteBack"
  <2>1. PICK kind \in {"lowering", "writeBack"} : SetArtifact(key[w], kind)
                /\ (pc[w] = "setLowering" <=> kind = "lowering")
    BY <1>4 DEF Store
  <2>l. PICK l \in {"setWriteBack", "store"} : Moves(w, l) /\ (l = "store" <=> pc[w] = "setWriteBack")
    BY <1>4, <1>m, GotoMoves DEF Store
  <2>2. status' = status /\ artifacts'[key[w]] = artifacts[key[w]] \union {kind}
    BY <2>1, <1>2, <1>t DEF SetArtifact, CanWriteArtifacts
  <2>3. WaitingUnbegun'
    BY <2>2, <2>l, <1>u, <1>m, WaitingMove DEF StageInv, Members, UnclaimedPcs, OfferingPcs
  <2>4. NamesDiffer'
    BY <1>u DEF StageInv, NamesDiffer, Reserved
  <2>5. StatusKnown'
    BY <2>2, <1>u, <1>2, <1>3 DEF StageInv, StatusKnown, Converted, Begun
  <2>6. StageOK(key[w], Stage(w))'
    <3>1. Stage(w)' = l
      BY <2>l DEF Moves, Stage, RequestPcs, EnqueuePcs
    <3> QED
      BY <3>1, <2>1, <2>2, <2>l, <1>2, <1>4, <1>u DEF StageOK, UncreatedStages, CreatedStages
  <2>7. ASSUME NEW u \in Workers \ {w}, Stage(u) \in StagePcs
        PROVE  UNCHANGED <<status[key[u]], artifacts[key[u]]>>
    BY <2>7, <1>2, <1>3, <1>u, StageAlone, StageInFlight DEF PlacesInv
  <2> QED
    BY <2>2, <2>l, <2>3, <2>4, <2>5, <2>6, <2>7, <1>u, StageData
<1>5. CASE pc[w] = "store"
  <2>1. StorePlan(key[w]) /\ Moves(w, "ready")
    BY <1>5, <1>m, GotoMoves DEF Store
  <2>2. /\ status'[key[w]] = "Done"
        /\ artifacts'[key[w]] = artifacts[key[w]] \union {"plan"}
    BY <2>1, <1>2, <1>t DEF StorePlan
  <2>3. artifacts'[key[w]] = ArtifactKinds
    BY <2>2, <1>2, <1>5, <1>t DEF StageOK, ArtifactKinds
  <2>4. \A k \in Keys : status'[k] = "Absent" <=> status[k] = "Absent"
    BY <2>2, <1>2, <1>3
  <2>5. WaitingUnbegun'
    BY <2>4, <2>1, <1>u, <1>m, WaitingMove DEF StageInv, Members, UnclaimedPcs, OfferingPcs
  <2>6. NamesDiffer'
    BY <1>u DEF StageInv, NamesDiffer, Reserved
  <2>7. StatusKnown'
    BY <2>2, <2>3, <2>4, <1>u, <1>2, <1>3 DEF StageInv, StatusKnown, Converted, Begun
  <2>8. StageOK(key[w], Stage(w))'
    <3>1. Stage(w)' = "ready"
      BY <2>1 DEF Moves, Stage, RequestPcs, EnqueuePcs
    <3> QED
      BY <3>1, <2>2, <1>u DEF StageOK, UncreatedStages, CreatedStages
  <2>9. ASSUME NEW u \in Workers \ {w}, Stage(u) \in StagePcs
        PROVE  UNCHANGED <<status[key[u]], artifacts[key[u]]>>
    BY <2>9, <1>2, <1>3, <1>u, StageAlone, StageInFlight DEF PlacesInv
  <2>10. \A k \in Keys : status[k] = "Done" => status'[k] = "Done"
    BY <2>2, <1>3
  <2> QED
    BY <2>1, <2>5, <2>6, <2>7, <2>8, <2>9, <2>10, <1>u, StageData
<1> QED
  BY <1>4, <1>5, <1>p

\* A popped key is not begun: it was waiting.
LEMMA StageTake ==
  ASSUME TypeOK, StageInv, NEW w \in Workers, pc[w] = "waitPop", WaitTakes(cancel),
         key' = [key EXCEPT ![w] = Head(queue)], Goto(w, "begin"),
         UNCHANGED <<cacheVars, namingVars, registryVars, cancel, next, ret>>
  PROVE  StageInv'
<1>m. w \in Threads /\ w # Main
  OBVIOUS
<1>1. Moves(w, "begin")
  BY <1>m, GotoMoves
<1>q. queue \in Seq(Keys) /\ queue # <<>> /\ queue' = Tail(queue)
  BY DEF WaitTakes, TypeOK, DataOK, QueueTypeOK
<1>2. Members(queue') \subseteq Members(queue) /\ Head(queue) \in Members(queue)
  BY <1>q, TailMembers
<1>3. key'[w] = Head(queue) /\ \A u \in Threads \ {w} : key'[u] = key[u]
  BY DEF TypeOK, ControlOK
<1>4. WaitingUnbegun'
  <2>1. \A u \in Threads : Offering(u)' => u # w /\ Offering(u)
    BY <1>1 DEF Moves, Offering
  <2>2. \A u \in Threads : Offering(u)' => ~(Begun(Instance(u))')
    BY <2>1, <1>3 DEF StageInv, WaitingUnbegun, Begun, Instance, Instances
  <2>3. \A v \in Workers : pc'[v] \in UnclaimedPcs => ~(Begun(key[v])')
    BY <1>1, <1>2, <1>3 DEF StageInv, WaitingUnbegun, Begun, Moves
  <2> QED
    BY <1>2, <2>2, <2>3 DEF StageInv, WaitingUnbegun, Begun
<1>5. NamesDiffer' /\ StatusKnown' /\ ReadyMeansStored'
  BY DEF StageInv, NamesDiffer, StatusKnown, ReadyMeansStored, Reserved, Converted, Begun
<1>6. ASSUME NEW u \in Workers PROVE StageOK(key[u], Stage(u))'
  <2>1. CASE u = w
    <3>1. Stage(w)' = "begin"
      BY <1>1 DEF Moves, Stage, RequestPcs, EnqueuePcs
    <3> QED
      BY <2>1, <3>1 DEF StageOK, UncreatedStages, CreatedStages
  <2>2. CASE u # w
    <3>1. Stage(u)' = Stage(u) /\ key'[u] = key[u] /\ StageOK(key[u], Stage(u))
      BY <2>2, <1>1, <1>3, <1>m, OthersStay DEF StageInv, StagesOK
    <3> QED
      BY <3>1 DEF StageOK
  <2> QED
    BY <2>1, <2>2
<1> QED
  BY <1>4, <1>5, <1>6 DEF StageInv, StagesOK

LEMMA StageWorker ==
  ASSUME TypeOK, PlacesInv, StageInv, NEW w \in Workers, WorkerStep(w)
  PROVE  StageInv'
<1>m. w \in Threads /\ w # Main
  OBVIOUS
<1>t. ret \in [Threads -> FallibleStages \union {"again", "flush"}] /\ next \in [Threads -> Nat \ {0}]
  BY DEF TypeOK, ControlOK
<1>s. StageOK(key[w], Stage(w))
  BY DEF StageInv, StagesOK
<1>o. /\ OfferingPcs = {"count", "push"} /\ UnclaimedPcs = {"begin", "enter", "claim"}
      /\ UncreatedStages = {"plan", "lower", "name", "create"}
      /\ CreatedStages = {"refs", "setLowering", "setWriteBack", "store"}
      /\ StagePcs = UncreatedStages \union CreatedStages \union {"ready"}
      /\ EnqueuePcs = {"schedule", "count", "push", "uncount"}
      /\ RequestPcs = {"reqCas", "reqDrain", "reqSub", "reqClose", "reqNotify"}
  BY DEF OfferingPcs, UnclaimedPcs, UncreatedStages, CreatedStages, StagePcs, EnqueuePcs, RequestPcs
\* w moves to l.
<1>g. ASSUME NEW l, Moves(w, l), l \notin OfferingPcs, l \in UnclaimedPcs => pc[w] \in UnclaimedPcs,
             queue' = queue \/ queue' = <<>>, key' = key, scheduled' = scheduled,
             next' = next \/ next' = [next EXCEPT ![w] = 1] \/ next' = [next EXCEPT ![w] = @ + 1],
             ret' = ret \/ \E r : ret' = [ret EXCEPT ![w] = r],
             cancel => cancel', UNCHANGED <<cacheVars, namingVars, ready>>,
             \/ Stage(w)' = Stage(w) \/ Stage(w)' \notin StagePcs \/ StageOK(key[w], Stage(w))'
      PROVE  StageInv'
  <2>1. \A u \in Threads \ {w} : next'[u] = next[u] /\ ret'[u] = ret[u]
    BY <1>g, <1>t
  <2> QED
    BY <1>g, <2>1, <1>m, StageMove
\* The same when w is in its own stage before and after.
<1>h. ASSUME NEW l \in ConvertPcs \union FinishPcs \union {"caught", "flush", "finSub", "waitPop", "exit"},
             Moves(w, l) PROVE Stage(w)' = l
  BY <1>h DEF Moves, Stage, ConvertPcs, FinishPcs, RequestPcs, EnqueuePcs
<1>1. CASE Enqueue(w)
  BY <1>1, <1>m, StageEnqueue
<1>2. CASE WaitPop(w)
  <2>1. CASE WaitSleeps(w, cancel) /\ UNCHANGED <<pc, key>>
    <3>1. Moves(w, "waitPop")
      BY <1>2, <2>1, <1>m, StayMoves DEF WaitPop
    <3> QED
      BY <1>2, <2>1, <3>1, <1>g, <1>h, <1>o DEF WaitPop, WaitSleeps
  <2>2. CASE WaitStops(cancel) /\ Goto(w, "exit") /\ UNCHANGED key
    BY <1>2, <2>2, <1>g, <1>h, <1>m, <1>o, GotoMoves DEF WaitPop, WaitStops
  <2>3. CASE WaitTakes(cancel) /\ key' = [key EXCEPT ![w] = Head(queue)] /\ Goto(w, "begin")
    BY <1>2, <2>3, StageTake DEF WaitPop
  <2> QED
    BY <1>2, <2>1, <2>2, <2>3 DEF WaitPop
<1>3. CASE Begin(w) \/ Enter(w)
  <2>1. PICK l \in {"flush", "enter", "ready", "claim"} :
           Moves(w, l) /\ (l = "ready" => cancel) /\ pc[w] \in UnclaimedPcs
    BY <1>3, <1>m, <1>o, GotoMoves DEF Begin, Enter
  <2>2. Stage(w)' = l
    BY <2>1, <1>h DEF ConvertPcs
  <2>3. UNCHANGED <<queue, cacheVars, namingVars, registryVars, cancel, key, next, ret>>
    BY <1>3 DEF Begin, Enter
  <2>4. Stage(w)' \notin StagePcs \/ StageOK(key[w], Stage(w))'
    BY <2>1, <2>2, <2>3, <1>o DEF StageOK
  <2> QED
    BY <2>1, <2>3, <2>4, <1>g, <1>o
<1>4. CASE Claim(w)
  BY <1>4, StageClaim
<1>5. CASE PlanDone(w) \/ LowerDone(w) \/ AssemblyDone(w)
  <2>1. PICK l \in {"lower", "name", "setLowering", "ready"} :
           /\ Moves(w, l) /\ (l = "ready" => cancel) /\ pc[w] \in {"plan", "lower", "refs"}
           /\ l = "setLowering" <=> pc[w] = "refs"
    BY <1>5, <1>m, GotoMoves DEF PlanDone, LowerDone, AssemblyDone
  <2>2. Stage(w)' = l
    BY <2>1, <1>h DEF ConvertPcs
  <2>3. UNCHANGED <<queue, cacheVars, namingVars, registryVars, cancel, key, next, ret>>
    BY <1>5 DEF PlanDone, LowerDone, AssemblyDone
  <2>4. Stage(w) = pc[w]
    BY <2>1, <1>o DEF Stage
  <2>5. StageOK(key[w], Stage(w))'
    BY <2>1, <2>2, <2>3, <2>4, <1>o, <1>s DEF StageOK
  <2> QED
    BY <2>1, <2>3, <2>5, <1>g, <1>o
<1>6. CASE NameGraph(w)
  <2>1. key[w] \in Keys
    BY <1>6, PcSets DEF NameGraph, TypeOK, ControlOK, ConvertPcs
  <2> QED
    BY <1>6, <2>1, <1>m, GotoMoves, StageName DEF NameGraph
<1>7. CASE Create(w)
  BY <1>7, StageCreate
<1>8. CASE NameInstance(w)
  <2>1. Moves(w, "refs") /\ pc[w] = "refs"
    BY <1>8, <1>m, StayMoves DEF NameInstance
  <2>2. CASE UNCHANGED namingVars
    BY <1>8, <2>1, <2>2, <1>g, <1>o DEF NameInstance, Stage, Moves
  <2>3. CASE ResolveGraphName(Instance(w))
    <3>1. key[w] \in Keys
      BY <2>1, PcSets DEF TypeOK, ControlOK, ConvertPcs
    <3>2. Instance(w) \in Keys
      BY <1>8, <3>1, <1>m, <1>t DEF NameInstance, Instance, Instances
    <3>3. \A u \in Threads \ {w} : next'[u] = next[u]
      BY <1>8, <1>t DEF NameInstance
    <3> QED
      BY <1>8, <2>1, <2>3, <3>2, <3>3, StageName DEF NameInstance
  <2> QED
    BY <1>8, <2>2, <2>3 DEF NameInstance
<1>9. CASE Store(w)
  BY <1>9, StageStore
<1>10. CASE MarkReady(w)
  <2>1. /\ Moves(w, "flush") /\ pc[w] = "ready"
        /\ UNCHANGED <<queue, cacheVars, namingVars, scheduled, cancel, key, next, ret>>
    BY <1>10, <1>m, GotoMoves DEF MarkReady
  <2>2. Stage(w) = "ready" /\ Stage(w)' = "flush"
    BY <2>1, <1>h, <1>o DEF Stage
  <2>3. key[w] \in Keys
    BY <2>2, <1>o, StageInFlight
  <2>4. ready' \subseteq ready \union {key[w]} /\ (status[key[w]] = "Done" \/ cancel)
    BY <1>10, <1>s, <2>2 DEF MarkReady, StageOK
  <2>5. WaitingUnbegun'
    BY <2>1, <1>m, <1>o, WaitingMove DEF StageInv, Members
  <2> QED
    BY <2>1, <2>2, <2>3, <2>4, <2>5, <1>m, <1>o, StageFrame
<1>11. CASE Flush(w) \/ FinSub(w) \/ FinStore(w) \/ FinClose(w) \/ FinNotify(w) \/ Throw(w)
  <2>1. PICK l \in {"finSub", "finStore", "waitPop", "finClose", "finNotify", "caught"} : Moves(w, l)
    BY <1>11, <1>m, GotoMoves, NotifyMoves DEF Flush, FinSub, FinStore, FinClose, FinNotify, Throw
  <2>2. Stage(w)' = l
    BY <2>1, <1>h DEF FinishPcs
  <2>3. UNCHANGED <<queue, cacheVars, namingVars, registryVars, cancel, key, next, ret>>
    BY <1>11 DEF Flush, FinSub, FinStore, FinClose, FinNotify, Throw, Close
  <2> QED
    BY <2>1, <2>2, <2>3, <1>g, <1>o
<1>12. CASE ReportError(w)
  <2>1. CASE AbortOnError
    <3>1. /\ Moves(w, "reqCas") /\ ret' = [ret EXCEPT ![w] = pc[w]] /\ pc[w] \in FallibleStages
          /\ UNCHANGED <<queue, cacheVars, namingVars, registryVars, cancel, key, next>>
      BY <1>12, <2>1, <1>m, GotoMoves DEF ReportError
    <3>2. Stage(w)' = Stage(w)
      BY <3>1, <1>t, <1>m, StageSets, PcSets DEF Stage, Moves, RequestPcs
    <3>3. "reqCas" \notin OfferingPcs \union UnclaimedPcs
      BY <1>o
    <3>4. \E r : ret' = [ret EXCEPT ![w] = r]
      BY <3>1
    <3> QED
      BY <3>1, <3>2, <3>3, <3>4, <1>g
  <2>2. CASE ~AbortOnError
    <3>1. Moves(w, pc[w]) /\ pc[w] \in FallibleStages
          /\ UNCHANGED <<queue, cacheVars, namingVars, registryVars, cancel, key, next, ret, pc>>
      BY <1>12, <2>2, <1>m, StayMoves DEF ReportError
    <3> QED
      BY <3>1, <1>g, <1>o DEF Stage, FallibleStages
  <2> QED
    BY <2>1, <2>2
<1>13. CASE Catch(w) \/ RequestAgain(w)
  <2>1. CASE Goto(w, "flush") /\ UNCHANGED ret
    <3>1. /\ Moves(w, "flush")
          /\ UNCHANGED <<queue, cacheVars, namingVars, registryVars, cancel, key, next, ret>>
      BY <1>13, <2>1, <1>m, GotoMoves DEF Catch, RequestAgain
    <3> QED
      BY <3>1, <1>g, <1>h, <1>o
  <2>2. ASSUME NEW r \in {"again", "flush"}, Goto(w, "reqCas"), ret' = [ret EXCEPT ![w] = r]
        PROVE  StageInv'
    <3>1. /\ Moves(w, "reqCas")
          /\ UNCHANGED <<queue, cacheVars, namingVars, registryVars, cancel, key, next>>
      BY <1>13, <2>2, <1>m, GotoMoves DEF Catch, RequestAgain
    <3>2. Stage(w)' = r
      BY <2>2, <3>1, <1>t, <1>m, <1>o DEF Stage, Moves
    <3>3. "reqCas" \notin OfferingPcs \union UnclaimedPcs /\ r \notin StagePcs
      BY <1>o
    <3>4. \E x : ret' = [ret EXCEPT ![w] = x]
      BY <2>2
    <3> QED
      BY <3>1, <3>2, <3>3, <3>4, <1>g
  <2> QED
    BY <1>13, <2>1, <2>2 DEF Catch, RequestAgain
<1>14. CASE RequestCas(w) \/ RequestDrain(w) \/ RequestSub(w) \/ RequestClose(w) \/ RequestNotify(w)
  <2>1. PICK l \in RequestPcs \union {ret[w]} : Moves(w, l) /\ pc[w] \in RequestPcs
    BY <1>14, <1>m, <1>o, GotoMoves, NotifyMoves
       DEF RequestCas, RequestDrain, RequestSub, RequestClose, RequestNotify
  <2>2. /\ UNCHANGED <<cacheVars, namingVars, registryVars, key, next, ret>> /\ (cancel => cancel')
        /\ queue' = queue \/ queue' = <<>>
    BY <1>14 DEF RequestCas, RequestDrain, RequestSub, RequestClose, RequestNotify, Drain, Close
  <2>3. ret[w] \notin RequestPcs \union EnqueuePcs \union UnclaimedPcs
    BY <1>t, <1>m, StageSets DEF FallibleStages, UnclaimedPcs
  <2>4. Stage(w)' = Stage(w)
    BY <2>1, <2>2, <2>3 DEF Stage, Moves
  <2>5. l \notin OfferingPcs \union UnclaimedPcs
    BY <2>1, <2>3, <1>o
  <2> QED
    BY <2>1, <2>2, <2>4, <2>5, <1>g
<1> QED
  BY <1>1, <1>2, <1>3, <1>4, <1>5, <1>6, <1>7, <1>8, <1>9, <1>10, <1>11, <1>12, <1>13, <1>14
     DEF WorkerStep, Convert, Finish, Request

\* The main thread names a top once the workers are gone: the design keeps its
\* graphs, and the new name is none of theirs.
LEMMA StageFinalize ==
  ASSUME TypeOK, StageInv, DiagInv, FinalizeTop
  PROVE  StageInv'
<1>1. /\ Moves(Main, "finalize") /\ pc[Main] = "finalize"
      /\ UNCHANGED <<queue, cacheVars, registryVars, cancel, key, ret, pc>>
  BY StayMoves DEF FinalizeTop
<1>2. \A u \in Threads \ {Main} : next'[u] = next[u]
  BY DEF FinalizeTop, TypeOK, ControlOK
<1>3. WaitingUnbegun'
  <2>1. "finalize" \notin OfferingPcs
    BY DEF OfferingPcs
  <2>2. Members(queue') \subseteq Members(queue)
    BY <1>1
  <2> QED
    BY <1>1, <1>2, <2>1, <2>2, WaitingMove DEF StageInv
<1>4. /\ NamesDiffer' /\ design' = design
      /\ \A j \in Keys : \/ graphName'[j] = graphName[j]
                         \/ graphName[j] = Unnamed /\ graphName'[j] \notin design
  <2>1. CASE UNCHANGED <<namingVars, buffer, tops, aliases>>
    BY <2>1 DEF StageInv, NamesDiffer, Reserved
  <2>2. CASE Finalize(Instance(Main))
    BY <2>2, FinalizedIsKey, ResolveKeeps DEF Finalize, StageInv
  <2> QED
    BY <2>1, <2>2 DEF FinalizeTop
<1>5. Unnamed \notin design
  BY DEF StageInv, NamesDiffer, Reserved
<1>6. StatusKnown'
  BY <1>1, <1>4, <1>5 DEF StageInv, StatusKnown, Converted, Begun
<1>7. ReadyMeansStored'
  BY <1>1 DEF StageInv, ReadyMeansStored
<1>8. StagesOK'
  <2>1. \A w \in Workers : pc[w] = "exit" /\ Stage(w)' \notin StagePcs
    <3>1. \A w \in Workers : pc[w] = "exit"
      BY <1>1 DEF DiagInv, ReturnIsLast, EndPcs
    <3>2. "exit" \notin StagePcs \union RequestPcs \union EnqueuePcs
      BY StageSets DEF RequestPcs, EnqueuePcs
    <3> QED
      BY <1>1, <3>1, <3>2 DEF Stage
  <2> QED
    BY <2>1 DEF StagesOK, StageOK, StagePcs, UncreatedStages, CreatedStages
<1> QED
  BY <1>3, <1>4, <1>6, <1>7, <1>8 DEF StageInv

LEMMA StageMain ==
  ASSUME TypeOK, WorkersWaitForLaunch, PlacesInv, StageInv, DiagInv, MainStep \/ WakeUpMain
  PROVE  StageInv'
<1>1. CASE Enqueue(Main)
  BY <1>1, StageEnqueue
<1>2. CASE CollectDone \/ AwaitDone \/ Park \/ CloseQueue \/ WakeUpMain
  <2>1. PICK l \in {"launch", "closing", "parking", "parked", "join", "await"} : Moves(Main, l)
    BY <1>2, GotoMoves DEF CollectDone, AwaitDone, Park, CloseQueue, WakeUpMain
  <2>2. UNCHANGED <<queue, cacheVars, namingVars, registryVars, cancel, key, next, ret>>
    BY <1>2 DEF CollectDone, AwaitDone, Park, CloseQueue, Close, WakeUpMain
  <2>3. l \notin OfferingPcs
    BY DEF OfferingPcs
  <2> QED
    BY <2>1, <2>2, <2>3, StageMove
<1>4. CASE Join \/ ReturnDesign \/ CallerFlush
  <2>1. Ending
    BY <1>4 DEF Ending
  <2>2. PICK l \in EndPcs : Moves(Main, l)
    BY <2>1, EndingSteps, GotoMoves
  <2>3. UNCHANGED <<queue, cacheVars, namingVars, registryVars, cancel, key, ret>>
    BY <1>4 DEF Join, ReturnDesign, CallerFlush
  <2>4. \A u \in Threads \ {Main} : next'[u] = next[u]
    BY <2>1, EndingSteps DEF TypeOK, ControlOK
  <2>5. l \notin OfferingPcs
    BY DEF OfferingPcs, EndPcs
  <2> QED
    BY <2>2, <2>3, <2>4, <2>5, StageMove
<1>5. CASE FinalizeTop
  BY <1>5, StageFinalize
<1>3. CASE Launch
  <2>1. /\ pc[Main] = "launch" /\ UNCHANGED <<queue, cacheVars, namingVars, registryVars, cancel, key, next>>
        /\ pc' = [t \in Threads |-> IF t = Main THEN "await" ELSE "waitPop"]
    BY <1>3 DEF Launch
  <2>2. \A t \in Threads : pc'[t] \in {"await", "waitPop"}
    BY <2>1
  <2>3. {"await", "waitPop"} \intersect (OfferingPcs \union UnclaimedPcs \union StagePcs
                                           \union RequestPcs \union EnqueuePcs) = {}
    BY DEF OfferingPcs, UnclaimedPcs, StagePcs, UncreatedStages, CreatedStages, RequestPcs, EnqueuePcs
  <2>4. WaitingUnbegun'
    BY <2>1, <2>2, <2>3 DEF StageInv, WaitingUnbegun, Begun, Offering, OfferingPcs
  <2>5. NamesDiffer' /\ StatusKnown' /\ ReadyMeansStored'
    BY <2>1 DEF StageInv, NamesDiffer, StatusKnown, ReadyMeansStored, Reserved, Converted, Begun
  <2>6. \A w \in Workers : Stage(w)' \notin StagePcs
    BY <2>2, <2>3 DEF Stage
  <2>7. StagesOK'
    BY <2>6 DEF StagesOK, StageOK, StagePcs, UncreatedStages, CreatedStages
  <2> QED
    BY <2>4, <2>5, <2>7 DEF StageInv
<1> QED
  BY <1>1, <1>2, <1>3, <1>4, <1>5 DEF MainStep

LEMMA StageInit == Init => StageInv
<1> SUFFICES ASSUME Init PROVE StageInv
  OBVIOUS
<1>1. /\ pc = [t \in Threads |-> IF t = Main THEN "collect" ELSE "unborn"]
      /\ queue = <<>> /\ ready = {} /\ design = {}
      /\ status = [k \in Keys |-> "Absent"] /\ graphName = [k \in Keys |-> Unnamed]
  BY DEF Init, QueueInit, CacheInit, NamingInit
<1>2. \A t \in Threads : pc[t] \notin OfferingPcs \union UnclaimedPcs \union StagePcs
                                       \union RequestPcs \union EnqueuePcs
  BY <1>1 DEF OfferingPcs, UnclaimedPcs, StagePcs, UncreatedStages, CreatedStages, RequestPcs, EnqueuePcs
<1>3. WaitingUnbegun
  <2>1. Members(queue) = {}
    BY <1>1 DEF Members
  <2>2. \A k \in Keys : ~Begun(k)
    BY <1>1 DEF Begun
  <2> QED
    BY <1>2, <2>1, <2>2 DEF WaitingUnbegun, Offering, OfferingPcs
<1>4. NamesDiffer /\ StatusKnown /\ ReadyMeansStored
  BY <1>1 DEF NamesDiffer, StatusKnown, ReadyMeansStored, Begun
<1>5. \A w \in Workers : Stage(w) \notin StagePcs
  BY <1>2 DEF Stage
<1>6. StagesOK
  BY <1>5 DEF StagesOK, StageOK, StagePcs, UncreatedStages, CreatedStages
<1> QED
  BY <1>3, <1>4, <1>6 DEF StageInv

LEMMA StageStep ==
  TypeOK /\ CountInv /\ PlacesInv /\ DiagInv /\ StageInv /\ [Next]_vars => StageInv'
<1> SUFFICES ASSUME TypeOK, CountInv, PlacesInv, DiagInv, StageInv, [Next]_vars PROVE StageInv'
  OBVIOUS
<1>1. CASE MainStep \/ WakeUpMain
  BY <1>1, StageMain DEF CountInv
<1>2. ASSUME NEW w \in Workers, WorkerStep(w) PROVE StageInv'
  BY <1>2, StageWorker
<1>3. CASE UNCHANGED <<queue, cacheVars, namingVars, registryVars, cancel, key, next, ret, pc>>
  <2>1. Moves(Main, pc[Main])
    BY <1>3, StayMoves
  <2>2. pc[Main] \in OfferingPcs => next'[Main] = next[Main]
    BY <1>3
  <2> QED
    BY <1>3, <2>1, <2>2, StageMove
<1>4. ASSUME NEW w \in Workers, WakeUp(w) PROVE StageInv'
  BY <1>3, <1>4 DEF WakeUp, SpuriousWake
<1> QED
  BY <1>1, <1>2, <1>3, <1>4 DEF Next, vars

LEMMA StageCorrect == Spec => []StageInv
BY TypeInit, TypeStep, CountInit, CountStep, PlacesInit, PlacesStep, DiagInit, DiagStep,
   StageInit, StageStep, PTL DEF Spec

\* createGraph never finds its name taken: the name a worker has reserved for its
\* key stays out of the design until that worker, and nobody else, creates it.
THEOREM CreateFindsFreeName == Spec => []CreateNeverCollides
<1>1. StageInv => CreateNeverCollides
  <2> SUFFICES ASSUME StageInv, NEW w \in Workers, pc[w] = "create"
               PROVE  graphName[key[w]] \notin design
    BY DEF CreateNeverCollides
  <2>1. Stage(w) = "create" /\ "create" \in UncreatedStages
    BY DEF Stage, RequestPcs, EnqueuePcs, UncreatedStages
  <2> QED
    BY <2>1 DEF StageInv, StagesOK, StageOK
<1> QED
  BY <1>1, StageCorrect, PTL

\* Whoever waits for the promise of a key finds the plan stored, or the whole
\* conversion is being aborted.
THEOREM ReadyKeysAreStored == Spec => []ReadyMeansStored
BY StageCorrect, PTL DEF StageInv

-----------------------------------------------------------------------------
(* When the queue is closed.  Either the work is over or an abort is under    *)
(* way, so a refused push loses no task that a conversion still needs.        *)

CancelledPcs == {"reqDrain", "reqSub", "reqClose", "reqNotify"}

ClosedInv ==
  /\ closed => cancel \/ pending = 0
  /\ \A w \in Workers : pc[w] \in FinishPcs => pending = 0
  /\ pc[Main] \in StartPcs => ~closed
  /\ \A t \in Threads : pc[t] = "uncount" => cancel
  /\ \A w \in Workers : pc[w] \in CancelledPcs => cancel

LEMMA InFlightMeans ==
  ASSUME TypeOK, CountInv, NEW w \in Workers, pc[w] \in TaskPcs
  PROVE  w \in InFlight /\ pending # 0 /\ pc[Main] \notin StartPcs
<1>1. w \in InFlight
  BY DEF InFlight
<1>2. pending # 0
  BY <1>1, ZeroMeansQuiet DEF CountInv
<1>3. "unborn" \notin TaskPcs
  BY PcSets
<1> QED
  BY <1>1, <1>2, <1>3 DEF CountInv, WorkersWaitForLaunch

\* A step of a worker in its task: no work is over, so only an abort may close.
LEMMA ClosedTask ==
  ASSUME TypeOK, CountInv, ClosedInv, NEW w \in Workers, pc[w] \in TaskPcs, NEW l, Moves(w, l),
         cancel => cancel', closed' => closed \/ cancel, l \in FinishPcs => pending' = 0,
         l \in CancelledPcs \union {"uncount"} => cancel'
  PROVE  ClosedInv'
<1>1. pending # 0 /\ pc[Main] \notin StartPcs
  BY InFlightMeans
<1>2. pc'[Main] \notin StartPcs
  BY <1>1 DEF Moves, StartPcs, EnqueuePcs
<1>3. "await" \notin FinishPcs \union CancelledPcs \union {"uncount"}
  BY DEF FinishPcs, CancelledPcs
<1> QED
  BY <1>1, <1>2, <1>3 DEF ClosedInv, Moves

\* A step of a thread that has no task.
LEMMA ClosedIdle ==
  ASSUME TypeOK, ClosedInv, NEW t \in Threads, NEW l, Moves(t, l), UNCHANGED <<cancel, pending>>,
         closed' = closed \/ (pending = 0 /\ pc[Main] \notin StartPcs),
         t # Main /\ l \in FinishPcs => pending = 0,
         l \notin CancelledPcs \union {"uncount"}, t = Main => l \notin StartPcs
  PROVE  ClosedInv'
<1>2. pc'[Main] \in StartPcs => pc[Main] \in StartPcs
  BY DEF Moves, StartPcs, EnqueuePcs
<1>3. "await" \notin FinishPcs \union CancelledPcs \union {"uncount"}
  BY DEF FinishPcs, CancelledPcs
<1>4. closed' => cancel \/ pending = 0
  BY DEF ClosedInv
<1>5. pc'[Main] \in StartPcs => ~closed'
  BY <1>2 DEF ClosedInv
<1>6. \A w \in Workers : pc'[w] \in FinishPcs => pending = 0
  BY <1>3 DEF ClosedInv, Moves
<1>7. \A u \in Threads : pc'[u] \in CancelledPcs \union {"uncount"} => pc[u] = pc'[u]
  BY <1>3 DEF Moves
<1> QED
  BY <1>4, <1>5, <1>6, <1>7 DEF ClosedInv

LEMMA ClosedWorker ==
  ASSUME TypeOK, CountInv, ClosedInv, NEW w \in Workers, WorkerStep(w)
  PROVE  ClosedInv'
<1>m. w \in Threads /\ w # Main
  OBVIOUS
<1>p. /\ EnqueuePcs \union ConvertPcs \union CatchPcs \union RequestPcs \union {"flush", "finSub"}
           \subseteq TaskPcs
      /\ ({"waitPop", "exit"} \union FinishPcs) \intersect TaskPcs = {}
      /\ FallibleStages \union {"create"} \subseteq ConvertPcs
  BY PcSets
<1>q. /\ CancelledPcs \subseteq RequestPcs
      /\ (CancelledPcs \union {"uncount"}) \intersect
            (ConvertPcs \union CatchPcs \union FinishPcs
               \union {"flush", "finSub", "waitPop", "exit", "reqCas", "again"}) = {}
      /\ FinishPcs \intersect (RequestPcs \union EnqueuePcs \union ConvertPcs \union CatchPcs
               \union {"flush", "finSub", "waitPop", "exit"}) = {}
      /\ CancelledPcs \intersect EnqueuePcs = {}
  BY DEF CancelledPcs, RequestPcs, ConvertPcs, CatchPcs, FinishPcs, EnqueuePcs
<1>1. CASE Enqueue(w)
  <2>1. PICK l \in EnqueuePcs \union {CollectPc(w)} : Moves(w, l) /\ (l = "uncount" => closed)
    BY <1>1, <1>m, GotoMoves
       DEF Enqueue, EnqueueCancelled, EnqueueCheck, EnqueueSchedule, EnqueueCount, EnqueuePush,
           EnqueueUncount, CollectNext, EnqueuePcs, TryPushRefuses, CollectPc
  <2>2. CollectPc(w) \in ConvertPcs
    BY <1>m DEF CollectPc, ConvertPcs
  <2>3. pc[w] \in EnqueuePcs \union {CollectPc(w)}
    BY <1>1
       DEF Enqueue, EnqueueCancelled, EnqueueCheck, EnqueueSchedule, EnqueueCount, EnqueuePush,
           EnqueueUncount, Collecting, EnqueuePcs
  <2>4. UNCHANGED <<closed, cancel>>
    BY <1>1
       DEF Enqueue, EnqueueCancelled, EnqueueCheck, EnqueueSchedule, EnqueueCount, EnqueuePush,
           EnqueueUncount, TryPushRefuses, TryPushAccepts
  <2>5. pc[w] \in TaskPcs
    BY <2>2, <2>3, <1>p
  <2>6. closed => cancel
    BY <2>5, InFlightMeans DEF ClosedInv
  <2>7. l \notin FinishPcs /\ (l \in CancelledPcs \union {"uncount"} => l = "uncount")
    BY <2>1, <2>2, <1>q
  <2> QED
    BY <2>1, <2>4, <2>5, <2>6, <2>7, ClosedTask
<1>2. CASE WaitPop(w)
  <2>1. PICK l \in {"waitPop", "exit", "begin"} : Moves(w, l)
    BY <1>2, <1>m, GotoMoves, StayMoves DEF WaitPop
  <2>2. UNCHANGED <<closed, cancel, pending>>
    BY <1>2 DEF WaitPop, WaitSleeps, WaitStops, WaitTakes
  <2>3. l \notin FinishPcs \union CancelledPcs \union {"uncount"}
    BY <1>q DEF ConvertPcs
  <2> QED
    BY <2>1, <2>2, <2>3, <1>m, ClosedIdle
<1>3. CASE Begin(w) \/ Enter(w) \/ Claim(w) \/ PlanDone(w) \/ LowerDone(w) \/ NameGraph(w)
           \/ Create(w) \/ AssemblyDone(w) \/ Store(w) \/ MarkReady(w) \/ Flush(w) \/ Throw(w)
  <2>1. PICK l \in ConvertPcs \union {"flush", "finSub", "caught"} : Moves(w, l)
    BY <1>3, <1>m, GotoMoves
       DEF Begin, Enter, Claim, PlanDone, LowerDone, NameGraph, Create, AssemblyDone, Store,
           MarkReady, Flush, Throw, ConvertPcs
  <2>2. UNCHANGED <<closed, cancel, pending>>
    BY <1>3 DEF Begin, Enter, Claim, PlanDone, LowerDone, NameGraph, Create, AssemblyDone, Store,
                MarkReady, Flush, Throw
  <2>3. pc[w] \in ConvertPcs \union {"flush"}
    BY <1>3, <1>p
       DEF Begin, Enter, Claim, PlanDone, LowerDone, NameGraph, Create, AssemblyDone, Store,
           MarkReady, Flush, Throw, ConvertPcs
  <2>4. "caught" \in CatchPcs
    BY DEF CatchPcs
  <2> QED
    BY <2>1, <2>2, <2>3, <2>4, <1>p, <1>q, ClosedTask
<1>4. CASE NameInstance(w)
  <2>1. Moves(w, "refs") /\ pc[w] = "refs" /\ UNCHANGED <<closed, cancel, pending>>
    BY <1>4, <1>m, StayMoves DEF NameInstance
  <2> QED
    BY <2>1, <1>p, <1>q, ClosedTask DEF ConvertPcs
<1>5. CASE FinSub(w)
  <2>1. PICK l \in {"finStore", "waitPop"} : Moves(w, l) /\ (l = "finStore" => pending <= 1)
    BY <1>5, <1>m, GotoMoves DEF FinSub
  <2>2. pc[w] \in TaskPcs /\ pending' = FetchSub(pending, 1) /\ UNCHANGED <<closed, cancel>>
    BY <1>5, <1>p DEF FinSub
  <2>3. l = "finStore" => pending' = 0
    BY <2>1, <2>2, InFlightMeans DEF FetchSub, TypeOK, DataOK
  <2> QED
    BY <2>1, <2>2, <2>3, <1>q, ClosedTask DEF FinishPcs
<1>6. CASE FinStore(w) \/ FinClose(w) \/ FinNotify(w)
  <2>1. PICK l \in {"finClose", "finNotify", "waitPop"} : Moves(w, l)
    BY <1>6, <1>m, GotoMoves, NotifyMoves DEF FinStore, FinClose, FinNotify
  <2>2. pc[w] \in FinishPcs
    BY <1>6 DEF FinStore, FinClose, FinNotify, FinishPcs
  <2>3. pending = 0 /\ pending' = 0 /\ cancel' = cancel
    BY <1>6, <2>2 DEF ClosedInv, FinStore, FinClose, FinNotify
  <2>4. pc[Main] \notin StartPcs
    BY <2>2 DEF CountInv, WorkersWaitForLaunch, FinishPcs
  <2>5. l \notin CancelledPcs \union {"uncount"}
    BY <1>q DEF FinishPcs
  <2> QED
    BY <2>1, <2>3, <2>4, <2>5, <1>m, ClosedIdle
<1>7. CASE ReportError(w) \/ Catch(w) \/ RequestAgain(w)
  <2>1. PICK l \in {"reqCas", "flush", pc[w]} : Moves(w, l)
    BY <1>7, <1>m, GotoMoves, StayMoves DEF ReportError, Catch, RequestAgain
  <2>2. UNCHANGED <<closed, cancel, pending>>
    BY <1>7 DEF ReportError, Catch, RequestAgain
  <2>3. pc[w] \in ConvertPcs \union CatchPcs
    BY <1>7, <1>p DEF ReportError, Catch, RequestAgain, CatchPcs
  <2>4. "reqCas" \in RequestPcs
    BY DEF RequestPcs
  <2> QED
    BY <2>1, <2>2, <2>3, <2>4, <1>p, <1>q, ClosedTask
<1>8. CASE RequestCas(w) \/ RequestDrain(w) \/ RequestSub(w) \/ RequestClose(w) \/ RequestNotify(w)
  <2>1. PICK l \in CancelledPcs \union {ret[w]} : Moves(w, l)
    BY <1>8, <1>m, GotoMoves, NotifyMoves
       DEF RequestCas, RequestDrain, RequestSub, RequestClose, RequestNotify, CancelledPcs
  <2>2. pc[w] \in RequestPcs /\ (pc[w] # "reqCas" => pc[w] \in CancelledPcs)
    BY <1>8 DEF RequestCas, RequestDrain, RequestSub, RequestClose, RequestNotify, RequestPcs, CancelledPcs
  <2>3. cancel'
    BY <1>8, <2>2 DEF ClosedInv, RequestCas, RequestDrain, RequestSub, RequestClose, RequestNotify
  <2>4. closed' => closed \/ cancel
    BY <1>8, <2>2 DEF ClosedInv, RequestCas, RequestDrain, RequestSub, RequestClose, RequestNotify,
                      Drain, Close
  <2>5. l \notin FinishPcs
    BY <2>1, <1>m, <1>q DEF TypeOK, ControlOK, FallibleStages, FinishPcs
  <2> QED
    BY <2>1, <2>2, <2>3, <2>4, <2>5, <1>p, ClosedTask
<1> QED
  BY <1>1, <1>2, <1>3, <1>4, <1>5, <1>6, <1>7, <1>8 DEF WorkerStep, Convert, Finish, Request

LEMMA ClosedMain ==
  ASSUME TypeOK, CountInv, ClosedInv, MainStep \/ WakeUpMain
  PROVE  ClosedInv'
<1>q. /\ ({"unborn", "waitPop", "collect", "launch", "await", "closing", "parking", "parked", "join"}
             \union EndPcs) \intersect (FinishPcs \union CancelledPcs \union {"uncount"}) = {}
      /\ ({"await", "closing", "parking", "parked", "join"} \union EndPcs) \intersect StartPcs = {}
      /\ EnqueuePcs \subseteq StartPcs /\ "collect" \in StartPcs /\ "launch" \in StartPcs
  BY DEF FinishPcs, CancelledPcs, StartPcs, EnqueuePcs, EndPcs
\* Before the launch the queue is open and nobody else runs.
<1>s. ASSUME pc[Main] \in StartPcs, NEW l, Moves(Main, l), closed' = closed, l # "uncount"
      PROVE  ClosedInv'
  <2>1. \A w \in Workers : pc'[w] = "unborn"
    BY <1>s DEF CountInv, WorkersWaitForLaunch, Moves
  <2>2. ~closed'
    BY <1>s DEF ClosedInv
  <2> QED
    BY <1>s, <2>1, <2>2, <1>q DEF ClosedInv, Moves
<1>1. CASE Enqueue(Main) \/ CollectDone
  <2>1. pc[Main] \in StartPcs
    BY <1>1, <1>q
       DEF Enqueue, EnqueueCancelled, EnqueueCheck, EnqueueSchedule, EnqueueCount, EnqueuePush,
           EnqueueUncount, Collecting, CollectPc, EnqueuePcs, CollectDone
  <2>2. ~closed
    BY <2>1 DEF ClosedInv
  <2>3. PICK l : Moves(Main, l) /\ l # "uncount"
    BY <1>1, <2>2, GotoMoves
       DEF Enqueue, EnqueueCancelled, EnqueueCheck, EnqueueSchedule, EnqueueCount, EnqueuePush,
           EnqueueUncount, CollectNext, CollectPc, TryPushRefuses, CollectDone
  <2>4. closed' = closed
    BY <1>1
       DEF Enqueue, EnqueueCancelled, EnqueueCheck, EnqueueSchedule, EnqueueCount, EnqueuePush,
           EnqueueUncount, TryPushRefuses, TryPushAccepts, CollectDone
  <2> QED
    BY <2>1, <2>3, <2>4, <1>s
<1>2. CASE AwaitDone \/ Park \/ CloseQueue \/ WakeUpMain
  <2>1. PICK l \in {"closing", "parking", "parked", "join", "await"} : Moves(Main, l)
    BY <1>2, GotoMoves DEF AwaitDone, Park, CloseQueue, WakeUpMain
  <2>2. UNCHANGED <<cancel, pending>>
    BY <1>2 DEF AwaitDone, Park, CloseQueue, WakeUpMain
  <2>3. closed' = closed \/ (pending = 0 /\ pc[Main] \notin StartPcs)
    BY <1>2, <1>q DEF AwaitDone, Park, CloseQueue, WakeUpMain, CountInv, MainPassedAtZero, PastPcs
  <2> QED
    BY <2>1, <2>2, <2>3, <1>q, ClosedIdle
<1>4. CASE Ending
  <2>1. PICK l \in EndPcs : Moves(Main, l)
    BY <1>4, EndingSteps, GotoMoves
  <2> QED
    BY <1>4, <2>1, <1>q, EndingSteps, ClosedIdle
<1>3. CASE Launch
  <2>1. /\ pc' = [t \in Threads |-> IF t = Main THEN "await" ELSE "waitPop"]
        /\ UNCHANGED <<cancel, pending>> /\ closed' = (closed \/ pending = 0)
    BY <1>3 DEF Launch
  <2>2. \A t \in Threads : pc'[t] \in {"await", "waitPop"}
    BY <2>1
  <2>3. pc'[Main] = "await"
    BY <2>1
  <2> QED
    BY <2>1, <2>2, <2>3, <1>q DEF ClosedInv
<1> QED
  BY <1>1, <1>2, <1>3, <1>4 DEF MainStep, Ending

LEMMA ClosedInit == Init => ClosedInv
<1> SUFFICES ASSUME Init PROVE ClosedInv
  OBVIOUS
<1>1. pc = [t \in Threads |-> IF t = Main THEN "collect" ELSE "unborn"] /\ closed = FALSE
  BY DEF Init, QueueInit
<1>2. {"collect", "unborn"} \intersect (FinishPcs \union CancelledPcs \union {"uncount"}) = {}
  BY DEF FinishPcs, CancelledPcs
<1> QED
  BY <1>1, <1>2 DEF ClosedInv

LEMMA ClosedStep == TypeOK /\ CountInv /\ ClosedInv /\ [Next]_vars => ClosedInv'
<1> SUFFICES ASSUME TypeOK, CountInv, ClosedInv, [Next]_vars PROVE ClosedInv'
  OBVIOUS
<1>1. CASE MainStep \/ WakeUpMain
  BY <1>1, ClosedMain
<1>2. ASSUME NEW w \in Workers, WorkerStep(w) PROVE ClosedInv'
  BY <1>2, ClosedWorker
<1>3. CASE UNCHANGED <<closed, cancel, pending, pc>>
  BY <1>3 DEF ClosedInv
<1>4. ASSUME NEW w \in Workers, WakeUp(w) PROVE ClosedInv'
  BY <1>3, <1>4 DEF WakeUp, SpuriousWake
<1> QED
  BY <1>1, <1>2, <1>3, <1>4 DEF Next, vars

-----------------------------------------------------------------------------
(* What has been found.  While no abort is under way a thread has scheduled   *)
(* every instance before the one it looks at; a worker goes on from the plan  *)
(* only when nothing aborts, so what it builds has all its instances found.   *)

AfterPlan == {"lower", "name", "create"} \union CreatedStages
CollectPcs == EnqueuePcs \union {"collect"}

Collected(t) == \A i \in 1..(next[t] - 1) : Instances(t)[i] \in scheduled

FoundByMain ==
  /\ pc[Main] \in CollectPcs => cancel \/ Collected(Main)
  /\ pc[Main] \notin CollectPcs => cancel \/ Members(Tops) \subseteq scheduled
FoundBy(w) ==
  /\ Stage(w) = "plan" => cancel \/ Collected(w)
  /\ Stage(w) \in AfterPlan => Members(Children[key[w]]) \subseteq scheduled

FoundInv ==
  /\ FoundByMain
  /\ \A w \in Workers : FoundBy(w)
  /\ \A k \in Keys : status[k] = "Done" => Members(Children[k]) \subseteq scheduled

\* All instances are found when the index has passed the last one.
LEMMA AllCollected ==
  ASSUME TypeOK, NEW t \in Threads, Collected(t), next[t] > Len(Instances(t)),
         t # Main => key[t] \in Keys
  PROVE  Members(Instances(t)) \subseteq scheduled
<1>1. Instances(t) \in Seq(Keys) /\ next[t] \in Nat
  BY DEF Instances, TypeOK, ControlOK
<1>2. \A x : x \in Members(Instances(t)) <=> \E i \in 1..Len(Instances(t)) : x = Instances(t)[i]
  BY <1>1, MembersOf
<1>3. \A i \in 1..Len(Instances(t)) : i \in 1..(next[t] - 1)
  BY <1>1
<1>4. \A i \in 1..Len(Instances(t)) : Instances(t)[i] \in scheduled
  BY <1>3 DEF Collected
<1>5. \A x \in Members(Instances(t)) : x \in scheduled
  BY <1>2, <1>4
<1> QED
  BY <1>5

\* A step of one thread, which owes only its own part.
LEMMA FoundFrame ==
  ASSUME TypeOK, FoundInv, NEW t \in Threads, NEW l, Moves(t, l),
         \A u \in Threads \ {t} : next'[u] = next[u] /\ ret'[u] = ret[u] /\ key'[u] = key[u],
         scheduled \subseteq scheduled', cancel => cancel',
         \A k \in Keys : status'[k] = "Done" =>
            status[k] = "Done" \/ Members(Children[k]) \subseteq scheduled,
         t = Main => FoundByMain', t # Main => FoundBy(t)'
  PROVE  FoundInv'
<1>1. FoundByMain'
  <2>1. CASE t = Main
    BY <2>1
  <2>2. CASE t # Main
    <3>1. pc'[Main] \in CollectPcs <=> pc[Main] \in CollectPcs
      BY <2>2 DEF Moves, CollectPcs, EnqueuePcs
    <3>2. next'[Main] = next[Main]
      BY <2>2
    <3> QED
      BY <3>1, <3>2 DEF FoundInv, FoundByMain, Collected, Instances
  <2> QED
    BY <2>1, <2>2
<1>2. ASSUME NEW w \in Workers PROVE FoundBy(w)'
  <2>1. CASE w # t
    <3>1. Stage(w)' = Stage(w)
      BY <2>1, OthersStay
    <3>2. next'[w] = next[w] /\ key'[w] = key[w]
      BY <2>1
    <3> QED
      BY <3>1, <3>2 DEF FoundInv, FoundBy, Collected, Instances
  <2> QED
    BY <2>1
<1>3. \A k \in Keys : status'[k] = "Done" => Members(Children[k]) \subseteq scheduled'
  BY DEF FoundInv
<1> QED
  BY <1>1, <1>2, <1>3 DEF FoundInv

LEMMA FoundEnqueue ==
  ASSUME TypeOK, CountInv, PlacesInv, ClosedInv, FoundInv, NEW t \in Threads, Enqueue(t)
  PROVE  FoundInv'
<1>n. next \in [Threads -> Nat \ {0}] /\ UNCHANGED <<cancel, key, ret, status>>
  BY DEF TypeOK, ControlOK, Enqueue, EnqueueCancelled, EnqueueCheck, EnqueueSchedule, EnqueueCount,
         EnqueuePush, EnqueueUncount
<1>p. pc[t] \in EnqueuePcs \union {CollectPc(t)}
  BY DEF Enqueue, EnqueueCancelled, EnqueueCheck, EnqueueSchedule, EnqueueCount, EnqueuePush,
         EnqueueUncount, Collecting, EnqueuePcs
<1>q. EnqueuePcs \intersect RequestPcs = {} /\ "plan" \notin RequestPcs \union AfterPlan
  BY DEF EnqueuePcs, RequestPcs, AfterPlan, CreatedStages
<1>c. cancel \/ Collected(t)
  <2>1. CASE t = Main
    BY <2>1, <1>p DEF FoundInv, FoundByMain, CollectPc, CollectPcs
  <2>2. CASE t # Main
    BY <2>2, <1>p, <1>q DEF FoundInv, FoundBy, CollectPc, Stage
  <2> QED
    BY <2>1, <2>2
\* t stays among the instances, and has found those before its index.
<1>g. ASSUME NEW l \in EnqueuePcs \union {CollectPc(t)}, Moves(t, l),
             \A u \in Threads \ {t} : next'[u] = next[u], scheduled \subseteq scheduled',
             cancel \/ Collected(t)'
      PROVE  FoundInv'
  <2>1. t = Main => FoundByMain'
    BY <1>g, <1>n DEF Moves, FoundByMain, CollectPcs, CollectPc
  <2>2. t # Main => FoundBy(t)'
    <3> SUFFICES ASSUME t # Main PROVE FoundBy(t)'
      OBVIOUS
    <3>1. Stage(t)' = "plan"
      BY <1>g, <1>q DEF Moves, Stage, CollectPc
    <3> QED
      BY <3>1, <1>g, <1>n, <1>q DEF FoundBy
  <2> QED
    BY <1>g, <1>n, <2>1, <2>2, FoundFrame
\* t goes on to its next instance.
<1>h. ASSUME CollectNext(t), scheduled' = scheduled,
             cancel \/ (pc[t] \in EnqueuePcs /\ Instance(t) \in scheduled)
      PROVE  FoundInv'
  <2>1. Moves(t, CollectPc(t)) /\ \A u \in Threads \ {t} : next'[u] = next[u]
    BY <1>h, <1>n, GotoMoves DEF CollectNext
  <2>2. next'[t] = next[t] + 1 /\ next[t] \in Nat \ {0}
    BY <1>h, <1>n DEF CollectNext
  <2>3. cancel \/ Collected(t)'
    <3> SUFFICES ASSUME ~cancel, NEW i \in 1..(next'[t] - 1) PROVE Instances(t)[i] \in scheduled
      BY <1>h, <1>n DEF Collected, Instances
    <3>1. i \in 1..(next[t] - 1) \/ i = next[t]
      BY <2>2
    <3> QED
      BY <3>1, <1>c, <1>h DEF Collected, Instance
  <2> QED
    BY <2>1, <2>3, <1>h, <1>g
\* t stays at its instance.
<1>k. ASSUME NEW l \in EnqueuePcs, Goto(t, l), UNCHANGED next, scheduled \subseteq scheduled'
      PROVE  FoundInv'
  <2>1. cancel \/ Collected(t)'
    BY <1>k, <1>c, <1>n DEF Collected, Instances
  <2> QED
    BY <1>k, <2>1, <1>g, GotoMoves
<1>1. CASE EnqueueCancelled(t)
  BY <1>1, <1>h DEF EnqueueCancelled
<1>2. CASE EnqueueCheck(t) \/ EnqueueCount(t)
  BY <1>2, <1>k DEF EnqueueCheck, EnqueueCount, EnqueuePcs
<1>3. CASE EnqueueSchedule(t)
  <2>1. CASE Instance(t) \in scheduled /\ CollectNext(t) /\ UNCHANGED scheduled
    BY <1>3, <2>1, <1>h DEF EnqueueSchedule, EnqueuePcs
  <2>2. CASE scheduled' = scheduled \union {Instance(t)} /\ Goto(t, "count") /\ UNCHANGED next
    BY <2>2, <1>k DEF EnqueuePcs
  <2> QED
    BY <1>3, <2>1, <2>2 DEF EnqueueSchedule
<1>4. CASE EnqueuePush(t)
  <2>0. pc[t] = "push" /\ Instance(t) \in scheduled /\ scheduled' = scheduled
    BY <1>4 DEF EnqueuePush, PlacesInv, PlacesScheduled, Offering
  <2>1. CASE CollectNext(t)
    BY <2>0, <2>1, <1>h DEF EnqueuePcs
  <2>2. CASE Goto(t, "uncount") /\ UNCHANGED next
    BY <2>0, <2>2, <1>k DEF EnqueuePcs
  <2> QED
    BY <1>4, <2>1, <2>2 DEF EnqueuePush
<1>5. CASE EnqueueUncount(t)
  BY <1>5, <1>h DEF EnqueueUncount, ClosedInv
<1> QED
  BY <1>1, <1>2, <1>3, <1>4, <1>5 DEF Enqueue

LEMMA FoundWorker ==
  ASSUME TypeOK, CountInv, PlacesInv, ClosedInv, StageInv, FoundInv,
         NEW w \in Workers, WorkerStep(w)
  PROVE  FoundInv'
<1>m. w \in Threads /\ w # Main
  OBVIOUS
<1>t. ret \in [Threads -> FallibleStages \union {"again", "flush"}] /\ next \in [Threads -> Nat \ {0}]
  BY DEF TypeOK, ControlOK
<1>s. FoundBy(w)
  BY DEF FoundInv
<1>o. /\ AfterPlan = {"lower", "name", "create", "refs", "setLowering", "setWriteBack", "store"}
      /\ EnqueuePcs = {"schedule", "count", "push", "uncount"}
      /\ RequestPcs = {"reqCas", "reqDrain", "reqSub", "reqClose", "reqNotify"}
  BY DEF AfterPlan, CreatedStages, EnqueuePcs, RequestPcs
\* w moves; its stage stays, or owes nothing, or its part is given.
<1>g. ASSUME NEW l, Moves(w, l), key' = key, scheduled' = scheduled, cancel => cancel',
             \E x : next' = [next EXCEPT ![w] = x], \E r : ret' = [ret EXCEPT ![w] = r],
             \A k \in Keys : status'[k] = "Done" =>
                status[k] = "Done" \/ Members(Children[k]) \subseteq scheduled,
             \/ Stage(w)' = Stage(w) /\ (next'[w] = next[w] \/ Stage(w) # "plan")
             \/ Stage(w)' \notin AfterPlan \union {"plan"}
             \/ FoundBy(w)'
      PROVE  FoundInv'
  <2>1. \A u \in Threads \ {w} : next'[u] = next[u] /\ ret'[u] = ret[u] /\ key'[u] = key[u]
    BY <1>g, <1>t
  <2>2. FoundBy(w)'
    BY <1>g, <1>s, <1>m DEF FoundBy, Collected, Instances
  <2> QED
    BY <1>g, <2>1, <2>2, <1>m, FoundFrame
<1>n. next = [next EXCEPT ![w] = next[w]] /\ ret = [ret EXCEPT ![w] = ret[w]]
  BY <1>t
<1>h. ASSUME NEW l, l \notin RequestPcs \union EnqueuePcs, Moves(w, l) PROVE Stage(w)' = l
  BY <1>h DEF Moves, Stage
<1>1. CASE Enqueue(w)
  BY <1>1, <1>m, FoundEnqueue
<1>2. CASE WaitPop(w)
  <2>1. PICK l \in {"waitPop", "exit", "begin"} : Moves(w, l)
    BY <1>2, <1>m, GotoMoves, StayMoves DEF WaitPop
  <2>2. /\ UNCHANGED <<cacheVars, namingVars, registryVars, cancel, next, ret>>
        /\ \A u \in Threads \ {w} : key'[u] = key[u]
    BY <1>2 DEF WaitPop, TypeOK, ControlOK
  <2>3. FoundBy(w)'
    BY <2>1, <1>h, <1>o DEF FoundBy
  <2> QED
    BY <2>1, <2>2, <2>3, <1>m, FoundFrame
<1>3. CASE Begin(w) \/ Enter(w) \/ MarkReady(w) \/ Flush(w) \/ FinSub(w) \/ FinStore(w)
           \/ FinClose(w) \/ FinNotify(w) \/ Throw(w)
  <2>1. PICK l \in {"flush", "enter", "ready", "claim", "finSub", "finStore", "waitPop", "finClose",
                    "finNotify", "caught"} : Moves(w, l)
    BY <1>3, <1>m, GotoMoves, NotifyMoves
       DEF Begin, Enter, MarkReady, Flush, FinSub, FinStore, FinClose, FinNotify, Throw
  <2>2. UNCHANGED <<status, scheduled, cancel, key, next, ret>>
    BY <1>3 DEF Begin, Enter, MarkReady, Flush, FinSub, FinStore, FinClose, FinNotify, Throw
  <2>3. Stage(w)' \notin AfterPlan \union {"plan"}
    BY <2>1, <1>h, <1>o
  <2> QED
    BY <2>1, <2>2, <2>3, <1>g, <1>n
<1>4. CASE Claim(w)
  <2>1. PICK l \in {"plan", "ready"} : Moves(w, l)
           /\ (l = "plan" => next' = [next EXCEPT ![w] = 1])
           /\ (next' = next \/ next' = [next EXCEPT ![w] = 1])
    BY <1>4, <1>m, GotoMoves DEF Claim
  <2>2. UNCHANGED <<scheduled, cancel, key, ret>>
        /\ \A k \in Keys : status'[k] = "Done" => status[k] = "Done"
    BY <1>4 DEF Claim, TryClaim, TryClaimLoses, TypeOK, DataOK, CacheTypeOK
  <2>3. Stage(w)' = l
    BY <2>1, <1>h, <1>o
  <2>4. Stage(w)' = "plan" => next'[w] = 1
    BY <2>1, <2>3, <1>t, <1>m
  <2>5. FoundBy(w)'
    BY <2>1, <2>3, <2>4, <1>o DEF FoundBy, Collected
  <2> QED
    BY <2>1, <2>2, <2>5, <1>g, <1>n
<1>5. CASE PlanDone(w)
  <2>1. PICK l \in {"lower", "ready"} : Moves(w, l) /\ (l = "lower" => ~cancel)
    BY <1>5, <1>m, GotoMoves DEF PlanDone
  <2>2. /\ pc[w] = "plan" /\ next[w] > Len(Children[key[w]])
        /\ UNCHANGED <<status, scheduled, cancel, key, next, ret>>
    BY <1>5 DEF PlanDone
  <2>3. Stage(w)' = l /\ Stage(w) = "plan" /\ key[w] \in Keys
    <3>1. "plan" \in TaskPcs
      BY PcSets DEF ConvertPcs
    <3> QED
      BY <2>1, <2>2, <3>1, <1>h, <1>o DEF Stage, TypeOK, ControlOK
  <2>4. l = "lower" => Members(Children[key[w]]) \subseteq scheduled
    BY <2>1, <2>2, <2>3, <1>s, <1>m, AllCollected DEF FoundBy, Instances
  <2>5. FoundBy(w)'
    BY <2>1, <2>2, <2>3, <2>4, <1>o DEF FoundBy
  <2> QED
    BY <2>1, <2>2, <2>5, <1>g, <1>n
<1>6. CASE LowerDone(w) \/ NameGraph(w) \/ Create(w) \/ NameInstance(w) \/ AssemblyDone(w) \/ Store(w)
  <2>1. PICK l \in {"name", "ready", "create", "refs", "setLowering", "setWriteBack", "store"} : Moves(w, l)
    BY <1>6, <1>m, GotoMoves, StayMoves
       DEF LowerDone, NameGraph, Create, NameInstance, AssemblyDone, Store
  <2>2. pc[w] \in AfterPlan
    BY <1>6, <1>o DEF LowerDone, NameGraph, Create, NameInstance, AssemblyDone, Store
  <2>3. UNCHANGED <<scheduled, cancel, key, ret>> /\ \E x : next' = [next EXCEPT ![w] = x]
    BY <1>6, <1>n DEF LowerDone, NameGraph, Create, NameInstance, AssemblyDone, Store
  <2>4. Stage(w) = pc[w] /\ Stage(w)' = l
    BY <2>1, <2>2, <1>h, <1>o DEF Stage
  <2>5. Members(Children[key[w]]) \subseteq scheduled
    BY <2>2, <2>4, <1>s DEF FoundBy
  <2>6. \A k \in Keys : status'[k] = "Done" =>
            status[k] = "Done" \/ Members(Children[k]) \subseteq scheduled
    BY <1>6, <2>5
       DEF LowerDone, NameGraph, Create, NameInstance, AssemblyDone, Store, StorePlan, SetArtifact,
           TypeOK, DataOK, CacheTypeOK
  <2>7. FoundBy(w)'
    BY <2>1, <2>3, <2>4, <2>5, <1>o DEF FoundBy
  <2> QED
    BY <2>1, <2>3, <2>6, <2>7, <1>g, <1>n
<1>7. CASE ReportError(w)
  <2>1. PICK l : Moves(w, l) /\ ((l = "reqCas" /\ ret' = [ret EXCEPT ![w] = pc[w]])
                                   \/ (l = pc[w] /\ ret' = ret /\ pc' = pc))
    BY <1>7, <1>m, GotoMoves, StayMoves DEF ReportError
  <2>2. UNCHANGED <<status, scheduled, cancel, key, next>> /\ pc[w] \in FallibleStages
    BY <1>7 DEF ReportError
  <2>3. Stage(w)' = Stage(w)
    BY <2>1, <2>2, <1>t, <1>m, <1>o, StageSets DEF Stage, Moves, FallibleStages
  <2>4. \E r : ret' = [ret EXCEPT ![w] = r]
    BY <2>1, <1>n
  <2> QED
    BY <2>1, <2>2, <2>3, <2>4, <1>g, <1>n
<1>8. CASE Catch(w) \/ RequestAgain(w)
  <2>1. PICK l \in {"flush", "reqCas"} : Moves(w, l) /\
           \/ l = "flush" /\ ret' = ret
           \/ l = "reqCas" /\ \E r \in {"again", "flush"} : ret' = [ret EXCEPT ![w] = r]
    BY <1>8, <1>m, GotoMoves DEF Catch, RequestAgain
  <2>2. UNCHANGED <<status, scheduled, cancel, key, next>>
    BY <1>8 DEF Catch, RequestAgain
  <2>3. Stage(w)' \in {"flush", "again"}
    BY <2>1, <1>t, <1>m, <1>o DEF Stage, Moves
  <2>4. \E r : ret' = [ret EXCEPT ![w] = r]
    BY <2>1, <1>n
  <2>5. Stage(w)' \notin AfterPlan \union {"plan"}
    BY <2>3, <1>o
  <2> QED
    BY <2>1, <2>2, <2>4, <2>5, <1>g, <1>n
<1>9. CASE RequestCas(w) \/ RequestDrain(w) \/ RequestSub(w) \/ RequestClose(w) \/ RequestNotify(w)
  <2>1. PICK l \in RequestPcs \union {ret[w]} : Moves(w, l) /\ pc[w] \in RequestPcs
    BY <1>9, <1>m, <1>o, GotoMoves, NotifyMoves
       DEF RequestCas, RequestDrain, RequestSub, RequestClose, RequestNotify
  <2>2. UNCHANGED <<status, scheduled, key, next, ret>> /\ (cancel => cancel')
    BY <1>9 DEF RequestCas, RequestDrain, RequestSub, RequestClose, RequestNotify
  <2>3. Stage(w)' = Stage(w)
    BY <2>1, <2>2, <1>t, <1>m, StageSets DEF Stage, Moves
  <2> QED
    BY <2>1, <2>2, <2>3, <1>g, <1>n
<1> QED
  BY <1>1, <1>2, <1>3, <1>4, <1>5, <1>6, <1>7, <1>8, <1>9 DEF WorkerStep, Convert, Finish, Request

LEMMA FoundMain ==
  ASSUME TypeOK, CountInv, PlacesInv, ClosedInv, FoundInv, MainStep \/ WakeUpMain
  PROVE  FoundInv'
<1>q. ({"launch", "closing", "parking", "parked", "join", "await"} \union EndPcs) \intersect CollectPcs = {}
  BY DEF CollectPcs, EnqueuePcs, EndPcs
<1>1. CASE Enqueue(Main)
  BY <1>1, FoundEnqueue
<1>2. CASE CollectDone \/ AwaitDone \/ Park \/ CloseQueue \/ WakeUpMain
  <2>1. PICK l \in {"launch", "closing", "parking", "parked", "join", "await"} :
           Moves(Main, l)
    BY <1>2, GotoMoves DEF CollectDone, AwaitDone, Park, CloseQueue, WakeUpMain
  <2>2. UNCHANGED <<status, scheduled, cancel, key, next, ret>>
    BY <1>2 DEF CollectDone, AwaitDone, Park, CloseQueue, WakeUpMain
  <2>3. cancel \/ Members(Tops) \subseteq scheduled
    <3>1. CASE CollectDone
      BY <3>1, AllCollected DEF CollectDone, FoundInv, FoundByMain, CollectPcs, Instances
    <3>2. CASE ~CollectDone
      BY <1>2, <3>2, <1>q DEF AwaitDone, Park, CloseQueue, WakeUpMain, FoundInv, FoundByMain
    <3> QED
      BY <3>1, <3>2
  <2>4. FoundByMain'
    BY <2>1, <2>2, <2>3, <1>q DEF FoundByMain, Moves
  <2> QED
    BY <2>1, <2>2, <2>4, FoundFrame
<1>4. CASE Ending
  <2>1. PICK l \in EndPcs : Moves(Main, l)
    BY <1>4, EndingSteps, GotoMoves
  <2>2. UNCHANGED <<status, scheduled, cancel, key, ret>>
    BY <1>4, EndingSteps
  <2>3. \A u \in Threads \ {Main} : next'[u] = next[u]
    BY <1>4, EndingSteps DEF TypeOK, ControlOK
  <2>4. pc[Main] \notin CollectPcs /\ pc'[Main] \notin CollectPcs
    BY <1>4, <2>1, <1>q, EndingSteps DEF Moves, EndPcs
  <2>5. FoundByMain'
    BY <2>2, <2>4 DEF FoundInv, FoundByMain
  <2> QED
    BY <2>1, <2>2, <2>3, <2>5, FoundFrame
<1>3. CASE Launch
  <2>1. /\ pc' = [t \in Threads |-> IF t = Main THEN "await" ELSE "waitPop"]
        /\ UNCHANGED <<status, scheduled, cancel, key, next, ret>> /\ pc[Main] = "launch"
    BY <1>3 DEF Launch
  <2>2. FoundByMain'
    BY <2>1, <1>q DEF FoundInv, FoundByMain
  <2>3. \A w \in Workers : Stage(w)' = "waitPop"
    BY <2>1 DEF Stage, RequestPcs, EnqueuePcs
  <2>4. \A w \in Workers : FoundBy(w)'
    BY <2>3 DEF FoundBy, AfterPlan, CreatedStages
  <2> QED
    BY <2>1, <2>2, <2>4 DEF FoundInv
<1> QED
  BY <1>1, <1>2, <1>3, <1>4 DEF MainStep, Ending

LEMMA FoundInit == Init => FoundInv
<1> SUFFICES ASSUME Init PROVE FoundInv
  OBVIOUS
<1>1. /\ pc = [t \in Threads |-> IF t = Main THEN "collect" ELSE "unborn"]
      /\ next = [t \in Threads |-> 1] /\ status = [k \in Keys |-> "Absent"]
  BY DEF Init, CacheInit
<1>2. FoundByMain
  BY <1>1 DEF FoundByMain, CollectPcs, Collected
<1>3. \A w \in Workers : Stage(w) = "unborn"
  BY <1>1 DEF Stage, RequestPcs, EnqueuePcs
<1>4. \A w \in Workers : FoundBy(w)
  BY <1>3 DEF FoundBy, AfterPlan, CreatedStages
<1> QED
  BY <1>1, <1>2, <1>4 DEF FoundInv

LEMMA FoundStep ==
  TypeOK /\ CountInv /\ PlacesInv /\ ClosedInv /\ StageInv /\ FoundInv /\ [Next]_vars => FoundInv'
<1> SUFFICES ASSUME TypeOK, CountInv, PlacesInv, ClosedInv, StageInv, FoundInv, [Next]_vars
             PROVE  FoundInv'
  OBVIOUS
<1>1. CASE MainStep \/ WakeUpMain
  BY <1>1, FoundMain
<1>2. ASSUME NEW w \in Workers, WorkerStep(w) PROVE FoundInv'
  BY <1>2, FoundWorker
<1>3. CASE UNCHANGED <<status, scheduled, cancel, key, next, ret, pc>>
  BY <1>3 DEF FoundInv, FoundByMain, FoundBy, Collected, Instances, Stage
<1>4. ASSUME NEW w \in Workers, WakeUp(w) PROVE FoundInv'
  BY <1>3, <1>4 DEF WakeUp, SpuriousWake
<1> QED
  BY <1>1, <1>2, <1>3, <1>4 DEF Next, vars

-----------------------------------------------------------------------------
(* Every scheduled key settles.  While nothing aborts, a key that was         *)
(* scheduled is still at its place, or is converted, or its failure is        *)
(* reported: none is lost between two places.                                 *)

Placed(k) == \/ k \in Members(queue)
             \/ \E w \in InFlight : key[w] = k
             \/ \E t \in Threads : Offering(t) /\ Instance(t) = k
Settled(k) == Converted(k) \/ Failed(k)
Failing(k) == \E t \in Threads : <<k, "workerFailed">> \in buffer[t]

NoneLost == cancel \/ \A k \in scheduled : Placed(k) \/ Settled(k)
LeavesSettled(w) ==
  /\ pc[w] = "flush" =>
       cancel \/ Converted(key[w]) \/ <<key[w], "workerFailed">> \in buffer[w]
  /\ pc[w] = "finSub" => cancel \/ Settled(key[w])
  /\ pc[w] = "caught" => Begun(key[w])
FailedAreBegun == \A k \in Keys : Failed(k) \/ Failing(k) => Begun(k)

SettleInv == NoneLost /\ (\A w \in Workers : LeavesSettled(w)) /\ FailedAreBegun

\* What is known of a key grows.
Grows == \A k \in Keys : (Begun(k) => Begun(k)') /\ (Converted(k) => Converted(k)')

LEMMA StatusGrows ==
  ASSUME TypeOK, StageInv, StageInv', [Next]_vars
  PROVE  Grows
<1>t. status \in [Keys -> Statuses]
  BY DEF TypeOK, DataOK, CacheTypeOK
<1>1. \A k \in Keys : (Begun(k) => Begun(k)') /\ (status[k] = "Done" => status'[k] = "Done")
  <2>1. CASE UNCHANGED status
    BY <2>1 DEF Begun
  <2>2. ASSUME NEW w \in Workers, WorkerStep(w), ~UNCHANGED status
        PROVE  TryClaim(key[w]) \/ StorePlan(key[w])
    BY <2>2
       DEF WorkerStep, Convert, Finish, Request, Enqueue, EnqueueCancelled, EnqueueCheck,
           EnqueueSchedule, EnqueueCount, EnqueuePush, EnqueueUncount, WaitPop, Begin, Enter, Claim,
           PlanDone, LowerDone, NameGraph, Create, NameInstance, AssemblyDone, Store, MarkReady,
           Flush, FinSub, FinStore, FinClose, FinNotify, ReportError, Throw, Catch, RequestAgain,
           RequestCas, RequestDrain, RequestSub, RequestClose, RequestNotify, TryClaimLoses, SetArtifact
  <2>3. ASSUME NEW w \in Workers, WorkerStep(w), ~UNCHANGED status
        PROVE  \A k \in Keys : (Begun(k) => Begun(k)') /\ (status[k] = "Done" => status'[k] = "Done")
    BY <2>2, <2>3, <1>t DEF TryClaim, StorePlan, Claimable, Begun
  <2>4. UNCHANGED status \/ \E w \in Workers : WorkerStep(w)
    BY DEF Next, MainStep, Enqueue, EnqueueCancelled, EnqueueCheck, EnqueueSchedule, EnqueueCount,
           EnqueuePush, EnqueueUncount, CollectDone, Launch, AwaitDone, Park, CloseQueue, Join,
           FinalizeTop, ReturnDesign, CallerFlush, WakeUpMain, WakeUp, vars
  <2> QED
    BY <2>1, <2>3, <2>4
<1>2. \A k \in Keys : Converted(k) => Converted(k)'
  <2>1. \A k \in Keys : status'[k] = "Done" => Converted(k)'
    BY DEF StageInv, StatusKnown
  <2> QED
    BY <1>1, <2>1 DEF Converted
<1> QED
  BY <1>1, <1>2 DEF Grows

\* A step of t to l that changes no diagnostics.
LEMMA SettleFrame ==
  ASSUME TypeOK, SettleInv, Grows, NEW t \in Threads, NEW l, Moves(t, l), cancel => cancel',
         UNCHANGED <<buffer, messages>>,
         \A u \in Threads \ {t} : key'[u] = key[u],
         NoneLost', t # Main => LeavesSettled(t)'
  PROVE  SettleInv'
<1>1. \A k \in Keys : Settled(k) => Settled(k)'
  BY DEF Grows, Settled, Failed
<1>2. ASSUME NEW w \in Workers PROVE LeavesSettled(w)'
  <2>1. CASE w # t
    <3>1. /\ pc'[w] = pc[w] /\ key'[w] = key[w]
          /\ pc[w] \in {"flush", "finSub", "caught"} => key[w] \in Keys
      BY <2>1, PcSets DEF Moves, TypeOK, ControlOK, CatchPcs
    <3> QED
      BY <3>1, <1>1 DEF SettleInv, LeavesSettled, Grows
  <2> QED
    BY <2>1
<1>3. FailedAreBegun'
  BY DEF SettleInv, FailedAreBegun, Failed, Failing, Grows
<1> QED
  BY <1>2, <1>3 DEF SettleInv

\* A step that takes no key from its place loses none.
LEMMA NoneLostMove ==
  ASSUME TypeOK, SettleInv, Grows, NEW t \in Threads, NEW l, Moves(t, l),
         queue' = queue, key' = key, scheduled' = scheduled, cancel => cancel',
         messages \subseteq messages',
         \A u \in Threads \ {t} : next'[u] = next[u],
         pc[t] \in OfferingPcs => cancel' \/ (l \in OfferingPcs /\ next'[t] = next[t]),
         t # Main /\ pc[t] \in TaskPcs => cancel' \/ l \in TaskPcs \/ Settled(key[t])
  PROVE  NoneLost'
<1> SUFFICES ASSUME ~cancel' PROVE \A k \in scheduled : Placed(k)' \/ Settled(k)'
  BY DEF NoneLost
<1>s. scheduled \subseteq Keys /\ (\A k \in scheduled : Placed(k) \/ Settled(k))
  BY DEF TypeOK, DataOK, SettleInv, NoneLost
<1>0. \A k \in Keys : Settled(k) => Settled(k)'
  BY DEF Grows, Settled, Failed
<1> TAKE k \in scheduled
<1>1. CASE k \in Members(queue)
  BY <1>1 DEF Placed, Members
<1>2. ASSUME NEW w \in InFlight, key[w] = k PROVE Placed(k)' \/ Settled(k)'
  <2>1. CASE w \in InFlight'
    BY <1>2, <2>1 DEF Placed
  <2>2. CASE w \notin InFlight'
    <3>1. w = t /\ l \notin TaskPcs /\ pc[t] \in TaskPcs /\ t # Main
      BY <2>2 DEF InFlight, Moves
    <3> QED
      BY <3>1, <1>2, <1>0, <1>s
  <2> QED
    BY <2>1, <2>2
<1>3. ASSUME NEW u \in Threads, Offering(u), Instance(u) = k PROVE Placed(k)'
  <2>1. Offering(u)' /\ next'[u] = next[u]
    BY <1>3, PcSets DEF Offering, Moves, OfferingPcs
  <2>2. Instance(u)' = k
    BY <2>1, <1>3 DEF Instance, Instances
  <2> QED
    BY <2>1, <2>2 DEF Placed
<1> QED
  BY <1>s, <1>0, <1>1, <1>2, <1>3 DEF Placed

LEMMA SettleEnqueue ==
  ASSUME TypeOK, CountInv, PlacesInv, ClosedInv, SettleInv, Grows, NEW t \in Threads, Enqueue(t)
  PROVE  SettleInv'
<1>n. next \in [Threads -> Nat \ {0}] /\ UNCHANGED <<cancel, key, buffer, messages>>
  BY DEF TypeOK, ControlOK, Enqueue, EnqueueCancelled, EnqueueCheck, EnqueueSchedule, EnqueueCount,
         EnqueuePush, EnqueueUncount
<1>q. /\ CollectPc(t) \notin {"flush", "finSub", "caught"} \union EnqueuePcs
      /\ EnqueuePcs \intersect {"flush", "finSub", "caught"} = {}
      /\ t # Main => CollectPc(t) \in TaskPcs /\ EnqueuePcs \subseteq TaskPcs
      /\ OfferingPcs = {"count", "push"} /\ EnqueuePcs = {"schedule", "count", "push", "uncount"}
  BY PcSets DEF EnqueuePcs, CollectPc, ConvertPcs, OfferingPcs
<1>l. ASSUME NEW l \in EnqueuePcs \union {CollectPc(t)}, Moves(t, l), NoneLost'
      PROVE  SettleInv'
  <2>1. t # Main => LeavesSettled(t)'
    BY <1>l, <1>q DEF Moves, LeavesSettled
  <2> QED
    BY <1>l, <2>1, <1>n, SettleFrame
<1>g. ASSUME NEW l \in EnqueuePcs \union {CollectPc(t)}, Moves(t, l),
             \A u \in Threads \ {t} : next'[u] = next[u], UNCHANGED <<queue, scheduled>>,
             pc[t] \in OfferingPcs => cancel \/ (l \in OfferingPcs /\ next'[t] = next[t])
      PROVE  SettleInv'
  <2>1. NoneLost'
    BY <1>g, <1>n, <1>q, NoneLostMove
  <2> QED
    BY <2>1, <1>g, <1>l
<1>h. ASSUME CollectNext(t) PROVE Moves(t, CollectPc(t)) /\ \A u \in Threads \ {t} : next'[u] = next[u]
  BY <1>h, <1>n, GotoMoves DEF CollectNext
<1>1. CASE EnqueueCancelled(t)
  BY <1>1, <1>h, <1>g, <1>q DEF EnqueueCancelled, Collecting
<1>2. CASE EnqueueCheck(t) \/ EnqueueCount(t)
  BY <1>2, <1>g, <1>q, GotoMoves DEF EnqueueCheck, EnqueueCount, Collecting
<1>3. CASE EnqueueSchedule(t)
  <2>1. CASE CollectNext(t) /\ UNCHANGED scheduled
    BY <1>3, <2>1, <1>h, <1>g, <1>q DEF EnqueueSchedule
  <2>2. CASE scheduled' = scheduled \union {Instance(t)} /\ Goto(t, "count") /\ UNCHANGED next
    <3>1. Moves(t, "count") /\ pc[t] = "schedule" /\ UNCHANGED queue
      BY <1>3, <2>2, GotoMoves DEF EnqueueSchedule
    <3>2. \A u \in Threads : Instance(u)' = Instance(u)
      BY <2>2, <1>n DEF Instance, Instances
    <3>3. /\ \A u \in Threads : Offering(u) \/ u = t => Offering(u)'
          /\ \A w \in InFlight : w \in InFlight'
      BY <3>1, PcSets DEF Offering, InFlight, Moves, EnqueuePcs
    <3>4. \A k : Placed(k) => Placed(k)'
      BY <3>1, <3>2, <3>3, <1>n DEF Placed, Members
    <3>5. \A k : k = Instance(t) => Placed(k)'
      BY <3>2, <3>3 DEF Placed
    <3>6. \A k \in Keys : Settled(k) => Settled(k)'
      BY <1>n DEF Grows, Settled, Failed
    <3>7. NoneLost'
      BY <2>2, <3>4, <3>5, <3>6, <1>n DEF SettleInv, NoneLost, TypeOK, DataOK
    <3> QED
      BY <3>1, <3>7, <1>l, <1>q
  <2> QED
    BY <1>3, <2>1, <2>2 DEF EnqueueSchedule
<1>4. CASE EnqueuePush(t)
  <2>1. CASE TryPushAccepts(Instance(t)) /\ CollectNext(t)
    <3>1. /\ Moves(t, CollectPc(t)) /\ pc[t] = "push" /\ UNCHANGED scheduled
          /\ \A u \in Threads \ {t} : next'[u] = next[u]
          /\ queue' = Append(queue, Instance(t))
      BY <1>4, <2>1, <1>h DEF EnqueuePush, TryPushAccepts
    <3>2. Members(queue') = Members(queue) \union {Instance(t)}
      BY <3>1, <1>q, InstanceIsKey, AppendMembers DEF TypeOK, DataOK, QueueTypeOK
    <3>3. /\ \A u \in Threads \ {t} : Offering(u) => Offering(u)' /\ Instance(u)' = Instance(u)
          /\ \A w \in InFlight : w \in InFlight'
      BY <3>1, <1>n, <1>q DEF Offering, InFlight, Moves, Instance, Instances
    <3>4. \A k : Placed(k) => Placed(k)'
      BY <3>2, <3>3, <1>n DEF Placed
    <3>5. \A k \in Keys : Settled(k) => Settled(k)'
      BY <1>n DEF Grows, Settled, Failed
    <3>6. NoneLost'
      BY <3>1, <3>4, <3>5, <1>n DEF SettleInv, NoneLost, TypeOK, DataOK
    <3> QED
      BY <3>1, <3>6, <1>l
  <2>2. CASE TryPushRefuses /\ Goto(t, "uncount") /\ UNCHANGED next
    <3>1. cancel
      <4>1. closed /\ t \in Counted
        BY <1>4, <2>2 DEF EnqueuePush, TryPushRefuses, Counted
      <4> QED
        BY <4>1, ZeroMeansQuiet DEF ClosedInv, CountInv
    <3> QED
      BY <1>4, <2>2, <3>1, <1>g, <1>q, GotoMoves DEF EnqueuePush, TryPushRefuses
  <2> QED
    BY <1>4, <2>1, <2>2 DEF EnqueuePush
<1>5. CASE EnqueueUncount(t)
  BY <1>5, <1>h, <1>g, <1>q DEF EnqueueUncount
<1> QED
  BY <1>1, <1>2, <1>3, <1>4, <1>5 DEF Enqueue

\* A pop takes the key from the queue into the hands of the worker.
LEMMA SettleTake ==
  ASSUME TypeOK, SettleInv, Grows, NEW w \in Workers, pc[w] = "waitPop", WaitTakes(cancel),
         key' = [key EXCEPT ![w] = Head(queue)], Goto(w, "begin"),
         UNCHANGED <<scheduled, cancel, next, buffer, messages>>
  PROVE  SettleInv'
<1>m. w \in Threads /\ w # Main /\ {"waitPop", "begin"} \intersect OfferingPcs = {}
  BY DEF OfferingPcs
<1>1. Moves(w, "begin")
  BY <1>m, GotoMoves
<1>q. queue \in Seq(Keys) /\ queue # <<>> /\ queue' = Tail(queue)
  BY DEF WaitTakes, TypeOK, DataOK, QueueTypeOK
<1>r. queue' \in Seq(Keys)
  BY <1>q
<1>2. \A x \in Members(queue) : x \in Members(queue') \/ x = Head(queue)
  <2>1. /\ Len(queue') = Len(queue) - 1 /\ Len(queue) \in Nat \ {0}
        /\ \A i \in 1..Len(queue') : queue'[i] = queue[i + 1]
        /\ Head(queue) = queue[1]
    BY <1>q
  <2>2. \A x : x \in Members(queue) <=> \E i \in 1..Len(queue) : x = queue[i]
    BY <1>q, MembersOf
  <2>3. \A i \in 1..Len(queue') : queue'[i] \in Members(queue')
    BY <1>r DEF Members
  <2>4. \A i \in 1..Len(queue) : i # 1 => i - 1 \in 1..Len(queue') /\ queue'[i - 1] = queue[i]
    BY <2>1
  <2>5. ASSUME NEW i \in 1..Len(queue), i # 1 PROVE queue[i] \in Members(queue')
    <3>1. i - 1 \in 1..Len(queue') /\ queue'[i - 1] = queue[i]
      BY <2>4, <2>5
    <3>2. queue'[i - 1] \in Members(queue')
      BY <2>3, <3>1
    <3> QED
      BY <3>1, <3>2
  <2> QED
    BY <2>1, <2>2, <2>5
<1>3. key'[w] = Head(queue) /\ \A u \in Threads \ {w} : key'[u] = key[u]
  BY DEF TypeOK, ControlOK
<1>p. "begin" \in TaskPcs /\ "waitPop" \notin TaskPcs
  BY PcSets DEF ConvertPcs
<1>4. InFlight' = InFlight \union {w} /\ w \notin InFlight
  BY <1>1, <1>p, PcSets DEF InFlight, Moves
<1>5. \A u \in Threads : Offering(u) => Offering(u)' /\ Instance(u)' = Instance(u)
  BY <1>1, <1>3 DEF Offering, Moves, Instance, Instances
<1>6. \A k : Placed(k) => Placed(k)'
  BY <1>2, <1>3, <1>4, <1>5 DEF Placed, InFlight
<1>7. NoneLost'
  <2>1. \A k \in Keys : Settled(k) => Settled(k)'
    BY DEF Grows, Settled, Failed
  <2> QED
    BY <1>6, <2>1 DEF SettleInv, NoneLost, TypeOK, DataOK
<1>8. LeavesSettled(w)'
  BY <1>1 DEF LeavesSettled, Moves
<1> QED
  BY <1>1, <1>3, <1>7, <1>8, <1>m, SettleFrame

\* A worker reports m about its key, which is begun.
LEMMA SettleReport ==
  ASSUME TypeOK, SettleInv, Grows, NEW w \in Workers, pc[w] \in TaskPcs, NEW l \in TaskPcs, Moves(w, l),
         NEW m, Report(w, <<key[w], m>>), Begun(key[w]), pc[w] \notin OfferingPcs,
         UNCHANGED <<queue, scheduled, cancel, key, next>>,
         l \notin {"finSub", "caught"}, l = "flush" => m = "workerFailed"
  PROVE  SettleInv'
<1>m. w \in Threads /\ w # Main /\ key[w] \in Keys
  BY DEF TypeOK, ControlOK
<1>b. /\ buffer'[w] = buffer[w] \union {<<key[w], m>>} /\ messages' = messages
      /\ \A u \in Threads \ {w} : buffer'[u] = buffer[u]
  BY DEF Report, TypeOK, DataOK
<1>1. NoneLost'
  BY <1>b, <1>m, NoneLostMove
<1>2. \A k \in Keys : Settled(k) => Settled(k)'
  BY <1>b DEF Grows, Settled, Failed
<1>3. ASSUME NEW u \in Workers PROVE LeavesSettled(u)'
  <2>1. CASE u = w
    BY <2>1, <1>b, <1>m DEF LeavesSettled, Moves
  <2>2. CASE u # w
    <3>1. /\ pc'[u] = pc[u] /\ key'[u] = key[u] /\ buffer'[u] = buffer[u]
          /\ pc[u] \in {"flush", "finSub", "caught"} => key[u] \in Keys
      BY <2>2, <1>b, PcSets DEF Moves, TypeOK, ControlOK, CatchPcs
    <3> QED
      BY <3>1, <1>2 DEF SettleInv, LeavesSettled, Grows
  <2> QED
    BY <2>1, <2>2
<1>4. ASSUME NEW k \in Keys, (Failed(k) \/ Failing(k))' PROVE Begun(k)'
  <2>1. CASE Failed(k) \/ Failing(k)
    BY <2>1 DEF SettleInv, FailedAreBegun, Grows
  <2>2. CASE ~(Failed(k) \/ Failing(k))
    <3>1. <<k, "workerFailed">> = <<key[w], m>>
      BY <1>4, <2>2, <1>b, <1>m DEF Failed, Failing
    <3>2. k = key[w]
      BY <3>1
    <3> QED
      BY <3>2 DEF Grows
  <2> QED
    BY <2>1, <2>2
<1> QED
  BY <1>1, <1>3, <1>4 DEF SettleInv, FailedAreBegun

LEMMA SettleFlush ==
  ASSUME TypeOK, SettleInv, Grows, NEW w \in Workers, Flush(w)
  PROVE  SettleInv'
<1>m. w \in Threads /\ w # Main
  OBVIOUS
<1>0. /\ Moves(w, "finSub") /\ pc[w] = "flush" /\ UNCHANGED <<queue, scheduled, cancel, key, next>>
      /\ {"flush", "finSub"} \subseteq TaskPcs \ OfferingPcs
  BY <1>m, PcSets, GotoMoves DEF Flush, OfferingPcs
<1>k. key[w] \in Keys
  BY <1>0 DEF TypeOK, ControlOK
<1>b. /\ buffer'[w] = {} /\ messages' = messages \union buffer[w]
      /\ \A u \in Threads \ {w} : buffer'[u] = buffer[u]
  BY DEF Flush, TypeOK, DataOK
<1>1. NoneLost'
  BY <1>0, <1>b, <1>m, NoneLostMove
<1>2. \A k \in Keys : Settled(k) => Settled(k)'
  BY <1>b DEF Grows, Settled, Failed
<1>3. ASSUME NEW u \in Workers PROVE LeavesSettled(u)'
  <2>1. CASE u = w
    <3>1. cancel \/ Converted(key[w]) \/ <<key[w], "workerFailed">> \in buffer[w]
      BY <1>0 DEF SettleInv, LeavesSettled
    <3>2. cancel' \/ Settled(key[w])'
      BY <3>1, <1>0, <1>b, <1>k DEF Settled, Failed, Grows
    <3> QED
      BY <2>1, <3>2, <1>0 DEF LeavesSettled, Moves
  <2>2. CASE u # w
    <3>1. /\ pc'[u] = pc[u] /\ key'[u] = key[u] /\ buffer'[u] = buffer[u]
          /\ pc[u] \in {"flush", "finSub", "caught"} => key[u] \in Keys
      BY <2>2, <1>0, <1>b, PcSets DEF Moves, TypeOK, ControlOK, CatchPcs
    <3> QED
      BY <3>1, <1>0, <1>2 DEF SettleInv, LeavesSettled, Grows
  <2> QED
    BY <2>1, <2>2
<1>4. ASSUME NEW k \in Keys, (Failed(k) \/ Failing(k))' PROVE Begun(k)'
  <2>1. Failed(k) \/ Failing(k)
    BY <1>4, <1>b, <1>m DEF Failed, Failing
  <2> QED
    BY <2>1 DEF SettleInv, FailedAreBegun, Grows
<1> QED
  BY <1>1, <1>3, <1>4 DEF SettleInv, FailedAreBegun

LEMMA SettleWorker ==
  ASSUME TypeOK, CountInv, PlacesInv, ClosedInv, StageInv, SettleInv, Grows,
         NEW w \in Workers, WorkerStep(w)
  PROVE  SettleInv'
<1>m. w \in Threads /\ w # Main
  OBVIOUS
<1>p. /\ ConvertPcs \union CatchPcs \union RequestPcs \union {"flush", "finSub"}
           \subseteq TaskPcs \ OfferingPcs
      /\ ({"waitPop", "exit"} \union FinishPcs) \intersect (TaskPcs \union OfferingPcs) = {}
      /\ FallibleStages \union {"create"} \subseteq ConvertPcs
      /\ (ConvertPcs \union FinishPcs \union RequestPcs \union {"again", "waitPop", "exit"})
            \intersect {"flush", "finSub", "caught"} = {}
      /\ "caught" \in CatchPcs
  BY PcSets DEF FinishPcs, OfferingPcs, ConvertPcs, RequestPcs, CatchPcs
<1>k. pc[w] \in TaskPcs => key[w] \in Keys
  BY DEF TypeOK, ControlOK
<1>b. pc[w] \in FallibleStages \union {"create"} => Begun(key[w])
  <2>1. pc[w] \in FallibleStages \union {"create"} =>
           Stage(w) = pc[w] /\ pc[w] \in UncreatedStages \union CreatedStages
    BY DEF Stage, FallibleStages, RequestPcs, EnqueuePcs, UncreatedStages, CreatedStages
  <2> QED
    BY <2>1 DEF StageInv, StagesOK, StageOK, Begun
\* w moves to l and keeps its key.
<1>g. ASSUME NEW l, Moves(w, l), l \notin OfferingPcs, pc[w] \notin OfferingPcs,
             UNCHANGED <<queue, scheduled, key, buffer, messages>>, cancel => cancel',
             \A u \in Threads \ {w} : next'[u] = next[u],
             pc[w] \in TaskPcs => cancel' \/ l \in TaskPcs \/ Settled(key[w]),
             l \notin {"flush", "finSub", "caught"} \/ LeavesSettled(w)'
      PROVE  SettleInv'
  <2>1. NoneLost'
    BY <1>g, <1>m, NoneLostMove
  <2>2. LeavesSettled(w)'
    BY <1>g DEF LeavesSettled, Moves
  <2> QED
    BY <1>g, <2>1, <2>2, <1>m, SettleFrame
<1>n. next \in [Threads -> Nat \ {0}]
  BY DEF TypeOK, ControlOK
<1>1. CASE Enqueue(w)
  BY <1>1, <1>m, SettleEnqueue
<1>2. CASE WaitPop(w)
  <2>1. CASE ~WaitTakes(cancel)
    <3>1. PICK l \in {"waitPop", "exit"} : Moves(w, l)
      BY <1>2, <2>1, <1>m, GotoMoves, StayMoves DEF WaitPop
    <3>2. pc[w] = "waitPop" /\ UNCHANGED <<queue, scheduled, key, buffer, messages, cancel, next>>
      BY <1>2, <2>1 DEF WaitPop, WaitSleeps, WaitStops
    <3> QED
      BY <3>1, <3>2, <1>p, <1>g
  <2>2. CASE WaitTakes(cancel)
    BY <1>2, <2>2, SettleTake DEF WaitPop, WaitSleeps, WaitStops, WaitTakes
  <2> QED
    BY <2>1, <2>2
<1>3. CASE Begin(w) \/ Enter(w) \/ Claim(w) \/ PlanDone(w) \/ LowerDone(w) \/ NameGraph(w)
           \/ Create(w) \/ AssemblyDone(w) \/ Store(w)
  <2>1. PICK l \in ConvertPcs \union {"flush"} : Moves(w, l) /\ (l = "flush" => cancel)
    BY <1>3, <1>m, GotoMoves
       DEF Begin, Enter, Claim, PlanDone, LowerDone, NameGraph, Create, AssemblyDone, Store, ConvertPcs
  <2>2. /\ UNCHANGED <<queue, scheduled, cancel, key, buffer, messages>>
        /\ \A u \in Threads \ {w} : next'[u] = next[u]
    BY <1>3, <1>n
       DEF Begin, Enter, Claim, PlanDone, LowerDone, NameGraph, Create, AssemblyDone, Store
  <2>3. pc[w] \in ConvertPcs
    BY <1>3 DEF Begin, Enter, Claim, PlanDone, LowerDone, NameGraph, Create, AssemblyDone, Store, ConvertPcs
  <2>4. l = "flush" => LeavesSettled(w)'
    BY <2>1, <2>2 DEF LeavesSettled, Moves
  <2> QED
    BY <2>1, <2>2, <2>3, <2>4, <1>p, <1>g
<1>4. CASE NameInstance(w)
  <2>1. Moves(w, "refs") /\ pc[w] = "refs" /\ UNCHANGED <<queue, scheduled, cancel, key, buffer, messages>>
    BY <1>4, <1>m, StayMoves DEF NameInstance
  <2>2. \A u \in Threads \ {w} : next'[u] = next[u]
    BY <1>4, <1>n DEF NameInstance
  <2> QED
    BY <2>1, <2>2, <1>p, <1>g DEF ConvertPcs
<1>5. CASE MarkReady(w)
  <2>1. /\ Moves(w, "flush") /\ pc[w] = "ready"
        /\ UNCHANGED <<queue, scheduled, cancel, key, buffer, messages, next>>
    BY <1>5, <1>m, GotoMoves DEF MarkReady
  <2>2. Stage(w) = "ready" /\ "ready" \in ConvertPcs
    BY <2>1 DEF Stage, RequestPcs, EnqueuePcs, ConvertPcs
  <2>3. cancel \/ Converted(key[w])
    BY <2>2, <1>k, <1>p DEF StageInv, StagesOK, StageOK, StatusKnown, Stage
  <2>4. LeavesSettled(w)'
    <3>1. key[w] \in Keys
      BY <2>1, <2>2, <1>k, <1>p
    <3> QED
      BY <2>1, <2>3, <3>1 DEF LeavesSettled, Moves, Grows
  <2> QED
    BY <2>1, <2>2, <2>4, <1>p, <1>g
<1>6. CASE Flush(w)
  BY <1>6, SettleFlush
<1>7. CASE FinSub(w) \/ FinStore(w) \/ FinClose(w) \/ FinNotify(w)
  <2>1. PICK l \in {"finStore", "finClose", "finNotify", "waitPop"} : Moves(w, l)
    BY <1>7, <1>m, GotoMoves, NotifyMoves DEF FinSub, FinStore, FinClose, FinNotify
  <2>2. UNCHANGED <<queue, scheduled, cancel, key, buffer, messages, next>>
    BY <1>7 DEF FinSub, FinStore, FinClose, FinNotify, Close
  <2>3. pc[w] \in {"finSub"} \union FinishPcs
    BY <1>7 DEF FinSub, FinStore, FinClose, FinNotify, FinishPcs
  <2>4. pc[w] \in TaskPcs => cancel \/ Settled(key[w])
    BY <2>3, <1>p DEF SettleInv, LeavesSettled
  <2>5. l \notin OfferingPcs /\ pc[w] \notin OfferingPcs /\ l \notin {"flush", "finSub", "caught"}
    BY <2>3, <1>p DEF FinishPcs, OfferingPcs
  <2> QED
    BY <2>1, <2>2, <2>4, <2>5, <1>g
<1>8. CASE Throw(w)
  <2>1. /\ Moves(w, "caught") /\ UNCHANGED <<queue, scheduled, cancel, key, buffer, messages, next>>
        /\ pc[w] \in FallibleStages \union {"create"}
    BY <1>8, <1>m, GotoMoves DEF Throw
  <2>2. key[w] \in Keys /\ Begun(key[w])
    BY <2>1, <1>b, <1>k, <1>p
  <2>3. LeavesSettled(w)'
    BY <2>1, <2>2 DEF LeavesSettled, Moves, Grows
  <2> QED
    BY <2>1, <2>3, <1>p, <1>g
<1>9. CASE ReportError(w)
  <2>1. PICK l \in {"reqCas", pc[w]} : Moves(w, l)
    BY <1>9, <1>m, GotoMoves, StayMoves DEF ReportError
  <2>2. /\ pc[w] \in FallibleStages /\ UNCHANGED <<queue, scheduled, cancel, key, next>>
        /\ Report(w, <<key[w], "error">>)
    BY <1>9 DEF ReportError
  <2>3. l \in TaskPcs /\ l \notin {"flush", "finSub", "caught"} /\ pc[w] \in TaskPcs \ OfferingPcs
    BY <2>2, <1>p DEF RequestPcs
  <2> QED
    BY <2>1, <2>2, <2>3, <1>b, SettleReport
<1>10. CASE Catch(w)
  <2>1. PICK l \in {"reqCas", "flush"} : Moves(w, l)
    BY <1>10, <1>m, GotoMoves DEF Catch
  <2>2. /\ pc[w] = "caught" /\ UNCHANGED <<queue, scheduled, cancel, key, next>>
        /\ Report(w, <<key[w], "workerFailed">>)
    BY <1>10 DEF Catch
  <2>3. l \in TaskPcs /\ l \notin {"finSub", "caught"} /\ pc[w] \in TaskPcs \ OfferingPcs
    BY <2>2, <1>p DEF RequestPcs
  <2>4. Begun(key[w])
    BY <2>2 DEF SettleInv, LeavesSettled
  <2> QED
    BY <2>1, <2>2, <2>3, <2>4, SettleReport
<1>11. CASE RequestAgain(w)
  <2>1. /\ Moves(w, "reqCas") /\ pc[w] = "again" /\ "again" \in CatchPcs /\ "reqCas" \in RequestPcs
        /\ UNCHANGED <<queue, scheduled, cancel, key, buffer, messages, next>>
    BY <1>11, <1>m, GotoMoves DEF RequestAgain, CatchPcs, RequestPcs
  <2> QED
    BY <2>1, <1>p, <1>g
<1>12. CASE RequestCas(w) \/ RequestDrain(w) \/ RequestSub(w) \/ RequestClose(w) \/ RequestNotify(w)
  <2>1. PICK l \in CancelledPcs \union {ret[w]} : Moves(w, l)
    BY <1>12, <1>m, GotoMoves, NotifyMoves
       DEF RequestCas, RequestDrain, RequestSub, RequestClose, RequestNotify, CancelledPcs
  <2>2. cancel'
    BY <1>12 DEF ClosedInv, RequestCas, RequestDrain, RequestSub, RequestClose, RequestNotify, CancelledPcs
  <2>3. UNCHANGED <<key, buffer, messages>>
    BY <1>12 DEF RequestCas, RequestDrain, RequestSub, RequestClose, RequestNotify
  <2>4. NoneLost' /\ l # "caught"
    BY <2>2, <1>m DEF NoneLost, CancelledPcs, TypeOK, ControlOK, FallibleStages
  <2>5. LeavesSettled(w)'
    BY <2>1, <2>2, <2>4 DEF LeavesSettled, Moves
  <2> QED
    BY <2>1, <2>2, <2>3, <2>4, <2>5, <1>m, SettleFrame
<1> QED
  BY <1>1, <1>2, <1>3, <1>4, <1>5, <1>6, <1>7, <1>8, <1>9, <1>10, <1>11, <1>12
     DEF WorkerStep, Convert, Finish, Request

LEMMA SettleEnding ==
  ASSUME TypeOK, DiagInv, SettleInv, Grows, Ending
  PROVE  SettleInv'
<1>1. PICK l \in EndPcs : Moves(Main, l)
  BY EndingSteps, GotoMoves
<1>2. \A u \in Threads \ {Main} : next'[u] = next[u]
  BY EndingSteps DEF TypeOK, ControlOK
<1>3. pc[Main] \notin OfferingPcs
  BY EndingSteps DEF OfferingPcs
<1>4. NoneLost'
  BY <1>1, <1>2, <1>3, EndingSteps, NoneLostMove
<1>5. \A w \in Workers : LeavesSettled(w)'
  BY EndingSays DEF LeavesSettled
<1>6. FailedAreBegun'
  <2> SUFFICES ASSUME NEW k \in Keys, Failed(k)' \/ Failing(k)' PROVE Begun(k)'
    BY DEF FailedAreBegun
  <2>1. <<k, "workerFailed">> \in Errors
    BY DEF Errors
  <2>2. Failed(k)
    BY <2>1, EndingSays DEF Failed, Failing
  <2> QED
    BY <2>2 DEF SettleInv, FailedAreBegun, Grows
<1> QED
  BY <1>4, <1>5, <1>6 DEF SettleInv

LEMMA SettleMain ==
  ASSUME TypeOK, CountInv, PlacesInv, DiagInv, ClosedInv, SettleInv, Grows, MainStep \/ WakeUpMain
  PROVE  SettleInv'
<1>q. {"collect", "launch", "closing", "parking", "parked", "join", "await"}
         \intersect (OfferingPcs \union TaskPcs) = {}
  BY PcSets DEF OfferingPcs
<1>1. CASE Enqueue(Main)
  BY <1>1, SettleEnqueue
<1>2. CASE CollectDone \/ AwaitDone \/ Park \/ CloseQueue \/ WakeUpMain
  <2>1. PICK l \in {"launch", "closing", "parking", "parked", "join", "await"} : Moves(Main, l)
    BY <1>2, GotoMoves DEF CollectDone, AwaitDone, Park, CloseQueue, WakeUpMain
  <2>2. /\ UNCHANGED <<queue, scheduled, cancel, key, next, buffer, messages>>
        /\ pc[Main] \in {"collect", "closing", "parking", "parked", "join", "await"}
    BY <1>2 DEF CollectDone, AwaitDone, Park, CloseQueue, WakeUpMain, Close
  <2>3. NoneLost'
    BY <2>1, <2>2, <1>q, NoneLostMove
  <2> QED
    BY <2>1, <2>2, <2>3, SettleFrame
<1>4. CASE Ending
  BY <1>4, SettleEnding
<1>3. CASE Launch
  <2>1. /\ pc' = [t \in Threads |-> IF t = Main THEN "await" ELSE "waitPop"]
        /\ UNCHANGED <<queue, scheduled, cancel, key, next, buffer, messages>> /\ pc[Main] = "launch"
    BY <1>3 DEF Launch
  <2>2. \A w \in Workers : pc[w] = "unborn"
    BY <2>1 DEF CountInv, WorkersWaitForLaunch, StartPcs
  <2>3. InFlight = {} /\ \A t \in Threads : ~Offering(t)
    BY <2>1, <2>2, PcSets DEF InFlight, Offering
  <2>4. \A k : Placed(k) => Placed(k)'
    BY <2>1, <2>3 DEF Placed, Members
  <2>5. \A k \in Keys : Settled(k) => Settled(k)'
    BY <2>1 DEF Grows, Settled, Failed
  <2>6. NoneLost'
    BY <2>1, <2>4, <2>5 DEF SettleInv, NoneLost, TypeOK, DataOK
  <2>7. \A w \in Workers : LeavesSettled(w)'
    BY <2>1 DEF LeavesSettled
  <2>8. FailedAreBegun'
    BY <2>1 DEF SettleInv, FailedAreBegun, Failed, Failing, Grows
  <2> QED
    BY <2>6, <2>7, <2>8 DEF SettleInv
<1> QED
  BY <1>1, <1>2, <1>3, <1>4 DEF MainStep, Ending

LEMMA SettleInit == Init => SettleInv
<1> SUFFICES ASSUME Init PROVE SettleInv
  OBVIOUS
<1>1. /\ pc = [t \in Threads |-> IF t = Main THEN "collect" ELSE "unborn"]
      /\ buffer = [t \in Threads |-> {}] /\ messages = {} /\ scheduled = {}
  BY DEF Init
<1> QED
  BY <1>1 DEF SettleInv, NoneLost, LeavesSettled, FailedAreBegun, Failed, Failing

LEMMA SettleStep ==
  /\ TypeOK /\ CountInv /\ PlacesInv /\ DiagInv /\ ClosedInv /\ StageInv /\ StageInv' /\ SettleInv
  /\ [Next]_vars
  => SettleInv'
<1> SUFFICES ASSUME TypeOK, CountInv, PlacesInv, DiagInv, ClosedInv, StageInv, StageInv', SettleInv,
                    [Next]_vars
             PROVE  SettleInv'
  OBVIOUS
<1>0. Grows
  BY StatusGrows
<1>1. CASE MainStep \/ WakeUpMain
  BY <1>0, <1>1, SettleMain
<1>2. ASSUME NEW w \in Workers, WorkerStep(w) PROVE SettleInv'
  BY <1>0, <1>2, SettleWorker
<1>3. CASE UNCHANGED <<queue, cancel, scheduled, key, next, pc, buffer, messages>>
  <2>1. Moves(Main, pc[Main])
    BY <1>3, StayMoves
  <2>2. NoneLost'
    BY <1>0, <1>3, <2>1, NoneLostMove
  <2> QED
    BY <1>0, <1>3, <2>1, <2>2, SettleFrame
<1>4. ASSUME NEW w \in Workers, WakeUp(w) PROVE SettleInv'
  BY <1>3, <1>4 DEF WakeUp, SpuriousWake
<1> QED
  BY <1>1, <1>2, <1>3, <1>4 DEF Next, vars

-----------------------------------------------------------------------------
(* The top graphs.  A top that has been finalized is named, and marked or     *)
(* warned about; the tops after it may move an alias, but only to a graph     *)
(* that is marked.                                                            *)

Handled(k) == graphName[k] # Unnamed /\ TopHandled(k)
TopsInv ==
  pc[Main] \in EndPcs /\ outcome # "abort" =>
    /\ \A i \in 1..Len(Tops) : i < next[Main] => Handled(Tops[i])
    /\ outcome = "design" => next[Main] > Len(Tops)

\* What finalizing k leaves of the aliases: a name stands for what it stood for,
\* or for the graph of k, which is marked.
LEMMA FinalizeMarks ==
  ASSUME TypeOK, NEW k \in Keys, Finalize(k)
  PROVE  /\ tops \subseteq tops' /\ UNCHANGED design
         /\ \A n \in Names : aliases'[n] = aliases[n] \/ aliases'[n] \in tops'
         /\ LET graph == FindGraph(graphName'[k])
            IN  IF graph = Unnamed THEN <<k, "missingTop">> \in buffer'[Main]
                ELSE graph \in tops' /\ aliases'[graphName'[k]] \in {graph, aliases[graphName'[k]]}
         /\ graphName'[k] \in Names /\ buffer[Main] \subseteq buffer'[Main]
<1>1. UNCHANGED design /\ graphName'[k] \in Names
  BY ResolvedName DEF Finalize, ResolveGraphName, TypeOK, DataOK
<1>2. buffer \in [Threads -> SUBSET Messages]
  BY DEF TypeOK, DataOK
<1> DEFINE graph == FindGraph(graphName'[k])
<1>3. CASE graph = Unnamed
  <2>1. Warn({<<k, "missingTop">>}) /\ UNCHANGED <<tops, aliases>>
    BY <1>3 DEF Finalize
  <2> QED
    BY <1>1, <1>2, <1>3, <2>1 DEF Warn
<1>4. CASE graph # Unnamed
  <2> HIDE DEF graph
  <2>1. tops' = tops \union {graph} /\ RegisterAliases(k, graph)
    BY <1>4 DEF Finalize, graph
  <2> DEFINE free == {n \in TopAliases[k] : FindGraph(n) \in {Unnamed, graph}}
  <2>2. /\ aliases' = [n \in Names |-> IF n \in free THEN graph ELSE aliases[n]]
        /\ \E new : Warn(new)
    BY <2>1 DEF RegisterAliases
  <2> HIDE DEF free
  <2>3. buffer[Main] \subseteq buffer'[Main]
    BY <1>2, <2>2 DEF Warn
  <2>4. \A n \in Names : aliases'[n] \in {graph, aliases[n]}
    BY <2>2
  <2> QED
    BY <1>1, <1>4, <2>1, <2>3, <2>4 DEF graph
<1> QED
  BY <1>3, <1>4

LEMMA FinalizeHandles ==
  ASSUME TypeOK, NamesDiffer, NEW top \in Keys, Finalize(top), messages' = messages
  PROVE  /\ Handled(top)'
         /\ \A k \in Keys : Handled(k) => Handled(k)'
<1>0. ResolveGraphName(top) /\ NamingTypeOK
  BY DEF Finalize, TypeOK, DataOK
<1>u. Unnamed \notin Names
  BY NamesAssumption DEF NamesAssumption
<1>1. /\ tops \subseteq tops' /\ UNCHANGED design
      /\ \A n \in Names : aliases'[n] = aliases[n] \/ aliases'[n] \in tops'
      /\ graphName'[top] \in Names /\ buffer[Main] \subseteq buffer'[Main]
  BY FinalizeMarks
<1>2. Handled(top)'
  <2> DEFINE graph == FindGraph(graphName'[top])
  <2>1. IF graph = Unnamed THEN <<top, "missingTop">> \in buffer'[Main]
        ELSE graph \in tops' /\ aliases'[graphName'[top]] \in {graph, aliases[graphName'[top]]}
    BY FinalizeMarks
  <2>2. CASE graphName'[top] \in design
    <3>1. graph = graphName'[top] /\ graph # Unnamed
      BY <1>1, <1>u, <2>2 DEF FindGraph
    <3>2. graphName'[top] \in tops' /\ graphName'[top] \in design' /\ graphName'[top] # Unnamed
      BY <1>1, <1>u, <2>1, <2>2, <3>1
    <3> QED
      BY <3>2 DEF Handled, TopHandled
  <2>3. CASE graphName'[top] \notin design
    <3>1. graph = aliases[graphName'[top]]
      BY <2>3 DEF FindGraph
    <3>2. CASE graph = Unnamed
      BY <1>1, <1>u, <2>1, <2>3, <3>2 DEF Handled, TopHandled
    <3>3. CASE graph # Unnamed
      <4>1. /\ aliases'[graphName'[top]] \in tops' /\ graphName'[top] \notin design'
            /\ graphName'[top] # Unnamed
        BY <1>1, <1>u, <2>1, <2>3, <3>1, <3>3
      <4> QED
        BY <4>1 DEF Handled, TopHandled
    <3> QED
      BY <3>2, <3>3
  <2> QED
    BY <2>2, <2>3
<1>3. ASSUME NEW k \in Keys, Handled(k) PROVE Handled(k)'
  <2>1. graphName'[k] = graphName[k] /\ graphName[k] \in Names
    BY <1>0, <1>3, ResolveKeeps DEF Handled, NamingTypeOK
  <2>2. CASE graphName[k] \in design
    BY <1>1, <1>3, <2>1, <2>2 DEF Handled, TopHandled
  <2>3. CASE graphName[k] \notin design
    BY <1>0, <1>1, <1>3, <2>1, <2>3 DEF Handled, TopHandled
  <2> QED
    BY <2>2, <2>3
<1> QED
  BY <1>2, <1>3

LEMMA TopsEnding ==
  ASSUME TypeOK, DiagInv, NamesDiffer, TopsInv, Ending
  PROVE  TopsInv'
<1>p. pc \in [Threads -> WorkerPcs \union MainPcs] /\ next \in [Threads -> Nat \ {0}]
  BY DEF TypeOK, ControlOK
<1>1. CASE Join
  <2>1. outcome = "none"
    BY <1>1, NotOver DEF Join, EndPcs
  <2> QED
    BY <1>1, <1>p, <2>1 DEF Join, TopsInv
<1>2. CASE FinalizeTop
  <2>1. /\ pc[Main] = "finalize" /\ UNCHANGED <<pc, outcome>>
        /\ next'[Main] = next[Main] + 1
    BY <1>2, <1>p DEF FinalizeTop
  <2>2. outcome = "none"
    BY <2>1 DEF DiagInv, ReturnIsLast
  <2>3. \A i \in 1..Len(Tops) : Tops[i] \in Keys /\ (i < next[Main] => Handled(Tops[i]))
    BY <2>1, <2>2 DEF TopsInv, EndPcs
  <2>4. PICK top \in Keys : top = Instance(Main) /\ top = Tops[next[Main]]
    BY <1>2, FinalizedIsKey
  <2>5. Handled(top)' /\ \A k \in Keys : Handled(k) => Handled(k)'
    <3>1. CASE \E i \in 1..(next[Main] - 1) : Tops[i] = top
      <4>1. UNCHANGED <<namingVars, buffer, messages, tops, aliases>>
        BY <1>2, <2>4, <3>1 DEF FinalizeTop
      <4>2. \A k : Handled(k) => Handled(k)'
        BY <4>1 DEF Handled, TopHandled
      <4>3. PICK i \in 1..(next[Main] - 1) : Tops[i] = top
        BY <3>1
      <4>4. i \in 1..Len(Tops) /\ i < next[Main]
        BY <1>2, <1>p DEF FinalizeTop
      <4> QED
        BY <2>3, <4>2, <4>3, <4>4
    <3>2. CASE Finalize(top)
      BY <1>2, <3>2, FinalizeHandles DEF FinalizeTop
    <3> QED
      BY <1>2, <2>4, <3>1, <3>2 DEF FinalizeTop
  <2>6. ASSUME NEW i \in 1..Len(Tops), i < next'[Main] PROVE Handled(Tops[i])'
    <3>1. CASE i < next[Main]
      BY <2>3, <2>5, <3>1
    <3>2. CASE i = next[Main]
      BY <2>4, <2>5, <3>2
    <3> QED
      BY <1>p, <2>1, <2>6, <3>1, <3>2
  <2> QED
    BY <2>1, <2>2, <2>6 DEF TopsInv
<1>3. CASE ReturnDesign
  <2>1. outcome = "none"
    BY <1>3 DEF ReturnDesign, DiagInv, ReturnIsLast
  <2>2. \A k : Handled(k) => Handled(k)'
    BY <1>3 DEF ReturnDesign, Handled, TopHandled
  <2> QED
    BY <1>3, <2>1, <2>2 DEF ReturnDesign, TopsInv, EndPcs
<1>4. CASE CallerFlush
  <2>1. buffer'[Main] \union messages' = buffer[Main] \union messages
    BY <1>4 DEF CallerFlush, TypeOK, DataOK
  <2>2. \A k : Handled(k) => Handled(k)'
    BY <1>4, <2>1 DEF CallerFlush, Handled, TopHandled
  <2> QED
    BY <1>4, <2>2 DEF CallerFlush, TopsInv, EndPcs
<1> QED
  BY <1>1, <1>2, <1>3, <1>4 DEF Ending

\* A worker that has left its loop takes no step, and no worker moves the main
\* thread on, but for waking it.
LEMMA WorkerMoves ==
  ASSUME TypeOK, NEW w \in Workers, WorkerStep(w)
  PROVE  pc[w] # "exit" /\ pc'[Main] \in {pc[Main], "await"}
<1>m. w # Main /\ pc \in [Threads -> WorkerPcs \union MainPcs]
  BY DEF TypeOK, ControlOK
<1>1. CASE Enqueue(w)
  BY <1>1, <1>m
     DEF Enqueue, EnqueueCancelled, EnqueueCheck, EnqueueSchedule, EnqueueCount, EnqueuePush,
         EnqueueUncount, Collecting, CollectPc, CollectNext, Goto
<1>2. CASE Convert(w)
  BY <1>2, <1>m
     DEF Convert, WaitPop, Begin, Enter, Claim, PlanDone, LowerDone, NameGraph, Create,
         NameInstance, AssemblyDone, Store, MarkReady, Flush, Goto
<1>3. CASE Finish(w) \/ ReportError(w) \/ Throw(w)
  BY <1>3, <1>m
     DEF Finish, FinSub, FinStore, FinClose, FinNotify, NotifyDone, ReportError, Throw,
         FallibleStages, Goto
<1>4. CASE Request(w)
  BY <1>4, <1>m
     DEF Request, Catch, RequestAgain, RequestCas, RequestDrain, RequestSub, RequestClose,
         RequestNotify, NotifyDone, Goto
<1> QED
  BY <1>1, <1>2, <1>3, <1>4 DEF WorkerStep

LEMMA TopsInit == Init => TopsInv
BY DEF Init, TopsInv, EndPcs

LEMMA TopsStep == TypeOK /\ DiagInv /\ StageInv /\ TopsInv /\ [Next]_vars => TopsInv'
<1> SUFFICES ASSUME TypeOK, DiagInv, StageInv, TopsInv, [Next]_vars PROVE TopsInv'
  OBVIOUS
<1>1. CASE Ending
  BY <1>1, TopsEnding DEF StageInv
\* The other steps of the main thread and those of the workers come before.
<1>2. CASE (MainStep /\ ~Ending) \/ WakeUpMain
  <2>1. PICK l \in EnqueuePcs \union {"collect", "launch", "await", "parking", "parked", "closing", "join"} :
           pc'[Main] = l
    BY <1>2
       DEF MainStep, Ending, WakeUpMain, CollectDone, Launch, AwaitDone, Park, CloseQueue, Goto,
           Enqueue, EnqueueCancelled, EnqueueCheck, EnqueueSchedule, EnqueueCount, EnqueuePush,
           EnqueueUncount, CollectNext, CollectPc, EnqueuePcs, TypeOK, ControlOK
  <2> QED
    BY <2>1 DEF TopsInv, EndPcs, EnqueuePcs
<1>3. ASSUME NEW w \in Workers, WorkerStep(w) PROVE TopsInv'
  <2>1. pc[Main] \notin EndPcs
    BY <1>3, WorkerMoves DEF DiagInv, ReturnIsLast
  <2> QED
    BY <1>3, <2>1, WorkerMoves DEF TopsInv, EndPcs
<1>4. CASE UNCHANGED <<pc, next, outcome, namingVars, tops, aliases, buffer, messages>>
  BY <1>4 DEF TopsInv, Handled, TopHandled
<1>5. ASSUME NEW w \in Workers, WakeUp(w) PROVE TopsInv'
  BY <1>4, <1>5 DEF WakeUp, SpuriousWake
<1> QED
  BY <1>1, <1>2, <1>3, <1>4, <1>5 DEF Next, vars

-----------------------------------------------------------------------------
(* Everything that is known of a conversion, in one invariant. *)

ConvertInv == /\ TypeOK /\ CountInv /\ PlacesInv /\ DiagInv /\ StageInv /\ ClosedInv
              /\ FoundInv /\ SettleInv /\ TopsInv

LEMMA ConvertInvStep == ConvertInv /\ [Next]_vars => ConvertInv'
BY TypeStep, CountStep, PlacesStep, DiagStep, StageStep, ClosedStep, FoundStep, SettleStep, TopsStep
   DEF ConvertInv

LEMMA ConvertInvInit == Init => ConvertInv
BY TypeInit, CountInit, PlacesInit, DiagInit, StageInit, ClosedInit, FoundInit, SettleInit, TopsInit
   DEF ConvertInv

LEMMA ConvertInvCorrect == Spec => []ConvertInv
BY ConvertInvInit, ConvertInvStep, PTL DEF Spec

\* What is left when every worker has gone and nothing was aborted: all that was
\* found is converted or reported.
LEMMA AllSettled ==
  ASSUME ConvertInv, pc[Main] \in PastPcs, ~cancel
  PROVE  /\ \A k \in scheduled : Settled(k)
         /\ Members(Tops) \subseteq scheduled
         /\ \A k \in Keys : Converted(k) => Members(Children[k]) \subseteq scheduled
<1>1. queue = <<>> /\ InFlight = {} /\ Counted = {}
  BY ZeroMeansQuiet DEF ConvertInv, CountInv, MainPassedAtZero
<1>2. \A t \in Threads : ~Offering(t)
  <2>1. ASSUME NEW t \in Threads, pc[t] = "count" PROVE FALSE
    <3>1. t # Main
      BY <2>1 DEF PastPcs, EndPcs
    <3>2. t \in InFlight
      BY <2>1, <3>1, PcSets DEF InFlight, EnqueuePcs
    <3> QED
      BY <3>2, <1>1
  <2>2. ASSUME NEW t \in Threads, pc[t] = "push" PROVE FALSE
    BY <2>2, <1>1 DEF Counted
  <2> QED
    BY <2>1, <2>2 DEF Offering
<1>3. Members(queue) = {}
  BY <1>1 DEF Members
<1>4. \A k : ~Placed(k)
  BY <1>1, <1>2, <1>3 DEF Placed
<1>5. \A k \in scheduled : Settled(k)
  BY <1>4 DEF ConvertInv, SettleInv, NoneLost
<1>6. pc[Main] \notin CollectPcs
  BY DEF PastPcs, EndPcs, CollectPcs, EnqueuePcs
<1> QED
  BY <1>5, <1>6 DEF ConvertInv, FoundInv, FoundByMain, Converted

\* A design that convert returns misses no module, whatever the hierarchy, the
\* number of workers and the errors: each top module and each instance of what it
\* holds is in it, or its failure is among the messages, and each top graph that
\* the design holds is marked.
THEOREM DesignsAreComplete == Spec => []DesignComplete
<1>1. ConvertInv /\ outcome = "design" => pc[Main] \in PastPcs /\ pc[Main] \in EndPcs /\ ~cancel
  BY DEF ConvertInv, DiagInv, ReturnIsLast, PastPcs, EndPcs
<1>2. ASSUME ConvertInv, outcome = "design",
             NEW k \in Members(Tops)
                   \union UNION {Members(Children[j]) : j \in {i \in Keys : Converted(i)}}
      PROVE  Settled(k)
  <2>1. k \in scheduled
    <3>1. CASE k \in Members(Tops)
      BY <1>1, <1>2, <3>1, AllSettled
    <3>2. ASSUME NEW j \in Keys, Converted(j), k \in Members(Children[j]) PROVE k \in scheduled
      BY <1>1, <1>2, <3>2, AllSettled
    <3> QED
      BY <1>2, <3>1, <3>2
  <2> QED
    BY <1>1, <1>2, <2>1, AllSettled
<1>3. ASSUME ConvertInv, outcome = "design", NEW k \in Members(Tops)
      PROVE  graphName[k] # Unnamed /\ TopHandled(k)
  <2>1. PICK i \in 1..Len(Tops) : k = Tops[i]
    BY <1>3 DEF Members
  <2>2. i < next[Main]
    BY <1>1, <1>3 DEF ConvertInv, TopsInv, TypeOK, ControlOK
  <2> QED
    BY <1>1, <1>3, <2>1, <2>2 DEF ConvertInv, TopsInv, Handled
<1>4. ConvertInv => DesignComplete
  BY <1>2, <1>3 DEF DesignComplete, Settled, Failed
<1> QED
  BY <1>4, ConvertInvCorrect, PTL

-----------------------------------------------------------------------------
(* The threads together implement ConvertRun.  Of all their steps only six    *)
(* show: the registration of a new key, the claim, the store of the plan, the *)
(* two reports of an error, and the return.                                   *)

\* The variables of the run see nothing of a step that leaves these alone.
LEMMA RunStutters ==
  UNCHANGED <<status, scheduled, hasError, outcome>> => UNCHANGED Run!runVars
BY DEF Run!runVars

LEMMA RunFinds ==
  ASSUME ConvertInv, NEW t \in Threads, EnqueueSchedule(t), Instance(t) \notin scheduled
  PROVE  Run!Find(Instance(t))
<1>1. /\ scheduled' = scheduled \union {Instance(t)} /\ pc[t] = "schedule"
      /\ UNCHANGED <<status, hasError, outcome>>
  BY DEF EnqueueSchedule
<1>2. "schedule" \in EnqueuePcs /\ "schedule" \in TaskPcs /\ EnqueuePcs \intersect RequestPcs = {}
  BY DEF EnqueuePcs, TaskPcs, RequestPcs
<1>3. t # Main => key[t] \in Keys
  BY <1>1, <1>2 DEF ConvertInv, TypeOK, ControlOK
<1>4. Instances(t) \in Seq(Keys) /\ next[t] \in 1..Len(Instances(t))
  BY <1>1, <1>2, <1>3 DEF ConvertInv, TypeOK, ControlOK, Instances
<1>5. Instance(t) \in Run!Members(Instances(t))
  BY <1>4 DEF Run!Members, Instance
<1>6. outcome = "none"
  BY <1>1, <1>3 DEF ConvertInv, DiagInv, ReturnIsLast, EndPcs, TypeOK, DataOK
<1>7. t # Main => status[key[t]] = "Planning"
  <2> SUFFICES ASSUME t # Main PROVE status[key[t]] = "Planning"
    OBVIOUS
  <2>1. Stage(t) = "plan" /\ "plan" \in UncreatedStages
    BY <1>1, <1>2 DEF Stage, UncreatedStages
  <2> QED
    BY <2>1 DEF ConvertInv, StageInv, StagesOK, StageOK
<1>8. \/ Instance(t) \in Run!Members(Tops)
      \/ \E p \in {k \in Keys : status[k] # "Absent"} \ {k \in Keys : status[k] = "Done"} :
            Instance(t) \in Run!Members(Children[p])
  <2>1. CASE t = Main
    BY <2>1, <1>5 DEF Instances
  <2>2. CASE t # Main
    BY <2>2, <1>3, <1>5, <1>7 DEF Instances
  <2> QED
    BY <2>1, <2>2
<1> QED
  BY <1>1, <1>6, <1>8 DEF Run!Find

LEMMA RunStarts ==
  ASSUME ConvertInv, NEW w \in Workers, Claim(w), TryClaim(key[w]), NEW k, k = key[w]
  PROVE  Run!StartKey(k)
<1>1. /\ pc[w] = "claim" /\ UNCHANGED <<scheduled, hasError, outcome>>
      /\ status' = [status EXCEPT ![key[w]] = "Planning"]
  BY DEF Claim, TryClaim
<1>2. "claim" \in TaskPcs /\ "claim" \in UnclaimedPcs
  BY DEF TaskPcs, ConvertPcs, UnclaimedPcs
<1>3. w \in InFlight /\ key[w] \in Keys /\ status[key[w]] = "Absent" /\ key[w] \in scheduled
  BY <1>1, <1>2
     DEF ConvertInv, TypeOK, ControlOK, InFlight, StageInv, WaitingUnbegun, Begun, PlacesInv, PlacesScheduled
<1>4. outcome = "none"
  BY <1>1 DEF ConvertInv, DiagInv, ReturnIsLast, EndPcs, TypeOK, DataOK
<1>5. status \in [Keys -> Statuses]
  BY DEF ConvertInv, TypeOK, DataOK, CacheTypeOK
<1>6. {j \in Keys : status'[j] # "Absent"} = {j \in Keys : status[j] # "Absent"} \union {key[w]}
  BY <1>1, <1>3, <1>5
<1>7. {j \in Keys : status'[j] = "Done"} = {j \in Keys : status[j] = "Done"}
  BY <1>1, <1>3, <1>5
<1> QED
  BY <1>1, <1>3, <1>4, <1>6, <1>7 DEF Run!StartKey

LEMMA RunBuilds ==
  ASSUME ConvertInv, NEW w \in Workers, pc[w] = "store", StorePlan(key[w]),
         UNCHANGED <<scheduled, hasError, outcome>>, NEW k, k = key[w]
  PROVE  Run!Build(k)
<1>1. status' = [status EXCEPT ![key[w]] = "Done"]
  BY DEF StorePlan
<1>2. /\ "store" \in TaskPcs /\ "store" \in CreatedStages /\ "store" \in AfterPlan
      /\ Stage(w) = "store"
  BY DEF TaskPcs, ConvertPcs, CreatedStages, AfterPlan, Stage, RequestPcs, EnqueuePcs
<1>3. key[w] \in Keys /\ status[key[w]] = "Planning"
  BY <1>2 DEF ConvertInv, TypeOK, ControlOK, StageInv, StagesOK, StageOK
<1>4. Members(Children[key[w]]) \subseteq scheduled
  BY <1>2 DEF ConvertInv, FoundInv, FoundBy
<1>5. outcome = "none"
  BY DEF ConvertInv, DiagInv, ReturnIsLast, EndPcs, TypeOK, DataOK
<1>6. status \in [Keys -> Statuses]
  BY DEF ConvertInv, TypeOK, DataOK, CacheTypeOK
<1>7. {j \in Keys : status'[j] # "Absent"} = {j \in Keys : status[j] # "Absent"}
  BY <1>1, <1>3, <1>6
<1>8. {j \in Keys : status'[j] = "Done"} = {j \in Keys : status[j] = "Done"} \union {key[w]}
  BY <1>1, <1>3, <1>6
<1> QED
  BY <1>3, <1>4, <1>5, <1>7, <1>8 DEF Run!Build, Run!Members, Members

LEMMA RunFails ==
  ASSUME ConvertInv, NEW w \in Workers, ReportError(w) \/ Catch(w)
  PROVE  Run!Fail
<1>1. hasError' = TRUE /\ UNCHANGED <<status, scheduled, outcome>> /\ pc[w] # "exit"
  BY DEF ReportError, Catch, Report, FallibleStages
<1>2. outcome = "none"
  BY <1>1 DEF ConvertInv, DiagInv, ReturnIsLast, EndPcs, TypeOK, DataOK
<1> QED
  BY <1>1, <1>2 DEF Run!Fail

\* The end: an abort where the caller is to get one, else the return of a design,
\* which is complete.
LEMMA RunEnds ==
  ASSUME ConvertInv, Ending
  PROVE  Run!Abort \/ Run!Deliver \/ UNCHANGED Run!runVars
<1>1. UNCHANGED <<status, scheduled, hasError>>
  BY EndingSteps DEF ConvertInv
<1>2. cancel <=> hasError /\ AbortOnError
  <2>1. \A w \in Workers : pc[w] = "exit"
    BY EndingSays DEF ConvertInv
  <2> QED
    BY <2>1 DEF ConvertInv, DiagInv, AbortHasReason, AbortIsAsked
<1>3. CASE Join
  <2>1. outcome = "none"
    BY <1>3, NotOver DEF Join, EndPcs, ConvertInv
  <2>2. CASE cancel
    BY <1>1, <1>2, <1>3, <2>1, <2>2 DEF Join, Run!Abort
  <2>3. CASE ~cancel
    BY <1>1, <1>3, <2>3, RunStutters DEF Join
  <2> QED
    BY <2>2, <2>3
<1>4. CASE FinalizeTop \/ CallerFlush
  BY <1>1, <1>4, RunStutters DEF FinalizeTop, CallerFlush
<1>5. CASE ReturnDesign
  <2>1. pc[Main] = "finalize" /\ outcome = "none" /\ outcome' = "design" /\ ~cancel
    BY <1>5 DEF ReturnDesign, ConvertInv, DiagInv, ReturnIsLast
  <2>2. Members(Tops) \subseteq scheduled /\ \A k \in scheduled : Settled(k)
    BY <2>1, AllSettled DEF PastPcs, EndPcs
  <2>3. scheduled \subseteq Keys
    BY DEF ConvertInv, TypeOK, DataOK
  <2>4. \A k \in Keys : Begun(k) <=> k \in scheduled
    <3>1. \A k \in Keys : Settled(k) => Begun(k)
      BY DEF ConvertInv, SettleInv, FailedAreBegun, Settled, Converted, Begun
    <3> QED
      BY <2>2, <3>1 DEF ConvertInv, StageInv, WaitingUnbegun
  <2>5. scheduled = {k \in Keys : status[k] # "Absent"}
    BY <2>3, <2>4 DEF Begun
  <2>6. ~hasError => \A k \in scheduled : status[k] = "Done"
    <3>1. ~hasError => \A k \in Keys : ~Failed(k)
      BY DEF ConvertInv, DiagInv, ErrorsKnown, Failed, Errors
    <3> QED
      BY <3>1, <2>2, <2>3 DEF Settled, Converted
  <2>7. ~hasError => {k \in Keys : status[k] # "Absent"} = {k \in Keys : status[k] = "Done"}
    BY <2>3, <2>5, <2>6
  <2> QED
    BY <1>1, <1>2, <2>1, <2>2, <2>5, <2>7 DEF Run!Deliver, Run!Members, Members
<1> QED
  BY <1>3, <1>4, <1>5 DEF Ending

LEMMA RunOfKey ==
  ASSUME NEW k \in Keys, Run!StartKey(k) \/ Run!Build(k)
  PROVE  Run!RunNext
BY DEF Run!RunNext

LEMMA RunEnqueues ==
  ASSUME ConvertInv, NEW t \in Threads, Enqueue(t)
  PROVE  (\E k \in Keys : Run!Find(k)) \/ UNCHANGED Run!runVars
<1>1. CASE EnqueueSchedule(t) /\ Instance(t) \notin scheduled
  <2>1. Instance(t) \in Keys
    BY <1>1, InstanceIsKey DEF EnqueueSchedule, EnqueuePcs, ConvertInv, TypeOK
  <2> QED
    BY <1>1, <2>1, RunFinds
<1>2. CASE EnqueueSchedule(t) /\ Instance(t) \in scheduled
  BY <1>2, RunStutters DEF EnqueueSchedule
<1>3. CASE ~EnqueueSchedule(t)
  BY <1>3, RunStutters
     DEF Enqueue, EnqueueCancelled, EnqueueCheck, EnqueueCount, EnqueuePush, EnqueueUncount
<1> QED
  BY <1>1, <1>2, <1>3

LEMMA RunWorks ==
  ASSUME ConvertInv, NEW w \in Workers, WorkerStep(w)
  PROVE  [Run!RunNext]_(Run!runVars)
<1>1. CASE Enqueue(w)
  BY <1>1, RunEnqueues DEF Run!RunNext
<1>2. CASE Claim(w)
  <2>1. CASE TryClaim(key[w])
    <3>1. PICK k \in Keys : k = key[w]
      BY <1>2 DEF Claim, ConvertInv, TypeOK, ControlOK, TaskPcs, ConvertPcs
    <3>2. Run!StartKey(k)
      BY <1>2, <2>1, <3>1, RunStarts
    <3> QED
      BY <3>2, RunOfKey
  <2>2. CASE ~TryClaim(key[w])
    BY <1>2, <2>2, RunStutters DEF Claim, TryClaimLoses
  <2> QED
    BY <2>1, <2>2
<1>3. CASE Store(w)
  <2>1. CASE pc[w] = "store"
    <3>1. PICK k \in Keys : k = key[w]
      BY <2>1 DEF ConvertInv, TypeOK, ControlOK, TaskPcs, ConvertPcs
    <3>2. StorePlan(key[w]) /\ UNCHANGED <<scheduled, hasError, outcome>>
      BY <1>3, <2>1 DEF Store
    <3>3. Run!Build(k)
      BY <2>1, <3>1, <3>2, RunBuilds
    <3> QED
      BY <3>3, RunOfKey
  <2>2. CASE pc[w] # "store"
    BY <1>3, <2>2, RunStutters DEF Store, SetArtifact
  <2> QED
    BY <2>1, <2>2
<1>4. CASE ReportError(w) \/ Catch(w)
  BY <1>4, RunFails DEF Run!RunNext
<1>5. CASE WaitPop(w) \/ Begin(w) \/ Enter(w) \/ PlanDone(w) \/ LowerDone(w) \/ NameGraph(w)
           \/ Create(w) \/ NameInstance(w) \/ AssemblyDone(w) \/ MarkReady(w) \/ Flush(w)
  <2>1. UNCHANGED <<status, scheduled, hasError, outcome>>
    BY <1>5 DEF WaitPop, Begin, Enter, PlanDone, LowerDone, NameGraph, Create, NameInstance,
       AssemblyDone, MarkReady, Flush
  <2> QED
    BY <2>1, RunStutters
<1>6. CASE Finish(w) \/ Throw(w) \/ RequestAgain(w) \/ RequestCas(w) \/ RequestDrain(w)
           \/ RequestSub(w) \/ RequestClose(w) \/ RequestNotify(w)
  <2>1. UNCHANGED <<status, scheduled, hasError, outcome>>
    BY <1>6 DEF Finish, FinSub, FinStore, FinClose, FinNotify, Throw, RequestAgain, RequestCas,
       RequestDrain, RequestSub, RequestClose, RequestNotify
  <2> QED
    BY <2>1, RunStutters
<1> QED
  BY <1>1, <1>2, <1>3, <1>4, <1>5, <1>6 DEF WorkerStep, Convert, Request

LEMMA RunInits == Init => Run!RunInit
<1> SUFFICES ASSUME Init PROVE Run!RunInit
  OBVIOUS
<1>1. scheduled = {} /\ hasError = FALSE /\ outcome = "none" /\ status = [k \in Keys |-> "Absent"]
  BY DEF Init, CacheInit
<1> QED
  BY <1>1 DEF Run!RunInit

LEMMA RunSteps == ConvertInv /\ [Next]_vars => [Run!RunNext]_(Run!runVars)
<1> SUFFICES ASSUME ConvertInv, [Next]_vars PROVE [Run!RunNext]_(Run!runVars)
  OBVIOUS
<1>1. CASE Enqueue(Main)
  BY <1>1, RunEnqueues DEF Run!RunNext
<1>2. CASE Ending
  BY <1>2, RunEnds DEF Run!RunNext
<1>3. CASE CollectDone \/ Launch \/ AwaitDone \/ Park \/ CloseQueue \/ WakeUpMain
  <2>1. UNCHANGED <<status, scheduled, hasError, outcome>>
    BY <1>3 DEF CollectDone, Launch, AwaitDone, Park, CloseQueue, WakeUpMain
  <2> QED
    BY <2>1, RunStutters
<1>4. ASSUME NEW w \in Workers, WorkerStep(w) PROVE [Run!RunNext]_(Run!runVars)
  BY <1>4, RunWorks
<1>5. ASSUME NEW w \in Workers, WakeUp(w) PROVE [Run!RunNext]_(Run!runVars)
  BY <1>5, RunStutters DEF WakeUp
<1>6. CASE UNCHANGED vars
  BY <1>6, RunStutters DEF vars
<1> QED
  BY <1>1, <1>2, <1>3, <1>4, <1>5, <1>6 DEF Next, MainStep, Ending

\* The parallel conversion implements the sequential promise: modules are found
\* from the tops down, each begun once, built once after its instances are found,
\* and the caller gets an abort that an error asked for or a complete design.
THEOREM ConversionImplementsRun == Spec => RefinesRun
<1>1. Spec => Run!RunInit /\ [][Run!RunNext]_(Run!runVars)
  BY ConvertInvCorrect, RunInits, RunSteps, PTL DEF Spec
<1> QED
  BY <1>1 DEF RefinesRun, Run!RunSpec
=============================================================================
