--------------------------- MODULE ConvertScheduler ---------------------------
(***************************************************************************)
(* The parallel conversion of an elaborated design (ConvertDriver::convert *)
(* in lib/core/ingest.cpp): the caller's thread enqueues the top modules,  *)
(* starts the workers and waits for the task counter to reach zero; each   *)
(* worker pops a plan key, plans it (enqueueing the modules it             *)
(* instantiates), lowers it, builds its graph and stores the plan.         *)
(*                                                                         *)
(* One step is one access to state that threads share: an atomic           *)
(* operation, or a body that runs under a mutex.  The atomics are relaxed, *)
(* but each decision of the code reads one atomic, and read-modify-write   *)
(* operations of one atomic are totally ordered, so interleaving is the    *)
(* right semantics for them.                                               *)
(***************************************************************************)
EXTENDS PlanTaskQueue, PlanCache, GraphAssembler

CONSTANTS Main,          \* the thread that calls convert
          NoKey,         \* `key` of a thread that has popped nothing
          Tops,          \* the keys of root.topInstances, in order
          TopAliases,    \* the instance and definition names of a top key
          Children,      \* the keys a module body instantiates, in member order
          Blackbox,      \* keys of bodies without an implementation
          ErrorKeys,     \* keys whose conversion reports an error diagnostic
          ThrowKeys,     \* keys whose conversion throws a std::exception
          AbortOnError,  \* ConvertOptions::abortOnError
          SizeMod        \* 2^w of std::size_t

Threads == Workers \union {Main}

ASSUME SchedulerAssumption ==
  /\ Main \notin Workers /\ IsFiniteSet(Workers)
  /\ NoKey \notin Keys
  /\ Tops \in Seq(Keys)
  /\ Children \in [Keys -> Seq(Keys)]
  /\ ErrorKeys \subseteq Keys /\ ThrowKeys \subseteq Keys
  /\ AbortOnError \in BOOLEAN
  /\ SizeMod \in Nat \ {0}

ASSUME NamesAssumption ==
  /\ \A k \in Keys : \A n \in 0..SuffixBound : Candidate(k, n) \in Names
  /\ TopAliases \in [Keys -> SUBSET Names]
  /\ Unnamed \notin Names

VARIABLES
  scheduled,  \* InstanceRegistry::entries_, the keys ever scheduled
  ready,      \* entries whose promise is satisfied
  pending,    \* ConvertParallelState::pending
  cancel,     \* ConvertParallelState::cancel
  dropped,    \* the local of AbortState::request, 0 outside of it
  buffer,     \* thread-local diagnostics of each thread
  messages,   \* Diagnostics::messages_
  hasError,   \* Diagnostics::hasError_
  outcome,    \* what convert did: "none" (still running), "design" or "abort"
  tops,       \* Design::topGraphs_, the names of the graphs marked as tops
  aliases,    \* Design::graphAliasBySymbol_: the graph a name stands for, or Unnamed
  pc, key,    \* per thread: where it is, and the key it popped
  next,       \* per thread: index of the instance it looks at
  ret         \* per thread: where request() returns to

registryVars == <<scheduled, ready>>
diagVars == <<buffer, messages, hasError>>
endVars == <<outcome, tops, aliases>>
vars == <<queueVars, cacheVars, namingVars, registryVars, pending, cancel, dropped,
          diagVars, endVars, pc, key, next, ret>>

Members(s) == {s[i] : i \in DOMAIN s}
Errors == Keys \X {"error", "workerFailed"}
Warnings == Keys \X {"missingTop", "aliasConflict"}
Messages == Errors \union Warnings

-----------------------------------------------------------------------------
\* Program counters, by the part of the code they belong to.
EnqueuePcs  == {"schedule", "count", "push", "uncount"}
ConvertPcs  == {"begin", "enter", "claim", "plan", "lower", "name", "create", "refs",
                "setLowering", "setWriteBack", "store", "ready"}
CatchPcs    == {"caught", "again"}
RequestPcs  == {"reqCas", "reqDrain", "reqSub", "reqClose", "reqNotify"}
FinishPcs   == {"finStore", "finClose", "finNotify"}
TaskPcs     == EnqueuePcs \union ConvertPcs \union CatchPcs \union RequestPcs
                 \union {"flush", "finSub"}
WorkerPcs   == {"unborn", "waitPop", "exit"} \union TaskPcs \union FinishPcs
MainPcs     == {"collect", "launch", "await", "parking", "parked", "closing", "join",
                "finalize", "return", "over"} \union EnqueuePcs

\* The places where a task can report an error or throw, and still be converting.
FallibleStages == {"plan", "lower", "refs"}

Goto(t, l) == pc' = [pc EXCEPT ![t] = l]
At(t, l) == pc[t] = l

Init ==
  /\ QueueInit /\ CacheInit /\ NamingInit
  /\ scheduled = {} /\ ready = {}
  /\ pending = 0 /\ cancel = FALSE /\ dropped = 0
  /\ buffer = [t \in Threads |-> {}] /\ messages = {} /\ hasError = FALSE
  /\ outcome = "none" /\ tops = {} /\ aliases = [n \in Names |-> Unnamed]
  /\ pc = [t \in Threads |-> IF t = Main THEN "collect" ELSE "unborn"]
  /\ key = [t \in Threads |-> NoKey]
  /\ next = [t \in Threads |-> 1]
  /\ ret = [t \in Threads |-> "flush"]

-----------------------------------------------------------------------------
(* enqueuePlanKey, called by collectTopInstances on the main thread and by   *)
(* collectInstance, for every instance of the body, on a worker.             *)

Instances(t) == IF t = Main THEN Tops ELSE Children[key[t]]
Instance(t) == Instances(t)[next[t]]
CollectPc(t) == IF t = Main THEN "collect" ELSE "plan"
\* Mutant: reads one instance past the end.
CollectingOneTooFar(t) == At(t, CollectPc(t)) /\ next[t] <= Len(Instances(t)) + 1

Collecting(t) == At(t, CollectPc(t)) /\ next[t] <= Len(Instances(t))
CollectNext(t) == Goto(t, CollectPc(t)) /\ next' = [next EXCEPT ![t] = @ + 1]

EnqueueCancelled(t) ==
  /\ Collecting(t) /\ cancel /\ CollectNext(t)
  /\ UNCHANGED <<queueVars, cacheVars, namingVars, registryVars, pending, cancel, dropped,
                 diagVars, endVars, key, ret>>

EnqueueCheck(t) ==
  /\ Collecting(t) /\ ~cancel /\ Goto(t, "schedule")
  /\ UNCHANGED <<queueVars, cacheVars, namingVars, registryVars, pending, cancel, dropped,
                 diagVars, endVars, key, next, ret>>

\* Mutant: schedules a key that is scheduled already.
ScheduleTwice(t) ==
  /\ At(t, "schedule")
  /\ \/ Instance(t) \in scheduled /\ CollectNext(t) /\ UNCHANGED scheduled
     \/ /\ TRUE
        /\ scheduled' = scheduled \union {Instance(t)}
        /\ Goto(t, "count") /\ UNCHANGED next
  /\ UNCHANGED <<queueVars, cacheVars, namingVars, ready, pending, cancel, dropped,
                 diagVars, endVars, key, ret>>

EnqueueSchedule(t) ==
  /\ At(t, "schedule")
  /\ \/ Instance(t) \in scheduled /\ CollectNext(t) /\ UNCHANGED scheduled
     \/ /\ Instance(t) \notin scheduled
        /\ scheduled' = scheduled \union {Instance(t)}
        /\ Goto(t, "count") /\ UNCHANGED next
  /\ UNCHANGED <<queueVars, cacheVars, namingVars, ready, pending, cancel, dropped,
                 diagVars, endVars, key, ret>>

\* Mutant: does not count the task.
CountForgotten(t) ==
  /\ At(t, "count") /\ pending' = pending /\ Goto(t, "push")
  /\ UNCHANGED <<queueVars, cacheVars, namingVars, registryVars, cancel, dropped,
                 diagVars, endVars, key, next, ret>>

\* fetch_add cannot wrap: it would take 2^w modules in flight.
EnqueueCount(t) ==
  /\ At(t, "count") /\ pending' = pending + 1 /\ Goto(t, "push")
  /\ UNCHANGED <<queueVars, cacheVars, namingVars, registryVars, cancel, dropped,
                 diagVars, endVars, key, next, ret>>

EnqueuePush(t) ==
  /\ At(t, "push")
  /\ \/ TryPushAccepts(Instance(t)) /\ CollectNext(t)
     \/ TryPushRefuses /\ Goto(t, "uncount") /\ UNCHANGED next
  /\ UNCHANGED <<cacheVars, namingVars, registryVars, pending, cancel, dropped,
                 diagVars, endVars, key, ret>>

\* std::size_t subtraction: below zero it wraps.
FetchSub(p, d) == IF d <= p THEN p - d ELSE SizeMod + p - d

EnqueueUncount(t) ==
  /\ At(t, "uncount") /\ pending' = FetchSub(pending, 1) /\ CollectNext(t)
  /\ UNCHANGED <<queueVars, cacheVars, namingVars, registryVars, cancel, dropped,
                 diagVars, endVars, key, ret>>

Enqueue(t) == \/ EnqueueCancelled(t) \/ EnqueueCheck(t) \/ EnqueueSchedule(t)
              \/ EnqueueCount(t) \/ EnqueuePush(t) \/ EnqueueUncount(t)

-----------------------------------------------------------------------------
(* The worker loop and processPlanKey. *)

WaitPop(w) ==
  /\ At(w, "waitPop") /\ w \notin asleep
  /\ \/ WaitSleeps(w, cancel) /\ UNCHANGED <<pc, key>>
     \/ WaitStops(cancel) /\ Goto(w, "exit") /\ UNCHANGED key
     \/ /\ WaitTakes(cancel)
        /\ key' = [key EXCEPT ![w] = Head(queue)]
        /\ Goto(w, "begin")
  /\ UNCHANGED <<cacheVars, namingVars, registryVars, pending, cancel, dropped,
                 diagVars, endVars, next, ret>>

\* The worker skips a task popped before the cancellation.
Begin(w) ==
  /\ At(w, "begin") /\ Goto(w, IF cancel THEN "flush" ELSE "enter")
  /\ UNCHANGED <<queueVars, cacheVars, namingVars, registryVars, pending, cancel, dropped,
                 diagVars, endVars, key, next, ret>>

Enter(w) ==
  /\ At(w, "enter") /\ Goto(w, IF cancel THEN "ready" ELSE "claim")
  /\ UNCHANGED <<queueVars, cacheVars, namingVars, registryVars, pending, cancel, dropped,
                 diagVars, endVars, key, next, ret>>

Claim(w) ==
  /\ At(w, "claim")
  /\ \/ TryClaim(key[w]) /\ Goto(w, "plan") /\ next' = [next EXCEPT ![w] = 1]
     \/ TryClaimLoses(key[w]) /\ Goto(w, "ready") /\ UNCHANGED next
  /\ UNCHANGED <<queueVars, namingVars, registryVars, pending, cancel, dropped,
                 diagVars, endVars, key, ret>>

PlanDone(w) ==
  /\ At(w, "plan") /\ next[w] > Len(Children[key[w]])
  /\ Goto(w, IF cancel THEN "ready" ELSE "lower")
  /\ UNCHANGED <<queueVars, cacheVars, namingVars, registryVars, pending, cancel, dropped,
                 diagVars, endVars, key, next, ret>>

\* Statement lowering, write-back and memory ports work on the thread's own plan.
LowerDone(w) ==
  /\ At(w, "lower") /\ Goto(w, IF cancel THEN "ready" ELSE "name")
  /\ UNCHANGED <<queueVars, cacheVars, namingVars, registryVars, pending, cancel, dropped,
                 diagVars, endVars, key, next, ret>>

NameGraph(w) ==
  /\ At(w, "name") /\ ResolveGraphName(key[w]) /\ Goto(w, "create")
  /\ UNCHANGED <<queueVars, cacheVars, registryVars, pending, cancel, dropped,
                 diagVars, endVars, key, next, ret>>

\* createGraph throws on a name the design already has.
Create(w) ==
  /\ At(w, "create") /\ CreateGraph(key[w])
  /\ Goto(w, "refs") /\ next' = [next EXCEPT ![w] = 1]
  /\ UNCHANGED <<queueVars, cacheVars, registryVars, pending, cancel, dropped,
                 diagVars, endVars, key, ret>>

\* Assembly names the graph of every instance that is not a blackbox.
NameInstance(w) ==
  /\ At(w, "refs") /\ next[w] <= Len(Children[key[w]])
  /\ IF Instance(w) \in Blackbox THEN UNCHANGED namingVars
                                 ELSE ResolveGraphName(Instance(w))
  /\ next' = [next EXCEPT ![w] = @ + 1]
  /\ UNCHANGED <<queueVars, cacheVars, registryVars, pending, cancel, dropped,
                 diagVars, endVars, pc, key, ret>>

AssemblyDone(w) ==
  /\ At(w, "refs") /\ next[w] > Len(Children[key[w]]) /\ Goto(w, "setLowering")
  /\ UNCHANGED <<queueVars, cacheVars, namingVars, registryVars, pending, cancel, dropped,
                 diagVars, endVars, key, next, ret>>

\* Mutant: signals the key without storing its plan.
StoreForgetsPlan(w) ==
  /\ \/ /\ At(w, "setLowering") /\ SetArtifact(key[w], "lowering")
        /\ Goto(w, "setWriteBack")
     \/ /\ At(w, "setWriteBack") /\ SetArtifact(key[w], "writeBack")
        /\ Goto(w, "store")
     \/ At(w, "store") /\ UNCHANGED cacheVars /\ Goto(w, "ready")
  /\ UNCHANGED <<queueVars, namingVars, registryVars, pending, cancel, dropped,
                 diagVars, endVars, key, next, ret>>

Store(w) ==
  /\ \/ /\ At(w, "setLowering") /\ SetArtifact(key[w], "lowering")
        /\ Goto(w, "setWriteBack")
     \/ /\ At(w, "setWriteBack") /\ SetArtifact(key[w], "writeBack")
        /\ Goto(w, "store")
     \/ At(w, "store") /\ StorePlan(key[w]) /\ Goto(w, "ready")
  /\ UNCHANGED <<queueVars, namingVars, registryVars, pending, cancel, dropped,
                 diagVars, endVars, key, next, ret>>

MarkReady(w) ==
  /\ At(w, "ready") /\ ready' = ready \union ({key[w]} \intersect scheduled)
  /\ Goto(w, "flush")
  /\ UNCHANGED <<queueVars, cacheVars, namingVars, scheduled, pending, cancel, dropped,
                 diagVars, endVars, key, next, ret>>

\* Mutant: keeps the worker's diagnostics in its thread-local buffer.
FlushForgotten(w) ==
  /\ At(w, "flush") /\ Goto(w, "finSub")
  /\ UNCHANGED <<messages, buffer>>
  /\ UNCHANGED <<queueVars, cacheVars, namingVars, registryVars, pending, cancel, dropped,
                 hasError, endVars, key, next, ret>>

\* flushThreadLocal moves the thread's buffer into the shared messages.
Flush(w) ==
  /\ At(w, "flush") /\ Goto(w, "finSub")
  /\ messages' = messages \union buffer[w]
  /\ buffer' = [buffer EXCEPT ![w] = {}]
  /\ UNCHANGED <<queueVars, cacheVars, namingVars, registryVars, pending, cancel, dropped,
                 hasError, endVars, key, next, ret>>

Convert(w) == \/ WaitPop(w) \/ Begin(w) \/ Enter(w) \/ Claim(w) \/ PlanDone(w)
              \/ LowerDone(w) \/ NameGraph(w) \/ Create(w) \/ NameInstance(w)
              \/ AssemblyDone(w) \/ Store(w) \/ MarkReady(w) \/ Flush(w)

-----------------------------------------------------------------------------
(* finishTask: the worker that takes the counter to zero closes the queue    *)
(* and notifies the main thread, without holding doneMutex.                  *)

\* Mutant: takes the last but one task for the last.
FinSubEarly(w) ==
  /\ At(w, "finSub") /\ pending' = FetchSub(pending, 1)
  /\ Goto(w, IF pending <= 2 THEN "finStore" ELSE "waitPop")
  /\ UNCHANGED <<queueVars, cacheVars, namingVars, registryVars, cancel, dropped,
                 diagVars, endVars, key, next, ret>>

FinSub(w) ==
  /\ At(w, "finSub") /\ pending' = FetchSub(pending, 1)
  /\ Goto(w, IF pending <= 1 THEN "finStore" ELSE "waitPop")
  /\ UNCHANGED <<queueVars, cacheVars, namingVars, registryVars, cancel, dropped,
                 diagVars, endVars, key, next, ret>>

FinStore(w) ==
  /\ At(w, "finStore") /\ pending' = 0 /\ Goto(w, "finClose")
  /\ UNCHANGED <<queueVars, cacheVars, namingVars, registryVars, cancel, dropped,
                 diagVars, endVars, key, next, ret>>

FinClose(w) ==
  /\ At(w, "finClose") /\ Close /\ Goto(w, "finNotify")
  /\ UNCHANGED <<cacheVars, namingVars, registryVars, pending, cancel, dropped,
                 diagVars, endVars, key, next, ret>>

\* doneCv.notify_all reaches the main thread only once it is parked.
NotifyDone(t, l) == pc' = [pc EXCEPT ![t] = l,
                                     ![Main] = IF @ = "parked" THEN "await" ELSE @]

\* Mutant: does not notify the main thread.
FinNotifySilent(w) ==
  /\ At(w, "finNotify") /\ Goto(w, "waitPop")
  /\ UNCHANGED <<queueVars, cacheVars, namingVars, registryVars, pending, cancel, dropped,
                 diagVars, endVars, key, next, ret>>

FinNotify(w) ==
  /\ At(w, "finNotify") /\ NotifyDone(w, "waitPop")
  /\ UNCHANGED <<queueVars, cacheVars, namingVars, registryVars, pending, cancel, dropped,
                 diagVars, endVars, key, next, ret>>

Finish(w) == FinSub(w) \/ FinStore(w) \/ FinClose(w) \/ FinNotify(w)

-----------------------------------------------------------------------------
(* Errors.  Diagnostics::add buffers the message, raises hasError and calls  *)
(* onError, which is AbortState::request when abortOnError is set; the task  *)
(* then goes on.  An exception leaves the task for the worker's catch block. *)

Report(w, message) ==
  /\ buffer' = [buffer EXCEPT ![w] = @ \union {message}]
  /\ hasError' = TRUE
  /\ UNCHANGED messages

\* Model bound: a key reports its error once.
ReportError(w) ==
  /\ pc[w] \in FallibleStages /\ key[w] \in ErrorKeys
  /\ <<key[w], "error">> \notin buffer[w]
  /\ Report(w, <<key[w], "error">>)
  /\ IF AbortOnError
     THEN Goto(w, "reqCas") /\ ret' = [ret EXCEPT ![w] = pc[w]]
     ELSE UNCHANGED <<pc, ret>>
  /\ UNCHANGED <<queueVars, cacheVars, namingVars, registryVars, pending, cancel, dropped,
                 endVars, key, next>>

Throw(w) ==
  /\ \/ pc[w] \in FallibleStages /\ key[w] \in ThrowKeys
     \/ At(w, "create") /\ graphName[key[w]] \in design
  /\ Goto(w, "caught")
  /\ UNCHANGED <<queueVars, cacheVars, namingVars, registryVars, pending, cancel, dropped,
                 diagVars, endVars, key, next, ret>>

\* catch (const std::exception&): report, then request the abort again.
Catch(w) ==
  /\ At(w, "caught") /\ Report(w, <<key[w], "workerFailed">>)
  /\ IF AbortOnError
     THEN Goto(w, "reqCas") /\ ret' = [ret EXCEPT ![w] = "again"]
     ELSE Goto(w, "flush") /\ UNCHANGED ret
  /\ UNCHANGED <<queueVars, cacheVars, namingVars, registryVars, pending, cancel, dropped,
                 endVars, key, next>>

RequestAgain(w) ==
  /\ At(w, "again") /\ Goto(w, "reqCas") /\ ret' = [ret EXCEPT ![w] = "flush"]
  /\ UNCHANGED <<queueVars, cacheVars, namingVars, registryVars, pending, cancel, dropped,
                 diagVars, endVars, key, next>>

RequestCas(w) ==
  /\ At(w, "reqCas") /\ cancel' = TRUE
  /\ Goto(w, IF cancel THEN ret[w] ELSE "reqDrain")
  /\ UNCHANGED <<queueVars, cacheVars, namingVars, registryVars, pending, dropped,
                 diagVars, endVars, key, next, ret>>

RequestDrain(w) ==
  /\ At(w, "reqDrain") /\ Drain
  /\ dropped' = Len(queue)
  /\ Goto(w, IF queue = <<>> THEN "reqClose" ELSE "reqSub")
  /\ UNCHANGED <<cacheVars, namingVars, registryVars, pending, cancel,
                 diagVars, endVars, key, next, ret>>

\* Mutant: does not uncount the dropped tasks.
RequestSubForgotten(w) ==
  /\ At(w, "reqSub") /\ Goto(w, "reqClose") /\ dropped' = 0
  /\ pending' = pending
  /\ UNCHANGED <<queueVars, cacheVars, namingVars, registryVars, cancel,
                 diagVars, endVars, key, next, ret>>

\* `if (prev <= dropped) pending.store(0)` follows the fetch_sub.
RequestSub(w) ==
  /\ At(w, "reqSub") /\ Goto(w, "reqClose") /\ dropped' = 0
  /\ pending' = IF pending <= dropped THEN 0 ELSE FetchSub(pending, dropped)
  /\ UNCHANGED <<queueVars, cacheVars, namingVars, registryVars, cancel,
                 diagVars, endVars, key, next, ret>>

RequestClose(w) ==
  /\ At(w, "reqClose") /\ Close /\ Goto(w, "reqNotify")
  /\ UNCHANGED <<cacheVars, namingVars, registryVars, pending, cancel, dropped,
                 diagVars, endVars, key, next, ret>>

RequestNotify(w) ==
  /\ At(w, "reqNotify") /\ NotifyDone(w, ret[w])
  /\ UNCHANGED <<queueVars, cacheVars, namingVars, registryVars, pending, cancel, dropped,
                 diagVars, endVars, key, next, ret>>

Request(w) == \/ Catch(w) \/ RequestAgain(w) \/ RequestCas(w) \/ RequestDrain(w)
              \/ RequestSub(w) \/ RequestClose(w) \/ RequestNotify(w)

-----------------------------------------------------------------------------
(* The main thread: runPlanQueueParallel and finalizeTopGraphs. *)

CollectDone ==
  /\ At(Main, "collect") /\ next[Main] > Len(Tops) /\ Goto(Main, "launch")
  /\ UNCHANGED <<queueVars, cacheVars, namingVars, registryVars, pending, cancel, dropped,
                 diagVars, endVars, key, next, ret>>

\* No worker runs yet: an empty design closes the queue before they start.
Launch ==
  /\ At(Main, "launch")
  /\ closed' = (closed \/ pending = 0)
  /\ pc' = [t \in Threads |-> IF t = Main THEN "await" ELSE "waitPop"]
  /\ UNCHANGED <<queue, asleep, cacheVars, namingVars, registryVars, pending, cancel,
                 dropped, diagVars, endVars, key, next, ret>>

\* doneCv.wait: the predicate is evaluated, and only then does the thread park;
\* those who change pending do not take doneMutex, so they can run in between.
AwaitDone ==
  /\ At(Main, "await") /\ Goto(Main, IF pending = 0 THEN "closing" ELSE "parking")
  /\ UNCHANGED <<queueVars, cacheVars, namingVars, registryVars, pending, cancel, dropped,
                 diagVars, endVars, key, next, ret>>

Park ==
  /\ At(Main, "parking") /\ Goto(Main, "parked")
  /\ UNCHANGED <<queueVars, cacheVars, namingVars, registryVars, pending, cancel, dropped,
                 diagVars, endVars, key, next, ret>>

CloseQueue ==
  /\ At(Main, "closing") /\ Close /\ Goto(Main, "join")
  /\ UNCHANGED <<cacheVars, namingVars, registryVars, pending, cancel, dropped,
                 diagVars, endVars, key, next, ret>>

\* Mutant: goes on with the design of an aborted conversion.
JoinIgnoresAbort ==
  /\ At(Main, "join") /\ \A w \in Workers : At(w, "exit")
  /\ messages' = messages \union buffer[Main]
  /\ buffer' = [buffer EXCEPT ![Main] = {}]
  /\ next' = [next EXCEPT ![Main] = 1]
  /\ IF FALSE
     THEN outcome' = "abort" /\ Goto(Main, "return")
     ELSE UNCHANGED outcome /\ Goto(Main, "finalize")
  /\ UNCHANGED <<queueVars, cacheVars, namingVars, registryVars, pending, cancel, dropped,
                 hasError, tops, aliases, key, ret>>

\* After the joins only the main thread runs: it flushes its buffer and throws
\* ConvertAbort, or goes on to the top graphs.
Join ==
  /\ At(Main, "join") /\ \A w \in Workers : At(w, "exit")
  /\ messages' = messages \union buffer[Main]
  /\ buffer' = [buffer EXCEPT ![Main] = {}]
  /\ next' = [next EXCEPT ![Main] = 1]
  /\ IF cancel /\ AbortOnError
     THEN outcome' = "abort" /\ Goto(Main, "return")
     ELSE UNCHANGED outcome /\ Goto(Main, "finalize")
  /\ UNCHANGED <<queueVars, cacheVars, namingVars, registryVars, pending, cancel, dropped,
                 hasError, tops, aliases, key, ret>>

(* finalizeTopGraphs marks the graph of every top key and registers the names *)
(* of the top instance for it.  What it warns of is in the main thread's      *)
(* buffer, which nobody flushes before convert returns.                       *)

\* Design::findGraph: by name, else through an alias.
FindGraph(n) == IF n \in design THEN n ELSE aliases[n]

Warn(new) == buffer' = [buffer EXCEPT ![Main] = @ \union new]

\* The aliases of one top name one graph, so their order does not matter.
RegisterAliases(k, graph) ==
  LET free == {n \in TopAliases[k] : FindGraph(n) \in {Unnamed, graph}}
  IN  /\ aliases' = [n \in Names |-> IF n \in free THEN graph ELSE aliases[n]]
      /\ Warn(IF free = TopAliases[k] THEN {} ELSE {<<k, "aliasConflict">>})

Finalize(k) ==
  /\ ResolveGraphName(k)
  /\ LET graph == FindGraph(graphName'[k])
     IN  IF graph = Unnamed
         THEN Warn({<<k, "missingTop">>}) /\ UNCHANGED <<tops, aliases>>
         ELSE tops' = tops \union {graph} /\ RegisterAliases(k, graph)

\* A key that several top instances share is finalized once (info.order).
FinalizeTop ==
  /\ At(Main, "finalize") /\ next[Main] <= Len(Tops)
  /\ IF \E i \in 1..(next[Main] - 1) : Tops[i] = Instance(Main)
     THEN UNCHANGED <<namingVars, buffer, tops, aliases>>
     ELSE Finalize(Instance(Main))
  /\ next' = [next EXCEPT ![Main] = @ + 1]
  /\ UNCHANGED <<queueVars, cacheVars, registryVars, pending, cancel, dropped,
                 messages, hasError, outcome, pc, key, ret>>

ReturnDesign ==
  /\ At(Main, "finalize") /\ next[Main] > Len(Tops)
  /\ outcome' = "design" /\ Goto(Main, "return")
  /\ UNCHANGED <<queueVars, cacheVars, namingVars, registryVars, pending, cancel, dropped,
                 diagVars, tops, aliases, key, next, ret>>

\* The caller flushes its thread's buffer, after a return and after an abort.
CallerFlush ==
  /\ At(Main, "return") /\ Goto(Main, "over")
  /\ messages' = messages \union buffer[Main]
  /\ buffer' = [buffer EXCEPT ![Main] = {}]
  /\ UNCHANGED <<queueVars, cacheVars, namingVars, registryVars, pending, cancel, dropped,
                 hasError, endVars, key, next, ret>>

MainStep == \/ Enqueue(Main) \/ CollectDone \/ Launch \/ AwaitDone \/ Park
            \/ CloseQueue \/ Join \/ FinalizeTop \/ ReturnDesign \/ CallerFlush

WorkerStep(w) == \/ Enqueue(w) \/ Convert(w) \/ Finish(w)
                 \/ ReportError(w) \/ Throw(w) \/ Request(w)

\* Either condition variable may wake without a notification.
WakeUp(w) ==
  /\ SpuriousWake(w)
  /\ UNCHANGED <<cacheVars, namingVars, registryVars, pending, cancel, dropped,
                 diagVars, endVars, pc, key, next, ret>>
WakeUpMain ==
  /\ At(Main, "parked") /\ Goto(Main, "await")
  /\ UNCHANGED <<queueVars, cacheVars, namingVars, registryVars, pending, cancel, dropped,
                 diagVars, endVars, key, next, ret>>

Next == \/ MainStep \/ WakeUpMain
        \/ \E w \in Workers : WorkerStep(w) \/ WakeUp(w)

Spec == Init /\ [][Next]_vars

\* The operating system runs every thread that can run; no wait is promised a
\* spurious wake-up.
Fairness == WF_vars(MainStep) /\ \A w \in Workers : WF_vars(WorkerStep(w))
FairSpec == Spec /\ Fairness

-----------------------------------------------------------------------------
(* Properties. *)

DataOK ==
  /\ QueueTypeOK /\ CacheTypeOK /\ NamingTypeOK
  /\ scheduled \in SUBSET Keys /\ ready \in SUBSET Keys
  /\ pending \in Nat /\ cancel \in BOOLEAN /\ dropped \in Nat
  /\ buffer \in [Threads -> SUBSET Messages] /\ messages \in SUBSET Messages
  /\ hasError \in BOOLEAN
  /\ outcome \in {"none", "design", "abort"} /\ tops \in SUBSET (Names \union {Unnamed})
  /\ aliases \in [Names -> Names \union {Unnamed}]

\* A worker in a task has a key, and an enqueueing thread looks at an instance.
ControlOK ==
  /\ pc \in [Threads -> WorkerPcs \union MainPcs]
  /\ pc[Main] \in MainPcs /\ \A w \in Workers : pc[w] \in WorkerPcs
  /\ key \in [Threads -> Keys \union {NoKey}]
  /\ \A w \in Workers : pc[w] \in TaskPcs => key[w] \in Keys
  /\ next \in [Threads -> Nat \ {0}]
  /\ \A t \in Threads : pc[t] \in EnqueuePcs => next[t] <= Len(Instances(t))
  /\ ret \in [Threads -> FallibleStages \union {"again", "flush"}]

\* Types of the variables, with what the program counters say of them.
TypeOK == DataOK /\ ControlOK

\* A task is in flight from its pop to the fetch_sub of finishTask.
InFlight == {w \in Workers : pc[w] \in TaskPcs}
\* Counted, and not yet in the queue or uncounted again.
Counted == {t \in Threads : pc[t] \in {"push", "uncount"}}

\* The counter is exact at every step, also while an abort drops tasks: it never
\* wraps below zero, and it is zero only when no task is left (enqueuePlanKey,
\* AbortState::request and finishTask all change it without a lock).
PendingExact ==
  pending = Len(queue) + Cardinality(InFlight) + Cardinality(Counted) + dropped

\* Once the main thread has passed doneCv.wait nothing is queued and no task
\* runs: close and join meet idle workers, although the abort path clears the
\* counter and the queue in separate steps.
DoneMeansQuiet ==
  pc[Main] \in {"closing", "join", "finalize", "return", "over"} =>
    queue = <<>> /\ InFlight = {} /\ Counted = {} /\ dropped = 0

Offering(t) == pc[t] \in {"count", "push"}

\* A key is at one place at a time: being offered by one thread, at one position
\* of the queue, or held by one worker.  It is then never converted twice,
\* however many parents instantiate it at the same time (InstanceRegistry).
KeyInOnePlace ==
  /\ \A i, j \in 1..Len(queue) : queue[i] = queue[j] => i = j
  /\ \A v, w \in InFlight : key[v] = key[w] => v = w
  /\ \A w \in InFlight : key[w] \notin Members(queue)
  /\ \A t \in Threads : Offering(t) =>
       /\ Instance(t) \notin Members(queue)
       /\ \A w \in InFlight : key[w] # Instance(t)
       /\ \A u \in Threads : Offering(u) /\ Instance(u) = Instance(t) => u = t

\* A worker never asks the design for a graph name it already has, so
\* createGraph's "Duplicated graph symbol" is never thrown: names are reserved
\* by every thread, for its own graph and for the instances it refers to.
CreateNeverCollides ==
  \A w \in Workers : At(w, "create") => graphName[key[w]] \notin design

\* The promise of a key is satisfied only when its plan is stored, or the
\* conversion is being aborted.
ReadyMeansStored == \A k \in ready : status[k] = "Done" \/ cancel

Converted(k) == /\ status[k] = "Done" /\ artifacts[k] = ArtifactKinds
                /\ graphName[k] \in design

\* The graph of a top is marked, or a warning says that it is missing (another
\* top's alias may stand in for it).
TopHandled(k) ==
  IF graphName[k] \in design THEN graphName[k] \in tops
  ELSE \/ aliases[graphName[k]] \in tops
       \/ <<k, "missingTop">> \in buffer[Main] \union messages

\* A returned design holds every top module and every instance of every module
\* it holds, except those whose failure was reported (which needs
\* abortOnError = false); the tops it holds are marked, the others warned about.
DesignComplete ==
  outcome = "design" =>
    /\ \A k \in Members(Tops) \union UNION {Members(Children[j]) : j \in {i \in Keys : Converted(i)}} :
         Converted(k) \/ <<k, "workerFailed">> \in messages
    /\ \A k \in Members(Tops) : graphName[k] # Unnamed /\ TopHandled(k)

\* When convert is over no worker keeps a diagnostic to itself: every error is in
\* the shared messages, hasError says whether there is one, and ConvertAbort is
\* thrown exactly when an error was reported and errors abort.  The main thread's
\* buffer may still hold warnings about top graphs, until the caller flushes it.
DiagnosticsDelivered ==
  outcome # "none" =>
    /\ \A w \in Workers : buffer[w] = {}
    /\ buffer[Main] \subseteq IF pc[Main] = "over" THEN {} ELSE Warnings
    /\ hasError <=> messages \intersect Errors # {}
    /\ outcome = "abort" <=> (AbortOnError /\ hasError)

\* Every scheduled key is converted, or its failure is reported: neither a key
\* in the queue nor the wake-up of a worker is lost while nothing aborts.
Failed(k) == <<k, "workerFailed">> \in messages
ScheduledSettles == \A k \in Keys : k \in scheduled ~> (Converted(k) \/ Failed(k))

\* The workers always leave their loop, in an aborted conversion too.
WorkersExit == <>[](\A w \in Workers : At(w, "exit"))

\* A main thread that is parked while tasks are left is woken: the wake-up can
\* only be lost between its evaluation of the predicate and its parking.
ParkedIsWoken == (At(Main, "parked") /\ pending > 0) ~> ~At(Main, "parked")

\* convert returns or throws.  (Refuted: the notification can fall between the
\* evaluation of the predicate and the wait.)
ConvertReturns == <>(outcome # "none")

\* After an abort the counter reaches zero, which the main thread waits for.
\* (Refuted: a push between the drain and the close is never popped.)
AbortEmptiesCounter == cancel ~> (pending = 0)

\* The threads together keep the promise of a sequential conversion.
Run == INSTANCE ConvertRun WITH
         found <- scheduled,
         begun <- {k \in Keys : status[k] # "Absent"},
         built <- {k \in Keys : status[k] = "Done"},
         failed <- hasError,
         result <- outcome
RefinesRun == Run!RunSpec
=============================================================================
