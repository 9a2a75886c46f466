---------------------------- MODULE PlanTaskQueue ----------------------------
(***************************************************************************)
(* The work queue of the ingest conversion (PlanTaskQueue in               *)
(* lib/core/ingest.cpp): a deque of plan keys, a closed flag and a         *)
(* condition variable, all guarded by one mutex.  A method body runs under *)
(* the mutex, so each is one step.  A thread inside cv_.wait is in asleep; *)
(* a notification moves it back to evaluating the predicate.               *)
(***************************************************************************)
EXTENDS PlanCache, Naturals, Sequences

CONSTANT Workers     \* the threads that pop

VARIABLES queue,     \* queue_
          closed,    \* closed_
          asleep     \* threads blocked in cv_.wait

queueVars == <<queue, closed, asleep>>

QueueInit == queue = <<>> /\ closed = FALSE /\ asleep = {}

QueueTypeOK ==
  /\ queue \in Seq(Keys)
  /\ closed \in BOOLEAN
  /\ asleep \in SUBSET Workers

\* cv_.notify_one wakes one sleeper, whichever; cv_.notify_all wakes them all.
NotifyOne == IF asleep = {} THEN asleep' = {}
             ELSE \E w \in asleep : asleep' = asleep \ {w}
NotifyAll == asleep' = {}

\* tryPush: refused once the queue is closed.
TryPushAccepts(k) == /\ ~closed
                     /\ queue' = Append(queue, k)
                     /\ NotifyOne
                     /\ UNCHANGED closed
TryPushRefuses == closed /\ UNCHANGED queueVars

\* waitPop: the predicate is `cancelled || closed_ || !queue_.empty()`.
WaitSleeps(w, cancelled) == /\ ~cancelled /\ ~closed /\ queue = <<>>
                            /\ asleep' = asleep \union {w}
                            /\ UNCHANGED <<queue, closed>>
WaitStops(cancelled) == /\ cancelled \/ (closed /\ queue = <<>>)
                        /\ UNCHANGED queueVars
WaitTakes(cancelled) == /\ ~cancelled /\ queue # <<>>
                        /\ queue' = Tail(queue)
                        /\ UNCHANGED <<closed, asleep>>

\* The C++ standard lets a wait return without a notification.
SpuriousWake(w) == /\ w \in asleep
                   /\ asleep' = asleep \ {w}
                   /\ UNCHANGED <<queue, closed>>

\* Mutant: closes the queue without waking the sleepers.
CloseSilently == closed' = TRUE /\ UNCHANGED <<queue, asleep>>

Close == closed' = TRUE /\ NotifyAll /\ UNCHANGED queue
Drain == queue' = <<>> /\ NotifyAll /\ UNCHANGED closed
=============================================================================
