----------------------------- MODULE PhaseWorkers -----------------------------
(* The simulator class WolviRepCutVerilatorSim that                           *)
(* lib/emit/verilator_repcut_package.cpp generates: the main thread runs the  *)
(* load functions, hands slices of the eval and of the update functions to    *)
(* its phase workers and waits for each of them; the destructor stops and     *)
(* joins the workers.                                                         *)
(*                                                                            *)
(* Every region under a worker's mutex is one action, a predicate that fails  *)
(* and the wait that follows it included; what happens outside of the mutex,  *)
(* notify_one and the functions themselves, is separate. A function has a     *)
(* beginning and an end. A worker's condition variable has two users, the     *)
(* worker and the main thread; whoever notifies is one of them and awake, so  *)
(* that notify_one reaches the other if it sleeps there, or nobody. Clocks    *)
(* and timing statistics are left out.                                        *)
EXTENDS SimulatorMemory

CONSTANTS
    Requests,    \* values of XS_EMU_THREADS
    MaxCpus      \* the most CPUs the process may run on

ASSUME HostAssumption == MaxCpus \in Nat /\ Requests \subseteq Nat

Workers == 0..(MaxCpus - 1)

VARIABLES
    count,       \* phase_worker_count_: zero when the phases run in main
    active,      \* active_phase_fns_: "none" or the list
    hasWork,     \* PhaseWorker::hasWork
    completed,   \* PhaseWorker::completed
    stop,        \* PhaseWorker::stop
    mpc,         \* where the main thread is
    mi,          \* workerIndex of its loop, or the functions it has run itself
    wpc,         \* where each worker is
    wfns,        \* the worker's phaseFns
    wi           \* the worker's index: functions of its slice it has passed

flags  == <<hasWork, completed, stop>>
worker == <<wpc, wfns, wi>>
main   == <<mpc, mi>>
vars   == <<memory, count, active, flags, main, worker>>

(* run_phase_batch_: n functions are cut into c slices; worker w's slice is    *)
(* the functions after its SliceBegin up to its SliceEnd.                     *)
Cut(n, c, w) == (n * w) \div c
SliceBegin(p, w) == Cut(Len(Fns(p)), count, w)
\* Mutant: the end of a slice is rounded up.
SliceEndRoundedUp(p, w) == (Len(Fns(p)) * (w + 1) + count - 1) \div count
SliceEnd(p, w)   == Cut(Len(Fns(p)), count, w + 1)

Init ==
    /\ MemoryInit
    /\ count = 0
    /\ active = "none"
    /\ hasWork = [w \in Workers |-> FALSE]
    /\ completed = [w \in Workers |-> FALSE]
    /\ stop = [w \in Workers |-> FALSE]
    /\ mpc = IF pkg.ok THEN "construct" ELSE "refused"
    /\ mi = 0
    /\ wpc = [w \in Workers |-> "unborn"]
    /\ wfns = [w \in Workers |-> "none"]
    /\ wi = [w \in Workers |-> 0]

-------------------------------------------------------------------------------
(* The main thread.                                                           *)

Smaller(a, b) == IF a < b THEN a ELSE b
Larger(a, b)  == IF a > b THEN a ELSE b
MaxParallelFns == Larger(Len(pkg.evals), Len(pkg.updates))

(* initialize_phase_workers_, up to the loop that starts the threads: how     *)
(* many there will be.                                                        *)
WorkerCount(requested, cpus) ==
    IF MaxParallelFns < 2 \/ requested < 2 \/ cpus < 2 THEN 0
    ELSE Smaller(Smaller(MaxParallelFns, requested), cpus)

\* Mutant: the constants are never fed.
ConstructWithoutConstants(requested, cpus) ==
    /\ mpc = "construct"
    /\ phase' = "idle"
    /\ count' = IF requested > MaxParallelFns THEN 0 ELSE WorkerCount(requested, cpus)
    /\ mpc' = IF requested > MaxParallelFns THEN "aborted"
              ELSE IF count' = 0 THEN "idle" ELSE "spawn"
    /\ UNCHANGED <<pkg, step, held, evals, active, flags, mi, worker>>

(* The constructor's body: the constants are fed, then the assertion that     *)
(* XS_EMU_THREADS does not exceed the number of functions.                    *)
Construct(requested, cpus) ==
    /\ mpc = "construct"
    /\ held' = Filled(ConstSlots, 0)
    /\ phase' = "idle"
    /\ count' = IF requested > MaxParallelFns THEN 0 ELSE WorkerCount(requested, cpus)
    /\ mpc' = IF requested > MaxParallelFns THEN "aborted"
              ELSE IF count' = 0 THEN "idle" ELSE "spawn"
    /\ UNCHANGED <<pkg, step, evals, active, flags, mi, worker>>

(* One thread is started; it may be scheduled at once or much later.          *)
Spawn ==
    /\ mpc = "spawn"
    /\ wpc' = [wpc EXCEPT ![mi] = "wait"]
    /\ IF mi + 1 < count THEN mi' = mi + 1 /\ UNCHANGED mpc
                         ELSE mi' = 0 /\ mpc' = "idle"
    /\ UNCHANGED <<memory, count, active, flags, wfns, wi>>

(* step() is called: run_host_phase_ of the load functions comes first.       *)
Step ==
    /\ mpc = "idle" /\ step < MaxSteps
    /\ step' = step + 1
    /\ phase' = "load"
    /\ mpc' = "run" /\ mi' = 0
    /\ UNCHANGED <<pkg, held, evals, count, active, flags, worker>>

(* A function that the main thread runs itself: a load function, or any       *)
(* function when there are no workers (run_phase_batch_ with one slice).      *)
HostFnBegins ==
    /\ mpc = "run" /\ mi < Len(Fns(phase))
    /\ mpc' = "busy"
    /\ UNCHANGED <<memory, count, active, flags, mi, worker>>

HostFnEnds ==
    /\ mpc = "busy"
    /\ CallFn(phase, mi + 1)
    /\ mpc' = "run" /\ mi' = mi + 1
    /\ UNCHANGED <<pkg, step, phase, count, active, flags, worker>>

HostPhaseEnds ==
    /\ mpc = "run" /\ mi = Len(Fns(phase))
    /\ mpc' = "next"
    /\ UNCHANGED <<memory, count, active, flags, mi, worker>>

(* step() goes on to its next phase, or returns. run_phase_workers_ returns   *)
(* at once for an empty list and runs the list itself without workers.        *)
EnterPhase ==
    /\ mpc = "next"
    /\ phase' = NextPhase(phase)
    /\ mi' = 0
    /\ \/ phase' = "idle" /\ mpc' = "idle" /\ UNCHANGED active
       \/ phase' # "idle" /\ Fns(phase') = <<>> /\ mpc' = "next" /\ UNCHANGED active
       \/ phase' # "idle" /\ Fns(phase') # <<>> /\ count = 0 /\ mpc' = "run" /\ UNCHANGED active
       \/ phase' # "idle" /\ Fns(phase') # <<>> /\ count # 0 /\ mpc' = "post" /\ active' = phase'
    /\ UNCHANGED <<pkg, step, held, evals, count, flags, worker>>

\* Mutant: the worker's last completion is not taken back.
PostKeepsCompleted ==
    /\ mpc = "post"
    /\ hasWork' = [hasWork EXCEPT ![mi] = TRUE]
    /\ mpc' = "notify"
    /\ UNCHANGED <<memory, count, active, completed, stop, mi, worker>>

(* run_phase_workers_, first loop: under worker mi's mutex.                   *)
Post ==
    /\ mpc = "post"
    /\ completed' = [completed EXCEPT ![mi] = FALSE]
    /\ hasWork' = [hasWork EXCEPT ![mi] = TRUE]
    /\ mpc' = "notify"
    /\ UNCHANGED <<memory, count, active, stop, mi, worker>>

(* notify_one wakes the worker if it sleeps on its condition variable.        *)
Wake(w) == wpc' = [wpc EXCEPT ![w] = IF @ = "asleep" THEN "wait" ELSE @]

Notify ==
    /\ mpc = "notify"
    /\ Wake(mi)
    /\ IF mi + 1 < count THEN mi' = mi + 1 /\ mpc' = "post"
                         ELSE mi' = 0 /\ mpc' = "await"
    /\ UNCHANGED <<memory, count, active, flags, wfns, wi>>

(* run_phase_workers_, second loop: the predicate fails and main sleeps, or   *)
(* it holds and the loop goes on.                                             *)
AwaitSleeps ==
    /\ mpc = "await" /\ ~completed[mi]
    /\ mpc' = "asleep"
    /\ UNCHANGED <<memory, count, active, flags, mi, worker>>

AwaitPasses ==
    /\ mpc = "await" /\ completed[mi]
    /\ IF mi + 1 < count THEN mi' = mi + 1 /\ UNCHANGED mpc
                         ELSE mpc' = "leave" /\ UNCHANGED mi
    /\ UNCHANGED <<memory, count, active, flags, worker>>

(* The wait may return without a notification.                                *)
MainWakesUp ==
    /\ mpc = "asleep"
    /\ mpc' = "await"
    /\ UNCHANGED <<memory, count, active, flags, mi, worker>>

LeavePhase ==
    /\ mpc = "leave"
    /\ active' = "none"
    /\ mpc' = "next"
    /\ UNCHANGED <<memory, count, flags, mi, worker>>

(* The destructor: shutdown_phase_workers_.                                   *)
Destroy ==
    /\ mpc = "idle"
    /\ phase' = "off"
    /\ mpc' = IF count = 0 THEN "over" ELSE "halt"
    /\ mi' = 0
    /\ UNCHANGED <<pkg, step, held, evals, count, active, flags, worker>>

\* Mutant: stop is set, but the predicate of the worker's wait stays false.
HaltWithoutWork ==
    /\ mpc = "halt"
    /\ stop' = [stop EXCEPT ![mi] = TRUE]
    /\ mpc' = "haltNotify"
    /\ UNCHANGED <<memory, count, active, hasWork, completed, mi, worker>>

Halt ==
    /\ mpc = "halt"
    /\ stop' = [stop EXCEPT ![mi] = TRUE]
    /\ hasWork' = [hasWork EXCEPT ![mi] = TRUE]
    /\ mpc' = "haltNotify"
    /\ UNCHANGED <<memory, count, active, completed, mi, worker>>

HaltNotify ==
    /\ mpc = "haltNotify"
    /\ Wake(mi)
    /\ IF mi + 1 < count THEN mi' = mi + 1 /\ mpc' = "halt"
                         ELSE mi' = 0 /\ mpc' = "join"
    /\ UNCHANGED <<memory, count, active, flags, wfns, wi>>

Join ==
    /\ mpc = "join" /\ wpc[mi] = "exited"
    /\ IF mi + 1 < count THEN mi' = mi + 1 /\ UNCHANGED <<mpc, count>>
                         ELSE mi' = 0 /\ mpc' = "over" /\ count' = 0
    /\ UNCHANGED <<memory, active, flags, worker>>

-------------------------------------------------------------------------------
(* phase_worker_loop_.                                                        *)

WorkerSleeps(w) ==
    /\ wpc[w] = "wait" /\ ~hasWork[w]
    /\ wpc' = [wpc EXCEPT ![w] = "asleep"]
    /\ UNCHANGED <<memory, count, active, flags, main, wfns, wi>>

WorkerWakesUp(w) ==
    /\ wpc[w] = "asleep"
    /\ wpc' = [wpc EXCEPT ![w] = "wait"]
    /\ UNCHANGED <<memory, count, active, flags, main, wfns, wi>>

WorkerStops(w) ==
    /\ wpc[w] = "wait" /\ hasWork[w] /\ stop[w]
    /\ wpc' = [wpc EXCEPT ![w] = "exited"]
    /\ UNCHANGED <<memory, count, active, flags, main, wfns, wi>>

(* The worker takes the list, still under its mutex.                          *)
WorkerTakes(w) ==
    /\ wpc[w] = "wait" /\ hasWork[w] /\ ~stop[w]
    /\ hasWork' = [hasWork EXCEPT ![w] = FALSE]
    /\ wfns' = [wfns EXCEPT ![w] = active]
    /\ wi' = [wi EXCEPT ![w] = SliceBegin(active, w)]
    /\ wpc' = [wpc EXCEPT ![w] = "run"]
    /\ UNCHANGED <<memory, count, active, completed, stop, main>>

WorkerFnBegins(w) ==
    /\ wpc[w] = "run" /\ wi[w] < SliceEnd(wfns[w], w)
    /\ wpc' = [wpc EXCEPT ![w] = "busy"]
    /\ UNCHANGED <<memory, count, active, flags, main, wfns, wi>>

WorkerFnEnds(w) ==
    /\ wpc[w] = "busy"
    /\ CallFn(wfns[w], wi[w] + 1)
    /\ wpc' = [wpc EXCEPT ![w] = "run"]
    /\ wi' = [wi EXCEPT ![w] = @ + 1]
    /\ UNCHANGED <<pkg, step, phase, count, active, flags, main, wfns>>

(* Under its mutex again.                                                     *)
WorkerCompletes(w) ==
    /\ wpc[w] = "run" /\ wi[w] = SliceEnd(wfns[w], w)
    /\ completed' = [completed EXCEPT ![w] = TRUE]
    /\ wpc' = [wpc EXCEPT ![w] = "notify"]
    /\ UNCHANGED <<memory, count, active, hasWork, stop, main, wfns, wi>>

(* notify_one, after the mutex is released: main if it sleeps there.          *)
WorkerNotifies(w) ==
    /\ wpc[w] = "notify"
    /\ wpc' = [wpc EXCEPT ![w] = "wait"]
    /\ mpc' = IF mpc = "asleep" /\ mi = w THEN "await" ELSE mpc
    /\ UNCHANGED <<memory, count, active, flags, mi, wfns, wi>>

-------------------------------------------------------------------------------
MainStep ==
    \/ \E requested \in Requests, cpus \in 0..MaxCpus : Construct(requested, cpus)
    \/ Spawn \/ Step \/ HostFnBegins \/ HostFnEnds \/ HostPhaseEnds \/ EnterPhase
    \/ Post \/ Notify \/ AwaitSleeps \/ AwaitPasses \/ LeavePhase
    \/ Destroy \/ Halt \/ HaltNotify \/ Join

WorkerStep(w) ==
    \/ WorkerSleeps(w) \/ WorkerStops(w) \/ WorkerTakes(w) \/ WorkerFnBegins(w)
    \/ WorkerFnEnds(w) \/ WorkerCompletes(w) \/ WorkerNotifies(w)

Next ==
    \/ MainStep
    \/ MainWakesUp
    \/ \E w \in Workers : WorkerStep(w) \/ WorkerWakesUp(w)

Spec == Init /\ [][Next]_vars

(* The scheduler runs every thread that can run, and the program that uses    *)
(* the simulator ends some day. A wait that returns without a notification is *)
(* never relied upon.                                                         *)
FairSpec ==
    /\ Spec
    /\ WF_vars(MainStep)
    /\ \A w \in Workers : WF_vars(WorkerStep(w))
-------------------------------------------------------------------------------
(* Properties.                                                                *)

(* Where a function reads and writes: slots, and the outputs of a unit.       *)
OutputsOf(u) == <<u, 0>>
Reads(p, u) ==
    CASE p = "load" -> {} [] p = "eval" -> InputSlots(u) [] OTHER -> {OutputsOf(u)}
Writes(p, u) ==
    CASE p = "load" -> TopSlots(u) [] p = "eval" -> {OutputsOf(u)} [] OTHER -> PushedSlots(u)

(* The functions that have begun and not ended.                               *)
Busy ==
    {[by |-> w, p |-> wfns[w], u |-> Fns(wfns[w])[wi[w] + 1]] :
        w \in {v \in Workers : wpc[v] = "busy"}}
    \cup (IF mpc = "busy" THEN {[by |-> -1, p |-> phase, u |-> Fns(phase)[mi + 1]]} ELSE {})

(* No function writes a member of the simulator that a function which another *)
(* thread is in the middle of reads or writes. The members have no lock: the  *)
(* two waits of run_phase_workers_ are all that keeps the pushes of one       *)
(* worker from the inputs of a unit that another one still evaluates.         *)
NoRace ==
    \A f, g \in Busy :
        f.by # g.by => Writes(f.p, f.u) \cap (Reads(g.p, g.u) \cup Writes(g.p, g.u)) = {}

(* The version of its driver that a slot must hold while step number step     *)
(* evaluates the units; the driver is the one the top graph's definitions     *)
(* give (not the one of the package).                                         *)
Expected(s) ==
    LET d == Source(pkg.graph, Wire(pkg.graph, s))
    IN  CASE d.kind = "top"   -> [from |-> d, at |-> step]
          [] d.kind = "const" -> [from |-> d, at |-> 0]
          [] d.kind = "unit"  -> IF step = 1 THEN Zero ELSE [from |-> d, at |-> step - 1]

(* A parallel step computes what the serial one does: the evaluation of a     *)
(* unit in a step is its only one, and it sees the inputs of the top loaded   *)
(* in this step, the constants, and the outputs that the other units had at   *)
(* the end of the step before; when step() returns, the outputs of the top    *)
(* are those of this step.                                                    *)
StepSynchronous ==
    [][/\ \A u \in DOMAIN evals :
            evals'[u] # evals[u] =>
              /\ evals'[u] = step
              /\ \A s \in InputSlots(u) : held[s] = Expected(s)
       /\ phase = "update" /\ phase' = "idle" =>
            \A s \in PortSlots(pkg.graph) :
              held[s] = [from |-> Source(pkg.graph, Wire(pkg.graph, s)), at |-> step]]_vars

(* Functions of the current list that have not ended.                         *)
Posted(w) ==
    CASE mpc = "post" -> w < mi [] mpc = "notify" -> w <= mi [] OTHER -> TRUE
WorkerLeft(w) ==
    IF wpc[w] \in {"run", "busy"} THEN wi[w] + 1 .. SliceEnd(phase, w)
    ELSE IF ~Posted(w) \/ hasWork[w] THEN SliceBegin(phase, w) + 1 .. SliceEnd(phase, w)
    ELSE {}
Left ==
    IF mpc \in {"run", "busy"} THEN mi + 1 .. Len(Fns(phase))
    ELSE IF mpc \in {"post", "notify", "await", "asleep", "leave"}
      THEN UNION {WorkerLeft(w) : w \in 0..(count - 1)}
    ELSE {}

Promise == INSTANCE StepPhases WITH left <- Left

(* The simulator implements StepPhases: each function of a phase runs once,   *)
(* on one thread, and the next phase starts when all of them have ended.      *)
RefinesStep == Promise!PhaseSpec

(* Every step() returns and the destructor joins its workers, whatever        *)
(* notifications are lost because the other side does not sleep yet: the      *)
(* program ends (or the constructor's assertion has ended it).                *)
SimulatorEnds == <>(mpc \in {"over", "refused", "aborted"})
=============================================================================
