------------------------------ MODULE StepPhases ------------------------------
(* What WolviRepCutVerilatorSim::step() promises: the functions of a phase    *)
(* run in some order, each once, and no function of the next phase starts     *)
(* before the last of them has ended. First every load function, then every   *)
(* eval function, then every update function.                                 *)
EXTENDS SimulatorMemory

VARIABLE left    \* positions of the functions of the phase that have not ended

phaseVars == <<memory, left>>

PhaseInit == MemoryInit /\ left = {}

(* The constructor feeds the constants, once.                                 *)
SwitchOn ==
    /\ phase = "off" /\ pkg.ok /\ step = 0
    /\ phase' = "idle"
    /\ held' = Filled(ConstSlots, 0)
    /\ UNCHANGED <<pkg, step, left, evals>>

Begin ==
    /\ phase = "idle" /\ step < MaxSteps
    /\ step' = step + 1
    /\ phase' = "load"
    /\ left' = 1..Len(Fns(phase'))
    /\ UNCHANGED <<pkg, held, evals>>

Run(i) ==
    /\ i \in left
    /\ left' = left \ {i}
    /\ CallFn(phase, i)
    /\ UNCHANGED <<pkg, step, phase>>

Advance ==
    /\ phase \in Phases /\ left = {}
    /\ phase' = NextPhase(phase)
    /\ left' = 1..Len(Fns(phase'))
    /\ UNCHANGED <<pkg, step, held, evals>>

SwitchOff ==
    /\ phase = "idle"
    /\ phase' = "off"
    /\ UNCHANGED <<pkg, step, left, held, evals>>

PhaseNext == SwitchOn \/ Begin \/ Advance \/ SwitchOff \/ \E i \in left : Run(i)

PhaseSpec == PhaseInit /\ [][PhaseNext]_phaseVars
=============================================================================
