------------------------------ MODULE ConvertRun ------------------------------
(***************************************************************************)
(* What a conversion promises, whatever threads run it: modules are found  *)
(* from the top modules down, each is begun once and built once after all  *)
(* it instantiates has been found, and the caller gets either an abort,    *)
(* which a reported error has asked for, or a design in which nothing that *)
(* was found is missing unless an error was reported.                      *)
(***************************************************************************)
EXTENDS Sequences

CONSTANTS Keys, Tops, Children, AbortOnError

VARIABLES found, begun, built,   \* sets of keys
          failed,                \* an error was reported
          result                 \* "none", "design" or "abort"

runVars == <<found, begun, built, failed, result>>

RunInit == /\ found = {} /\ begun = {} /\ built = {}
           /\ failed = FALSE /\ result = "none"

Members(s) == {s[i] : i \in DOMAIN s}

Find(k) == /\ result = "none"
           /\ k \notin found
           /\ \/ k \in Members(Tops)
              \/ \E p \in begun \ built : k \in Members(Children[p])
           /\ found' = found \union {k}
           /\ UNCHANGED <<begun, built, failed, result>>

StartKey(k) == /\ result = "none"
               /\ k \in found \ begun
               /\ begun' = begun \union {k}
               /\ UNCHANGED <<found, built, failed, result>>

Build(k) == /\ result = "none"
            /\ k \in begun \ built
            /\ Members(Children[k]) \subseteq found
            /\ built' = built \union {k}
            /\ UNCHANGED <<found, begun, failed, result>>

Fail == /\ result = "none" /\ failed' = TRUE
        /\ UNCHANGED <<found, begun, built, result>>

Abort == /\ result = "none" /\ AbortOnError /\ failed
         /\ result' = "abort"
         /\ UNCHANGED <<found, begun, built, failed>>

Deliver == /\ result = "none" /\ ~(AbortOnError /\ failed)
           /\ Members(Tops) \subseteq found /\ found = begun
           /\ ~failed => begun = built
           /\ result' = "design"
           /\ UNCHANGED <<found, begun, built, failed>>

RunNext == \/ \E k \in Keys : Find(k) \/ StartKey(k) \/ Build(k)
           \/ Fail \/ Abort \/ Deliver

RunSpec == RunInit /\ [][RunNext]_runVars
=============================================================================
