------------------------------ MODULE PlanCache ------------------------------
(***************************************************************************)
(* The plan cache of the ingest conversion: per plan key a status and the  *)
(* artifacts of the passes.  A plan key is the conversion's unit of work:  *)
(* it names a module definition together with its parameter signature.     *)
(* Two instances with the same definition and signature share one key; the *)
(* body they carry is not part of the identity (PlanKey::operator==).      *)
(* Every method holds the cache's mutex, so each is one step.              *)
(***************************************************************************)
CONSTANT Keys

VARIABLES status,      \* PlanEntry::status; "Absent" when entries_ lacks the key
          artifacts    \* which of plan, loweringPlan and writeBackPlan are set

cacheVars == <<status, artifacts>>

Statuses == {"Absent", "Pending", "Planning", "Done", "Failed"}
ArtifactKinds == {"plan", "lowering", "writeBack"}

CacheTypeOK == /\ status \in [Keys -> Statuses]
               /\ artifacts \in [Keys -> SUBSET ArtifactKinds]

CacheInit == /\ status = [k \in Keys |-> "Absent"]
             /\ artifacts = [k \in Keys |-> {}]

\* tryClaim: the first caller plans the key; a failed or pending entry may be
\* claimed again and loses its plan.
Claimable(k) == status[k] \notin {"Planning", "Done"}
TryClaim(k) == /\ Claimable(k)
               /\ status' = [status EXCEPT ![k] = "Planning"]
               /\ artifacts' = [artifacts EXCEPT ![k] = @ \ {"plan"}]
TryClaimLoses(k) == ~Claimable(k) /\ UNCHANGED cacheVars

\* Mutant: artifacts are written to stored plans only.
CanWriteStoredOnly(k) == status[k] = "Done"

\* setLoweringPlan, setWriteBackPlan: a no-op on an entry that is missing,
\* failed or pending.
CanWriteArtifacts(k) == status[k] \in {"Planning", "Done"}
SetArtifact(k, kind) ==
  /\ artifacts' = IF CanWriteArtifacts(k)
                  THEN [artifacts EXCEPT ![k] = @ \union {kind}]
                  ELSE artifacts
  /\ UNCHANGED status

\* storePlan
StorePlan(k) == /\ status' = [status EXCEPT ![k] = "Done"]
                /\ artifacts' = [artifacts EXCEPT ![k] = @ \union {"plan"}]
=============================================================================
