---------------------------- MODULE JobLifecycle ----------------------------
(***************************************************************************)
(* What the delegation tools promise about a job, whatever queue and       *)
(* runner implement it: the lifecycle diagram of the delegation design     *)
(* ("Job lifecycle", docs/design/02-p1-delegation.md), with one job        *)
(* running at a time and verdicts that never change.                       *)
(***************************************************************************)
CONSTANTS
  Jobs  \* the job ids that may ever be generated

VARIABLES
  phase \* phase[j]: where job j is in its life

Verdicts == {"complete", "failed", "cancelled"}

Phases == {"absent", "queued", "running", "gone"} \cup Verdicts

TypeOK == phase \in [Jobs -> Phases]

Init == phase = [j \in Jobs |-> "absent"]

(* A delegation is accepted. *)
Submit(j) ==
  /\ phase[j] = "absent"
  /\ phase' = [phase EXCEPT ![j] = "queued"]

(* The job starts; no other job is running. *)
Start(j) ==
  /\ phase[j] = "queued"
  /\ \A k \in Jobs : phase[k] # "running"
  /\ phase' = [phase EXCEPT ![j] = "running"]

(* A running job reaches any verdict; a queued one can only be cancelled. *)
Finish(j) ==
  \/ /\ phase[j] = "running"
     /\ \E v \in Verdicts : phase' = [phase EXCEPT ![j] = v]
  \/ /\ phase[j] = "queued"
     /\ phase' = [phase EXCEPT ![j] = "cancelled"]

(* Old verdicts are forgotten. *)
Expire ==
  \E S \in SUBSET {j \in Jobs : phase[j] \in Verdicts} :
    phase' = [j \in Jobs |-> IF j \in S THEN "gone" ELSE phase[j]]

(* The process dies: the jobs live in memory only. *)
Lose ==
  phase' = [j \in Jobs |-> IF phase[j] = "absent" THEN "absent" ELSE "gone"]

Next ==
  \/ \E j \in Jobs : Submit(j) \/ Start(j) \/ Finish(j)
  \/ Expire
  \/ Lose

Spec == Init /\ [][Next]_phase
=============================================================================
