------------------------------ MODULE JobQueue ------------------------------
(***************************************************************************)
(* The in-memory job queue of the daemon (jobs/queue.ts): the records Map, *)
(* the FIFO of queued ids and the id of the one running job.  Every method *)
(* is synchronous, so each is one action; any caller may call any method   *)
(* at any time, as the tools, the runner and the daily timer do.           *)
(*                                                                         *)
(* Time is counted in units of the retention period, which is enough to    *)
(* tell a record that must be kept from one that may be swept.             *)
(***************************************************************************)
EXTENDS Naturals, Sequences, SequencesExt

CONSTANTS
  Jobs,      \* the job ids generateJobId may return, each at most once
  None,      \* "no job is running"
  MaxTurns,  \* bound: assistant turns counted in a job's partial progress
  MaxClock   \* bound: time

ASSUME JobQueueAssumption ==
  /\ None \notin Jobs
  /\ MaxTurns \in Nat
  /\ MaxClock \in Nat

VARIABLES
  records, \* records[j]: the job's JobRunState; absent / gone: not in the Map
  pending, \* FIFO of queued job ids
  running, \* the running job, or None
  issued,  \* number of jobs enqueued so far: the order of enqueued_at
  clock    \* this.now()

queueVars == <<records, pending, running, issued, clock>>

-----------------------------------------------------------------------------
Verdicts == {"complete", "failed", "cancelled"}

Statuses == {"absent", "queued", "running", "gone"} \cup Verdicts

(* A report is reduced to the status field it carries. *)
Reports == {"none"} \cup Verdicts

JobRecord ==
  [status           : Statuses,
   prior_status     : {"none", "queued", "running"},
   cancel_requested : BOOLEAN,
   partial          : 0..MaxTurns,
   report           : Reports,
   terminal_at      : Nat,
   resolved         : BOOLEAN,   \* terminal_promise has been resolved
   enqueued_at      : Nat]

(* The record of a job that is in state s and has no history. *)
Blank(s, at) ==
  [status |-> s, prior_status |-> "none", cancel_requested |-> FALSE,
   partial |-> 0, report |-> "none", terminal_at |-> 0, resolved |-> FALSE,
   enqueued_at |-> at]

RETENTION == 1

Status(j) == records[j].status
Known(j) == Status(j) \notin {"absent", "gone"}
Queued(j) == Status(j) = "queued"
Terminal(j) == Status(j) \in Verdicts

(* The job was claimed at some point of its life. *)
Started(j) ==
  Status(j) = "running" \/ (Terminal(j) /\ records[j].prior_status = "running")

QueueTypeOK ==
  /\ records \in [Jobs -> JobRecord]
  /\ pending \in Seq(Jobs)
  /\ running \in Jobs \cup {None}
  /\ issued \in Nat
  /\ clock \in Nat

QueueInit ==
  /\ records = [j \in Jobs |-> Blank("absent", 0)]
  /\ pending = <<>>
  /\ running = None
  /\ issued = 0
  /\ clock = 0

-----------------------------------------------------------------------------
Enqueue(j) ==
  /\ Status(j) = "absent"
  /\ records' = [records EXCEPT ![j] = Blank("queued", issued)]
  /\ pending' = Append(pending, j)
  /\ issued' = issued + 1
  /\ UNCHANGED <<running, clock>>

(* Fault: the newest job is claimed first (pop for shift). *)
ClaimNewest ==
  /\ running = None
  /\ pending # <<>>
  /\ running' = Last(pending)
  /\ records' = [records EXCEPT ![Last(pending)].prior_status = "queued",
                                ![Last(pending)].status = "running"]
  /\ pending' = Front(pending)
  /\ UNCHANGED <<issued, clock>>

(* Returns null, and changes nothing, when a job runs or none is queued. *)
ClaimNext ==
  /\ running = None
  /\ pending # <<>>
  /\ LET j == Head(pending) IN
       /\ running' = j
       /\ records' = [records EXCEPT ![j].prior_status = Status(j),
                                     ![j].status = "running"]
  /\ pending' = Tail(pending)
  /\ UNCHANGED <<issued, clock>>

(* Fault: the promise of the job is not resolved. *)
TransitionUnresolved(j, verdict, rep) ==
  /\ records' = [records EXCEPT ![j].prior_status = Status(j),
                                ![j].status = verdict,
                                ![j].terminal_at = clock,
                                ![j].report = rep]
  /\ running' = IF running = j THEN None ELSE running

(* The one way into a verdict: status, report, running and the promise     *)
(* long polls wait on change together.                                     *)
TransitionToTerminal(j, verdict, rep) ==
  /\ records' = [records EXCEPT ![j].prior_status = Status(j),
                                ![j].status = verdict,
                                ![j].terminal_at = clock,
                                ![j].report = rep,
                                ![j].resolved = TRUE]
  /\ running' = IF running = j THEN None ELSE running

(* Fault: the cancelled job's id stays in the FIFO. *)
CancelKeepsId(j) ==
  /\ Queued(j)
  /\ TransitionToTerminal(j, "cancelled", "cancelled")
  /\ UNCHANGED <<pending, issued, clock>>

(* cancel() on a queued job takes it out of the FIFO, where PendingIsQueued *)
(* says it is, and ends it here with the minimal report.                    *)
CancelQueued(j) ==
  /\ Queued(j)
  /\ \E i \in 1..Len(pending) :
       /\ pending[i] = j
       /\ pending' = RemoveAt(pending, i)
  /\ TransitionToTerminal(j, "cancelled", "cancelled")
  /\ UNCHANGED <<issued, clock>>

(* cancel() on a running job only asks the runner. *)
CancelRunning(j) ==
  /\ Status(j) = "running"
  /\ records' = [records EXCEPT ![j].cancel_requested = TRUE]
  /\ UNCHANGED <<pending, running, issued, clock>>

(* markComplete, markFailed and markCancelled: requireRunning throws, and  *)
(* nothing changes, unless the job is running.                             *)
Mark(j, verdict, rep) ==
  /\ Status(j) = "running"
  /\ TransitionToTerminal(j, verdict, rep)
  /\ UNCHANGED <<pending, issued, clock>>

UpdatePartial(j, turns) ==
  /\ Status(j) = "running"
  /\ records' = [records EXCEPT ![j].partial = turns]
  /\ UNCHANGED <<pending, running, issued, clock>>

(* Deletes the records of S from the Map. *)
Forget(S) ==
  records' = [j \in Jobs |-> IF j \in S THEN Blank("gone", 0) ELSE records[j]]

(* Fault: the retention period is not subtracted. *)
ExpiredAtOnce == {j \in Jobs : Terminal(j) /\ records[j].terminal_at <= clock}

(* The jobs whose verdict is older than the retention period. *)
Expired == {j \in Jobs : Terminal(j) /\ records[j].terminal_at + RETENTION < clock}

Sweep ==
  /\ Forget(Expired)
  /\ UNCHANGED <<pending, running, issued, clock>>

PassTime ==
  /\ clock < MaxClock
  /\ clock' = clock + 1
  /\ UNCHANGED <<records, pending, running, issued>>

(* The daemon dies and starts again with an empty queue; ids are fresh. *)
Restart ==
  /\ Forget({j \in Jobs : Status(j) # "absent"})
  /\ pending' = <<>>
  /\ running' = None
  /\ UNCHANGED <<issued, clock>>

QueueNext ==
  \/ \E j \in Jobs :
       \/ Enqueue(j)
       \/ CancelQueued(j)
       \/ CancelRunning(j)
       \/ \E v \in Verdicts : \E r \in {v, "failed"} : Mark(j, v, r)
       \/ \E n \in 1..MaxTurns : UpdatePartial(j, n)
  \/ ClaimNext
  \/ Sweep
  \/ PassTime
  \/ Restart

QueueSpec == QueueInit /\ [][QueueNext]_queueVars

-----------------------------------------------------------------------------
(* The FIFO holds exactly the queued jobs, each once: a job cancelled      *)
(* while queued leaves no id behind for claimNext to start, and no queued  *)
(* job is stranded outside the FIFO (enqueue, claimNext, cancel).          *)
PendingIsQueued ==
  /\ \A i, k \in 1..Len(pending) : pending[i] = pending[k] => i = k
  /\ \A i \in 1..Len(pending) : Queued(pending[i])
  /\ \A j \in Jobs : Queued(j) => \E i \in 1..Len(pending) : pending[i] = j

(* "At most one job in running state at any time", and the running field   *)
(* names it: a verdict, a cancel or a claim never leaves the two apart.    *)
RunningIsClaimed ==
  \A j \in Jobs : Status(j) = "running" <=> running = j

(* Jobs start in the order they were enqueued: no job that was ever        *)
(* claimed was enqueued after a job that still waits.                      *)
NoOvertaking ==
  /\ \A i, k \in 1..Len(pending) :
       i < k => records[pending[i]].enqueued_at < records[pending[k]].enqueued_at
  /\ \A j, k \in Jobs :
       Started(j) /\ Queued(k) => records[j].enqueued_at < records[k].enqueued_at

(* A long poll's promise is resolved exactly when the job has a verdict,   *)
(* and a verdict always comes with its report (transitionToTerminal).      *)
VerdictIsAnnounced ==
  \A j \in Jobs :
    /\ Terminal(j) <=> records[j].resolved
    /\ Terminal(j) <=> records[j].report # "none"

(* "Once terminal, the job is immutable and its report is the final word": *)
(* the record of a job with a verdict is only ever removed.                *)
VerdictIsFinal ==
  [][\A j \in Jobs :
       Terminal(j) => records'[j] = records[j] \/ records'[j].status = "gone"]_queueVars

(* The queue implements the lifecycle the design promises. *)
Lifecycle == INSTANCE JobLifecycle WITH phase <- [j \in Jobs |-> Status(j)]

LifecycleSpec == Lifecycle!Spec
=============================================================================
