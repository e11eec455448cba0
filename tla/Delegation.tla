----------------------------- MODULE Delegation -----------------------------
(***************************************************************************)
(* A delegation from the tool call to the verdict: the job queue, the SDK  *)
(* runner that drives it (jobs/sdk-runner.ts) and the delegate, poll and   *)
(* cancel tool handlers (mcp/tools) that run between the runner's awaits.  *)
(*                                                                         *)
(* One action is the code between two awaits.  The runner's position is    *)
(* the await it is parked on:                                              *)
(*   before      the before-snapshot                                       *)
(*   streaming   the next message of the SDK query                         *)
(*   closing     the transcript's close and the after-snapshot             *)
(*   assembling  the report, after the verdict has been decided            *)
(*   failing     failJob, when the query could not be constructed          *)
(*   finishing   failJob has returned, finishCycle has not run yet         *)
(* The runner is busy exactly when it is not idle.  A tickle is a queued   *)
(* microtask; here other handlers may run before it, which adds behaviours *)
(* and removes none.  The workspace of a job always resolves: delegate has *)
(* resolved it before and the store never drops an entry.                  *)
(***************************************************************************)
EXTENDS JobQueue

CONSTANTS
  Callers  \* MCP requests that may be parked in a handler at the same time

VARIABLES
  pc,       \* the await dispatchNext is parked on
  current,  \* currentJobId
  abort,    \* currentAbort: none, live, or aborted
  outcome,  \* how the query ended; from assembling on, the verdict
  ticks,    \* queued dispatchNext microtasks
  calls     \* calls[c]: the handler caller c waits in

runnerVars == <<pc, current, abort, outcome, ticks>>

vars == <<queueVars, runnerVars, calls>>

-----------------------------------------------------------------------------
Idle == [op |-> "none", job |-> None]

Waits(c, op) == calls[c].op = op

TypeOK ==
  /\ QueueTypeOK
  /\ pc \in {"idle", "before", "streaming", "closing", "assembling",
             "failing", "finishing"}
  /\ current \in Jobs \cup {None}
  /\ abort \in {"none", "live", "aborted"}
  /\ outcome \in {"none"} \cup Verdicts
  /\ ticks \in Nat
  /\ calls \in [Callers -> [op : {"none", "poll", "cancel"}, job : Jobs \cup {None}]]

Init ==
  /\ QueueInit
  /\ pc = "idle"
  /\ current = None
  /\ abort = "none"
  /\ outcome = "none"
  /\ ticks = 0
  /\ calls = [c \in Callers |-> Idle]

-----------------------------------------------------------------------------
(* The tail of the delegate handler: enqueue, then tickle.  A tickle while *)
(* the runner is busy does nothing.                                        *)
Delegate(j) ==
  /\ Enqueue(j)
  /\ ticks' = IF pc = "idle" THEN ticks + 1 ELSE ticks
  /\ UNCHANGED <<pc, current, abort, outcome, calls>>

(* A dispatchNext microtask that finds the runner busy or no job to claim. *)
DispatchNothing ==
  /\ ticks > 0
  /\ pc # "idle" \/ pending = <<>>
  /\ ticks' = ticks - 1
  /\ UNCHANGED <<queueVars, pc, current, abort, outcome, calls>>

(* dispatchNext up to the before-snapshot. *)
Dispatch ==
  /\ ticks > 0
  /\ pc = "idle"
  /\ ClaimNext
  /\ ticks' = ticks - 1
  /\ pc' = "before"
  /\ current' = Head(pending)
  /\ UNCHANGED <<abort, outcome, calls>>

(* The snapshot is taken: only now is there a controller to abort. *)
StartQuery ==
  /\ pc = "before"
  /\ pc' = "streaming"
  /\ abort' = "live"
  /\ UNCHANGED <<queueVars, current, outcome, ticks, calls>>

(* query() throws. *)
QueryThrows ==
  /\ pc = "before"
  /\ pc' = "failing"
  /\ abort' = "live"
  /\ UNCHANGED <<queueVars, current, outcome, ticks, calls>>

AssistantTurn ==
  /\ pc = "streaming"
  /\ records[current].partial < MaxTurns
  /\ UpdatePartial(current, records[current].partial + 1)
  /\ UNCHANGED <<runnerVars, calls>>

(* The query ends by itself, with an error, or, if aborted, with an        *)
(* AbortError; an aborted query may also end in the other two ways.        *)
StreamEnds ==
  /\ pc = "streaming"
  /\ pc' = "closing"
  /\ outcome' \in {"complete", "failed"}
                    \cup (IF abort = "aborted" THEN {"cancelled"} ELSE {})
  /\ UNCHANGED <<queueVars, current, abort, ticks, calls>>

(* Fault: only the way the query ended counts. *)
DecideByOutcome ==
  /\ pc = "closing"
  /\ pc' = "assembling"
  /\ UNCHANGED <<queueVars, current, abort, outcome, ticks, calls>>

(* wasCancelled is read once, before the report is assembled. *)
DecideVerdict ==
  /\ pc = "closing"
  /\ pc' = "assembling"
  /\ outcome' = IF records[current].cancel_requested THEN "cancelled" ELSE outcome
  /\ UNCHANGED <<queueVars, current, abort, ticks, calls>>

(* statusToReportStatus of the job's status while the report is built. *)
AssembledReport(j) == IF Terminal(j) THEN Status(j) ELSE "failed"

(* Fault: the tickle comes before busy is cleared, and is dropped. *)
FinishSilently ==
  /\ pc' = "idle"
  /\ current' = None
  /\ abort' = "none"
  /\ outcome' = "none"
  /\ UNCHANGED ticks

(* Fault: currentAbort is not reset. *)
FinishKeepsAbort ==
  /\ pc' = "idle"
  /\ current' = None
  /\ outcome' = "none"
  /\ ticks' = ticks + 1
  /\ UNCHANGED abort

(* Fault: currentJobId is not reset. *)
FinishKeepsCurrent ==
  /\ pc' = "idle"
  /\ abort' = "none"
  /\ outcome' = "none"
  /\ ticks' = ticks + 1
  /\ UNCHANGED current

FinishCycle ==
  /\ pc' = "idle"
  /\ current' = None
  /\ abort' = "none"
  /\ outcome' = "none"
  /\ ticks' = ticks + 1

(* The report is there: mark the job, and go on to the next. *)
MarkVerdict ==
  /\ pc = "assembling"
  /\ Mark(current, outcome, AssembledReport(current))
  /\ FinishCycle
  /\ UNCHANGED calls

(* The end of failJob; a requested cancel is not looked at. *)
FailJob ==
  /\ pc = "failing"
  /\ Mark(current, "failed", AssembledReport(current))
  /\ pc' = "finishing"
  /\ UNCHANGED <<current, abort, outcome, ticks, calls>>

FinishFailed ==
  /\ pc = "finishing"
  /\ FinishCycle
  /\ UNCHANGED <<queueVars, calls>>

-----------------------------------------------------------------------------
(* poll_delegation with wait_ms > 0; one that need not wait only reads. *)
PollWait(c, j) ==
  /\ calls[c] = Idle
  /\ Known(j) /\ ~Terminal(j)
  /\ calls' = [calls EXCEPT ![c] = [op |-> "poll", job |-> j]]
  /\ UNCHANGED <<queueVars, runnerVars>>

(* cancel_delegation of a queued job answers at once. *)
CancelWaiting(j) ==
  /\ CancelQueued(j)
  /\ UNCHANGED <<runnerVars, calls>>

(* cancel_delegation of a running job: queue.cancel, then runner.cancel,   *)
(* which returns at once unless there is a controller to abort.            *)
CancelActive(c, j) ==
  /\ calls[c] = Idle
  /\ CancelRunning(j)
  /\ IF current = j /\ abort # "none"
     THEN /\ abort' = "aborted"
          /\ calls' = [calls EXCEPT ![c] = [op |-> "cancel", job |-> j]]
     ELSE UNCHANGED <<abort, calls>>
  /\ UNCHANGED <<pc, current, outcome, ticks>>

(* A parked handler answers: the job is over, or its timer fired. *)
Return(c) ==
  /\ calls[c] # Idle
  /\ calls' = [calls EXCEPT ![c] = Idle]
  /\ UNCHANGED <<queueVars, runnerVars>>

DailySweep == Sweep /\ UNCHANGED <<runnerVars, calls>>

(* A retention period passes; microtasks run long before that, those that  *)
(* wake a poll when its job ends included.                                 *)
TimePasses ==
  /\ ticks = 0 /\ pc # "finishing"
  /\ \A c \in Callers : Waits(c, "poll") => ~Terminal(calls[c].job)
  /\ PassTime
  /\ UNCHANGED <<runnerVars, calls>>

(* The daemon stops, is killed, or an exception escapes dispatchNext. *)
DaemonRestart ==
  /\ Restart
  /\ pc' = "idle"
  /\ current' = None
  /\ abort' = "none"
  /\ outcome' = "none"
  /\ ticks' = 0
  /\ calls' = [c \in Callers |-> Idle]

RunnerStep ==
  \/ StartQuery
  \/ QueryThrows
  \/ StreamEnds
  \/ DecideVerdict
  \/ MarkVerdict
  \/ FailJob
  \/ FinishFailed

Next ==
  \/ \E j \in Jobs : Delegate(j) \/ CancelWaiting(j)
  \/ \E c \in Callers, j \in Jobs : PollWait(c, j) \/ CancelActive(c, j)
  \/ \E c \in Callers : Return(c)
  \/ Dispatch
  \/ DispatchNothing
  \/ AssistantTurn
  \/ RunnerStep
  \/ DailySweep
  \/ TimePasses
  \/ DaemonRestart

Spec == Init /\ [][Next]_vars

(* Microtasks run, and every await of dispatchNext settles: snapshots and  *)
(* report are local file work, and max_turns makes the SDK query end.      *)
FairSpec ==
  /\ Spec
  /\ WF_vars(Dispatch)
  /\ WF_vars(DispatchNothing)
  /\ WF_vars(RunnerStep)

-----------------------------------------------------------------------------
(* Queue and runner agree on the running job at every await: the mark      *)
(* methods never throw, and no claim happens while a job is in progress.   *)
RunnerOwnsRunning ==
  /\ pc = "idle" <=> current = None
  /\ running = IF pc = "finishing" THEN None ELSE current

(* A long poll reads the record again when it wakes: the sweep, which may  *)
(* run between the verdict and the wake-up, has not removed it, so no poll *)
(* is told that a job it waited for does not exist.                        *)
PollFindsItsJob ==
  \A c \in Callers : Waits(c, "poll") => Known(calls[c].job)

(* A cancel hits the job it was meant for and no other: the controller     *)
(* that is aborted belongs to a job somebody cancelled, and a started job  *)
(* is only reported cancelled when somebody asked for that.                *)
CancelHitsItsJob ==
  /\ abort = "aborted" => current # None /\ records[current].cancel_requested
  /\ \A j \in Jobs :
       Status(j) = "cancelled" /\ records[j].prior_status = "running"
         => records[j].cancel_requested

(* A job waits beside an idle runner only with a dispatchNext on its way:  *)
(* a tickle that a busy runner drops is made up for by that of             *)
(* finishCycle, and the last dispatchNext to find nothing finds no job.    *)
WorkIsWoken == pc = "idle" /\ pending # <<>> => ticks > 0

(* Every accepted delegation gets a verdict, unless the daemon goes down. *)
EveryJobEnds ==
  \A j \in Jobs : Queued(j) ~> (Terminal(j) \/ Status(j) = "gone")

(* A cancel that arrives while the SDK query runs ends in "cancelled",     *)
(* also when the query ignores the abort and completes or fails.           *)
CancelWins ==
  \A j \in Jobs :
    (current = j /\ pc \in {"streaming", "closing"} /\ records[j].cancel_requested)
      ~> Status(j) \in {"cancelled", "gone"}
=============================================================================
