--------------------------- MODULE McpAudit_proofs ---------------------------
(***************************************************************************)
(* What the audit log and the server promise, proved for any number of     *)
(* calls and days and any retention.  First, an acknowledged entry stays   *)
(* in one of the files until it is due to be pruned; second, a client that *)
(* was answered has its entry.                                             *)
(*                                                                         *)
(* The first holds because the names given to files only grow (Dated), so  *)
(* a rename never meets a file with that name, and because no entry is in  *)
(* a file named for a day before its own time stamp (Stamped), so no file  *)
(* is pruned before its entries may go.  The second holds because the      *)
(* first shutdown() closes the log only once no connected client waits,    *)
(* and what is dropped is dropped while a second one has it closed.        *)
(***************************************************************************)
EXTENDS McpAudit, SequenceTheorems, TLAPS

Named == {e \in Entries : entry[e] # "none"}

(* What waits, runs or is on disk was appended. *)
Appended ==
  /\ \A i \in 1..Len(queue) : queue[i] \in Entries => entry[queue[i]] # "none"
  /\ job \in Entries => entry[job] # "none"
  /\ active \subseteq Named
  /\ \A d \in Days : archive[d] \subseteq Named

(* Dates only go forward, and the name of the next archive is free. *)
Dated ==
  /\ current <= today
  /\ stage = "date" <=> job = Idle
  /\ stage = "rename" => current # Unset /\ current < target /\ target <= today
  /\ stage = "ready" => current # Unset
  /\ \A d \in Days : archive[d] # {} => d < today /\ (current # Unset => d < current)

(* No entry is, or will be, in a file named for an earlier day. *)
Stamped ==
  /\ \A e \in Entries : day[e] <= today
  /\ stage = "rename" /\ job \in Entries => day[job] <= target
  /\ stage = "ready" /\ job \in Entries => day[job] <= current
  /\ current # Unset => \A e \in active : day[e] <= current
  /\ \A d \in Days : \A e \in archive[d] : day[e] <= d

(* The inductive invariant. *)
LogInv ==
  /\ LogTypeOK
  /\ Appended
  /\ Dated
  /\ Stamped
  /\ AcknowledgedIsKept

-----------------------------------------------------------------------------
(* The empty log has the invariant. *)
LEMMA LogInvInit == LogInit => LogInv
<1> SUFFICES ASSUME LogInit PROVE LogInv
    OBVIOUS
<1> USE AuditLogAssumption DEF LogInit, Days, Unset
<1>1. LogTypeOK
  <2>1. queue \in Seq(Entries \cup {Rotate})
        BY EmptySeq
  <2>2. today \in Days /\ due \in 1..(MaxDay + 1) /\ day \in [Entries -> 0..MaxDay]
        OBVIOUS
  <2>3. job \in Entries \cup {Rotate, Idle} /\ target \in 0..MaxDay /\ current \in 0..MaxDay
        OBVIOUS
  <2>4. entry \in [Entries -> {"none", "queued", "written", "failed", "ignored", "lost"}]
        OBVIOUS
  <2>5. active \in SUBSET Entries /\ archive \in [Days -> SUBSET Entries]
        OBVIOUS
  <2> QED BY <2>1, <2>2, <2>3, <2>4, <2>5 DEF LogTypeOK
<1>2. Appended /\ Dated /\ Stamped
      BY DEF Appended, Dated, Stamped, Named
<1>3. AcknowledgedIsKept
      BY DEF AcknowledgedIsKept
<1> QED BY <1>1, <1>2, <1>3 DEF LogInv

(* An append touches one entry and its stamp. *)
LEMMA AppendStamps ==
  ASSUME day \in [Entries -> 0..MaxDay], today \in 1..MaxDay, MaxDay \in Nat, NEW e \in Entries,
         entry \in [Entries -> {"none", "queued", "written", "failed", "ignored", "lost"}],
         AppendEntry(e)
  PROVE  /\ day' \in [Entries -> 0..MaxDay]
         /\ \A x \in Entries : day'[x] = day[x] \/ (x = e /\ day'[x] = today)
         /\ \A x \in Entries : entry'[x] = entry[x] \/ (x = e /\ entry'[x] \in {"queued", "ignored"})
<1>1. day' = day \/ day' = [day EXCEPT ![e] = today]
      BY DEF AppendEntry
<1>2. entry' = [entry EXCEPT ![e] = "ignored"] \/ entry' = [entry EXCEPT ![e] = "queued"]
      BY DEF AppendEntry
<1>3. today \in 0..MaxDay
      OBVIOUS
<1>4. day' \in [Entries -> 0..MaxDay]
      BY <1>1, <1>3
<1>5. \A x \in Entries : day'[x] = day[x] \/ (x = e /\ day'[x] = today)
      BY <1>1
<1>6. \A x \in Entries : entry'[x] = entry[x] \/ (x = e /\ entry'[x] \in {"queued", "ignored"})
      BY <1>2
<1> QED BY <1>4, <1>5, <1>6

(* An append stamps an entry that is in no file yet with today's date.     *)
LEMMA AppendEntryKeeps ==
  ASSUME LogInv, NEW e \in Entries, AppendEntry(e) PROVE LogInv'
<1> USE AuditLogAssumption DEF LogInv, AppendEntry, Days, Unset, filesAndTime
<1>a. /\ Append(queue, e) \in Seq(Entries \cup {Rotate})
      /\ Len(Append(queue, e)) = Len(queue) + 1
      /\ \A i \in 1..Len(queue) : Append(queue, e)[i] = queue[i]
      /\ Append(queue, e)[Len(queue) + 1] = e
      BY AppendProperties DEF LogTypeOK
<1>b. Len(queue) \in Nat
      BY LenProperties DEF LogTypeOK
<1>c. /\ day' \in [Entries -> 0..MaxDay]
      /\ \A x \in Entries : day'[x] = day[x] \/ (x = e /\ day'[x] = today)
      /\ \A x \in Entries : entry'[x] = entry[x] \/ (x = e /\ entry'[x] \in {"queued", "ignored"})
      BY AppendStamps DEF LogTypeOK
<1>1. LogTypeOK'
  <2>1. queue' \in Seq(Entries \cup {Rotate})
        BY <1>a DEF LogTypeOK
  <2>2. entry' \in [Entries -> {"none", "queued", "written", "failed", "ignored", "lost"}]
        BY DEF LogTypeOK
  <2> QED BY <1>c, <2>1, <2>2 DEF LogTypeOK
<1>2. Appended'
  <2>1. \A i \in 1..Len(queue') : queue'[i] \in Entries => entry'[queue'[i]] # "none"
    <3>1. CASE closed
          BY <3>1 DEF LogTypeOK, Appended
    <3>2. CASE ~closed
      <4>1. Len(queue') = Len(queue) + 1 /\ queue'[Len(queue) + 1] = e
            BY <3>2, <1>a
      <4>2. \A i \in 1..Len(queue) : queue'[i] = queue[i]
            BY <3>2, <1>a
      <4>3. \A x \in Entries : entry[x] # "none" => entry'[x] # "none"
            BY DEF LogTypeOK
      <4>4. entry'[e] # "none"
            BY DEF LogTypeOK
      <4>5. SUFFICES ASSUME NEW i \in 1..Len(queue'), queue'[i] \in Entries
                     PROVE  entry'[queue'[i]] # "none"
            OBVIOUS
      <4>6. i = Len(queue) + 1 \/ i \in 1..Len(queue)
            BY <4>1, <1>b
      <4>7. CASE i = Len(queue) + 1
            BY <4>1, <4>4, <4>7
      <4>8. CASE i \in 1..Len(queue)
        <5>1. queue'[i] = queue[i] /\ queue[i] \in Entries
              BY <4>2, <4>5, <4>8
        <5>2. entry[queue[i]] # "none"
              BY <4>8, <5>1 DEF Appended
        <5> QED BY <4>3, <5>1, <5>2
      <4> QED BY <4>6, <4>7, <4>8
    <3> QED BY <3>1, <3>2
  <2> QED BY <2>1 DEF LogTypeOK, Appended, Named
<1>3. Dated'
      BY DEF LogTypeOK, Dated
<1>4. Stamped'
  <2>1. \A x \in Entries : day'[x] <= today
        BY <1>c DEF LogTypeOK, Stamped
  <2>2. \A x \in Entries : x = job \/ x \in active \/ (\E d \in Days : x \in archive[d])
                              => entry[x] # "none" /\ day'[x] = day[x]
        BY <1>c DEF Appended, Named
  <2> QED BY <2>1, <2>2 DEF LogTypeOK, Stamped
<1>5. AcknowledgedIsKept'
      BY <1>c DEF AcknowledgedIsKept
<1> QED BY <1>1, <1>2, <1>3, <1>4, <1>5

(* A job's turn: the current date becomes today, or is about to. *)
LEMMA TakeJobKeeps == ASSUME LogInv, TakeJob PROVE LogInv'
<1> USE AuditLogAssumption DEF LogInv, TakeJob, Days, Unset, filesAndTime
<1>1. /\ Head(queue) = queue[1]
      /\ Head(queue) \in Entries \cup {Rotate}
      /\ Len(Tail(queue)) = Len(queue) - 1
      /\ \A i \in 1..Len(Tail(queue)) : Tail(queue)[i] = queue[i + 1]
      /\ Tail(queue) \in Seq(Entries \cup {Rotate})
      /\ Len(queue) \in Nat \ {0}
      BY DEF LogTypeOK
<1>2. LogTypeOK'
      BY <1>1 DEF LogTypeOK
<1>3. Appended'
  <2>1. \A i \in 1..Len(queue') : queue'[i] \in Entries => entry'[queue'[i]] # "none"
        BY <1>1 DEF Appended
  <2> QED BY <1>1, <2>1 DEF Appended, Named
<1>4. Dated'
      BY <1>1 DEF LogTypeOK, Dated
<1>5. Stamped'
      BY <1>1 DEF LogTypeOK, Stamped, Dated
<1>6. AcknowledgedIsKept'
      BY DEF AcknowledgedIsKept
<1> QED BY <1>2, <1>3, <1>4, <1>5, <1>6

(* A rename: the name is free, and late enough for what gets it. *)
LEMMA RotateFileKeeps == ASSUME LogInv, RotateFile PROVE LogInv'
<1> USE AuditLogAssumption DEF LogInv, RotateFile, Days, Unset
<1>1. CASE ArchiveActive /\ stage' = "ready" /\ UNCHANGED <<entry, job, target, timer, due>>
  <2> USE <1>1 DEF ArchiveActive
  <2>1. current \in Days /\ archive[current] = {}
        BY DEF LogTypeOK, Dated
  <2>2. LogTypeOK'
        BY <2>1 DEF LogTypeOK
  <2>3. Appended'
        BY <2>1 DEF LogTypeOK, Appended, Named
  <2>4. Dated'
        BY <2>1 DEF LogTypeOK, Dated
  <2>5. Stamped'
        BY <2>1 DEF LogTypeOK, Stamped, Dated
  <2>6. active \cup UNION {archive[d] : d \in Days}
          \subseteq active' \cup UNION {archive'[d] : d \in Days}
        BY <2>1 DEF LogTypeOK
  <2>7. AcknowledgedIsKept'
        BY <2>6 DEF AcknowledgedIsKept
  <2> QED BY <2>2, <2>3, <2>4, <2>5, <2>7
<1>2. CASE JobFails /\ UNCHANGED <<active, archive, current>>
  <2> USE <1>2 DEF JobFails, JobEnds
  <2>1. LogTypeOK'
        BY DEF LogTypeOK, Dated
  <2>2. Appended'
        BY DEF LogTypeOK, Appended, Named
  <2>3. Dated' /\ Stamped'
        BY DEF LogTypeOK, Dated, Stamped
  <2>4. AcknowledgedIsKept'
        BY DEF LogTypeOK, AcknowledgedIsKept
  <2> QED BY <2>1, <2>2, <2>3, <2>4
<1> QED BY <1>1, <1>2

(* A job that ends without touching the files. *)
LEMMA JobEndsKeeps ==
  ASSUME LogInv, job # Idle, NEW outcome \in {"written", "failed"},
         JobEnds(outcome), outcome = "written" => job = Rotate,
         UNCHANGED <<today, day, queue, current, closed, active, archive>>,
         handle' \in {"none", "open", "broken"}
  PROVE  LogInv'
<1> USE AuditLogAssumption DEF LogInv, JobEnds, Days, Unset
<1>1. LogTypeOK'
  <2>1. CASE job = Rotate
        BY <2>1 DEF LogTypeOK
  <2>2. CASE job # Rotate
    <3>1. entry' \in [Entries -> {"none", "queued", "written", "failed", "ignored", "lost"}]
          BY <2>2 DEF LogTypeOK
    <3> QED BY <2>2, <3>1 DEF LogTypeOK
  <2> QED BY <2>1, <2>2
<1>2. Appended'
      BY DEF LogTypeOK, Appended, Named
<1>3. Dated' /\ Stamped'
      BY DEF LogTypeOK, Dated, Stamped
<1>4. AcknowledgedIsKept'
      BY DEF LogTypeOK, AcknowledgedIsKept
<1> QED BY <1>1, <1>2, <1>3, <1>4

(* A write that succeeds, into a file whose day is not before the entry's. *)
LEMMA WriteKeeps ==
  ASSUME LogInv, stage = "ready", job \in Entries,
         active' = active \cup {job}, JobEnds("written"),
         UNCHANGED <<today, day, queue, current, handle, closed, archive>>
  PROVE  LogInv'
<1> USE AuditLogAssumption DEF LogInv, JobEnds, Days, Unset
<1>1. LogTypeOK'
      BY DEF LogTypeOK
<1>2. Appended'
      BY DEF LogTypeOK, Appended, Named
<1>3. Dated' /\ Stamped'
      BY DEF LogTypeOK, Dated, Stamped
<1>4. AcknowledgedIsKept'
      BY DEF LogTypeOK, AcknowledgedIsKept
<1> QED BY <1>1, <1>2, <1>3, <1>4

(* Every step of the queue. *)
LEMMA QueueStepKeeps == ASSUME LogInv, QueueStep PROVE LogInv'
<1>1. CASE TakeJob
      BY <1>1, TakeJobKeeps
<1>2. CASE RotateFile
      BY <1>2, RotateFileKeeps
<1>3. CASE RotationDone
      BY <1>3, JobEndsKeeps, AuditLogAssumption DEF RotationDone, LogInv, LogTypeOK
<1>4. CASE OpenLog
  <2>1. CASE JobFails /\ handle' = "broken"
        BY <1>4, <2>1, JobEndsKeeps, AuditLogAssumption DEF OpenLog, JobFails
  <2>2. CASE handle' = "open" /\ UNCHANGED <<entry, job, stage, target, timer, due>>
    <3> USE <1>4, <2>2 DEF OpenLog, LogInv
    <3>1. LogTypeOK'
          BY DEF LogTypeOK
    <3>2. Appended'
          BY DEF Appended, Named
    <3>3. Dated' /\ Stamped'
          BY DEF Dated, Stamped
    <3>4. AcknowledgedIsKept'
          BY DEF AcknowledgedIsKept
    <3> QED BY <3>1, <3>2, <3>3, <3>4
  <2> QED BY <1>4, <2>1, <2>2 DEF OpenLog
<1>5. CASE WriteEntry
  <2>1. CASE active' = active \cup {job} /\ JobEnds("written")
        BY <1>5, <2>1, WriteKeeps DEF WriteEntry
  <2>2. CASE JobFails /\ UNCHANGED active
        BY <1>5, <2>2, JobEndsKeeps, AuditLogAssumption DEF WriteEntry, JobFails, LogInv,
          LogTypeOK
  <2> QED BY <1>5, <2>1, <2>2 DEF WriteEntry
<1> QED BY <1>1, <1>2, <1>3, <1>4, <1>5 DEF QueueStep

(* A day passes. *)
LEMMA MidnightKeeps == ASSUME LogInv, Midnight PROVE LogInv'
<1> USE AuditLogAssumption DEF LogInv, Midnight, Days, Unset
<1>1. LogTypeOK'
      BY DEF LogTypeOK
<1>2. Appended'
      BY DEF Appended, Named
<1>3. Dated' /\ Stamped'
      BY DEF LogTypeOK, Dated, Stamped
<1>4. \A e \in Entries : today' - day[e] < Retention => today - day[e] < Retention
      BY DEF LogTypeOK
<1>5. AcknowledgedIsKept'
      BY <1>4 DEF AcknowledgedIsKept
<1> QED BY <1>1, <1>2, <1>3, <1>5

(* The timer adds a job that is no entry. *)
LEMMA TimerFiresKeeps == ASSUME LogInv, TimerFires PROVE LogInv'
<1> USE AuditLogAssumption DEF LogInv, TimerFires, Days, Unset
<1>1. /\ Len(queue') = Len(queue) + 1
      /\ queue'[Len(queue) + 1] = Rotate
      /\ \A i \in 1..Len(queue) : queue'[i] = queue[i]
      /\ queue' \in Seq(Entries \cup {Rotate})
      /\ Len(queue) \in Nat
      BY DEF LogTypeOK
<1>2. LogTypeOK'
      BY <1>1 DEF LogTypeOK
<1>3. Appended'
      BY <1>1 DEF Appended, Named
<1>4. Dated' /\ Stamped'
      BY DEF Dated, Stamped
<1>5. AcknowledgedIsKept'
      BY DEF AcknowledgedIsKept
<1> QED BY <1>2, <1>3, <1>4, <1>5

(* What is pruned was stamped Retention days ago at least. *)
LEMMA PruneKeeps == ASSUME LogInv, Prune PROVE LogInv'
<1> USE AuditLogAssumption DEF LogInv, Prune, Days, Unset
<1>1. /\ archive' \in [Days -> SUBSET Entries]
      /\ \A d \in Days : archive'[d] \subseteq archive[d]
      /\ \A d \in Days : archive'[d] = archive[d] \/ Expired(d)
      BY DEF LogTypeOK
<1>2. LogTypeOK'
      BY <1>1 DEF LogTypeOK
<1>3. Appended'
      BY <1>1 DEF Appended, Named
<1>4. Dated' /\ Stamped'
      BY <1>1 DEF Dated, Stamped
<1>5. AcknowledgedIsKept'
  <2> SUFFICES ASSUME NEW e \in Entries, entry[e] = "written", today - day[e] < Retention
               PROVE  e \in active \cup UNION {archive'[d] : d \in Days}
      BY DEF AcknowledgedIsKept
  <2>1. CASE e \in active
        BY <2>1
  <2>2. CASE \E d \in Days : e \in archive[d]
    <3>1. PICK d \in Days : e \in archive[d]
          BY <2>2
    <3>2. day[e] <= d /\ day[e] \in Nat /\ d \in Nat /\ today \in Nat
          BY <3>1 DEF Stamped, LogTypeOK
    <3>3. ~Expired(d)
          BY <3>2 DEF Expired
    <3> QED BY <1>1, <3>1, <3>3
  <2> QED BY <2>1, <2>2 DEF AcknowledgedIsKept
<1> QED BY <1>2, <1>3, <1>4, <1>5

(* stop() closes the log for what comes after. *)
LEMMA CloseLogKeeps == ASSUME LogInv, CloseLog PROVE LogInv'
<1> USE DEF LogInv, CloseLog
<1>1. LogTypeOK'
      BY DEF LogTypeOK
<1>2. Appended' /\ Dated' /\ Stamped' /\ AcknowledgedIsKept'
      BY DEF Appended, Named, Dated, Stamped, AcknowledgedIsKept
<1> QED BY <1>1, <1>2

(* A new process knows no date: what is in the active file is older than   *)
(* the date it will find.                                                  *)
LEMMA ForgetKeeps == ASSUME LogInv, Forget PROVE LogInv'
<1> USE AuditLogAssumption DEF LogInv, Forget, Days, Unset
<1>1. LogTypeOK'
  <2>1. queue' \in Seq(Entries \cup {Rotate})
        BY EmptySeq
  <2>2. entry' \in [Entries -> {"none", "queued", "written", "failed", "ignored", "lost"}]
        BY DEF LogTypeOK
  <2>3. today' \in Days /\ due' \in 1..(MaxDay + 1) /\ current' \in 0..MaxDay
        BY DEF LogTypeOK
  <2> QED BY <2>1, <2>2, <2>3 DEF LogTypeOK
<1>2. Appended'
      BY DEF LogTypeOK, Appended, Named
<1>3. Dated' /\ Stamped'
      BY DEF LogTypeOK, Dated, Stamped
<1>4. AcknowledgedIsKept'
      BY DEF LogTypeOK, AcknowledgedIsKept
<1> QED BY <1>1, <1>2, <1>3, <1>4

(* A step that leaves the log alone. *)
LEMMA StutterKeeps == ASSUME LogInv, UNCHANGED logVars PROVE LogInv'
BY DEF LogInv, logVars, LogTypeOK, Appended, Named, Dated, Stamped, AcknowledgedIsKept

(* A daemon that starts sets the timer. *)
LEMMA StartDaemonKeeps == ASSUME LogInv, StartDaemon PROVE LogInv'
<1> USE AuditLogAssumption DEF LogInv, StartDaemon, Days
<1>1. LogTypeOK'
      BY DEF LogTypeOK
<1>2. Appended' /\ Dated' /\ Stamped' /\ AcknowledgedIsKept'
      BY DEF Appended, Named, Dated, Stamped, AcknowledgedIsKept
<1> QED BY <1>1, <1>2

(* Every step of the server and its log. *)
LEMMA NextKeeps == ASSUME LogInv, [Next]_vars PROVE LogInv'
<1>1. CASE UNCHANGED vars
      BY <1>1, StutterKeeps DEF vars
<1>2. ASSUME NEW c \in Calls, Refuse(c) \/ InvalidInput(c) \/ HandlerEnds(c) PROVE LogInv'
      BY <1>2, AppendEntryKeeps DEF Refuse, InvalidInput, HandlerEnds, Calls
<1>3. ASSUME NEW c \in Calls,
             \/ Receive(c) \/ ServeOAuth(c) \/ Authenticate(c)
             \/ UnknownTool(c) \/ RunHandler(c) \/ AnswerCall(c) \/ ClientLeaves(c)
      PROVE  LogInv'
      BY <1>3, StutterKeeps DEF Receive, ServeOAuth, Authenticate, UnknownTool, RunHandler,
        AnswerCall, ClientLeaves
<1>4. CASE StopServing
      BY <1>4, StutterKeeps DEF StopServing
<1>5. CASE StopLog \/ StopLogAgain
      BY <1>5, CloseLogKeeps DEF StopLog, StopLogAgain
<1>6. CASE Exit \/ Dies
      BY <1>6, ForgetKeeps DEF Exit, Dies, Ends
<1>7. CASE StartDaemon
      BY <1>7, StartDaemonKeeps
<1>8. CASE Log
      BY <1>8, QueueStepKeeps, TimerFiresKeeps, PruneKeeps DEF Log
<1>9. CASE Clock
      BY <1>9, MidnightKeeps DEF Clock
<1> QED BY <1>1, <1>2, <1>3, <1>4, <1>5, <1>6, <1>7, <1>8, <1>9 DEF Next

-----------------------------------------------------------------------------
(* No entry is lost before its retention is over: rotation by the timer    *)
(* and by appends, pruning, shutdown and crashes keep what append()        *)
(* acknowledged.                                                           *)
THEOREM AcknowledgedIsKeptHolds == Spec => []AcknowledgedIsKept
<1>1. Init => LogInv
      BY LogInvInit DEF Init
<1>2. LogInv /\ [Next]_vars => LogInv'
      BY NextKeeps
<1>3. LogInv => AcknowledgedIsKept
      BY DEF LogInv
<1> QED BY <1>1, <1>2, <1>3, PTL DEF Spec

-----------------------------------------------------------------------------
(* The shutdown order as an invariant: the log is closed only while        *)
(* connections are drained, and unless a second shutdown() closed it, no   *)
(* connected client has a call in progress then; a connected client's call *)
(* that awaits its entry has one in the chain or past it.                  *)
ServerInv ==
  /\ call \in [Calls -> CallStates]
  /\ there \in [Calls -> BOOLEAN]
  /\ closed => phase = "draining"
  /\ closed /\ ~overtaken => \A c \in Calls : InProgress(c) => ~there[c]
  /\ \A c \in Calls : call[c] \in {"new", "received", "dispatching", "handling"} => entry[c] = "none"
  /\ \A c \in Calls : call[c] = "auditing" /\ there[c] =>
       \/ entry[c] \in {"queued", "written", "failed"}
       \/ entry[c] = "ignored" /\ overtaken

LEMMA ServerInvInit == Init => ServerInv
BY DEF Init, LogInit, ServerInv, InProgress, Calls, CallStates

(* Only the job's own entry changes in a step of the chain, and it gets an *)
(* outcome.                                                                *)
LEMMA OutcomesOnly ==
  ASSUME LogInv, QueueStep
  PROVE  /\ UNCHANGED closed
         /\ \A e \in Entries : \/ entry'[e] = entry[e]
                               \/ entry'[e] \in {"written", "failed"} /\ entry[e] # "none"
<1> USE AuditLogAssumption DEF LogInv, LogTypeOK, Appended
<1>1. ASSUME NEW outcome \in {"written", "failed"}, JobEnds(outcome), job # Idle
      PROVE  \A e \in Entries : \/ entry'[e] = entry[e]
                                \/ entry'[e] \in {"written", "failed"} /\ entry[e] # "none"
      BY <1>1 DEF JobEnds
<1>2. CASE TakeJob
      BY <1>2 DEF TakeJob
<1>3. CASE RotateFile
      BY <1>1, <1>3 DEF RotateFile, JobFails, Dated
<1>4. CASE RotationDone
      BY <1>1, <1>4 DEF RotationDone
<1>5. CASE OpenLog
      BY <1>1, <1>5 DEF OpenLog, JobFails
<1>6. CASE WriteEntry
      BY <1>1, <1>6 DEF WriteEntry, JobFails
<1> QED BY <1>2, <1>3, <1>4, <1>5, <1>6 DEF QueueStep

LEMMA ServerNextKeeps == ASSUME LogInv, ServerInv, [Next]_vars PROVE ServerInv'
<1> USE DEF ServerInv, InProgress, Calls, CallStates
<1>e. entry \in [Entries -> {"none", "queued", "written", "failed", "ignored", "lost"}]
      BY DEF LogInv, LogTypeOK
<1>1. CASE UNCHANGED vars
      BY <1>1 DEF vars, logVars, serverVars
<1>2. ASSUME NEW c \in Calls, Refuse(c) PROVE ServerInv'
      BY <1>2, <1>e DEF Refuse, AppendEntry, Goes
<1>3. ASSUME NEW c \in Calls, UnknownTool(c) PROVE ServerInv'
      BY <1>3 DEF UnknownTool, Goes, logVars
<1>4. ASSUME NEW c \in Calls, InvalidInput(c) PROVE ServerInv'
      BY <1>4, <1>e DEF InvalidInput, AppendEntry, Goes
<1>5. ASSUME NEW c \in Calls, RunHandler(c) PROVE ServerInv'
      BY <1>5 DEF RunHandler, Goes, logVars
<1>6. ASSUME NEW c \in Calls, HandlerEnds(c) PROVE ServerInv'
      BY <1>6, <1>e DEF HandlerEnds, AppendEntry, Goes
<1>7. ASSUME NEW c \in Calls, AnswerCall(c) PROVE ServerInv'
      BY <1>7 DEF AnswerCall, Audited, Goes, logVars
<1>8. ASSUME NEW c \in Calls, ClientLeaves(c) PROVE ServerInv'
      BY <1>8 DEF ClientLeaves, logVars
<1>9. CASE StopServing
      BY <1>9 DEF StopServing, logVars
<1>10. CASE StopLog \/ StopLogAgain
      BY <1>10 DEF StopLog, StopLogAgain, CloseLog, serverVars
<1>11. CASE Exit \/ Dies
  <2>0. /\ call' = [c \in Calls |-> IF InProgress(c) THEN "lost" ELSE call[c]]
        /\ there' = [c \in Calls |-> there[c] /\ ~InProgress(c)]
        /\ entry' = [e \in Entries |-> IF entry[e] = "queued" THEN "lost" ELSE entry[e]]
        /\ ~closed'
        BY <1>11 DEF Exit, Dies, Ends, Forget
  <2>1. there' \in [Calls -> BOOLEAN] /\ call' \in [Calls -> CallStates]
        BY <2>0
  <2>2. \A c \in Calls : /\ ~InProgress(c)'
                        /\ call'[c] = "new" => call[c] = "new" /\ entry'[c] = entry[c]
        BY <2>0
  <2> QED BY <2>0, <2>1, <2>2
<1>12. CASE StartDaemon
      BY <1>12 DEF StartDaemon
<1>13. CASE Log
  <2>1. CASE QueueStep
        BY <1>13, <2>1, OutcomesOnly DEF Log, serverVars
  <2>2. CASE TimerFires \/ Prune
        BY <1>13, <2>2 DEF Log, serverVars, TimerFires, Prune
  <2> QED BY <1>13, <2>1, <2>2 DEF Log
<1>14. CASE Clock
      BY <1>14 DEF Clock, Midnight, serverVars
<1>15. ASSUME NEW c \in Calls, Receive(c) PROVE ServerInv'
      BY <1>15 DEF Receive, Goes, logVars, Listening
<1>16. ASSUME NEW c \in Calls, ServeOAuth(c) \/ Authenticate(c) PROVE ServerInv'
      BY <1>16 DEF ServeOAuth, Authenticate, Goes, logVars
<1> QED BY <1>1, <1>2, <1>3, <1>4, <1>5, <1>6, <1>7, <1>8, <1>9, <1>10, <1>11, <1>12,
           <1>13, <1>14, <1>15, <1>16 DEF Next

(* Only AnswerCall answers a call. *)
LEMMA OnlyAnswers ==
  ASSUME ServerInv, [Next]_vars, NEW c \in Calls, ~AnswerCall(c)
  PROVE  call'[c] = "answered" => call[c] = "answered"
<1> USE DEF ServerInv, Goes
<1>1. ASSUME NEW k \in Calls,
             \/ Receive(k) \/ ServeOAuth(k) \/ Authenticate(k) \/ Refuse(k) \/ UnknownTool(k)
             \/ InvalidInput(k) \/ RunHandler(k) \/ HandlerEnds(k) \/ ClientLeaves(k)
      PROVE  call'[c] = "answered" => call[c] = "answered"
      BY <1>1 DEF Receive, ServeOAuth, Authenticate, Refuse, UnknownTool, InvalidInput,
        RunHandler, HandlerEnds, ClientLeaves
<1>2. ASSUME NEW k \in Calls, AnswerCall(k) PROVE call'[c] = "answered" => call[c] = "answered"
      BY <1>2 DEF AnswerCall
<1>3. CASE Exit \/ Dies
      BY <1>3 DEF Exit, Dies, Ends
<1>4. CASE StopServing \/ StopLog \/ StopLogAgain \/ StartDaemon \/ Log \/ Clock \/ UNCHANGED vars
      BY <1>4 DEF StopServing, StopLog, StopLogAgain, StartDaemon, Log, Clock, vars, serverVars
<1> QED BY <1>1, <1>2, <1>3, <1>4 DEF Next

(* A connected client that gets a tool's answer, or is told that its input *)
(* is invalid, has an entry that was written or whose write failed, unless *)
(* a second shutdown() has closed the log under the call.                  *)
THEOREM AnsweredIsLoggedHolds == Spec => AnsweredIsLogged
<1>1. Init => LogInv /\ ServerInv
      BY LogInvInit, ServerInvInit DEF Init
<1>2. LogInv /\ ServerInv /\ [Next]_vars => (LogInv /\ ServerInv)'
      BY NextKeeps, ServerNextKeeps
<1> DEFINE AnswerOfLogged(c) ==
      call[c] # "answered" /\ call'[c] = "answered" =>
        \/ entry[c] \in {"written", "failed"}
        \/ entry[c] = "ignored" /\ overtaken
<1>3. ASSUME ServerInv, [Next]_vars, NEW c \in Calls PROVE AnswerOfLogged(c)
  <2>1. CASE AnswerCall(c)
    <3>1. call[c] = "auditing" /\ entry[c] # "queued" /\ (~there[c] => call'[c] # "answered")
          BY <1>3, <2>1 DEF ServerInv, AnswerCall, Audited, Goes
    <3> QED BY <1>3, <3>1 DEF ServerInv
  <2>2. CASE ~AnswerCall(c)
        BY <1>3, <2>2, OnlyAnswers
  <2> QED BY <2>1, <2>2
<1>4. ServerInv /\ [Next]_vars => [\A c \in Calls : AnswerOfLogged(c)]_vars
      BY <1>3
<1> QED BY <1>1, <1>2, <1>4, PTL DEF Spec, AnsweredIsLogged

-----------------------------------------------------------------------------
(* What EveryCallIsAnswered rests on, and what no fairness gives.          *)

InChain(e) == job = e \/ \E i \in 1..Len(queue) : queue[i] = e

(* The chain has exactly the entries that somebody waits for, each once.   *)
ChainIsAwaited ==
  /\ \A e \in Entries : entry[e] = "queued" <=> InChain(e)
  /\ \A i, k \in 1..Len(queue) : queue[i] \in Entries /\ queue[i] = queue[k] => i = k
  /\ job \in Entries => \A i \in 1..Len(queue) : queue[i] # job

LEMMA AppendChains ==
  ASSUME LogInv, ChainIsAwaited, NEW e \in Entries, AppendEntry(e)
  PROVE  ChainIsAwaited'
<1> USE DEF LogInv, LogTypeOK
<1>1. /\ entry[e] = "none" /\ job' = job
      /\ \/ entry' = [entry EXCEPT ![e] = "ignored"] /\ queue' = queue
         \/ entry' = [entry EXCEPT ![e] = "queued"] /\ queue' = Append(queue, e)
  BY DEF AppendEntry
<1>2. ~InChain(e)
  BY <1>1 DEF ChainIsAwaited
<1>3. CASE entry' = [entry EXCEPT ![e] = "ignored"] /\ queue' = queue
  BY <1>1, <1>2, <1>3 DEF ChainIsAwaited, InChain
<1>4. CASE entry' = [entry EXCEPT ![e] = "queued"] /\ queue' = Append(queue, e)
  <2>1. /\ Len(queue) \in Nat /\ Len(queue') = Len(queue) + 1
        /\ \A i \in 1..Len(queue) : queue'[i] = queue[i]
        /\ queue'[Len(queue) + 1] = e
    BY <1>4, AppendProperties, LenProperties
  <2>2. \A i \in 1..Len(queue') : i \in 1..Len(queue) \/ i = Len(queue) + 1
    BY <2>1
  <2>3. ASSUME NEW x \in Entries
        PROVE  InChain(x)' <=> InChain(x) \/ x = e
    <3>1. ASSUME NEW i \in 1..Len(queue), queue[i] = x
          PROVE  i \in 1..Len(queue') /\ queue'[i] = x
      BY <2>1, <3>1
    <3>2. Len(queue) + 1 \in 1..Len(queue')
      BY <2>1
    <3>3. ASSUME NEW i \in 1..Len(queue'), queue'[i] = x
          PROVE  x = e \/ (i \in 1..Len(queue) /\ queue[i] = x)
      BY <2>1, <2>2, <3>3
    <3> QED
      BY <1>1, <2>1, <3>1, <3>2, <3>3 DEF InChain
  <2>4. \A x \in Entries : entry'[x] = "queued" <=> InChain(x)'
    BY <1>1, <1>4, <2>3 DEF ChainIsAwaited
  <2>5. \A i \in 1..Len(queue) : queue[i] # e
    BY <1>2 DEF InChain
  <2>6. \A i, k \in 1..Len(queue') : queue'[i] \in Entries /\ queue'[i] = queue'[k] => i = k
    BY <2>1, <2>2, <2>5 DEF ChainIsAwaited
  <2>7. job' \in Entries => \A i \in 1..Len(queue') : queue'[i] # job'
    BY <1>1, <1>2, <2>1, <2>2 DEF ChainIsAwaited, InChain
  <2> QED
    BY <2>4, <2>6, <2>7 DEF ChainIsAwaited
<1> QED
  BY <1>1, <1>3, <1>4

LEMMA TakeJobChains ==
  ASSUME LogInv, ChainIsAwaited, TakeJob
  PROVE  ChainIsAwaited'
<1> USE AuditLogAssumption DEF LogInv, LogTypeOK
<1>1. /\ job = Idle /\ queue # <<>> /\ job' = Head(queue) /\ queue' = Tail(queue)
      /\ entry' = entry
  BY DEF TakeJob
<1>2. /\ Len(queue) \in Nat \ {0} /\ job' = queue[1]
      /\ Len(queue') = Len(queue) - 1
      /\ \A i \in 1..Len(queue') : queue'[i] = queue[i + 1]
  BY <1>1
<1>3. ASSUME NEW x \in Entries
      PROVE  InChain(x)' <=> InChain(x)
  <2>1. ASSUME NEW i \in 1..Len(queue), queue[i] = x
        PROVE  InChain(x)'
    <3>1. CASE i = 1
      BY <1>2, <2>1, <3>1 DEF InChain
    <3>2. CASE i # 1
      <4>1. i - 1 \in 1..Len(queue') /\ queue'[i - 1] = x
        BY <1>2, <2>1, <3>2
      <4> QED
        BY <4>1 DEF InChain
    <3> QED
      BY <3>1, <3>2
  <2>2. ASSUME InChain(x)'
        PROVE  InChain(x)
    BY <1>2, <2>2 DEF InChain
  <2> QED
    BY <1>1, <2>1, <2>2 DEF InChain
<1>4. \A i, k \in 1..Len(queue') : queue'[i] \in Entries /\ queue'[i] = queue'[k] => i = k
  <2> SUFFICES ASSUME NEW i \in 1..Len(queue'), NEW k \in 1..Len(queue'),
                      queue'[i] \in Entries, queue'[i] = queue'[k]
               PROVE  i = k
    OBVIOUS
  <2>1. /\ i + 1 \in 1..Len(queue) /\ k + 1 \in 1..Len(queue)
        /\ queue[i + 1] = queue[k + 1] /\ queue[i + 1] \in Entries
    BY <1>2
  <2>2. i + 1 = k + 1
    BY <2>1 DEF ChainIsAwaited
  <2> QED
    BY <2>2
<1>5. job' \in Entries => \A i \in 1..Len(queue') : queue'[i] # job'
  <2> SUFFICES ASSUME NEW i \in 1..Len(queue'), queue'[i] = job', job' \in Entries
               PROVE  FALSE
    OBVIOUS
  <2>1. /\ 1 \in 1..Len(queue) /\ i + 1 \in 1..Len(queue)
        /\ queue[1] = queue[i + 1] /\ queue[1] \in Entries
    BY <1>2
  <2>2. 1 = i + 1
    BY <2>1 DEF ChainIsAwaited
  <2> QED
    BY <2>2
<1> QED
  BY <1>1, <1>3, <1>4, <1>5 DEF ChainIsAwaited

LEMMA JobEndsChains ==
  ASSUME LogInv, ChainIsAwaited, job # Idle, queue' = queue,
         NEW outcome \in {"written", "failed"}, JobEnds(outcome)
  PROVE  ChainIsAwaited'
<1> USE AuditLogAssumption DEF LogInv, LogTypeOK
<1>1. job' = Idle /\ Idle \notin Entries
  BY DEF JobEnds
<1>2. CASE job = Rotate
  <2>1. entry' = entry
    BY <1>2 DEF JobEnds
  <2> QED
    BY <1>1, <1>2, <2>1 DEF ChainIsAwaited, InChain
<1>3. CASE job \in Entries
  <2>1. entry' = [entry EXCEPT ![job] = outcome]
    BY <1>3 DEF JobEnds
  <2> QED
    BY <1>1, <1>3, <2>1 DEF ChainIsAwaited, InChain
<1> QED
  BY <1>2, <1>3

LEMMA QueueStepChains ==
  ASSUME LogInv, ChainIsAwaited, QueueStep
  PROVE  ChainIsAwaited'
<1>1. CASE UNCHANGED <<entry, job, queue>>
  BY <1>1 DEF ChainIsAwaited, InChain
<1>2. CASE TakeJob
  BY <1>2, TakeJobChains
<1>3. ASSUME ~TakeJob, ~UNCHANGED <<entry, job, queue>>
      PROVE  /\ job # Idle /\ queue' = queue
             /\ JobEnds("written") \/ JobEnds("failed")
  BY <1>3, AuditLogAssumption
     DEF LogInv, Dated, QueueStep, RotateFile, RotationDone, OpenLog, WriteEntry, JobFails
<1> QED
  BY <1>1, <1>2, <1>3, JobEndsChains

LEMMA NextChains ==
  ASSUME LogInv, ChainIsAwaited, [Next]_vars
  PROVE  ChainIsAwaited'
<1>1. CASE UNCHANGED <<entry, job, queue>>
  BY <1>1 DEF ChainIsAwaited, InChain
<1>2. ASSUME NEW c \in Calls, Refuse(c) \/ InvalidInput(c) \/ HandlerEnds(c)
      PROVE  ChainIsAwaited'
  BY <1>2, AppendChains DEF Refuse, InvalidInput, HandlerEnds, Calls
<1>3. ASSUME NEW c \in Calls,
             \/ Receive(c) \/ ServeOAuth(c) \/ Authenticate(c)
             \/ UnknownTool(c) \/ RunHandler(c) \/ AnswerCall(c) \/ ClientLeaves(c)
      PROVE  UNCHANGED <<entry, job, queue>>
  BY <1>3 DEF Receive, ServeOAuth, Authenticate, UnknownTool, RunHandler, AnswerCall,
              ClientLeaves, logVars
<1>4. CASE StopServing \/ StopLog \/ StopLogAgain \/ StartDaemon \/ Clock \/ UNCHANGED vars
  BY <1>1, <1>4 DEF StopServing, StopLog, StopLogAgain, CloseLog, StartDaemon, Clock,
    Midnight, vars, logVars
<1>5. CASE Exit \/ Dies
  <2>1. queue' = <<>> /\ job' = Idle
        /\ entry' = [e \in Entries |-> IF entry[e] = "queued" THEN "lost" ELSE entry[e]]
    BY <1>5 DEF Exit, Dies, Ends, Forget
  <2> QED
    BY <2>1, AuditLogAssumption DEF ChainIsAwaited, InChain
<1>6. CASE Log
  <2>1. CASE TimerFires
    <3>1. /\ entry' = entry /\ job' = job
          /\ Len(queue) \in Nat /\ Len(queue') = Len(queue) + 1
          /\ \A i \in 1..Len(queue) : queue'[i] = queue[i]
          /\ queue'[Len(queue) + 1] = Rotate
      BY <2>1 DEF TimerFires, LogInv, LogTypeOK
    <3>2. \A i \in 1..Len(queue') : i \in 1..Len(queue) \/ i = Len(queue) + 1
      BY <3>1
    <3>3. ASSUME NEW x \in Entries
          PROVE  InChain(x)' <=> InChain(x)
      BY <3>1, <3>2, AuditLogAssumption DEF InChain
    <3> QED
      BY <3>1, <3>2, <3>3, AuditLogAssumption DEF ChainIsAwaited
  <2>2. CASE Prune
    BY <1>1, <2>2 DEF Prune
  <2> QED
    BY <1>6, <2>1, <2>2, QueueStepChains DEF Log
<1> QED
  BY <1>1, <1>2, <1>3, <1>4, <1>5, <1>6 DEF Next

(* Whoever awaits an append has it in the promise chain, and nothing is    *)
(* there twice: a rotation, a failed write, a closed log or a crash leaves *)
(* no call waiting for an entry that nobody will write, and no entry to be *)
(* written again.                                                          *)
THEOREM ChainIsAwaitedHolds == Spec => []ChainIsAwaited
<1>1. Init => ChainIsAwaited
  BY AuditLogAssumption DEF Init, LogInit, ChainIsAwaited, InChain
<1>2. Init => LogInv
  BY LogInvInit DEF Init
<1>3. LogInv /\ ChainIsAwaited /\ [Next]_vars => (LogInv /\ ChainIsAwaited)'
  BY NextKeeps, NextChains
<1> QED
  BY <1>1, <1>2, <1>3, PTL DEF Spec
=============================================================================
