------------------------------ MODULE AuditLog ------------------------------
(***************************************************************************)
(* One append-only log with daily files (audit/log.ts): audit.jsonl of the *)
(* MCP server and, with another kind of entry and no midnight timer,       *)
(* interaction.jsonl.  Appends and rotations go through one promise chain; *)
(* the date is looked at when a job's turn comes, so a rotation is part of *)
(* the append that meets the new day.                                      *)
(*                                                                         *)
(* Days are numbered; the timer fires just after a midnight or later.      *)
(* What was written is in the file whether or not the process dies.        *)
(***************************************************************************)
EXTENDS Integers, Sequences

CONSTANTS
  Entries,    \* what is ever appended
  Rotate,     \* the job of a rotation from outside
  Idle,       \* no job
  MaxDay,     \* bound: days that are looked at
  Retention   \* audit.retention_days

ASSUME AuditLogAssumption ==
  /\ MaxDay \in Nat \ {0}
  /\ Retention \in Nat
  /\ Rotate \notin Entries
  /\ Idle \notin Entries
  /\ Rotate # Idle

VARIABLES
  today,    \* the date
  entry,    \* entry[e]: how far e's append is
  day,      \* day[e]: the date in e's time stamp
  queue,    \* jobs whose turn has not come
  job,      \* the job that runs
  stage,    \* where it is
  target,   \* the date it rotates to
  current,  \* currentDate
  handle,   \* handlePromise: none, open, or broken (it was rejected)
  closed,   \* stop() was called
  active,   \* entries in the active file
  archive,  \* archive[d]: entries in the file named for day d
  timer,    \* the daily timer, or how far its fire() is
  due       \* the midnight it is set to

logVars == <<today, entry, day, queue, job, stage, target, current, handle, closed,
             active, archive, timer, due>>

-----------------------------------------------------------------------------
Days == 1..MaxDay

Unset == 0

LogTypeOK ==
  /\ today \in Days
  /\ entry \in [Entries -> {"none", "queued", "written", "failed", "ignored", "lost"}]
  /\ day \in [Entries -> 0..MaxDay]
  /\ queue \in Seq(Entries \cup {Rotate})
  /\ job \in Entries \cup {Rotate, Idle}
  /\ stage \in {"date", "rename", "ready"}
  /\ target \in 0..MaxDay
  /\ current \in 0..MaxDay
  /\ handle \in {"none", "open", "broken"}
  /\ closed \in BOOLEAN
  /\ active \in SUBSET Entries
  /\ archive \in [Days -> SUBSET Entries]
  /\ timer \in {"armed", "rotating", "pruning"}
  /\ due \in 1..(MaxDay + 1)

LogInit ==
  /\ today = 1
  /\ entry = [e \in Entries |-> "none"]
  /\ day = [e \in Entries |-> 0]
  /\ queue = <<>>
  /\ job = Idle
  /\ stage = "date"
  /\ target = Unset
  /\ current = Unset
  /\ handle = "none"
  /\ closed = FALSE
  /\ timer = "armed"
  /\ active = {}
  /\ archive = [d \in Days |-> {}]
  /\ due = 2

filesAndTime == <<today, due, timer, active, archive>>

-----------------------------------------------------------------------------
(* append() up to its first await; after stop() it does nothing and says   *)
(* so to nobody.                                                           *)
AppendEntry(e) ==
  /\ entry[e] = "none"
  /\ IF closed
     THEN /\ entry' = [entry EXCEPT ![e] = "ignored"]
          /\ UNCHANGED <<queue, day>>
     ELSE /\ entry' = [entry EXCEPT ![e] = "queued"]
          /\ queue' = Append(queue, e)
          /\ day' = [day EXCEPT ![e] = today]
  /\ UNCHANGED <<job, stage, target, current, handle, closed, filesAndTime>>

(* A job's turn: the synchronous part of rotateInline().                   *)
TakeJob ==
  /\ job = Idle
  /\ queue # <<>>
  /\ job' = Head(queue)
  /\ queue' = Tail(queue)
  /\ IF current \in {Unset, today}
     THEN /\ current' = today
          /\ stage' = "ready"
          /\ UNCHANGED target
     ELSE /\ stage' = "rename"
          /\ target' = today
          /\ UNCHANGED current
  /\ UNCHANGED <<entry, day, handle, closed, filesAndTime>>

(* The job is over; its promise is settled. *)
JobEnds(outcome) ==
  /\ job' = Idle
  /\ stage' = "date"
  /\ target' = Unset
  /\ IF job = Rotate
     THEN /\ timer' = IF outcome = "written" THEN "pruning" ELSE "armed"
          /\ due' = today + 1
          /\ UNCHANGED entry
     ELSE /\ entry' = [entry EXCEPT ![job] = outcome]
          /\ UNCHANGED <<timer, due>>

(* Fault: an entry that cannot be written leaves its caller waiting. *)
JobFailsSilently ==
  /\ job' = Idle
  /\ stage' = "date"
  /\ target' = Unset
  /\ UNCHANGED <<entry, timer, due>>

JobFails == JobEnds("failed")

(* Fault: the new date is not remembered. *)
ArchiveWithoutDate ==
  /\ active' = {}
  /\ archive' = IF active = {} THEN archive ELSE [archive EXCEPT ![current] = active]
  /\ UNCHANGED current

(* The active file, when there is one, takes the name of its day; a file   *)
(* that had the name is replaced.                                          *)
ArchiveActive ==
  /\ active' = {}
  /\ archive' = IF active = {} THEN archive ELSE [archive EXCEPT ![current] = active]
  /\ current' = target

(* closeAndRename(): the handle is closed, the file is renamed. *)
RotateFile ==
  /\ stage = "rename"
  /\ handle' = "none"
  /\ \/ /\ ArchiveActive
        /\ stage' = "ready"
        /\ UNCHANGED <<entry, job, target, timer, due>>
     \/ /\ JobFails
        /\ UNCHANGED <<active, archive, current>>
  /\ UNCHANGED <<today, day, queue, closed>>

(* A rotation has nothing left to do. *)
RotationDone ==
  /\ stage = "ready"
  /\ job = Rotate
  /\ JobEnds("written")
  /\ UNCHANGED <<today, day, queue, current, handle, closed, active, archive>>

(* openIfNeeded(): a rejected open is kept, and nothing but a rotation     *)
(* clears it.                                                              *)
OpenLog ==
  /\ stage = "ready"
  /\ job \in Entries
  /\ handle # "open"
  /\ \/ /\ handle = "none"
        /\ handle' = "open"
        /\ UNCHANGED <<entry, job, stage, target, timer, due>>
     \/ /\ handle' = "broken"
        /\ JobFails
  /\ UNCHANGED <<today, day, queue, current, closed, active, archive>>

WriteEntry ==
  /\ stage = "ready"
  /\ job \in Entries
  /\ handle = "open"
  /\ \/ /\ active' = active \cup {job}
        /\ JobEnds("written")
     \/ /\ JobFails
        /\ UNCHANGED active
  /\ UNCHANGED <<today, day, queue, current, handle, closed, archive>>

QueueStep == TakeJob \/ RotateFile \/ RotationDone \/ OpenLog \/ WriteEntry

-----------------------------------------------------------------------------
Midnight ==
  /\ today < MaxDay
  /\ today' = today + 1
  /\ UNCHANGED <<entry, day, queue, job, stage, target, current, handle, closed,
                 active, archive, timer, due>>

(* fire(), runMidnightTasks(): rotate() joins the chain, closed or not. *)
TimerFires ==
  /\ timer = "armed"
  /\ due <= today
  /\ timer' = "rotating"
  /\ queue' = Append(queue, Rotate)
  /\ UNCHANGED <<today, entry, day, job, stage, target, current, handle, closed,
                 active, archive, due>>

Expired(d) == today - d >= Retention

(* pruneOld(): old archives are unlinked, up to one that fails; the timer  *)
(* is set again.                                                           *)
Prune ==
  /\ timer = "pruning"
  /\ \E last \in 0..MaxDay :
       archive' = [d \in Days |-> IF d <= last /\ Expired(d) THEN {} ELSE archive[d]]
  /\ timer' = "armed"
  /\ due' = today + 1
  /\ UNCHANGED <<today, entry, day, queue, job, stage, target, current, handle, closed,
                 active>>

CloseLog ==
  /\ closed' = TRUE
  /\ UNCHANGED <<today, entry, day, queue, job, stage, target, current, handle, active,
                 archive, timer, due>>

(* The chain that stop() awaits has settled. *)
Drained == queue = <<>> /\ job = Idle

(* The process is gone, and another has opened the log. *)
Forget ==
  /\ entry' = [e \in Entries |-> IF entry[e] = "queued" THEN "lost" ELSE entry[e]]
  /\ queue' = <<>>
  /\ job' = Idle
  /\ stage' = "date"
  /\ target' = Unset
  /\ current' = Unset
  /\ handle' = "none"
  /\ closed' = FALSE
  /\ timer' = "armed"
  /\ due' = today + 1
  /\ UNCHANGED <<today, day, active, archive>>

-----------------------------------------------------------------------------
(* An entry whose append() said that it was written is in one of the files *)
(* until Retention days have passed since its time stamp: no rotation, of  *)
(* the timer or of an append, of this process or of the next, loses or     *)
(* overwrites it, and nothing prunes it early.                             *)
AcknowledgedIsKept ==
  \A e \in Entries :
    (entry[e] = "written" /\ today - day[e] < Retention)
      => e \in active \cup UNION {archive[d] : d \in Days}
=============================================================================
