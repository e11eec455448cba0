-------------------------- MODULE Delegation_proofs --------------------------
(***************************************************************************)
(* The runner and the tool handlers use the queue as it may be used, and a *)
(* cancel hits the job it was meant for: RunnerOwnsRunning,                *)
(* CancelHitsItsJob, PollFindsItsJob and WorkIsWoken of Delegation, for    *)
(* any number of jobs and callers.                                         *)
(*                                                                         *)
(* The argument rests on that of the queue alone, the first half of this   *)
(* module: every step of the composition is a step of the queue, because   *)
(* the runner only marks the job it has claimed; so the queue's invariant  *)
(* holds here, and with it that a job is running only while the runner     *)
(* owns it.                                                                *)
(***************************************************************************)
EXTENDS Delegation, SequenceTheorems, TLAPS

-----------------------------------------------------------------------------
(***************************************************************************)
(* The queue alone: the invariants of JobQueue, for any set of jobs and    *)
(* any bounds.                                                             *)
(***************************************************************************)

(* Tickets are handed out in increasing order: what makes NoOvertaking     *)
(* survive an enqueue.                                                     *)
IssuedBefore == \A j \in Jobs : Known(j) => records[j].enqueued_at < issued

(* The inductive invariant: the invariants of JobQueue support each other, *)
(* and none of them but the type is inductive by itself.                   *)
IInv ==
  /\ QueueTypeOK
  /\ PendingIsQueued
  /\ RunningIsClaimed
  /\ NoOvertaking
  /\ VerdictIsAnnounced
  /\ IssuedBefore

-----------------------------------------------------------------------------
(* Taking the i-th element out of a sequence shifts the rest down by one. *)
LEMMA RemoveAtProperties ==
  ASSUME NEW S, NEW s \in Seq(S), NEW i \in 1..Len(s)
  PROVE  /\ RemoveAt(s, i) \in Seq(S)
         /\ Len(RemoveAt(s, i)) = Len(s) - 1
         /\ \A k \in 1..(Len(s) - 1) :
              RemoveAt(s, i)[k] = IF k < i THEN s[k] ELSE s[k + 1]
<1> DEFINE a == SubSeq(s, 1, i - 1)
           b == SubSeq(s, i + 1, Len(s))
<1>0. /\ Len(s) \in Nat
      /\ \A k \in 1..Len(s) : s[k] \in S
  BY LenProperties, ElementOfSeq
<1>1. /\ a \in Seq(S)
      /\ Len(a) = i - 1
      /\ \A k \in 1..(i - 1) : a[k] = s[k]
  <2>1. \A k \in 1..(i - 1) : s[k] \in S
    BY <1>0
  <2> QED BY <2>1, <1>0, SubSeqProperties, 1 \in Int, i - 1 \in Int
<1>2. /\ b \in Seq(S)
      /\ Len(b) = Len(s) - i
      /\ \A k \in 1..(Len(s) - i) : b[k] = s[i + k]
  <2>1. \A k \in (i + 1)..Len(s) : s[k] \in S
    BY <1>0
  <2> QED BY <2>1, <1>0, SubSeqProperties, i + 1 \in Int, Len(s) \in Int
<1>3. RemoveAt(s, i) = a \o b
  BY DEF RemoveAt
<1> HIDE DEF a, b
<1>4. /\ a \o b \in Seq(S)
      /\ Len(a \o b) = Len(a) + Len(b)
      /\ \A k \in 1..(Len(a) + Len(b)) :
           (a \o b)[k] = IF k <= Len(a) THEN a[k] ELSE b[k - Len(a)]
  BY <1>1, <1>2, ConcatProperties
<1> QED BY <1>0, <1>1, <1>2, <1>3, <1>4

(* The record of a new, unknown or removed job has its type. *)
LEMMA BlankType ==
  ASSUME NEW st \in {"absent", "queued", "gone"}, NEW at \in Nat
  PROVE  Blank(st, at) \in JobRecord
BY JobQueueAssumption DEF Blank, JobRecord, Statuses, Reports, Verdicts

THEOREM QueueInitIInv == QueueInit => IInv
<1> SUFFICES ASSUME QueueInit PROVE IInv
  OBVIOUS
<1>1. /\ records \in [Jobs -> JobRecord]
      /\ \A j \in Jobs : records[j] = Blank("absent", 0)
  BY JobQueueAssumption
     DEF QueueInit, Blank, JobRecord, Statuses, Reports, Verdicts
<1>2. pending = <<>> /\ Len(pending) = 0 /\ pending \in Seq(Jobs)
  BY DEF QueueInit
<1>3. \A j \in Jobs : Status(j) = "absent"
  BY <1>1 DEF Status, Blank
<1>4. QueueTypeOK
  BY <1>1, <1>2 DEF QueueInit, QueueTypeOK
<1>5. PendingIsQueued /\ NoOvertaking
  BY <1>2, <1>3 DEF PendingIsQueued, NoOvertaking, Queued
<1>6. RunningIsClaimed
  BY <1>3, JobQueueAssumption DEF RunningIsClaimed, QueueInit
<1>7. VerdictIsAnnounced
  BY <1>1, <1>3 DEF VerdictIsAnnounced, Terminal, Verdicts, Blank
<1>8. IssuedBefore
  BY <1>3 DEF IssuedBefore, Known
<1> QED BY <1>4, <1>5, <1>6, <1>7, <1>8 DEF IInv

-----------------------------------------------------------------------------
(* One lemma per action.  Each first says what the action does to every    *)
(* record and to every position of the FIFO.                               *)

LEMMA EnqueueStep ==
  ASSUME IInv, NEW j \in Jobs, Enqueue(j)
  PROVE  IInv'
<1> USE DEF IInv, QueueTypeOK
<1>1. /\ \A k \in Jobs : records'[k] = IF k = j THEN Blank("queued", issued) ELSE records[k]
      /\ records' \in [Jobs -> JobRecord]
      /\ Status(j) = "absent"
  BY BlankType DEF Enqueue
<1>2. /\ Status(j)' = "queued"
      /\ \A k \in Jobs \ {j} : Status(k)' = Status(k)
  BY <1>1 DEF Status, Blank
<1>3. /\ Len(pending) \in Nat
      /\ pending' \in Seq(Jobs)
      /\ Len(pending') = Len(pending) + 1
      /\ \A i \in 1..Len(pending) : pending'[i] = pending[i] /\ pending[i] \in Jobs
      /\ pending'[Len(pending) + 1] = j
  BY AppendProperties, LenProperties, ElementOfSeq DEF Enqueue
<1>4. \A i \in 1..Len(pending) : pending[i] # j /\ Queued(pending[i])
  BY <1>1 DEF PendingIsQueued, Queued
<1>5. QueueTypeOK'
  BY <1>1, <1>3 DEF Enqueue
<1>6. PendingIsQueued'
  <2>1. \A i, k \in 1..Len(pending') : pending'[i] = pending'[k] => i = k
    BY <1>3, <1>4 DEF PendingIsQueued
  <2>2. (\A i \in 1..Len(pending) : Queued(pending[i]))'
    BY <1>2, <1>3, <1>4 DEF Queued
  <2>3. \A k \in Jobs : Queued(k)' => \E i \in 1..Len(pending') : pending'[i] = k
    BY <1>2, <1>3 DEF PendingIsQueued, Queued
  <2> QED BY <2>1, <2>2, <2>3 DEF PendingIsQueued
<1>7. RunningIsClaimed'
  BY <1>1, <1>2 DEF RunningIsClaimed, Enqueue
<1>8. /\ records'[j].enqueued_at = issued
      /\ \A k \in Jobs \ {j} : records'[k] = records[k]
      /\ ~Started(j)'
      /\ \A k \in Jobs \ {j} : Started(k)' = Started(k)
  BY <1>1, <1>2 DEF Started, Terminal, Verdicts, Blank
<1>9. NoOvertaking'
  <2>1. \A i, k \in 1..Len(pending') :
          i < k => records'[pending'[i]].enqueued_at < records'[pending'[k]].enqueued_at
    <3>1. \A i \in 1..Len(pending) : records[pending[i]].enqueued_at < issued
      BY <1>3, <1>4 DEF IssuedBefore, Known, Queued
    <3> QED BY <1>3, <1>4, <1>8, <3>1 DEF NoOvertaking
  <2>2. \A h, k \in Jobs :
          Started(h)' /\ Queued(k)' => records'[h].enqueued_at < records'[k].enqueued_at
    <3>1. \A h \in Jobs : Started(h) => records[h].enqueued_at < issued
      BY DEF IssuedBefore, Known, Started, Terminal, Verdicts
    <3> QED BY <1>2, <1>8, <3>1 DEF NoOvertaking, Queued
  <2> QED BY <2>1, <2>2 DEF NoOvertaking
<1>10. VerdictIsAnnounced'
  BY <1>1, <1>2 DEF VerdictIsAnnounced, Terminal, Verdicts, Blank
<1>11. IssuedBefore'
  BY <1>1, <1>2, <1>8 DEF IssuedBefore, Known, Enqueue, JobRecord
<1> QED BY <1>5, <1>6, <1>7, <1>9, <1>10, <1>11

LEMMA ClaimedRecord ==
  ASSUME NEW rec \in JobRecord
  PROVE  [rec EXCEPT !.prior_status = "queued", !.status = "running"] \in JobRecord
BY DEF JobRecord, Statuses

LEMMA ClaimNextStep ==
  ASSUME IInv, ClaimNext
  PROVE  IInv'
<1> USE DEF IInv, QueueTypeOK
<1>0. Len(pending) \in Nat /\ Len(pending) > 0 /\ Head(pending) = pending[1]
  BY LenProperties, EmptySeq DEF ClaimNext
<1> PICK j \in Jobs : j = pending[1]
  BY <1>0, ElementOfSeq
<1>1. /\ Len(pending) \in Nat
      /\ Len(pending) > 0
      /\ Head(pending) = j
      /\ j = pending[1]
      /\ pending' \in Seq(Jobs)
      /\ Len(pending') = Len(pending) - 1
      /\ \A i \in 1..Len(pending') : pending'[i] = pending[i + 1]
      /\ \A i \in 1..Len(pending) : pending[i] \in Jobs
  BY <1>0, HeadTailProperties, LenProperties, ElementOfSeq DEF ClaimNext
<1>2. Queued(j) /\ running = None /\ running' = j
  BY <1>1 DEF PendingIsQueued, ClaimNext
<1>3. /\ records' = [records EXCEPT ![j].prior_status = Status(j), ![j].status = "running"]
      /\ Status(j) = "queued"
  BY <1>1, <1>2 DEF ClaimNext, Queued
<1>4. /\ \A k \in Jobs \ {j} : records'[k] = records[k]
      /\ records'[j].status = "running"
      /\ records'[j].enqueued_at = records[j].enqueued_at
      /\ records'[j].resolved = records[j].resolved
      /\ records'[j].report = records[j].report
      /\ records' \in [Jobs -> JobRecord]
  <2>1. records' = [records EXCEPT ![j] =
                     [records[j] EXCEPT !.prior_status = "queued", !.status = "running"]]
    BY <1>3
  <2>2. records[j] \in JobRecord /\ records \in [Jobs -> JobRecord]
    OBVIOUS
  <2>3. [records[j] EXCEPT !.prior_status = "queued", !.status = "running"] \in JobRecord
    BY <2>2, ClaimedRecord
  <2> QED BY <2>1, <2>2, <2>3 DEF JobRecord
<1>5. /\ Status(j)' = "running"
      /\ \A k \in Jobs \ {j} : Status(k)' = Status(k)
  BY <1>1, <1>4 DEF Status, JobRecord
<1>6. QueueTypeOK'
  BY <1>1, <1>2, <1>4 DEF ClaimNext
<1>7. PendingIsQueued'
  <2>1. \A i, k \in 1..Len(pending') : pending'[i] = pending'[k] => i = k
    BY <1>1 DEF PendingIsQueued
  <2>2. (\A i \in 1..Len(pending) : Queued(pending[i]))'
    <3>1. \A i \in 1..Len(pending') : pending'[i] # j
      BY <1>1 DEF PendingIsQueued
    <3>2. \A i \in 1..Len(pending') : pending'[i] \in Jobs /\ Queued(pending'[i])
      BY <1>1 DEF PendingIsQueued
    <3> QED BY <1>5, <3>1, <3>2 DEF Queued
  <2>3. ASSUME NEW k \in Jobs, Queued(k)'
        PROVE  \E i \in 1..Len(pending') : pending'[i] = k
    <3>1. k # j /\ Queued(k)
      BY <1>5, <2>3 DEF Queued
    <3>2. PICK i \in 1..Len(pending) : pending[i] = k
      BY <3>1 DEF PendingIsQueued
    <3>3. i - 1 \in 1..Len(pending') /\ pending'[i - 1] = k
      BY <1>1, <3>1, <3>2
    <3> QED BY <3>3
  <2> QED BY <2>1, <2>2, <2>3 DEF PendingIsQueued
<1>8. RunningIsClaimed'
  BY <1>1, <1>2, <1>5, JobQueueAssumption DEF RunningIsClaimed
<1>9. \A k \in Jobs : records'[k].enqueued_at = records[k].enqueued_at
  BY <1>4
<1>10. NoOvertaking'
  <2>1. \A i, k \in 1..Len(pending') :
          i < k => records'[pending'[i]].enqueued_at < records'[pending'[k]].enqueued_at
    BY <1>1, <1>9 DEF NoOvertaking
  <2>2. ASSUME NEW h \in Jobs, NEW k \in Jobs, Started(h)', Queued(k)'
        PROVE  records'[h].enqueued_at < records'[k].enqueued_at
    <3>1. k # j /\ Queued(k)
      BY <1>5, <2>2 DEF Queued
    <3>2. CASE h # j
      <4>1. Started(h)
        BY <1>4, <1>5, <2>2, <3>2 DEF Started, Terminal
      <4> QED BY <1>9, <3>1, <4>1 DEF NoOvertaking
    <3>3. CASE h = j
      <4>1. PICK i \in 1..Len(pending) : pending[i] = k
        BY <3>1 DEF PendingIsQueued
      <4>2. 1 < i /\ 1 \in 1..Len(pending)
        BY <1>1, <3>1, <4>1
      <4>3. records[pending[1]].enqueued_at < records[pending[i]].enqueued_at
        BY <4>2 DEF NoOvertaking
      <4> QED BY <1>9, <3>3, <4>1, <4>3, <1>1
    <3> QED BY <3>2, <3>3
  <2> QED BY <2>1, <2>2 DEF NoOvertaking
<1>11. VerdictIsAnnounced'
  BY <1>1, <1>3, <1>4, <1>5 DEF VerdictIsAnnounced, Terminal, Verdicts
<1>12. IssuedBefore'
  BY <1>3, <1>5, <1>9 DEF IssuedBefore, Known, ClaimNext
<1> QED BY <1>6, <1>7, <1>8, <1>10, <1>11, <1>12

(* What reaching a verdict does to the records. *)
LEMMA TransitionProperties ==
  ASSUME IInv, NEW j \in Jobs, Status(j) \in {"queued", "running"},
         NEW v \in Verdicts, NEW r \in Verdicts, TransitionToTerminal(j, v, r)
  PROVE  /\ records' \in [Jobs -> JobRecord]
         /\ running' \in Jobs \cup {None}
         /\ \A k \in Jobs \ {j} : records'[k] = records[k]
         /\ records'[j].status = v
         /\ records'[j].prior_status = Status(j)
         /\ records'[j].report = r
         /\ records'[j].resolved
         /\ records'[j].terminal_at = clock
         /\ records'[j].cancel_requested = records[j].cancel_requested
         /\ \A k \in Jobs : records'[k].enqueued_at = records[k].enqueued_at
<1> DEFINE new == [records[j] EXCEPT !.prior_status = Status(j), !.status = v,
                                     !.terminal_at = clock, !.report = r,
                                     !.resolved = TRUE]
<1>1. records \in [Jobs -> JobRecord] /\ clock \in Nat /\ running \in Jobs \cup {None}
  BY DEF IInv, QueueTypeOK
<1>2. records' = [records EXCEPT ![j] = new]
  BY DEF TransitionToTerminal
<1>3. /\ new \in JobRecord
      /\ new.status = v
      /\ new.prior_status = Status(j)
      /\ new.report = r
      /\ new.resolved
      /\ new.terminal_at = clock
      /\ new.cancel_requested = records[j].cancel_requested
      /\ new.enqueued_at = records[j].enqueued_at
  BY <1>1 DEF JobRecord, Statuses, Reports
<1> HIDE DEF new
<1>4. records'[j] = new /\ \A k \in Jobs \ {j} : records'[k] = records[k]
  BY <1>1, <1>2
<1>5. records' \in [Jobs -> JobRecord]
  BY <1>1, <1>2, <1>3
<1>6. running' \in Jobs \cup {None}
  BY <1>1 DEF TransitionToTerminal
<1> QED BY <1>3, <1>4, <1>5, <1>6

LEMMA CancelQueuedStep ==
  ASSUME IInv, NEW j \in Jobs, CancelQueued(j)
  PROVE  IInv'
<1> USE DEF IInv, QueueTypeOK
<1>1. PICK p \in 1..Len(pending) : pending[p] = j /\ pending' = RemoveAt(pending, p)
  BY DEF CancelQueued
<1>2. /\ Status(j) = "queued"
      /\ UNCHANGED <<issued, clock>>
      /\ running' = running
  <2>1. Status(j) = "queued" /\ UNCHANGED <<issued, clock>>
    BY DEF CancelQueued, Queued
  <2>2. running # j
    BY <2>1 DEF RunningIsClaimed
  <2> QED BY <2>1, <2>2 DEF CancelQueued, TransitionToTerminal
<1>3. /\ records' \in [Jobs -> JobRecord]
      /\ \A k \in Jobs \ {j} : records'[k] = records[k]
      /\ records'[j].status = "cancelled"
      /\ records'[j].prior_status = "queued"
      /\ records'[j].report = "cancelled"
      /\ records'[j].resolved
      /\ \A k \in Jobs : records'[k].enqueued_at = records[k].enqueued_at
  <2>1. "cancelled" \in Verdicts
    BY DEF Verdicts
  <2> QED BY <1>2, <2>1, TransitionProperties DEF CancelQueued
<1>4. /\ Status(j)' = "cancelled"
      /\ \A k \in Jobs \ {j} : Status(k)' = Status(k)
  BY <1>3 DEF Status
<1>5. /\ pending' \in Seq(Jobs)
      /\ Len(pending) \in Nat
      /\ Len(pending') = Len(pending) - 1
      /\ \A i \in 1..Len(pending') :
           pending'[i] = IF i < p THEN pending[i] ELSE pending[i + 1]
      /\ \A i \in 1..Len(pending) : pending[i] \in Jobs
  BY <1>1, RemoveAtProperties, LenProperties, ElementOfSeq
<1> DEFINE from(i) == IF i < p THEN i ELSE i + 1
<1>12. /\ \A i \in 1..Len(pending') :
            from(i) \in 1..Len(pending) /\ pending'[i] = pending[from(i)]
       /\ \A i, k \in 1..Len(pending') : i < k => from(i) < from(k)
  BY <1>5
<1> HIDE DEF from
<1>6. QueueTypeOK'
  BY <1>2, <1>3, <1>5
<1>7. PendingIsQueued'
  <2>1. (\A i, k \in 1..Len(pending) : pending[i] = pending[k] => i = k)'
    BY <1>5 DEF PendingIsQueued
  <2>2. (\A i \in 1..Len(pending) : Queued(pending[i]))'
    <3>1. \A i \in 1..Len(pending') : pending'[i] # j
      BY <1>1, <1>5 DEF PendingIsQueued
    <3>2. \A i \in 1..Len(pending') : pending'[i] \in Jobs /\ Queued(pending'[i])
      BY <1>5, <1>12 DEF PendingIsQueued
    <3> QED BY <1>4, <3>1, <3>2 DEF Queued
  <2>3. ASSUME NEW k \in Jobs, Queued(k)'
        PROVE  \E i \in 1..Len(pending') : pending'[i] = k
    <3>1. k # j /\ Queued(k)
      BY <1>4, <2>3 DEF Queued
    <3>2. PICK i \in 1..Len(pending) : pending[i] = k
      BY <3>1 DEF PendingIsQueued
    <3>3. CASE i < p
      <4>1. i \in 1..Len(pending') /\ pending'[i] = k
        BY <1>1, <1>5, <3>2, <3>3
      <4> QED BY <4>1
    <3>4. CASE i > p
      <4>1. i - 1 \in 1..Len(pending') /\ pending'[i - 1] = k
        BY <1>5, <3>2, <3>4
      <4> QED BY <4>1
    <3> QED BY <1>1, <3>1, <3>2, <3>3, <3>4
  <2> QED BY <2>1, <2>2, <2>3 DEF PendingIsQueued
<1>8. RunningIsClaimed'
  BY <1>2, <1>4 DEF RunningIsClaimed
<1>9. NoOvertaking'
  <2>1. (\A i, k \in 1..Len(pending) :
           i < k => records[pending[i]].enqueued_at < records[pending[k]].enqueued_at)'
    <3>1. \A i \in 1..Len(pending') : pending'[i] \in Jobs
      BY <1>5, <1>12
    <3>2. \A i, k \in 1..Len(pending') :
            i < k => records[pending[from(i)]].enqueued_at < records[pending[from(k)]].enqueued_at
      BY <1>12 DEF NoOvertaking
    <3> SUFFICES ASSUME NEW i \in 1..Len(pending'), NEW k \in 1..Len(pending'), i < k
                 PROVE  records'[pending'[i]].enqueued_at < records'[pending'[k]].enqueued_at
      OBVIOUS
    <3>3. /\ pending'[i] \in Jobs /\ pending'[i] = pending[from(i)]
          /\ pending'[k] \in Jobs /\ pending'[k] = pending[from(k)]
      BY <1>12, <3>1
    <3>4. /\ records'[pending'[i]].enqueued_at = records[pending[from(i)]].enqueued_at
          /\ records'[pending'[k]].enqueued_at = records[pending[from(k)]].enqueued_at
      BY <1>3, <3>3
    <3> QED BY <3>2, <3>4
  <2>2. \A k \in Jobs : Started(k)' => Started(k)
    BY <1>3, <1>4 DEF Started, Terminal
  <2>3. \A k \in Jobs : Queued(k)' => Queued(k)
    BY <1>4 DEF Queued
  <2> QED BY <1>3, <2>1, <2>2, <2>3 DEF NoOvertaking
<1>10. VerdictIsAnnounced'
  BY <1>3, <1>4 DEF VerdictIsAnnounced, Terminal, Verdicts
<1>11. IssuedBefore'
  BY <1>2, <1>3, <1>4 DEF IssuedBefore, Known
<1> QED BY <1>6, <1>7, <1>8, <1>9, <1>10, <1>11

LEMMA MarkStep ==
  ASSUME IInv, NEW j \in Jobs, NEW v \in Verdicts, NEW r \in Verdicts, Mark(j, v, r)
  PROVE  IInv'
<1> USE DEF IInv, QueueTypeOK
<1>1. /\ Status(j) = "running"
      /\ UNCHANGED <<pending, issued, clock>>
      /\ running = j
      /\ running' = None
  BY DEF Mark, RunningIsClaimed, TransitionToTerminal
<1>2. /\ records' \in [Jobs -> JobRecord]
      /\ \A k \in Jobs \ {j} : records'[k] = records[k]
      /\ records'[j].status = v
      /\ records'[j].prior_status = "running"
      /\ records'[j].report = r
      /\ records'[j].resolved
      /\ \A k \in Jobs : records'[k].enqueued_at = records[k].enqueued_at
  BY <1>1, TransitionProperties DEF Mark
<1>3. /\ Status(j)' = v
      /\ \A k \in Jobs \ {j} : Status(k)' = Status(k)
  BY <1>2 DEF Status
<1>4. \A k \in Jobs : Queued(k)' = Queued(k)
  BY <1>1, <1>3 DEF Queued, Verdicts
<1>5. \A i \in 1..Len(pending) : pending[i] \in Jobs
  BY ElementOfSeq
<1>6. PendingIsQueued'
  BY <1>1, <1>4, <1>5 DEF PendingIsQueued
<1>7. RunningIsClaimed'
  BY <1>1, <1>3, JobQueueAssumption DEF RunningIsClaimed, Verdicts
<1>8. NoOvertaking'
  <2>1. \A k \in Jobs : Started(k)' => Started(k)
    BY <1>1, <1>2, <1>3 DEF Started, Terminal
  <2> QED BY <1>1, <1>2, <1>4, <1>5, <2>1 DEF NoOvertaking
<1>9. VerdictIsAnnounced'
  BY <1>2, <1>3 DEF VerdictIsAnnounced, Terminal, Verdicts
<1>10. IssuedBefore'
  BY <1>1, <1>2, <1>3 DEF IssuedBefore, Known
<1> QED BY <1>1, <1>2, <1>6, <1>7, <1>8, <1>9, <1>10

(* A step that leaves alone what the invariant looks at. *)
LEMMA QuietStep ==
  ASSUME IInv,
         records' \in [Jobs -> JobRecord], clock' \in Nat,
         UNCHANGED <<pending, running, issued>>,
         \A k \in Jobs : /\ records'[k].status = records[k].status
                          /\ records'[k].prior_status = records[k].prior_status
                          /\ records'[k].report = records[k].report
                          /\ records'[k].resolved = records[k].resolved
                          /\ records'[k].enqueued_at = records[k].enqueued_at
  PROVE  IInv'
<1> USE DEF IInv, QueueTypeOK
<1>1. \A k \in Jobs : /\ Status(k)' = Status(k)
                       /\ Queued(k)' = Queued(k)
                       /\ Known(k)' = Known(k)
                       /\ Terminal(k)' = Terminal(k)
                       /\ Started(k)' = Started(k)
  BY DEF Status, Queued, Known, Terminal, Started
<1>2. \A i \in 1..Len(pending) : pending[i] \in Jobs
  BY ElementOfSeq
<1>3. PendingIsQueued'
  BY <1>1, <1>2 DEF PendingIsQueued
<1>4. RunningIsClaimed'
  BY <1>1 DEF RunningIsClaimed
<1>5. NoOvertaking'
  BY <1>1, <1>2 DEF NoOvertaking
<1>6. VerdictIsAnnounced' /\ IssuedBefore'
  BY <1>1 DEF VerdictIsAnnounced, IssuedBefore
<1> QED BY <1>3, <1>4, <1>5, <1>6

LEMMA CancelRunningStep ==
  ASSUME IInv, NEW j \in Jobs, CancelRunning(j)
  PROVE  IInv'
<1>1. records \in [Jobs -> JobRecord] /\ clock \in Nat
  BY DEF IInv, QueueTypeOK
<1>2. records' = [records EXCEPT ![j].cancel_requested = TRUE]
  BY DEF CancelRunning
<1>3. records' \in [Jobs -> JobRecord]
  BY <1>1, <1>2 DEF JobRecord
<1>4. \A k \in Jobs : /\ records'[k].status = records[k].status
                       /\ records'[k].prior_status = records[k].prior_status
                       /\ records'[k].report = records[k].report
                       /\ records'[k].resolved = records[k].resolved
                       /\ records'[k].enqueued_at = records[k].enqueued_at
  BY <1>1, <1>2 DEF JobRecord
<1> QED BY <1>1, <1>3, <1>4, QuietStep DEF CancelRunning

LEMMA UpdatePartialStep ==
  ASSUME IInv, NEW j \in Jobs, NEW n \in 0..MaxTurns, UpdatePartial(j, n)
  PROVE  IInv'
<1>1. records \in [Jobs -> JobRecord] /\ clock \in Nat
  BY DEF IInv, QueueTypeOK
<1>2. records' = [records EXCEPT ![j].partial = n]
  BY DEF UpdatePartial
<1>3. records' \in [Jobs -> JobRecord]
  BY <1>1, <1>2 DEF JobRecord
<1>4. \A k \in Jobs : /\ records'[k].status = records[k].status
                       /\ records'[k].prior_status = records[k].prior_status
                       /\ records'[k].report = records[k].report
                       /\ records'[k].resolved = records[k].resolved
                       /\ records'[k].enqueued_at = records[k].enqueued_at
  BY <1>1, <1>2 DEF JobRecord
<1> QED BY <1>1, <1>3, <1>4, QuietStep DEF UpdatePartial

LEMMA SweepStep ==
  ASSUME IInv, Sweep
  PROVE  IInv'
<1> USE DEF IInv, QueueTypeOK
<1>1. UNCHANGED <<pending, running, issued, clock>>
  BY DEF Sweep
<1>2. \A k \in Jobs : records'[k] = IF k \in Expired THEN Blank("gone", 0) ELSE records[k]
  BY DEF Sweep, Forget
<1>3. records' \in [Jobs -> JobRecord]
  BY BlankType DEF Sweep, Forget
<1>4. /\ \A k \in Expired : Terminal(k) /\ Status(k)' = "gone"
      /\ \A k \in Jobs \ Expired : records'[k] = records[k] /\ Status(k)' = Status(k)
  BY <1>2 DEF Expired, Status, Blank
<1>5. \A k \in Jobs : Queued(k)' = Queued(k)
  BY <1>4 DEF Queued, Terminal, Verdicts
<1>6. \A i \in 1..Len(pending) : pending[i] \in Jobs /\ Queued(pending[i])
  BY ElementOfSeq DEF PendingIsQueued
<1>7. PendingIsQueued'
  BY <1>1, <1>5, <1>6 DEF PendingIsQueued
<1>8. RunningIsClaimed'
  BY <1>1, <1>4 DEF RunningIsClaimed, Terminal, Verdicts
<1>9. NoOvertaking'
  <2>1. \A k \in Jobs : Queued(k) => records'[k] = records[k]
    BY <1>4 DEF Queued, Terminal, Verdicts
  <2>2. \A k \in Jobs : Started(k)' => Started(k) /\ records'[k] = records[k]
    BY <1>4 DEF Started, Terminal, Verdicts
  <2> QED BY <1>1, <1>5, <1>6, <2>1, <2>2 DEF NoOvertaking
<1>10. VerdictIsAnnounced'
  BY <1>2, <1>4 DEF VerdictIsAnnounced, Terminal, Verdicts, Blank
<1>11. IssuedBefore'
  BY <1>1, <1>4 DEF IssuedBefore, Known
<1> QED BY <1>1, <1>3, <1>7, <1>8, <1>9, <1>10, <1>11

LEMMA RestartStep ==
  ASSUME IInv, Restart
  PROVE  IInv'
<1> USE DEF IInv, QueueTypeOK
<1>1. /\ pending' = <<>> /\ Len(pending') = 0 /\ pending' \in Seq(Jobs)
      /\ running' = None
      /\ UNCHANGED <<issued, clock>>
  BY DEF Restart
<1>2. \A k \in Jobs :
        records'[k] = IF Status(k) # "absent" THEN Blank("gone", 0) ELSE records[k]
  BY DEF Restart, Forget
<1>3. records' \in [Jobs -> JobRecord]
  BY BlankType DEF Restart, Forget
<1>4. \A k \in Jobs : Status(k)' \in {"absent", "gone"}
  BY <1>2 DEF Status, Blank
<1>5. PendingIsQueued' /\ NoOvertaking'
  BY <1>1, <1>4 DEF PendingIsQueued, NoOvertaking, Queued
<1>6. RunningIsClaimed'
  BY <1>1, <1>4, JobQueueAssumption DEF RunningIsClaimed
<1>7. VerdictIsAnnounced'
  BY <1>2, <1>4 DEF VerdictIsAnnounced, Terminal, Verdicts, Blank, Status
<1>8. IssuedBefore'
  BY <1>4 DEF IssuedBefore, Known
<1> QED BY <1>1, <1>3, <1>5, <1>6, <1>7, <1>8

LEMMA PassTimeStep ==
  ASSUME IInv, PassTime
  PROVE  IInv'
BY QuietStep DEF PassTime, IInv, QueueTypeOK

LEMMA StutterStep ==
  ASSUME IInv, UNCHANGED queueVars
  PROVE  IInv'
BY QuietStep DEF queueVars, IInv, QueueTypeOK

THEOREM QueueStep == IInv /\ [QueueNext]_queueVars => IInv'
<1> SUFFICES ASSUME IInv, [QueueNext]_queueVars PROVE IInv'
  OBVIOUS
<1>1. ASSUME NEW j \in Jobs, Enqueue(j) PROVE IInv'
  BY <1>1, EnqueueStep
<1>2. ASSUME NEW j \in Jobs, CancelQueued(j) PROVE IInv'
  BY <1>2, CancelQueuedStep
<1>3. ASSUME NEW j \in Jobs, CancelRunning(j) PROVE IInv'
  BY <1>3, CancelRunningStep
<1>4. ASSUME NEW j \in Jobs, NEW v \in Verdicts, NEW r \in {v, "failed"}, Mark(j, v, r)
      PROVE  IInv'
  <2>1. r \in Verdicts
    BY DEF Verdicts
  <2> QED BY <1>4, <2>1, MarkStep
<1>5. ASSUME NEW j \in Jobs, NEW n \in 1..MaxTurns, UpdatePartial(j, n) PROVE IInv'
  <2>1. n \in 0..MaxTurns
    BY JobQueueAssumption
  <2> QED BY <1>5, <2>1, UpdatePartialStep
<1>6. CASE ClaimNext
  BY <1>6, ClaimNextStep
<1>7. CASE Sweep
  BY <1>7, SweepStep
<1>8. CASE PassTime
  BY <1>8, PassTimeStep
<1>9. CASE Restart
  BY <1>9, RestartStep
<1>10. CASE UNCHANGED queueVars
  BY <1>10, StutterStep
<1> QED BY <1>1, <1>2, <1>3, <1>4, <1>5, <1>6, <1>7, <1>8, <1>9, <1>10 DEF QueueNext

(* The queue keeps its inductive invariant forever. *)
THEOREM QueueInvariant == QueueSpec => []IInv
<1> QED BY QueueInitIInv, QueueStep, PTL DEF QueueSpec

(* Type correctness of every reachable state of the queue. *)
THEOREM QueueTypeCorrect == QueueSpec => []QueueTypeOK
<1>1. IInv => QueueTypeOK
  BY DEF IInv
<1> QED BY <1>1, QueueInvariant, PTL

(* FIFO and statuses agree, for any number of jobs. *)
THEOREM QueuePendingIsQueued == QueueSpec => []PendingIsQueued
<1>1. IInv => PendingIsQueued
  BY DEF IInv
<1> QED BY <1>1, QueueInvariant, PTL

(* At most one job runs, and the queue knows which, for any number of jobs. *)
THEOREM QueueRunningIsClaimed == QueueSpec => []RunningIsClaimed
<1>1. IInv => RunningIsClaimed
  BY DEF IInv
<1> QED BY <1>1, QueueInvariant, PTL

(* Jobs start in the order they were enqueued, for any number of jobs. *)
THEOREM QueueNoOvertaking == QueueSpec => []NoOvertaking
<1>1. IInv => NoOvertaking
  BY DEF IInv
<1> QED BY <1>1, QueueInvariant, PTL

(* A verdict, its report and the resolved promise come together. *)
THEOREM QueueVerdictIsAnnounced == QueueSpec => []VerdictIsAnnounced
<1>1. IInv => VerdictIsAnnounced
  BY DEF IInv
<1> QED BY <1>1, QueueInvariant, PTL

-----------------------------------------------------------------------------
(* A step changes the record of at most one job, unless it removes records. *)
LEMMA RecordsChange ==
  ASSUME IInv, QueueNext
  PROVE  \/ \E j \in Jobs : /\ ~Terminal(j)
                            /\ \A k \in Jobs \ {j} : records'[k] = records[k]
         \/ \A k \in Jobs : records'[k] = records[k] \/ records'[k].status = "gone"
<1> USE DEF IInv, QueueTypeOK
<1>1. ASSUME NEW j \in Jobs, Enqueue(j) \/ CancelQueued(j) \/ CancelRunning(j)
      PROVE  ~Terminal(j) /\ \A k \in Jobs \ {j} : records'[k] = records[k]
  BY <1>1 DEF Enqueue, CancelQueued, CancelRunning, TransitionToTerminal, Queued,
             Terminal, Verdicts
<1>2. ASSUME NEW j \in Jobs, NEW v \in Verdicts, NEW r \in {v, "failed"}, Mark(j, v, r)
      PROVE  ~Terminal(j) /\ \A k \in Jobs \ {j} : records'[k] = records[k]
  BY <1>2 DEF Mark, TransitionToTerminal, Terminal, Verdicts
<1>3. ASSUME NEW j \in Jobs, NEW n \in 1..MaxTurns, UpdatePartial(j, n)
      PROVE  ~Terminal(j) /\ \A k \in Jobs \ {j} : records'[k] = records[k]
  BY <1>3 DEF UpdatePartial, Terminal, Verdicts
<1>4. CASE ClaimNext
  <2>1. 1 \in 1..Len(pending) /\ Head(pending) = pending[1]
    BY <1>4, LenProperties, EmptySeq DEF ClaimNext
  <2>2. PICK j \in Jobs : j = Head(pending)
    BY <2>1, ElementOfSeq
  <2>3. ~Terminal(j)
    BY <2>1, <2>2 DEF PendingIsQueued, Queued, Terminal, Verdicts
  <2>4. \A k \in Jobs \ {j} : records'[k] = records[k]
    BY <1>4, <2>2 DEF ClaimNext
  <2> QED BY <2>3, <2>4
<1>5. CASE Sweep
  BY <1>5 DEF Sweep, Forget, Blank
<1>6. CASE PassTime
  BY <1>6 DEF PassTime
<1>7. CASE Restart
  BY <1>7 DEF Restart, Forget, Blank
<1> QED BY <1>1, <1>2, <1>3, <1>4, <1>5, <1>6, <1>7 DEF QueueNext

(* "Once terminal, the job is immutable": for any number of jobs, no method *)
(* of the queue changes the record of a job that has its verdict.          *)
THEOREM QueueVerdictIsFinal == QueueSpec => VerdictIsFinal
<1> DEFINE Final == \A j \in Jobs :
                      Terminal(j) => records'[j] = records[j] \/ records'[j].status = "gone"
<1>1. IInv /\ [QueueNext]_queueVars => [Final]_queueVars
  BY RecordsChange
<1> QED BY <1>1, QueueInvariant, PTL DEF QueueSpec, VerdictIsFinal

(* The queue implements the lifecycle of the design document: every queue  *)
(* operation is a step of JobLifecycle or leaves all phases alone.         *)
THEOREM QueueImplementsLifecycle == QueueSpec => LifecycleSpec
<1> DEFINE ph == [j \in Jobs |-> Status(j)]
<1> USE DEF IInv, QueueTypeOK, Lifecycle!Verdicts
<1>1. QueueInit => Lifecycle!Init
  BY DEF QueueInit, Lifecycle!Init, Status, Blank
<1>2. ASSUME IInv, QueueNext
      PROVE  Lifecycle!Next \/ UNCHANGED ph
  <2>1. ASSUME NEW j \in Jobs, Enqueue(j) PROVE Lifecycle!Submit(j)
    BY <1>2, <2>1 DEF Enqueue, Lifecycle!Submit, Status, Blank
  <2>2. ASSUME NEW j \in Jobs, NEW v \in Verdicts, NEW r \in Verdicts,
               Status(j) \in {"queued", "running"}, TransitionToTerminal(j, v, r)
        PROVE  ph' = [ph EXCEPT ![j] = v]
    <3>1. /\ \A k \in Jobs \ {j} : records'[k] = records[k]
          /\ records'[j].status = v
      BY <1>2, <2>2, TransitionProperties
    <3> QED BY <3>1 DEF Status
  <2>3. ASSUME NEW j \in Jobs, CancelQueued(j) PROVE Lifecycle!Finish(j)
    <3>1. Status(j) = "queued" /\ TransitionToTerminal(j, "cancelled", "cancelled")
      BY <2>3 DEF CancelQueued, Queued
    <3>2. ph' = [ph EXCEPT ![j] = "cancelled"]
      BY <2>2, <3>1 DEF Verdicts
    <3> QED BY <3>1, <3>2 DEF Lifecycle!Finish
  <2>4. ASSUME NEW j \in Jobs, NEW v \in Verdicts, NEW r \in {v, "failed"}, Mark(j, v, r)
        PROVE  Lifecycle!Finish(j)
    <3>1. Status(j) = "running" /\ TransitionToTerminal(j, v, r) /\ r \in Verdicts
      BY <2>4 DEF Mark, Verdicts
    <3>2. ph' = [ph EXCEPT ![j] = v]
      BY <2>2, <3>1
    <3> QED BY <3>1, <3>2 DEF Lifecycle!Finish, Verdicts
  <2>5. ASSUME NEW j \in Jobs, CancelRunning(j) PROVE UNCHANGED ph
    BY <1>2, <2>5 DEF CancelRunning, Status, JobRecord
  <2>6. ASSUME NEW j \in Jobs, NEW n \in 1..MaxTurns, UpdatePartial(j, n)
        PROVE  UNCHANGED ph
    BY <1>2, <2>6 DEF UpdatePartial, Status, JobRecord
  <2>7. CASE ClaimNext
    <3>1. 1 \in 1..Len(pending) /\ Head(pending) = pending[1]
      BY <1>2, <2>7, LenProperties, EmptySeq DEF ClaimNext
    <3>2. PICK j \in Jobs : j = Head(pending)
      BY <1>2, <3>1, ElementOfSeq
    <3>3. Status(j) = "queued"
      BY <1>2, <3>1, <3>2 DEF PendingIsQueued, Queued
    <3>4. records' = [records EXCEPT ![j].prior_status = Status(j), ![j].status = "running"]
      BY <2>7, <3>2 DEF ClaimNext
    <3>5. ph' = [ph EXCEPT ![j] = "running"]
      BY <1>2, <3>4 DEF Status, JobRecord
    <3>6. \A k \in Jobs : Status(k) # "running"
      BY <1>2, <2>7, JobQueueAssumption DEF ClaimNext, RunningIsClaimed
    <3>7. Lifecycle!Start(j)
      BY <3>3, <3>5, <3>6 DEF Lifecycle!Start
    <3> QED BY <3>7 DEF Lifecycle!Next
  <2>8. CASE Sweep
    <3>1. Lifecycle!Expire
      <4>1. Expired \in SUBSET {j \in Jobs : ph[j] \in Verdicts}
        BY DEF Expired, Terminal
      <4>2. ph' = [j \in Jobs |-> IF j \in Expired THEN "gone" ELSE ph[j]]
        BY <2>8 DEF Sweep, Forget, Status, Blank
      <4> QED BY <4>1, <4>2 DEF Lifecycle!Expire, Verdicts
    <3> QED BY <3>1 DEF Lifecycle!Next
  <2>9. CASE PassTime
    BY <2>9 DEF PassTime, Status
  <2>10. CASE Restart
    <3>1. Lifecycle!Lose
      BY <2>10 DEF Restart, Forget, Lifecycle!Lose, Status, Blank
    <3> QED BY <3>1 DEF Lifecycle!Next
  <2> QED BY <1>2, <2>1, <2>3, <2>4, <2>5, <2>6, <2>7, <2>8, <2>9, <2>10
          DEF QueueNext, Lifecycle!Next
<1>3. UNCHANGED queueVars => UNCHANGED ph
  BY DEF queueVars, Status
<1>4. IInv /\ [QueueNext]_queueVars => [Lifecycle!Next]_ph
  BY <1>2, <1>3
<1> QED BY <1>1, <1>4, QueueInvariant, PTL
        DEF QueueSpec, LifecycleSpec, Lifecycle!Spec

-----------------------------------------------------------------------------
(***************************************************************************)
(* The queue with its runner and its callers: the invariants of Delegation *)
(* for any number of jobs and callers.                                     *)
(***************************************************************************)

(* The types of the runner and of the parked callers. *)
RunnerTypeOK ==
  /\ pc \in {"idle", "before", "streaming", "closing", "assembling",
             "failing", "finishing"}
  /\ current \in Jobs \cup {None}
  /\ abort \in {"none", "live", "aborted"}
  /\ outcome \in {"none"} \cup Verdicts
  /\ ticks \in Nat
  /\ calls \in [Callers -> [op : {"none", "poll", "cancel"}, job : Jobs \cup {None}]]

(* A query that has ended has an outcome, and the verdict "cancelled" is   *)
(* only ever decided for a job whose cancel was requested.                 *)
OutcomeIsAsked ==
  /\ pc \in {"closing", "assembling"} => outcome \in Verdicts
  /\ pc \in {"closing", "assembling"} /\ outcome = "cancelled"
       => records[current].cancel_requested

(* Between failJob and finishCycle the job's record is too young to be     *)
(* swept.                                                                  *)
JustFailed ==
  pc = "finishing" => Status(current) = "failed" /\ records[current].terminal_at = clock

(* A job whose poll has not been woken yet is too young as well. *)
PollIsFresh ==
  \A c \in Callers : Waits(c, "poll") =>
    /\ calls[c].job \in Jobs
    /\ Known(calls[c].job)
    /\ Terminal(calls[c].job) => records[calls[c].job].terminal_at = clock

DInv ==
  /\ IInv
  /\ RunnerTypeOK
  /\ RunnerOwnsRunning
  /\ CancelHitsItsJob
  /\ OutcomeIsAsked
  /\ JustFailed
  /\ PollIsFresh

-----------------------------------------------------------------------------
(* A busy runner, but for the moment before finishCycle, has a job that is *)
(* running.                                                                *)
LEMMA OwnedJob ==
  ASSUME DInv, pc \notin {"idle", "finishing"}
  PROVE  current \in Jobs /\ running = current /\ Status(current) = "running"
BY JobQueueAssumption DEF DInv, RunnerTypeOK, RunnerOwnsRunning, IInv, RunningIsClaimed

(* The composition takes only steps that the queue's own specification has.*)
LEMMA StepOfQueue ==
  ASSUME DInv, [Next]_vars
  PROVE  [QueueNext]_queueVars
<1>1. CASE UNCHANGED vars
  BY <1>1 DEF vars
<1>2. ASSUME NEW j \in Jobs, Delegate(j) \/ CancelWaiting(j)
      PROVE  QueueNext
  BY <1>2 DEF Delegate, CancelWaiting, QueueNext
<1>3. ASSUME NEW c \in Callers, NEW j \in Jobs, PollWait(c, j) \/ CancelActive(c, j)
      PROVE  [QueueNext]_queueVars
  BY <1>3 DEF PollWait, CancelActive, QueueNext
<1>4. ASSUME NEW c \in Callers, Return(c)
      PROVE  UNCHANGED queueVars
  BY <1>4 DEF Return
<1>5. CASE Dispatch \/ DispatchNothing
  BY <1>5 DEF Dispatch, DispatchNothing, QueueNext
<1>6. CASE AssistantTurn
  <2>1. current \in Jobs
    BY <1>6, OwnedJob DEF AssistantTurn
  <2>2. records[current].partial + 1 \in 1..MaxTurns
    <3>1. records[current].partial \in 0..MaxTurns
      BY <2>1 DEF DInv, IInv, QueueTypeOK, JobRecord
    <3> QED
      BY <1>6, <3>1, JobQueueAssumption DEF AssistantTurn
  <2> QED
    BY <1>6, <2>1, <2>2 DEF AssistantTurn, QueueNext
<1>7. CASE StartQuery \/ QueryThrows \/ StreamEnds \/ DecideVerdict \/ FinishFailed
  BY <1>7 DEF StartQuery, QueryThrows, StreamEnds, DecideVerdict, FinishFailed
<1>8. CASE MarkVerdict
  <2>1. current \in Jobs /\ Status(current) = "running"
    BY <1>8, OwnedJob DEF MarkVerdict
  <2>2. outcome \in Verdicts
    BY <1>8 DEF DInv, OutcomeIsAsked, MarkVerdict
  <2>3. AssembledReport(current) = "failed"
    BY <2>1 DEF AssembledReport, Terminal, Verdicts
  <2> QED
    BY <1>8, <2>1, <2>2, <2>3 DEF MarkVerdict, QueueNext
<1>9. CASE FailJob
  <2>1. current \in Jobs /\ Status(current) = "running"
    BY <1>9, OwnedJob DEF FailJob
  <2>2. AssembledReport(current) = "failed"
    BY <2>1 DEF AssembledReport, Terminal, Verdicts
  <2> QED
    BY <1>9, <2>1, <2>2 DEF FailJob, QueueNext, Verdicts
<1>10. CASE DailySweep \/ TimePasses \/ DaemonRestart
  BY <1>10 DEF DailySweep, TimePasses, DaemonRestart, QueueNext
<1> QED
  BY <1>1, <1>2, <1>3, <1>4, <1>5, <1>6, <1>7, <1>8, <1>9, <1>10 DEF Next, RunnerStep

LEMMA QueueKept ==
  ASSUME DInv, [Next]_vars
  PROVE  IInv'
BY StepOfQueue, QueueStep DEF DInv

-----------------------------------------------------------------------------
(* The part of DInv that is not the queue's. *)
Rest ==
  /\ RunnerTypeOK
  /\ RunnerOwnsRunning
  /\ CancelHitsItsJob
  /\ OutcomeIsAsked
  /\ JustFailed

(* What the handlers and the timer do while the runner is parked. *)
LEMMA RunnerUndisturbed ==
  ASSUME DInv,
         UNCHANGED <<pc, current, abort, outcome, running>>,
         ticks' \in Nat,
         calls' \in [Callers -> [op : {"none", "poll", "cancel"}, job : Jobs \cup {None}]],
         pc = "finishing" => records'[current] = records[current] /\ clock' = clock,
         \A k \in Jobs : running = k => records'[k].cancel_requested = records[k].cancel_requested,
         \A k \in Jobs :
           records'[k].status = "cancelled" /\ records'[k].prior_status = "running" =>
             /\ records[k].status = "cancelled" /\ records[k].prior_status = "running"
             /\ records'[k].cancel_requested = records[k].cancel_requested
  PROVE  Rest'
<1>1. RunnerTypeOK' /\ RunnerOwnsRunning'
  BY DEF DInv, RunnerTypeOK, RunnerOwnsRunning
<1>2. current # None => records'[current].cancel_requested = records[current].cancel_requested
  BY DEF DInv, RunnerTypeOK, RunnerOwnsRunning
<1>3. CancelHitsItsJob'
  BY <1>2 DEF DInv, CancelHitsItsJob, Status
<1>4. OutcomeIsAsked'
  BY <1>2 DEF DInv, OutcomeIsAsked, RunnerOwnsRunning
<1>5. JustFailed'
  BY DEF DInv, JustFailed, Status
<1> QED
  BY <1>1, <1>3, <1>4, <1>5 DEF Rest

LEMMA PollWaitKeeps ==
  ASSUME DInv, NEW c \in Callers, NEW j \in Jobs, PollWait(c, j)
  PROVE  Rest'
<1>1. /\ UNCHANGED <<queueVars, runnerVars>>
      /\ calls' \in [Callers -> [op : {"none", "poll", "cancel"}, job : Jobs \cup {None}]]
  BY DEF PollWait, DInv, RunnerTypeOK
<1> QED
  BY <1>1, RunnerUndisturbed DEF queueVars, runnerVars, DInv, RunnerTypeOK

LEMMA DelegateKeeps ==
  ASSUME DInv, NEW j \in Jobs, Delegate(j)
  PROVE  Rest'
<1>1. /\ UNCHANGED <<pc, current, abort, outcome, running, calls, clock>>
      /\ ticks' \in Nat
  BY DEF Delegate, Enqueue, DInv, RunnerTypeOK
<1>2. /\ \A k \in Jobs \ {j} : records'[k] = records[k]
      /\ Status(j) = "absent" /\ records'[j].status = "queued"
  BY DEF Delegate, Enqueue, DInv, IInv, QueueTypeOK, Blank
<1>3. running # j
  BY <1>2 DEF DInv, IInv, RunningIsClaimed
<1>4. pc = "finishing" => current # j /\ current \in Jobs
  BY <1>2 DEF DInv, JustFailed, RunnerTypeOK, RunnerOwnsRunning
<1> QED
  BY <1>1, <1>2, <1>3, <1>4, RunnerUndisturbed DEF DInv, RunnerTypeOK

LEMMA CancelWaitingKeeps ==
  ASSUME DInv, NEW j \in Jobs, CancelWaiting(j)
  PROVE  Rest'
<1>1. Status(j) = "queued" /\ TransitionToTerminal(j, "cancelled", "cancelled")
  BY DEF CancelWaiting, CancelQueued, Queued
<1>2. UNCHANGED <<runnerVars, calls, clock>>
  BY DEF CancelWaiting, CancelQueued
<1>3. /\ \A k \in Jobs \ {j} : records'[k] = records[k]
      /\ records'[j].prior_status = "queued"
  BY <1>1, TransitionProperties DEF DInv, Verdicts
<1>4. running # j
  BY <1>1 DEF DInv, IInv, RunningIsClaimed
<1>5. running' = running
  BY <1>1, <1>4 DEF TransitionToTerminal
<1>6. pc = "finishing" => current # j /\ current \in Jobs
  BY <1>1 DEF DInv, JustFailed, RunnerTypeOK, RunnerOwnsRunning
<1> QED
  BY <1>2, <1>3, <1>4, <1>5, <1>6, RunnerUndisturbed DEF DInv, RunnerTypeOK, runnerVars

(* A cancel reaches the controller only when it names the job the runner   *)
(* works on.                                                               *)
LEMMA CancelActiveKeeps ==
  ASSUME DInv, NEW c \in Callers, NEW j \in Jobs, CancelActive(c, j)
  PROVE  Rest'
<1>1. /\ Status(j) = "running" /\ running = j
      /\ UNCHANGED <<pc, current, outcome, ticks, running, clock>>
  BY DEF CancelActive, CancelRunning, DInv, IInv, RunningIsClaimed
<1>2. current = j /\ pc # "finishing"
  BY <1>1, JobQueueAssumption DEF DInv, RunnerOwnsRunning
<1>3. /\ records'[j].cancel_requested
      /\ records'[j].status = "running"
      /\ \A k \in Jobs \ {j} : records'[k] = records[k]
  BY <1>1 DEF CancelActive, CancelRunning, DInv, IInv, QueueTypeOK, JobRecord, Status
<1>4. RunnerTypeOK'
  BY <1>1 DEF CancelActive, DInv, RunnerTypeOK
<1>5. RunnerOwnsRunning' /\ JustFailed' /\ OutcomeIsAsked'
  BY <1>1, <1>2, <1>3 DEF DInv, RunnerOwnsRunning, JustFailed, OutcomeIsAsked
<1>6. CancelHitsItsJob'
  BY <1>1, <1>2, <1>3, JobQueueAssumption DEF DInv, CancelHitsItsJob, Status
<1> QED
  BY <1>4, <1>5, <1>6 DEF Rest

LEMMA DispatchKeeps ==
  ASSUME DInv, Dispatch \/ DispatchNothing
  PROVE  Rest'
<1>1. CASE DispatchNothing
  BY <1>1, RunnerUndisturbed DEF DispatchNothing, queueVars, DInv, RunnerTypeOK
<1>2. CASE Dispatch
  <2>1. PICK j \in Jobs : j = Head(pending) /\ running' = j /\ current' = j
    <3>1. pending \in Seq(Jobs) /\ pending # <<>>
      BY <1>2 DEF Dispatch, ClaimNext, DInv, IInv, QueueTypeOK
    <3> QED
      BY <1>2, <3>1 DEF Dispatch, ClaimNext
  <2>2. /\ pc' = "before" /\ pc = "idle" /\ ticks' \in Nat
        /\ UNCHANGED <<abort, outcome, calls>>
    BY <1>2 DEF Dispatch, DInv, RunnerTypeOK
  <2>3. /\ \A k \in Jobs \ {j} : records'[k] = records[k]
        /\ records'[j].status = "running"
    BY <1>2, <2>1 DEF Dispatch, ClaimNext, DInv, IInv, QueueTypeOK, JobRecord
  <2>4. abort # "aborted"
    BY <2>2 DEF DInv, RunnerOwnsRunning, CancelHitsItsJob
  <2>5. RunnerTypeOK' /\ RunnerOwnsRunning' /\ JustFailed' /\ OutcomeIsAsked'
    BY <2>1, <2>2, JobQueueAssumption
       DEF DInv, RunnerTypeOK, RunnerOwnsRunning, JustFailed, OutcomeIsAsked
  <2>6. CancelHitsItsJob'
    BY <2>2, <2>3, <2>4 DEF DInv, CancelHitsItsJob, Status
  <2> QED
    BY <2>5, <2>6 DEF Rest
<1> QED
  BY <1>1, <1>2

LEMMA AssistantTurnKeeps ==
  ASSUME DInv, AssistantTurn
  PROVE  Rest'
<1>1. current \in Jobs /\ pc = "streaming"
  BY OwnedJob DEF AssistantTurn
<1>2. UNCHANGED <<runnerVars, calls, running, clock>>
  BY DEF AssistantTurn, UpdatePartial
<1>3. /\ \A k \in Jobs \ {current} : records'[k] = records[k]
      /\ records'[current].status = records[current].status
      /\ records'[current].prior_status = records[current].prior_status
      /\ records'[current].cancel_requested = records[current].cancel_requested
  BY <1>1 DEF AssistantTurn, UpdatePartial, DInv, IInv, QueueTypeOK, JobRecord
<1> QED
  BY <1>1, <1>2, <1>3, RunnerUndisturbed DEF runnerVars, DInv, RunnerTypeOK

(* The awaits that settle without touching the queue. *)
LEMMA ParkedKeeps ==
  ASSUME DInv, StartQuery \/ QueryThrows \/ StreamEnds \/ DecideVerdict
  PROVE  Rest'
<1>1. /\ current \in Jobs
      /\ UNCHANGED <<queueVars, current, ticks, calls>>
  BY OwnedJob DEF StartQuery, QueryThrows, StreamEnds, DecideVerdict
<1>2. CASE StartQuery \/ QueryThrows
  BY <1>1, <1>2, JobQueueAssumption
     DEF StartQuery, QueryThrows, queueVars, DInv, Rest, RunnerTypeOK, RunnerOwnsRunning,
         CancelHitsItsJob, OutcomeIsAsked, JustFailed, Status
<1>3. CASE StreamEnds
  <2>1. outcome' \in Verdicts /\ (outcome' = "cancelled" => abort = "aborted")
    BY <1>3 DEF StreamEnds, Verdicts
  <2> QED
    BY <1>1, <1>3, <2>1, JobQueueAssumption
       DEF StreamEnds, queueVars, DInv, Rest, RunnerTypeOK, RunnerOwnsRunning,
           CancelHitsItsJob, OutcomeIsAsked, JustFailed, Status
<1>4. CASE DecideVerdict
  <2>1. /\ outcome' \in Verdicts
        /\ outcome' = "cancelled" => records[current].cancel_requested
    BY <1>4 DEF DecideVerdict, DInv, OutcomeIsAsked, Verdicts
  <2> QED
    BY <1>1, <1>4, <2>1, JobQueueAssumption
       DEF DecideVerdict, queueVars, DInv, Rest, RunnerTypeOK, RunnerOwnsRunning,
           CancelHitsItsJob, OutcomeIsAsked, JustFailed, Status
<1> QED
  BY <1>2, <1>3, <1>4

(* The two ways to a verdict: the job that is marked is the one that runs. *)
LEMMA MarkVerdictKeeps ==
  ASSUME DInv, MarkVerdict
  PROVE  Rest'
<1>1. current \in Jobs /\ running = current /\ Status(current) = "running"
  BY OwnedJob DEF MarkVerdict
<1>2. /\ outcome \in Verdicts
      /\ outcome = "cancelled" => records[current].cancel_requested
  BY DEF MarkVerdict, DInv, OutcomeIsAsked
<1>3. AssembledReport(current) = "failed" /\ "failed" \in Verdicts
  BY <1>1 DEF AssembledReport, Terminal, Verdicts
<1>4. TransitionToTerminal(current, outcome, AssembledReport(current))
  BY DEF MarkVerdict, Mark
<1>5. /\ \A k \in Jobs \ {current} : records'[k] = records[k]
      /\ records'[current].status = outcome
      /\ records'[current].cancel_requested = records[current].cancel_requested
  BY <1>1, <1>2, <1>3, <1>4, TransitionProperties DEF DInv
<1>6. running' = None
  BY <1>1, <1>4 DEF TransitionToTerminal
<1>7. /\ pc' = "idle" /\ current' = None /\ abort' = "none" /\ outcome' = "none"
      /\ ticks' = ticks + 1 /\ calls' = calls
  BY DEF MarkVerdict, FinishCycle
<1>8. CancelHitsItsJob'
  BY <1>1, <1>2, <1>5, <1>7 DEF DInv, CancelHitsItsJob, Status
<1> QED
  BY <1>6, <1>7, <1>8
     DEF DInv, Rest, RunnerTypeOK, RunnerOwnsRunning, OutcomeIsAsked, JustFailed

LEMMA FailJobKeeps ==
  ASSUME DInv, FailJob
  PROVE  Rest'
<1>1. current \in Jobs /\ running = current /\ Status(current) = "running"
  BY OwnedJob DEF FailJob
<1>2. AssembledReport(current) = "failed" /\ "failed" \in Verdicts
  BY <1>1 DEF AssembledReport, Terminal, Verdicts
<1>3. TransitionToTerminal(current, "failed", "failed") /\ clock' = clock
  BY <1>2 DEF FailJob, Mark
<1>4. /\ \A k \in Jobs \ {current} : records'[k] = records[k]
      /\ records'[current].status = "failed" /\ records'[current].terminal_at = clock
      /\ records'[current].cancel_requested = records[current].cancel_requested
  BY <1>1, <1>2, <1>3, TransitionProperties DEF DInv
<1>5. running' = None
  BY <1>1, <1>3 DEF TransitionToTerminal
<1>6. pc' = "finishing" /\ UNCHANGED <<current, abort, outcome, ticks, calls>>
  BY DEF FailJob
<1>7. CancelHitsItsJob'
  BY <1>1, <1>4, <1>6 DEF DInv, CancelHitsItsJob, Status
<1> QED
  BY <1>1, <1>3, <1>4, <1>5, <1>6, <1>7, JobQueueAssumption
     DEF DInv, Rest, RunnerTypeOK, RunnerOwnsRunning, OutcomeIsAsked, JustFailed, Status

LEMMA FinishFailedKeeps ==
  ASSUME DInv, FinishFailed
  PROVE  Rest'
BY DEF FinishFailed, FinishCycle, queueVars, DInv, Rest, RunnerTypeOK, RunnerOwnsRunning,
       CancelHitsItsJob, OutcomeIsAsked, JustFailed, Status

(* The sweep does not reach the job failJob has just marked. *)
LEMMA DailySweepKeeps ==
  ASSUME DInv, DailySweep
  PROVE  Rest'
<1>1. UNCHANGED <<runnerVars, calls, running, clock>>
  BY DEF DailySweep, Sweep
<1>2. \A k \in Jobs : records'[k] = IF k \in Expired THEN Blank("gone", 0) ELSE records[k]
  BY DEF DailySweep, Sweep, Forget
<1>3. ASSUME NEW k \in Jobs, running = k
      PROVE  k \notin Expired
  BY <1>3 DEF DInv, IInv, RunningIsClaimed, Expired, Terminal, Verdicts
<1>4. pc = "finishing" => current \in Jobs /\ current \notin Expired
  <2>1. clock \in Nat
    BY DEF DInv, IInv, QueueTypeOK
  <2> QED
    BY <2>1, JobQueueAssumption
       DEF DInv, JustFailed, RunnerOwnsRunning, RunnerTypeOK, Expired, RETENTION
<1>5. Blank("gone", 0).status = "gone"
  BY DEF Blank
<1> QED
  BY <1>1, <1>2, <1>3, <1>4, <1>5, RunnerUndisturbed DEF runnerVars, DInv, RunnerTypeOK

LEMMA TimePassesKeeps ==
  ASSUME DInv, TimePasses
  PROVE  Rest'
BY RunnerUndisturbed DEF TimePasses, PassTime, runnerVars, DInv, RunnerTypeOK

LEMMA DaemonRestartKeeps ==
  ASSUME DInv, DaemonRestart
  PROVE  Rest'
<1>1. /\ pc' = "idle" /\ current' = None /\ abort' = "none" /\ outcome' = "none"
      /\ ticks' = 0 /\ running' = None
      /\ calls' \in [Callers -> [op : {"none", "poll", "cancel"}, job : Jobs \cup {None}]]
  BY DEF DaemonRestart, Restart, Idle
<1>2. \A k \in Jobs : records'[k] = Blank("gone", 0) \/ records'[k] = records[k]
  BY DEF DaemonRestart, Restart, Forget
<1>3. Blank("gone", 0).status = "gone"
  BY DEF Blank
<1>4. CancelHitsItsJob'
  BY <1>1, <1>2, <1>3 DEF DInv, CancelHitsItsJob, Status
<1> QED
  BY <1>1, <1>4 DEF Rest, RunnerTypeOK, RunnerOwnsRunning, OutcomeIsAsked, JustFailed

-----------------------------------------------------------------------------
(* A job that a poll waits for stays, or has its verdict now. *)
LEMMA PollKept ==
  ASSUME DInv,
         clock' = clock,
         \A c \in Callers : calls'[c] = calls[c] \/ calls'[c].op # "poll",
         \A k \in Jobs :
           Known(k) /\ (Terminal(k) => records[k].terminal_at = clock)
             => Known(k)' /\ (Terminal(k)' => records'[k].terminal_at = clock)
  PROVE  PollIsFresh'
BY DEF DInv, PollIsFresh, Waits

(* A step that changes the record of one known job keeps it known, and     *)
(* gives it a verdict, if any, now.                                        *)
LEMMA PollsOfOthers ==
  ASSUME DInv,
         clock' = clock,
         \A c \in Callers : calls'[c] = calls[c] \/ calls'[c].op # "poll",
         NEW j \in Jobs,
         \A k \in Jobs \ {j} : records'[k] = records[k],
         Known(j)',
         Terminal(j)' => records'[j].terminal_at = clock
  PROVE  PollIsFresh'
<1>1. \A k \in Jobs \ {j} :
        /\ Known(k) => Known(k)'
        /\ Terminal(k)' => Terminal(k) /\ records'[k].terminal_at = records[k].terminal_at
  BY DEF Known, Terminal, Status
<1> QED
  BY <1>1, PollKept

LEMMA PollStep ==
  ASSUME DInv, Next
  PROVE  PollIsFresh'
<1>1. ASSUME NEW j \in Jobs, Delegate(j)
      PROVE  PollIsFresh'
  <2>1. /\ \A k \in Jobs \ {j} : records'[k] = records[k]
        /\ records'[j].status = "queued"
        /\ clock' = clock /\ calls' = calls
    BY <1>1 DEF Delegate, Enqueue, DInv, IInv, QueueTypeOK, Blank
  <2> QED
    BY <2>1, PollsOfOthers DEF Known, Terminal, Status, Verdicts
<1>2. ASSUME NEW j \in Jobs, CancelWaiting(j)
      PROVE  PollIsFresh'
  <2>1. /\ Status(j) = "queued" /\ TransitionToTerminal(j, "cancelled", "cancelled")
        /\ clock' = clock /\ calls' = calls
    BY <1>2 DEF CancelWaiting, CancelQueued, Queued
  <2>2. /\ \A k \in Jobs \ {j} : records'[k] = records[k]
        /\ records'[j].status = "cancelled" /\ records'[j].terminal_at = clock
    BY <2>1, TransitionProperties DEF DInv, Verdicts
  <2> QED
    BY <2>1, <2>2, PollsOfOthers DEF Known, Terminal, Status
<1>3. ASSUME NEW c \in Callers, NEW j \in Jobs, PollWait(c, j)
      PROVE  PollIsFresh'
  <2>1. /\ UNCHANGED queueVars
        /\ Known(j) /\ ~Terminal(j)
        /\ \A d \in Callers \ {c} : calls'[d] = calls[d]
        /\ calls'[c].job = j
    BY <1>3 DEF PollWait, DInv, RunnerTypeOK
  <2> QED
    BY <2>1 DEF DInv, PollIsFresh, Waits, queueVars, Known, Terminal, Status
<1>4. ASSUME NEW c \in Callers, NEW j \in Jobs, CancelActive(c, j)
      PROVE  PollIsFresh'
  <2>1. /\ \A d \in Callers : calls'[d] = calls[d] \/ calls'[d].op # "poll"
        /\ clock' = clock
    BY <1>4 DEF CancelActive, CancelRunning, DInv, RunnerTypeOK
  <2>2. /\ \A k \in Jobs \ {j} : records'[k] = records[k]
        /\ records'[j].status = "running"
    BY <1>4 DEF CancelActive, CancelRunning, DInv, IInv, QueueTypeOK, JobRecord, Status
  <2> QED
    BY <2>1, <2>2, PollsOfOthers DEF Known, Terminal, Status, Verdicts
<1>5. ASSUME NEW c \in Callers, Return(c)
      PROVE  PollIsFresh'
  <2>1. /\ UNCHANGED queueVars
        /\ \A d \in Callers : calls'[d] = calls[d] \/ calls'[d].op # "poll"
    BY <1>5 DEF Return, Idle, DInv, RunnerTypeOK
  <2> QED
    BY <2>1, PollKept DEF queueVars, Known, Terminal, Status
<1>6. CASE Dispatch
  <2>1. pending \in Seq(Jobs) /\ pending # <<>>
    BY <1>6 DEF Dispatch, ClaimNext, DInv, IInv, QueueTypeOK
  <2>2. PICK j \in Jobs : j = Head(pending)
    BY <2>1
  <2>3. /\ \A k \in Jobs \ {j} : records'[k] = records[k]
        /\ records'[j].status = "running"
        /\ clock' = clock /\ calls' = calls
    BY <1>6, <2>2 DEF Dispatch, ClaimNext, DInv, IInv, QueueTypeOK, JobRecord
  <2> QED
    BY <2>3, PollsOfOthers DEF Known, Terminal, Status, Verdicts
<1>7. CASE AssistantTurn
  <2>1. current \in Jobs /\ Status(current) = "running"
    BY <1>7, OwnedJob DEF AssistantTurn
  <2>2. /\ \A k \in Jobs \ {current} : records'[k] = records[k]
        /\ records'[current].status = "running"
        /\ clock' = clock /\ calls' = calls
    BY <1>7, <2>1 DEF AssistantTurn, UpdatePartial, DInv, IInv, QueueTypeOK, JobRecord, Status
  <2> QED
    BY <2>1, <2>2, PollsOfOthers DEF Known, Terminal, Status, Verdicts
<1>8. CASE DispatchNothing \/ StartQuery \/ QueryThrows \/ StreamEnds \/ DecideVerdict \/ FinishFailed
  <2>1. UNCHANGED queueVars /\ calls' = calls
    BY <1>8 DEF DispatchNothing, StartQuery, QueryThrows, StreamEnds, DecideVerdict, FinishFailed
  <2> QED
    BY <2>1, PollKept DEF queueVars, Known, Terminal, Status
<1>9. CASE MarkVerdict \/ FailJob
  <2>1. current \in Jobs /\ Status(current) = "running"
    BY <1>9, OwnedJob DEF MarkVerdict, FailJob
  <2>2. AssembledReport(current) = "failed"
    BY <2>1 DEF AssembledReport, Terminal, Verdicts
  <2>3. PICK v \in Verdicts : TransitionToTerminal(current, v, "failed")
    BY <1>9, <2>2 DEF MarkVerdict, FailJob, Mark, DInv, OutcomeIsAsked, Verdicts
  <2>4. clock' = clock /\ calls' = calls
    BY <1>9 DEF MarkVerdict, FailJob, Mark
  <2>5. /\ \A k \in Jobs \ {current} : records'[k] = records[k]
        /\ records'[current].status = v /\ records'[current].terminal_at = clock
    BY <2>1, <2>3, TransitionProperties DEF DInv, Verdicts
  <2> QED
    BY <2>1, <2>4, <2>5, PollsOfOthers DEF Known, Terminal, Status, Verdicts
<1>10. CASE DailySweep
  <2>1. clock' = clock /\ calls' = calls /\ clock \in Nat
    BY <1>10 DEF DailySweep, Sweep, DInv, IInv, QueueTypeOK
  <2>2. \A k \in Jobs : records'[k] = IF k \in Expired THEN Blank("gone", 0) ELSE records[k]
    BY <1>10 DEF DailySweep, Sweep, Forget
  <2>3. ASSUME NEW k \in Jobs, Terminal(k) => records[k].terminal_at = clock
        PROVE  records'[k] = records[k]
    BY <2>1, <2>2, <2>3 DEF Expired, RETENTION
  <2> QED
    BY <2>1, <2>3, PollKept DEF Known, Terminal, Status
<1>11. CASE TimePasses
  BY <1>11 DEF TimePasses, PassTime, DInv, PollIsFresh, Waits, Known, Terminal, Status
<1>12. CASE DaemonRestart
  BY <1>12 DEF DaemonRestart, Idle, PollIsFresh, Waits
<1> QED
  BY <1>1, <1>2, <1>3, <1>4, <1>5, <1>6, <1>7, <1>8, <1>9, <1>10, <1>11, <1>12
     DEF Next, RunnerStep

-----------------------------------------------------------------------------
LEMMA DelegationInit == Init => DInv
<1>1. SUFFICES ASSUME Init PROVE DInv
  OBVIOUS
<1>2. IInv
  BY <1>1, QueueInitIInv DEF Init
<1>3. \A j \in Jobs : Status(j) = "absent"
  BY <1>1 DEF Init, QueueInit, Blank, Status
<1> QED
  BY <1>1, <1>2, <1>3
     DEF Init, QueueInit, Idle, DInv, RunnerTypeOK, RunnerOwnsRunning, CancelHitsItsJob,
         OutcomeIsAsked, JustFailed, PollIsFresh, Waits

LEMMA DelegationStep == DInv /\ [Next]_vars => DInv'
<1>0. SUFFICES ASSUME DInv, [Next]_vars PROVE DInv'
  OBVIOUS
<1>9. PollIsFresh'
  BY <1>0, PollStep DEF vars, queueVars, DInv, PollIsFresh, Waits, Known, Terminal, Status
<1>1. SUFFICES DInv /\ [Next]_vars => Rest'
  BY <1>0, <1>9, QueueKept DEF Rest, DInv
<1>2. CASE UNCHANGED vars
  BY <1>0, <1>2, RunnerUndisturbed DEF vars, queueVars, runnerVars, DInv, RunnerTypeOK
<1>3. ASSUME NEW j \in Jobs, Delegate(j) \/ CancelWaiting(j)
      PROVE  Rest'
  BY <1>0, <1>3, DelegateKeeps, CancelWaitingKeeps
<1>4. ASSUME NEW c \in Callers, NEW j \in Jobs, PollWait(c, j) \/ CancelActive(c, j)
      PROVE  Rest'
  BY <1>0, <1>4, PollWaitKeeps, CancelActiveKeeps
<1>5. ASSUME NEW c \in Callers, Return(c)
      PROVE  Rest'
  BY <1>0, <1>5, RunnerUndisturbed
     DEF Return, queueVars, runnerVars, Idle, DInv, RunnerTypeOK
<1>6. CASE Dispatch \/ DispatchNothing \/ AssistantTurn
  BY <1>0, <1>6, DispatchKeeps, AssistantTurnKeeps
<1>7. CASE RunnerStep
  BY <1>0, <1>7, ParkedKeeps, MarkVerdictKeeps, FailJobKeeps, FinishFailedKeeps DEF RunnerStep
<1>8. CASE DailySweep \/ TimePasses \/ DaemonRestart
  BY <1>0, <1>8, DailySweepKeeps, TimePassesKeeps, DaemonRestartKeeps
<1> QED
  BY <1>0, <1>2, <1>3, <1>4, <1>5, <1>6, <1>7, <1>8 DEF Next

THEOREM DelegationInvariant == Spec => []DInv
<1> QED
  BY DelegationInit, DelegationStep, PTL DEF Spec

(* Queue, runner and callers are type correct, for any number of jobs.     *)
THEOREM DelegationTypeCorrect == Spec => []TypeOK
<1>1. DInv => TypeOK
  BY DEF DInv, IInv, RunnerTypeOK, TypeOK
<1> QED
  BY <1>1, DelegationInvariant, PTL

(* A poll that waits for a job finds it when it wakes.                     *)
THEOREM PollFindsItsJobHolds == Spec => []PollFindsItsJob
<1>1. DInv => PollFindsItsJob
  BY DEF DInv, PollIsFresh, PollFindsItsJob
<1> QED
  BY <1>1, DelegationInvariant, PTL

(* Queue and runner agree on the running job at every await.               *)
THEOREM RunnerOwnsRunningHolds == Spec => []RunnerOwnsRunning
<1>1. DInv => RunnerOwnsRunning
  BY DEF DInv
<1> QED
  BY <1>1, DelegationInvariant, PTL

(* No abort and no verdict "cancelled" without a cancel of that very job.  *)
THEOREM CancelHitsItsJobHolds == Spec => []CancelHitsItsJob
<1>1. DInv => CancelHitsItsJob
  BY DEF DInv
<1> QED
  BY <1>1, DelegationInvariant, PTL

(* Runner and tools take only the steps the queue's specification allows:  *)
(* Delegation is written that way, and what is proved of the queue holds.  *)
LEMMA StepsAreOfQueue == Spec => QueueSpec
<1>1. Init => QueueInit
  BY DEF Init
<1>2. DInv /\ [Next]_vars => [QueueNext]_queueVars
  BY StepOfQueue
<1> QED
  BY <1>1, <1>2, DelegationInvariant, PTL DEF Spec, QueueSpec

(* So a delegation goes through the life cycle the design promises.        *)
THEOREM DelegationImplementsLifecycle == Spec => LifecycleSpec
BY StepsAreOfQueue, QueueImplementsLifecycle

-----------------------------------------------------------------------------
(* What the liveness of Delegation rests on.                               *)

(* delegate tickles an idle runner and finishCycle always does, and a      *)
(* dispatchNext that claims nothing is not the last one, so no job is left *)
(* in the FIFO for want of a wakeup.                                       *)
THEOREM WorkIsWokenHolds == Spec => []WorkIsWoken
<1>1. Init => WorkIsWoken
  BY DEF Init, QueueInit, WorkIsWoken
<1>2. ASSUME DInv, WorkIsWoken, [Next]_vars
      PROVE  WorkIsWoken'
  <2>1. ticks \in Nat /\ pending \in Seq(Jobs)
    BY <1>2 DEF DInv, RunnerTypeOK, IInv, QueueTypeOK
  <2>2. CASE UNCHANGED <<pc, pending, ticks>>
    BY <1>2, <2>2 DEF WorkIsWoken
  <2>3. ASSUME NEW j \in Jobs, Delegate(j)
        PROVE  WorkIsWoken'
    BY <2>1, <2>3 DEF Delegate, WorkIsWoken
  <2>4. ASSUME NEW j \in Jobs, CancelWaiting(j)
        PROVE  WorkIsWoken'
    <3>1. pending # <<>> /\ pc' = pc /\ ticks' = ticks
      BY <2>1, <2>4 DEF CancelWaiting, CancelQueued, runnerVars
    <3> QED
      BY <1>2, <3>1 DEF WorkIsWoken
  <2>5. ASSUME NEW c \in Callers, NEW j \in Jobs, PollWait(c, j) \/ CancelActive(c, j)
        PROVE  UNCHANGED <<pc, pending, ticks>>
    BY <2>5 DEF PollWait, CancelActive, CancelRunning, queueVars, runnerVars
  <2>6. ASSUME NEW c \in Callers, Return(c)
        PROVE  UNCHANGED <<pc, pending, ticks>>
    BY <2>6 DEF Return, queueVars, runnerVars
  <2>7. CASE Dispatch
    BY <2>7 DEF Dispatch, WorkIsWoken
  <2>8. CASE DispatchNothing
    BY <2>8 DEF DispatchNothing, queueVars, WorkIsWoken
  <2>9. CASE RunnerStep
    <3>1. CASE StartQuery \/ QueryThrows \/ StreamEnds \/ DecideVerdict \/ FailJob
      BY <3>1 DEF StartQuery, QueryThrows, StreamEnds, DecideVerdict, FailJob, WorkIsWoken
    <3>2. CASE MarkVerdict \/ FinishFailed
      BY <2>1, <3>2 DEF MarkVerdict, FinishFailed, FinishCycle, WorkIsWoken
    <3> QED
      BY <2>9, <3>1, <3>2 DEF RunnerStep
  <2>10. CASE AssistantTurn \/ DailySweep \/ TimePasses
    BY <2>2, <2>10 DEF AssistantTurn, UpdatePartial, DailySweep, Sweep, TimePasses, PassTime, runnerVars
  <2>11. CASE DaemonRestart
    BY <2>11 DEF DaemonRestart, Restart, WorkIsWoken
  <2>12. CASE UNCHANGED vars
    BY <2>2, <2>12 DEF vars, queueVars, runnerVars
  <2> QED
    BY <1>2, <2>2, <2>3, <2>4, <2>5, <2>6, <2>7, <2>8, <2>9, <2>10, <2>11, <2>12 DEF Next
<1> QED
  BY <1>1, <1>2, DelegationInvariant, PTL DEF Spec

(* An id is used once. *)
LEMMA GoneStays ==
  ASSUME IInv, QueueNext, NEW j \in Jobs, Status(j) = "gone"
  PROVE  Status(j)' = "gone"
<1> USE DEF IInv, QueueTypeOK, Status
<1>1. ASSUME NEW k \in Jobs, Enqueue(k) \/ CancelQueued(k) \/ CancelRunning(k)
      PROVE  records'[j] = records[j]
  BY <1>1 DEF Enqueue, CancelQueued, CancelRunning, TransitionToTerminal, Queued
<1>2. ASSUME NEW k \in Jobs, NEW v \in Verdicts, NEW r \in {v, "failed"}, Mark(k, v, r)
      PROVE  records'[j] = records[j]
  BY <1>2 DEF Mark, TransitionToTerminal
<1>3. ASSUME NEW k \in Jobs, NEW n \in 1..MaxTurns, UpdatePartial(k, n)
      PROVE  records'[j] = records[j]
  BY <1>3 DEF UpdatePartial
<1>4. CASE ClaimNext
  <2>1. 1 \in 1..Len(pending) /\ Head(pending) = pending[1]
    BY <1>4, LenProperties, EmptySeq DEF ClaimNext
  <2>2. Status(Head(pending)) = "queued" /\ Head(pending) \in Jobs
    BY <2>1, ElementOfSeq DEF PendingIsQueued, Queued
  <2> QED BY <1>4, <2>2 DEF ClaimNext
<1>5. CASE Sweep
  BY <1>5 DEF Sweep, Forget, Blank
<1>6. CASE PassTime
  BY <1>6 DEF PassTime
<1>7. CASE Restart
  BY <1>7 DEF Restart, Forget, Blank
<1> QED BY <1>1, <1>2, <1>3, <1>4, <1>5, <1>6, <1>7 DEF QueueNext

(* j is being stopped: its cancel came while the query ran. *)
Stopping(j) ==
  /\ current = j
  /\ pc \in {"streaming", "closing"}
  /\ records[j].cancel_requested

(* Stopping, or past that with the only verdict there may be. *)
Doomed(j) ==
  \/ Status(j) \in {"cancelled", "gone"}
  \/ Stopping(j)
  \/ /\ current = j /\ pc = "assembling" /\ outcome = "cancelled"
     /\ records[j].cancel_requested

(* A cancel that came while the query ran is never overruled, however the  *)
(* query ends and whatever other callers do: the half of CancelWins that   *)
(* needs no fairness.                                                      *)
CancelStands ==
  \A j \in Jobs : [](Stopping(j) => [](Terminal(j) => Status(j) = "cancelled"))

LEMMA DoomedKept ==
  ASSUME DInv, NEW j \in Jobs, Doomed(j), [Next]_vars
  PROVE  Doomed(j)'
<1>1. IInv /\ [QueueNext]_queueVars /\ records \in [Jobs -> JobRecord]
  BY StepOfQueue DEF DInv, IInv, QueueTypeOK
<1>2. CASE Status(j) = "gone"
  BY <1>1, <1>2, GoneStays DEF queueVars, Status, Doomed
<1>3. CASE Status(j) = "cancelled"
  <2>1. CASE QueueNext
    <3>1. Terminal(j)
      BY <1>3 DEF Terminal, Verdicts
    <3>2. records'[j] = records[j] \/ records'[j].status = "gone"
      BY <1>1, <2>1, <3>1, RecordsChange
    <3> QED
      BY <1>3, <3>2 DEF Status, Doomed
  <2> QED
    BY <1>1, <1>3, <2>1 DEF queueVars, Status, Doomed
<1>4. CASE /\ current = j /\ records[j].cancel_requested
           /\ pc \in {"streaming", "closing"} \/ (pc = "assembling" /\ outcome = "cancelled")
  <2>1. Status(j) = "running"
    BY <1>4, OwnedJob
  <2>2. ASSUME records'[j].cancel_requested, UNCHANGED <<pc, current, outcome>>
        PROVE  Doomed(j)'
    BY <1>4, <2>2 DEF Doomed, Stopping
  <2>3. ASSUME NEW k \in Jobs, Delegate(k) \/ CancelWaiting(k)
        PROVE  Doomed(j)'
    <3>1. k # j
      BY <2>1, <2>3 DEF Delegate, Enqueue, CancelWaiting, CancelQueued, Queued
    <3>2. records'[j] = records[j] /\ UNCHANGED <<pc, current, outcome>>
      BY <1>1, <2>3, <3>1 DEF Delegate, Enqueue, CancelWaiting, CancelQueued, TransitionToTerminal,
                              runnerVars
    <3> QED
      BY <1>4, <2>2, <3>2
  <2>4. ASSUME NEW c \in Callers, NEW k \in Jobs, PollWait(c, k) \/ CancelActive(c, k)
        PROVE  Doomed(j)'
    <3>1. records'[j].cancel_requested /\ UNCHANGED <<pc, current, outcome>>
      BY <1>1, <1>4, <2>4 DEF PollWait, CancelActive, CancelRunning, queueVars, runnerVars, JobRecord
    <3> QED
      BY <2>2, <3>1
  <2>5. CASE UNCHANGED vars \/ DispatchNothing \/ TimePasses \/ \E c \in Callers : Return(c)
    BY <1>4, <2>2, <2>5 DEF vars, DispatchNothing, TimePasses, PassTime, Return, queueVars, runnerVars
  <2>6. CASE DailySweep
    <3>1. j \notin Expired
      BY <2>1 DEF Expired, Terminal, Verdicts
    <3> QED
      BY <1>4, <2>2, <2>6, <3>1 DEF DailySweep, Sweep, Forget, runnerVars
  <2>7. CASE DaemonRestart
    BY <2>1, <2>7 DEF DaemonRestart, Restart, Forget, Blank, Status, Doomed
  <2>8. CASE Dispatch
    BY <1>4, <2>8 DEF Dispatch
  <2>9. CASE AssistantTurn
    BY <1>1, <1>4, <2>2, <2>9 DEF AssistantTurn, UpdatePartial, runnerVars, JobRecord
  <2>10. CASE StartQuery \/ QueryThrows \/ FailJob \/ FinishFailed
    BY <1>4, <2>10 DEF StartQuery, QueryThrows, FailJob, FinishFailed
  <2>11. CASE StreamEnds
    BY <1>4, <2>11 DEF StreamEnds, queueVars, Doomed, Stopping
  <2>12. CASE DecideVerdict
    BY <1>4, <2>12 DEF DecideVerdict, queueVars, Doomed
  <2>13. CASE MarkVerdict
    <3>1. outcome = "cancelled" /\ Mark(j, "cancelled", AssembledReport(j))
      BY <1>4, <2>13 DEF MarkVerdict
    <3>2. records'[j].status = "cancelled"
      BY <1>1, <3>1 DEF Mark, TransitionToTerminal, JobRecord
    <3> QED
      BY <3>2 DEF Doomed, Status
  <2> QED
    BY <2>3, <2>4, <2>5, <2>6, <2>7, <2>8, <2>9, <2>10, <2>11, <2>12, <2>13 DEF Next, RunnerStep
<1> QED
  BY <1>2, <1>3, <1>4 DEF Doomed, Stopping

(* See CancelStands: for any number of jobs and callers. *)
THEOREM CancelStandsHolds == Spec => CancelStands
<1> SUFFICES ASSUME NEW j \in Jobs
             PROVE  Spec => [](Stopping(j) => [](Terminal(j) => Status(j) = "cancelled"))
  BY DEF CancelStands
<1>1. DInv /\ Doomed(j) /\ [Next]_vars => Doomed(j)'
  BY DoomedKept
<1>2. Stopping(j) => Doomed(j)
  BY DEF Doomed
<1>3. DInv /\ Doomed(j) => (Terminal(j) => Status(j) = "cancelled")
  <2> SUFFICES ASSUME DInv, Doomed(j), Terminal(j)
               PROVE  Status(j) = "cancelled"
    OBVIOUS
  <2>1. CASE Status(j) \in {"cancelled", "gone"}
    BY <2>1 DEF Terminal, Verdicts
  <2>2. CASE pc \in {"streaming", "closing", "assembling"} /\ current = j
    <3>1. Status(j) = "running"
      BY <2>2, OwnedJob
    <3> QED
      BY <3>1 DEF Terminal, Verdicts
  <2> QED
    BY <2>1, <2>2 DEF Doomed, Stopping
<1> QED
  BY <1>1, <1>2, <1>3, DelegationInvariant, PTL DEF Spec
=============================================================================
