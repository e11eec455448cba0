------------------------------ MODULE JobReport ------------------------------
(***************************************************************************)
(* What the report of one delegated job is made from, and what becomes of  *)
(* it: the snapshots of the workspace before and after the query           *)
(* (jobs/snapshot.ts), the transcript (jobs/transcript.ts), the comparison *)
(* and the report (jobs/diff.ts, jobs/report.ts), in the order in which    *)
(* dispatchNext of sdk-runner.ts runs them; and the scan of old            *)
(* transcripts when a daemon starts (jobs/transcript-orphan.ts).           *)
(*                                                                         *)
(* The SDK's tools and the user change files at any time, also while a     *)
(* snapshot looks at them.  A file hidden by .gitignore counts as absent,  *)
(* and two binaries of one size as the same: the code cannot tell them     *)
(* apart either.  The text of the diff is display text and left out.       *)
(***************************************************************************)
EXTENDS Integers, FiniteSets

CONSTANTS
  Files,        \* paths
  Texts,        \* contents of text files
  Binaries,     \* contents of binary files, one for each size
  None,         \* no file
  Moving,       \* history: changed while a snapshot was looking
  FileCaps,     \* values of opts.fileCap
  Sizes,        \* sizes of the lines of messages
  CapBytes,     \* cap_bytes of the transcript
  MarkerBytes,  \* the size of the _truncated marker
  MaxTurns,     \* job.max_turns, which the SDK observes
  MaxEdits      \* bound: changes of files in a run

ASSUME JobReportAssumption ==
  /\ None \notin Texts \cup Binaries
  /\ Moving \notin Texts \cup Binaries \cup {None}
  /\ Texts \cap Binaries = {}
  /\ FileCaps \subseteq Nat \ {0}
  /\ Sizes \subseteq Nat \ {0}
  /\ CapBytes \in Nat /\ MarkerBytes \in Nat \ {0} /\ MaxTurns \in Nat \ {0}
  /\ MaxEdits \in Nat

VARIABLES
  disk,      \* disk[f]: what the file holds
  edits,     \* number of changes so far
  git,       \* git works and the workspace is a repository
  fileCap,   \* opts.fileCap
  pc,        \* how far dispatchNext is
  snap,      \* the snapshot being taken
  before,    \* the snapshots, Failed where takeSnapshot has thrown
  after,
  writer,    \* the TranscriptWriter: its bytes, and whether it is truncated
  file,      \* the transcript file: its name, its age, what is in it
  turns,     \* assistant messages the query has yielded
  error,     \* what the query ended with
  report,
  was, now,  \* history: the files when each snapshot began
  lost       \* history: a message is not in the transcript

jobVars == <<pc, before, after, turns, error, report>>

vars == <<disk, edits, git, fileCap, jobVars, snap, writer, file, was, now, lost>>

-----------------------------------------------------------------------------
(* FileEntry: a binary is known by its size, a text by its hash. *)
FileEntry == [is_binary : BOOLEAN, mark : Texts \cup Binaries]

NoSnapshot == [kind |-> "none"]
Failed == [kind |-> "failed"]

Snapshots ==
  {NoSnapshot, Failed}
  \cup [kind : {"taken"}, files : UNION {[S -> FileEntry] : S \in SUBSET Files},
        truncated : BOOLEAN]

NoSnap == [stage |-> "none"]

NoReport == [made |-> FALSE]

(* NoTranscript: the job has opened none. *)
NoTranscript == [name |-> "none", age |-> "recent", turns |-> 0, marker |-> "none"]

Ages == {"recent", "day", "month"}

Reasons == {"none", "timeout", "max_turns", "transcript_size", "workspace_size"}

TypeOK ==
  /\ disk \in [Files -> Texts \cup Binaries \cup {None}]
  /\ edits \in 0..MaxEdits
  /\ git \in BOOLEAN /\ fileCap \in FileCaps
  /\ pc \in {"claimed", "before", "streaming", "closing", "after", "assembling", "reported",
             "restarted"}
  /\ snap = NoSnap \/ snap.stage \in {"list", "stat", "sniff", "hash"}
  /\ before \in Snapshots /\ after \in Snapshots
  /\ writer \in [bytes : 0..CapBytes, truncated : BOOLEAN]
  /\ file \in [name : {"none", "jsonl", "orphan", "deleted"}, age : Ages, turns : 0..MaxTurns,
               marker : {"none", "whole", "partial"}]
  /\ turns \in 0..MaxTurns
  /\ error \in {"none", "timeout", "other"}
  /\ report.made => report.reason \in Reasons
  /\ was \in [Files -> Texts \cup Binaries \cup {None, Moving}]
  /\ now \in [Files -> Texts \cup Binaries \cup {None, Moving}]
  /\ lost \in BOOLEAN

AllMoving == [f \in Files |-> Moving]

Init ==
  /\ disk \in [Files -> Texts \cup Binaries \cup {None}]
  /\ edits = 0
  /\ git \in BOOLEAN /\ fileCap \in FileCaps
  /\ pc = "claimed" /\ snap = NoSnap
  /\ before = NoSnapshot /\ after = NoSnapshot
  /\ writer = [bytes |-> 0, truncated |-> FALSE]
  /\ file = NoTranscript
  /\ turns = 0 /\ error = "none" /\ report = NoReport
  /\ was = AllMoving /\ now = AllMoving
  /\ lost = FALSE

-----------------------------------------------------------------------------
(* takeSnapshot.  Each step ends at one of its awaits. *)

Present == {f \in Files : disk[f] # None}

Fresh(stage) == [stage |-> stage, todo |-> {}, file |-> None, size |-> None,
                 files |-> <<>>, truncated |-> FALSE]

(* Fault: nobody remembers that the list was cut short. *)
LookAtAll(fs, truncated) == snap' = [Fresh("stat") EXCEPT !.todo = fs]

(* The next files to look at are fs. *)
Look(fs, truncated) ==
  snap' = [Fresh("stat") EXCEPT !.todo = fs, !.truncated = truncated]

(* The first fileCap of names, in some order. *)
Capped(names) == {fs \in SUBSET names : Cardinality(fs) = fileCap}

(* getGitFiles: tracked files that are deleted are listed as well. *)
ListGitFiles ==
  /\ snap.stage = "list" /\ git
  /\ \E gone \in SUBSET (Files \ Present) :
       LET names == Present \cup gone IN
       IF Cardinality(names) > fileCap
       THEN \E fs \in Capped(names) : Look(fs, TRUE)
       ELSE Look(names, FALSE)
  /\ UNCHANGED <<disk, edits, git, fileCap, jobVars, writer, file, was, now, lost>>

(* walkNonGit stops at the cap. *)
WalkFiles ==
  /\ snap.stage = "list" /\ ~git
  /\ IF Cardinality(Present) >= fileCap
     THEN \E fs \in Capped(Present) : Look(fs, TRUE)
     ELSE Look(Present, FALSE)
  /\ UNCHANGED <<disk, edits, git, fileCap, jobVars, writer, file, was, now, lost>>

(* A directory that cannot be read counts as empty. *)
WalkFindsNothing ==
  /\ snap.stage = "list" /\ ~git
  /\ Look({}, FALSE)
  /\ IF pc = "before"
     THEN was' = AllMoving /\ UNCHANGED now
     ELSE now' = AllMoving /\ UNCHANGED was
  /\ UNCHANGED <<disk, edits, git, fileCap, jobVars, writer, file, lost>>

(* A file that has vanished is skipped. *)
StatFile(f) ==
  /\ snap.stage = "stat" /\ f \in snap.todo
  /\ snap' = IF disk[f] = None
             THEN [snap EXCEPT !.todo = @ \ {f}]
             ELSE [snap EXCEPT !.stage = "sniff", !.file = f, !.size = disk[f]]
  /\ UNCHANGED <<disk, edits, git, fileCap, jobVars, writer, file, was, now, lost>>

(* files.set *)
Recorded(entry) ==
  [snap EXCEPT !.stage = "stat", !.todo = @ \ {snap.file}, !.file = None, !.size = None,
               !.files = [f \in DOMAIN @ \cup {snap.file} |->
                            IF f = snap.file THEN entry ELSE @[f]]]

(* The size of a binary was read before it was found to be one. *)
SniffBinary ==
  /\ snap.stage = "sniff"
  /\ disk[snap.file] # None
  /\ snap' = IF disk[snap.file] \in Binaries
             THEN Recorded([is_binary |-> TRUE, mark |-> snap.size])
             ELSE [snap EXCEPT !.stage = "hash"]
  /\ UNCHANGED <<disk, edits, git, fileCap, jobVars, writer, file, was, now, lost>>

HashFile ==
  /\ snap.stage = "hash"
  /\ disk[snap.file] # None
  /\ snap' = Recorded([is_binary |-> FALSE, mark |-> disk[snap.file]])
  /\ UNCHANGED <<disk, edits, git, fileCap, jobVars, writer, file, was, now, lost>>

(* dispatchNext goes on with the snapshot, or with null. *)
SnapshotIs(result) ==
  /\ snap' = NoSnap
  /\ \/ pc = "before" /\ pc' = "streaming" /\ before' = result /\ UNCHANGED after
     \/ pc = "after" /\ pc' = "assembling" /\ after' = result /\ UNCHANGED before
  /\ UNCHANGED <<disk, edits, git, fileCap, turns, error, report, writer, file, was, now, lost>>

SnapshotEnds ==
  /\ snap.stage = "stat" /\ snap.todo = {}
  /\ SnapshotIs([kind |-> "taken", files |-> snap.files, truncated |-> snap.truncated])

(* git fails, or a file cannot be opened or read, or has vanished since it *)
(* was found: the whole snapshot is lost.                                  *)
SnapshotFails ==
  /\ snap.stage \in {"sniff", "hash"} \/ (snap.stage = "list" /\ git)
  /\ SnapshotIs(Failed)

-----------------------------------------------------------------------------
(* dispatchNext and the TranscriptWriter. *)

StartJob ==
  /\ pc = "claimed"
  /\ pc' = "before"
  /\ file' = [file EXCEPT !.name = "jsonl"]
  /\ snap' = Fresh("list") /\ was' = disk
  /\ UNCHANGED <<disk, edits, git, fileCap, before, after, turns, error, report, writer, now, lost>>

(* append: a line that does not fit is replaced by the _truncated marker,  *)
(* or by as much of it as does.                                            *)
Append(size, assistant) ==
  LET room == CapBytes - writer.bytes IN
  \/ /\ ~writer.truncated /\ size <= room
     /\ writer' = [writer EXCEPT !.bytes = @ + size]
     /\ file' = [file EXCEPT !.turns = @ + assistant]
     /\ UNCHANGED lost
  \/ /\ ~writer.truncated /\ size > room
     /\ writer' = [truncated |-> TRUE,
                   bytes |-> IF MarkerBytes <= room THEN writer.bytes + MarkerBytes ELSE CapBytes]
     /\ file' = [file EXCEPT !.marker = CASE MarkerBytes <= room -> "whole"
                                          [] room = 0 -> "none"
                                          [] OTHER -> "partial"]
     /\ lost' = TRUE
  \/ /\ writer.truncated
     /\ lost' = TRUE
     /\ UNCHANGED <<writer, file>>

(* The query yields a message; maxTurns bounds the assistant's. *)
Message(size) ==
  /\ pc = "streaming"
  /\ \/ turns < MaxTurns /\ turns' = turns + 1 /\ Append(size, 1)
     \/ UNCHANGED turns /\ Append(size, 0)
  /\ UNCHANGED <<disk, edits, git, fileCap, pc, before, after, error, report, snap, was, now>>

(* It ends, is aborted, or could not be made (failJob). *)
StreamEnds ==
  /\ pc = "streaming"
  /\ pc' = "closing"
  /\ error' \in {"none", "timeout", "other"}
  /\ UNCHANGED <<disk, edits, git, fileCap, before, after, turns, report, snap, writer, file,
                 was, now, lost>>

(* writer.close() has written everything. *)
TranscriptClosed ==
  /\ pc = "closing"
  /\ pc' = "after"
  /\ snap' = Fresh("list") /\ now' = disk
  /\ UNCHANGED <<disk, edits, git, fileCap, before, after, turns, error, report, writer, file,
                 was, lost>>

-----------------------------------------------------------------------------
(* The report. *)

(* changed: the size stands for a binary, the hash for a text. *)
Changed(a, b) == a.is_binary # b.is_binary \/ a.mark # b.mark

(* categorize *)
Categorize(old, new) ==
  [created  |-> DOMAIN new \ DOMAIN old,
   deleted  |-> DOMAIN old \ DOMAIN new,
   modified |-> {f \in DOMAIN old \cap DOMAIN new : Changed(old[f], new[f])}]

(* computeDiff: the lists, and whether they may be wrong. *)
ComputeDiff(b, a) ==
  [lists |-> Categorize(b.files, a.files), truncated |-> b.truncated \/ a.truncated]

NoDiff == [lists |-> Categorize(<<>>, <<>>), truncated |-> FALSE]

(* parseTranscript: the marker is recognised when it is whole. *)
Digest(transcript) ==
  [turns |-> transcript.turns, marked |-> transcript.marker = "whole"]

(* Fault: the transcript is relied on to tell that it is cut short. *)
TruncationByDigest(digest, diff) ==
  IF error = "timeout" THEN "timeout"
  ELSE IF digest.turns >= MaxTurns THEN "max_turns"
  ELSE IF digest.marked THEN "transcript_size"
  ELSE IF diff.truncated THEN "workspace_size" ELSE "none"

(* resolveTruncation: the first reason that applies. *)
ResolveTruncation(digest, diff) ==
  IF error = "timeout" THEN "timeout"
  ELSE IF digest.turns >= MaxTurns THEN "max_turns"
  ELSE IF writer.truncated \/ digest.marked THEN "transcript_size"
  ELSE IF diff.truncated THEN "workspace_size" ELSE "none"

(* assembleReport, without and with snapshots to compare.  compared is not *)
(* in the report: nothing in it tells that a snapshot was lost.            *)
ReportOf(digest, diff, compared, uri) ==
  [made |-> TRUE, compared |-> compared, created |-> diff.lists.created,
   deleted |-> diff.lists.deleted, modified |-> diff.lists.modified, turns |-> digest.turns, uri |-> uri,
   reason |-> ResolveTruncation(digest, diff)]

(* The mark of the verdict follows, and the runner is free. *)
Assemble ==
  /\ pc = "assembling"
  /\ pc' = "reported"
  /\ LET compared == before.kind = "taken" /\ after.kind = "taken" IN
     report' = ReportOf(Digest(file), IF compared THEN ComputeDiff(before, after) ELSE NoDiff,
                        compared, TRUE)
  /\ before' = NoSnapshot /\ after' = NoSnapshot
  /\ UNCHANGED <<disk, edits, git, fileCap, turns, error, snap, writer, file, was, now, lost>>

(* The workspace of the job is not known any more. *)
WorkspaceGone ==
  /\ pc = "claimed"
  /\ pc' = "reported"
  /\ report' = ReportOf(Digest(NoTranscript), NoDiff, FALSE, FALSE)
  /\ UNCHANGED <<disk, edits, git, fileCap, before, after, turns, error, snap, writer, file,
                 was, now, lost>>

-----------------------------------------------------------------------------
(* The world around it. *)

(* The job's tools or the user change a file, while anyone looks. *)
Edit(f, content) ==
  /\ pc \in {"before", "streaming", "closing", "after"}
  /\ content # disk[f]
  /\ edits < MaxEdits /\ edits' = edits + 1
  /\ disk' = [disk EXCEPT ![f] = content]
  /\ was' = IF pc = "before" THEN [was EXCEPT ![f] = Moving] ELSE was
  /\ now' = IF pc = "after" THEN [now EXCEPT ![f] = Moving] ELSE now
  /\ UNCHANGED <<git, fileCap, jobVars, snap, writer, file, lost>>

(* Days pass; they matter when a daemon starts. *)
TimePasses ==
  /\ pc = "restarted" /\ file.name \in {"jsonl", "orphan"}
  /\ \/ file.age = "recent" /\ file' = [file EXCEPT !.age = "day"]
     \/ file.age = "day" /\ file' = [file EXCEPT !.age = "month"]
  /\ UNCHANGED <<disk, edits, git, fileCap, jobVars, snap, writer, was, now, lost>>

(* scanTranscriptOrphans: by the age of the last write. *)
Scanned(name, age) ==
  CASE name = "jsonl" /\ age = "day"                 -> "orphan"
    [] name \in {"jsonl", "orphan"} /\ age = "month" -> "deleted"
    [] OTHER                                         -> name

(* The daemon ends, or an exception that nobody handles ends it; the next  *)
(* one knows no jobs.  It scans the transcripts, as far as it can, and     *)
(* does not look into them.                                                *)
DaemonRestarts ==
  /\ pc # "claimed"
  /\ pc' = "restarted"
  /\ \E name \in {file.name, Scanned(file.name, file.age)} :
       file' = [NoTranscript EXCEPT !.name = name, !.age = file.age]
  /\ snap' = NoSnap /\ before' = NoSnapshot /\ after' = NoSnapshot
  /\ writer' = [bytes |-> 0, truncated |-> FALSE]
  /\ turns' = 0 /\ error' = "none" /\ report' = NoReport
  /\ was' = AllMoving /\ now' = AllMoving /\ lost' = FALSE
  /\ UNCHANGED <<disk, edits, git, fileCap>>

Next ==
  \/ StartJob \/ WorkspaceGone
  \/ ListGitFiles \/ WalkFiles \/ WalkFindsNothing
  \/ \E f \in Files : StatFile(f)
  \/ SniffBinary \/ HashFile \/ SnapshotEnds \/ SnapshotFails
  \/ \E size \in Sizes : Message(size)
  \/ StreamEnds \/ TranscriptClosed \/ Assemble
  \/ \E f \in Files, c \in Texts \cup Binaries \cup {None} : Edit(f, c)
  \/ TimePasses
  \/ DaemonRestarts

Spec == Init /\ [][Next]_vars

-----------------------------------------------------------------------------
(* A report that is not said to be truncated, and for which neither        *)
(* snapshot was lost, tells for every file that kept still while the       *)
(* snapshots were taken what has become of it: created, deleted, modified  *)
(* or nothing.  Whatever moves meanwhile, and whatever does not fit under  *)
(* the cap, does not make it lie about the others.                         *)
ReportTellsChanges ==
  report.made /\ report.compared /\ report.reason = "none" =>
    \A f \in Files : was[f] # Moving /\ now[f] # Moving =>
      /\ f \in report.created <=> was[f] = None /\ now[f] # None
      /\ f \in report.deleted <=> was[f] # None /\ now[f] = None
      /\ f \in report.modified <=> was[f] # now[f] /\ None \notin {was[f], now[f]}

(* Unless a report is said to be truncated, no message is missing from the *)
(* transcript it names, and it has counted all turns, wherever the cap     *)
(* cuts the transcript and its marker.                                     *)
ReportTellsWhatIsMissing ==
  report.made /\ report.uri /\ report.reason = "none" => report.turns = turns /\ ~lost
=============================================================================
