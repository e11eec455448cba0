-------------------------- MODULE JobReport_proofs --------------------------
(***************************************************************************)
(* What the report of a job says is true: ReportTellsChanges and           *)
(* ReportTellsWhatIsMissing of JobReport, for any files and contents, any  *)
(* cap on the files of a snapshot and on the bytes of a transcript.        *)
(*                                                                         *)
(* A snapshot is compared with what the files held when it began.  A file  *)
(* that has not moved since still holds that, so what has been recorded of *)
(* it is right, and until the snapshot ends it is recorded, or waits to be *)
(* looked at, or is absent, or was cut off by the cap, which the snapshot  *)
(* then knows.  This survives the query, because what the files held is    *)
(* only noted again when the next snapshot begins.                         *)
(***************************************************************************)
EXTENDS JobReport, TLAPS

Contents == Texts \cup Binaries

(* What a snapshot may have recorded. *)
Tables == UNION {[S -> FileEntry] : S \in SUBSET Files}

(* What a snapshot records of a file with this content. *)
EntryOf(content) == [is_binary |-> content \in Binaries, mark |-> content]

(* The files when the snapshot being taken began. *)
Base == IF pc = "before" THEN was ELSE now

Scanning == snap.stage \in {"stat", "sniff", "hash"}

Looking == snap.stage \in {"sniff", "hash"}

(* Only dispatchNext takes snapshots, and each one once. *)
Phases ==
  /\ snap.stage # "none" => pc \in {"before", "after"}
  /\ pc \in {"claimed", "before"} => before = NoSnapshot
  /\ pc # "assembling" => after = NoSnapshot
  /\ report.made => pc = "reported"

(* The parts of a snapshot that is being taken. *)
SnapTypeOK ==
  /\ snap.stage \in {"none", "list", "stat", "sniff", "hash"}
  /\ Scanning =>
       /\ snap.todo \subseteq Files
       /\ snap.files \in Tables
       /\ snap.truncated \in BOOLEAN
  /\ Looking => snap.file \in snap.todo /\ snap.size \in Contents

(* A file that keeps still while a snapshot looks holds what it did. *)
StillIsSame ==
  pc \in {"before", "after"} => \A f \in Files : Base[f] # Moving => disk[f] = Base[f]

(* files tells of the files that kept still what base does; unless cut     *)
(* says that it may not be all of them, none but those in todo is missing. *)
Tells(files, base, todo, cut) ==
  \A f \in Files : base[f] # Moving =>
    /\ f \in DOMAIN files => base[f] # None /\ files[f] = EntryOf(base[f])
    /\ base[f] # None /\ ~cut => f \in todo \cup DOMAIN files

SnapTells == Scanning => Tells(snap.files, Base, snap.todo, snap.truncated)

(* What has been found out of the file being looked at. *)
LookIsTrue ==
  Looking /\ Base[snap.file] # Moving =>
    /\ snap.size = Base[snap.file]
    /\ snap.stage = "hash" => Base[snap.file] \notin Binaries

BeforeTells == before.kind = "taken" => Tells(before.files, was, {}, before.truncated)
AfterTells == after.kind = "taken" => Tells(after.files, now, {}, after.truncated)

(* Until the transcript is truncated everything is in it. *)
AllWritten ==
  /\ ~writer.truncated => file.turns = turns /\ ~lost
  /\ file.turns <= turns

(* The snapshot being taken, and what it looks at. *)
LooksInv == SnapTypeOK /\ StillIsSame /\ SnapTells /\ LookIsTrue

(* The snapshots that were taken. *)
TellInv == BeforeTells /\ AfterTells

(* The report that was made. *)
ReportInv == ReportTellsChanges /\ ReportTellsWhatIsMissing

(* The inductive invariant. *)
IInv == TypeOK /\ Phases /\ LooksInv /\ TellInv /\ AllWritten /\ ReportInv

-----------------------------------------------------------------------------
(* Snapshots and what they have recorded. *)

LEMMA NothingRecorded == <<>> \in Tables /\ DOMAIN <<>> = {}
<1>1. <<>> \in [{} -> FileEntry]
  OBVIOUS
<1> QED
  BY <1>1 DEF Tables

LEMMA RecordedIn ==
  ASSUME NEW g \in Tables
  PROVE  DOMAIN g \subseteq Files /\ g \in [DOMAIN g -> FileEntry]
BY DEF Tables

LEMMA OneMore ==
  ASSUME NEW g \in Tables, NEW h \in Files, NEW entry \in FileEntry
  PROVE  [f \in DOMAIN g \cup {h} |-> IF f = h THEN entry ELSE g[f]] \in Tables
<1> DEFINE S == DOMAIN g \cup {h}
<1>1. S \in SUBSET Files /\ g \in [DOMAIN g -> FileEntry]
  BY RecordedIn
<1>2. [f \in S |-> IF f = h THEN entry ELSE g[f]] \in [S -> FileEntry]
  BY <1>1
<1> QED
  BY <1>1, <1>2 DEF Tables

LEMMA TakenSnapshot ==
  ASSUME NEW g \in Tables, NEW cut \in BOOLEAN
  PROVE  [kind |-> "taken", files |-> g, truncated |-> cut] \in Snapshots
BY DEF Snapshots, Tables

LEMMA SnapshotKinds ==
  ASSUME NEW s \in Snapshots
  PROVE  s.kind = "taken" => s.files \in Tables /\ s.truncated \in BOOLEAN
<1>1. s = NoSnapshot \/ s = Failed
      \/ s \in [kind : {"taken"}, files : Tables, truncated : BOOLEAN]
  BY DEF Snapshots, Tables
<1> QED
  BY <1>1 DEF NoSnapshot, Failed

LEMMA NotTaken ==
  /\ NoSnapshot \in Snapshots /\ Failed \in Snapshots
  /\ NoSnapshot.kind # "taken" /\ Failed.kind # "taken"
BY DEF Snapshots, NoSnapshot, Failed

-----------------------------------------------------------------------------
(* What steps leave alone. *)

LEMMA LooksStay ==
  ASSUME LooksInv, UNCHANGED <<snap, disk, pc, was, now>>
  PROVE  LooksInv'
<1>1. Base' = Base
  BY DEF Base
<1>2. Scanning' = Scanning /\ Looking' = Looking
  BY DEF Scanning, Looking
<1>3. SnapTypeOK'
  BY <1>2 DEF LooksInv, SnapTypeOK
<1>4. StillIsSame'
  BY <1>1 DEF LooksInv, StillIsSame
<1>5. SnapTells'
  BY <1>1, <1>2 DEF LooksInv, SnapTells, Tells
<1>6. LookIsTrue'
  BY <1>1, <1>2 DEF LooksInv, LookIsTrue
<1> QED
  BY <1>3, <1>4, <1>5, <1>6 DEF LooksInv

LEMMA NothingToLookAt ==
  ASSUME snap' = NoSnap, pc' \notin {"before", "after"}
  PROVE  LooksInv'
BY DEF LooksInv, NoSnap, SnapTypeOK, StillIsSame, SnapTells, LookIsTrue, Scanning, Looking

(* A snapshot begins. *)
LEMMA LooksBegin ==
  ASSUME snap' = Fresh("list"), Base' = disk, disk' = disk
  PROVE  LooksInv'
BY DEF LooksInv, Fresh, SnapTypeOK, StillIsSame, SnapTells, LookIsTrue, Scanning, Looking

LEMMA TellStays ==
  ASSUME TellInv,
         before'.kind = "taken" => UNCHANGED <<before, was>>,
         after'.kind = "taken" => UNCHANGED <<after, now>>
  PROVE  TellInv'
BY DEF TellInv, BeforeTells, AfterTells, Tells

LEMMA ReportStays ==
  ASSUME ReportInv, report' = report,
         report.made => UNCHANGED <<was, now, turns, lost>>
  PROVE  ReportInv'
BY DEF ReportInv, ReportTellsChanges, ReportTellsWhatIsMissing

LEMMA NoReportYet ==
  ASSUME ~report'.made
  PROVE  ReportInv'
BY DEF ReportInv, ReportTellsChanges, ReportTellsWhatIsMissing

LEMMA AllIsStillWritten ==
  ASSUME AllWritten, writer' = writer, turns' = turns, lost' = lost, file'.turns = file.turns
  PROVE  AllWritten'
BY DEF AllWritten

-----------------------------------------------------------------------------
(* A snapshot looks at the files. *)

(* The list is there; unless it is cut short every file is on it. *)
LEMMA LookBegins ==
  ASSUME StillIsSame, pc \in {"before", "after"},
         NEW fs \in SUBSET Files, NEW cut \in BOOLEAN, Look(fs, cut),
         cut \/ Present \subseteq fs,
         UNCHANGED <<disk, pc, was, now>>
  PROVE  LooksInv'
<1>1. /\ snap'.stage = "stat" /\ snap'.todo = fs
      /\ snap'.files = <<>> /\ snap'.truncated = cut
  BY DEF Look, Fresh
<1>2. Base' = Base
  BY DEF Base
<1>3. SnapTypeOK'
  BY <1>1, NothingRecorded DEF SnapTypeOK, Looking
<1>4. StillIsSame'
  BY <1>2 DEF StillIsSame
<1>5. SnapTells'
  <2>1. ASSUME NEW f \in Files, Base[f] # Moving
        PROVE  /\ f \notin DOMAIN snap'.files
               /\ Base[f] # None /\ ~snap'.truncated => f \in snap'.todo
    BY <1>1, <2>1, NothingRecorded DEF StillIsSame, Present
  <2> QED
    BY <1>2, <2>1 DEF SnapTells, Tells
<1>6. LookIsTrue'
  BY <1>1 DEF LookIsTrue, Looking
<1> QED
  BY <1>3, <1>4, <1>5, <1>6 DEF LooksInv

(* What the other steps of a snapshot leave alone. *)
LEMMA LookGoesOn ==
  ASSUME LooksInv, UNCHANGED <<disk, pc, was, now>>
  PROVE  Base' = Base /\ StillIsSame'
BY DEF LooksInv, StillIsSame, Base

LEMMA StatLooks ==
  ASSUME TypeOK, Phases, LooksInv, NEW f \in Files, StatFile(f)
  PROVE  LooksInv'
<1>1. /\ Scanning /\ f \in snap.todo /\ pc \in {"before", "after"}
      /\ snap.todo \subseteq Files /\ snap.files \in Tables /\ snap.truncated \in BOOLEAN
  BY DEF StatFile, Scanning, Phases, LooksInv, SnapTypeOK
<1>2. Base' = Base /\ StillIsSame'
  BY LookGoesOn DEF StatFile, jobVars
<1>3. CASE disk[f] = None
  <2>1. /\ snap'.stage = "stat" /\ snap'.todo = snap.todo \ {f}
        /\ snap'.files = snap.files /\ snap'.truncated = snap.truncated
    BY <1>3 DEF StatFile
  <2>2. SnapTypeOK'
    BY <1>1, <2>1 DEF SnapTypeOK, Looking
  <2>3. SnapTells'
    <3>1. Base[f] = Moving \/ Base[f] = None
      BY <1>1, <1>3 DEF LooksInv, StillIsSame
    <3> QED
      BY <1>1, <1>2, <2>1, <3>1 DEF LooksInv, SnapTells, Tells
  <2>4. LookIsTrue'
    BY <2>1 DEF LookIsTrue, Looking
  <2> QED
    BY <1>2, <2>2, <2>3, <2>4 DEF LooksInv
<1>4. CASE disk[f] # None
  <2>1. /\ snap'.stage = "sniff" /\ snap'.todo = snap.todo
        /\ snap'.file = f /\ snap'.size = disk[f]
        /\ snap'.files = snap.files /\ snap'.truncated = snap.truncated
    BY <1>4 DEF StatFile
  <2>2. SnapTypeOK'
    BY <1>1, <1>4, <2>1 DEF SnapTypeOK, Looking, TypeOK, Contents
  <2>3. SnapTells'
    BY <1>1, <1>2, <2>1 DEF LooksInv, SnapTells, Tells
  <2>4. LookIsTrue'
    BY <1>1, <1>2, <2>1 DEF LookIsTrue, LooksInv, StillIsSame
  <2> QED
    BY <1>2, <2>2, <2>3, <2>4 DEF LooksInv
<1> QED
  BY <1>3, <1>4

(* What is recorded of a file that kept still is what it holds. *)
LEMMA RecordedLooks ==
  ASSUME LooksInv, Looking, pc \in {"before", "after"},
         NEW entry \in FileEntry, snap' = Recorded(entry),
         Base[snap.file] # Moving => Base[snap.file] # None /\ entry = EntryOf(Base[snap.file]),
         UNCHANGED <<disk, pc, was, now>>
  PROVE  LooksInv'
<1>1. /\ Scanning /\ snap.file \in snap.todo
      /\ snap.todo \subseteq Files /\ snap.files \in Tables /\ snap.truncated \in BOOLEAN
  BY DEF Looking, Scanning, LooksInv, SnapTypeOK
<1>2. Base' = Base /\ StillIsSame'
  BY LookGoesOn
<1>3. /\ snap'.stage = "stat" /\ snap'.todo = snap.todo \ {snap.file}
      /\ snap'.files = [f \in DOMAIN snap.files \cup {snap.file} |->
                         IF f = snap.file THEN entry ELSE snap.files[f]]
      /\ snap'.truncated = snap.truncated
  BY DEF Recorded
<1>4. SnapTypeOK'
  BY <1>1, <1>3, OneMore DEF SnapTypeOK, Looking
<1>5. SnapTells'
  <2>1. ASSUME NEW f \in Files, Base[f] # Moving
        PROVE  /\ f \in DOMAIN snap'.files => Base[f] # None /\ snap'.files[f] = EntryOf(Base[f])
               /\ Base[f] # None /\ ~snap.truncated => f \in snap'.todo \cup DOMAIN snap'.files
    BY <1>1, <1>3, <2>1 DEF LooksInv, SnapTells, Tells
  <2> QED
    BY <1>2, <1>3, <2>1 DEF SnapTells, Tells
<1>6. LookIsTrue'
  BY <1>3 DEF LookIsTrue, Looking
<1> QED
  BY <1>2, <1>4, <1>5, <1>6 DEF LooksInv

LEMMA SniffLooks ==
  ASSUME TypeOK, Phases, LooksInv, SniffBinary
  PROVE  LooksInv'
<1>1. /\ Looking /\ Scanning /\ pc \in {"before", "after"}
      /\ snap.file \in Files /\ snap.file \in snap.todo /\ snap.size \in Contents
      /\ UNCHANGED <<disk, pc, was, now>>
  BY DEF SniffBinary, Looking, Scanning, Phases, LooksInv, SnapTypeOK, jobVars
<1>2. Base[snap.file] # Moving =>
        snap.size = Base[snap.file] /\ disk[snap.file] = Base[snap.file] /\ Base[snap.file] # None
  BY <1>1 DEF SniffBinary, LooksInv, LookIsTrue, StillIsSame
<1>3. CASE disk[snap.file] \in Binaries
  <2> DEFINE entry == [is_binary |-> TRUE, mark |-> snap.size]
  <2>1. entry \in FileEntry /\ snap' = Recorded(entry)
    BY <1>1, <1>3 DEF FileEntry, Contents, SniffBinary
  <2>2. Base[snap.file] # Moving => entry = EntryOf(Base[snap.file])
    BY <1>2, <1>3 DEF EntryOf
  <2> HIDE DEF entry
  <2> QED
    BY <1>1, <1>2, <2>1, <2>2, RecordedLooks
<1>4. CASE disk[snap.file] \notin Binaries
  <2>1. /\ snap'.stage = "hash" /\ snap'.todo = snap.todo
        /\ snap'.file = snap.file /\ snap'.size = snap.size
        /\ snap'.files = snap.files /\ snap'.truncated = snap.truncated
    BY <1>4 DEF SniffBinary
  <2>2. Base' = Base /\ StillIsSame'
    BY <1>1, LookGoesOn
  <2>3. SnapTypeOK'
    BY <1>1, <2>1 DEF SnapTypeOK, Looking, Scanning, LooksInv
  <2>4. SnapTells'
    BY <1>1, <2>1, <2>2 DEF SnapTells, LooksInv, Tells
  <2>5. LookIsTrue'
    BY <1>2, <1>4, <2>1, <2>2 DEF LookIsTrue
  <2> QED
    BY <2>2, <2>3, <2>4, <2>5 DEF LooksInv
<1> QED
  BY <1>3, <1>4

LEMMA HashLooks ==
  ASSUME TypeOK, Phases, LooksInv, HashFile
  PROVE  LooksInv'
<1>1. /\ Looking /\ pc \in {"before", "after"} /\ snap.file \in Files
      /\ UNCHANGED <<disk, pc, was, now>>
  BY DEF HashFile, Looking, Scanning, Phases, LooksInv, SnapTypeOK, jobVars
<1>2. Base[snap.file] # Moving =>
        /\ disk[snap.file] = Base[snap.file] /\ Base[snap.file] # None
        /\ Base[snap.file] \notin Binaries
  BY <1>1 DEF HashFile, LooksInv, LookIsTrue, StillIsSame
<1> DEFINE entry == [is_binary |-> FALSE, mark |-> disk[snap.file]]
<1>3. entry \in FileEntry /\ snap' = Recorded(entry)
  BY <1>1 DEF FileEntry, HashFile, TypeOK
<1>4. ASSUME Base[snap.file] # Moving
      PROVE  entry = EntryOf(Base[snap.file])
  <2>1. (Base[snap.file] \in Binaries) = FALSE
    BY <1>2, <1>4
  <2> QED
    BY <1>2, <1>4, <2>1 DEF EntryOf
<1> HIDE DEF entry
<1> QED
  BY <1>1, <1>2, <1>3, <1>4, RecordedLooks

-----------------------------------------------------------------------------
(* The steps of a snapshot. *)

LEMMA SnapStep ==
  ASSUME TypeOK, Phases, TellInv, AllWritten, ReportInv, LooksInv',
         snap.stage # "none", snap'.stage \in {"stat", "sniff", "hash"},
         UNCHANGED <<disk, edits, git, fileCap, jobVars, writer, file, was, now, lost>>
  PROVE  IInv'
<1>1. UNCHANGED <<pc, before, after, turns, error, report>>
  BY DEF jobVars
<1>2. TypeOK'
  BY <1>1 DEF TypeOK
<1>3. Phases'
  BY <1>1 DEF Phases
<1>4. TellInv'
  BY <1>1, TellStays
<1>5. AllWritten'
  BY <1>1, AllIsStillWritten
<1>6. ReportInv'
  BY <1>1, ReportStays
<1> QED
  BY <1>2, <1>3, <1>4, <1>5, <1>6 DEF IInv

LEMMA ListStep ==
  ASSUME IInv, ListGitFiles \/ WalkFiles
  PROVE  IInv'
<1>1. /\ pc \in {"before", "after"} /\ snap.stage # "none"
      /\ UNCHANGED <<disk, pc, was, now>>
  BY DEF ListGitFiles, WalkFiles, IInv, Phases, jobVars
<1>2. PICK fs \in SUBSET Files, cut \in BOOLEAN : Look(fs, cut) /\ (cut \/ Present \subseteq fs)
  <2>1. CASE ListGitFiles
    <3>1. PICK gone \in SUBSET (Files \ Present) :
            LET names == Present \cup gone IN
            IF Cardinality(names) > fileCap
            THEN \E fs \in Capped(names) : Look(fs, TRUE)
            ELSE Look(names, FALSE)
      BY <2>1 DEF ListGitFiles
    <3>2. Present \cup gone \in SUBSET Files /\ Present \subseteq Present \cup gone
      BY DEF Present
    <3> QED
      BY <3>1, <3>2 DEF Capped
  <2>2. CASE WalkFiles
    <3>1. Present \in SUBSET Files
      BY DEF Present
    <3> QED
      BY <2>2, <3>1 DEF WalkFiles, Capped
  <2> QED
    BY <2>1, <2>2
<1>3. LooksInv'
  BY <1>1, <1>2, LookBegins DEF IInv, LooksInv
<1>4. snap'.stage = "stat"
  BY <1>2 DEF Look, Fresh
<1> QED
  BY <1>1, <1>3, <1>4, SnapStep DEF ListGitFiles, WalkFiles, IInv

LEMMA StatStages ==
  ASSUME NEW f \in Files, StatFile(f)
  PROVE  snap'.stage \in {"stat", "sniff", "hash"}
<1>1. CASE disk[f] = None
  BY <1>1 DEF StatFile
<1>2. CASE disk[f] # None
  BY <1>2 DEF StatFile
<1> QED
  BY <1>1, <1>2

LEMMA FileStep ==
  ASSUME IInv, (\E f \in Files : StatFile(f)) \/ SniffBinary \/ HashFile
  PROVE  IInv'
<1>1. LooksInv'
  BY StatLooks, SniffLooks, HashLooks DEF IInv
<1>2. /\ snap.stage # "none"
      /\ UNCHANGED <<disk, edits, git, fileCap, jobVars, writer, file, was, now, lost>>
  BY DEF StatFile, SniffBinary, HashFile
<1>3. snap'.stage \in {"stat", "sniff", "hash"}
  <2>1. CASE \E f \in Files : StatFile(f)
    BY <2>1, StatStages
  <2>2. CASE SniffBinary
    BY <2>2 DEF SniffBinary, Recorded
  <2>3. CASE HashFile
    BY <2>3 DEF HashFile, Recorded
  <2> QED
    BY <2>1, <2>2, <2>3
<1> QED
  BY <1>1, <1>2, <1>3, SnapStep DEF IInv

(* Nothing is recorded of a workspace that cannot be walked, and nothing   *)
(* is claimed of it.                                                       *)
LEMMA NothingFoundStep ==
  ASSUME IInv, WalkFindsNothing
  PROVE  IInv'
<1>1. /\ pc \in {"before", "after"} /\ snap.stage # "none"
      /\ UNCHANGED <<disk, edits, git, fileCap, pc, before, after, turns, error, report,
                      writer, file, lost>>
  BY DEF WalkFindsNothing, IInv, Phases, jobVars
<1>2. /\ snap'.stage = "stat" /\ snap'.todo = {}
      /\ snap'.files = <<>> /\ snap'.truncated = FALSE
  BY DEF WalkFindsNothing, Look, Fresh
<1>3. \/ pc = "before" /\ was' = AllMoving /\ now' = now
      \/ pc = "after" /\ now' = AllMoving /\ was' = was
  BY <1>1 DEF WalkFindsNothing
<1>4. AllMoving \in [Files -> {Moving}] /\ \A f \in Files : Base'[f] = Moving
  BY <1>1, <1>3 DEF AllMoving, Base
<1>5. LooksInv'
  <2>1. SnapTypeOK'
    BY <1>2, NothingRecorded DEF SnapTypeOK, Looking
  <2>2. StillIsSame'
    BY <1>4 DEF StillIsSame
  <2>3. SnapTells'
    BY <1>4 DEF SnapTells, Tells
  <2>4. LookIsTrue'
    BY <1>2 DEF LookIsTrue, Looking
  <2> QED
    BY <2>1, <2>2, <2>3, <2>4 DEF LooksInv
<1>6. TypeOK'
  BY <1>1, <1>2, <1>3, <1>4 DEF IInv, TypeOK
<1>7. Phases'
  BY <1>1 DEF IInv, Phases
<1>8. TellInv'
  BY <1>1, <1>3, TellStays, NotTaken DEF IInv, Phases
<1>9. AllWritten'
  BY <1>1, AllIsStillWritten DEF IInv
<1>10. ReportInv'
  BY <1>1, NoReportYet DEF IInv, Phases
<1> QED
  BY <1>5, <1>6, <1>7, <1>8, <1>9, <1>10 DEF IInv

(* The snapshot ends, and tells what it has recorded. *)
LEMMA SnapshotStep ==
  ASSUME IInv, SnapshotEnds \/ SnapshotFails
  PROVE  IInv'
<1>1. PICK result \in Snapshots :
        /\ SnapshotIs(result)
        /\ result.kind = "taken" => Tells(result.files, Base, {}, result.truncated)
  <2>1. CASE SnapshotEnds
    <3> DEFINE result == [kind |-> "taken", files |-> snap.files, truncated |-> snap.truncated]
    <3>1. Scanning /\ snap.todo = {} /\ SnapshotIs(result)
      BY <2>1 DEF SnapshotEnds, Scanning
    <3>2. result \in Snapshots
      BY <3>1, TakenSnapshot DEF IInv, LooksInv, SnapTypeOK
    <3>3. Tells(result.files, Base, {}, result.truncated)
      BY <3>1 DEF IInv, LooksInv, SnapTells
    <3> HIDE DEF result
    <3> QED
      BY <3>1, <3>2, <3>3
  <2>2. CASE SnapshotFails
    BY <2>2, NotTaken DEF SnapshotFails
  <2> QED
    BY <2>1, <2>2
<1>2. /\ snap' = NoSnap
      /\ UNCHANGED <<disk, edits, git, fileCap, turns, error, report, writer, file, was, now, lost>>
      /\ \/ pc = "before" /\ pc' = "streaming" /\ before' = result /\ after' = after
         \/ pc = "after" /\ pc' = "assembling" /\ after' = result /\ before' = before
  BY <1>1 DEF SnapshotIs
<1>3. LooksInv'
  BY <1>2, NothingToLookAt
<1>4. TypeOK'
  BY <1>2 DEF IInv, TypeOK
<1>5. Phases'
  BY <1>2 DEF IInv, Phases, NoSnap
<1>6. TellInv'
  <2>1. CASE pc = "before"
    <3>1. before' = result /\ after' = after /\ Base = was /\ was' = was /\ now' = now
      BY <1>2, <2>1 DEF Base
    <3> QED
      BY <1>1, <3>1 DEF IInv, TellInv, BeforeTells, AfterTells
  <2>2. CASE pc = "after"
    <3>1. after' = result /\ before' = before /\ Base = now /\ was' = was /\ now' = now
      BY <1>2, <2>2 DEF Base
    <3> QED
      BY <1>1, <3>1 DEF IInv, TellInv, BeforeTells, AfterTells
  <2> QED
    BY <1>2, <2>1, <2>2
<1>7. AllWritten'
  BY <1>2, AllIsStillWritten DEF IInv
<1>8. ReportInv'
  BY <1>2, ReportStays DEF IInv
<1> QED
  BY <1>3, <1>4, <1>5, <1>6, <1>7, <1>8 DEF IInv

-----------------------------------------------------------------------------
(* The job and its transcript. *)

LEMMA StartStep ==
  ASSUME IInv, StartJob
  PROVE  IInv'
<1>1. /\ pc = "claimed" /\ pc' = "before"
      /\ snap' = Fresh("list") /\ was' = disk
      /\ file' = [file EXCEPT !.name = "jsonl"]
      /\ UNCHANGED <<disk, edits, git, fileCap, before, after, turns, error, report,
                      writer, now, lost>>
  BY DEF StartJob
<1>2. LooksInv'
  BY <1>1, LooksBegin DEF Base
<1>3. TypeOK'
  BY <1>1 DEF IInv, TypeOK, Fresh
<1>4. Phases'
  BY <1>1 DEF IInv, Phases
<1>5. TellInv'
  BY <1>1, TellStays, NotTaken DEF IInv, Phases
<1>6. AllWritten'
  BY <1>1, AllIsStillWritten DEF IInv, TypeOK
<1>7. ReportInv'
  BY <1>1, NoReportYet DEF IInv, Phases
<1> QED
  BY <1>2, <1>3, <1>4, <1>5, <1>6, <1>7 DEF IInv

(* A message is in the transcript, or the transcript is truncated. *)
LEMMA MessageStep ==
  ASSUME IInv, NEW size \in Sizes, Message(size)
  PROVE  IInv'
<1>1. /\ pc = "streaming"
      /\ UNCHANGED <<disk, edits, git, fileCap, pc, before, after, error, report, snap, was, now>>
  BY DEF Message
<1>2. PICK more \in {0, 1} : /\ turns' = turns + more /\ turns' \in 0..MaxTurns
                             /\ Append(size, more)
  <2>1. turns \in Nat /\ MaxTurns \in Nat /\ turns <= MaxTurns
    BY JobReportAssumption DEF IInv, TypeOK
  <2>2. CASE turns < MaxTurns /\ turns' = turns + 1 /\ Append(size, 1)
    BY <2>1, <2>2
  <2>3. CASE turns' = turns /\ Append(size, 0)
    BY <2>1, <2>3
  <2> QED
    BY <2>2, <2>3 DEF Message
<1> DEFINE room == CapBytes - writer.bytes
<1>3. /\ writer \in [bytes : 0..CapBytes, truncated : BOOLEAN]
      /\ writer.bytes \in 0..CapBytes /\ writer.truncated \in BOOLEAN
      /\ room \in Nat /\ size \in Nat /\ CapBytes \in Nat /\ MarkerBytes \in Nat
  BY JobReportAssumption DEF IInv, TypeOK
<1>4. /\ file \in [name : {"none", "jsonl", "orphan", "deleted"}, age : Ages,
                    turns : 0..MaxTurns, marker : {"none", "whole", "partial"}]
      /\ file.turns \in Nat /\ turns \in Nat /\ file.turns <= turns /\ MaxTurns \in Nat
      /\ lost \in BOOLEAN
  BY JobReportAssumption DEF IInv, TypeOK, AllWritten
<1>5. /\ writer' \in [bytes : 0..CapBytes, truncated : BOOLEAN]
      /\ file' \in [name : {"none", "jsonl", "orphan", "deleted"}, age : Ages,
                     turns : 0..MaxTurns, marker : {"none", "whole", "partial"}]
      /\ lost' \in BOOLEAN
      /\ ~writer'.truncated => file'.turns = turns' /\ ~lost'
      /\ file'.turns <= turns'
  <2>1. CASE /\ ~writer.truncated /\ size <= room
             /\ writer' = [writer EXCEPT !.bytes = @ + size]
             /\ file' = [file EXCEPT !.turns = @ + more]
             /\ UNCHANGED lost
    <3>1. file.turns = turns /\ ~lost
      BY <2>1 DEF IInv, AllWritten
    <3>2. writer.bytes + size \in 0..CapBytes
      BY <1>3, <2>1
    <3>3. file.turns + more \in 0..MaxTurns
      BY <1>2, <3>1
    <3>4. writer' \in [bytes : 0..CapBytes, truncated : BOOLEAN]
      BY <1>3, <2>1, <3>2
    <3>5. /\ file' \in [name : {"none", "jsonl", "orphan", "deleted"}, age : Ages,
                         turns : 0..MaxTurns, marker : {"none", "whole", "partial"}]
          /\ file'.turns = file.turns + more
      BY <1>4, <2>1, <3>3
    <3> QED
      BY <1>2, <1>4, <2>1, <3>1, <3>4, <3>5
  <2>2. CASE /\ ~writer.truncated /\ size > room
             /\ writer' = [truncated |-> TRUE,
                           bytes |-> IF MarkerBytes <= room THEN writer.bytes + MarkerBytes
                                                            ELSE CapBytes]
             /\ file' = [file EXCEPT !.marker = CASE MarkerBytes <= room -> "whole"
                                                  [] room = 0 -> "none"
                                                  [] OTHER -> "partial"]
             /\ lost' = TRUE
    <3> DEFINE bytes == IF MarkerBytes <= room THEN writer.bytes + MarkerBytes ELSE CapBytes
               marker == CASE MarkerBytes <= room -> "whole"
                           [] room = 0 -> "none"
                           [] OTHER -> "partial"
    <3>1. bytes \in 0..CapBytes
      BY <1>3
    <3>2. marker \in {"none", "whole", "partial"}
      OBVIOUS
    <3>3. writer' = [truncated |-> TRUE, bytes |-> bytes] /\ file' = [file EXCEPT !.marker = marker]
      BY <2>2
    <3> HIDE DEF bytes, marker
    <3>4. writer' \in [bytes : 0..CapBytes, truncated : BOOLEAN] /\ writer'.truncated
      BY <3>1, <3>3
    <3>5. /\ file' \in [name : {"none", "jsonl", "orphan", "deleted"}, age : Ages,
                         turns : 0..MaxTurns, marker : {"none", "whole", "partial"}]
          /\ file'.turns = file.turns
      BY <1>4, <3>2, <3>3
    <3> QED
      BY <1>2, <1>4, <2>2, <3>4, <3>5
  <2>3. CASE writer.truncated /\ lost' = TRUE /\ UNCHANGED <<writer, file>>
    BY <1>2, <1>3, <1>4, <2>3
  <2> QED
    BY <1>2, <2>1, <2>2, <2>3 DEF Append
<1>6. LooksInv'
  BY <1>1, LooksStay DEF IInv
<1>7. TypeOK'
  BY <1>1, <1>2, <1>5 DEF IInv, TypeOK
<1>8. Phases'
  BY <1>1 DEF IInv, Phases
<1>9. TellInv'
  BY <1>1, TellStays DEF IInv
<1>10. AllWritten'
  BY <1>5 DEF AllWritten
<1>11. ReportInv'
  BY <1>1, NoReportYet DEF IInv, Phases
<1> QED
  BY <1>6, <1>7, <1>8, <1>9, <1>10, <1>11 DEF IInv

LEMMA StreamEndStep ==
  ASSUME IInv, StreamEnds \/ TranscriptClosed
  PROVE  IInv'
<1>1. /\ pc \in {"streaming", "closing"} /\ pc' \in {"closing", "after"}
      /\ error' \in {"none", "timeout", "other"}
      /\ UNCHANGED <<disk, edits, git, fileCap, before, after, turns, report, writer, file,
                      was, lost>>
      /\ \/ pc' = "closing" /\ UNCHANGED <<snap, now>>
         \/ pc' = "after" /\ snap' = Fresh("list") /\ now' = disk
  BY DEF StreamEnds, TranscriptClosed, IInv, TypeOK
<1>2. LooksInv'
  <2>1. CASE pc' = "closing"
    <3>1. snap'.stage = "none" /\ snap' = NoSnap
      BY <1>1, <2>1 DEF IInv, Phases, TypeOK, NoSnap
    <3> QED
      BY <2>1, <3>1, NothingToLookAt
  <2>2. CASE pc' = "after"
    BY <1>1, <2>2, LooksBegin DEF Base
  <2> QED
    BY <1>1, <2>1, <2>2
<1>3. TypeOK'
  <2>1. disk \in [Files -> Texts \cup Binaries \cup {None, Moving}]
    BY DEF IInv, TypeOK
  <2>2. now' \in [Files -> Texts \cup Binaries \cup {None, Moving}]
    BY <1>1, <2>1 DEF IInv, TypeOK
  <2>3. snap' = NoSnap \/ snap'.stage \in {"list", "stat", "sniff", "hash"}
    BY <1>1 DEF IInv, TypeOK, Fresh
  <2> QED
    BY <1>1, <2>2, <2>3 DEF IInv, TypeOK
<1>4. Phases'
  BY <1>1 DEF IInv, Phases, Fresh
<1>5. TellInv'
  BY <1>1, TellStays, NotTaken DEF IInv, Phases
<1>6. AllWritten'
  BY <1>1, AllIsStillWritten DEF IInv
<1>7. ReportInv'
  BY <1>1, NoReportYet DEF IInv, Phases
<1> QED
  BY <1>2, <1>3, <1>4, <1>5, <1>6, <1>7 DEF IInv

-----------------------------------------------------------------------------
(* The report. *)

(* Of a file that kept still the comparison of the snapshots tells what    *)
(* has become of it.                                                       *)
LEMMA ChangesAreTold ==
  ASSUME TypeOK, TellInv, before.kind = "taken", after.kind = "taken",
         ~before.truncated, ~after.truncated,
         NEW f \in Files, was[f] # Moving, now[f] # Moving
  PROVE  LET lists == Categorize(before.files, after.files) IN
         /\ f \in lists.created <=> was[f] = None /\ now[f] # None
         /\ f \in lists.deleted <=> was[f] # None /\ now[f] = None
         /\ f \in lists.modified <=> was[f] # now[f] /\ None \notin {was[f], now[f]}
<1> DEFINE old == before.files
           new == after.files
<1>1. /\ f \in DOMAIN old => was[f] # None /\ old[f] = EntryOf(was[f])
      /\ was[f] # None => f \in DOMAIN old
  BY DEF TellInv, BeforeTells, Tells
<1>2. /\ f \in DOMAIN new => now[f] # None /\ new[f] = EntryOf(now[f])
      /\ now[f] # None => f \in DOMAIN new
  BY DEF TellInv, AfterTells, Tells
<1> HIDE DEF old, new
<1>3. Changed(EntryOf(was[f]), EntryOf(now[f])) <=> was[f] # now[f]
  BY DEF Changed, EntryOf
<1>4. /\ f \in Categorize(old, new).created <=> was[f] = None /\ now[f] # None
      /\ f \in Categorize(old, new).deleted <=> was[f] # None /\ now[f] = None
  BY <1>1, <1>2 DEF Categorize
<1>5. f \in Categorize(old, new).modified <=> was[f] # now[f] /\ None \notin {was[f], now[f]}
  <2>1. f \in Categorize(old, new).modified
          <=> f \in DOMAIN old /\ f \in DOMAIN new /\ Changed(old[f], new[f])
    BY DEF Categorize
  <2>2. CASE f \in DOMAIN old /\ f \in DOMAIN new
    BY <1>1, <1>2, <1>3, <2>1, <2>2
  <2>3. CASE f \notin DOMAIN old \/ f \notin DOMAIN new
    BY <1>1, <1>2, <2>1, <2>3
  <2> QED
    BY <2>2, <2>3
<1> QED
  BY <1>4, <1>5 DEF old, new

LEMMA ReasonsOf ==
  ASSUME NEW digest, NEW diff
  PROVE  ResolveTruncation(digest, diff) \in Reasons
BY DEF ResolveTruncation, Reasons

(* Nothing is truncated if no reason is given. *)
LEMMA NoReason ==
  ASSUME NEW digest, NEW diff, ResolveTruncation(digest, diff) = "none"
  PROVE  ~writer.truncated /\ ~diff.truncated
BY DEF ResolveTruncation

LEMMA AssembleStep ==
  ASSUME IInv, Assemble
  PROVE  IInv'
<1> DEFINE compared == before.kind = "taken" /\ after.kind = "taken"
           diff == IF compared THEN ComputeDiff(before, after) ELSE NoDiff
<1>1. /\ pc = "assembling" /\ pc' = "reported"
      /\ report' = ReportOf(Digest(file), diff, compared, TRUE)
      /\ before' = NoSnapshot /\ after' = NoSnapshot
      /\ UNCHANGED <<disk, edits, git, fileCap, turns, error, snap, writer, file, was, now, lost>>
  BY DEF Assemble
<1>2. /\ report'.made /\ report'.compared = compared
      /\ report'.created = diff.lists.created /\ report'.deleted = diff.lists.deleted
      /\ report'.modified = diff.lists.modified /\ report'.turns = file.turns
      /\ report'.reason = ResolveTruncation(Digest(file), diff)
  BY <1>1 DEF ReportOf, Digest
<1>3. LooksInv'
  <2>1. snap' = NoSnap
    BY <1>1 DEF IInv, Phases, TypeOK
  <2> QED
    BY <1>1, <2>1, NothingToLookAt
<1>4. TypeOK'
  <2> HIDE DEF diff, compared
  <2>1. report'.reason \in Reasons
    BY <1>2, ReasonsOf
  <2>2. TypeOK
    BY DEF IInv
  <2>3. pc' = "reported" /\ before' \in Snapshots /\ after' \in Snapshots
    BY <1>1, NotTaken
  <2>4. UNCHANGED <<disk, edits, git, fileCap, turns, error, snap, writer, file, was, now, lost>>
    BY <1>1
  <2> QED
    BY <2>1, <2>2, <2>3, <2>4 DEF TypeOK
<1>5. Phases'
  BY <1>1 DEF IInv, Phases
<1>6. TellInv'
  BY <1>1, TellStays, NotTaken DEF IInv
<1>7. AllWritten'
  BY <1>1, AllIsStillWritten DEF IInv
<1>8. ReportTellsChanges'
  <2> SUFFICES ASSUME compared, ResolveTruncation(Digest(file), diff) = "none",
                      NEW f \in Files, was[f] # Moving, now[f] # Moving
               PROVE  /\ f \in diff.lists.created <=> was[f] = None /\ now[f] # None
                      /\ f \in diff.lists.deleted <=> was[f] # None /\ now[f] = None
                      /\ f \in diff.lists.modified
                           <=> was[f] # now[f] /\ None \notin {was[f], now[f]}
    BY <1>1, <1>2 DEF ReportTellsChanges
  <2>1. /\ diff.lists = Categorize(before.files, after.files)
        /\ diff.truncated = (before.truncated \/ after.truncated)
    BY DEF ComputeDiff
  <2>2. ~diff.truncated
    BY NoReason
  <2> HIDE DEF diff
  <2> QED
    BY <2>1, <2>2, ChangesAreTold DEF IInv
<1>9. ReportTellsWhatIsMissing'
  <2>1. ~writer.truncated => file.turns = turns /\ ~lost
    BY DEF IInv, AllWritten
  <2> HIDE DEF diff
  <2> QED
    BY <1>1, <1>2, <2>1, NoReason DEF ReportTellsWhatIsMissing
<1> QED
  BY <1>3, <1>4, <1>5, <1>6, <1>7, <1>8, <1>9 DEF IInv, ReportInv

LEMMA WorkspaceGoneStep ==
  ASSUME IInv, WorkspaceGone
  PROVE  IInv'
<1>1. /\ pc = "claimed" /\ pc' = "reported"
      /\ report' = ReportOf(Digest(NoTranscript), NoDiff, FALSE, FALSE)
      /\ UNCHANGED <<disk, edits, git, fileCap, before, after, turns, error, snap, writer, file,
                     was, now, lost>>
  BY DEF WorkspaceGone
<1>2. /\ ~report'.compared /\ ~report'.uri
      /\ report'.reason = ResolveTruncation(Digest(NoTranscript), NoDiff)
  BY <1>1 DEF ReportOf
<1>3. LooksInv'
  <2>1. snap' = NoSnap
    BY <1>1 DEF IInv, Phases, TypeOK
  <2> QED
    BY <1>1, <2>1, NothingToLookAt
<1>4. TypeOK'
  <2>1. report'.reason \in Reasons
    BY <1>2, ReasonsOf
  <2>2. TypeOK
    BY DEF IInv
  <2>3. pc' = "reported"
    BY <1>1
  <2>4. UNCHANGED <<disk, edits, git, fileCap, before, after, turns, error, snap, writer, file,
                    was, now, lost>>
    BY <1>1
  <2> QED
    BY <2>1, <2>2, <2>3, <2>4 DEF TypeOK
<1>5. Phases'
  BY <1>1 DEF IInv, Phases
<1>6. TellInv'
  BY <1>1, TellStays DEF IInv
<1>7. AllWritten'
  BY <1>1, AllIsStillWritten DEF IInv
<1>8. ReportInv'
  BY <1>2 DEF ReportInv, ReportTellsChanges, ReportTellsWhatIsMissing
<1> QED
  BY <1>3, <1>4, <1>5, <1>6, <1>7, <1>8 DEF IInv

-----------------------------------------------------------------------------
(* The world around it. *)

(* A file that is changed while a snapshot looks does not count as still. *)
LEMMA EditStep ==
  ASSUME IInv, NEW g \in Files, NEW c \in Texts \cup Binaries \cup {None}, Edit(g, c)
  PROVE  IInv'
<1>1. /\ pc \in {"before", "streaming", "closing", "after"}
      /\ edits < MaxEdits /\ edits' = edits + 1
      /\ disk' = [disk EXCEPT ![g] = c]
      /\ was' = IF pc = "before" THEN [was EXCEPT ![g] = Moving] ELSE was
      /\ now' = IF pc = "after" THEN [now EXCEPT ![g] = Moving] ELSE now
      /\ UNCHANGED <<git, fileCap, pc, before, after, turns, error, report, snap, writer, file, lost>>
  BY DEF Edit, jobVars
<1>2. \A f \in Files :
        /\ disk'[f] = IF f = g THEN c ELSE disk[f]
        /\ was'[f] = IF pc = "before" /\ f = g THEN Moving ELSE was[f]
        /\ now'[f] = IF pc = "after" /\ f = g THEN Moving ELSE now[f]
  BY <1>1 DEF IInv, TypeOK
<1>3. pc \in {"before", "after"} =>
        \A f \in Files : Base'[f] = IF f = g THEN Moving ELSE Base[f]
  BY <1>1, <1>2 DEF Base
<1>4. LooksInv'
  <2>1. Scanning' = Scanning /\ Looking' = Looking
    BY <1>1 DEF Scanning, Looking
  <2>2. SnapTypeOK'
    BY <1>1, <2>1 DEF IInv, LooksInv, SnapTypeOK
  <2>3. StillIsSame'
    BY <1>1, <1>2, <1>3 DEF IInv, LooksInv, StillIsSame
  <2>4. Scanning => pc \in {"before", "after"}
    BY DEF IInv, Phases, Scanning
  <2>5. SnapTells'
    BY <1>1, <1>3, <2>1, <2>4 DEF IInv, LooksInv, SnapTells, Tells
  <2>6. LookIsTrue'
    <3>1. Looking => Scanning /\ snap.file \in Files
      BY DEF Looking, Scanning, IInv, LooksInv, SnapTypeOK
    <3> QED
      BY <1>1, <1>3, <2>1, <2>4, <3>1 DEF IInv, LooksInv, LookIsTrue
  <2> QED
    BY <2>2, <2>3, <2>5, <2>6 DEF LooksInv
<1>5. TypeOK'
  <2>1. edits' \in 0..MaxEdits
    BY <1>1, JobReportAssumption DEF IInv, TypeOK
  <2>2. /\ disk' \in [Files -> Texts \cup Binaries \cup {None}]
        /\ was' \in [Files -> Texts \cup Binaries \cup {None, Moving}]
        /\ now' \in [Files -> Texts \cup Binaries \cup {None, Moving}]
    BY <1>1 DEF IInv, TypeOK
  <2> QED
    BY <1>1, <2>1, <2>2 DEF IInv, TypeOK
<1>6. Phases'
  BY <1>1 DEF IInv, Phases
<1>7. TellInv'
  <2>1. pc = "before" => before.kind # "taken"
    BY NotTaken DEF IInv, Phases
  <2>2. pc = "after" => after.kind # "taken"
    BY NotTaken DEF IInv, Phases
  <2> QED
    BY <1>1, <2>1, <2>2, TellStays DEF IInv
<1>8. AllWritten'
  BY <1>1, AllIsStillWritten DEF IInv
<1>9. ReportInv'
  BY <1>1, NoReportYet DEF IInv, Phases
<1> QED
  BY <1>4, <1>5, <1>6, <1>7, <1>8, <1>9 DEF IInv

LEMMA TimeStep ==
  ASSUME IInv, TimePasses
  PROVE  IInv'
<1>1. /\ file' \in [name : {"none", "jsonl", "orphan", "deleted"}, age : Ages,
                     turns : 0..MaxTurns, marker : {"none", "whole", "partial"}]
      /\ file'.turns = file.turns
      /\ UNCHANGED <<disk, edits, git, fileCap, pc, before, after, turns, error, report, snap,
                     writer, was, now, lost>>
  BY DEF TimePasses, IInv, TypeOK, Ages, jobVars
<1>2. LooksInv'
  BY <1>1, LooksStay DEF IInv
<1>3. TypeOK'
  BY <1>1 DEF IInv, TypeOK
<1>4. Phases'
  BY <1>1 DEF IInv, Phases
<1>5. TellInv'
  BY <1>1, TellStays DEF IInv
<1>6. AllWritten'
  BY <1>1, AllIsStillWritten DEF IInv
<1>7. ReportInv'
  BY <1>1, ReportStays DEF IInv
<1> QED
  BY <1>2, <1>3, <1>4, <1>5, <1>6, <1>7 DEF IInv

LEMMA RestartStep ==
  ASSUME IInv, DaemonRestarts
  PROVE  IInv'
<1>1. /\ pc' = "restarted"
      /\ snap' = NoSnap /\ before' = NoSnapshot /\ after' = NoSnapshot
      /\ writer' = [bytes |-> 0, truncated |-> FALSE]
      /\ turns' = 0 /\ error' = "none" /\ report' = NoReport
      /\ was' = AllMoving /\ now' = AllMoving /\ lost' = FALSE
      /\ UNCHANGED <<disk, edits, git, fileCap>>
  BY DEF DaemonRestarts
<1>2. PICK name \in {file.name, Scanned(file.name, file.age)} :
        file' = [NoTranscript EXCEPT !.name = name, !.age = file.age]
  BY DEF DaemonRestarts
<1>3. /\ file.name \in {"none", "jsonl", "orphan", "deleted"} /\ file.age \in Ages
      /\ name \in {"none", "jsonl", "orphan", "deleted"}
  BY DEF IInv, TypeOK, Scanned
<1>4. /\ file' \in [name : {"none", "jsonl", "orphan", "deleted"}, age : Ages,
                     turns : 0..MaxTurns, marker : {"none", "whole", "partial"}]
      /\ file'.turns = 0
  <2>1. file' = [name |-> name, age |-> file.age, turns |-> 0, marker |-> "none"]
    BY <1>2 DEF NoTranscript
  <2> QED
    BY <1>3, <2>1, JobReportAssumption
<1>5. LooksInv'
  BY <1>1, NothingToLookAt
<1>6. TypeOK'
  <2>1. /\ was' \in [Files -> Texts \cup Binaries \cup {None, Moving}]
        /\ now' \in [Files -> Texts \cup Binaries \cup {None, Moving}]
    BY <1>1 DEF AllMoving
  <2>2. /\ writer' \in [bytes : 0..CapBytes, truncated : BOOLEAN]
        /\ turns' \in 0..MaxTurns
    BY <1>1, JobReportAssumption
  <2> QED
    BY <1>1, <1>4, <2>1, <2>2, NotTaken DEF IInv, TypeOK, NoReport
<1>7. Phases'
  BY <1>1 DEF Phases, NoSnap, NoReport
<1>8. TellInv'
  BY <1>1, NotTaken DEF TellInv, BeforeTells, AfterTells
<1>9. AllWritten'
  BY <1>1, <1>4 DEF AllWritten
<1>10. ReportInv'
  BY <1>1, NoReportYet DEF NoReport
<1> QED
  BY <1>5, <1>6, <1>7, <1>8, <1>9, <1>10 DEF IInv

-----------------------------------------------------------------------------
LEMMA InvInit == Init => IInv
<1> SUFFICES ASSUME Init PROVE IInv
  OBVIOUS
<1>1. /\ was \in [Files -> {Moving}] /\ now \in [Files -> {Moving}]
      /\ snap.stage = "none" /\ ~report.made
  BY DEF Init, AllMoving, NoSnap, NoReport
<1>2. TypeOK
  <2>1. /\ writer \in [bytes : 0..CapBytes, truncated : BOOLEAN]
        /\ file \in [name : {"none", "jsonl", "orphan", "deleted"}, age : Ages, turns : 0..MaxTurns,
                     marker : {"none", "whole", "partial"}]
        /\ turns \in 0..MaxTurns /\ edits \in 0..MaxEdits
    BY JobReportAssumption DEF Init, NoTranscript, Ages
  <2> QED
    BY <1>1, <2>1, NotTaken DEF Init, TypeOK
<1>3. Phases
  BY <1>1 DEF Init, Phases
<1>4. LooksInv
  BY <1>1 DEF Init, LooksInv, SnapTypeOK, StillIsSame, SnapTells, LookIsTrue, Scanning, Looking
<1>5. TellInv
  BY NotTaken DEF Init, TellInv, BeforeTells, AfterTells
<1>6. AllWritten
  BY DEF Init, AllWritten, NoTranscript
<1>7. ReportInv
  BY <1>1 DEF ReportInv, ReportTellsChanges, ReportTellsWhatIsMissing
<1> QED
  BY <1>2, <1>3, <1>4, <1>5, <1>6, <1>7 DEF IInv

LEMMA InvStep == IInv /\ [Next]_vars => IInv'
<1> SUFFICES ASSUME IInv, [Next]_vars PROVE IInv'
  OBVIOUS
<1>1. CASE UNCHANGED vars
  <2>1. UNCHANGED <<disk, edits, git, fileCap, pc, before, after, turns, error, report, snap,
                    writer, file, was, now, lost>>
    BY <1>1 DEF vars, jobVars
  <2>2. TypeOK' /\ Phases' /\ AllWritten'
    BY <2>1 DEF IInv, TypeOK, Phases, AllWritten
  <2> QED
    BY <2>1, <2>2, LooksStay, TellStays, ReportStays DEF IInv
<1>2. CASE Next
  BY <1>2, StartStep, WorkspaceGoneStep, ListStep, NothingFoundStep, FileStep, SnapshotStep,
     MessageStep, StreamEndStep, AssembleStep, EditStep, TimeStep, RestartStep DEF Next
<1> QED
  BY <1>1, <1>2

(* The variables keep their types. *)
THEOREM TypeCorrect == Spec => []TypeOK
<1>1. IInv => TypeOK
  BY DEF IInv
<1> QED
  BY InvInit, InvStep, <1>1, PTL DEF Spec

(* A report that is not said to be truncated, made from two snapshots,     *)
(* tells of every file that kept still while they were taken what has      *)
(* become of it: assembleReport with computeDiff, whatever changes         *)
(* meanwhile and whatever the cap leaves out.                              *)
THEOREM ReportTellsChangesHolds == Spec => []ReportTellsChanges
<1>1. IInv => ReportTellsChanges
  BY DEF IInv, ReportInv
<1> QED
  BY InvInit, InvStep, <1>1, PTL DEF Spec

(* Unless the report is said to be truncated its transcript misses no      *)
(* message and its count of turns is right: TranscriptWriter.append and    *)
(* resolveTruncation, for any cap and any size of the marker.              *)
THEOREM ReportTellsWhatIsMissingHolds == Spec => []ReportTellsWhatIsMissing
<1>1. IInv => ReportTellsWhatIsMissing
  BY DEF IInv, ReportInv
<1> QED
  BY InvInit, InvStep, <1>1, PTL DEF Spec
=============================================================================
