------------------------ MODULE Registration_proofs ------------------------
(***************************************************************************)
(* The registration of windows: the daemon's store of folders              *)
(* (WorkspaceStore), and the windows that talk to it (ExtensionLink).      *)
(*                                                                         *)
(* The store.  HolderIsTrusted, OnlyConfirmIntrudes and PromiseIsKept, for *)
(* any number of windows, folders and overlapping writes.  HolderIsTrusted *)
(* is inductive as it stands once the types are known, and the types       *)
(* include what may be in workspaces.json: a restart takes the entries     *)
(* from there.  PromiseIsKept needs to know what the file has (DiskKnows), *)
(* and that in turn that a write which met no other carries the store as   *)
(* it is (AloneInv).                                                       *)
(*                                                                         *)
(* The window's side.  AnswerIsItsOwn and TrustIsGranted, for any number   *)
(* of windows and connections.  What is said on a connection is known as   *)
(* long as no stop has been sent: the window has at most one request open, *)
(* and it is in one place, on its way, in the hands of the daemon,         *)
(* answered, or lost with the connection.  So the line at the head of the  *)
(* channel is the answer to it.                                            *)
(***************************************************************************)
EXTENDS WorkspaceStore, ExtensionLink, TLAPS

-----------------------------------------------------------------------------
(* The daemon's side: registry, store and workspaces.json.                 *)

IInv == TypeOK /\ HolderIsTrusted

Operations == Sockets \X Paths

(* One write, at any stage. *)
WriteRecord ==
  [stage : {"none", "stat"}, data : {NoText}, alone : BOOLEAN]
    \cup [stage : {"open", "write"}, data : Stores, alone : BOOLEAN]

(* What may be in the file. *)
Contents ==
  [state : {"whole"}, data : Stores] \cup [state : {"empty", "garbled"}, data : {NoText}]

LEMMA FileTypes ==
  FileTypeOK(Stores) <=>
    disk \in Contents /\ write \in [Operations -> WriteRecord] /\ disturbed \in BOOLEAN
BY DEF FileTypeOK, Contents, WriteRecord, Operations

-----------------------------------------------------------------------------
(* Every step of a write leaves something that is one.                     *)

LEMMA NoWriteType == NoWrite \in WriteRecord
BY DEF NoWrite, WriteRecord

LEMMA BeginWriteType ==
  ASSUME FileTypeOK(Stores), NEW o \in Operations, BeginWrite(o)
  PROVE  FileTypeOK(Stores)'
<1>1. write \in [Operations -> WriteRecord] /\ disk \in Contents /\ disturbed \in BOOLEAN
  BY FileTypes
<1>2. ASSUME NEW p \in Operations
      PROVE  [write[p] EXCEPT !.alone = FALSE] \in WriteRecord
  BY <1>1 DEF WriteRecord
<1>3. [stage |-> "stat", data |-> NoText,
       alone |-> \A other \in Operations \ {o} : Stage(other) = "none"] \in WriteRecord
  BY DEF WriteRecord
<1>4. write' \in [Operations -> WriteRecord]
  BY <1>2, <1>3 DEF BeginWrite, StartWrite, Operations
<1> QED
  BY <1>1, <1>4 DEF BeginWrite, StartWrite, FileTypeOK, Contents, WriteRecord, Operations

LEMMA WriteStepType ==
  ASSUME FileTypeOK(Stores), NEW o \in Operations, NEW store \in Stores,
         Stringify(o, store) \/ OpenFile(o)
  PROVE  FileTypeOK(Stores)'
<1>1. write \in [Operations -> WriteRecord] /\ disk \in Contents /\ disturbed \in BOOLEAN
  BY FileTypes
<1>2. CASE Stringify(o, store)
  <2> DEFINE new == [write[o] EXCEPT !.stage = "open", !.data = store]
  <2>1. new \in WriteRecord
    BY <1>1 DEF WriteRecord
  <2>2. write' = [write EXCEPT ![o] = new] /\ UNCHANGED <<disk, disturbed>>
    BY <1>2 DEF Stringify
  <2> HIDE DEF new
  <2> QED
    BY <1>1, <2>1, <2>2 DEF FileTypeOK, Contents, WriteRecord, Operations
<1>3. CASE OpenFile(o)
  <2> DEFINE new == [write[o] EXCEPT !.stage = "write"]
  <2>1. new \in WriteRecord
    BY <1>1, <1>3 DEF OpenFile, Stage, WriteRecord
  <2>2. write' = [write EXCEPT ![o] = new] /\ disturbed' = disturbed
    BY <1>3 DEF OpenFile
  <2>3. disk' \in Contents
    BY <1>3 DEF OpenFile, Contents
  <2> HIDE DEF new
  <2> QED
    BY <1>1, <2>1, <2>2, <2>3 DEF FileTypeOK, Contents, WriteRecord, Operations
<1> QED
  BY <1>2, <1>3

LEMMA WriteEndsType ==
  ASSUME FileTypeOK(Stores), NEW o \in Operations, WriteDone(o) \/ WriteFails(o)
  PROVE  FileTypeOK(Stores)'
<1>1. write \in [Operations -> WriteRecord] /\ disk \in Contents /\ disturbed \in BOOLEAN
  BY FileTypes
<1>2. write' = [write EXCEPT ![o] = NoWrite]
  BY DEF WriteDone, WriteFails
<1>3. write' \in [Operations -> WriteRecord]
  BY <1>1, <1>2, NoWriteType
<1>4. disturbed' \in BOOLEAN
  BY DEF WriteDone, WriteFails
<1>5. disk' \in Contents
  <2>1. CASE WriteDone(o)
    <3>1. Stage(o) = "write" => write[o].data \in Stores
      BY <1>1 DEF Stage, WriteRecord
    <3> QED
      BY <2>1, <3>1 DEF WriteDone, Landed, Contents
  <2>2. CASE WriteFails(o)
    BY <1>1, <2>2 DEF WriteFails, Contents
  <2> QED
    BY <2>1, <2>2
<1> QED
  BY <1>3, <1>4, <1>5 DEF FileTypeOK, Contents, WriteRecord, Operations

LEMMA AbandonType ==
  ASSUME FileTypeOK(Stores), AbandonWrites
  PROVE  FileTypeOK(Stores)'
<1>1. write' \in [Operations -> WriteRecord]
  BY NoWriteType DEF AbandonWrites, Operations
<1> QED
  BY <1>1, FileTypes DEF AbandonWrites, FileTypeOK, Contents, WriteRecord, Operations

-----------------------------------------------------------------------------
(* The actions.                                                            *)

(* Entries, folders and windows, without the store. *)
RegistryInv ==
  /\ RegistryTypeOK
  /\ OneEntryPerPath
  /\ \A p \in Paths : active[p] # None => Trusted(p)
  /\ \A c \in confirming : Trusted(c[2])

ModeInv == mode \in Stores /\ \A p \in Paths : Trusted(p) <=> mode[p] # "absent"

LEMMA IInvParts ==
  IInv <=> RegistryInv /\ ModeInv /\ FileTypeOK(Stores) /\ promised \in Stores
BY DEF IInv, TypeOK, HolderIsTrusted, RegistryInv, ModeInv

(* Whatever a window asks for, a folder is added once. *)
LEMMA RegistryKept ==
  ASSUME RegistryInv, NEW s \in Sockets
  PROVE  /\ Connect(s) \/ Hello(s) \/ Close(s) => RegistryInv' /\ entries' = entries
         /\ \A p \in Paths :
              /\ Register(s, p) \/ Deregister(s, p) \/ ConfirmDone(s, p) \/ ConfirmFails(s, p)
                   => RegistryInv' /\ entries' = entries
              /\ ConfirmTrust(s, p) => RegistryInv'
<1> USE DEF RegistryInv, RegistryTypeOK, OneEntryPerPath, Trusted
<1>1. Connect(s) \/ Hello(s) => RegistryInv' /\ entries' = entries
  BY DEF Connect, Hello
<1>2. Close(s) => RegistryInv' /\ entries' = entries
  BY DEF Close
<1>3. ASSUME NEW p \in Paths,
             Register(s, p) \/ Deregister(s, p) \/ ConfirmDone(s, p) \/ ConfirmFails(s, p)
      PROVE  RegistryInv' /\ entries' = entries
  <2>1. CASE Register(s, p)
    BY <2>1 DEF Register
  <2>2. CASE Deregister(s, p)
    BY <2>2 DEF Deregister
  <2>3. CASE ConfirmDone(s, p)
    <3>1. entries[p] > 0
      BY <2>3 DEF ConfirmDone
    <3> QED
      BY <2>3, <3>1 DEF ConfirmDone
  <2>4. CASE ConfirmFails(s, p)
    BY <2>4 DEF ConfirmFails
  <2> QED
    BY <1>3, <2>1, <2>2, <2>3, <2>4
<1>4. ASSUME NEW p \in Paths, ConfirmTrust(s, p)
      PROVE  RegistryInv'
  <2>1. entries[p] = 0 /\ entries' = [entries EXCEPT ![p] = 1]
    <3>1. entries[p] \in Nat /\ ~(entries[p] > 0) /\ entries' = [entries EXCEPT ![p] = entries[p] + 1]
      BY <1>4 DEF ConfirmTrust
    <3>2. entries[p] = 0
      BY <3>1
    <3> QED
      BY <3>1, <3>2
  <2>2. /\ confirming' = confirming \cup {<<s, p>>} /\ UNCHANGED <<conn, active>>
        /\ \A c \in confirming : c[2] # p
    BY <1>4, <2>1 DEF ConfirmTrust
  <2> QED
    BY <2>1, <2>2
<1> QED
  BY <1>1, <1>2, <1>3, <1>4

LEMMA AddTrustedEntryKeeps ==
  ASSUME IInv, NEW s \in Sockets, NEW p \in Paths, AddTrustedEntry(s, p)
  PROVE  IInv'
<1>1. RegistryInv'
  BY IInvParts, RegistryKept DEF AddTrustedEntry
<1>2. FileTypeOK(Stores)'
  BY IInvParts, BeginWriteType DEF AddTrustedEntry, Operations
<1>3. ModeInv'
  BY IInvParts, WorkspaceStoreAssumption
     DEF AddTrustedEntry, ConfirmTrust, ModeInv, Stores, Trusted, RegistryInv, RegistryTypeOK
<1>4. promised' \in Stores
  BY IInvParts DEF AddTrustedEntry
<1> QED
  BY <1>1, <1>2, <1>3, <1>4 DEF RegistryInv, ModeInv, IInv, TypeOK, HolderIsTrusted

LEMMA SetModeKeeps ==
  ASSUME IInv, NEW s \in Sockets, NEW p \in Paths, NEW m \in Modes, SetMode(s, p, m)
  PROVE  IInv'
<1>1. UNCHANGED <<registryVars, promised>> /\ mode' = [mode EXCEPT ![p] = m]
  BY DEF SetMode
<1>2. FileTypeOK(Stores)'
  BY IInvParts, BeginWriteType DEF SetMode, Operations
<1>3. Trusted(p)
  <2>1. active[p] # None
    BY IpcRegistryAssumption DEF SetMode
  <2> QED
    BY <2>1 DEF IInv, HolderIsTrusted
<1>4. ModeInv'
  BY <1>1, <1>3, IInvParts, WorkspaceStoreAssumption
     DEF ModeInv, Stores, Trusted, registryVars
<1> QED
  BY <1>1, <1>2, <1>4
     DEF ModeInv, IInv, TypeOK, RegistryTypeOK, HolderIsTrusted, OneEntryPerPath, Trusted,
         registryVars

LEMMA WriteStepKeeps ==
  ASSUME IInv, NEW s \in Sockets, NEW p \in Paths, WriteStep(s, p)
  PROVE  IInv'
<1>1. UNCHANGED <<registryVars, mode, promised>>
  BY DEF WriteStep
<1>2. FileTypeOK(Stores)'
  BY IInvParts, WriteStepType DEF WriteStep, Operations, ModeInv
<1> QED
  BY <1>1, <1>2
     DEF IInv, TypeOK, RegistryTypeOK, HolderIsTrusted, OneEntryPerPath, Trusted, registryVars

LEMMA WriteEndsKeeps ==
  ASSUME IInv, NEW s \in Sockets, NEW p \in Paths, Written(s, p) \/ NotWritten(s, p)
  PROVE  IInv'
<1>1. FileTypeOK(Stores)'
  BY IInvParts, WriteEndsType DEF Written, NotWritten, Operations
<1>2. RegistryInv' /\ entries' = entries
  <2>1. ConfirmDone(s, p) \/ ConfirmFails(s, p) \/ UNCHANGED registryVars
    BY DEF Written, NotWritten
  <2>2. CASE UNCHANGED registryVars
    BY <2>2, IInvParts
       DEF RegistryInv, RegistryTypeOK, OneEntryPerPath, Trusted, registryVars
  <2>3. CASE ConfirmDone(s, p) \/ ConfirmFails(s, p)
    BY <2>3, IInvParts, RegistryKept
  <2> QED
    BY <2>1, <2>2, <2>3
<1>3. mode' = mode
  BY DEF Written, NotWritten
<1>4. ModeInv'
  BY <1>2, <1>3, IInvParts DEF ModeInv, Trusted
<1>5. promised' \in Stores
  BY IInvParts DEF Written, NotWritten, ModeInv, Stores
<1> QED
  BY <1>1, <1>2, <1>4, <1>5 DEF RegistryInv, ModeInv, IInv, TypeOK, HolderIsTrusted

LEMMA WindowStepKeeps ==
  ASSUME IInv, NEW s \in Sockets, WindowStep(s)
  PROVE  IInv'
<1>1. RegistryInv' /\ entries' = entries
  BY IInvParts, RegistryKept DEF WindowStep
<1>2. UNCHANGED storeVars
  BY DEF WindowStep
<1>3. ModeInv' /\ FileTypeOK(Stores)' /\ promised' \in Stores
  BY <1>1, <1>2, IInvParts DEF ModeInv, Trusted, FileTypeOK, storeVars
<1> QED
  BY <1>1, <1>3 DEF RegistryInv, ModeInv, IInv, TypeOK, HolderIsTrusted

(* The entries of the next daemon are those of a whole file. *)
LEMMA RestartKeeps ==
  ASSUME IInv, Restart
  PROVE  IInv'
<1>1. disk.data \in Stores
  BY IInvParts, FileTypes DEF Restart, Contents
<1>2. FileTypeOK(Stores)'
  BY IInvParts, AbandonType DEF Restart
<1>3. /\ entries' \in [Paths -> {0, 1}]
      /\ \A p \in Paths : entries'[p] > 0 <=> mode'[p] # "absent"
      /\ mode' \in Stores
  BY <1>1 DEF Restart
<1>4. promised' \in Stores
  BY IInvParts DEF Restart, Stores
<1>5. RegistryInv'
  BY <1>3 DEF Restart, RegistryInv, RegistryTypeOK, OneEntryPerPath, Trusted
<1>6. ModeInv'
  BY <1>3 DEF ModeInv, Trusted
<1> QED
  BY <1>2, <1>4, <1>5, <1>6 DEF RegistryInv, ModeInv, IInv, TypeOK, HolderIsTrusted

-----------------------------------------------------------------------------
LEMMA InitKeeps == Init => IInv
<1>1. SUFFICES ASSUME Init PROVE IInv
  OBVIOUS
<1>2. RegistryInv
  BY <1>1 DEF Init, RegistryInit, RegistryInv, RegistryTypeOK, OneEntryPerPath, Trusted
<1>3. ModeInv /\ promised \in Stores
  BY <1>1, WorkspaceStoreAssumption DEF Init, ModeInv, Stores, Trusted
<1>4. FileTypeOK(Stores)
  <2>1. disk \in Contents /\ disturbed \in BOOLEAN
    BY <1>1, <1>3 DEF Init, FileInit, Contents
  <2>2. write \in [Operations -> WriteRecord]
    BY <1>1, NoWriteType DEF Init, FileInit, Operations
  <2> QED
    BY <2>1, <2>2, FileTypes
<1> QED
  BY <1>2, <1>3, <1>4, IInvParts

LEMMA NextKeeps == IInv /\ [Next]_vars => IInv'
<1>1. SUFFICES ASSUME IInv, [Next]_vars PROVE IInv'
  OBVIOUS
<1>2. CASE UNCHANGED vars
  BY <1>1, <1>2
     DEF vars, registryVars, storeVars, IInv, TypeOK, RegistryTypeOK, FileTypeOK,
         HolderIsTrusted, OneEntryPerPath, Trusted
<1>3. ASSUME NEW s \in Sockets, NEW p \in Paths,
             \/ AddTrustedEntry(s, p) \/ WriteStep(s, p) \/ Written(s, p) \/ NotWritten(s, p)
             \/ \E m \in Modes : SetMode(s, p, m)
      PROVE  IInv'
  BY <1>1, <1>3, AddTrustedEntryKeeps, SetModeKeeps, WriteStepKeeps, WriteEndsKeeps
<1>4. ASSUME NEW s \in Sockets, WindowStep(s)
      PROVE  IInv'
  BY <1>1, <1>4, WindowStepKeeps
<1>5. CASE Restart
  BY <1>1, <1>5, RestartKeeps
<1> QED
  BY <1>1, <1>2, <1>3, <1>4, <1>5 DEF Next

THEOREM StoreInvariant == Spec => []IInv
<1> QED
  BY InitKeeps, NextKeeps, PTL DEF Spec

(* Windows, entries, file and writes are type correct.                     *)
THEOREM StoreTypeCorrect == Spec => []TypeOK
<1>1. IInv => TypeOK
  BY DEF IInv
<1> QED
  BY <1>1, StoreInvariant, PTL

(* Each folder is in the store at most once, with its mode, and no window  *)
(* holds one that is not in it.                                            *)
THEOREM HolderIsTrustedHolds == Spec => []HolderIsTrusted
<1>1. IInv => HolderIsTrusted
  BY DEF IInv
<1> QED
  BY <1>1, StoreInvariant, PTL

(* Only a confirm_trust that was being written takes a folder from its     *)
(* holder, or gives one to a connection that is not open.                  *)
THEOREM OnlyConfirmIntrudesHolds == Spec => OnlyConfirmIntrudes
<1> DEFINE Intrudes(s, p) ==
      /\ active'[p] = s /\ active[p] # s
      /\ active[p] # None \/ conn'[s] # "ready"
<1> DEFINE Bounded == \A p \in Paths, s \in Sockets : Intrudes(s, p) => <<s, p>> \in confirming
<1>1. ASSUME RegistryTypeOK, Next
      PROVE  Bounded
  <2> USE <1>1 DEF RegistryTypeOK
  <2>1. CASE UNCHANGED active
    BY <2>1
  <2>2. ASSUME NEW s \in Sockets, NEW p \in Paths, Register(s, p)
        PROVE  Bounded
    BY <2>2 DEF Register, Available, Ready
  <2>3. ASSUME NEW s \in Sockets, NEW p \in Paths, ConfirmDone(s, p)
        PROVE  Bounded
    BY <2>3 DEF ConfirmDone
  <2>4. ASSUME NEW s \in Sockets, NEW p \in Paths, Deregister(s, p) \/ Close(s)
        PROVE  Bounded
    BY <2>4, IpcRegistryAssumption DEF Deregister, Close
  <2>5. CASE Restart
    BY <2>5, IpcRegistryAssumption DEF Restart
  <2>6. ASSUME NEW s \in Sockets, NEW p \in Paths,
               \/ AddTrustedEntry(s, p) \/ WriteStep(s, p) \/ Written(s, p) \/ NotWritten(s, p)
               \/ \E m \in Modes : SetMode(s, p, m)
        PROVE  Bounded
    <3>1. UNCHANGED active \/ ConfirmDone(s, p)
      BY <2>6 DEF AddTrustedEntry, ConfirmTrust, WriteStep, Written, NotWritten, ConfirmFails,
                  SetMode, registryVars
    <3> QED
      BY <2>1, <2>3, <3>1
  <2>7. ASSUME NEW s \in Sockets, WindowStep(s)
        PROVE  Bounded
    <3>1. \/ UNCHANGED active \/ Close(s)
          \/ \E p \in Paths : Register(s, p) \/ Deregister(s, p)
      BY <2>7 DEF WindowStep, Connect, Hello
    <3>2. CASE Close(s)
      BY <3>2, IpcRegistryAssumption DEF Close
    <3> QED
      BY <2>1, <2>2, <2>4, <3>1, <3>2
  <2> HIDE DEF Bounded
  <2> QED
    BY <2>5, <2>6, <2>7 DEF Next
<1>2. TypeOK /\ [Next]_vars => [Bounded]_vars
  BY <1>1 DEF TypeOK
<1> QED
  BY <1>2, StoreTypeCorrect, PTL DEF Spec, OnlyConfirmIntrudes

-----------------------------------------------------------------------------
(* Promises.                                                               *)

(* A write that is alone will leave the store in the file. *)
AloneInv ==
  \A o \in Operations : write[o].alone /\ Stage(o) # "none" =>
    /\ \A other \in Operations \ {o} : Stage(other) = "none"
    /\ Stage(o) \in {"open", "write"} => write[o].data = mode
    /\ Stage(o) = "write" => disk.state = "empty"

(* After an undisturbed write a whole file has what was promised of the    *)
(* folders that no write is about.                                         *)
DiskKnows ==
  ~disturbed /\ disk.state = "whole" =>
    \A p \in Paths : promised[p] # "absent" /\ ~Serving(p) => disk.data[p] = promised[p]

PromiseInv == AloneInv /\ DiskKnows /\ PromiseIsKept

LEMMA BeginWriteKeeps ==
  ASSUME IInv, PromiseInv, NEW s \in Sockets, NEW p \in Paths,
         BeginWrite(<<s, p>>), UNCHANGED promised,
         \A q \in Paths \ {p} : mode'[q] = mode[q] /\ (Trusted(q) => Trusted(q)')
  PROVE  PromiseInv'
<1> DEFINE o == <<s, p>>
<1>1. write \in [Operations -> WriteRecord] /\ o \in Operations
  BY IInvParts, FileTypes DEF Operations
<1>2. /\ write'[o].stage = "stat"
      /\ write'[o].alone => \A other \in Operations \ {o} : Stage(other) = "none"
      /\ \A other \in Operations \ {o} :
           ~write'[other].alone /\ write'[other].stage = Stage(other)
      /\ UNCHANGED <<disk, disturbed>>
  <2>1. \A other \in Operations : /\ [write[other] EXCEPT !.alone = FALSE].alone = FALSE
                                  /\ [write[other] EXCEPT !.alone = FALSE].stage = Stage(other)
    BY <1>1 DEF WriteRecord, Stage
  <2> QED
    BY <1>1, <2>1 DEF BeginWrite, StartWrite, Operations
<1> HIDE DEF o
<1>3. AloneInv'
  BY <1>2 DEF AloneInv, Stage
<1>4. Serving(p)' /\ \A q \in Paths : Serving(q) => Serving(q)'
  <2>1. Stage(o)' = "stat" /\ \A other \in Operations \ {o} : Stage(other)' = Stage(other)
    BY <1>2 DEF Stage
  <2> QED
    BY <2>1 DEF Serving, Operations, o
<1>5. DiskKnows'
  BY <1>2, <1>4 DEF PromiseInv, DiskKnows
<1>6. PromiseIsKept'
  BY <1>4 DEF PromiseInv, PromiseIsKept
<1> QED
  BY <1>3, <1>5, <1>6 DEF PromiseInv

LEMMA WriteGoesOnKeeps ==
  ASSUME IInv, PromiseInv, NEW s \in Sockets, NEW p \in Paths, WriteStep(s, p)
  PROVE  PromiseInv'
<1> DEFINE o == <<s, p>>
<1>1. write \in [Operations -> WriteRecord] /\ o \in Operations
  BY IInvParts, FileTypes DEF Operations
<1>2. UNCHANGED <<registryVars, mode, promised>>
  BY DEF WriteStep
<1>3. /\ \A other \in Operations \ {o} : write'[other] = write[other]
      /\ write'[o].alone = write[o].alone
      /\ disturbed' = disturbed
      /\ \/ /\ Stage(o) = "stat" /\ write'[o].stage = "open" /\ write'[o].data = mode
            /\ disk' = disk
         \/ /\ Stage(o) = "open" /\ write'[o].stage = "write"
            /\ write'[o].data = write[o].data /\ disk'.state = "empty"
  <2>1. CASE Stringify(o, mode)
    <3>1. /\ write' = [write EXCEPT ![o] = [@ EXCEPT !.stage = "open", !.data = mode]]
          /\ Stage(o) = "stat" /\ UNCHANGED <<disk, disturbed>>
      BY <2>1 DEF Stringify
    <3>2. LET new == [write[o] EXCEPT !.stage = "open", !.data = mode]
          IN  new.stage = "open" /\ new.data = mode /\ new.alone = write[o].alone
      BY <1>1 DEF WriteRecord
    <3> QED
      BY <1>1, <3>1, <3>2
  <2>2. CASE OpenFile(o)
    <3>1. /\ write' = [write EXCEPT ![o] = [@ EXCEPT !.stage = "write"]]
          /\ Stage(o) = "open" /\ disk'.state = "empty" /\ disturbed' = disturbed
      BY <2>2 DEF OpenFile
    <3>2. LET new == [write[o] EXCEPT !.stage = "write"]
          IN  new.stage = "write" /\ new.data = write[o].data /\ new.alone = write[o].alone
      BY <1>1 DEF WriteRecord
    <3> QED
      BY <1>1, <3>1, <3>2
  <2> QED
    BY <2>1, <2>2 DEF WriteStep
<1> HIDE DEF o
<1>4. AloneInv'
  BY <1>1, <1>2, <1>3 DEF PromiseInv, AloneInv, Stage
<1>5. \A q \in Paths : Serving(q)' <=> Serving(q)
  <2>1. \A other \in Operations : Stage(other)' = "none" <=> Stage(other) = "none"
    BY <1>3 DEF Stage
  <2> QED
    BY <2>1 DEF Serving, Operations
<1>6. DiskKnows' /\ PromiseIsKept'
  BY <1>2, <1>3, <1>5 DEF PromiseInv, DiskKnows, PromiseIsKept, Trusted, registryVars
<1> QED
  BY <1>4, <1>6 DEF PromiseInv

LEMMA WriteEndKeeps ==
  ASSUME IInv, IInv', PromiseInv, NEW s \in Sockets, NEW p \in Paths,
         Written(s, p) \/ NotWritten(s, p)
  PROVE  PromiseInv'
<1> DEFINE o == <<s, p>>
<1>1. write \in [Operations -> WriteRecord] /\ o \in Operations
  BY IInvParts, FileTypes DEF Operations
<1>2. /\ mode' = mode
      /\ entries' = entries
      /\ write' = [write EXCEPT ![o] = NoWrite] /\ Stage(o) # "none"
      /\ \A q \in Paths \ {p} : promised'[q] = promised[q]
      /\ promised'[p] \in {mode[p], "absent"}
  BY IInvParts DEF Written, NotWritten, WriteDone, WriteFails, Landed, ConfirmDone, ConfirmFails,
                   registryVars, Stores
<1>3. /\ \A other \in Operations \ {o} : write'[other] = write[other]
      /\ write'[o].stage = "none"
  BY <1>1, <1>2 DEF NoWrite
<1>4. disturbed' \/ (write[o].alone /\ disk' = [state |-> "whole", data |-> mode])
  BY <1>1 DEF Written, NotWritten, WriteDone, WriteFails, Landed, PromiseInv, AloneInv
<1>5. write[o].alone => \A other \in Operations \ {o} : Stage(other) = "none"
  BY <1>1, <1>2 DEF PromiseInv, AloneInv
<1>6. \A other \in Operations \ {o} : write[other].alone => Stage(other) = "none"
  BY <1>1, <1>2 DEF PromiseInv, AloneInv
<1> HIDE DEF o
<1>7. AloneInv'
  BY <1>3, <1>6 DEF AloneInv, Stage
<1>8. \A q \in Paths \ {p} : Serving(q)' <=> Serving(q)
  <2>1. \A other \in Operations \ {o} : Stage(other)' = Stage(other)
    BY <1>3 DEF Stage
  <2> QED
    BY <2>1 DEF Serving, Operations, o
<1>9. PromiseIsKept'
  <2>1. \A q \in Paths : Trusted(q)' <=> mode'[q] # "absent"
    BY DEF IInv, HolderIsTrusted
  <2> QED
    BY <1>2, <1>8, <2>1 DEF PromiseInv, PromiseIsKept
<1>10. DiskKnows'
  <2>1. SUFFICES ASSUME ~disturbed', NEW q \in Paths, promised'[q] # "absent"
                 PROVE  disk'.data[q] = promised'[q]
    BY DEF DiskKnows
  <2>2. write[o].alone /\ disk'.data = mode
    BY <1>4, <2>1
  <2>3. q # p => ~Serving(q)
    BY <1>5, <2>2 DEF Serving, Operations, o
  <2> QED
    BY <1>2, <2>1, <2>2, <2>3 DEF PromiseInv, PromiseIsKept
<1> QED
  BY <1>7, <1>9, <1>10 DEF PromiseInv

LEMMA PromisesSurviveRestart ==
  ASSUME IInv, IInv', PromiseInv, Restart
  PROVE  PromiseInv'
<1>1. /\ \A o \in Operations : write'[o] = NoWrite
      /\ mode' = disk.data /\ disk' = disk /\ disk.state = "whole"
      /\ promised' = [p \in Paths |-> IF disturbed \/ Serving(p) THEN "absent" ELSE promised[p]]
  BY DEF Restart, AbandonWrites, Operations
<1>2. AloneInv'
  BY <1>1 DEF AloneInv, NoWrite
<1>3. \A p \in Paths : promised'[p] # "absent" => mode'[p] = promised'[p]
  BY <1>1 DEF PromiseInv, DiskKnows
<1>4. \A p \in Paths : Trusted(p)' <=> mode'[p] # "absent"
  BY DEF IInv, HolderIsTrusted
<1> QED
  BY <1>1, <1>2, <1>3, <1>4 DEF PromiseInv, DiskKnows, PromiseIsKept

LEMMA PromiseStep == IInv /\ IInv' /\ PromiseInv /\ [Next]_vars => PromiseInv'
<1> SUFFICES ASSUME IInv, IInv', PromiseInv, [Next]_vars PROVE PromiseInv'
  OBVIOUS
<1>1. ASSUME entries' = entries, UNCHANGED storeVars
      PROVE  PromiseInv'
  BY <1>1 DEF storeVars, PromiseInv, AloneInv, DiskKnows, PromiseIsKept, Serving, Stage, Trusted
<1>2. ASSUME NEW s \in Sockets, NEW p \in Paths, AddTrustedEntry(s, p)
      PROVE  PromiseInv'
  <2>1. \A q \in Paths \ {p} : mode'[q] = mode[q] /\ entries'[q] = entries[q]
    BY <1>2, IInvParts
       DEF AddTrustedEntry, ConfirmTrust, ModeInv, Stores, RegistryInv, RegistryTypeOK
  <2> QED
    BY <1>2, <2>1, BeginWriteKeeps DEF AddTrustedEntry, Trusted
<1>3. ASSUME NEW s \in Sockets, NEW p \in Paths, NEW m \in Modes, SetMode(s, p, m)
      PROVE  PromiseInv'
  <2>1. \A q \in Paths \ {p} : mode'[q] = mode[q]
    BY <1>3, IInvParts DEF SetMode, ModeInv, Stores
  <2>2. entries' = entries
    BY <1>3 DEF SetMode, registryVars
  <2> QED
    BY <1>3, <2>1, <2>2, BeginWriteKeeps DEF SetMode, Trusted
<1>4. ASSUME NEW s \in Sockets, NEW p \in Paths,
             WriteStep(s, p) \/ Written(s, p) \/ NotWritten(s, p)
      PROVE  PromiseInv'
  BY <1>4, WriteGoesOnKeeps, WriteEndKeeps
<1>5. ASSUME NEW s \in Sockets, WindowStep(s)
      PROVE  PromiseInv'
  <2>1. UNCHANGED storeVars
    BY <1>5 DEF WindowStep
  <2>2. entries' = entries
    BY <1>5 DEF WindowStep, Connect, Hello, Close, Register, Deregister
  <2> QED
    BY <1>1, <2>1, <2>2
<1>6. CASE Restart
  BY <1>6, PromisesSurviveRestart
<1>7. CASE UNCHANGED vars
  BY <1>1, <1>7 DEF vars, registryVars
<1> QED
  BY <1>2, <1>3, <1>4, <1>5, <1>6, <1>7 DEF Next

LEMMA PromiseInit == Init => PromiseInv
<1> SUFFICES ASSUME Init PROVE PromiseInv
  OBVIOUS
<1>1. IInv
  BY InitKeeps
<1>2. disk = [state |-> "whole", data |-> mode] /\ promised = mode
      /\ \A o \in Operations : write[o] = NoWrite
  BY DEF Init, FileInit, Operations
<1>3. AloneInv
  BY <1>2 DEF AloneInv, NoWrite
<1> QED
  BY <1>1, <1>2, <1>3 DEF PromiseInv, DiskKnows, PromiseIsKept, IInv, HolderIsTrusted

(* What a window was told about its folder stays true while the daemon     *)
(* lives and after it has died, whatever is written about other folders,   *)
(* unless the last write failed or met another one.                        *)
THEOREM PromiseIsKeptHolds == Spec => []PromiseIsKept
<1>1. IInv /\ PromiseInv /\ [Next]_vars => (IInv /\ PromiseInv)'
  BY NextKeeps, PromiseStep
<1>2. Init => IInv /\ PromiseInv
  BY InitKeeps, PromiseInit
<1>3. PromiseInv => PromiseIsKept
  BY DEF PromiseInv
<1> QED
  BY <1>1, <1>2, <1>3, PTL DEF Spec

-----------------------------------------------------------------------------
(* The window's side.                                                      *)

(* The daemon is not busy with a request of s that awaits a write. *)
Idle(s) == s \notin serving /\ \A p \in Paths : <<s, p>> \notin confirming

NoRequest(s) == toDaemon[s] = <<>> /\ toWindow[s] = <<>> /\ Idle(s)

(* Connected: hello is on its way, or its answer is, or one is lost. *)
Greeting(s) ==
  /\ Idle(s)
  /\ \/ toDaemon[s] = <<"hello">> /\ toWindow[s] = <<>>
     \/ toDaemon[s] = <<>> /\ toWindow[s] \in {<<>>, <<"hello_ok">>}

Underway(s, kind) == toDaemon[s] = <<kind>> /\ toWindow[s] = <<>> /\ Idle(s)

(* The daemon writes a file before it answers. *)
InHand(s, kind) ==
  /\ toDaemon[s] = <<>> /\ toWindow[s] = <<>>
  /\ kind = "menu" => \A p \in Paths : <<s, p>> \notin confirming
  /\ kind = "confirm" => s \notin serving
  /\ kind \in {"menu", "confirm"}

Answered(s, kind) ==
  /\ toDaemon[s] = <<>> /\ Idle(s)
  /\ \E m \in AnswersTo(kind) : toWindow[s] = <<m>>

(* What is said between w and the daemon. *)
Conversation(w) ==
  win[w].sock # None /\ ~win[w].told =>
    LET s == win[w].sock
        kind == win[w].slot
    IN  CASE win[w].link = "connecting" -> Greeting(s) /\ kind = "none"
          [] win[w].link # "connecting" /\ kind = "none" -> NoRequest(s)
          [] OTHER -> NoRequest(s) \/ Underway(s, kind) \/ InHand(s, kind) \/ Answered(s, kind)

Conversations == \A w \in Windows : Conversation(w)

(* Every connection is the one of one window, and a request needs one. *)
OneOwner ==
  /\ \A w, v \in Windows : win[w].sock = win[v].sock /\ win[w].sock # None => w = v
  /\ \A w \in Windows : win[w].sock # None <=> win[w].link \in {"connecting", "connected"}
  /\ \A w \in Windows : win[w].sock = None => win[w].slot = "none"

(* confirm_trust is only sent after a click on Trust. *)
ConfirmIsGranted ==
  \A s \in Sockets : \A i \in 1..Len(toDaemon[s]) : toDaemon[s][i] = "confirm" => granted

(* The registry of the daemon that runs, if one does, on the one folder. *)
DaemonInv ==
  /\ RegistryInv
  /\ ~up => confirming = {} /\ \A p \in Paths : active[p] = None
  /\ \A c \in confirming : c[2] = Folder

LinkInv ==
  LinkTypeOK /\ DaemonInv /\ OneOwner /\ Conversations /\ ConfirmIsGranted

LEMMA FolderIsPath == Folder \in Paths
BY ExtensionLinkAssumption DEF Folder

-----------------------------------------------------------------------------
(* Channels. *)

LEMMA OneMessage ==
  ASSUME NEW m
  PROVE  /\ <<m>> # <<>> /\ Head(<<m>>) = m /\ Tail(<<m>>) = <<>> /\ Append(<<>>, m) = <<m>>
         /\ \A i \in 1..Len(<<m>>) : <<m>>[i] = m
         /\ \A n : <<m>> = <<n>> => m = n
OBVIOUS

LEMMA TailOf ==
  ASSUME NEW S, NEW q \in Seq(S), q # <<>>
  PROVE  /\ Tail(q) \in Seq(S) /\ Head(q) \in S
         /\ 1 \in 1..Len(q) /\ Head(q) = q[1]
         /\ \A i \in 1..Len(Tail(q)) : i + 1 \in 1..Len(q) /\ Tail(q)[i] = q[i + 1]
OBVIOUS

LEMMA AppendTo ==
  ASSUME NEW S, NEW q \in Seq(S), NEW m \in S
  PROVE  /\ Append(q, m) \in Seq(S)
         /\ \A i \in 1..Len(Append(q, m)) :
              Append(q, m)[i] = m \/ (i \in 1..Len(q) /\ Append(q, m)[i] = q[i])
OBVIOUS

(* A line the window sends. *)
LEMMA SentLine ==
  ASSUME LinkTypeOK, NEW s \in Sockets, NEW kind \in Requests
  PROVE  /\ Sent(s, kind) \in [Sockets -> Seq(Requests)]
         /\ \A t \in Sockets \ {s} : Sent(s, kind)[t] = toDaemon[t]
         /\ Sent(s, kind)[s] \in {toDaemon[s], Append(toDaemon[s], kind)}
         /\ \A t \in Sockets : \A i \in 1..Len(Sent(s, kind)[t]) :
              \/ Sent(s, kind)[t][i] = kind
              \/ i \in 1..Len(toDaemon[t]) /\ Sent(s, kind)[t][i] = toDaemon[t][i]
<1>1. toDaemon \in [Sockets -> Seq(Requests)] /\ toDaemon[s] \in Seq(Requests)
  BY DEF LinkTypeOK
<1>2. CASE conn[s] = "closed"
  BY <1>1, <1>2 DEF Sent
<1>3. CASE conn[s] # "closed"
  <2>1. Sent(s, kind) = [toDaemon EXCEPT ![s] = Append(toDaemon[s], kind)]
    BY <1>3 DEF Sent
  <2>2. Append(toDaemon[s], kind) \in Seq(Requests)
    BY <1>1
  <2>3. Sent(s, kind) \in [Sockets -> Seq(Requests)]
    BY <1>1, <2>1, <2>2
  <2>4. \A t \in Sockets :
          Sent(s, kind)[t] = IF t = s THEN Append(toDaemon[s], kind) ELSE toDaemon[t]
    BY <1>1, <2>1
  <2>5. \A i \in 1..Len(Append(toDaemon[s], kind)) :
          \/ Append(toDaemon[s], kind)[i] = kind
          \/ i \in 1..Len(toDaemon[s]) /\ Append(toDaemon[s], kind)[i] = toDaemon[s][i]
    BY <1>1, AppendTo
  <2> QED
    BY <2>3, <2>4, <2>5
<1> QED
  BY <1>2, <1>3

(* A line the daemon takes. *)
LEMMA TakenLine ==
  ASSUME LinkTypeOK, NEW s \in Sockets, NEW kind, Takes(s, kind)
  PROVE  /\ toDaemon' \in [Sockets -> Seq(Requests)]
         /\ \A t \in Sockets \ {s} : toDaemon'[t] = toDaemon[t]
         /\ toDaemon[s] # <<>> /\ Head(toDaemon[s]) = kind /\ toDaemon'[s] = Tail(toDaemon[s])
         /\ kind \in Requests
<1>1. toDaemon \in [Sockets -> Seq(Requests)] /\ toDaemon[s] \in Seq(Requests)
  BY DEF LinkTypeOK
<1>2. /\ toDaemon[s] # <<>> /\ Head(toDaemon[s]) = kind
      /\ toDaemon' = [toDaemon EXCEPT ![s] = Tail(toDaemon[s])]
  BY DEF Takes
<1>3. Tail(toDaemon[s]) \in Seq(Requests) /\ kind \in Requests
  BY <1>1, <1>2, TailOf
<1> QED
  BY <1>1, <1>2, <1>3

(* A line the daemon writes. *)
LEMMA WrittenLine ==
  ASSUME LinkTypeOK, NEW s \in Sockets, NEW m \in Replies, Reply(s, m)
  PROVE  /\ toWindow' \in [Sockets -> Seq(Replies)]
         /\ \A t \in Sockets \ {s} : toWindow'[t] = toWindow[t]
         /\ Owned(s) => toWindow'[s] = Append(toWindow[s], m)
<1>1. toWindow \in [Sockets -> Seq(Replies)] /\ toWindow[s] \in Seq(Replies)
  BY DEF LinkTypeOK
<1>2. Append(toWindow[s], m) \in Seq(Replies)
  BY <1>1
<1>3. CASE Owned(s)
  <2>1. toWindow' = [toWindow EXCEPT ![s] = Append(toWindow[s], m)]
    BY <1>3 DEF Reply
  <2> QED
    BY <1>1, <1>2, <2>1
<1>4. CASE ~Owned(s)
  BY <1>1, <1>4 DEF Reply
<1> QED
  BY <1>3, <1>4

(* A line the window reads. *)
LEMMA ReadLine ==
  ASSUME LinkTypeOK, NEW w \in Windows, NEW m, Reads(w, m)
  PROVE  LET s == win[w].sock IN
         /\ s \in Sockets
         /\ toWindow' \in [Sockets -> Seq(Replies)]
         /\ \A t \in Sockets \ {s} : toWindow'[t] = toWindow[t]
         /\ toWindow[s] # <<>> /\ Head(toWindow[s]) = m /\ toWindow'[s] = Tail(toWindow[s])
<1> DEFINE s == win[w].sock
<1>1. s \in Sockets
  BY DEF LinkTypeOK, WindowRecord, Reads
<1>2. toWindow \in [Sockets -> Seq(Replies)] /\ toWindow[s] \in Seq(Replies)
  BY <1>1 DEF LinkTypeOK
<1>3. /\ toWindow[s] # <<>> /\ Head(toWindow[s]) = m
      /\ toWindow' = [toWindow EXCEPT ![s] = Tail(toWindow[s])]
  BY DEF Reads
<1>4. Tail(toWindow[s]) \in Seq(Replies)
  BY <1>2, <1>3, TailOf
<1> QED
  BY <1>1, <1>2, <1>3, <1>4

-----------------------------------------------------------------------------
(* The parts of a step.                                                    *)

(* Nothing happens on s. *)
SameLine(s) ==
  /\ toDaemon'[s] = toDaemon[s] /\ toWindow'[s] = toWindow[s]
  /\ s \in serving' <=> s \in serving
  /\ \A p \in Paths : <<s, p>> \in confirming' <=> <<s, p>> \in confirming

LEMMA ConversationStays ==
  ASSUME NEW w \in Windows, Conversation(w), win'[w] = win[w],
         win[w].sock # None => SameLine(win[w].sock)
  PROVE  Conversation(w)'
<1> DEFINE s == win[w].sock
<1>1. CASE s = None
  BY <1>1 DEF Conversation
<1>2. CASE s # None
  <2>1. Idle(s)' <=> Idle(s)
    BY <1>2 DEF SameLine, Idle
  <2>2. /\ NoRequest(s)' <=> NoRequest(s)
        /\ Greeting(s)' <=> Greeting(s)
    BY <1>2, <2>1 DEF SameLine, NoRequest, Greeting
  <2>3. ASSUME NEW kind
        PROVE  /\ Underway(s, kind)' <=> Underway(s, kind)
               /\ InHand(s, kind)' <=> InHand(s, kind)
               /\ Answered(s, kind)' <=> Answered(s, kind)
    BY <1>2, <2>1 DEF SameLine, Underway, InHand, Answered
  <2> QED
    BY <2>2, <2>3 DEF Conversation
<1> QED
  BY <1>1, <1>2

(* A step of window w, which has become rec. *)
LEMMA WindowMoves ==
  ASSUME LinkInv, NEW w \in Windows, NEW rec \in WindowRecord,
         win' = [win EXCEPT ![w] = rec], UNCHANGED daemonVars,
         rec.sock \in {win[w].sock, None},
         rec.sock # None <=> rec.link \in {"connecting", "connected"},
         rec.sock = None => rec.slot = "none",
         toDaemon' \in [Sockets -> Seq(Requests)],
         toWindow' \in [Sockets -> Seq(Replies)],
         \A s \in Sockets \ {win[w].sock} : toDaemon'[s] = toDaemon[s] /\ toWindow'[s] = toWindow[s],
         Conversation(w)',
         granted' \in BOOLEAN, ConfirmIsGranted'
  PROVE  LinkInv'
<1>1. /\ win \in [Windows -> WindowRecord]
      /\ \A v \in Windows : win'[v] = IF v = w THEN rec ELSE win[v]
  BY DEF LinkInv, LinkTypeOK
<1>2. UNCHANGED <<conn, entries, active, confirming, up, saved, serving>>
  BY DEF daemonVars, registryVars
<1>3. LinkTypeOK'
  <2>1. win' \in [Windows -> WindowRecord]
    BY <1>1
  <2> QED
    BY <1>2, <2>1 DEF LinkInv, LinkTypeOK, RegistryTypeOK
<1>4. DaemonInv'
  BY <1>2 DEF LinkInv, DaemonInv, RegistryInv, RegistryTypeOK, OneEntryPerPath, Trusted
<1>5. OneOwner'
  <2>1. \A v, u \in Windows : win'[v].sock = win'[u].sock /\ win'[v].sock # None => v = u
    BY <1>1 DEF LinkInv, OneOwner
  <2>2. \A v \in Windows : win'[v].sock # None <=> win'[v].link \in {"connecting", "connected"}
    BY <1>1 DEF LinkInv, OneOwner
  <2>3. \A v \in Windows : win'[v].sock = None => win'[v].slot = "none"
    BY <1>1 DEF LinkInv, OneOwner
  <2> QED
    BY <2>1, <2>2, <2>3 DEF OneOwner
<1>6. Conversations'
  <2> SUFFICES ASSUME NEW v \in Windows \ {w}
               PROVE  Conversation(v)'
    BY DEF Conversations
  <2>1. win[v].sock # None => win[v].sock \in Sockets \ {win[w].sock}
    BY <1>1 DEF LinkInv, OneOwner, WindowRecord
  <2>2. win[v].sock # None => SameLine(win[v].sock)
    BY <1>2, <2>1 DEF SameLine
  <2>3. win'[v] = win[v] /\ Conversation(v)
    BY <1>1 DEF LinkInv, Conversations
  <2> QED
    BY <2>2, <2>3, ConversationStays
<1> QED
  BY <1>3, <1>4, <1>5, <1>6 DEF LinkInv

(* A step of the daemon on connection s. *)
LEMMA DaemonMoves ==
  ASSUME LinkInv, NEW s \in Sockets, UNCHANGED <<up, win, granted>>,
         DaemonInv', saved' \in BOOLEAN, serving' \subseteq Sockets,
         toDaemon' \in [Sockets -> Seq(Requests)],
         toWindow' \in [Sockets -> Seq(Replies)],
         \A t \in Sockets \ {s} : SameLine(t),
         \/ toDaemon'[s] = toDaemon[s]
         \/ toDaemon[s] # <<>> /\ toDaemon'[s] = Tail(toDaemon[s]),
         \A w \in Windows : win[w].sock = s => Conversation(w)'
  PROVE  LinkInv'
<1>1. LinkTypeOK'
  BY DEF LinkInv, LinkTypeOK, DaemonInv, RegistryInv
<1>2. OneOwner'
  BY DEF LinkInv, OneOwner
<1>3. Conversations'
  <2> SUFFICES ASSUME NEW w \in Windows, win[w].sock # s
               PROVE  Conversation(w)'
    BY DEF Conversations
  <2>1. win[w].sock # None => win[w].sock \in Sockets \ {s}
    BY DEF LinkInv, LinkTypeOK, WindowRecord
  <2>2. win'[w] = win[w] /\ Conversation(w)
    BY DEF LinkInv, Conversations
  <2> QED
    BY <2>1, <2>2, ConversationStays
<1>4. ConfirmIsGranted'
  <2> SUFFICES ASSUME NEW t \in Sockets, NEW i \in 1..Len(toDaemon'[t]), toDaemon'[t][i] = "confirm"
               PROVE  granted
    BY DEF ConfirmIsGranted
  <2>1. CASE toDaemon'[t] = toDaemon[t]
    BY <2>1 DEF LinkInv, ConfirmIsGranted
  <2>2. CASE t = s /\ toDaemon[s] # <<>> /\ toDaemon'[s] = Tail(toDaemon[s])
    <3>1. toDaemon[s] \in Seq(Requests)
      BY DEF LinkInv, LinkTypeOK
    <3>2. i + 1 \in 1..Len(toDaemon[s]) /\ toDaemon[s][i + 1] = "confirm"
      BY <2>2, <3>1, TailOf
    <3> QED
      BY <3>2 DEF LinkInv, ConfirmIsGranted
  <2> QED
    BY <2>1, <2>2 DEF SameLine
<1> QED
  BY <1>1, <1>2, <1>3, <1>4 DEF LinkInv

(* Nothing more is sent to the daemon than was. *)
LEMMA NothingSent ==
  ASSUME LinkInv, toDaemon' = toDaemon, granted => granted'
  PROVE  ConfirmIsGranted'
BY DEF LinkInv, ConfirmIsGranted

-----------------------------------------------------------------------------
(* The steps of a window.                                                  *)

(* What is known of a window. *)
LEMMA WindowFacts ==
  ASSUME LinkInv, NEW w \in Windows
  PROVE  /\ win \in [Windows -> WindowRecord] /\ win[w] \in WindowRecord
         /\ win[w].sock \in Sockets \cup {None}
         /\ win[w].sock # None <=> win[w].link \in {"connecting", "connected"}
         /\ win[w].sock = None => win[w].slot = "none"
         /\ Conversation(w)
         /\ toDaemon \in [Sockets -> Seq(Requests)]
         /\ toWindow \in [Sockets -> Seq(Replies)]
         /\ granted \in BOOLEAN
<1>1. LinkTypeOK
  BY DEF LinkInv
<1>2. win[w] \in WindowRecord
  BY <1>1 DEF LinkTypeOK
<1> QED
  BY <1>1, <1>2 DEF LinkTypeOK, WindowRecord, LinkInv, OneOwner, Conversations

LEMMA ActivateStep ==
  ASSUME LinkInv, NEW w \in Windows, Activate(w) \/ DialRefused(w)
  PROVE  LinkInv'
<1>1. win[w] \in WindowRecord /\ win \in [Windows -> WindowRecord]
  BY WindowFacts
<1>2. win[w].sock = None /\ win[w].slot = "none" /\ win[w].link \in {"closed", "unpaired"}
  BY WindowFacts DEF Activate, DialRefused, Open
<1>3. PICK r \in WindowRecord :
        /\ win' = [win EXCEPT ![w] = r] /\ r.sock = None /\ r.slot = "none"
        /\ r.link \notin {"connecting", "connected"}
  <2>1. CASE Activate(w)
    <3> DEFINE r == [win[w] EXCEPT !.link = "unpaired", !.reg = "registering"]
    <3>1. win' = [win EXCEPT ![w] = r]
      BY <2>1 DEF Activate
    <3>2. r \in WindowRecord /\ r.sock = None /\ r.slot = "none" /\ r.link = "unpaired"
      BY <1>1, <1>2 DEF WindowRecord, RegistrationStates
    <3> HIDE DEF r
    <3> QED
      BY <3>1, <3>2
  <2>2. CASE DialRefused(w)
    <3> DEFINE r == [win[w] EXCEPT !.link = "disconnected"]
    <3>1. win' = [win EXCEPT ![w] = r]
      BY <2>2 DEF DialRefused
    <3>2. r \in WindowRecord /\ r.sock = None /\ r.slot = "none" /\ r.link = "disconnected"
      BY <1>1, <1>2 DEF WindowRecord
    <3> HIDE DEF r
    <3> QED
      BY <3>1, <3>2
  <2> QED
    BY <2>1, <2>2
<1>4. UNCHANGED <<toDaemon, toWindow, granted>> /\ UNCHANGED daemonVars
  BY DEF Activate, DialRefused
<1>5. win'[w] = r
  BY <1>1, <1>3
<1>6. Conversation(w)'
  BY <1>3, <1>5 DEF Conversation
<1> QED
  BY <1>2, <1>3, <1>4, <1>6, NothingSent, WindowMoves, WindowFacts

(* A new connection is one that nobody has, and nothing is under way on it. *)
LEMMA DialStep ==
  ASSUME LinkInv, NEW w \in Windows, NEW s \in Sockets, Dial(w, s)
  PROVE  LinkInv'
<1> DEFINE rec == [win[w] EXCEPT !.link = "connecting", !.sock = s, !.told = FALSE]
<1>1. win[w] \in WindowRecord /\ win \in [Windows -> WindowRecord]
  BY WindowFacts
<1>2. rec \in WindowRecord /\ rec.sock = s /\ rec.link = "connecting" /\ rec.slot = win[w].slot
  BY <1>1 DEF WindowRecord
<1>3. win' = [win EXCEPT ![w] = rec]
  BY DEF Dial
<1> HIDE DEF rec
<1>4. \A v \in Windows : win'[v] = IF v = w THEN rec ELSE win[v]
  BY <1>1, <1>3
<1>5. /\ Free(s) /\ Connect(s) /\ up
      /\ toDaemon' = [toDaemon EXCEPT ![s] = <<"hello">>]
      /\ UNCHANGED <<up, saved, serving, toWindow, granted>>
  BY DEF Dial
<1>6. /\ toDaemon \in [Sockets -> Seq(Requests)] /\ <<"hello">> \in Seq(Requests)
      /\ \A t \in Sockets : toDaemon'[t] = IF t = s THEN <<"hello">> ELSE toDaemon[t]
  BY <1>5, WindowFacts DEF Requests
<1>7. DaemonInv'
  <2>1. RegistryInv'
    BY <1>5, RegistryKept DEF LinkInv, DaemonInv
  <2> QED
    BY <1>5, <2>1 DEF Connect, LinkInv, DaemonInv
<1>8. LinkTypeOK'
  <2>1. win' \in [Windows -> WindowRecord]
    BY <1>1, <1>2, <1>3
  <2>2. toDaemon' \in [Sockets -> Seq(Requests)]
    BY <1>5, <1>6
  <2> QED
    BY <1>5, <1>7, <2>1, <2>2 DEF LinkInv, LinkTypeOK, DaemonInv, RegistryInv
<1>9. OneOwner'
  <2>1. \A v \in Windows : win[v].sock # s
    BY <1>5 DEF Free, Owned
  <2>2. s # None
    BY IpcRegistryAssumption
  <2> QED
    BY <1>2, <1>4, <2>1, <2>2 DEF LinkInv, OneOwner
<1>10. win[w].slot = "none"
  BY WindowFacts DEF Dial
<1>11. Conversations'
  <2> SUFFICES ASSUME NEW v \in Windows
               PROVE  Conversation(v)'
    BY DEF Conversations
  <2>1. CASE v = w
    <3>1. Greeting(s)'
      BY <1>5, <1>6 DEF Greeting, Idle, Connect, Free
    <3> QED
      BY <1>2, <1>4, <1>10, <2>1, <3>1 DEF Conversation
  <2>2. CASE v # w
    <3>1. win'[v] = win[v] /\ win[v].sock # s
      BY <1>4, <1>5, <2>2 DEF Free, Owned
    <3>2. win[v].sock # None => win[v].sock \in Sockets
      BY WindowFacts
    <3>3. win[v].sock # None => SameLine(win[v].sock)
      BY <1>5, <1>6, <3>1, <3>2 DEF SameLine, Connect
    <3> QED
      BY <3>1, <3>3, ConversationStays DEF LinkInv, Conversations
  <2> QED
    BY <2>1, <2>2
<1>12. ConfirmIsGranted'
  <2> SUFFICES ASSUME NEW t \in Sockets, NEW i \in 1..Len(toDaemon'[t]), toDaemon'[t][i] = "confirm"
               PROVE  granted
    BY <1>5 DEF ConfirmIsGranted
  <2>1. t # s
    BY <1>6, OneMessage
  <2> QED
    BY <1>6, <2>1 DEF LinkInv, ConfirmIsGranted
<1> QED
  BY <1>7, <1>8, <1>9, <1>11, <1>12 DEF LinkInv

LEMMA DisconnectedRecord ==
  ASSUME NEW r \in WindowRecord
  PROVE  /\ Disconnected(r) \in WindowRecord
         /\ Disconnected(r).sock = None /\ Disconnected(r).slot = "none"
         /\ Disconnected(r).link = "disconnected"
BY DEF Disconnected, Rearmed, WindowRecord, RegistrationStates

(* The connection is gone; a window that was not told asks again. *)
LEMMA SocketClosesStep ==
  ASSUME LinkInv, NEW w \in Windows, SocketCloses(w)
  PROVE  LinkInv'
<1> DEFINE rec == Disconnected(win[w])
<1>1. rec \in WindowRecord /\ rec.sock = None /\ rec.slot = "none" /\ rec.link = "disconnected"
  BY WindowFacts, DisconnectedRecord
<1>2. win' = [win EXCEPT ![w] = rec] /\ UNCHANGED daemonVars
      /\ UNCHANGED <<toDaemon, toWindow, granted>>
  BY DEF SocketCloses
<1> HIDE DEF rec
<1>3. win'[w] = rec
  BY <1>2, WindowFacts
<1>4. Conversation(w)'
  BY <1>1, <1>3 DEF Conversation
<1> QED
  BY <1>1, <1>2, <1>4, NothingSent, WindowMoves, WindowFacts

(* While w is connected, and has not sent a stop, the line it reads is the *)
(* only one.                                                               *)
LEMMA ReadIsAnswer ==
  ASSUME LinkInv, NEW w \in Windows, NEW m, Reads(w, m), ~win[w].told
  PROVE  LET s == win[w].sock IN
         /\ toDaemon[s] = <<>> /\ toWindow[s] = <<m>> /\ toWindow'[s] = <<>> /\ Idle(s)
         /\ win[w].link = "connecting" => m = "hello_ok" /\ win[w].slot = "none"
         /\ win[w].link = "connected" => m \in AnswersTo(win[w].slot)
<1> DEFINE s == win[w].sock
<1>1. s \in Sockets /\ s # None /\ toWindow[s] # <<>>
      /\ Head(toWindow[s]) = m /\ toWindow'[s] = Tail(toWindow[s])
  BY ReadLine DEF LinkInv, Reads
<1>2. Conversation(w) /\ win[w].link \in {"connecting", "connected"}
  BY <1>1, WindowFacts
<1>3. CASE win[w].link = "connecting"
  <2>1. Greeting(s) /\ win[w].slot = "none"
    BY <1>1, <1>2, <1>3 DEF Conversation
  <2>2. toDaemon[s] = <<>> /\ toWindow[s] = <<"hello_ok">> /\ Idle(s)
    BY <1>1, <2>1 DEF Greeting
  <2> QED
    BY <1>1, <1>3, <2>1, <2>2, OneMessage
<1>4. CASE win[w].link = "connected"
  <2>1. ~NoRequest(s) /\ ~Underway(s, win[w].slot) /\ ~InHand(s, win[w].slot)
    BY <1>1 DEF NoRequest, Underway, InHand
  <2>2. Answered(s, win[w].slot)
    BY <1>1, <1>2, <1>4, <2>1 DEF Conversation
  <2>3. PICK n \in AnswersTo(win[w].slot) : toWindow[s] = <<n>>
    BY <2>2 DEF Answered
  <2> QED
    BY <1>1, <1>4, <2>2, <2>3, OneMessage DEF Answered
<1> QED
  BY <1>2, <1>3, <1>4

(* A request that is written on an idle connection is under way, or lost. *)
LEMMA RequestIsUnderway ==
  ASSUME LinkInv, NEW w \in Windows, NEW s \in Sockets, s = win[w].sock,
         NEW kind \in {"register", "confirm", "menu"},
         toDaemon[s] = <<>>, toDaemon' = Sent(s, kind), toWindow'[s] = <<>>, Idle(s)',
         win'[w].sock = s, win'[w].slot = kind, win'[w].link = "connected"
  PROVE  Conversation(w)'
<1>1. kind \in Requests /\ kind # "none"
  BY DEF Requests
<1>2. toDaemon'[s] \in {<<>>, <<kind>>}
  <2>1. Sent(s, kind)[s] \in {toDaemon[s], Append(toDaemon[s], kind)}
    BY <1>1, SentLine DEF LinkInv
  <2>2. Append(<<>>, kind) = <<kind>>
    BY OneMessage
  <2> QED
    BY <2>1, <2>2
<1>3. NoRequest(s)' \/ Underway(s, kind)'
  BY <1>2 DEF NoRequest, Underway
<1> QED
  BY <1>1, <1>3 DEF Conversation

LEMMA SentIsGranted ==
  ASSUME LinkInv, NEW s \in Sockets, NEW kind \in Requests, toDaemon' = Sent(s, kind),
         granted => granted', kind = "confirm" => granted'
  PROVE  ConfirmIsGranted'
<1>1. LinkTypeOK /\ ConfirmIsGranted
  BY DEF LinkInv
<1>2. \A t \in Sockets : \A i \in 1..Len(toDaemon'[t]) :
        \/ toDaemon'[t][i] = kind
        \/ i \in 1..Len(toDaemon[t]) /\ toDaemon'[t][i] = toDaemon[t][i]
  BY <1>1, SentLine, Zenon
<1> QED
  BY <1>1, <1>2 DEF ConfirmIsGranted

(* A connected window takes the slot for a request. *)
LEMMA RequestStep ==
  ASSUME LinkInv, NEW w \in Windows, NEW rec \in WindowRecord,
         NEW kind \in {"register", "confirm", "menu"}, Request(w, kind, rec),
         rec.sock = win[w].sock, rec.sock # None, rec.link = "connected",
         UNCHANGED daemonVars,
         toWindow' \in [Sockets -> Seq(Replies)],
         \A s \in Sockets \ {win[w].sock} : toWindow'[s] = toWindow[s],
         granted' \in BOOLEAN, granted => granted', kind = "confirm" => granted',
         rec.told = win[w].told,
         ~rec.told => LET s == win[w].sock IN
                      toDaemon[s] = <<>> /\ toWindow'[s] = <<>> /\ Idle(s)
  PROVE  LinkInv'
<1> DEFINE s == win[w].sock
           new == [rec EXCEPT !.slot = kind]
<1>1. s \in Sockets /\ kind \in Requests
  BY WindowFacts DEF Requests
<1>2. /\ new \in WindowRecord /\ new.sock = s /\ new.slot = kind
      /\ new.link = "connected" /\ new.told = rec.told
  BY DEF WindowRecord
<1>3. win' = [win EXCEPT ![w] = new] /\ toDaemon' = Sent(s, kind)
  BY DEF Request
<1> HIDE DEF new
<1>4. win'[w] = new
  BY <1>3, WindowFacts
<1>5. /\ toDaemon' \in [Sockets -> Seq(Requests)]
      /\ \A t \in Sockets \ {s} : toDaemon'[t] = toDaemon[t]
  BY <1>1, <1>3, SentLine DEF LinkInv
<1>6. Conversation(w)'
  <2>1. CASE rec.told
    BY <1>2, <1>4, <2>1 DEF Conversation
  <2>2. CASE ~rec.told
    <3>1. toDaemon[s] = <<>> /\ toWindow'[s] = <<>> /\ Idle(s)'
      BY <1>2, <1>4, <2>2 DEF Idle, daemonVars, registryVars
    <3> QED
      BY <1>1, <1>2, <1>3, <1>4, <3>1, RequestIsUnderway
  <2> QED
    BY <2>1, <2>2
<1>7. ConfirmIsGranted'
  BY <1>1, <1>3, SentIsGranted
<1> QED
  BY <1>1, <1>2, <1>3, <1>5, <1>6, <1>7, WindowMoves

LEMMA HelloOkStep ==
  ASSUME LinkInv, NEW w \in Windows, HelloOk(w)
  PROVE  LinkInv'
<1> DEFINE s == win[w].sock
           rec == [win[w] EXCEPT !.link = "connected"]
<1>1. /\ Reads(w, "hello_ok") /\ win[w].link = "connecting"
      /\ UNCHANGED daemonVars /\ granted' = granted
  BY DEF HelloOk
<1>2. /\ s \in Sockets /\ s # None
      /\ toWindow' \in [Sockets -> Seq(Replies)]
      /\ \A t \in Sockets \ {s} : toWindow'[t] = toWindow[t]
  BY <1>1, ReadLine DEF LinkInv, Reads
<1>3. /\ rec \in WindowRecord /\ rec.sock = s /\ rec.link = "connected"
      /\ rec.told = win[w].told /\ rec.slot = win[w].slot
  BY WindowFacts DEF WindowRecord
<1>4. ~rec.told => toDaemon[s] = <<>> /\ toWindow'[s] = <<>> /\ Idle(s) /\ rec.slot = "none"
  BY <1>1, <1>3, ReadIsAnswer
<1>5. CASE Asks(rec)
  <2> DEFINE new == [rec EXCEPT !.flight = "asking"]
  <2>1. Request(w, "register", new)
    BY <1>5 DEF HelloOk
  <2>2. /\ new \in WindowRecord /\ new.sock = s /\ new.link = "connected"
        /\ new.told = rec.told
    BY <1>3 DEF WindowRecord
  <2> HIDE DEF new, rec
  <2> QED
    BY <1>1, <1>2, <1>3, <1>4, <2>1, <2>2, RequestStep, WindowFacts
<1>6. CASE ~Asks(rec)
  <2>1. win' = [win EXCEPT ![w] = rec] /\ toDaemon' = toDaemon
    BY <1>6 DEF HelloOk
  <2> HIDE DEF rec
  <2>2. win'[w] = rec
    BY <2>1, WindowFacts
  <2>3. ~rec.told => NoRequest(s)'
    BY <1>1, <1>3, <1>4, <2>1, <2>2 DEF NoRequest, Idle, daemonVars, registryVars
  <2>4. Conversation(w)'
    BY <1>3, <1>4, <2>2, <2>3 DEF Conversation
  <2> QED
    BY <1>1, <1>2, <1>3, <2>1, <2>4, NothingSent, WindowMoves, WindowFacts
<1> QED
  BY <1>5, <1>6

LEMMA OutcomeRecord ==
  ASSUME NEW r \in WindowRecord, NEW m
  PROVE  /\ Outcome(r, m) \in WindowRecord
         /\ Outcome(r, m).sock = r.sock /\ Outcome(r, m).link = r.link
         /\ Outcome(r, m).slot = r.slot /\ Outcome(r, m).told = r.told
BY DEF Outcome, WindowRecord, RegistrationStates

LEMMA ResponseStep ==
  ASSUME LinkInv, NEW w \in Windows, NEW m \in Replies, Response(w, m)
  PROVE  LinkInv'
<1> DEFINE s == win[w].sock
           free == [win[w] EXCEPT !.slot = "none"]
           rec == IF win[w].slot \in {"register", "confirm"} THEN Outcome(free, m) ELSE free
<1>1. /\ Reads(w, m) /\ win[w].link = "connected"
      /\ UNCHANGED daemonVars /\ UNCHANGED <<toDaemon, granted>>
      /\ win' = [win EXCEPT ![w] = rec]
  BY DEF Response
<1>2. /\ s \in Sockets /\ s # None
      /\ toWindow' \in [Sockets -> Seq(Replies)]
      /\ \A t \in Sockets \ {s} : toWindow'[t] = toWindow[t]
  BY <1>1, ReadLine DEF LinkInv, Reads
<1>3. /\ rec \in WindowRecord /\ rec.sock = s /\ rec.link = "connected"
      /\ rec.told = win[w].told /\ rec.slot = "none"
  <2>1. /\ free \in WindowRecord /\ free.sock = s /\ free.link = "connected"
        /\ free.told = win[w].told /\ free.slot = "none"
    BY <1>1, WindowFacts DEF WindowRecord
  <2> HIDE DEF free
  <2> QED
    BY <2>1, OutcomeRecord
<1> HIDE DEF rec
<1>4. win'[w] = rec
  BY <1>1, WindowFacts
<1>5. ~rec.told => NoRequest(s)'
  BY <1>1, <1>3, ReadIsAnswer DEF NoRequest, Idle, daemonVars, registryVars
<1>6. Conversation(w)'
  BY <1>3, <1>4, <1>5 DEF Conversation
<1> QED
  BY <1>1, <1>2, <1>3, <1>6, NothingSent, WindowMoves, WindowFacts

(* Between two requests nothing is under way, unless a stop is. *)
LEMMA BetweenRequests ==
  ASSUME LinkInv, NEW w \in Windows, win[w].link = "connected", win[w].slot = "none"
  PROVE  /\ win[w].sock \in Sockets /\ win[w].sock # None
         /\ ~win[w].told => NoRequest(win[w].sock)
<1>1. win[w].sock \in Sockets /\ win[w].sock # None
  BY WindowFacts
<1> QED
  BY <1>1, WindowFacts DEF Conversation

(* The prompt is answered; nothing is sent. *)
LEMMA PromptEndsStep ==
  ASSUME LinkInv, NEW w \in Windows, NEW reg \in RegistrationStates,
         win' = [win EXCEPT ![w].reg = reg, ![w].flight = "none"],
         UNCHANGED daemonVars, UNCHANGED <<toDaemon, toWindow>>,
         granted' \in BOOLEAN, granted => granted'
  PROVE  LinkInv'
<1> DEFINE rec == [win[w] EXCEPT !.reg = reg, !.flight = "none"]
<1>1. win' = [win EXCEPT ![w] = rec]
  OBVIOUS
<1>2. /\ rec \in WindowRecord /\ rec.sock = win[w].sock /\ rec.link = win[w].link
      /\ rec.slot = win[w].slot /\ rec.told = win[w].told
  BY WindowFacts DEF WindowRecord
<1> HIDE DEF rec
<1>3. win'[w] = rec
  BY <1>1, WindowFacts
<1>4. Conversation(w)'
  BY <1>2, <1>3, WindowFacts
     DEF Conversation, Greeting, NoRequest, Underway, InHand, Answered, Idle, daemonVars, registryVars
<1> QED
  BY <1>1, <1>2, <1>4, NothingSent, WindowMoves, WindowFacts

LEMMA PromptStep ==
  ASSUME LinkInv, NEW w \in Windows, PromptDenied(w) \/ PromptTrusted(w)
  PROVE  LinkInv'
<1>1. CASE PromptDenied(w)
  <2>1. "trust_denied" \in RegistrationStates
    BY DEF RegistrationStates
  <2> QED
    BY <1>1, <2>1, PromptEndsStep, WindowFacts DEF PromptDenied
<1>2. CASE PromptTrusted(w) /\ win[w].link = "connected" /\ win[w].slot = "none"
  <2> DEFINE rec == [win[w] EXCEPT !.flight = "confirming"]
  <2>1. Request(w, "confirm", rec) /\ granted' = TRUE
        /\ UNCHANGED daemonVars /\ UNCHANGED toWindow
    BY <1>2 DEF PromptTrusted
  <2>2. /\ rec \in WindowRecord /\ rec.sock = win[w].sock /\ rec.link = "connected"
        /\ rec.told = win[w].told
    BY <1>2, WindowFacts DEF WindowRecord
  <2>3. /\ win[w].sock # None
        /\ ~win[w].told => NoRequest(win[w].sock)
    BY <1>2, BetweenRequests
  <2> HIDE DEF rec
  <2> QED
    BY <2>1, <2>2, <2>3, RequestStep, WindowFacts DEF NoRequest
<1>3. CASE PromptTrusted(w) /\ ~(win[w].link = "connected" /\ win[w].slot = "none")
  <2>1. "registering" \in RegistrationStates
    BY DEF RegistrationStates
  <2> QED
    BY <1>3, <2>1, PromptEndsStep, WindowFacts DEF PromptTrusted
<1> QED
  BY <1>1, <1>2, <1>3

LEMMA MenuStep ==
  ASSUME LinkInv, NEW w \in Windows, Menu(w)
  PROVE  LinkInv'
<1>1. /\ win[w].link = "connected" /\ win[w].slot = "none"
      /\ Request(w, "menu", win[w])
      /\ UNCHANGED daemonVars /\ UNCHANGED <<toWindow, granted>>
  BY DEF Menu, MenuUsable
<1>2. /\ win[w].sock # None
      /\ ~win[w].told => NoRequest(win[w].sock)
  BY <1>1, BetweenRequests
<1> QED
  BY <1>1, <1>2, RequestStep, WindowFacts DEF NoRequest

(* Of a connection on which stop was sent nothing is claimed. *)
LEMMA StopStep ==
  ASSUME LinkInv, NEW w \in Windows, StopDaemon(w)
  PROVE  LinkInv'
<1> DEFINE s == win[w].sock
           rec == [win[w] EXCEPT !.told = TRUE]
<1>1. /\ win[w].link = "connected" /\ toDaemon' = Sent(s, "stop")
      /\ win' = [win EXCEPT ![w] = rec]
      /\ UNCHANGED daemonVars /\ UNCHANGED <<toWindow, granted>>
  BY DEF StopDaemon, MenuUsable
<1>2. s \in Sockets /\ s # None /\ "stop" \in Requests
  BY <1>1, WindowFacts DEF Requests
<1>3. /\ rec \in WindowRecord /\ rec.sock = s /\ rec.link = "connected" /\ rec.told
  BY <1>1, WindowFacts DEF WindowRecord
<1> HIDE DEF rec
<1>4. Conversation(w)'
  <2>1. win'[w] = rec
    BY <1>1, WindowFacts
  <2> QED
    BY <1>3, <2>1 DEF Conversation
<1>5. /\ toDaemon' \in [Sockets -> Seq(Requests)]
      /\ \A t \in Sockets \ {s} : toDaemon'[t] = toDaemon[t]
  BY <1>1, <1>2, SentLine DEF LinkInv
<1>6. ConfirmIsGranted'
  BY <1>1, <1>2, SentIsGranted
<1> QED
  BY <1>1, <1>2, <1>3, <1>4, <1>5, <1>6, WindowMoves, WindowFacts

(* What a closing window has sent is a beginning of what it wrote. *)
LEMMA WindowClosesStep ==
  ASSUME LinkInv, NEW w \in Windows, WindowCloses(w)
  PROVE  LinkInv'
<1> DEFINE s == win[w].sock
<1>1. /\ win' = [win EXCEPT ![w] = ClosedWindow]
      /\ UNCHANGED daemonVars /\ granted' = granted
  BY DEF WindowCloses
<1>2. /\ ClosedWindow \in WindowRecord /\ ClosedWindow.sock = None
      /\ ClosedWindow.link = "closed" /\ ClosedWindow.slot = "none"
  BY DEF ClosedWindow, WindowRecord, RegistrationStates
<1>3. Conversation(w)'
  <2>1. win'[w] = ClosedWindow
    BY <1>1, WindowFacts
  <2> QED
    BY <1>2, <2>1 DEF Conversation
<1>4. CASE s = None
  <2>1. UNCHANGED <<toDaemon, toWindow>>
    BY <1>4 DEF WindowCloses
  <2> QED
    BY <1>1, <1>2, <1>3, <2>1, NothingSent, WindowMoves, WindowFacts
<1>5. CASE s # None
  <2>1. s \in Sockets
    BY <1>5, WindowFacts
  <2>2. PICK n \in 0..Len(toDaemon[s] \o Farewell(w)) :
          toDaemon' = [toDaemon EXCEPT ![s] = SubSeq(toDaemon[s] \o Farewell(w), 1, n)]
    BY <1>5 DEF WindowCloses
  <2> DEFINE q == toDaemon[s]
             bye == Farewell(w)
             sent == SubSeq(q \o bye, 1, n)
  <2>3. /\ q \in Seq(Requests)
        /\ bye \in Seq(Requests) /\ \A i \in 1..Len(bye) : bye[i] = "deregister"
    <3>1. q \in Seq(Requests)
      BY <2>1, WindowFacts
    <3>2. CASE bye = <<>>
      BY <3>1, <3>2
    <3>3. CASE bye = <<"deregister">>
      BY <3>1, <3>3, OneMessage DEF Requests
    <3> QED
      BY <3>2, <3>3 DEF Farewell
  <2>4. toDaemon' = [toDaemon EXCEPT ![s] = sent] /\ n \in 0..Len(q \o bye)
    BY <2>2
  <2> DEFINE wrote == q \o bye
  <2>5. sent = SubSeq(wrote, 1, n) /\ n \in 0..Len(wrote)
    BY <2>4
  <2> HIDE DEF q, bye, sent
  <2>6. /\ wrote \in Seq(Requests) /\ Len(wrote) = Len(q) + Len(bye)
         /\ \A i \in 1..Len(wrote) : wrote[i] = IF i <= Len(q) THEN q[i] ELSE bye[i - Len(q)]
    BY <2>3
  <2>7. Len(q) \in Nat /\ Len(bye) \in Nat
    BY <2>3
  <2> HIDE DEF wrote
  <2>8. ASSUME NEW i \in 1..Len(wrote)
         PROVE  wrote[i] = "deregister" \/ (i \in 1..Len(q) /\ wrote[i] = q[i])
    <3>1. CASE i <= Len(q)
      BY <2>6, <2>7, <3>1
    <3>2. CASE i > Len(q)
      <4>1. i - Len(q) \in 1..Len(bye) /\ wrote[i] = bye[i - Len(q)]
        BY <2>6, <2>7, <3>2
      <4> QED
        BY <2>3, <4>1
    <3> QED
      BY <2>6, <2>7, <3>1, <3>2
  <2>9. /\ sent \in Seq(Requests)
         /\ \A i \in 1..Len(sent) : i \in 1..Len(wrote) /\ sent[i] = wrote[i]
    BY <2>5, <2>6
  <2>10. /\ sent \in Seq(Requests)
        /\ \A i \in 1..Len(sent) :
             sent[i] = "deregister" \/ (i \in 1..Len(q) /\ sent[i] = q[i])
    BY <2>8, <2>9
  <2>11. /\ toDaemon' \in [Sockets -> Seq(Requests)]
        /\ \A t \in Sockets : toDaemon'[t] = IF t = s THEN sent ELSE toDaemon[t]
    BY <2>10, <2>4, WindowFacts
  <2>12. /\ toWindow' \in [Sockets -> Seq(Replies)]
        /\ \A t \in Sockets \ {s} : toWindow'[t] = toWindow[t]
    <3>1. toWindow' = [toWindow EXCEPT ![s] = <<>>]
      BY <1>5 DEF WindowCloses
    <3>2. <<>> \in Seq(Replies) /\ toWindow \in [Sockets -> Seq(Replies)]
      BY WindowFacts
    <3> QED
      BY <2>1, <3>1, <3>2
  <2>13. ConfirmIsGranted'
    <3> SUFFICES ASSUME NEW t \in Sockets, NEW i \in 1..Len(toDaemon'[t]),
                        toDaemon'[t][i] = "confirm"
                 PROVE  granted
      BY <1>1 DEF ConfirmIsGranted
    <3>1. i \in 1..Len(toDaemon[t]) /\ toDaemon[t][i] = "confirm"
      BY <2>10, <2>11 DEF q
    <3> QED
      BY <3>1 DEF LinkInv, ConfirmIsGranted
  <2> QED
    BY <1>1, <1>2, <1>3, <2>11, <2>12, <2>13, WindowMoves, WindowFacts
<1> QED
  BY <1>4, <1>5

-----------------------------------------------------------------------------
(* The steps of the daemon.                                                *)

(* Whatever the daemon does to its registry for s. *)
LEMMA RegistryMoves ==
  ASSUME LinkInv, NEW s \in Sockets, up' = up, up \/ confirming # {},
         \/ UNCHANGED registryVars
         \/ Hello(s) \/ Close(s)
         \/ Register(s, Folder) \/ Deregister(s, Folder) \/ ConfirmTrust(s, Folder)
         \/ ConfirmDone(s, Folder) \/ ConfirmFails(s, Folder)
  PROVE  /\ DaemonInv'
         /\ \A t \in Sockets \ {s}, p \in Paths : <<t, p>> \in confirming' <=> <<t, p>> \in confirming
<1>1. RegistryInv /\ up /\ (\A c \in confirming : c[2] = Folder) /\ Folder \in Paths
  BY FolderIsPath DEF LinkInv, DaemonInv
<1>2. RegistryInv'
  <2>1. CASE UNCHANGED registryVars
    BY <1>1, <2>1 DEF registryVars, RegistryInv, RegistryTypeOK, OneEntryPerPath, Trusted
  <2> QED
    BY <1>1, <2>1, RegistryKept
<1>3. confirming' \subseteq confirming \cup {<<s, Folder>>} /\ confirming \ {<<s, Folder>>} \subseteq confirming'
  BY DEF registryVars, Hello, Close, Register, Deregister, ConfirmTrust, ConfirmDone, ConfirmFails
<1>4. \A c \in confirming' : c[2] = Folder
  BY <1>1, <1>3
<1> QED
  BY <1>1, <1>2, <1>3, <1>4 DEF DaemonInv

(* The daemon takes what w has sent. *)
LEMMA TakenRequest ==
  ASSUME LinkInv, NEW s \in Sockets, NEW kind, Takes(s, kind),
         NEW w \in Windows, win[w].sock = s, ~win[w].told
  PROVE  /\ toDaemon'[s] = <<>> /\ toWindow[s] = <<>> /\ Idle(s)
         /\ \/ kind = "hello" /\ win[w].link = "connecting" /\ win[w].slot = "none"
            \/ kind = win[w].slot /\ win[w].link = "connected" /\ kind # "none"
<1>1. /\ toDaemon[s] # <<>> /\ Head(toDaemon[s]) = kind /\ toDaemon'[s] = Tail(toDaemon[s])
      /\ s # None
  BY TakenLine, IpcRegistryAssumption DEF LinkInv
<1>2. win[w].link \in {"connecting", "connected"} /\ Conversation(w)
  BY <1>1, WindowFacts
<1>3. CASE win[w].link = "connecting"
  <2>1. Greeting(s) /\ win[w].slot = "none"
    BY <1>1, <1>2, <1>3 DEF Conversation
  <2>2. toDaemon[s] = <<"hello">> /\ toWindow[s] = <<>> /\ Idle(s)
    BY <1>1, <2>1 DEF Greeting
  <2> QED
    BY <1>1, <1>3, <2>1, <2>2, OneMessage
<1>4. CASE win[w].link = "connected"
  <2>1. ~NoRequest(s) /\ ~InHand(s, win[w].slot) /\ ~Answered(s, win[w].slot)
    BY <1>1 DEF NoRequest, InHand, Answered
  <2>2. Underway(s, win[w].slot) /\ win[w].slot # "none"
    BY <1>1, <1>2, <1>4, <2>1 DEF Conversation
  <2>3. toDaemon[s] = <<win[w].slot>> /\ toWindow[s] = <<>> /\ Idle(s)
    BY <2>2 DEF Underway
  <2> QED
    BY <1>1, <1>4, <2>2, <2>3, OneMessage
<1> QED
  BY <1>2, <1>3, <1>4

(* The reply to a request that needs no write. *)
LEMMA AnswerStep ==
  ASSUME LinkInv, NEW s \in Sockets, NEW kind, NEW m \in Replies,
         Takes(s, kind), Reply(s, m),
         UNCHANGED <<up, saved, serving, win, granted>>,
         \/ UNCHANGED registryVars
         \/ Hello(s) \/ Register(s, Folder) \/ Deregister(s, Folder),
         \/ kind = "hello" /\ m = "hello_ok"
         \/ kind # "hello" /\ m \in AnswersTo(kind)
         \/ kind \in {"deregister", "stop"}
  PROVE  LinkInv'
<1>1. LinkTypeOK /\ up
  BY DEF LinkInv, Takes
<1>2. /\ toDaemon' \in [Sockets -> Seq(Requests)]
      /\ \A t \in Sockets \ {s} : toDaemon'[t] = toDaemon[t]
      /\ toDaemon[s] # <<>> /\ toDaemon'[s] = Tail(toDaemon[s])
  BY <1>1, TakenLine
<1>3. /\ toWindow' \in [Sockets -> Seq(Replies)]
      /\ \A t \in Sockets \ {s} : toWindow'[t] = toWindow[t]
      /\ Owned(s) => toWindow'[s] = Append(toWindow[s], m)
  BY <1>1, WrittenLine
<1>4. /\ DaemonInv'
      /\ \A t \in Sockets \ {s}, p \in Paths : <<t, p>> \in confirming' <=> <<t, p>> \in confirming
  BY <1>1, RegistryMoves
<1>5. confirming' = confirming
  BY DEF registryVars, Hello, Register, Deregister
<1>6. \A t \in Sockets \ {s} : SameLine(t)
  BY <1>2, <1>3, <1>4 DEF SameLine
<1>7. ASSUME NEW w \in Windows, win[w].sock = s
      PROVE  Conversation(w)'
  <2>1. CASE win[w].told
    BY <2>1 DEF Conversation
  <2>2. CASE ~win[w].told
    <3>1. /\ toDaemon'[s] = <<>> /\ toWindow[s] = <<>> /\ Idle(s)
          /\ \/ kind = "hello" /\ win[w].link = "connecting" /\ win[w].slot = "none"
             \/ kind = win[w].slot /\ win[w].link = "connected" /\ kind # "none"
      BY <1>7, <2>2, TakenRequest
    <3>2. toWindow'[s] = <<m>>
      BY <1>3, <1>7, <3>1, OneMessage DEF Owned
    <3>3. Idle(s)'
      BY <1>5, <3>1 DEF Idle
    <3>4. CASE kind = "hello" /\ win[w].link = "connecting" /\ win[w].slot = "none"
      <4>1. m = "hello_ok"
        BY <3>4 DEF AnswersTo
      <4>2. Greeting(s)'
        BY <3>1, <3>2, <3>3, <4>1 DEF Greeting
      <4> QED
        BY <1>7, <3>4, <4>2 DEF Conversation
    <3>5. CASE kind = win[w].slot /\ win[w].link = "connected" /\ kind # "none"
      <4>1. kind \in {"register", "confirm", "menu"}
        BY <3>5, WindowFacts DEF WindowRecord
      <4>2. m \in AnswersTo(kind)
        BY <4>1
      <4>3. Answered(s, kind)'
        BY <3>1, <3>2, <3>3, <4>2 DEF Answered
      <4> QED
        BY <1>7, <3>5, <4>3 DEF Conversation
    <3> QED
      BY <3>1, <3>4, <3>5
  <2> QED
    BY <2>1, <2>2
<1>8. saved \in BOOLEAN /\ serving \subseteq Sockets
  BY <1>1 DEF LinkTypeOK
<1> QED
  BY <1>2, <1>3, <1>4, <1>6, <1>7, <1>8, DaemonMoves

LEMMA AnswersStep ==
  ASSUME LinkInv, NEW s \in Sockets,
         Greets(s) \/ Answers(s) \/ Deregisters(s) \/ AnswersStop(s)
  PROVE  LinkInv'
<1>1. CASE Greets(s)
  <2>1. "hello_ok" \in Replies
    BY DEF Replies
  <2> QED
    BY <1>1, <2>1, AnswerStep DEF Greets
<1>2. CASE Answers(s)
  <2>1. PICK kind \in {"register", "confirm"} :
          /\ Takes(s, kind)
          /\ \/ Reply(s, "duplicate") /\ UNCHANGED registryVars
             \/ Register(s, Folder) /\ Reply(s, "registered")
             \/ kind = "register" /\ Reply(s, "needs_trust") /\ UNCHANGED registryVars
    BY <1>2 DEF Answers
  <2>2. UNCHANGED <<up, saved, serving, win, granted>>
    BY <1>2 DEF Answers
  <2>3. /\ {"duplicate", "registered", "needs_trust"} \subseteq Replies
        /\ {"duplicate", "registered"} \subseteq AnswersTo(kind)
        /\ kind = "register" => "needs_trust" \in AnswersTo(kind)
        /\ kind # "hello"
    BY DEF Replies, AnswersTo
  <2>4. CASE Reply(s, "duplicate") /\ UNCHANGED registryVars
    BY <2>1, <2>2, <2>3, <2>4, AnswerStep
  <2>5. CASE Register(s, Folder) /\ Reply(s, "registered")
    BY <2>1, <2>2, <2>3, <2>5, AnswerStep
  <2>6. CASE kind = "register" /\ Reply(s, "needs_trust") /\ UNCHANGED registryVars
    BY <2>1, <2>2, <2>3, <2>6, AnswerStep
  <2> QED
    BY <2>1, <2>4, <2>5, <2>6
<1>3. CASE Deregisters(s)
  <2>1. "deregistered" \in Replies /\ "failed" \in Replies
    BY DEF Replies
  <2> QED
    BY <1>3, <2>1, AnswerStep DEF Deregisters
<1>4. CASE AnswersStop(s)
  <2>1. "stop_ok" \in Replies
    BY DEF Replies
  <2> QED
    BY <1>4, <2>1, AnswerStep DEF AnswersStop, daemonVars
<1> QED
  BY <1>1, <1>2, <1>3, <1>4

(* A request that is only answered when a file is written. *)
LEMMA InHandStep ==
  ASSUME LinkInv, NEW s \in Sockets, NEW kind \in {"confirm", "menu"}, Takes(s, kind),
         UNCHANGED <<up, saved, toWindow, win, granted>>,
         \/ kind = "confirm" /\ ConfirmTrust(s, Folder) /\ serving' = serving
         \/ kind = "menu" /\ UNCHANGED registryVars /\ serving' = serving \cup {s}
  PROVE  LinkInv'
<1>1. LinkTypeOK /\ up
  BY DEF LinkInv, Takes
<1>2. /\ toDaemon' \in [Sockets -> Seq(Requests)]
      /\ \A t \in Sockets \ {s} : toDaemon'[t] = toDaemon[t]
      /\ toDaemon[s] # <<>> /\ toDaemon'[s] = Tail(toDaemon[s])
  BY <1>1, TakenLine
<1>3. /\ DaemonInv'
      /\ \A t \in Sockets \ {s}, p \in Paths : <<t, p>> \in confirming' <=> <<t, p>> \in confirming
  BY <1>1, RegistryMoves
<1>4. /\ toWindow \in [Sockets -> Seq(Replies)] /\ saved \in BOOLEAN
      /\ serving' \subseteq Sockets /\ \A t \in Sockets \ {s} : t \in serving' <=> t \in serving
  BY <1>1 DEF LinkTypeOK
<1>5. \A t \in Sockets \ {s} : SameLine(t)
  BY <1>2, <1>3, <1>4 DEF SameLine
<1>6. ASSUME NEW w \in Windows, win[w].sock = s
      PROVE  Conversation(w)'
  <2>1. CASE win[w].told
    BY <2>1 DEF Conversation
  <2>2. CASE ~win[w].told
    <3>1. /\ toDaemon'[s] = <<>> /\ toWindow[s] = <<>> /\ Idle(s)
          /\ kind = win[w].slot /\ win[w].link = "connected"
      BY <1>6, <2>2, TakenRequest
    <3>2. kind = "menu" => confirming' = confirming
      BY DEF registryVars
    <3>3. kind = "confirm" => serving' = serving
      OBVIOUS
    <3>4. InHand(s, kind)'
      BY <3>1, <3>2, <3>3 DEF InHand, Idle
    <3> QED
      BY <1>6, <3>1, <3>4 DEF Conversation
  <2> QED
    BY <2>1, <2>2
<1> QED
  BY <1>2, <1>3, <1>4, <1>5, <1>6, DaemonMoves

(* ... and its answer, when it is. *)
LEMMA LateAnswerStep ==
  ASSUME LinkInv, NEW s \in Sockets, NEW m \in Replies, Reply(s, m),
         UNCHANGED <<up, toDaemon, win, granted>>, saved' \in BOOLEAN,
         \/ /\ ConfirmDone(s, Folder) \/ ConfirmFails(s, Folder)
            /\ m \in AnswersTo("confirm") /\ serving' = serving
         \/ /\ s \in serving /\ serving' = serving \ {s}
            /\ m \in AnswersTo("menu") /\ UNCHANGED registryVars
  PROVE  LinkInv'
<1>1. LinkTypeOK /\ DaemonInv
  BY DEF LinkInv
<1>2. /\ toWindow' \in [Sockets -> Seq(Replies)]
      /\ \A t \in Sockets \ {s} : toWindow'[t] = toWindow[t]
      /\ Owned(s) => toWindow'[s] = Append(toWindow[s], m)
  BY <1>1, WrittenLine
<1>3. /\ DaemonInv'
      /\ \A t \in Sockets \ {s}, p \in Paths : <<t, p>> \in confirming' <=> <<t, p>> \in confirming
  <2>1. CASE ConfirmDone(s, Folder) \/ ConfirmFails(s, Folder)
    <3>1. confirming # {}
      BY <2>1 DEF ConfirmDone, ConfirmFails
    <3> QED
      BY <2>1, <3>1, RegistryMoves
  <2>2. CASE UNCHANGED registryVars
    BY <1>1, <2>2 DEF registryVars, DaemonInv, RegistryInv, RegistryTypeOK, OneEntryPerPath, Trusted
  <2> QED
    BY <2>1, <2>2
<1>4. /\ toDaemon \in [Sockets -> Seq(Requests)]
      /\ serving' \subseteq Sockets /\ \A t \in Sockets \ {s} : t \in serving' <=> t \in serving
  BY <1>1 DEF LinkTypeOK
<1>5. \A t \in Sockets \ {s} : SameLine(t)
  BY <1>2, <1>3, <1>4 DEF SameLine
<1>6. ASSUME NEW w \in Windows, win[w].sock = s
      PROVE  Conversation(w)'
  <2>1. CASE win[w].told
    BY <2>1 DEF Conversation
  <2>2. CASE ~win[w].told
    <3>1. ~Idle(s) /\ s # None
      BY FolderIsPath, IpcRegistryAssumption DEF Idle, ConfirmDone, ConfirmFails
    <3>2. InHand(s, win[w].slot) /\ win[w].link = "connected"
      <4>1. win[w].link \in {"connecting", "connected"} /\ Conversation(w)
        BY <1>6, <3>1, WindowFacts
      <4>2. ~Greeting(s) /\ ~NoRequest(s) /\ ~Underway(s, win[w].slot) /\ ~Answered(s, win[w].slot)
        BY <3>1 DEF Greeting, NoRequest, Underway, Answered
      <4> QED
        BY <1>6, <2>2, <3>1, <4>1, <4>2 DEF Conversation
    <3>3. /\ toDaemon'[s] = <<>> /\ toWindow'[s] = <<m>>
      BY <1>2, <1>6, <3>2, OneMessage DEF InHand, Owned
    <3>4. m \in AnswersTo(win[w].slot) /\ Idle(s)'
      <4>1. CASE ConfirmDone(s, Folder) \/ ConfirmFails(s, Folder)
        <5>1. <<s, Folder>> \in confirming /\ confirming' = confirming \ {<<s, Folder>>}
          BY <4>1 DEF ConfirmDone, ConfirmFails
        <5>2. win[w].slot = "confirm" /\ s \notin serving
          BY <3>2, <5>1, FolderIsPath DEF InHand
        <5>3. \A p \in Paths : <<s, p>> \notin confirming'
          BY <1>1, <5>1 DEF DaemonInv
        <5>4. serving' = serving /\ m \in AnswersTo("confirm")
          BY <5>2
        <5> QED
          BY <5>2, <5>3, <5>4 DEF Idle
      <4>2. CASE /\ s \in serving /\ serving' = serving \ {s}
                 /\ m \in AnswersTo("menu") /\ UNCHANGED registryVars
        <5>1. win[w].slot = "menu" /\ \A p \in Paths : <<s, p>> \notin confirming
          BY <3>2, <4>2 DEF InHand
        <5> QED
          BY <4>2, <5>1 DEF Idle, registryVars
      <4> QED
        BY <4>1, <4>2
    <3>5. Answered(s, win[w].slot)'
      BY <3>3, <3>4 DEF Answered
    <3> QED
      BY <1>6, <3>2, <3>5 DEF Conversation, InHand
  <2> QED
    BY <2>1, <2>2
<1> QED
  BY <1>2, <1>3, <1>4, <1>5, <1>6, DaemonMoves

LEMMA DaemonStepKeeps ==
  ASSUME LinkInv, NEW s \in Sockets, DaemonStep(s)
  PROVE  LinkInv'
<1>1. CASE Greets(s) \/ Answers(s) \/ Deregisters(s) \/ AnswersStop(s)
  BY <1>1, AnswersStep
<1>2. CASE Confirms(s)
  BY <1>2, InHandStep DEF Confirms
<1>3. CASE Trusts(s)
  <2>1. /\ {"registered", "failed"} \subseteq Replies
        /\ {"registered", "failed"} \subseteq AnswersTo("confirm")
        /\ saved \in BOOLEAN
    BY DEF Replies, AnswersTo, LinkInv, LinkTypeOK
  <2>2. CASE /\ ConfirmDone(s, Folder) /\ saved' = TRUE /\ Reply(s, "registered")
             /\ UNCHANGED <<up, serving, toDaemon, win, granted>>
    BY <2>1, <2>2, LateAnswerStep
  <2>3. CASE /\ ConfirmFails(s, Folder) /\ Reply(s, "failed")
             /\ UNCHANGED <<up, saved, serving, toDaemon, win, granted>>
    BY <2>1, <2>3, LateAnswerStep
  <2> QED
    BY <1>3, <2>2, <2>3 DEF Trusts
<1>4. CASE ServesMenu(s)
  <2>1. /\ Takes(s, "menu") /\ UNCHANGED registryVars
        /\ UNCHANGED <<up, saved, win, granted>>
        /\ \/ serving' = serving \cup {s} /\ UNCHANGED toWindow
           \/ Reply(s, "failed") /\ UNCHANGED serving
    BY <1>4 DEF ServesMenu
  <2>2. "failed" \in Replies /\ "failed" \in AnswersTo("menu")
    BY DEF Replies, AnswersTo
  <2>3. CASE serving' = serving \cup {s} /\ UNCHANGED toWindow
    BY <2>1, <2>3, InHandStep
  <2>4. CASE Reply(s, "failed") /\ UNCHANGED serving
    BY <2>1, <2>2, <2>4, AnswerStep
  <2> QED
    BY <2>1, <2>3, <2>4
<1>5. CASE MenuServed(s)
  <2>1. /\ {"menu_ok", "failed"} \subseteq Replies
        /\ {"menu_ok", "failed"} \subseteq AnswersTo("menu")
        /\ saved \in BOOLEAN
    BY DEF Replies, AnswersTo, LinkInv, LinkTypeOK
  <2>2. PICK m \in {"menu_ok", "failed"} : Reply(s, m)
    BY <1>5 DEF MenuServed
  <2>3. /\ s \in serving /\ serving' = serving \ {s}
        /\ UNCHANGED registryVars /\ UNCHANGED <<up, saved, toDaemon, win, granted>>
    BY <1>5 DEF MenuServed
  <2>4. m \in Replies /\ m \in AnswersTo("menu")
    BY <2>1
  <2> QED
    BY <2>1, <2>2, <2>3, <2>4, LateAnswerStep
<1>6. CASE SeesClose(s)
  <2>1. /\ up /\ ~Owned(s) /\ Close(s)
        /\ UNCHANGED <<up, saved, serving, toDaemon, toWindow, win, granted>>
    BY <1>6 DEF SeesClose
  <2>2. DaemonInv'
    BY <2>1, RegistryMoves
  <2>3. \A t \in Sockets \ {s} : SameLine(t)
    BY <2>1 DEF SameLine, Close
  <2>4. /\ saved \in BOOLEAN /\ serving \subseteq Sockets
        /\ toDaemon \in [Sockets -> Seq(Requests)] /\ toWindow \in [Sockets -> Seq(Replies)]
    BY DEF LinkInv, LinkTypeOK
  <2>5. \A w \in Windows : win[w].sock # s
    BY <2>1 DEF Owned
  <2> QED
    BY <2>1, <2>2, <2>3, <2>4, <2>5, DaemonMoves
<1> QED
  BY <1>1, <1>2, <1>3, <1>4, <1>5, <1>6 DEF DaemonStep

(* With the daemon all it had in hand, and all that was on its way to it,  *)
(* is lost.                                                                *)
LEMMA DaemonEndsStep ==
  ASSUME LinkInv, DaemonEnds
  PROVE  LinkInv'
<1>1. /\ up' = FALSE /\ conn' = [s \in Sockets |-> "closed"]
      /\ active' = [p \in Paths |-> None] /\ confirming' = {} /\ serving' = {}
      /\ toDaemon' = [s \in Sockets |-> <<>>]
      /\ saved' \in {TRUE, saved}
      /\ UNCHANGED <<entries, toWindow, win, granted>>
  BY DEF DaemonEnds
<1>2. DaemonInv'
  BY <1>1 DEF LinkInv, DaemonInv, RegistryInv, RegistryTypeOK, OneEntryPerPath, Trusted
<1>3. LinkTypeOK'
  <2>1. <<>> \in Seq(Requests)
    OBVIOUS
  <2>2. saved' \in BOOLEAN
    BY <1>1 DEF LinkInv, LinkTypeOK
  <2> QED
    BY <1>1, <1>2, <2>1, <2>2 DEF LinkInv, LinkTypeOK, DaemonInv, RegistryInv
<1>4. OneOwner'
  BY <1>1 DEF LinkInv, OneOwner
<1>5. Conversations'
  <2> SUFFICES ASSUME NEW w \in Windows, win[w].sock # None, ~win[w].told
               PROVE  Conversation(w)'
    BY <1>1 DEF Conversations, Conversation
  <2> DEFINE s == win[w].sock
             kind == win[w].slot
  <2>1. s \in Sockets /\ Conversation(w) /\ win' = win /\ toWindow' = toWindow
    BY <1>1, WindowFacts
  <2>2. toDaemon'[s] = <<>> /\ Idle(s)'
    BY <1>1, <2>1 DEF Idle
  <2>3. toWindow[s] = <<>> => NoRequest(s)'
    BY <2>1, <2>2 DEF NoRequest
  <2>4. CASE win[w].link = "connecting"
    <3>1. Greeting(s) /\ kind = "none"
      BY <2>1, <2>4 DEF Conversation
    <3>2. Greeting(s)'
      BY <2>1, <2>2, <3>1 DEF Greeting
    <3> QED
      BY <2>1, <2>4, <3>1, <3>2 DEF Conversation
  <2>5. CASE win[w].link # "connecting" /\ kind = "none"
    <3>1. NoRequest(s)
      BY <2>1, <2>5 DEF Conversation
    <3>2. NoRequest(s)'
      BY <2>3, <3>1 DEF NoRequest
    <3> QED
      BY <2>1, <2>5, <3>2 DEF Conversation
  <2>6. CASE win[w].link # "connecting" /\ kind # "none"
    <3>1. NoRequest(s) \/ Underway(s, kind) \/ InHand(s, kind) \/ Answered(s, kind)
      BY <2>1, <2>6 DEF Conversation
    <3>2. Answered(s, kind) => Answered(s, kind)'
      BY <2>1, <2>2 DEF Answered
    <3>3. NoRequest(s) \/ Underway(s, kind) \/ InHand(s, kind) => toWindow[s] = <<>>
      BY DEF NoRequest, Underway, InHand
    <3>4. NoRequest(s)' \/ Answered(s, kind)'
      BY <2>3, <3>1, <3>2, <3>3
    <3> QED
      BY <2>1, <2>6, <3>4 DEF Conversation
  <2> QED
    BY <2>4, <2>5, <2>6
<1>6. ConfirmIsGranted'
  BY <1>1 DEF ConfirmIsGranted
<1> QED
  BY <1>2, <1>3, <1>4, <1>5, <1>6 DEF LinkInv

LEMMA DaemonStartsStep ==
  ASSUME LinkInv, DaemonStarts
  PROVE  LinkInv'
<1>1. /\ ~up /\ up' = TRUE
      /\ entries' = [p \in Paths |-> IF saved THEN 1 ELSE 0]
      /\ UNCHANGED <<conn, active, confirming, saved, serving, toDaemon, toWindow, win, granted>>
  BY DEF DaemonStarts
<1>2. confirming = {} /\ \A p \in Paths : active[p] = None
  BY <1>1 DEF LinkInv, DaemonInv
<1>3. entries' \in [Paths -> Nat] /\ \A p \in Paths : entries'[p] <= 1
  BY <1>1
<1>4. DaemonInv'
  BY <1>1, <1>2, <1>3 DEF LinkInv, DaemonInv, RegistryInv, RegistryTypeOK, OneEntryPerPath
<1>5. LinkTypeOK'
  BY <1>1, <1>4 DEF LinkInv, LinkTypeOK, DaemonInv, RegistryInv
<1>6. OneOwner' /\ ConfirmIsGranted'
  BY <1>1 DEF LinkInv, OneOwner, ConfirmIsGranted
<1>7. Conversations'
  <2> SUFFICES ASSUME NEW w \in Windows
               PROVE  Conversation(w)'
    BY DEF Conversations
  <2>1. SameLine(win[w].sock) /\ win'[w] = win[w] /\ Conversation(w)
    BY <1>1, WindowFacts DEF SameLine
  <2> QED
    BY <2>1, ConversationStays
<1> QED
  BY <1>4, <1>5, <1>6, <1>7 DEF LinkInv

-----------------------------------------------------------------------------
LEMMA LinkInvInit == LinkInit => LinkInv
<1> SUFFICES ASSUME LinkInit PROVE LinkInv
  OBVIOUS
<1>1. /\ RegistryInit /\ up = FALSE /\ saved = Trusted(Folder) /\ serving = {}
      /\ toDaemon = [s \in Sockets |-> <<>>] /\ toWindow = [s \in Sockets |-> <<>>]
      /\ win = [w \in Windows |-> ClosedWindow] /\ granted = FALSE
  BY DEF LinkInit
<1>2. DaemonInv
  BY <1>1 DEF RegistryInit, DaemonInv, RegistryInv, RegistryTypeOK, OneEntryPerPath
<1>3. /\ ClosedWindow \in WindowRecord /\ ClosedWindow.sock = None
      /\ ClosedWindow.link = "closed" /\ ClosedWindow.slot = "none"
  BY DEF ClosedWindow, WindowRecord, RegistrationStates
<1>4. LinkTypeOK
  <2>1. <<>> \in Seq(Requests) /\ <<>> \in Seq(Replies) /\ saved \in BOOLEAN
    BY <1>1 DEF Trusted
  <2>2. /\ toDaemon \in [Sockets -> Seq(Requests)] /\ toWindow \in [Sockets -> Seq(Replies)]
        /\ win \in [Windows -> WindowRecord]
    BY <1>1, <1>3, <2>1
  <2> QED
    BY <1>1, <1>2, <2>1, <2>2 DEF LinkTypeOK, DaemonInv, RegistryInv
<1>5. OneOwner /\ Conversations
  BY <1>1, <1>3 DEF OneOwner, Conversations, Conversation
<1>6. ConfirmIsGranted
  BY <1>1 DEF ConfirmIsGranted
<1> QED
  BY <1>2, <1>4, <1>5, <1>6 DEF LinkInv

LEMMA LinkInvStep == LinkInv /\ [LinkNext]_linkVars => LinkInv'
<1> SUFFICES ASSUME LinkInv, [LinkNext]_linkVars PROVE LinkInv'
  OBVIOUS
<1>1. CASE UNCHANGED linkVars
  <2>1. UNCHANGED <<conn, entries, active, confirming, up, saved, serving, toDaemon, toWindow,
                    win, granted>>
    BY <1>1 DEF linkVars, registryVars
  <2>2. DaemonInv' /\ LinkTypeOK' /\ OneOwner' /\ ConfirmIsGranted'
    BY <2>1 DEF LinkInv, LinkTypeOK, DaemonInv, RegistryInv, RegistryTypeOK, OneEntryPerPath,
                Trusted, OneOwner, ConfirmIsGranted
  <2>3. ASSUME NEW w \in Windows
        PROVE  Conversation(w)'
    <3>1. SameLine(win[w].sock) /\ win'[w] = win[w] /\ Conversation(w)
      BY <2>1, WindowFacts DEF SameLine
    <3> QED
      BY <3>1, ConversationStays
  <2> QED
    BY <2>2, <2>3 DEF LinkInv, Conversations
<1>2. ASSUME NEW w \in Windows, ClientStep(w) \/ UserStep(w)
      PROVE  LinkInv'
  BY <1>2, DialStep, ActivateStep, SocketClosesStep, HelloOkStep, ResponseStep, PromptStep,
     MenuStep, StopStep, WindowClosesStep DEF ClientStep, UserStep
<1> QED
  BY <1>1, <1>2, DaemonStepKeeps, DaemonEndsStep, DaemonStartsStep DEF LinkNext

(* The invariant of the composition: the registry's of IpcRegistry, one    *)
(* connection per window, and what is said on it.                          *)
THEOREM LinkInvariant == LinkSpec => []LinkInv
BY LinkInvInit, LinkInvStep, PTL DEF LinkSpec

(* Windows, channels and registry keep their types.                        *)
THEOREM LinkTypeCorrect == LinkSpec => []LinkTypeOK
<1>1. LinkInv => LinkTypeOK
  BY DEF LinkInv
<1> QED
  BY <1>1, LinkInvariant, PTL

(* IpcClient has no request ids, and handleResponse resolves whatever is   *)
(* pending with the next line: it is the reply to that request, across     *)
(* reconnects, prompts and late writes, as long as no stop was sent.       *)
THEOREM AnswerIsItsOwnHolds == LinkSpec => AnswerIsItsOwn
<1> DEFINE Own == \A w \in Windows :
             LET s == win[w].sock IN
               /\ win[w].link = "connected" /\ ~win[w].told /\ win'[w].sock = s
               /\ toWindow[s] # <<>> /\ toWindow'[s] = Tail(toWindow[s])
               => Head(toWindow[s]) \in AnswersTo(win[w].slot)
<1>1. LinkInv => Own
  <2> SUFFICES ASSUME LinkInv, NEW w \in Windows,
                      win[w].link = "connected", ~win[w].told,
                      toWindow[win[w].sock] # <<>>
               PROVE  Head(toWindow[win[w].sock]) \in AnswersTo(win[w].slot)
    OBVIOUS
  <2> DEFINE s == win[w].sock
  <2>1. s # None /\ Conversation(w)
    BY WindowFacts
  <2>2. ~NoRequest(s) /\ ~Underway(s, win[w].slot) /\ ~InHand(s, win[w].slot)
    BY DEF NoRequest, Underway, InHand
  <2>3. Answered(s, win[w].slot)
    BY <2>1, <2>2 DEF Conversation
  <2>4. PICK m \in AnswersTo(win[w].slot) : toWindow[s] = <<m>>
    BY <2>3 DEF Answered
  <2> QED
    BY <2>4, OneMessage
<1>2. LinkInv => [Own]_linkVars
  BY <1>1
<1> QED
  BY <1>2, LinkInvariant, PTL DEF AnswerIsItsOwn

(* Only a click on Trust, or workspaces.json, makes a folder trusted:      *)
(* handleConfirmTrust and the daemon's start, whatever reconnects and      *)
(* however the windows race.                                               *)
THEOREM TrustIsGrantedHolds == LinkSpec => TrustIsGranted
<1>1. ASSUME LinkInv, LinkNext
      PROVE  (\E p \in Paths : entries[p] = 0 /\ entries'[p] = 1) => granted \/ saved
  <2> SUFFICES ASSUME ~granted, ~saved
               PROVE  entries' = entries \/ \A p \in Paths : entries'[p] = 0
    OBVIOUS
  <2>1. ASSUME NEW w \in Windows, ClientStep(w) \/ UserStep(w)
        PROVE  entries' = entries
    BY <2>1 DEF ClientStep, UserStep, Dial, Connect, DialRefused, SocketCloses, HelloOk, Response,
                Activate, PromptDenied, PromptTrusted, Menu, StopDaemon, WindowCloses,
                daemonVars, registryVars
  <2>2. ASSUME NEW s \in Sockets, DaemonStep(s)
        PROVE  entries' = entries
    <3>1. CASE Confirms(s)
      <4>1. toDaemon[s] \in Seq(Requests)
        BY <1>1 DEF LinkInv, LinkTypeOK
      <4>2. toDaemon[s] # <<>> /\ Head(toDaemon[s]) = "confirm"
        BY <3>1 DEF Confirms, Takes
      <4>3. 1 \in 1..Len(toDaemon[s]) /\ toDaemon[s][1] = "confirm"
        BY <4>1, <4>2, TailOf
      <4> QED
        BY <1>1, <4>3 DEF LinkInv, ConfirmIsGranted
    <3>2. CASE Greets(s) \/ Answers(s) \/ Trusts(s) \/ Deregisters(s)
      BY <3>2 DEF Greets, Hello, Answers, Register, Trusts, ConfirmDone, ConfirmFails,
                  Deregisters, Deregister, registryVars
    <3>3. CASE ServesMenu(s) \/ MenuServed(s) \/ AnswersStop(s) \/ SeesClose(s)
      BY <3>3 DEF ServesMenu, MenuServed, AnswersStop, SeesClose, Close, daemonVars, registryVars
    <3> QED
      BY <2>2, <3>1, <3>2, <3>3 DEF DaemonStep
  <2>3. CASE DaemonEnds
    BY <2>3 DEF DaemonEnds
  <2>4. CASE DaemonStarts
    BY <2>4 DEF DaemonStarts
  <2> QED
    BY <1>1, <2>1, <2>2, <2>3, <2>4 DEF LinkNext
<1>2. LinkInv /\ [LinkNext]_linkVars
      => [(\E p \in Paths : entries[p] = 0 /\ entries'[p] = 1) => granted \/ saved]_linkVars
  BY <1>1
<1> QED
  BY <1>2, LinkInvariant, PTL DEF LinkSpec, TrustIsGranted

=============================================================================
