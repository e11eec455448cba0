--------------------------- MODULE WorkspaceStore ---------------------------
(***************************************************************************)
(* The trusted workspaces and who holds them: IpcRegistry composed with    *)
(* the persistent store (workspace/store.ts).  The two changes the windows *)
(* make, confirm_trust of a new folder and set_workspace_mode, change the  *)
(* entries in memory, await the write of workspaces.json and only then go  *)
(* on: to the registration, and to the reply.                              *)
(*                                                                         *)
(* A window awaits the reply to one request about a folder before it sends *)
(* the next, so a request is named by its connection and its folder.       *)
(***************************************************************************)
EXTENDS IpcRegistry

CONSTANTS
  Modes,     \* approval modes, per_call among them
  NoText,    \* no text, or none that parses
  MaxWrites  \* bound: requests whose write is awaited at the same time

ASSUME WorkspaceStoreAssumption == "per_call" \in Modes /\ "absent" \notin Modes

VARIABLES
  mode,      \* mode[p]: the approval mode of p's entry, or absent
  promised,  \* history: the mode of p when a window was last answered, if
             \* the answer still counts
  disk,      \* workspaces.json: a set of entries is a function like mode
  write,     \* write[<<s, p>>]: the write that s's request about p awaits
  disturbed  \* see StoreFile

INSTANCE StoreFile WITH Ops <- Sockets \X Paths

storeVars == <<mode, promised, disk, write, disturbed>>

vars == <<registryVars, storeVars>>

-----------------------------------------------------------------------------
Stores == [Paths -> Modes \cup {"absent"}]

Empty == [p \in Paths |-> "absent"]

TypeOK ==
  /\ RegistryTypeOK
  /\ FileTypeOK(Stores)
  /\ mode \in Stores
  /\ promised \in Stores

Init ==
  /\ RegistryInit
  /\ mode = [p \in Paths |-> IF Trusted(p) THEN "per_call" ELSE "absent"]
  /\ promised = mode
  /\ FileInit(mode)

(* A request about p awaits its write. *)
Serving(p) == \E s \in Sockets : Stage(<<s, p>>) # "none"

(* The window may send a request about p that changes the store. *)
MayWrite(s, p) ==
  /\ Stage(<<s, p>>) = "none"
  /\ Cardinality({o \in Sockets \X Paths : Stage(o) # "none"}) < MaxWrites

-----------------------------------------------------------------------------
(* confirm_trust of a new folder up to its write.  An entry without a mode *)
(* of its own reads as per_call.                                           *)
AddTrustedEntry(s, p) ==
  /\ MayWrite(s, p)
  /\ ConfirmTrust(s, p)
  /\ mode' = [mode EXCEPT ![p] = "per_call"]
  /\ BeginWrite(<<s, p>>)
  /\ UNCHANGED promised

(* Fault: the window is answered and nothing is written. *)
SetModeInMemory(s, p, m) ==
  /\ MayWrite(s, p)
  /\ Ready(s) /\ active[p] = s
  /\ mode' = [mode EXCEPT ![p] = m]
  /\ promised' = [promised EXCEPT ![p] = m]
  /\ UNCHANGED <<registryVars, disk, write, disturbed>>

(* set_workspace_mode by the window that holds p, up to its write. *)
SetMode(s, p, m) ==
  /\ MayWrite(s, p)
  /\ Ready(s) /\ active[p] = s
  /\ mode' = [mode EXCEPT ![p] = m]
  /\ BeginWrite(<<s, p>>)
  /\ UNCHANGED <<registryVars, promised>>

WriteStep(s, p) ==
  /\ Stringify(<<s, p>>, mode) \/ OpenFile(<<s, p>>)
  /\ UNCHANGED <<registryVars, mode, promised>>

(* The write is done: a confirm_trust registers the folder, and the window *)
(* is answered.                                                            *)
Written(s, p) ==
  /\ WriteDone(<<s, p>>)
  /\ IF <<s, p>> \in confirming THEN ConfirmDone(s, p) ELSE UNCHANGED registryVars
  /\ promised' = [promised EXCEPT ![p] = mode[p]]
  /\ UNCHANGED mode

(* The write fails: an error reply, which takes an earlier answer about    *)
(* the folder back; the entry in memory stays as it was changed.           *)
NotWritten(s, p) ==
  /\ WriteFails(<<s, p>>)
  /\ IF <<s, p>> \in confirming THEN ConfirmFails(s, p) ELSE UNCHANGED registryVars
  /\ promised' = [promised EXCEPT ![p] = "absent"]
  /\ UNCHANGED mode

(* What the windows do that does not touch the store.  A socket with a     *)
(* write under way is still referred to.                                   *)
WindowStep(s) ==
  /\ \/ (\A p \in Paths : Stage(<<s, p>>) = "none") /\ Connect(s)
     \/ Hello(s)
     \/ Close(s)
     \/ \E p \in Paths : Register(s, p) \/ Deregister(s, p)
  /\ UNCHANGED storeVars

(* The daemon dies and starts again from workspaces.json; it does not      *)
(* start from a file that is not JSON.  Answers count unless the last      *)
(* write was disturbed or a new one was under way for the folder.          *)
Restart ==
  /\ disk.state = "whole"
  /\ mode' = disk.data
  /\ entries' = [p \in Paths |-> IF disk.data[p] = "absent" THEN 0 ELSE 1]
  /\ promised' = [p \in Paths |-> IF disturbed \/ Serving(p) THEN "absent" ELSE promised[p]]
  /\ conn' = [s \in Sockets |-> "closed"]
  /\ active' = [p \in Paths |-> None]
  /\ confirming' = {}
  /\ AbandonWrites

Next ==
  \/ \E s \in Sockets, p \in Paths :
       \/ AddTrustedEntry(s, p)
       \/ \E m \in Modes : SetMode(s, p, m)
       \/ WriteStep(s, p)
       \/ Written(s, p)
       \/ NotWritten(s, p)
  \/ \E s \in Sockets : WindowStep(s)
  \/ Restart

Spec == Init /\ [][Next]_vars

-----------------------------------------------------------------------------
(* What a window has been told about its folder stays true, for any window *)
(* and also across a restart, unless the last write was disturbed: an      *)
(* answer means that the disk has the change, and no later write about     *)
(* another folder drops it.                                                *)
PromiseIsKept ==
  \A p \in Paths :
    promised[p] # "absent" /\ ~Serving(p) => Trusted(p) /\ mode[p] = promised[p]

(* A folder in the store is there once, with its mode, and no window holds *)
(* one that is not, whatever else is being written.                        *)
HolderIsTrusted ==
  /\ OneEntryPerPath
  /\ \A p \in Paths : (active[p] # None => Trusted(p)) /\ (Trusted(p) <=> mode[p] # "absent")
  /\ \A c \in confirming : Trusted(c[2])

(* The await of confirm_trust is the only gap.  A held folder passes to    *)
(* another window only through a confirm_trust that was already being      *)
(* written, and a connection that is not open any more only gets a         *)
(* registration from one: register_workspace never takes a folder away,    *)
(* and closing leaves nothing behind.                                      *)
OnlyConfirmIntrudes ==
  [][\A p \in Paths, s \in Sockets :
       /\ active'[p] = s /\ active[p] # s
       /\ active[p] # None \/ conn'[s] # "ready"
       => <<s, p>> \in confirming]_vars
=============================================================================
