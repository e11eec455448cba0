----------------------------- MODULE IpcRegistry -----------------------------
(***************************************************************************)
(* Which VS Code window holds which workspace: the connection states, the  *)
(* active registry and the confirm_trust dialogue of the daemon's IPC      *)
(* server (ipc/server.ts), over the in-memory list of trusted workspaces   *)
(* (workspace/store.ts).                                                   *)
(*                                                                         *)
(* A handler runs to its first await without interruption, so it is one    *)
(* action; confirm_trust of a new path awaits the write of workspaces.json *)
(* and is two.  A path stands for a workspace: its identifier is unique.   *)
(***************************************************************************)
EXTENDS Naturals, FiniteSets

CONSTANTS
  Sockets,  \* connections; a closed one is a name for a later connection
  Paths,    \* the abs_path of a workspace folder
  None      \* "nobody holds the path"

ASSUME IpcRegistryAssumption == None \notin Sockets

VARIABLES
  conn,       \* connectionState: closed, new (no hello yet), ready
  entries,    \* entries[p]: entries of the store with abs_path p
  active,     \* activeRegistry: the socket that holds path p, or None
  confirming  \* <<s, p>>: s's confirm_trust of p awaits addTrustedEntry

registryVars == <<conn, entries, active, confirming>>

-----------------------------------------------------------------------------
RegistryTypeOK ==
  /\ conn \in [Sockets -> {"closed", "new", "ready"}]
  /\ entries \in [Paths -> Nat]
  /\ active \in [Paths -> Sockets \cup {None}]
  /\ confirming \subseteq Sockets \X Paths

Ready(s) == conn[s] = "ready"

(* findByPath finds an entry. *)
Trusted(p) == entries[p] > 0

(* The paths registered on s. *)
Held(s) == {p \in Paths : active[p] = s}

(* Fault: the check for another window is missing. *)
AvailableToAll(s, p) == s \in Sockets /\ p \in Paths

(* No other window has registered p. *)
Available(s, p) == active[p] \in {None, s}

RegistryInit ==
  /\ conn = [s \in Sockets |-> "closed"]
  /\ entries \in [Paths -> {0, 1}]
  /\ active = [p \in Paths |-> None]
  /\ confirming = {}

-----------------------------------------------------------------------------
(* A new connection.  The name of a closed one is used again only when     *)
(* nothing in the daemon refers to the old socket any more.                *)
Connect(s) ==
  /\ conn[s] = "closed"
  /\ Held(s) = {} /\ \A p \in Paths : <<s, p>> \notin confirming
  /\ conn' = [conn EXCEPT ![s] = "new"]
  /\ UNCHANGED <<entries, active, confirming>>

(* hello with the daemon's own version; any other first message is         *)
(* answered with an error and the connection is closed.                    *)
Hello(s) ==
  /\ conn[s] = "new"
  /\ conn' = [conn EXCEPT ![s] = "ready"]
  /\ UNCHANGED <<entries, active, confirming>>

(* Fault: the store is not consulted. *)
RegisterUntrusted(s, p) ==
  /\ Ready(s)
  /\ Available(s, p)
  /\ active' = [active EXCEPT ![p] = s]
  /\ UNCHANGED <<conn, entries, confirming>>

(* register_workspace of a trusted path, and confirm_trust of a path that  *)
(* another connection has had trusted meanwhile.                           *)
Register(s, p) ==
  /\ Ready(s)
  /\ Available(s, p)
  /\ Trusted(p)
  /\ active' = [active EXCEPT ![p] = s]
  /\ UNCHANGED <<conn, entries, confirming>>

(* confirm_trust of a new path: addTrustedEntry pushes the entry and then  *)
(* awaits the write.                                                       *)
ConfirmTrust(s, p) ==
  /\ Ready(s)
  /\ Available(s, p)
  /\ ~Trusted(p)
  /\ entries' = [entries EXCEPT ![p] = @ + 1]
  /\ confirming' = confirming \cup {<<s, p>>}
  /\ UNCHANGED <<conn, active>>

(* The write is done: the path is registered, whatever happened meanwhile. *)
ConfirmDone(s, p) ==
  /\ <<s, p>> \in confirming
  /\ active' = [active EXCEPT ![p] = s]
  /\ confirming' = confirming \ {<<s, p>>}
  /\ UNCHANGED <<conn, entries>>

(* The write fails: an error reply; the entry stays in memory. *)
ConfirmFails(s, p) ==
  /\ <<s, p>> \in confirming
  /\ confirming' = confirming \ {<<s, p>>}
  /\ UNCHANGED <<conn, entries, active>>

(* deregister_workspace by the window that holds the path. *)
Deregister(s, p) ==
  /\ Ready(s)
  /\ active[p] = s
  /\ active' = [active EXCEPT ![p] = None]
  /\ UNCHANGED <<conn, entries, confirming>>

(* The connection closes or fails: removeActiveRegistrationsForSocket. *)
Close(s) ==
  /\ conn[s] # "closed"
  /\ conn' = [conn EXCEPT ![s] = "closed"]
  /\ active' = [p \in Paths |-> IF active[p] = s THEN None ELSE active[p]]
  /\ UNCHANGED <<entries, confirming>>

-----------------------------------------------------------------------------
(* Two windows that confirm the same folder never trust it twice: the      *)
(* entry is there before the first await, and each path keeps one          *)
(* identifier and at most one write that will register it.                 *)
OneEntryPerPath ==
  /\ \A p \in Paths : entries[p] <= 1
  /\ \A c, d \in confirming : c[2] = d[2] => c = d
=============================================================================
