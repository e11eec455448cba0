------------------------------- MODULE Tunnel -------------------------------
(***************************************************************************)
(* The daemon's public tunnel: TunnelManager (tunnel/manager.ts) with its  *)
(* cloudflared children (tunnel/cloudflared.ts), and DropRecovery          *)
(* (tunnel/drop-recovery.ts), which asks the operator before the URL of an *)
(* automatic respawn is adopted, and the modals that the extension's       *)
(* windows show for it (extension/src/tunnel-drop.ts).                     *)
(*                                                                         *)
(* Children are numbered in the order they are spawned; child p serves URL *)
(* p.  Event handlers are synchronous and are one action each, with the    *)
(* respawn they end in.  restart() and stop() await a child's exit; their  *)
(* continuation is a microtask and runs before the next event.  The model  *)
(* begins when start() has resolved; before that a failure ends the        *)
(* daemon.                                                                 *)
(***************************************************************************)
EXTENDS Naturals

CONSTANTS
  MaxSpawns,    \* bound: children spawned in a run
  MaxRestarts,  \* MAX_RESTARTS_IN_WINDOW
  Callers,      \* restart(), stop() and decline calls in progress
  Windows       \* VS Code windows

ASSUME TunnelAssumption == MaxSpawns \in Nat \ {0} /\ MaxRestarts \in Nat

VARIABLES
  child,      \* child[p]: the process p and the handlers' view of it
  spawned,    \* the number of children so far
  current,    \* currentProcess, or Nothing
  status,     \* what main.ts reports as tunnel_status
  recent,     \* restartTimestamps within the window
  suspended,  \* respawnSuspended
  stopped,    \* intentionallyStopped
  call,       \* call[c]: the restart or stop that c waits for
  tunnelUrl,  \* state.tunnelUrl, or Nothing
  pending,    \* DropRecovery.pending: the URL that waits for the operator
  link,       \* link[w]: w's connection: down, greeted (hello) or registered
  modals      \* modals[w]: the URLs that open modals in w ask about

managerVars == <<child, spawned, current, status, recent, suspended, stopped, call>>

windowVars == <<link, modals>>

recoveryVars == <<tunnelUrl, pending, windowVars>>

tunnelVars == <<managerVars, recoveryVars>>

-----------------------------------------------------------------------------
Children == 1..MaxSpawns

Nothing == 0

ChildRecord ==
  [stage   : {"none", "running", "stopping", "exited"},
   initial : BOOLEAN,   \* spawned by start() or restart(), not by a respawn
   url     : BOOLEAN,   \* urlReceived
   timer   : BOOLEAN]   \* the start timeout runs

Idle == [op |-> "none", step |-> "idle", child |-> Nothing]

TunnelTypeOK ==
  /\ child \in [Children -> ChildRecord]
  /\ spawned \in Children
  /\ current \in Children \cup {Nothing}
  /\ status \in {"up", "degraded", "down"}
  /\ recent \in 0..(MaxRestarts + 1)
  /\ suspended \in BOOLEAN /\ stopped \in BOOLEAN
  /\ link \in [Windows -> {"down", "greeted", "registered"}]
  /\ call \in [Callers -> [op    : {"none", "restart", "decline", "shutdown"},
                           step  : {"idle", "killing", "starting", "done"},
                           child : Children \cup {Nothing}]]
  /\ tunnelUrl \in Children \cup {Nothing} /\ pending \in Children \cup {Nothing}
  /\ modals \in [Windows -> SUBSET Children]

Fresh(initial) ==
  [stage |-> "running", initial |-> initial, url |-> FALSE, timer |-> TRUE]

TunnelInit ==
  /\ child = [p \in Children |->
                IF p = 1 THEN [Fresh(TRUE) EXCEPT !.url = TRUE, !.timer = FALSE]
                ELSE [Fresh(FALSE) EXCEPT !.stage = "none", !.timer = FALSE]]
  /\ spawned = 1
  /\ current = 1
  /\ status = "up"
  /\ recent = 0
  /\ suspended = FALSE
  /\ stopped = FALSE
  /\ call = [c \in Callers |-> Idle]
  /\ tunnelUrl = 1
  /\ pending = Nothing
  /\ link = [w \in Windows |-> "down"]
  /\ modals = [w \in Windows |-> {}]

Stage(p) == child[p].stage

CallAt(c, step) == call[c].step = step

(* The promise of proc.stop() that c awaits is resolved. *)
Killed(c) == CallAt(c, "killing") /\ Stage(call[c].child) = "exited"

(* No microtask is left to run before the next event. *)
Quiet == \A c \in Callers : ~Killed(c)

Closing == \E c \in Callers : call[c].op = "shutdown"

(* proc.stop(): a signal to a child that runs. *)
Told(rec) == IF rec.stage = "running" THEN [rec EXCEPT !.stage = "stopping"] ELSE rec

-----------------------------------------------------------------------------
(* Fault: a child that lingers is not stopped. *)
SpawnBeside(procs, curr, initial) ==
  /\ spawned < MaxSpawns
  /\ spawned' = spawned + 1
  /\ child' = [procs EXCEPT ![spawned + 1] = Fresh(initial)]
  /\ current' = spawned + 1

(* spawnProcess, when the children are procs and the current one is curr,  *)
(* which is told to stop if it still runs.                                 *)
Spawn(procs, curr, initial) ==
  /\ spawned < MaxSpawns
  /\ spawned' = spawned + 1
  /\ child' = [p \in Children |->
                 IF p = spawned + 1 THEN Fresh(initial)
                 ELSE IF p = curr THEN Told(procs[p]) ELSE procs[p]]
  /\ current' = spawned + 1

(* Nothing is spawned. *)
Keep(procs, curr) ==
  /\ child' = procs
  /\ current' = curr
  /\ UNCHANGED spawned

(* Fault: the flags are not looked at. *)
RespawnAnyway(procs, curr) ==
  \E k \in 0..recent :
    /\ recent' = k + 1
    /\ IF recent' > MaxRestarts
       THEN suspended' = TRUE /\ status' = "degraded" /\ Keep(procs, curr)
       ELSE UNCHANGED <<suspended, status>> /\ Spawn(procs, curr, FALSE)

(* attemptRespawn.  Some of the recent restarts have left the window. *)
AttemptRespawn(procs, curr) ==
  \/ /\ suspended \/ stopped
     /\ Keep(procs, curr)
     /\ UNCHANGED <<recent, suspended, status>>
  \/ /\ ~suspended /\ ~stopped
     /\ \E k \in 0..recent :
          /\ recent' = k + 1
          /\ IF recent' > MaxRestarts
             THEN suspended' = TRUE /\ status' = "degraded" /\ Keep(procs, curr)
             ELSE UNCHANGED <<suspended, status>> /\ Spawn(procs, curr, FALSE)

(* initialReject of child p: the restart() that waits for it, if any still *)
(* does, gives up.                                                         *)
RejectRestart(p) ==
  LET waiting == {c \in Callers : CallAt(c, "starting") /\ call[c].child = p} IN
    /\ call' = [c \in Callers |-> IF c \in waiting THEN Idle ELSE call[c]]
    /\ IF waiting = {} THEN UNCHANGED <<suspended, status>>
       ELSE suspended' = TRUE /\ status' = "degraded"
    /\ UNCHANGED recent

(* A child exits, by itself or because it was told to. *)
ChildExits(p) ==
  /\ Quiet
  /\ Stage(p) \in {"running", "stopping"}
  /\ LET procs == [child EXCEPT ![p].stage = "exited", ![p].timer = FALSE]
         curr == IF current = p THEN Nothing ELSE current
     IN  \/ /\ stopped
            /\ Keep(procs, curr)
            /\ UNCHANGED <<recent, suspended, status, call>>
         \/ /\ ~stopped /\ child[p].initial /\ ~child[p].url
            /\ Keep(procs, curr)
            /\ RejectRestart(p)
         \/ /\ ~stopped /\ (~child[p].initial \/ child[p].url)
            /\ AttemptRespawn(procs, curr)
            /\ UNCHANGED call
  /\ UNCHANGED <<stopped, recoveryVars>>

(* The binary cannot be run: an error event, no exit. *)
SpawnError(p) ==
  /\ Quiet
  /\ Stage(p) = "running" /\ ~child[p].url
  /\ child' = [child EXCEPT ![p].stage = "exited"]
  /\ UNCHANGED <<spawned, current, status, recent, suspended, stopped, call, recoveryVars>>

(* Fifteen seconds without a URL. *)
StartTimeout(p) ==
  /\ Quiet
  /\ child[p].timer
  /\ LET procs == [child EXCEPT ![p] = Told([@ EXCEPT !.timer = FALSE])]
         curr == IF current = p THEN Nothing ELSE current
     IN  \/ /\ child[p].initial
            /\ Keep(procs, curr)
            /\ RejectRestart(p)
         \/ /\ ~child[p].initial
            /\ AttemptRespawn(procs, curr)
            /\ UNCHANGED call
  /\ UNCHANGED <<stopped, recoveryVars>>

-----------------------------------------------------------------------------
(* Fault: the URL of a respawn is adopted like that of a restart. *)
UrlAdopted(p) ==
  /\ Quiet
  /\ Stage(p) # "none" /\ ~child[p].url
  /\ child' = [child EXCEPT ![p].url = TRUE, ![p].timer = FALSE]
  /\ status' = "up"
  /\ tunnelUrl' = p
  /\ call' = [c \in Callers |->
                IF CallAt(c, "starting") /\ call[c].child = p THEN Idle ELSE call[c]]
  /\ UNCHANGED <<spawned, current, recent, suspended, stopped, pending, windowVars>>

(* sendRequest: broadcastServerMessage goes to the windows of the active   *)
(* registry, that is to the registered ones.                               *)
Ask(p) ==
  modals' = [w \in Windows |->
               IF link[w] = "registered" THEN modals[w] \cup {p} ELSE modals[w]]

(* A line with the URL is read, possibly after the exit event.  The URL of *)
(* a restart is adopted and returned; that of a respawn waits for the      *)
(* operator, and the windows are asked (onDropRespawn).                    *)
UrlArrives(p) ==
  /\ Quiet
  /\ Stage(p) # "none" /\ ~child[p].url
  /\ child' = [child EXCEPT ![p].url = TRUE, ![p].timer = FALSE]
  /\ status' = "up"
  /\ \/ /\ child[p].initial
        /\ tunnelUrl' = p
        /\ call' = [c \in Callers |->
                      IF CallAt(c, "starting") /\ call[c].child = p THEN Idle ELSE call[c]]
        /\ UNCHANGED <<pending, modals>>
     \/ /\ ~child[p].initial
        /\ pending' = p
        /\ Ask(p)
        /\ UNCHANGED <<tunnelUrl, call>>
  /\ UNCHANGED <<spawned, current, recent, suspended, stopped, link>>

(* restart(): the flags are cleared; a current child is told to stop, and  *)
(* its exit awaited.                                                       *)
Restart(c) ==
  /\ Quiet /\ ~Closing
  /\ call[c] = Idle
  /\ suspended' = FALSE /\ recent' = 0 /\ stopped' = FALSE
  /\ \/ /\ current # Nothing
        /\ call' = [call EXCEPT ![c] = [op |-> "restart", step |-> "killing", child |-> current]]
        /\ Keep([child EXCEPT ![current] = Told(@)], Nothing)
     \/ /\ current = Nothing
        /\ Spawn(child, Nothing, TRUE)
        /\ call' = [call EXCEPT ![c] = [op |-> "restart", step |-> "starting", child |-> spawned']]
  /\ UNCHANGED <<status, recoveryVars>>

RestartGoesOn(c) ==
  /\ Killed(c) /\ call[c].op = "restart"
  /\ Spawn(child, current, TRUE)
  /\ call' = [call EXCEPT ![c].step = "starting", ![c].child = spawned']
  /\ UNCHANGED <<status, recent, suspended, stopped, recoveryVars>>

(* What c has to do when stop() has returned. *)
AfterStop(c, op) ==
  /\ call' = [call EXCEPT ![c] = IF op = "shutdown"
                                 THEN [op |-> op, step |-> "done", child |-> Nothing] ELSE Idle]
  /\ tunnelUrl' = IF op = "decline" THEN Nothing ELSE tunnelUrl

(* stop(): nothing to do, or nothing to wait for, or a child to wait for. *)
Stop(c, op) ==
  /\ call[c] = Idle
  /\ stopped' = TRUE
  /\ \/ /\ current = Nothing
        /\ AfterStop(c, op)
        /\ status' = IF stopped THEN status ELSE "down"
        /\ UNCHANGED <<child, current>>
     \/ /\ current # Nothing
        /\ call' = [call EXCEPT ![c] = [op |-> op, step |-> "killing", child |-> current]]
        /\ child' = [child EXCEPT ![current] = Told(@)]
        /\ current' = Nothing
        /\ UNCHANGED <<status, tunnelUrl>>
  /\ UNCHANGED <<spawned, recent, suspended>>

StopGoesOn(c) ==
  /\ Killed(c) /\ call[c].op # "restart"
  /\ status' = "down"
  /\ AfterStop(c, call[c].op)
  /\ UNCHANGED <<child, spawned, current, recent, suspended, stopped, pending, windowVars>>

(* The tunnel layer of shutdown(), after IPC has been stopped. *)
Shutdown(c) ==
  /\ Quiet /\ ~Closing
  /\ Stop(c, "shutdown")
  /\ UNCHANGED <<pending, windowVars>>

-----------------------------------------------------------------------------
(* hello of an extension: fireIfPending, before the window that connects   *)
(* can have registered.                                                    *)
Hello(w) ==
  /\ Quiet /\ ~Closing
  /\ link[w] = "down"
  /\ link' = [link EXCEPT ![w] = "greeted"]
  /\ IF pending = Nothing THEN UNCHANGED modals ELSE Ask(pending)
  /\ UNCHANGED <<managerVars, tunnelUrl, pending>>

(* register_workspace, or confirm_trust, of a folder no other window has.  *)
Register(w) ==
  /\ Quiet /\ ~Closing
  /\ link[w] = "greeted"
  /\ link' = [link EXCEPT ![w] = "registered"]
  /\ UNCHANGED <<managerVars, tunnelUrl, pending, modals>>

(* The connection closes.  The window keeps its modals, unless it is       *)
(* reloaded, or the request was still on its way.                          *)
WindowDrops(w) ==
  /\ Quiet
  /\ link[w] # "down"
  /\ link' = [link EXCEPT ![w] = "down"]
  /\ \E M \in SUBSET modals[w] : modals' = [modals EXCEPT ![w] = M]
  /\ UNCHANGED <<managerVars, tunnelUrl, pending>>

(* The modal of p closes with an answer that can be sent. *)
Answer(w, p) ==
  /\ Quiet
  /\ p \in modals[w]
  /\ link[w] # "down"
  /\ modals' = [modals EXCEPT ![w] = @ \ {p}]
  /\ UNCHANGED link

(* It is dismissed, or answered while the window is not connected, or the  *)
(* answer is about another URL than the one that waits.                    *)
Dismiss(w, p) ==
  /\ Quiet
  /\ p \in modals[w]
  /\ modals' = [modals EXCEPT ![w] = @ \ {p}]
  /\ UNCHANGED <<managerVars, tunnelUrl, pending, link>>

(* Fault: the request id is not compared. *)
ConfirmAny(w, p) ==
  /\ Answer(w, p)
  /\ pending' = Nothing
  /\ tunnelUrl' = p
  /\ UNCHANGED managerVars

(* onDecision "confirm". *)
Confirm(w, p) ==
  /\ Answer(w, p)
  /\ pending = p
  /\ pending' = Nothing
  /\ tunnelUrl' = p
  /\ UNCHANGED managerVars

(* onDecision "deny". *)
Decline(w, p, c) ==
  /\ Answer(w, p)
  /\ pending = p
  /\ pending' = Nothing
  /\ Stop(c, "decline")

TunnelNext ==
  \/ \E p \in Children :
       \/ ChildExits(p)
       \/ SpawnError(p)
       \/ StartTimeout(p)
       \/ UrlArrives(p)
  \/ \E c \in Callers :
       \/ Restart(c)
       \/ RestartGoesOn(c)
       \/ StopGoesOn(c)
       \/ Shutdown(c)
  \/ \E w \in Windows :
       \/ Hello(w)
       \/ Register(w)
       \/ WindowDrops(w)
       \/ \E p \in Children :
            Dismiss(w, p) \/ Confirm(w, p) \/ \E c \in Callers : Decline(w, p, c)

TunnelSpec == TunnelInit /\ [][TunnelNext]_tunnelVars

-----------------------------------------------------------------------------
(* "Never two concurrent cloudflared for one daemon", as far as the code   *)
(* goes: every child that runs and has not been told to stop is the        *)
(* current one, so at most one is, also when restarts, timeouts and exits  *)
(* overlap; nothing unknown to the manager keeps running.  While it has no *)
(* URL its start timeout runs, so it is not waited for in vain.            *)
OneTunnel ==
  \A p \in Children :
    Stage(p) = "running" => p = current /\ (child[p].url \/ child[p].timer)

(* Never silent adopt: the public URL only becomes one that the operator   *)
(* asked for by a restart, or has confirmed in answer to a modal.          *)
NeverSilentAdopt ==
  [][tunnelUrl' \notin {tunnelUrl, Nothing} =>
       \/ child[tunnelUrl'].initial
       \/ pending = tunnelUrl' /\ \E w \in Windows : tunnelUrl' \in modals[w]]_tunnelVars

(* No respawn by itself after a stop, or once the restart budget is used   *)
(* up: not from the exits and timeouts that are still to come either.      *)
NoUnwantedRespawn ==
  [][\A p \in Children :
       Stage(p) = "none" /\ Stage(p)' = "running" /\ ~child'[p].initial
         => ~stopped /\ ~suspended]_tunnelVars

-----------------------------------------------------------------------------
(* What a comment says and the code does not do.                           *)

(* "When cloudflared exits unexpectedly, TunnelManager spawns a fresh      *)
(* process": the exit of a child the manager itself has told to stop does  *)
(* not spawn another one.                                                  *)
RespawnIsUnexpected ==
  [][\A p \in Children :
       Stage(p) = "stopping" /\ Stage(p)' = "exited" => spawned' = spawned]_tunnelVars
=============================================================================
