--------------------------- MODULE DaemonLifecycle ---------------------------
(***************************************************************************)
(* The daemons of one workspace identity from boot to exit: main() and     *)
(* shutdown() of main.ts, the files they leave (daemon.pid, tunnel.pid,    *)
(* the IPC socket, the advert), reclaimOrphanTunnel, IpcServer.start and   *)
(* stop, and the CLI commands start and stop.  POSIX, per-daemon mode.     *)
(*                                                                         *)
(* A file is a variable; an action is the code from one file operation,    *)
(* probe or other await to the next.  Processes are numbered in the order  *)
(* they are spawned, and files name the process that wrote them, or whose  *)
(* cloudflared they name.  File operations succeed, no pid is reused, and  *)
(* a cloudflared that is told to stop is taken to be gone.                 *)
(***************************************************************************)
EXTENDS Naturals

CONSTANTS
  MaxDaemons,  \* bound: processes spawned in a run
  MaxEntries,  \* bound: times a process enters shutdown()
  Stoppers     \* terminals that run "claude-bridge stop"

ASSUME LifecycleAssumption == MaxDaemons \in Nat \ {0} /\ MaxEntries \in Nat \ {0}

VARIABLES
  pc,           \* pc[p]: how far main() of p is
  entry,        \* entry[p][e]: the layer that the e-th shutdown() of p is at
  ipcClosed,    \* IpcServer.closed
  mcpClosed,    \* McpServer.closed
  advertising,  \* main() of p has bound its socket, its advert is not written
  tunnel,       \* the cloudflared of p runs
  pidChange,    \* what its manager has reported for tunnel.pid, and whether that settled
  declining,    \* the stop() of a declined tunnel waits for the end of the child
  pidFile,      \* daemon.pid
  tunnelPid,    \* tunnel.pid
  addr,         \* the process that bound the socket file
  advert,       \* the advert exists
  start,        \* a start command, the process it has spawned and waits for
  stop,         \* stop[c]: the stop command of c
  sweeping,     \* another daemon has found the advert dead
  contended     \* history: commands have met in a way the code does not order

memVars == <<entry, ipcClosed, mcpClosed, advertising, declining>>

childVars == <<tunnel, pidChange>>

procVars == <<pc, memVars, childVars>>

fileVars == <<pidFile, tunnelPid, addr, advert>>

otherVars == <<start, stop, sweeping, contended>>

vars == <<procVars, fileVars, otherVars>>

-----------------------------------------------------------------------------
Procs == 1..MaxDaemons

Entries == 1..MaxEntries

None == 0

Gone == MaxDaemons + 1  \* a cloudflared that was replaced

TypeOK ==
  /\ pc \in [Procs -> {"none", "starting", "alone", "named", "listening", "reclaimed", "cleared",
                       "tunnel", "ipc", "unlinking", "binding", "up", "ended"}]
  /\ entry \in [Procs -> [Entries -> {"none", "advert", "ipc", "ipc_wait", "mcp",
                                      "mcp_wait", "tunnel", "tunnel_wait", "pid"}]]
  /\ ipcClosed \in [Procs -> BOOLEAN] /\ mcpClosed \in [Procs -> BOOLEAN]
  /\ advertising \in [Procs -> BOOLEAN]
  /\ tunnel \in [Procs -> BOOLEAN] /\ declining \in [Procs -> BOOLEAN]
  /\ pidChange \in [Procs -> {"none", "naming", "named", "removing", "mixed", "unsure"}]
  /\ pidFile \in Procs \cup {None} /\ addr \in Procs \cup {None}
  /\ tunnelPid \in Procs \cup {None, Gone}
  /\ advert \in BOOLEAN /\ sweeping \in BOOLEAN /\ contended \in BOOLEAN
  /\ start \in [step : {"idle", "waiting", "asking"}, pid : Procs \cup {None}]
  /\ stop \in [Stoppers -> [step : {"idle", "sending", "hello", "verifying", "cleaning"},
                            pid  : Procs \cup {None},
                            to   : Procs \cup {None}]]

Init ==
  /\ pc = [p \in Procs |-> "none"]
  /\ entry = [p \in Procs |-> [e \in Entries |-> "none"]]
  /\ ipcClosed = [p \in Procs |-> FALSE]
  /\ mcpClosed = [p \in Procs |-> FALSE]
  /\ advertising = [p \in Procs |-> FALSE]
  /\ tunnel = [p \in Procs |-> FALSE]
  /\ pidChange = [p \in Procs |-> "none"]
  /\ declining = [p \in Procs |-> FALSE]
  /\ pidFile = None /\ tunnelPid = None /\ addr = None
  /\ advert = FALSE
  /\ start = [step |-> "idle", pid |-> None]
  /\ stop = [c \in Stoppers |-> [step |-> "idle", pid |-> None, to |-> None]]
  /\ sweeping = FALSE /\ contended = FALSE

(* process.kill(pid, 0) *)
Alive(p) == p \in Procs /\ pc[p] \notin {"none", "ended"}

(* A connect to the address succeeds. *)
AddrLive == addr # None /\ pc[addr] = "up" /\ ~ipcClosed[addr]

Draining(p) == \E e \in Entries : entry[p][e] # "none"

(* p has booted and nobody has told it to stop. *)
Serving(p) == pc[p] = "up" /\ ~advertising[p] /\ ~Draining(p)

(* A daemon has been started that the pid file does not show yet. *)
Unnamed == \E p \in Procs : pc[p] \in {"starting", "alone"}

Goes(p, to) == pc' = [pc EXCEPT ![p] = to]

(* The process ends, and what it had under way; a write or removal of      *)
(* tunnel.pid that has not settled is lost.                                *)
End(p) ==
  /\ Goes(p, "ended")
  /\ entry' = [entry EXCEPT ![p] = [e \in Entries |-> "none"]]
  /\ ipcClosed' = [ipcClosed EXCEPT ![p] = FALSE]
  /\ mcpClosed' = [mcpClosed EXCEPT ![p] = FALSE]
  /\ advertising' = [advertising EXCEPT ![p] = FALSE]
  /\ declining' = [declining EXCEPT ![p] = FALSE]

-----------------------------------------------------------------------------
(* main(), up to the point where the tunnel has its URL.                   *)

(* One start command at a time is followed, if any. *)
Spawned(p) ==
  \/ start.step = "idle" /\ start' = [step |-> "waiting", pid |-> p]
  \/ UNCHANGED start

(* Fault: the pid file is not looked at. *)
StartUnchecked(p) ==
  /\ pc[p] = "none" /\ \A q \in 1..(p - 1) : pc[q] # "none"
  /\ Goes(p, "starting")
  /\ Spawned(p)
  /\ contended' = (\/ contended
                   \/ Unnamed
                   \/ \E c \in Stoppers : stop[c].step # "idle")
  /\ UNCHANGED <<memVars, childVars, fileVars, stop, sweeping>>

(* startCommand, from a terminal or from a window: refused if the pid file *)
(* names a process that is alive; then it waits for the ready line.        *)
Start(p) ==
  /\ pc[p] = "none" /\ \A q \in 1..(p - 1) : pc[q] # "none"
  /\ ~Alive(pidFile)
  /\ Goes(p, "starting")
  /\ Spawned(p)
  /\ contended' = (\/ contended
                   \/ Unnamed
                   \/ \E c \in Stoppers : stop[c].step # "idle")
  /\ UNCHANGED <<memVars, childVars, fileVars, stop, sweeping>>

(* waitForReady: the line is written after the advert; the child's exit    *)
(* and 15 s without the line end the command, and the child goes on.       *)
WaitForReady ==
  /\ start.step = "waiting"
  /\ \/ /\ pc[start.pid] = "up" /\ ~advertising[start.pid]
        /\ start' = [start EXCEPT !.step = "asking"]
     \/ start' = [step |-> "idle", pid |-> None]
  /\ UNCHANGED <<procVars, fileVars, stop, sweeping, contended>>

(* The status request: the command reports who answers, or fails. *)
Report ==
  /\ start.step = "asking"
  /\ start' = [step |-> "idle", pid |-> None]
  /\ UNCHANGED <<procVars, fileVars, stop, sweeping, contended>>

(* The identity-keyed lock: a live incumbent is left untouched. *)
ProbeIncumbent(p) ==
  /\ pc[p] = "starting"
  /\ IF AddrLive THEN End(p) ELSE Goes(p, "alone") /\ UNCHANGED memVars
  /\ UNCHANGED <<childVars, fileVars, otherVars>>

(* The port of --port is taken: nothing has been written yet. *)
RefusePort(p) ==
  /\ pc[p] = "alone"
  /\ End(p)
  /\ UNCHANGED <<childVars, fileVars, otherVars>>

WritePidFile(p) ==
  /\ pc[p] = "alone"
  /\ Goes(p, "named")
  /\ pidFile' = p
  /\ UNCHANGED <<memVars, childVars, tunnelPid, addr, advert, otherVars>>

(* The stores are loaded and the MCP server listens; what goes wrong in    *)
(* between ends the daemon.                                                *)
Listen(p) ==
  /\ pc[p] = "named"
  /\ (Goes(p, "listening") /\ UNCHANGED memVars) \/ End(p)
  /\ UNCHANGED <<childVars, fileVars, otherVars>>

(* Fault: the pid is read and forgotten. *)
ReclaimNothing(p) ==
  /\ pc[p] = "listening"
  /\ Goes(p, IF tunnelPid = None THEN "cleared" ELSE "reclaimed")
  /\ UNCHANGED <<memVars, childVars, fileVars, otherVars>>

(* reclaimOrphanTunnel reads tunnel.pid and kills what it names, whoever   *)
(* it belongs to, and then removes the file.                               *)
Reclaim(p) ==
  /\ pc[p] = "listening"
  /\ Goes(p, IF tunnelPid = None THEN "cleared" ELSE "reclaimed")
  /\ tunnel' = [q \in Procs |-> tunnel[q] /\ q # tunnelPid]
  /\ UNCHANGED <<memVars, pidChange, fileVars, otherVars>>

ForgetOrphan(p) ==
  /\ pc[p] = "reclaimed"
  /\ Goes(p, "cleared")
  /\ tunnelPid' = None
  /\ UNCHANGED <<memVars, childVars, pidFile, addr, advert, otherVars>>

(* pid_change: a write or a removal of tunnel.pid that nobody awaits.      *)
(* Mixed: an earlier one has not settled, or there is a child by now that  *)
(* it knows nothing of.                                                    *)
Emit(p, kind) ==
  LET mixes == \/ pidChange[p] \in {"naming", "removing", "mixed"}
               \/ kind = "removing" /\ tunnel'[p]
  IN  pidChange' = [pidChange EXCEPT ![p] = IF mixes THEN "mixed" ELSE kind]

(* A child that lingers is told to stop; the spawn may fail. *)
SpawnChild(p) ==
  /\ tunnelPid' = IF tunnelPid = p THEN Gone ELSE tunnelPid
  /\ \E runs \in BOOLEAN :
       /\ tunnel' = [tunnel EXCEPT ![p] = runs]
       /\ Emit(p, IF runs THEN "naming" ELSE "removing")

SpawnTunnel(p) ==
  /\ pc[p] = "cleared"
  /\ Goes(p, "tunnel")
  /\ SpawnChild(p)
  /\ UNCHANGED <<memVars, pidFile, addr, advert, otherVars>>

(* A write or removal settles; which of several is the last is open.       *)
SettlePid(p) ==
  /\ Alive(p)
  /\ \/ /\ pidChange[p] = "naming"
        /\ tunnelPid' = p
        /\ pidChange' = [pidChange EXCEPT ![p] = "named"]
     \/ /\ pidChange[p] = "removing"
        /\ tunnelPid' = None
        /\ pidChange' = [pidChange EXCEPT ![p] = "none"]
     \/ /\ pidChange[p] = "mixed"
        /\ tunnelPid' \in {p, Gone, None}
        /\ pidChange' \in {pidChange, [pidChange EXCEPT ![p] = "unsure"]}
  /\ UNCHANGED <<pc, memVars, tunnel, pidFile, addr, advert, otherVars>>

(* cloudflared reports its URL. *)
TunnelUp(p) ==
  /\ pc[p] = "tunnel" /\ tunnel[p]
  /\ Goes(p, "ipc")
  /\ UNCHANGED <<memVars, childVars, fileVars, otherVars>>

(* It exits or is stopped by the timeout instead: the daemon gives up. *)
TunnelFails(p) ==
  /\ pc[p] = "tunnel"
  /\ End(p)
  /\ tunnel' = [tunnel EXCEPT ![p] = FALSE]
  /\ UNCHANGED <<pidChange, fileVars, otherVars>>

(* Later the manager replaces a child that exited, or that an operator     *)
(* restarts, even while a stop() waits or after it.                        *)
ReplaceTunnel(p) ==
  /\ pc[p] \in {"ipc", "unlinking", "binding", "up"}
  /\ SpawnChild(p)
  /\ UNCHANGED <<pc, memVars, pidFile, addr, advert, otherVars>>

(* It exits, or a restart or the timeout stops it; an orphan may exit, too. *)
TunnelEnds(p) ==
  /\ pc[p] \in {"ipc", "unlinking", "binding", "up", "ended"} /\ tunnel[p]
  /\ tunnel' = [tunnel EXCEPT ![p] = FALSE]
  /\ UNCHANGED <<pc, memVars, pidChange, fileVars, otherVars>>

(* The operator declines the URL of a replaced child: stop() waits for its *)
(* end ...                                                                 *)
DeclineTunnel(p) ==
  /\ pc[p] = "up"
  /\ tunnel' = [tunnel EXCEPT ![p] = FALSE]
  /\ declining' = [declining EXCEPT ![p] = TRUE]
  /\ UNCHANGED <<pc, entry, ipcClosed, mcpClosed, advertising, pidChange,
                 fileVars, otherVars>>

(* ... and reports that there is no child, though a restart may have       *)
(* spawned one by then.                                                    *)
TunnelDeclined(p) ==
  /\ Alive(p) /\ declining[p]
  /\ declining' = [declining EXCEPT ![p] = FALSE]
  /\ UNCHANGED tunnel
  /\ Emit(p, "removing")
  /\ UNCHANGED <<pc, entry, ipcClosed, mcpClosed, advertising, fileVars,
                 otherVars>>

-----------------------------------------------------------------------------
(* IpcServer.start and the rest of main().                                 *)

(* cleanupStaleSocket; the error of a busy address ends the daemon and     *)
(* leaves its cloudflared running.                                         *)
ProbeAddr(p) ==
  /\ pc[p] = "ipc"
  /\ IF AddrLive THEN End(p)
     ELSE Goes(p, IF addr = None THEN "binding" ELSE "unlinking") /\ UNCHANGED memVars
  /\ UNCHANGED <<childVars, fileVars, otherVars>>

(* The probe of the socket file fails with any other error than "refused": *)
(* it is left alone, like a busy one.                                      *)
ProbeUncertain(p) ==
  /\ pc[p] = "ipc" /\ addr # None
  /\ End(p)
  /\ UNCHANGED <<childVars, fileVars, otherVars>>

UnlinkAddr(p) ==
  /\ pc[p] = "unlinking"
  /\ Goes(p, "binding")
  /\ addr' = None
  /\ UNCHANGED <<memVars, childVars, pidFile, tunnelPid, advert, otherVars>>

(* listen(): an address that is in use by now ends the daemon, too. *)
Bind(p) ==
  /\ pc[p] = "binding"
  /\ \/ /\ addr = None
        /\ Goes(p, "up")
        /\ addr' = p
        /\ advertising' = [advertising EXCEPT ![p] = TRUE]
        /\ UNCHANGED <<entry, ipcClosed, mcpClosed, declining>>
        /\ contended' = (contended \/ sweeping)
     \/ /\ addr # None
        /\ End(p)
        /\ UNCHANGED <<addr, contended>>
  /\ UNCHANGED <<childVars, pidFile, tunnelPid, advert, start, stop, sweeping>>

(* A stop that came over the new socket may have removed it already. *)
WriteAdvert(p) ==
  /\ Alive(p) /\ advertising[p]
  /\ advertising' = [advertising EXCEPT ![p] = FALSE]
  /\ advert' = TRUE
  /\ UNCHANGED <<pc, entry, ipcClosed, mcpClosed, declining, childVars,
                 pidFile, tunnelPid, addr, otherVars>>

-----------------------------------------------------------------------------
(* shutdown(), which may be entered again while it runs.                   *)

Enter(p) ==
  IF \E e \in Entries : entry[p][e] = "none"
  THEN LET first == CHOOSE e \in Entries :
                      entry[p][e] = "none" /\ \A d \in 1..(e - 1) : entry[p][d] # "none"
       IN  entry' = [entry EXCEPT ![p][first] = "advert"]
  ELSE UNCHANGED entry

At(p, e, layer) == Alive(p) /\ entry[p][e] = layer

Moves(p, e, layer) == entry' = [entry EXCEPT ![p][e] = layer]

(* SIGTERM or SIGINT, once main() has installed its handlers: from a user, *)
(* or from a stop that has waited for 12 s.                                *)
Signal(p) ==
  /\ pc[p] = "up" /\ ~advertising[p]
  /\ Enter(p)
  /\ UNCHANGED <<pc, ipcClosed, mcpClosed, advertising, declining, childVars,
                 fileVars, otherVars>>

RemoveAdvert(p, e) ==
  /\ At(p, e, "advert")
  /\ Moves(p, e, "ipc")
  /\ advert' = FALSE
  /\ UNCHANGED <<pc, ipcClosed, mcpClosed, advertising, declining, childVars,
                 pidFile, tunnelPid, addr, otherVars>>

(* server.close takes the socket file away at once. *)
StopIpc(p, e) ==
  /\ At(p, e, "ipc")
  /\ Moves(p, e, IF ipcClosed[p] THEN "mcp" ELSE "ipc_wait")
  /\ ipcClosed' = [ipcClosed EXCEPT ![p] = TRUE]
  /\ addr' = IF ipcClosed[p] THEN addr ELSE None
  /\ UNCHANGED <<pc, mcpClosed, advertising, declining, childVars, pidFile,
                 tunnelPid, advert, otherVars>>

(* Its callback comes with the end of the last connection, if the windows  *)
(* ever leave; the file is unlinked again.  The approval, router and       *)
(* consent layers follow.                                                  *)
IpcStopped(p, e) ==
  /\ At(p, e, "ipc_wait")
  /\ Moves(p, e, "mcp")
  /\ addr' = None
  /\ UNCHANGED <<pc, ipcClosed, mcpClosed, advertising, declining, childVars,
                 pidFile, tunnelPid, advert, otherVars>>

StopMcp(p, e) ==
  /\ At(p, e, "mcp")
  /\ Moves(p, e, IF mcpClosed[p] THEN "tunnel" ELSE "mcp_wait")
  /\ mcpClosed' = [mcpClosed EXCEPT ![p] = TRUE]
  /\ UNCHANGED <<pc, ipcClosed, advertising, declining, childVars, fileVars,
                 otherVars>>

(* The last HTTP connection has ended. *)
McpStopped(p, e) ==
  /\ At(p, e, "mcp_wait")
  /\ Moves(p, e, "tunnel")
  /\ UNCHANGED <<pc, ipcClosed, mcpClosed, advertising, declining, childVars,
                 fileVars, otherVars>>

(* TunnelManager.stop waits for the end of the child; a stop() before it   *)
(* has left nothing to do.                                                 *)
StopTunnel(p, e) ==
  /\ At(p, e, "tunnel")
  /\ Moves(p, e, "tunnel_wait") \/ (~tunnel[p] /\ Moves(p, e, "pid"))
  /\ tunnel' = [tunnel EXCEPT ![p] = FALSE]
  /\ UNCHANGED <<pc, ipcClosed, mcpClosed, advertising, pidChange, declining,
                 fileVars, otherVars>>

(* It reports that there is no child; the log layers follow. *)
TunnelStopped(p, e) ==
  /\ At(p, e, "tunnel_wait")
  /\ Moves(p, e, "pid")
  /\ UNCHANGED tunnel
  /\ Emit(p, "removing")
  /\ UNCHANGED <<pc, ipcClosed, mcpClosed, advertising, declining, fileVars,
                 otherVars>>

(* removePidFile, process.exit(0). *)
Exit(p, e) ==
  /\ At(p, e, "pid")
  /\ End(p)
  /\ pidFile' = None
  /\ UNCHANGED <<childVars, tunnelPid, addr, advert, otherVars>>

(* Fault: the timer is armed when the IPC layer has stopped. *)
WatchdogLate(p, e) ==
  /\ At(p, e, "mcp_wait")
  /\ End(p)
  /\ UNCHANGED <<childVars, fileVars, otherVars>>

(* A layer hangs past the budget: process.exit(1), with cloudflared alive. *)
Watchdog(p, e) ==
  /\ At(p, e, "ipc_wait") \/ At(p, e, "mcp_wait") \/ At(p, e, "tunnel_wait")
  /\ End(p)
  /\ UNCHANGED <<childVars, fileVars, otherVars>>

Works(p, e) ==
  \/ RemoveAdvert(p, e) \/ StopIpc(p, e) \/ StopMcp(p, e)
  \/ StopTunnel(p, e) \/ TunnelStopped(p, e) \/ Exit(p, e) \/ Watchdog(p, e)

ClientsLeave(p, e) == IpcStopped(p, e) \/ McpStopped(p, e)

(* A crash, a hard kill, a signal without a handler.  cloudflared lives    *)
(* on, and the socket file stays.                                          *)
Kill(p) ==
  /\ Alive(p)
  /\ End(p)
  /\ UNCHANGED <<childVars, fileVars, otherVars>>

-----------------------------------------------------------------------------
(* stopCommand for this workspace.                                         *)

StopGoes(c, step) == stop' = [stop EXCEPT ![c].step = step]

(* checkStalePid; without a pid file there is nothing to do. *)
StopBegin(c) ==
  /\ stop[c].step = "idle" /\ pidFile # None
  /\ stop' = [stop EXCEPT ![c] = [step |-> IF Alive(pidFile) THEN "sending" ELSE "cleaning",
                                 pid  |-> pidFile, to |-> None]]
  /\ contended' = (contended \/ Unnamed)
  /\ UNCHANGED <<procVars, fileVars, start, sweeping>>

(* sendIpc reaches whoever listens; a refused connection is taken for a    *)
(* daemon that has just ended, though it may be booting or draining.       *)
StopConnects(c) ==
  /\ stop[c].step = "sending"
  /\ IF AddrLive
     THEN stop' = [stop EXCEPT ![c].step = "hello", ![c].to = addr]
     ELSE StopGoes(c, "cleaning")
  /\ contended' = (contended \/ (~AddrLive /\ Alive(stop[c].pid)))
  /\ UNCHANGED <<procVars, fileVars, start, sweeping>>

(* Fault: the acknowledgement is taken for the end of the daemon. *)
StopSendOnly(c) ==
  /\ stop[c].step = "hello" /\ Alive(stop[c].to)
  /\ Enter(stop[c].to)
  /\ StopGoes(c, "cleaning")
  /\ UNCHANGED <<pc, ipcClosed, mcpClosed, advertising, declining, childVars,
                 fileVars, start, sweeping, contended>>

(* hello_ok, stop and stop_ok, also over a socket that has closed since:   *)
(* its connections stay.                                                   *)
StopRequest(c) ==
  /\ stop[c].step = "hello" /\ Alive(stop[c].to)
  /\ Enter(stop[c].to)
  /\ StopGoes(c, "verifying")
  /\ UNCHANGED <<pc, ipcClosed, mcpClosed, advertising, declining, childVars,
                 fileVars, start, sweeping, contended>>

(* The connection closes without a response: taken for its end, too. *)
StopLost(c) ==
  /\ stop[c].step = "hello" /\ ~Alive(stop[c].to)
  /\ StopGoes(c, "cleaning")
  /\ contended' = (contended \/ Alive(stop[c].pid))
  /\ UNCHANGED <<procVars, fileVars, start, sweeping>>

(* waitForExit; its escalation is a Signal or a Kill. *)
StopVerified(c) ==
  /\ stop[c].step = "verifying" /\ ~Alive(stop[c].pid)
  /\ StopGoes(c, "cleaning")
  /\ UNCHANGED <<procVars, fileVars, start, sweeping, contended>>

StopCleans(c) ==
  /\ stop[c].step = "cleaning"
  /\ stop' = [stop EXCEPT ![c] = [step |-> "idle", pid |-> None, to |-> None]]
  /\ pidFile' = None
  /\ UNCHANGED <<procVars, tunnelPid, addr, advert, start, sweeping, contended>>

(* sweepAdverts of a daemon of another workspace that boots: the handshake *)
(* has failed twice ...                                                    *)
SweepProbe ==
  /\ advert /\ ~AddrLive /\ ~sweeping
  /\ sweeping' = TRUE
  /\ UNCHANGED <<procVars, fileVars, start, stop, contended>>

(* ... and the advert, whoever has written it by now, is unlinked.         *)
SweepUnlink ==
  /\ sweeping
  /\ sweeping' = FALSE
  /\ advert' = FALSE
  /\ UNCHANGED <<procVars, pidFile, tunnelPid, addr, start, stop, contended>>

-----------------------------------------------------------------------------
Next ==
  \/ \E p \in Procs :
       \/ Start(p) \/ ProbeIncumbent(p) \/ RefusePort(p)
       \/ WritePidFile(p) \/ Listen(p)
       \/ Reclaim(p) \/ ForgetOrphan(p)
       \/ SpawnTunnel(p) \/ SettlePid(p) \/ TunnelUp(p) \/ TunnelFails(p)
       \/ ReplaceTunnel(p) \/ TunnelEnds(p) \/ DeclineTunnel(p) \/ TunnelDeclined(p)
       \/ ProbeAddr(p) \/ ProbeUncertain(p) \/ UnlinkAddr(p) \/ Bind(p) \/ WriteAdvert(p)
       \/ Signal(p) \/ Kill(p)
       \/ \E e \in Entries : Works(p, e) \/ ClientsLeave(p, e)
  \/ \E c \in Stoppers : 
       \/ StopBegin(c) \/ StopConnects(c) \/ StopRequest(c) \/ StopLost(c)
       \/ StopVerified(c) \/ StopCleans(c)
  \/ WaitForReady \/ Report
  \/ SweepProbe \/ SweepUnlink

Spec == Init /\ [][Next]_vars

(* shutdown() goes on, or its watchdog fires; no client need ever leave.   *)
FairSpec == Spec /\ \A p \in Procs, e \in Entries : WF_vars(Works(p, e))

(* Bounds on the search: of the behaviours in which commands have          *)
(* contended only those in which nobody shuts down; a start command is     *)
(* followed as long as nobody runs a stop command and no daemon but its    *)
(* own, when it is asked, shuts down; the reports of a manager overlap     *)
(* only while no command is under way.                                     *)
Orderly ==
  /\ contended => \A p \in Procs : ~Draining(p)
  /\ start.step # "idle" =>
       /\ \A c \in Stoppers : stop[c].step = "idle"
       /\ \A p \in Procs : Draining(p) => start.step = "asking" /\ p = start.pid
  /\ \A p \in Procs : Alive(p) /\ pidChange[p] \in {"mixed", "unsure"} =>
       /\ start.step = "idle" /\ \A c \in Stoppers : stop[c].step = "idle"
       /\ ~contended

-----------------------------------------------------------------------------
(* After any sequence of crashes, failed boots, watchdog exits, starts and *)
(* stops, a daemon that serves can be found and stopped: daemon.pid, the   *)
(* socket and the advert are its own, and no other daemon serves.          *)
Findable ==
  \A p \in Procs :
    Serving(p) /\ ~contended => pidFile = p /\ addr = p /\ advert

(* The cloudflared of a daemon that is gone can be reclaimed: tunnel.pid   *)
(* names it, unless the daemon died before it could write the pid, or the  *)
(* reports of its manager have overlapped, or the late one of a stop()     *)
(* followed a restart.  Else there is never more than one such orphan.     *)
OrphanIsReclaimable ==
  \A p \in Procs :
    tunnel[p] /\ ~Alive(p) /\ pidChange[p] \notin {"naming", "mixed", "unsure"} /\ ~contended
      => tunnelPid = p

(* A start command that says the daemon is up has been answered by the     *)
(* daemon it has spawned; if by another, its own has ended since.          *)
ReportIsTrue ==
  [][start.step = "asking" /\ start'.step = "idle" /\ AddrLive /\ ~contended
       => addr = start.pid \/ ~Alive(start.pid)]_vars

(* A shutdown that has begun ends the process, whatever windows and        *)
(* requests are connected and however often it is entered.                 *)
ShutdownEnds == \A p \in Procs : Draining(p) ~> ~Alive(p)
=============================================================================
