----------------------------- MODULE Daemon_proofs -----------------------------
(***************************************************************************)
(* Proofs about DaemonLifecycle and Tunnel, for every value of their       *)
(* constants: types; Findable, OrphanIsReclaimable and ReportIsTrue;       *)
(* OneTunnel, NeverSilentAdopt and NoUnwantedRespawn.                      *)
(***************************************************************************)
EXTENDS DaemonLifecycle, Tunnel, TLAPS

(***************************************************************************)
(* The lifecycle.  Its properties speak of commands that have not met in   *)
(* a way the code leaves open, and none is inductive.  What makes them so  *)
(* is Order: at most one daemon is alive at a time, it is the one that     *)
(* daemon.pid names once it has written it, and a stop command that is     *)
(* under way knows it.                                                     *)
(***************************************************************************)
Layers == {"none", "advert", "ipc", "ipc_wait", "mcp", "mcp_wait", "tunnel", "tunnel_wait",
           "pid"}

StopSteps == {"idle", "sending", "hello", "verifying", "cleaning"}

StopState == [step : StopSteps, pid : Procs \cup {None}, to : Procs \cup {None}]

(* The daemon has read tunnel.pid and killed what it named.                *)
Reclaimed == {"reclaimed", "cleared", "tunnel", "ipc", "unlinking", "binding", "up"}

HasSpawned == {"tunnel", "ipc", "unlinking", "binding", "up", "ended"}

(* Only a daemon that has booted shuts down, only shutdown() closes the    *)
(* IPC server, and there is a cloudflared only of one that spawned it.     *)
BootInv ==
  \A p \in Procs :
    /\ Draining(p) => pc[p] \in {"up", "ended"}
    /\ ipcClosed[p] => Draining(p)
    /\ tunnel[p] \/ pidChange[p] # "none" \/ declining[p] => pc[p] \in HasSpawned

(* A stop command is connected to a daemon that listens or did.            *)
StopInv ==
  \A c \in Stoppers :
    stop[c].step = "hello" => stop[c].to \in Procs /\ pc[stop[c].to] \in {"up", "ended"}

OneAlive == \A p, q \in Procs : Alive(p) /\ Alive(q) => p = q

(* The pid file is that of the daemon that is alive, from its write on.    *)
PidFileNames == \A p \in Procs : Alive(p) /\ pc[p] \notin {"starting", "alone"} => pidFile = p

(* The daemon that is alive while a stop command runs is the one that the  *)
(* command has read the pid of; when it cleans up, there is none.          *)
StopSees ==
  \A c \in Stoppers, p \in Procs :
    stop[c].step # "idle" /\ Alive(p) =>
      /\ p = stop[c].pid
      /\ pc[p] \notin {"starting", "alone"}
      /\ stop[c].step # "cleaning"

(* A daemon that is up owns the address, and no sweep is after its advert. *)
Found ==
  \A p \in Procs :
    pc[p] = "up" /\ ~Draining(p) => addr = p /\ ~sweeping /\ (advert \/ advertising[p])

(* A cloudflared that runs has been reported; tunnel.pid names it if the   *)
(* write has settled and nothing has come between; and after a reclaim     *)
(* that can be said of no child of a daemon before.                        *)
OrphanInv ==
  \A p \in Procs :
    /\ tunnel[p] => pidChange[p] \in {"naming", "named", "mixed", "unsure"}
    /\ tunnel[p] /\ pidChange[p] = "named" => tunnelPid = p
    /\ pc[p] \in Reclaimed => \A q \in Procs : q # p /\ tunnel[q] => pidChange[q] # "named"

Order == OneAlive /\ PidFileNames /\ StopSees /\ Found /\ OrphanInv

LInv == TypeOK /\ BootInv /\ StopInv /\ (~contended => Order)

-----------------------------------------------------------------------------
LEMMA StopTyped == TypeOK => stop \in [Stoppers -> StopState]
  BY DEF TypeOK, memVars, childVars, StopState, StopSteps

(* An entry of shutdown() disturbs nothing but who is draining.            *)
LEMMA EnterEffect ==
  ASSUME TypeOK, NEW p \in Procs, Enter(p)
  PROVE  /\ entry' \in [Procs -> [Entries -> Layers]]
         /\ \A q \in Procs : Draining(q) => Draining(q)'
         /\ \A q \in Procs : Draining(q)' => Draining(q) \/ q = p
<1> DEFINE first == CHOOSE e \in Entries :
                      entry[p][e] = "none" /\ \A d \in 1..(e - 1) : entry[p][d] # "none"
<1>1. CASE entry' = [entry EXCEPT ![p][first] = "advert"]
  BY <1>1 DEF TypeOK, memVars, childVars, Draining, Layers
<1>2. CASE entry' = entry
  BY <1>2 DEF TypeOK, memVars, childVars, Draining, Layers
<1> QED BY <1>1, <1>2, Zenon DEF Enter

(* A process that ends forgets what it had under way.                      *)
LEMMA EndEffect ==
  ASSUME TypeOK, NEW p \in Procs, End(p)
  PROVE  /\ pc' = [pc EXCEPT ![p] = "ended"]
         /\ entry' \in [Procs -> [Entries -> Layers]]
         /\ ipcClosed' \in [Procs -> BOOLEAN] /\ mcpClosed' \in [Procs -> BOOLEAN]
         /\ advertising' \in [Procs -> BOOLEAN] /\ declining' \in [Procs -> BOOLEAN]
         /\ ~Draining(p)' /\ ~ipcClosed'[p]
         /\ \A q \in Procs \ {p} : /\ Draining(q)' <=> Draining(q)
                                  /\ ipcClosed'[q] = ipcClosed[q]
                                  /\ advertising'[q] = advertising[q]
                               /\ declining'[q] = declining[q]
                                  /\ declining'[q] = declining[q]
<1>1. /\ pc' = [pc EXCEPT ![p] = "ended"]
      /\ entry' = [entry EXCEPT ![p] = [e \in Entries |-> "none"]]
      /\ entry \in [Procs -> [Entries -> Layers]]
  BY DEF End, Goes, TypeOK, Layers
<1>2. entry' \in [Procs -> [Entries -> Layers]]
  BY <1>1 DEF Layers
<1>3. ~Draining(p)' /\ \A q \in Procs \ {p} : Draining(q)' <=> Draining(q)
  BY <1>1 DEF Draining
<1>4. /\ ipcClosed' \in [Procs -> BOOLEAN] /\ mcpClosed' \in [Procs -> BOOLEAN]
      /\ advertising' \in [Procs -> BOOLEAN] /\ declining' \in [Procs -> BOOLEAN]
      /\ ~ipcClosed'[p]
      /\ \A q \in Procs \ {p} : /\ ipcClosed'[q] = ipcClosed[q]
                               /\ advertising'[q] = advertising[q]
                               /\ declining'[q] = declining[q]
  BY DEF End, TypeOK
<1> QED BY <1>1, <1>2, <1>3, <1>4

(* A process that ends with what it had under way, whatever becomes of its *)
(* child and the pid file.                                                 *)
LEMMA EndingKeeps ==
  ASSUME LInv, NEW p \in Procs, Alive(p), End(p),
         tunnel' \in [Procs -> BOOLEAN], \A q \in Procs : tunnel'[q] => tunnel[q],
         pidFile' \in {pidFile, None},
         UNCHANGED <<pidChange, tunnelPid, addr, advert, otherVars>>
  PROVE  LInv'
<1>1. TypeOK /\ BootInv /\ StopInv /\ (~contended => Order)
  BY DEF LInv
<1> DEFINE Same(q) == /\ Draining(q)' <=> Draining(q)
                      /\ ipcClosed'[q] = ipcClosed[q]
                      /\ advertising'[q] = advertising[q]
                      /\ declining'[q] = declining[q]
<1>2. /\ pc' = [pc EXCEPT ![p] = "ended"]
      /\ entry' \in [Procs -> [Entries -> Layers]]
      /\ ipcClosed' \in [Procs -> BOOLEAN] /\ mcpClosed' \in [Procs -> BOOLEAN]
      /\ advertising' \in [Procs -> BOOLEAN] /\ declining' \in [Procs -> BOOLEAN]
      /\ ~Draining(p)' /\ ~ipcClosed'[p]
      /\ \A q \in Procs \ {p} : Same(q)
  BY <1>1, EndEffect
<1>3. /\ \A q \in Procs : pc'[q] = IF q = p THEN "ended" ELSE pc[q]
      /\ pc' \in [Procs -> {"none", "starting", "alone", "named", "listening", "reclaimed",
                           "cleared", "tunnel", "ipc", "unlinking", "binding", "up", "ended"}]
  BY <1>1, <1>2 DEF TypeOK
<1>4. TypeOK'
  BY <1>1, <1>2, <1>3 DEF TypeOK, Layers, otherVars
<1> HIDE DEF Same
<1>5. BootInv'
  BY <1>1, <1>2, <1>3 DEF BootInv, HasSpawned, Same
<1>6. StopInv'
  BY <1>1, <1>3 DEF StopInv, otherVars
<1>7. ASSUME ~contended' PROVE Order'
  <2>1. OneAlive /\ PidFileNames /\ StopSees /\ Found /\ OrphanInv
    BY <1>1, <1>7 DEF Order, otherVars
  <2>2. \A q \in Procs : Alive(q)' => FALSE
    BY <1>3, <2>1 DEF OneAlive, Alive
  <2>3. OneAlive' /\ PidFileNames' /\ StopSees'
    BY <2>2 DEF OneAlive, PidFileNames, StopSees
  <2>4. Found'
    BY <1>3, <2>2 DEF Found, Alive
  <2>5. OrphanInv'
    <3>1. \A q \in Procs : pc'[q] \notin Reclaimed
      BY <1>3, <2>2 DEF Alive, Reclaimed
    <3> QED BY <2>1, <3>1 DEF OrphanInv
  <2> QED BY <2>3, <2>4, <2>5 DEF Order
<1> QED BY <1>4, <1>5, <1>6, <1>7 DEF LInv

(* What the manager does changes only its child, its reports, tunnel.pid   *)
(* and how far shutdown() is.                                              *)
LEMMA ManagerStep ==
  ASSUME LInv, TypeOK', NEW p \in Procs, pc[p] \in Reclaimed \cap HasSpawned,
         \A q \in Procs : Draining(q)' <=> Draining(q),
         \A q \in Procs \ {p} : /\ tunnel'[q] = tunnel[q] /\ pidChange'[q] = pidChange[q]
                               /\ declining'[q] = declining[q],
         tunnel'[p] /\ ~contended =>
            /\ pidChange'[p] \in {"naming", "named", "mixed", "unsure"}
            /\ pidChange'[p] = "named" => tunnelPid' = p,
         UNCHANGED <<pc, ipcClosed, advertising, pidFile, addr, advert, otherVars>>
  PROVE  LInv'
<1>1. TypeOK /\ BootInv /\ StopInv /\ (~contended => Order)
  BY DEF LInv
<1>2. BootInv'
  BY <1>1 DEF BootInv
<1>3. StopInv'
  BY <1>1 DEF StopInv, otherVars
<1>4. ASSUME ~contended' PROVE Order'
  <2>1. ~contended /\ OneAlive /\ PidFileNames /\ StopSees /\ Found /\ OrphanInv
    BY <1>1, <1>4 DEF Order, otherVars
  <2>2. OneAlive' /\ PidFileNames' /\ StopSees'
    BY <2>1 DEF OneAlive, PidFileNames, StopSees, Alive, otherVars
  <2>3. Found'
    BY <2>1 DEF Found, otherVars
  <2>4. OrphanInv'
    <3>1. \A q \in Procs : pc[q] \in Reclaimed => q = p
      BY <2>1 DEF OneAlive, Alive, Reclaimed
    <3>2. \A q \in Procs \ {p} : tunnel[q] => pidChange[q] # "named"
      BY <2>1 DEF OrphanInv
    <3> QED BY <2>1, <3>1, <3>2 DEF OrphanInv
  <2> QED BY <2>2, <2>3, <2>4 DEF Order
<1> QED BY <1>2, <1>3, <1>4 DEF LInv

(* A report: a child that runs is being named, or reports are mixed.       *)
LEMMA EmitEffect ==
  ASSUME TypeOK, tunnel' \in [Procs -> BOOLEAN], NEW p \in Procs,
         NEW kind \in {"naming", "removing"}, Emit(p, kind)
  PROVE  /\ pidChange' \in [Procs -> {"none", "naming", "named", "removing", "mixed", "unsure"}]
         /\ \A q \in Procs \ {p} : pidChange'[q] = pidChange[q]
         /\ tunnel'[p] => pidChange'[p] \in {"naming", "mixed"}
  BY DEF Emit, TypeOK

LEMMA SpawnChildEffect ==
  ASSUME TypeOK, NEW p \in Procs, SpawnChild(p)
  PROVE  /\ tunnel' \in [Procs -> BOOLEAN] /\ tunnelPid' \in Procs \cup {None, Gone}
         /\ pidChange' \in [Procs -> {"none", "naming", "named", "removing", "mixed", "unsure"}]
         /\ \A q \in Procs \ {p} : tunnel'[q] = tunnel[q] /\ pidChange'[q] = pidChange[q]
         /\ tunnel'[p] => pidChange'[p] \in {"naming", "mixed"}
<1>1. PICK runs \in BOOLEAN : /\ tunnel' = [tunnel EXCEPT ![p] = runs]
                              /\ Emit(p, IF runs THEN "naming" ELSE "removing")
  BY DEF SpawnChild
<1>2. /\ tunnel' \in [Procs -> BOOLEAN]
      /\ \A q \in Procs \ {p} : tunnel'[q] = tunnel[q]
  BY <1>1 DEF TypeOK
<1>3. tunnelPid' \in Procs \cup {None, Gone}
  BY DEF SpawnChild, TypeOK
<1> QED BY <1>1, <1>2, <1>3, EmitEffect

(* One lemma for each action that several parts of LInv depend on.        *)
LEMMA BindKeeps ==
  ASSUME LInv, NEW p \in Procs, Bind(p)
  PROVE  LInv'
<1>0. pc[p] = "binding" /\ UNCHANGED <<childVars, pidFile, tunnelPid, advert, start, stop,
                                     sweeping>>
  BY DEF Bind
<1>1. TypeOK /\ BootInv /\ StopInv /\ (~contended => Order)
  BY DEF LInv
<1>2. CASE End(p) /\ UNCHANGED <<addr, contended>>
  BY <1>0, <1>1, <1>2, EndingKeeps DEF Alive, TypeOK, childVars, otherVars
<1>3. CASE /\ Goes(p, "up") /\ addr' = p
           /\ advertising' = [advertising EXCEPT ![p] = TRUE]
           /\ UNCHANGED <<entry, ipcClosed, mcpClosed, declining>>
           /\ contended' = (contended \/ sweeping)
  <2>1. TypeOK'
    BY <1>0, <1>1, <1>3, LifecycleAssumption DEF TypeOK, memVars, childVars, Goes, Alive, None
  <2>2. BootInv'
    BY <1>0, <1>1, <1>3, LifecycleAssumption DEF TypeOK, memVars, childVars, BootInv,
      StopInv, Goes, Alive, HasSpawned, Draining, AddrLive
  <2>3. StopInv'
    BY <1>0, <1>1, <1>3, LifecycleAssumption DEF TypeOK, memVars, childVars, BootInv,
      StopInv, Goes, Alive, AddrLive
  <2>4. ASSUME ~contended' PROVE OneAlive'
    BY <1>0, <1>1, <1>3, LifecycleAssumption, <2>4 DEF TypeOK, memVars, childVars, OneAlive,
      PidFileNames, Goes, Alive, Unnamed, Order
  <2>5. ASSUME ~contended' PROVE PidFileNames'
    BY <1>0, <1>1, <1>3, LifecycleAssumption, <2>5 DEF TypeOK, memVars, childVars, OneAlive,
      PidFileNames, StopSees, Goes, Alive, Unnamed, Order
  <2>6. ASSUME ~contended' PROVE StopSees'
    BY <1>0, <1>1, <1>3, LifecycleAssumption, <2>6 DEF TypeOK, memVars, childVars, OneAlive,
      PidFileNames, StopSees, Goes, Alive, Unnamed, Order
  <2>7. ASSUME ~contended' PROVE Found'
    <3>1. /\ TypeOK /\ BootInv /\ OneAlive /\ ~sweeping'
      BY <1>0, <1>1, <1>3, <2>7 DEF Order, TypeOK
    <3>2. ASSUME NEW q \in Procs, pc'[q] = "up" PROVE q = p
      BY <1>0, <1>3, <3>1, <3>2 DEF TypeOK, memVars, childVars, OneAlive, Alive, Goes
    <3>3. addr' = p /\ advertising'[p]
      BY <1>3, <3>1 DEF TypeOK, memVars, childVars
    <3> QED BY <3>1, <3>2, <3>3 DEF Found
  <2>8. ASSUME ~contended' PROVE OrphanInv'
    BY <1>0, <1>1, <1>3, LifecycleAssumption, <2>8 DEF TypeOK, memVars, childVars, BootInv,
      OneAlive, OrphanInv, Goes, Alive, Reclaimed, HasSpawned, Order
  <2> QED BY <2>1, <2>2, <2>3, <2>4, <2>5, <2>6, <2>7, <2>8 DEF LInv, Order
<1> QED BY <1>2, <1>3 DEF Bind

LEMMA ForgetOrphanKeeps ==
  ASSUME LInv, NEW p \in Procs, ForgetOrphan(p)
  PROVE  LInv'
<1>1. TypeOK /\ BootInv /\ StopInv /\ (~contended => Order)
  BY DEF LInv
<1>2. TypeOK'
  BY <1>1, LifecycleAssumption DEF TypeOK, memVars, childVars, ForgetOrphan, Goes, None,
    otherVars
<1>3. BootInv' /\ StopInv'
  BY <1>1, LifecycleAssumption DEF TypeOK, memVars, childVars, BootInv, StopInv,
    ForgetOrphan, AddrLive, Draining, Goes, HasSpawned, otherVars
<1>4. ASSUME ~contended'
      PROVE  OneAlive' /\ PidFileNames' /\ StopSees'
  BY <1>1, <1>4, LifecycleAssumption DEF TypeOK, memVars, childVars, OneAlive, PidFileNames,
    StopSees, ForgetOrphan, Alive, Goes, Unnamed, otherVars, Order
<1>5. ASSUME ~contended'
      PROVE  Found' /\ OrphanInv'
  BY <1>1, <1>5, LifecycleAssumption DEF TypeOK, memVars, childVars, BootInv, OneAlive,
    Found, OrphanInv, ForgetOrphan, AddrLive, Alive, Draining, Goes, HasSpawned, Reclaimed,
    otherVars, Order
<1> QED BY <1>2, <1>3, <1>4, <1>5 DEF LInv, Order

LEMMA ListenKeeps ==
  ASSUME LInv, NEW p \in Procs, Listen(p)
  PROVE  LInv'
<1>0. pc[p] = "named" /\ UNCHANGED <<childVars, fileVars, otherVars>>
  BY DEF Listen
<1>1. TypeOK /\ BootInv /\ StopInv /\ (~contended => Order)
  BY DEF LInv
<1>2. CASE End(p)
  BY <1>0, <1>1, <1>2, EndingKeeps DEF Alive, TypeOK, childVars, fileVars
<1>3. CASE Goes(p, "listening") /\ UNCHANGED memVars
  <2>1. TypeOK'
    BY <1>0, <1>1, <1>3, LifecycleAssumption DEF TypeOK, memVars, childVars, Goes, Alive,
      fileVars, otherVars, None
  <2>2. BootInv'
    BY <1>0, <1>1, <1>3, LifecycleAssumption DEF TypeOK, memVars, childVars, BootInv,
      StopInv, Goes, Alive, fileVars, otherVars, HasSpawned, Draining, AddrLive
  <2>3. StopInv'
    BY <1>0, <1>1, <1>3, LifecycleAssumption DEF TypeOK, memVars, childVars, BootInv,
      StopInv, Goes, Alive, fileVars, otherVars, AddrLive
  <2>4. ASSUME ~contended' PROVE OneAlive'
    BY <1>0, <1>1, <1>3, LifecycleAssumption, <2>4 DEF TypeOK, memVars, childVars, OneAlive,
      PidFileNames, Goes, Alive, fileVars, otherVars, Unnamed, Order
  <2>5. ASSUME ~contended' PROVE PidFileNames'
    BY <1>0, <1>1, <1>3, LifecycleAssumption, <2>5 DEF TypeOK, memVars, childVars, OneAlive,
      PidFileNames, StopSees, Goes, Alive, fileVars, otherVars, Unnamed, Order
  <2>6. ASSUME ~contended' PROVE StopSees'
    BY <1>0, <1>1, <1>3, LifecycleAssumption, <2>6 DEF TypeOK, memVars, childVars, OneAlive,
      PidFileNames, StopSees, Goes, Alive, fileVars, otherVars, Unnamed, Order
  <2>7. ASSUME ~contended' PROVE Found'
    BY <1>0, <1>1, <1>3, LifecycleAssumption, <2>7 DEF TypeOK, memVars, childVars, BootInv,
      OneAlive, Found, Goes, Alive, fileVars, otherVars, Draining, AddrLive, Order
  <2>8. ASSUME ~contended' PROVE OrphanInv'
    BY <1>0, <1>1, <1>3, LifecycleAssumption, <2>8 DEF TypeOK, memVars, childVars, BootInv,
      OneAlive, OrphanInv, Goes, Alive, fileVars, otherVars, Reclaimed, HasSpawned, Order
  <2> QED BY <2>1, <2>2, <2>3, <2>4, <2>5, <2>6, <2>7, <2>8 DEF LInv, Order
<1> QED BY <1>2, <1>3 DEF Listen

LEMMA SpawnTunnelKeeps ==
  ASSUME LInv, NEW p \in Procs, SpawnTunnel(p)
  PROVE  LInv'
<1>0. /\ pc[p] = "cleared" /\ pc' = [pc EXCEPT ![p] = "tunnel"]
      /\ UNCHANGED <<memVars, pidFile, addr, advert, otherVars>>
  BY DEF SpawnTunnel, Goes
<1>1. TypeOK /\ BootInv /\ StopInv /\ (~contended => Order)
  BY DEF LInv
<1>2. /\ tunnel' \in [Procs -> BOOLEAN] /\ tunnelPid' \in Procs \cup {None, Gone}
      /\ pidChange' \in [Procs -> {"none", "naming", "named", "removing", "mixed", "unsure"}]
      /\ \A q \in Procs \ {p} : tunnel'[q] = tunnel[q] /\ pidChange'[q] = pidChange[q]
      /\ tunnel'[p] => pidChange'[p] \in {"naming", "mixed"}
  BY <1>1, SpawnChildEffect DEF SpawnTunnel
<1>3. /\ \A q \in Procs : pc'[q] = IF q = p THEN "tunnel" ELSE pc[q]
      /\ pc' \in [Procs -> {"none", "starting", "alone", "named", "listening", "reclaimed",
                           "cleared", "tunnel", "ipc", "unlinking", "binding", "up", "ended"}]
  BY <1>0, <1>1 DEF TypeOK
<1>4. TypeOK'
  BY <1>0, <1>1, <1>2, <1>3 DEF TypeOK, memVars, otherVars
<1>5. BootInv' /\ StopInv'
  BY <1>0, <1>1, <1>2, <1>3 DEF BootInv, StopInv, Draining, HasSpawned, memVars, otherVars
<1>6. ASSUME ~contended' PROVE Order'
  <2>1. OneAlive /\ PidFileNames /\ StopSees /\ Found /\ OrphanInv
    BY <1>0, <1>1, <1>6 DEF Order, otherVars
  <2>2. OneAlive' /\ PidFileNames' /\ StopSees'
    BY <1>0, <1>3, <2>1 DEF OneAlive, PidFileNames, StopSees, Alive, otherVars
  <2>3. Found'
    BY <1>0, <1>3, <2>1 DEF Found, Draining, memVars, otherVars
  <2>4. OrphanInv'
    <3>1. \A q \in Procs : pc'[q] \in Reclaimed => q = p
      BY <1>0, <1>3, <2>1 DEF OneAlive, Alive, Reclaimed
    <3>2. \A q \in Procs \ {p} : tunnel[q] => pidChange[q] # "named"
      BY <1>0, <2>1 DEF OrphanInv, Reclaimed
    <3> QED BY <1>2, <2>1, <3>1, <3>2 DEF OrphanInv
  <2> QED BY <2>2, <2>3, <2>4 DEF Order
<1> QED BY <1>4, <1>5, <1>6 DEF LInv

LEMMA SettlePidKeeps ==
  ASSUME LInv, NEW p \in Procs, SettlePid(p)
  PROVE  LInv'
<1>0. Alive(p) /\ UNCHANGED <<pc, memVars, tunnel, pidFile, addr, advert, otherVars>>
  BY DEF SettlePid
<1>1. TypeOK /\ BootInv
  BY DEF LInv
<1>2. pidChange[p] # "none"
  BY DEF SettlePid
<1>3. pc[p] \in Reclaimed \cap HasSpawned
  BY <1>0, <1>1, <1>2 DEF BootInv, Alive, HasSpawned, Reclaimed
<1>4. CASE /\ pidChange[p] = "naming" /\ tunnelPid' = p
           /\ pidChange' = [pidChange EXCEPT ![p] = "named"]
  <2>1. TypeOK'
    BY <1>0, <1>1, <1>4 DEF TypeOK, memVars, otherVars
  <2> QED BY <1>0, <1>1, <1>3, <1>4, <2>1, ManagerStep DEF TypeOK, memVars, Draining
<1>5. CASE /\ pidChange[p] = "removing" /\ tunnelPid' = None
           /\ pidChange' = [pidChange EXCEPT ![p] = "none"]
  <2>1. TypeOK'
    BY <1>0, <1>1, <1>5 DEF TypeOK, memVars, otherVars
  <2>2. ~contended => ~tunnel[p]
    BY <1>5 DEF LInv, Order, OrphanInv
  <2> QED BY <1>0, <1>1, <1>3, <1>5, <2>1, <2>2, ManagerStep DEF TypeOK, memVars, Draining
<1>6. CASE /\ pidChange[p] = "mixed" /\ tunnelPid' \in {p, Gone, None}
           /\ pidChange' \in {pidChange, [pidChange EXCEPT ![p] = "unsure"]}
  <2>1. TypeOK'
    BY <1>0, <1>1, <1>6 DEF TypeOK, memVars, otherVars
  <2>2. /\ pidChange'[p] \in {"mixed", "unsure"}
        /\ \A q \in Procs \ {p} : pidChange'[q] = pidChange[q]
    BY <1>1, <1>6 DEF TypeOK
  <2> QED BY <1>0, <1>1, <1>3, <2>1, <2>2, ManagerStep DEF memVars, Draining
<1> QED BY <1>4, <1>5, <1>6 DEF SettlePid

LEMMA ReplaceTunnelKeeps ==
  ASSUME LInv, NEW p \in Procs, ReplaceTunnel(p)
  PROVE  LInv'
<1>0. UNCHANGED <<pc, memVars, pidFile, addr, advert, otherVars>>
  BY DEF ReplaceTunnel
<1>1. TypeOK
  BY DEF LInv
<1>2. pc[p] \in Reclaimed \cap HasSpawned
  BY DEF ReplaceTunnel, Reclaimed, HasSpawned
<1>3. /\ tunnel' \in [Procs -> BOOLEAN] /\ tunnelPid' \in Procs \cup {None, Gone}
      /\ pidChange' \in [Procs -> {"none", "naming", "named", "removing", "mixed", "unsure"}]
      /\ \A q \in Procs \ {p} : tunnel'[q] = tunnel[q] /\ pidChange'[q] = pidChange[q]
      /\ tunnel'[p] => pidChange'[p] \in {"naming", "mixed"}
  BY <1>1, SpawnChildEffect DEF ReplaceTunnel
<1>4. TypeOK'
  BY <1>0, <1>1, <1>3 DEF TypeOK, memVars, otherVars
<1> QED BY <1>0, <1>2, <1>3, <1>4, ManagerStep DEF memVars, Draining

LEMMA TunnelEndsKeeps ==
  ASSUME LInv, NEW p \in Procs, TunnelEnds(p)
  PROVE  LInv'
<1>0. UNCHANGED <<pc, memVars, pidChange, fileVars, otherVars>>
  BY DEF TunnelEnds
<1>1. TypeOK /\ BootInv /\ StopInv /\ (~contended => Order)
  BY DEF LInv
<1>2. tunnel' \in [Procs -> BOOLEAN] /\ \A q \in Procs : tunnel'[q] => tunnel[q]
  BY <1>1 DEF TunnelEnds, TypeOK
<1>3. TypeOK'
  BY <1>0, <1>1, <1>2 DEF TypeOK, memVars, fileVars, otherVars
<1>4. BootInv' /\ StopInv'
  BY <1>0, <1>1, <1>2 DEF BootInv, StopInv, Draining, memVars, otherVars
<1>5. ASSUME ~contended' PROVE Order'
  <2>1. OneAlive /\ PidFileNames /\ StopSees /\ Found /\ OrphanInv
    BY <1>0, <1>1, <1>5 DEF Order, otherVars
  <2>2. OneAlive' /\ PidFileNames' /\ StopSees' /\ Found'
    BY <1>0, <2>1 DEF OneAlive, PidFileNames, StopSees, Found, Alive, Draining, memVars,
      fileVars, otherVars
  <2>3. OrphanInv'
    BY <1>0, <1>2, <2>1 DEF OrphanInv, fileVars
  <2> QED BY <2>2, <2>3 DEF Order
<1> QED BY <1>3, <1>4, <1>5 DEF LInv

LEMMA DeclineTunnelKeeps ==
  ASSUME LInv, NEW p \in Procs, DeclineTunnel(p)
  PROVE  LInv'
<1>0. UNCHANGED <<pc, entry, ipcClosed, mcpClosed, advertising, pidChange, fileVars, otherVars>>
  BY DEF DeclineTunnel
<1>1. TypeOK /\ pc[p] \in Reclaimed \cap HasSpawned
  BY DEF LInv, DeclineTunnel, Reclaimed, HasSpawned
<1>2. /\ tunnel' \in [Procs -> BOOLEAN] /\ ~tunnel'[p]
      /\ \A q \in Procs \ {p} : tunnel'[q] = tunnel[q]
      /\ declining' \in [Procs -> BOOLEAN]
      /\ \A q \in Procs \ {p} : declining'[q] = declining[q]
  BY <1>1 DEF DeclineTunnel, TypeOK
<1>3. TypeOK'
  BY <1>0, <1>1, <1>2 DEF TypeOK, fileVars, otherVars
<1> QED BY <1>0, <1>1, <1>2, <1>3, ManagerStep DEF fileVars, Draining

LEMMA TunnelDeclinedKeeps ==
  ASSUME LInv, NEW p \in Procs, TunnelDeclined(p)
  PROVE  LInv'
<1>0. UNCHANGED <<pc, entry, ipcClosed, mcpClosed, advertising, tunnel, fileVars, otherVars>>
  BY DEF TunnelDeclined
<1>1. /\ TypeOK /\ tunnel' \in [Procs -> BOOLEAN] /\ declining' \in [Procs -> BOOLEAN]
      /\ \A q \in Procs \ {p} : declining'[q] = declining[q]
  BY <1>0 DEF LInv, TypeOK, TunnelDeclined
<1>2. /\ pidChange' \in [Procs -> {"none", "naming", "named", "removing", "mixed", "unsure"}]
      /\ \A q \in Procs \ {p} : pidChange'[q] = pidChange[q]
      /\ tunnel'[p] => pidChange'[p] \in {"naming", "mixed"}
  BY <1>1, EmitEffect DEF TunnelDeclined
<1>3. TypeOK'
  BY <1>0, <1>1, <1>2 DEF TypeOK, fileVars, otherVars
<1>4. pc[p] \in Reclaimed \cap HasSpawned
  BY DEF LInv, BootInv, TunnelDeclined, Alive, Reclaimed, HasSpawned
<1> QED BY <1>0, <1>1, <1>2, <1>3, <1>4, ManagerStep DEF fileVars, Draining

(* The tunnel layer of shutdown(): a step from one layer to the next.      *)
LEMMA MovesEffect ==
  ASSUME TypeOK, NEW p \in Procs, NEW e \in Entries,
         At(p, e, "tunnel") \/ At(p, e, "tunnel_wait"),
         Moves(p, e, "tunnel_wait") \/ Moves(p, e, "pid")
  PROVE  /\ entry' \in [Procs -> [Entries -> Layers]]
         /\ \A q \in Procs : Draining(q)' <=> Draining(q)
<1>1. /\ entry \in [Procs -> [Entries -> Layers]]
      /\ entry[p][e] \in {"tunnel", "tunnel_wait"}
  BY DEF TypeOK, Layers, At
<1>2. PICK layer \in {"tunnel_wait", "pid"} : entry' = [entry EXCEPT ![p][e] = layer]
  BY DEF Moves
<1>3. entry' \in [Procs -> [Entries -> Layers]]
  BY <1>1, <1>2 DEF Layers
<1>4. \A q \in Procs, d \in Entries : entry'[q][d] = "none" <=> entry[q][d] = "none"
  BY <1>1, <1>2
<1> QED BY <1>3, <1>4 DEF Draining

LEMMA StopTunnelKeeps ==
  ASSUME LInv, NEW p \in Procs, NEW e \in Entries, StopTunnel(p, e)
  PROVE  LInv'
<1>0. UNCHANGED <<pc, ipcClosed, mcpClosed, advertising, pidChange, declining, fileVars,
                  otherVars>>
  BY DEF StopTunnel
<1>1. TypeOK /\ pc[p] \in Reclaimed \cap HasSpawned
  BY DEF LInv, BootInv, StopTunnel, At, Alive, Draining, Reclaimed, HasSpawned
<1>2. /\ tunnel' \in [Procs -> BOOLEAN] /\ ~tunnel'[p]
      /\ \A q \in Procs \ {p} : tunnel'[q] = tunnel[q]
  BY <1>1 DEF StopTunnel, TypeOK
<1>3. /\ entry' \in [Procs -> [Entries -> Layers]]
      /\ \A q \in Procs : Draining(q)' <=> Draining(q)
  BY <1>1, MovesEffect DEF StopTunnel
<1>4. TypeOK'
  BY <1>0, <1>1, <1>2, <1>3 DEF TypeOK, Layers, fileVars, otherVars
<1> QED BY <1>0, <1>1, <1>2, <1>3, <1>4, ManagerStep DEF fileVars

LEMMA TunnelStoppedKeeps ==
  ASSUME LInv, NEW p \in Procs, NEW e \in Entries, TunnelStopped(p, e)
  PROVE  LInv'
<1>0. UNCHANGED <<pc, ipcClosed, mcpClosed, advertising, tunnel, declining, fileVars,
                  otherVars>>
  BY DEF TunnelStopped
<1>1. TypeOK /\ tunnel' \in [Procs -> BOOLEAN] /\ pc[p] \in Reclaimed \cap HasSpawned
  BY <1>0 DEF LInv, TypeOK, BootInv, TunnelStopped, At, Alive, Draining, Reclaimed, HasSpawned
<1>2. /\ pidChange' \in [Procs -> {"none", "naming", "named", "removing", "mixed", "unsure"}]
      /\ \A q \in Procs \ {p} : pidChange'[q] = pidChange[q]
      /\ tunnel'[p] => pidChange'[p] \in {"naming", "mixed"}
  BY <1>1, EmitEffect DEF TunnelStopped
<1>3. /\ entry' \in [Procs -> [Entries -> Layers]]
      /\ \A q \in Procs : Draining(q)' <=> Draining(q)
  BY <1>1, MovesEffect DEF TunnelStopped
<1>4. TypeOK'
  BY <1>0, <1>1, <1>2, <1>3 DEF TypeOK, Layers, fileVars, otherVars
<1> QED BY <1>0, <1>1, <1>2, <1>3, <1>4, ManagerStep DEF fileVars

LEMMA ProbeAddrKeeps ==
  ASSUME LInv, NEW p \in Procs, ProbeAddr(p)
  PROVE  LInv'
<1>0. pc[p] = "ipc" /\ UNCHANGED <<childVars, fileVars, otherVars>>
  BY DEF ProbeAddr
<1>1. TypeOK /\ BootInv /\ StopInv /\ (~contended => Order)
  BY DEF LInv
<1>2. CASE End(p)
  BY <1>0, <1>1, <1>2, EndingKeeps DEF Alive, TypeOK, childVars, fileVars
<1>3. ASSUME NEW to \in {"binding", "unlinking"}, Goes(p, to), UNCHANGED memVars
      PROVE  LInv'
  <2>1. TypeOK'
    BY <1>0, <1>1, <1>3, LifecycleAssumption DEF TypeOK, memVars, childVars, Goes, Alive,
      fileVars, otherVars, None
  <2>2. BootInv'
    BY <1>0, <1>1, <1>3, LifecycleAssumption DEF TypeOK, memVars, childVars, BootInv,
      StopInv, Goes, Alive, fileVars, otherVars, HasSpawned, Draining, AddrLive
  <2>3. StopInv'
    BY <1>0, <1>1, <1>3, LifecycleAssumption DEF TypeOK, memVars, childVars, BootInv,
      StopInv, Goes, Alive, fileVars, otherVars, AddrLive
  <2>4. ASSUME ~contended' PROVE OneAlive'
    BY <1>0, <1>1, <1>3, LifecycleAssumption, <2>4 DEF TypeOK, memVars, childVars, OneAlive,
      PidFileNames, Goes, Alive, fileVars, otherVars, Unnamed, Order
  <2>5. ASSUME ~contended' PROVE PidFileNames'
    BY <1>0, <1>1, <1>3, LifecycleAssumption, <2>5 DEF TypeOK, memVars, childVars, OneAlive,
      PidFileNames, StopSees, Goes, Alive, fileVars, otherVars, Unnamed, Order
  <2>6. ASSUME ~contended' PROVE StopSees'
    BY <1>0, <1>1, <1>3, LifecycleAssumption, <2>6 DEF TypeOK, memVars, childVars, OneAlive,
      PidFileNames, StopSees, Goes, Alive, fileVars, otherVars, Unnamed, Order
  <2>7. ASSUME ~contended' PROVE Found'
    BY <1>0, <1>1, <1>3, LifecycleAssumption, <2>7 DEF TypeOK, memVars, childVars, BootInv,
      OneAlive, Found, Goes, Alive, fileVars, otherVars, Draining, AddrLive, Order
  <2>8. ASSUME ~contended' PROVE OrphanInv'
    BY <1>0, <1>1, <1>3, LifecycleAssumption, <2>8 DEF TypeOK, memVars, childVars, BootInv,
      OneAlive, OrphanInv, Goes, Alive, fileVars, otherVars, Reclaimed, HasSpawned, Order
  <2> QED BY <2>1, <2>2, <2>3, <2>4, <2>5, <2>6, <2>7, <2>8 DEF LInv, Order
<1> QED BY <1>2, <1>3 DEF ProbeAddr

LEMMA ProbeIncumbentKeeps ==
  ASSUME LInv, NEW p \in Procs, ProbeIncumbent(p)
  PROVE  LInv'
<1>0. pc[p] = "starting" /\ UNCHANGED <<childVars, fileVars, otherVars>>
  BY DEF ProbeIncumbent
<1>1. TypeOK /\ BootInv /\ StopInv /\ (~contended => Order)
  BY DEF LInv
<1>2. CASE End(p)
  BY <1>0, <1>1, <1>2, EndingKeeps DEF Alive, TypeOK, childVars, fileVars
<1>3. CASE Goes(p, "alone") /\ UNCHANGED memVars
  <2>1. TypeOK'
    BY <1>0, <1>1, <1>3, LifecycleAssumption DEF TypeOK, memVars, childVars, Goes, None,
      fileVars, otherVars
  <2>2. BootInv' /\ StopInv'
    BY <1>0, <1>1, <1>3 DEF TypeOK, memVars, childVars, BootInv, StopInv,
      Draining, Goes, HasSpawned, fileVars, otherVars
  <2>3. ASSUME ~contended'
        PROVE  OneAlive' /\ PidFileNames' /\ StopSees'
    BY <1>0, <1>1, <1>3, <2>3 DEF TypeOK, memVars, childVars, OneAlive, PidFileNames, StopSees,
      Alive, Goes, fileVars, otherVars, Order
  <2>4. ASSUME ~contended'
        PROVE  Found' /\ OrphanInv'
    BY <1>0, <1>1, <1>3, <2>4 DEF TypeOK, memVars, childVars, BootInv, OneAlive, Found,
      OrphanInv, Alive, Draining, Goes, HasSpawned, Reclaimed, fileVars, otherVars, Order
  <2> QED BY <2>1, <2>2, <2>3, <2>4 DEF LInv, Order
<1> QED BY <1>2, <1>3 DEF ProbeIncumbent

LEMMA RemoveAdvertKeeps ==
  ASSUME LInv, NEW p \in Procs, NEW e \in Entries, RemoveAdvert(p, e)
  PROVE  LInv'
<1>1. TypeOK /\ BootInv /\ StopInv /\ (~contended => Order)
  BY DEF LInv
<1>2. TypeOK'
  BY <1>1, LifecycleAssumption DEF TypeOK, memVars, childVars, RemoveAdvert, Alive, At,
    Moves, otherVars, None
<1>3. BootInv'
  BY <1>1, LifecycleAssumption DEF TypeOK, memVars, childVars, BootInv, StopInv,
    RemoveAdvert, Alive, At, Moves, otherVars, HasSpawned, Draining, AddrLive
<1>4. StopInv'
  BY <1>1, LifecycleAssumption DEF TypeOK, memVars, childVars, BootInv, StopInv,
    RemoveAdvert, Alive, At, Moves, otherVars, AddrLive
<1>5. ASSUME ~contended' PROVE OneAlive'
  BY <1>1, LifecycleAssumption, <1>5 DEF TypeOK, memVars, childVars, OneAlive, PidFileNames,
    RemoveAdvert, Alive, At, Moves, otherVars, Unnamed, Order
<1>6. ASSUME ~contended' PROVE PidFileNames'
  BY <1>1, LifecycleAssumption, <1>6 DEF TypeOK, memVars, childVars, OneAlive, PidFileNames,
    StopSees, RemoveAdvert, Alive, At, Moves, otherVars, Unnamed, Order
<1>7. ASSUME ~contended' PROVE StopSees'
  BY <1>1, LifecycleAssumption, <1>7 DEF TypeOK, memVars, childVars, OneAlive, PidFileNames,
    StopSees, RemoveAdvert, Alive, At, Moves, otherVars, Unnamed, Order
<1>8. ASSUME ~contended' PROVE Found'
  <2>1. Found /\ UNCHANGED <<pc, advertising, addr, sweeping>>
    BY <1>1, <1>8 DEF RemoveAdvert, Order, otherVars
  <2>2. /\ Draining(p)'
        /\ \A q \in Procs \ {p} : Draining(q)' <=> Draining(q)
    BY <1>1 DEF RemoveAdvert, At, Moves, TypeOK, Draining
  <2>3. OneAlive
    BY <1>1, <1>8 DEF RemoveAdvert, Order, otherVars
  <2>4. \A q \in Procs : pc[q] = "up" => q = p
    BY <2>3 DEF RemoveAdvert, At, OneAlive, Alive
  <2> QED BY <2>1, <2>2, <2>4 DEF Found
<1>9. ASSUME ~contended' PROVE OrphanInv'
  BY <1>1, LifecycleAssumption, <1>9 DEF TypeOK, memVars, childVars, BootInv, OneAlive,
    OrphanInv, RemoveAdvert, Alive, At, Moves, otherVars, Reclaimed, HasSpawned, Order
<1> QED BY <1>2, <1>3, <1>4, <1>5, <1>6, <1>7, <1>8, <1>9 DEF LInv, Order

LEMMA SignalKeeps ==
  ASSUME LInv, NEW p \in Procs, Signal(p)
  PROVE  LInv'
<1>1. TypeOK /\ BootInv /\ StopInv /\ (~contended => Order)
  BY DEF LInv
<1>2. /\ entry' \in [Procs -> [Entries -> Layers]]
      /\ \A q \in Procs : Draining(q) => Draining(q)'
      /\ \A q \in Procs : Draining(q)' => Draining(q) \/ q = p
  BY <1>1, EnterEffect DEF Signal
<1>3. pc[p] = "up" /\ UNCHANGED <<pc, ipcClosed, mcpClosed, advertising, declining, childVars,
                    fileVars, otherVars>>
  BY DEF Signal
<1>4. TypeOK'
  BY <1>1, <1>2, <1>3, LifecycleAssumption DEF TypeOK, memVars, childVars, Alive, fileVars,
    otherVars, Layers, None
<1>5. BootInv'
  BY <1>1, <1>2, <1>3, LifecycleAssumption DEF TypeOK, memVars, childVars, BootInv, StopInv,
    Alive, fileVars, otherVars, HasSpawned
<1>6. StopInv'
  BY <1>1, <1>2, <1>3, LifecycleAssumption DEF TypeOK, memVars, childVars, BootInv, StopInv,
    Alive, fileVars, otherVars, AddrLive
<1>7. ASSUME ~contended' PROVE OneAlive'
  BY <1>1, <1>2, <1>3, LifecycleAssumption, <1>7 DEF TypeOK, memVars, childVars, OneAlive,
    PidFileNames, Alive, fileVars, otherVars, Unnamed, Order
<1>8. ASSUME ~contended' PROVE PidFileNames'
  BY <1>1, <1>2, <1>3, LifecycleAssumption, <1>8 DEF TypeOK, memVars, childVars, OneAlive,
    PidFileNames, StopSees, Alive, fileVars, otherVars, Unnamed, Order
<1>9. ASSUME ~contended' PROVE StopSees'
  BY <1>1, <1>2, <1>3, LifecycleAssumption, <1>9 DEF TypeOK, memVars, childVars, OneAlive,
    PidFileNames, StopSees, Alive, fileVars, otherVars, Unnamed, Order
<1>10. ASSUME ~contended' PROVE Found'
  BY <1>1, <1>2, <1>3, LifecycleAssumption, <1>10 DEF TypeOK, memVars, childVars, BootInv,
    OneAlive, Found, Alive, fileVars, otherVars, Order
<1>11. ASSUME ~contended' PROVE OrphanInv'
  BY <1>1, <1>2, <1>3, LifecycleAssumption, <1>11 DEF TypeOK, memVars, childVars, BootInv,
    OneAlive, OrphanInv, Alive, fileVars, otherVars, Reclaimed, HasSpawned, Order
<1> QED BY <1>4, <1>5, <1>6, <1>7, <1>8, <1>9, <1>10, <1>11 DEF LInv, Order

LEMMA StopBeginKeeps ==
  ASSUME LInv, NEW c \in Stoppers, StopBegin(c)
  PROVE  LInv'
<1>1. TypeOK /\ BootInv /\ StopInv /\ (~contended => Order)
  BY DEF LInv
<1>2. TypeOK'
  BY <1>1, LifecycleAssumption DEF TypeOK, memVars, childVars, StopBegin, Alive, Unnamed,
    fileVars, procVars, None
<1>3. BootInv'
  BY <1>1, LifecycleAssumption DEF TypeOK, memVars, childVars, BootInv, StopInv, StopBegin,
    Alive, Unnamed, fileVars, procVars, HasSpawned, Draining, AddrLive
<1>4. StopInv'
  BY <1>1, LifecycleAssumption DEF TypeOK, memVars, childVars, BootInv, StopInv, StopBegin,
    Alive, Unnamed, fileVars, procVars, AddrLive
<1>5. ASSUME ~contended' PROVE OneAlive'
  BY <1>1, LifecycleAssumption, <1>5 DEF TypeOK, memVars, childVars, OneAlive, PidFileNames,
    StopBegin, Alive, Unnamed, fileVars, procVars, Order
<1>6. ASSUME ~contended' PROVE PidFileNames'
  BY <1>1, LifecycleAssumption, <1>6 DEF TypeOK, memVars, childVars, OneAlive, PidFileNames,
    StopSees, StopBegin, Alive, Unnamed, fileVars, procVars, Order
<1>7. ASSUME ~contended' PROVE StopSees'
  BY <1>1, LifecycleAssumption, <1>7 DEF TypeOK, memVars, childVars, OneAlive, PidFileNames,
    StopSees, StopBegin, Alive, Unnamed, fileVars, procVars, Order
<1>8. ASSUME ~contended' PROVE Found'
  BY <1>1, LifecycleAssumption, <1>8 DEF TypeOK, memVars, childVars, BootInv, OneAlive,
    Found, StopBegin, Alive, Unnamed, fileVars, procVars, Draining, AddrLive, Order
<1>9. ASSUME ~contended' PROVE OrphanInv'
  BY <1>1, LifecycleAssumption, <1>9 DEF TypeOK, memVars, childVars, BootInv, OneAlive,
    OrphanInv, StopBegin, Alive, Unnamed, fileVars, procVars, Reclaimed, HasSpawned, Order
<1> QED BY <1>2, <1>3, <1>4, <1>5, <1>6, <1>7, <1>8, <1>9 DEF LInv, Order

LEMMA StopConnectsKeeps ==
  ASSUME LInv, NEW c \in Stoppers, StopConnects(c)
  PROVE  LInv'
<1>1. TypeOK /\ BootInv /\ StopInv /\ (~contended => Order)
  BY DEF LInv
<1>2. /\ stop[c].step = "sending"
      /\ contended' = (contended \/ (~AddrLive /\ Alive(stop[c].pid)))
      /\ UNCHANGED <<procVars, fileVars, start, sweeping>>
  BY DEF StopConnects
<1>3. CASE AddrLive /\ stop' = [stop EXCEPT ![c].step = "hello", ![c].to = addr]
  <2>1. TypeOK'
    <3>1. addr \in Procs
      BY <1>1, <1>3 DEF TypeOK, memVars, childVars, AddrLive
    <3>2. stop' \in [Stoppers -> StopState]
      BY <1>1, <1>3, <3>1, StopTyped DEF StopState, StopSteps
    <3>3. contended' \in BOOLEAN
      BY <1>1, <1>2, Zenon DEF TypeOK, memVars, childVars
    <3>4. UNCHANGED <<procVars, fileVars, start, sweeping>>
      BY <1>2
    <3> QED BY <1>1, <3>2, <3>3, <3>4
            DEF TypeOK, memVars, childVars, procVars, fileVars, StopState, StopSteps
  <2>2. BootInv'
    BY <1>1, <1>2, <1>3, LifecycleAssumption DEF TypeOK, memVars, childVars, BootInv,
      StopInv, Alive, procVars, fileVars, otherVars, HasSpawned, Draining, AddrLive
  <2>3. StopInv'
    BY <1>1, <1>2, <1>3, LifecycleAssumption DEF TypeOK, memVars, childVars, BootInv,
      StopInv, Alive, procVars, fileVars, otherVars, AddrLive, None
  <2>4. ASSUME ~contended' PROVE OneAlive'
    BY <1>1, <1>2, <1>3, LifecycleAssumption, <2>4 DEF TypeOK, memVars, childVars, OneAlive,
      PidFileNames, Alive, procVars, fileVars, otherVars, Unnamed, Order
  <2>5. ASSUME ~contended' PROVE PidFileNames'
    BY <1>1, <1>2, <1>3, LifecycleAssumption, <2>5 DEF TypeOK, memVars, childVars, OneAlive,
      PidFileNames, StopSees, Alive, procVars, fileVars, otherVars, Unnamed, Order
  <2>6. ASSUME ~contended' PROVE StopSees'
    BY <1>1, <1>2, <1>3, LifecycleAssumption, <2>6 DEF TypeOK, memVars, childVars, OneAlive,
      PidFileNames, StopSees, Alive, procVars, fileVars, otherVars, Unnamed, Order
  <2>7. ASSUME ~contended' PROVE Found'
    BY <1>1, <1>2, <1>3, LifecycleAssumption, <2>7 DEF TypeOK, memVars, childVars, BootInv,
      OneAlive, Found, Alive, procVars, fileVars, otherVars, Draining, AddrLive, Order
  <2>8. ASSUME ~contended' PROVE OrphanInv'
    BY <1>1, <1>2, <1>3, LifecycleAssumption, <2>8 DEF TypeOK, memVars, childVars, BootInv,
      OneAlive, OrphanInv, Alive, procVars, fileVars, otherVars, Reclaimed, HasSpawned,
      Order
  <2> QED BY <2>1, <2>2, <2>3, <2>4, <2>5, <2>6, <2>7, <2>8 DEF LInv, Order
<1>4. CASE ~AddrLive /\ StopGoes(c, "cleaning")
  <2>1. TypeOK'
    <3>1. stop' \in [Stoppers -> StopState]
      BY <1>1, <1>4, StopTyped DEF StopGoes, StopState, StopSteps
    <3>2. contended' \in BOOLEAN
      BY <1>1, <1>2, Zenon DEF TypeOK
    <3> QED BY <1>1, <1>2, <3>1, <3>2
            DEF TypeOK, procVars, memVars, childVars, fileVars, StopState, StopSteps
  <2>2. BootInv'
    BY <1>1, <1>2, <1>4, LifecycleAssumption DEF TypeOK, memVars, childVars, BootInv,
      StopInv, Alive, StopGoes, procVars, fileVars, otherVars, HasSpawned, Draining,
      AddrLive
  <2>3. StopInv'
    BY <1>1, <1>2, <1>4, LifecycleAssumption DEF TypeOK, memVars, childVars, BootInv,
      StopInv, Alive, StopGoes, procVars, fileVars, otherVars, AddrLive
  <2>4. ASSUME ~contended' PROVE OneAlive'
    BY <1>1, <1>2, <1>4, LifecycleAssumption, <2>4 DEF TypeOK, memVars, childVars, OneAlive,
      PidFileNames, Alive, StopGoes, procVars, fileVars, otherVars, Unnamed, Order
  <2>5. ASSUME ~contended' PROVE PidFileNames'
    BY <1>1, <1>2, <1>4, LifecycleAssumption, <2>5 DEF TypeOK, memVars, childVars, OneAlive,
      PidFileNames, StopSees, Alive, StopGoes, procVars, fileVars, otherVars, Unnamed, Order
  <2>6. ASSUME ~contended' PROVE StopSees'
    BY <1>1, <1>2, <1>4, LifecycleAssumption, <2>6 DEF TypeOK, memVars, childVars, OneAlive,
      PidFileNames, StopSees, Alive, StopGoes, procVars, fileVars, otherVars, Unnamed, Order
  <2>7. ASSUME ~contended' PROVE Found'
    BY <1>1, <1>2, <1>4, LifecycleAssumption, <2>7 DEF TypeOK, memVars, childVars, BootInv,
      OneAlive, Found, Alive, StopGoes, procVars, fileVars, otherVars, Draining, AddrLive,
      Order
  <2>8. ASSUME ~contended' PROVE OrphanInv'
    BY <1>1, <1>2, <1>4, LifecycleAssumption, <2>8 DEF TypeOK, memVars, childVars, BootInv,
      OneAlive, OrphanInv, Alive, StopGoes, procVars, fileVars, otherVars, Reclaimed,
      HasSpawned, Order
  <2> QED BY <2>1, <2>2, <2>3, <2>4, <2>5, <2>6, <2>7, <2>8 DEF LInv, Order
<1> QED BY <1>3, <1>4 DEF StopConnects

LEMMA StopLostKeeps ==
  ASSUME LInv, NEW c \in Stoppers, StopLost(c)
  PROVE  LInv'
<1>1. TypeOK /\ BootInv /\ StopInv /\ (~contended => Order)
  BY DEF LInv
<1>2. TypeOK'
  <2>1. stop' \in [Stoppers -> StopState]
    BY <1>1, StopTyped DEF StopLost, StopGoes, StopState, StopSteps
  <2>2. contended' \in BOOLEAN
    BY <1>1, Zenon DEF StopLost, TypeOK
  <2>3. UNCHANGED <<procVars, fileVars, start, sweeping>>
    BY DEF StopLost
  <2> QED BY <1>1, <2>1, <2>2, <2>3
          DEF TypeOK, memVars, childVars, procVars, fileVars, StopState, StopSteps
<1>3. BootInv'
  BY <1>1, LifecycleAssumption DEF TypeOK, memVars, childVars, BootInv, StopInv, StopLost,
    Alive, StopGoes, fileVars, procVars, HasSpawned, Draining, AddrLive
<1>4. StopInv'
  BY <1>1, LifecycleAssumption DEF TypeOK, memVars, childVars, BootInv, StopInv, StopLost,
    Alive, StopGoes, fileVars, procVars, AddrLive
<1>5. ASSUME ~contended' PROVE OneAlive'
  BY <1>1, LifecycleAssumption, <1>5 DEF TypeOK, memVars, childVars, OneAlive, PidFileNames,
    StopLost, Alive, StopGoes, fileVars, procVars, Unnamed, Order
<1>6. ASSUME ~contended' PROVE PidFileNames'
  BY <1>1, LifecycleAssumption, <1>6 DEF TypeOK, memVars, childVars, OneAlive, PidFileNames,
    StopSees, StopLost, Alive, StopGoes, fileVars, procVars, Unnamed, Order
<1>7. ASSUME ~contended' PROVE StopSees'
  BY <1>1, LifecycleAssumption, <1>7 DEF TypeOK, memVars, childVars, OneAlive, PidFileNames,
    StopSees, StopLost, Alive, StopGoes, fileVars, procVars, Unnamed, Order
<1>8. ASSUME ~contended' PROVE Found'
  BY <1>1, LifecycleAssumption, <1>8 DEF TypeOK, memVars, childVars, BootInv, OneAlive,
    Found, StopLost, Alive, StopGoes, fileVars, procVars, Draining, AddrLive, Order
<1>9. ASSUME ~contended' PROVE OrphanInv'
  BY <1>1, LifecycleAssumption, <1>9 DEF TypeOK, memVars, childVars, BootInv, OneAlive,
    OrphanInv, StopLost, Alive, StopGoes, fileVars, procVars, Reclaimed, HasSpawned, Order
<1> QED BY <1>2, <1>3, <1>4, <1>5, <1>6, <1>7, <1>8, <1>9 DEF LInv, Order

LEMMA StopRequestKeeps ==
  ASSUME LInv, NEW c \in Stoppers, StopRequest(c)
  PROVE  LInv'
<1>1. TypeOK /\ BootInv /\ StopInv /\ (~contended => Order)
  BY DEF LInv
<1> DEFINE p == stop[c].to
<1>2. p \in Procs /\ pc[p] = "up"
  BY <1>1 DEF StopRequest, StopInv, Alive
<1>3. /\ entry' \in [Procs -> [Entries -> Layers]]
      /\ \A q \in Procs : Draining(q) => Draining(q)'
      /\ \A q \in Procs : Draining(q)' => Draining(q) \/ q = p
  BY <1>1, <1>2, EnterEffect DEF StopRequest
<1>4. /\ stop[c].step = "hello" /\ stop' = [stop EXCEPT ![c].step = "verifying"]
      /\ UNCHANGED <<pc, ipcClosed, mcpClosed, advertising, declining, childVars,
                    fileVars, start, sweeping, contended>>
  BY DEF StopRequest, StopGoes
<1> HIDE DEF p
<1>5. TypeOK'
  <2>1. stop' \in [Stoppers -> StopState]
    BY <1>1, <1>4, StopTyped DEF StopState, StopSteps
  <2>2. entry' \in [Procs -> [Entries -> Layers]]
    BY <1>3
  <2> QED BY <1>1, <1>4, <2>1, <2>2 DEF TypeOK, memVars, childVars, fileVars, Layers,
    StopState, StopSteps
<1>6. BootInv'
  BY <1>1, <1>2, <1>3, <1>4, LifecycleAssumption DEF TypeOK, memVars, childVars, BootInv,
    StopInv, Alive, fileVars, otherVars, HasSpawned
<1>7. StopInv'
  BY <1>1, <1>2, <1>3, <1>4, LifecycleAssumption DEF TypeOK, memVars, childVars, BootInv,
    StopInv, Alive, fileVars, otherVars, AddrLive
<1>8. ASSUME ~contended' PROVE OneAlive'
  BY <1>1, <1>2, <1>3, <1>4, LifecycleAssumption, <1>8 DEF TypeOK, memVars, childVars,
    OneAlive, PidFileNames, Alive, fileVars, otherVars, Unnamed, Order
<1>9. ASSUME ~contended' PROVE PidFileNames'
  BY <1>1, <1>2, <1>3, <1>4, LifecycleAssumption, <1>9 DEF TypeOK, memVars, childVars,
    OneAlive, PidFileNames, StopSees, Alive, fileVars, otherVars, Unnamed, Order
<1>10. ASSUME ~contended' PROVE StopSees'
  BY <1>1, <1>2, <1>3, <1>4, LifecycleAssumption, <1>10 DEF TypeOK, memVars, childVars,
    OneAlive, PidFileNames, StopSees, Alive, fileVars, otherVars, Unnamed, Order
<1>11. ASSUME ~contended' PROVE Found'
  BY <1>1, <1>2, <1>3, <1>4, LifecycleAssumption, <1>11 DEF TypeOK, memVars, childVars,
    BootInv, OneAlive, Found, Alive, fileVars, otherVars, Order
<1>12. ASSUME ~contended' PROVE OrphanInv'
  BY <1>1, <1>2, <1>3, <1>4, LifecycleAssumption, <1>12 DEF TypeOK, memVars, childVars,
    BootInv, OneAlive, OrphanInv, Alive, fileVars, otherVars, Reclaimed, HasSpawned, Order
<1> QED BY <1>5, <1>6, <1>7, <1>8, <1>9, <1>10, <1>11, <1>12 DEF LInv, Order

LEMMA SweepUnlinkKeeps ==
  ASSUME LInv, SweepUnlink
  PROVE  LInv'
<1>1. TypeOK /\ BootInv /\ StopInv /\ (~contended => Order)
  BY DEF LInv
<1>2. TypeOK'
  BY <1>1, LifecycleAssumption DEF TypeOK, memVars, childVars, SweepUnlink, procVars, None
<1>3. BootInv'
  BY <1>1, LifecycleAssumption DEF TypeOK, memVars, childVars, BootInv, StopInv,
    SweepUnlink, procVars, HasSpawned, Draining, AddrLive
<1>4. StopInv'
  BY <1>1, LifecycleAssumption DEF TypeOK, memVars, childVars, BootInv, StopInv,
    SweepUnlink, procVars, AddrLive
<1>5. ASSUME ~contended' PROVE OneAlive'
  BY <1>1, LifecycleAssumption, <1>5 DEF TypeOK, memVars, childVars, OneAlive, PidFileNames,
    SweepUnlink, procVars, Alive, Unnamed, Order
<1>6. ASSUME ~contended' PROVE PidFileNames'
  BY <1>1, LifecycleAssumption, <1>6 DEF TypeOK, memVars, childVars, OneAlive, PidFileNames,
    StopSees, SweepUnlink, procVars, Alive, Unnamed, Order
<1>7. ASSUME ~contended' PROVE StopSees'
  BY <1>1, LifecycleAssumption, <1>7 DEF TypeOK, memVars, childVars, OneAlive, PidFileNames,
    StopSees, SweepUnlink, procVars, Alive, Unnamed, Order
<1>8. ASSUME ~contended' PROVE Found'
  BY <1>1, LifecycleAssumption, <1>8 DEF TypeOK, memVars, childVars, BootInv, OneAlive,
    Found, SweepUnlink, procVars, Alive, Draining, AddrLive, Order
<1>9. ASSUME ~contended' PROVE OrphanInv'
  BY <1>1, LifecycleAssumption, <1>9 DEF TypeOK, memVars, childVars, BootInv, OneAlive,
    OrphanInv, SweepUnlink, procVars, Alive, Reclaimed, HasSpawned, Order
<1> QED BY <1>2, <1>3, <1>4, <1>5, <1>6, <1>7, <1>8, <1>9 DEF LInv, Order

LEMMA UnlinkAddrKeeps ==
  ASSUME LInv, NEW p \in Procs, UnlinkAddr(p)
  PROVE  LInv'
<1>1. TypeOK /\ BootInv /\ StopInv /\ (~contended => Order)
  BY DEF LInv
<1>2. TypeOK'
  BY <1>1, LifecycleAssumption DEF TypeOK, memVars, childVars, UnlinkAddr, Goes, Alive,
    fileVars, otherVars, None
<1>3. BootInv'
  BY <1>1, LifecycleAssumption DEF TypeOK, memVars, childVars, BootInv, StopInv, UnlinkAddr,
    Goes, Alive, fileVars, otherVars, HasSpawned, Draining, AddrLive
<1>4. StopInv'
  BY <1>1, LifecycleAssumption DEF TypeOK, memVars, childVars, BootInv, StopInv, UnlinkAddr,
    Goes, Alive, fileVars, otherVars, AddrLive
<1>5. ASSUME ~contended' PROVE OneAlive'
  BY <1>1, LifecycleAssumption, <1>5 DEF TypeOK, memVars, childVars, OneAlive, PidFileNames,
    UnlinkAddr, Goes, Alive, fileVars, otherVars, Unnamed, Order
<1>6. ASSUME ~contended' PROVE PidFileNames'
  BY <1>1, LifecycleAssumption, <1>6 DEF TypeOK, memVars, childVars, OneAlive, PidFileNames,
    StopSees, UnlinkAddr, Goes, Alive, fileVars, otherVars, Unnamed, Order
<1>7. ASSUME ~contended' PROVE StopSees'
  BY <1>1, LifecycleAssumption, <1>7 DEF TypeOK, memVars, childVars, OneAlive, PidFileNames,
    StopSees, UnlinkAddr, Goes, Alive, fileVars, otherVars, Unnamed, Order
<1>8. ASSUME ~contended' PROVE Found'
  <2>1. TypeOK /\ OneAlive
    BY <1>1, <1>8 DEF UnlinkAddr, Order, otherVars
  <2>2. \A q \in Procs : pc'[q] # "up"
    BY <2>1 DEF UnlinkAddr, TypeOK, OneAlive, Alive, Goes
  <2> QED BY <2>2 DEF Found
<1>9. ASSUME ~contended' PROVE OrphanInv'
  BY <1>1, LifecycleAssumption, <1>9 DEF TypeOK, memVars, childVars, BootInv, OneAlive,
    OrphanInv, UnlinkAddr, Goes, Alive, fileVars, otherVars, Reclaimed, HasSpawned, Order
<1> QED BY <1>2, <1>3, <1>4, <1>5, <1>6, <1>7, <1>8, <1>9 DEF LInv, Order

LEMMA WritePidFileKeeps ==
  ASSUME LInv, NEW p \in Procs, WritePidFile(p)
  PROVE  LInv'
<1>1. TypeOK /\ BootInv /\ StopInv /\ (~contended => Order)
  BY DEF LInv
<1>2. TypeOK'
  BY <1>1, LifecycleAssumption DEF TypeOK, memVars, childVars, WritePidFile, Goes,
    otherVars, None
<1>3. BootInv'
  BY <1>1, LifecycleAssumption DEF TypeOK, memVars, childVars, BootInv, StopInv,
    WritePidFile, Goes, otherVars, HasSpawned, Draining, AddrLive
<1>4. StopInv'
  BY <1>1, LifecycleAssumption DEF TypeOK, memVars, childVars, BootInv, StopInv,
    WritePidFile, Goes, otherVars, AddrLive
<1>5. ASSUME ~contended' PROVE OneAlive'
  BY <1>1, LifecycleAssumption, <1>5 DEF TypeOK, memVars, childVars, OneAlive, PidFileNames,
    WritePidFile, Goes, otherVars, Alive, Unnamed, Order
<1>6. ASSUME ~contended' PROVE PidFileNames'
  BY <1>1, LifecycleAssumption, <1>6 DEF TypeOK, memVars, childVars, OneAlive, PidFileNames,
    StopSees, WritePidFile, Goes, otherVars, Alive, Unnamed, Order
<1>7. ASSUME ~contended' PROVE StopSees'
  BY <1>1, LifecycleAssumption, <1>7 DEF TypeOK, memVars, childVars, OneAlive, PidFileNames,
    StopSees, WritePidFile, Goes, otherVars, Alive, Unnamed, Order
<1>8. ASSUME ~contended' PROVE Found'
  BY <1>1, LifecycleAssumption, <1>8 DEF TypeOK, memVars, childVars, BootInv, OneAlive,
    Found, WritePidFile, Goes, otherVars, Alive, Draining, AddrLive, Order
<1>9. ASSUME ~contended' PROVE OrphanInv'
  BY <1>1, LifecycleAssumption, <1>9 DEF TypeOK, memVars, childVars, BootInv, OneAlive,
    OrphanInv, WritePidFile, Goes, otherVars, Alive, Reclaimed, HasSpawned, Order
<1> QED BY <1>2, <1>3, <1>4, <1>5, <1>6, <1>7, <1>8, <1>9 DEF LInv, Order

LEMMA SweepProbeKeeps ==
  ASSUME LInv, SweepProbe
  PROVE  LInv'
<1>1. TypeOK /\ BootInv /\ StopInv /\ (~contended => Order)
  BY DEF LInv
<1>2. /\ ~AddrLive /\ sweeping' = TRUE
      /\ UNCHANGED <<procVars, fileVars, start, stop, contended>>
  BY DEF SweepProbe
<1>3. TypeOK'
  BY <1>1, <1>2, LifecycleAssumption DEF TypeOK, memVars, childVars, Alive, procVars,
    fileVars, otherVars, None
<1>4. BootInv'
  BY <1>1, <1>2, LifecycleAssumption DEF TypeOK, memVars, childVars, BootInv, StopInv,
    Alive, procVars, fileVars, otherVars, HasSpawned, Draining, AddrLive
<1>5. StopInv'
  BY <1>1, <1>2, LifecycleAssumption DEF TypeOK, memVars, childVars, BootInv, StopInv,
    Alive, procVars, fileVars, otherVars, AddrLive
<1>6. ASSUME ~contended' PROVE OneAlive'
  BY <1>1, <1>2, LifecycleAssumption, <1>6 DEF TypeOK, memVars, childVars, OneAlive,
    PidFileNames, Alive, procVars, fileVars, otherVars, Unnamed, Order
<1>7. ASSUME ~contended' PROVE PidFileNames'
  BY <1>1, <1>2, LifecycleAssumption, <1>7 DEF TypeOK, memVars, childVars, OneAlive,
    PidFileNames, StopSees, Alive, procVars, fileVars, otherVars, Unnamed, Order
<1>8. ASSUME ~contended' PROVE StopSees'
  BY <1>1, <1>2, LifecycleAssumption, <1>8 DEF TypeOK, memVars, childVars, OneAlive,
    PidFileNames, StopSees, Alive, procVars, fileVars, otherVars, Unnamed, Order
<1>9. ASSUME ~contended' PROVE Found'
  <2>1. ASSUME NEW p \in Procs, pc[p] = "up", ~Draining(p) PROVE FALSE
    <3>1. ~contended
      BY <1>2, <1>9
    <3>2. addr = p /\ ~ipcClosed[p]
      BY <1>1, <2>1, <3>1 DEF Order, Found, BootInv
    <3>3. p # None
      BY DEF Procs, None
    <3> QED BY <1>2, <2>1, <3>2, <3>3 DEF AddrLive
  <2> QED BY <1>2, <2>1 DEF Found, Draining, procVars, memVars
<1>10. ASSUME ~contended' PROVE OrphanInv'
  BY <1>1, <1>2, LifecycleAssumption, <1>10 DEF TypeOK, memVars, childVars, BootInv,
    OneAlive, OrphanInv, Alive, procVars, fileVars, otherVars, Reclaimed, HasSpawned, Order
<1> QED BY <1>3, <1>4, <1>5, <1>6, <1>7, <1>8, <1>9, <1>10 DEF LInv, Order

LEMMA TunnelUpKeeps ==
  ASSUME LInv, NEW p \in Procs, TunnelUp(p)
  PROVE  LInv'
<1>1. TypeOK /\ BootInv /\ StopInv /\ (~contended => Order)
  BY DEF LInv
<1>2. TypeOK'
  BY <1>1, LifecycleAssumption DEF TypeOK, memVars, childVars, TunnelUp, Goes, fileVars,
    otherVars, None
<1>3. BootInv'
  BY <1>1, LifecycleAssumption DEF TypeOK, memVars, childVars, BootInv, StopInv, TunnelUp,
    Goes, fileVars, otherVars, HasSpawned, Draining, AddrLive
<1>4. StopInv'
  BY <1>1, LifecycleAssumption DEF TypeOK, memVars, childVars, BootInv, StopInv, TunnelUp,
    Goes, fileVars, otherVars, AddrLive
<1>5. ASSUME ~contended' PROVE OneAlive'
  BY <1>1, LifecycleAssumption, <1>5 DEF TypeOK, memVars, childVars, OneAlive, PidFileNames,
    TunnelUp, Goes, fileVars, otherVars, Alive, Unnamed, Order
<1>6. ASSUME ~contended' PROVE PidFileNames'
  BY <1>1, LifecycleAssumption, <1>6 DEF TypeOK, memVars, childVars, OneAlive, PidFileNames,
    StopSees, TunnelUp, Goes, fileVars, otherVars, Alive, Unnamed, Order
<1>7. ASSUME ~contended' PROVE StopSees'
  BY <1>1, LifecycleAssumption, <1>7 DEF TypeOK, memVars, childVars, OneAlive, PidFileNames,
    StopSees, TunnelUp, Goes, fileVars, otherVars, Alive, Unnamed, Order
<1>8. ASSUME ~contended' PROVE Found'
  BY <1>1, LifecycleAssumption, <1>8 DEF TypeOK, memVars, childVars, BootInv, OneAlive,
    Found, TunnelUp, Goes, fileVars, otherVars, Alive, Draining, AddrLive, Order
<1>9. ASSUME ~contended' PROVE OrphanInv'
  BY <1>1, LifecycleAssumption, <1>9 DEF TypeOK, memVars, childVars, BootInv, OneAlive,
    OrphanInv, TunnelUp, Goes, fileVars, otherVars, Alive, Reclaimed, HasSpawned, Order
<1> QED BY <1>2, <1>3, <1>4, <1>5, <1>6, <1>7, <1>8, <1>9 DEF LInv, Order

LEMMA StopVerifiedKeeps ==
  ASSUME LInv, NEW c \in Stoppers, StopVerified(c)
  PROVE  LInv'
<1>1. TypeOK /\ BootInv /\ StopInv /\ (~contended => Order)
  BY DEF LInv
<1>2. TypeOK'
  <2>1. stop' \in [Stoppers -> StopState]
    BY <1>1, StopTyped DEF StopVerified, StopGoes, StopState, StopSteps
  <2>2. contended' \in BOOLEAN
    BY <1>1, Zenon DEF StopVerified, TypeOK
  <2>3. UNCHANGED <<procVars, fileVars, start, sweeping>>
    BY DEF StopVerified
  <2> QED BY <1>1, <2>1, <2>2, <2>3
          DEF TypeOK, memVars, childVars, procVars, fileVars, StopState, StopSteps
<1>3. BootInv'
  BY <1>1, LifecycleAssumption DEF TypeOK, memVars, childVars, BootInv, StopInv,
    StopVerified, Alive, StopGoes, fileVars, procVars, HasSpawned, Draining, AddrLive
<1>4. StopInv'
  BY <1>1, LifecycleAssumption DEF TypeOK, memVars, childVars, BootInv, StopInv,
    StopVerified, Alive, StopGoes, fileVars, procVars, AddrLive
<1>5. ASSUME ~contended' PROVE OneAlive'
  BY <1>1, LifecycleAssumption, <1>5 DEF TypeOK, memVars, childVars, OneAlive, PidFileNames,
    StopVerified, Alive, StopGoes, fileVars, procVars, Unnamed, Order
<1>6. ASSUME ~contended' PROVE PidFileNames'
  BY <1>1, LifecycleAssumption, <1>6 DEF TypeOK, memVars, childVars, OneAlive, PidFileNames,
    StopSees, StopVerified, Alive, StopGoes, fileVars, procVars, Unnamed, Order
<1>7. ASSUME ~contended' PROVE StopSees'
  BY <1>1, LifecycleAssumption, <1>7 DEF TypeOK, memVars, childVars, OneAlive, PidFileNames,
    StopSees, StopVerified, Alive, StopGoes, fileVars, procVars, Unnamed, Order
<1>8. ASSUME ~contended' PROVE Found'
  BY <1>1, LifecycleAssumption, <1>8 DEF TypeOK, memVars, childVars, BootInv, OneAlive,
    Found, StopVerified, Alive, StopGoes, fileVars, procVars, Draining, AddrLive, Order
<1>9. ASSUME ~contended' PROVE OrphanInv'
  BY <1>1, LifecycleAssumption, <1>9 DEF TypeOK, memVars, childVars, BootInv, OneAlive,
    OrphanInv, StopVerified, Alive, StopGoes, fileVars, procVars, Reclaimed, HasSpawned,
    Order
<1> QED BY <1>2, <1>3, <1>4, <1>5, <1>6, <1>7, <1>8, <1>9 DEF LInv, Order

LEMMA NextKeeps == LInv /\ [Next]_vars => LInv'
<1> SUFFICES ASSUME LInv, [Next]_vars PROVE LInv'
  OBVIOUS
<1> USE LifecycleAssumption
        DEF LInv, Order, TypeOK, BootInv, StopInv, OneAlive, PidFileNames, StopSees, Found,
        OrphanInv, Reclaimed, HasSpawned, Alive, Draining, AddrLive, Unnamed,
        procVars, memVars, childVars, fileVars, otherVars
<1>1. ASSUME NEW p \in Procs, Start(p) PROVE LInv'
  BY <1>1 DEF Start, Goes, Spawned
<1>2. ASSUME NEW p \in Procs, ProbeIncumbent(p) PROVE LInv'
  BY <1>2, ProbeIncumbentKeeps
<1>3. ASSUME NEW p \in Procs, RefusePort(p) PROVE LInv'
  BY <1>3, EndingKeeps DEF RefusePort
<1>4. ASSUME NEW p \in Procs, WritePidFile(p) PROVE LInv'
  BY <1>4, WritePidFileKeeps
<1>5. ASSUME NEW p \in Procs, Listen(p) PROVE LInv'
  BY <1>5, ListenKeeps
<1>6. ASSUME NEW p \in Procs, Reclaim(p) PROVE LInv'
  BY <1>6 DEF Reclaim, Goes, None
<1>7. ASSUME NEW p \in Procs, ForgetOrphan(p) PROVE LInv'
  BY <1>7, ForgetOrphanKeeps
<1>8. ASSUME NEW p \in Procs, SpawnTunnel(p) PROVE LInv'
  BY <1>8, SpawnTunnelKeeps
<1>9. ASSUME NEW p \in Procs, SettlePid(p) PROVE LInv'
  BY <1>9, SettlePidKeeps
<1>10. ASSUME NEW p \in Procs, TunnelUp(p) PROVE LInv'
  BY <1>10, TunnelUpKeeps
<1>11. ASSUME NEW p \in Procs, TunnelFails(p) PROVE LInv'
  BY <1>11, EndingKeeps DEF TunnelFails
<1>12. ASSUME NEW p \in Procs, ReplaceTunnel(p) PROVE LInv'
  BY <1>12, ReplaceTunnelKeeps
<1>13. ASSUME NEW p \in Procs, DeclineTunnel(p) PROVE LInv'
  BY <1>13, DeclineTunnelKeeps
<1>14. ASSUME NEW p \in Procs, ProbeAddr(p) PROVE LInv'
  BY <1>14, ProbeAddrKeeps
<1>15. ASSUME NEW p \in Procs, ProbeUncertain(p) PROVE LInv'
  BY <1>15, EndingKeeps DEF ProbeUncertain
<1>16. ASSUME NEW p \in Procs, UnlinkAddr(p) PROVE LInv'
  BY <1>16, UnlinkAddrKeeps
<1>17. ASSUME NEW p \in Procs, Bind(p) PROVE LInv'
  BY <1>17, BindKeeps
<1>18. ASSUME NEW p \in Procs, WriteAdvert(p) PROVE LInv'
  BY <1>18 DEF WriteAdvert
<1>19. ASSUME NEW p \in Procs, Signal(p) PROVE LInv'
  BY <1>19, SignalKeeps
<1>20. ASSUME NEW p \in Procs, Kill(p) PROVE LInv'
  BY <1>20, EndingKeeps DEF Kill
<1>21. ASSUME NEW p \in Procs, NEW e \in Entries, RemoveAdvert(p, e) PROVE LInv'
  BY <1>21, RemoveAdvertKeeps
<1>22. ASSUME NEW p \in Procs, NEW e \in Entries, StopIpc(p, e) PROVE LInv'
  BY <1>22 DEF StopIpc, At, Moves, None
<1>23. ASSUME NEW p \in Procs, NEW e \in Entries, IpcStopped(p, e) PROVE LInv'
  BY <1>23 DEF IpcStopped, At, Moves, None
<1>24. ASSUME NEW p \in Procs, NEW e \in Entries, StopMcp(p, e) PROVE LInv'
  BY <1>24 DEF StopMcp, At, Moves
<1>25. ASSUME NEW p \in Procs, NEW e \in Entries, McpStopped(p, e) PROVE LInv'
  BY <1>25 DEF McpStopped, At, Moves
<1>26. ASSUME NEW p \in Procs, NEW e \in Entries, StopTunnel(p, e) PROVE LInv'
  BY <1>26, StopTunnelKeeps
<1>27. ASSUME NEW p \in Procs, NEW e \in Entries, Exit(p, e) PROVE LInv'
  BY <1>27, EndingKeeps DEF Exit, At
<1>28. ASSUME NEW p \in Procs, NEW e \in Entries, Watchdog(p, e) PROVE LInv'
  BY <1>28, EndingKeeps DEF Watchdog, At
<1>29. ASSUME NEW c \in Stoppers, StopBegin(c) PROVE LInv'
  BY <1>29, StopBeginKeeps
<1>30. ASSUME NEW c \in Stoppers, StopConnects(c) PROVE LInv'
  BY <1>30, StopConnectsKeeps
<1>31. ASSUME NEW c \in Stoppers, StopRequest(c) PROVE LInv'
  BY <1>31, StopRequestKeeps
<1>32. ASSUME NEW c \in Stoppers, StopLost(c) PROVE LInv'
  BY <1>32, StopLostKeeps
<1>33. ASSUME NEW c \in Stoppers, StopVerified(c) PROVE LInv'
  BY <1>33, StopVerifiedKeeps
<1>34. ASSUME NEW c \in Stoppers, StopCleans(c) PROVE LInv'
  BY <1>34 DEF StopCleans, None
<1>35. CASE WaitForReady
  BY <1>35 DEF WaitForReady, None
<1>36. CASE Report
  BY <1>36 DEF Report, None
<1>37. CASE SweepProbe
  BY <1>37, SweepProbeKeeps
<1>38. CASE SweepUnlink
  BY <1>38, SweepUnlinkKeeps
<1>40. ASSUME NEW p \in Procs, TunnelEnds(p) PROVE LInv'
  BY <1>40, TunnelEndsKeeps
<1>41. ASSUME NEW p \in Procs, TunnelDeclined(p) PROVE LInv'
  BY <1>41, TunnelDeclinedKeeps
<1>42. ASSUME NEW p \in Procs, NEW e \in Entries, TunnelStopped(p, e) PROVE LInv'
  BY <1>42, TunnelStoppedKeeps
<1>39. CASE UNCHANGED vars
  BY <1>39 DEF vars, Enter
<1> HIDE DEF LInv, Order
<1> QED BY <1>1, <1>2, <1>3, <1>4, <1>5, <1>6, <1>7, <1>8, <1>9, <1>10, <1>11, <1>12, <1>13,
  <1>14, <1>15, <1>16, <1>17, <1>18, <1>19, <1>20, <1>21, <1>22, <1>23, <1>24, <1>25, <1>26,
  <1>27, <1>28, <1>29, <1>30, <1>31, <1>32, <1>33, <1>34, <1>35, <1>36, <1>37, <1>38, <1>39,
  <1>40, <1>41, <1>42, Zenon DEF Next, Works, ClientsLeave

LEMMA InitKeeps == Init => LInv
<1> SUFFICES ASSUME Init PROVE LInv
  OBVIOUS
<1>1. TypeOK
  BY LifecycleAssumption DEF Init, TypeOK, None
<1>2. BootInv /\ StopInv
  BY DEF Init, BootInv, StopInv, Draining
<1>3. OneAlive /\ PidFileNames /\ StopSees /\ Found /\ OrphanInv
  BY DEF Init, OneAlive, PidFileNames, StopSees, Found, OrphanInv, Alive, Reclaimed
<1> QED BY <1>1, <1>2, <1>3 DEF LInv, Order

LEMMA Invariant == Spec => []LInv
<1>1. Init => LInv
  BY InitKeeps
<1>2. LInv /\ [Next]_vars => LInv'
  BY NextKeeps
<1> QED BY <1>1, <1>2, PTL DEF Spec

-----------------------------------------------------------------------------
(* Every variable keeps its type, also when shutdown() is entered again    *)
(* and again: a file names a process that was spawned, or nothing.         *)
THEOREM LifecycleTypeCorrect == Spec => []TypeOK
<1>1. LInv => TypeOK
  BY DEF LInv
<1> QED BY <1>1, Invariant, PTL

(* After any sequence of crashes, failed boots, watchdog exits, starts and *)
(* stops, a daemon that serves is the one that daemon.pid, the socket and  *)
(* the advert lead to (main, shutdown, stopCommand).                       *)
THEOREM FindableHolds == Spec => []Findable
<1>1. LInv => Findable
  BY DEF LInv, Order, Findable, Found, PidFileNames, Serving, Alive
<1> QED BY <1>1, Invariant, PTL

(* The cloudflared of a daemon that is gone is the one that tunnel.pid     *)
(* names, unless its pid was never written or the reports of its manager   *)
(* overlapped or came late (reclaimOrphanTunnel, pid_change in main).      *)
THEOREM OrphanIsReclaimableHolds == Spec => []OrphanIsReclaimable
<1>1. LInv => OrphanIsReclaimable
  BY DEF LInv, Order, OrphanIsReclaimable, OrphanInv
<1> QED BY <1>1, Invariant, PTL

(* The daemon that answers the status request of a start command is the    *)
(* one that the command has spawned, if that one is alive (startCommand).  *)
THEOREM ReportIsTrueHolds == Spec => ReportIsTrue
<1>1. ASSUME LInv, AddrLive, ~contended, Alive(start.pid)
      PROVE  addr = start.pid
  <2>1. addr \in Procs /\ Alive(addr)
    BY <1>1 DEF LInv, TypeOK, AddrLive, Alive
  <2> QED BY <1>1, <2>1 DEF LInv, Order, OneAlive, Alive
<1>2. LInv => (start.step = "asking" /\ start'.step = "idle" /\ AddrLive /\ ~contended
                 => addr = start.pid \/ ~Alive(start.pid))
  BY <1>1
<1> QED BY <1>2, Invariant, PTL DEF ReportIsTrue

(***************************************************************************)
(* The tunnel.  OneTunnel says that the manager knows every child that     *)
(* runs; it is inductive with the types and the respawn budget.  Known is  *)
(* OneTunnel of the children and the current child that an action is about *)
(* to pass to a spawn.                                                     *)
(***************************************************************************)
(* The manager's view of its children: those that run are known to it.     *)
Known(procs, curr) ==
  /\ procs \in [Children -> ChildRecord]
  /\ curr \in Children \cup {Nothing}
  /\ \A p \in Children :
       procs[p].stage = "running" => p = curr /\ (procs[p].url \/ procs[p].timer)

(* A respawn that exceeds the budget suspends the next ones.               *)
Budget == recent <= MaxRestarts \/ suspended

CallState == [op    : {"none", "restart", "decline", "shutdown"},
              step  : {"idle", "killing", "starting", "done"},
              child : Children \cup {Nothing}]

TInv == TunnelTypeOK /\ Budget /\ OneTunnel

(* The URL that tunnelUrl becomes was asked for.                           *)
AdoptsAsked ==
  tunnelUrl' \notin {tunnelUrl, Nothing} =>
     \/ child[tunnelUrl'].initial
     \/ pending = tunnelUrl' /\ \E w \in Windows : tunnelUrl' \in modals[w]

(* Of the children procs, none is started that nobody asked for.           *)
NoneByItself(procs) ==
  \A p \in Children :
    procs[p].stage = "none" /\ child'[p].stage = "running" => child'[p].initial

LEMMA TInvKnown == TInv <=> TunnelTypeOK /\ Budget /\ Known(child, current)
  BY DEF TInv, TunnelTypeOK, Known, OneTunnel, Stage

LEMMA ToldTyped ==
  ASSUME NEW rec \in ChildRecord
  PROVE  Told(rec) \in ChildRecord /\ Told(rec).stage # "running"
         /\ (Told(rec).stage = "none" <=> rec.stage = "none")
  BY DEF Told, ChildRecord

LEMMA FreshTyped ==
  ASSUME NEW initial \in BOOLEAN
  PROVE  Fresh(initial) \in ChildRecord
  BY DEF Fresh, ChildRecord

LEMMA SpawnEffect ==
  ASSUME NEW procs, NEW curr, Known(procs, curr), spawned \in Children,
         NEW initial \in BOOLEAN, Spawn(procs, curr, initial)
  PROVE  /\ spawned' \in Children
         /\ Known(child', current')
         /\ \A p \in Children : procs[p].stage = "none" /\ child'[p].stage = "running"
                                  => child'[p].initial = initial
<1>1. spawned + 1 \in Children
  BY TunnelAssumption DEF Spawn, Children
<1>2. \A p \in Children :
        child'[p] = IF p = spawned + 1 THEN Fresh(initial)
                    ELSE IF p = curr THEN Told(procs[p]) ELSE procs[p]
  BY DEF Spawn
<1>3. child' \in [Children -> ChildRecord]
  BY ToldTyped, FreshTyped DEF Spawn, Known
<1>4. ASSUME NEW p \in Children, child'[p].stage = "running"
      PROVE  p = spawned + 1 /\ child'[p] = Fresh(initial)
  BY <1>2, <1>4, ToldTyped DEF Known
<1>5. Fresh(initial).timer /\ Fresh(initial).initial = initial
  BY DEF Fresh
<1> QED BY <1>1, <1>3, <1>4, <1>5 DEF Spawn, Known

LEMMA KeepEffect ==
  ASSUME NEW procs, NEW curr, Known(procs, curr), spawned \in Children, Keep(procs, curr)
  PROVE  spawned' \in Children /\ Known(child', current') /\ NoneByItself(procs)
  BY DEF Keep, Known, NoneByItself

LEMMA AttemptRespawnEffect ==
  ASSUME NEW procs, NEW curr, Known(procs, curr), TunnelTypeOK, Budget,
         AttemptRespawn(procs, curr)
  PROVE  /\ spawned' \in Children
         /\ Known(child', current')
         /\ status' \in {"up", "degraded", "down"}
         /\ recent' \in 0..(MaxRestarts + 1)
         /\ suspended' \in BOOLEAN
         /\ Budget'
         /\ NoneByItself(procs) \/ (~stopped /\ ~suspended)
<1>1. CASE suspended \/ stopped
  BY <1>1, KeepEffect DEF AttemptRespawn, TunnelTypeOK, Budget
<1>2. ASSUME ~suspended, ~stopped, NEW k \in 0..recent, recent' = k + 1,
             IF recent' > MaxRestarts
             THEN suspended' = TRUE /\ status' = "degraded" /\ Keep(procs, curr)
             ELSE UNCHANGED <<suspended, status>> /\ Spawn(procs, curr, FALSE)
      PROVE  /\ spawned' \in Children
             /\ Known(child', current')
             /\ status' \in {"up", "degraded", "down"}
             /\ recent' \in 0..(MaxRestarts + 1)
             /\ suspended' \in BOOLEAN
             /\ Budget'
  <2>1. recent' \in 0..(MaxRestarts + 1)
    BY <1>2, TunnelAssumption DEF TunnelTypeOK, Budget
  <2>2. CASE recent' > MaxRestarts
    <3>1. suspended' = TRUE /\ status' = "degraded" /\ Keep(procs, curr)
      BY <1>2, <2>2
    <3>2. Known(child', current') /\ spawned' \in Children
      BY <3>1, KeepEffect DEF TunnelTypeOK
    <3>3. suspended' \in BOOLEAN /\ Budget'
      BY <3>1, Zenon DEF Budget
    <3>4. status' \in {"up", "degraded", "down"}
      <4>1. status' = "degraded"
        BY <3>1
      <4> QED BY <4>1
    <3> QED BY <2>1, <3>2, <3>3, <3>4
  <2>3. CASE ~(recent' > MaxRestarts)
    <3>1. UNCHANGED <<suspended, status>> /\ Spawn(procs, curr, FALSE)
      BY <1>2, <2>3
    <3>2. Known(child', current') /\ spawned' \in Children
      BY <3>1, SpawnEffect DEF TunnelTypeOK
    <3>3. recent' <= MaxRestarts
      BY <2>1, <2>3, TunnelAssumption
    <3> QED BY <2>1, <3>1, <3>2, <3>3 DEF TunnelTypeOK, Budget
  <2> QED BY <2>2, <2>3
<1> QED BY <1>1, <1>2 DEF AttemptRespawn

-----------------------------------------------------------------------------
NoUnwanted == NoneByItself(child) \/ (~stopped /\ ~suspended)

LEMMA RejectRestartEffect ==
  ASSUME NEW p \in Children, TunnelTypeOK, Budget, RejectRestart(p)
  PROVE  /\ call' \in [Callers -> CallState]
         /\ suspended' \in BOOLEAN /\ status' \in {"up", "degraded", "down"}
         /\ recent' \in 0..(MaxRestarts + 1)
         /\ Budget'
<1> DEFINE waiting == {c \in Callers : CallAt(c, "starting") /\ call[c].child = p}
<1>1. call' \in [Callers -> CallState]
  BY DEF RejectRestart, TunnelTypeOK, CallState, Idle
<1>2. CASE waiting = {}
  BY <1>1, <1>2 DEF RejectRestart, TunnelTypeOK, Budget
<1>3. CASE waiting # {}
  <2>1. suspended' = TRUE /\ status' = "degraded" /\ recent' = recent
    BY <1>3 DEF RejectRestart
  <2> QED BY <1>1, <2>1 DEF TunnelTypeOK, Budget
<1> QED BY <1>2, <1>3

(* What a step of the manager keeps when it leaves the windows alone.      *)
LEMMA ManagerKeeps ==
  ASSUME TInv, spawned' \in Children, Known(child', current'), Budget',
         status' \in {"up", "degraded", "down"}, recent' \in 0..(MaxRestarts + 1),
         suspended' \in BOOLEAN, stopped' \in BOOLEAN, call' \in [Callers -> CallState],
         tunnelUrl' \in Children \cup {Nothing}, UNCHANGED <<pending, windowVars>>
  PROVE  TInv'
<1>1. TunnelTypeOK'
  BY DEF TInv, TunnelTypeOK, Known, CallState, windowVars
<1>2. OneTunnel'
  BY DEF Known, OneTunnel, Stage
<1> QED BY <1>1, <1>2 DEF TInv

LEMMA ChildExitsKeeps ==
  ASSUME TInv, NEW p \in Children, ChildExits(p)
  PROVE  TInv' /\ AdoptsAsked /\ NoUnwanted
<1> DEFINE procs == [child EXCEPT ![p].stage = "exited", ![p].timer = FALSE]
           curr == IF current = p THEN Nothing ELSE current
<1>1. TunnelTypeOK /\ Budget /\ Known(child, current)
  BY TInvKnown
<1>2. /\ Known(procs, curr)
      /\ \A q \in Children : child[q].stage = "none" => procs[q].stage = "none"
  <2>1. procs \in [Children -> ChildRecord]
    BY <1>1 DEF Known, ChildRecord
  <2>2. \A q \in Children :
          procs[q] = IF q = p THEN [child[p] EXCEPT !.stage = "exited", !.timer = FALSE]
                     ELSE child[q]
    BY <1>1 DEF Known
  <2>3. procs[p].stage = "exited"
    BY <1>1 DEF Known, ChildRecord
  <2>4. \A q \in Children : child[q].stage = "none" => procs[q].stage = "none"
    BY <2>2, <2>3 DEF ChildExits, Stage
  <2> QED BY <1>1, <2>1, <2>2, <2>3, <2>4 DEF Known
<1>3. stopped' \in BOOLEAN /\ tunnelUrl' = tunnelUrl /\ UNCHANGED <<pending, windowVars>>
  BY <1>1 DEF ChildExits, TunnelTypeOK, recoveryVars
<1>4. CASE stopped /\ Keep(procs, curr) /\ UNCHANGED <<recent, suspended, status, call>>
  BY <1>1, <1>2, <1>3, <1>4, KeepEffect, ManagerKeeps
     DEF AdoptsAsked, NoUnwanted, NoneByItself, TunnelTypeOK, Budget, CallState
<1>5. CASE Keep(procs, curr) /\ RejectRestart(p)
  BY <1>1, <1>2, <1>3, <1>5, KeepEffect, RejectRestartEffect, ManagerKeeps
     DEF AdoptsAsked, NoUnwanted, NoneByItself, TunnelTypeOK
<1>6. CASE AttemptRespawn(procs, curr) /\ UNCHANGED call
  BY <1>1, <1>2, <1>3, <1>6, AttemptRespawnEffect, ManagerKeeps
     DEF AdoptsAsked, NoUnwanted, NoneByItself, TunnelTypeOK, CallState
<1> QED BY <1>4, <1>5, <1>6 DEF ChildExits

LEMMA SpawnErrorKeeps ==
  ASSUME TInv, NEW p \in Children, SpawnError(p)
  PROVE  TInv' /\ AdoptsAsked /\ NoUnwanted
<1>1. TunnelTypeOK /\ Budget /\ Known(child, current)
  BY TInvKnown
<1>2. Known(child', current') /\ NoneByItself(child)
  BY <1>1 DEF SpawnError, Known, ChildRecord, NoneByItself
<1> QED BY <1>1, <1>2, ManagerKeeps
        DEF SpawnError, TunnelTypeOK, Budget, CallState, AdoptsAsked, NoUnwanted, recoveryVars

LEMMA StartTimeoutKeeps ==
  ASSUME TInv, NEW p \in Children, StartTimeout(p)
  PROVE  TInv' /\ AdoptsAsked /\ NoUnwanted
<1> DEFINE late  == [child[p] EXCEPT !.timer = FALSE]
           procs == [child EXCEPT ![p] = Told([@ EXCEPT !.timer = FALSE])]
           curr  == IF current = p THEN Nothing ELSE current
<1>1. TunnelTypeOK /\ Budget /\ Known(child, current)
  BY TInvKnown
<1>2. /\ Known(procs, curr)
      /\ \A q \in Children : child[q].stage = "none" => procs[q].stage = "none"
  <2>1. late \in ChildRecord /\ late.stage = child[p].stage
    BY <1>1 DEF Known, ChildRecord
  <2>2. /\ Told(late) \in ChildRecord /\ Told(late).stage # "running"
        /\ Told(late).stage = "none" <=> child[p].stage = "none"
    BY <2>1, ToldTyped
  <2>3. procs \in [Children -> ChildRecord]
    BY <1>1, <2>2 DEF Known
  <2>4. \A q \in Children : procs[q] = IF q = p THEN Told(late) ELSE child[q]
    BY <1>1 DEF Known
  <2> QED BY <1>1, <2>2, <2>3, <2>4 DEF Known
<1>3. stopped' \in BOOLEAN /\ tunnelUrl' = tunnelUrl /\ UNCHANGED <<pending, windowVars>>
  BY <1>1 DEF StartTimeout, TunnelTypeOK, recoveryVars
<1> HIDE DEF late
<1>4. CASE Keep(procs, curr) /\ RejectRestart(p)
  BY <1>1, <1>2, <1>3, <1>4, KeepEffect, RejectRestartEffect, ManagerKeeps
     DEF AdoptsAsked, NoUnwanted, NoneByItself, TunnelTypeOK
<1>5. CASE AttemptRespawn(procs, curr) /\ UNCHANGED call
  BY <1>1, <1>2, <1>3, <1>5, AttemptRespawnEffect, ManagerKeeps
     DEF AdoptsAsked, NoUnwanted, NoneByItself, TunnelTypeOK, CallState
<1> QED BY <1>4, <1>5 DEF StartTimeout

LEMMA UrlArrivesKeeps ==
  ASSUME TInv, NEW p \in Children, UrlArrives(p)
  PROVE  TInv' /\ AdoptsAsked /\ NoUnwanted
<1>1. TunnelTypeOK /\ Budget /\ Known(child, current)
  BY TInvKnown
<1>2. Known(child', current') /\ NoneByItself(child)
  BY <1>1 DEF UrlArrives, Known, ChildRecord, NoneByItself
<1>3. /\ spawned' \in Children /\ recent' \in 0..(MaxRestarts + 1)
      /\ suspended' \in BOOLEAN /\ stopped' \in BOOLEAN
      /\ status' \in {"up", "degraded", "down"}
      /\ link' \in [Windows -> {"down", "greeted", "registered"}]
      /\ Budget'
  BY <1>1 DEF UrlArrives, TunnelTypeOK, Budget
<1>4. CASE /\ child[p].initial
           /\ tunnelUrl' = p
           /\ call' = [c \in Callers |->
                         IF CallAt(c, "starting") /\ call[c].child = p THEN Idle ELSE call[c]]
           /\ UNCHANGED <<pending, modals>>
  <2>1. call' \in [Callers -> CallState]
    BY <1>1, <1>4 DEF TunnelTypeOK, CallState, Idle
  <2>2. UNCHANGED <<pending, windowVars>>
    BY <1>4 DEF UrlArrives, windowVars
  <2> QED BY <1>2, <1>3, <1>4, <2>1, <2>2, ManagerKeeps DEF AdoptsAsked, NoUnwanted
<1>5. CASE /\ pending' = p
           /\ Ask(p)
           /\ UNCHANGED <<tunnelUrl, call>>
  <2>1. modals' \in [Windows -> SUBSET Children]
    BY <1>1, <1>5 DEF Ask, TunnelTypeOK
  <2>2. TunnelTypeOK'
    BY <1>1, <1>2, <1>3, <1>5, <2>1 DEF TunnelTypeOK, Known
  <2> QED BY <1>2, <1>3, <1>5, <2>2
          DEF AdoptsAsked, NoUnwanted, TInv, Known, OneTunnel, Stage
<1> QED BY <1>4, <1>5 DEF UrlArrives

LEMMA RestartKeeps ==
  ASSUME TInv, NEW c \in Callers, Restart(c)
  PROVE  TInv' /\ AdoptsAsked /\ NoUnwanted
<1>1. TunnelTypeOK /\ Budget /\ Known(child, current)
  BY TInvKnown
<1>2. /\ recent' \in 0..(MaxRestarts + 1) /\ suspended' \in BOOLEAN /\ stopped' \in BOOLEAN
      /\ status' \in {"up", "degraded", "down"} /\ tunnelUrl' = tunnelUrl
      /\ UNCHANGED <<pending, windowVars>> /\ Budget'
  <2>1. recent' = 0 /\ UNCHANGED <<status, recoveryVars>>
    BY DEF Restart
  <2>2. suspended' = FALSE /\ stopped' = FALSE
    BY DEF Restart
  <2>3. suspended' \in BOOLEAN /\ stopped' \in BOOLEAN
    BY <2>2, Zenon
  <2> QED BY <1>1, <2>1, <2>3, TunnelAssumption DEF TunnelTypeOK, Budget, recoveryVars
<1>3. CASE /\ current # Nothing
           /\ call' = [call EXCEPT
                          ![c] = [op |-> "restart", step |-> "killing", child |-> current]]
           /\ Keep([child EXCEPT ![current] = Told(@)], Nothing)
  <2>1. current \in Children
    BY <1>1, <1>3 DEF TunnelTypeOK
  <2>2. call' \in [Callers -> CallState]
    BY <1>1, <1>3, <2>1 DEF TunnelTypeOK, CallState
  <2>3. child' \in [Children -> ChildRecord]
    BY <1>1, <1>3, <2>1, ToldTyped DEF Keep, Known
  <2>4. \A p \in Children : child'[p] = IF p = current THEN Told(child[p]) ELSE child[p]
    BY <1>1, <1>3, <2>1 DEF Keep, Known
  <2>5. Known(child', current') /\ NoneByItself(child)
    BY <1>1, <1>3, <2>3, <2>4, ToldTyped DEF Keep, Known, NoneByItself
  <2> QED BY <1>1, <1>2, <1>3, <2>2, <2>5, ManagerKeeps
          DEF Keep, TunnelTypeOK, AdoptsAsked, NoUnwanted
<1>4. CASE /\ current = Nothing
           /\ Spawn(child, Nothing, TRUE)
           /\ call' = [call EXCEPT
                          ![c] = [op |-> "restart", step |-> "starting", child |-> spawned']]
  <2>1. spawned' \in Children /\ Known(child', current') /\ NoneByItself(child)
    BY <1>1, <1>4, SpawnEffect DEF TunnelTypeOK, NoneByItself
  <2>2. call' \in [Callers -> CallState]
    BY <1>1, <1>4, <2>1 DEF TunnelTypeOK, CallState
  <2> QED BY <1>1, <1>2, <2>1, <2>2, ManagerKeeps DEF TunnelTypeOK, AdoptsAsked, NoUnwanted
<1> QED BY <1>3, <1>4 DEF Restart

LEMMA RestartGoesOnKeeps ==
  ASSUME TInv, NEW c \in Callers, RestartGoesOn(c)
  PROVE  TInv' /\ AdoptsAsked /\ NoUnwanted
<1>1. TunnelTypeOK /\ Budget /\ Known(child, current)
  BY TInvKnown
<1>2. spawned' \in Children /\ Known(child', current') /\ NoneByItself(child)
  BY <1>1, SpawnEffect DEF RestartGoesOn, TunnelTypeOK, NoneByItself
<1>3. call' \in [Callers -> CallState]
  <2>1. /\ call \in [Callers -> CallState]
        /\ call' = [call EXCEPT ![c].step = "starting", ![c].child = spawned']
    BY <1>1 DEF RestartGoesOn, TunnelTypeOK, CallState
  <2> QED BY <1>2, <2>1 DEF CallState
<1> QED BY <1>1, <1>2, <1>3, ManagerKeeps
        DEF RestartGoesOn, TunnelTypeOK, Budget, AdoptsAsked, NoUnwanted, recoveryVars

LEMMA AfterStopEffect ==
  ASSUME TunnelTypeOK, NEW c \in Callers,
         NEW op \in {"none", "restart", "decline", "shutdown"}, AfterStop(c, op)
  PROVE  call' \in [Callers -> CallState] /\ tunnelUrl' \in {tunnelUrl, Nothing}
  BY DEF AfterStop, TunnelTypeOK, CallState, Idle

(* stop(), as the tunnel layer of shutdown() or for the operator.          *)
LEMMA StopEffect ==
  ASSUME TInv, NEW c \in Callers, NEW op \in {"decline", "shutdown"}, Stop(c, op)
  PROVE  /\ call' \in [Callers -> CallState]
         /\ spawned' \in Children /\ recent' \in 0..(MaxRestarts + 1)
         /\ suspended' \in BOOLEAN /\ stopped' \in BOOLEAN
         /\ status' \in {"up", "degraded", "down"}
         /\ tunnelUrl' \in {tunnelUrl, Nothing}
         /\ Known(child', current') /\ Budget' /\ NoneByItself(child)
<1>1. TunnelTypeOK /\ Budget /\ Known(child, current)
  BY TInvKnown
<1>2. /\ spawned' \in Children /\ recent' \in 0..(MaxRestarts + 1)
      /\ suspended' \in BOOLEAN /\ stopped' \in BOOLEAN /\ Budget'
  BY <1>1 DEF Stop, TunnelTypeOK, Budget
<1>3. CASE /\ AfterStop(c, op)
           /\ status' = IF stopped THEN status ELSE "down"
           /\ UNCHANGED <<child, current>>
  BY <1>1, <1>2, <1>3, AfterStopEffect DEF TunnelTypeOK, NoneByItself
<1>4. CASE /\ current # Nothing
           /\ call' = [call EXCEPT ![c] = [op |-> op, step |-> "killing", child |-> current]]
           /\ child' = [child EXCEPT ![current] = Told(@)]
           /\ current' = Nothing
           /\ UNCHANGED <<status, tunnelUrl>>
  <2>1. current \in Children
    BY <1>1, <1>4 DEF TunnelTypeOK
  <2>2. call' \in [Callers -> CallState]
    BY <1>1, <1>4, <2>1 DEF TunnelTypeOK, CallState
  <2>3. child' \in [Children -> ChildRecord]
    BY <1>1, <1>4, <2>1, ToldTyped DEF Known
  <2>4. \A p \in Children : child'[p] = IF p = current THEN Told(child[p]) ELSE child[p]
    BY <1>1, <1>4, <2>1 DEF Known
  <2>5. Known(child', current') /\ NoneByItself(child)
    BY <1>1, <1>4, <2>3, <2>4, ToldTyped DEF Known, NoneByItself
  <2> QED BY <1>1, <1>2, <1>4, <2>2, <2>5 DEF TunnelTypeOK
<1> QED BY <1>3, <1>4 DEF Stop

LEMMA StopGoesOnKeeps ==
  ASSUME TInv, NEW c \in Callers, StopGoesOn(c)
  PROVE  TInv' /\ AdoptsAsked /\ NoUnwanted
<1>1. TunnelTypeOK /\ Budget /\ Known(child, current)
  BY TInvKnown
<1>2. call[c].op \in {"none", "restart", "decline", "shutdown"}
  BY <1>1 DEF TunnelTypeOK
<1>3. call' \in [Callers -> CallState] /\ tunnelUrl' \in {tunnelUrl, Nothing}
  BY <1>1, <1>2, AfterStopEffect DEF StopGoesOn
<1>4. Known(child', current') /\ NoneByItself(child)
  BY <1>1 DEF StopGoesOn, NoneByItself
<1> QED BY <1>1, <1>3, <1>4, ManagerKeeps
        DEF StopGoesOn, TunnelTypeOK, Budget, AdoptsAsked, NoUnwanted

LEMMA ShutdownKeeps ==
  ASSUME TInv, NEW c \in Callers, Shutdown(c)
  PROVE  TInv' /\ AdoptsAsked /\ NoUnwanted
<1>1. TunnelTypeOK
  BY DEF TInv
<1>2. Stop(c, "shutdown") /\ UNCHANGED <<pending, windowVars>>
  BY DEF Shutdown
<1> QED BY <1>1, <1>2, StopEffect, ManagerKeeps DEF TunnelTypeOK, AdoptsAsked, NoUnwanted

-----------------------------------------------------------------------------
(* What a step that leaves the manager alone keeps. *)
LEMMA WindowKeeps ==
  ASSUME TInv, UNCHANGED managerVars, tunnelUrl' \in Children \cup {Nothing},
         pending' \in Children \cup {Nothing},
         link' \in [Windows -> {"down", "greeted", "registered"}],
         modals' \in [Windows -> SUBSET Children]
  PROVE  TInv' /\ NoUnwanted
<1>1. TunnelTypeOK'
  BY DEF TInv, TunnelTypeOK, managerVars
<1>2. Budget' /\ OneTunnel' /\ NoneByItself(child)
  BY DEF TInv, Budget, OneTunnel, Stage, managerVars, NoneByItself
<1> QED BY <1>1, <1>2 DEF TInv, NoUnwanted

LEMMA HelloKeeps ==
  ASSUME TInv, NEW w \in Windows, Hello(w)
  PROVE  TInv' /\ AdoptsAsked /\ NoUnwanted
<1>1. modals' \in [Windows -> SUBSET Children]
  BY DEF Hello, Ask, TInv, TunnelTypeOK
<1>2. link' \in [Windows -> {"down", "greeted", "registered"}]
  BY DEF Hello, TInv, TunnelTypeOK
<1>3. UNCHANGED <<managerVars, tunnelUrl, pending>>
  BY DEF Hello
<1> QED BY <1>1, <1>2, <1>3, WindowKeeps DEF TInv, TunnelTypeOK, AdoptsAsked

LEMMA RegisterKeeps ==
  ASSUME TInv, NEW w \in Windows, Register(w)
  PROVE  TInv' /\ AdoptsAsked /\ NoUnwanted
  BY WindowKeeps DEF Register, TInv, TunnelTypeOK, AdoptsAsked

LEMMA WindowDropsKeeps ==
  ASSUME TInv, NEW w \in Windows, WindowDrops(w)
  PROVE  TInv' /\ AdoptsAsked /\ NoUnwanted
<1>1. modals' \in [Windows -> SUBSET Children]
  BY DEF WindowDrops, TInv, TunnelTypeOK
<1> QED BY <1>1, WindowKeeps DEF WindowDrops, TInv, TunnelTypeOK, AdoptsAsked

LEMMA DismissKeeps ==
  ASSUME TInv, NEW w \in Windows, NEW p \in Children, Dismiss(w, p)
  PROVE  TInv' /\ AdoptsAsked /\ NoUnwanted
<1>1. modals' \in [Windows -> SUBSET Children]
  BY DEF Dismiss, TInv, TunnelTypeOK
<1> QED BY <1>1, WindowKeeps DEF Dismiss, TInv, TunnelTypeOK, AdoptsAsked

LEMMA AnswerEffect ==
  ASSUME TInv, NEW w \in Windows, NEW p \in Children, Answer(w, p)
  PROVE  modals' \in [Windows -> SUBSET Children] /\ link' = link /\ p \in modals[w]
  BY DEF Answer, TInv, TunnelTypeOK

LEMMA ConfirmKeeps ==
  ASSUME TInv, NEW w \in Windows, NEW p \in Children, Confirm(w, p)
  PROVE  TInv' /\ AdoptsAsked /\ NoUnwanted
<1>1. modals' \in [Windows -> SUBSET Children] /\ link' = link /\ p \in modals[w]
  BY AnswerEffect DEF Confirm
<1>2. tunnelUrl' = p /\ pending = p /\ pending' = Nothing /\ UNCHANGED managerVars
  BY DEF Confirm
<1> QED BY <1>1, <1>2, WindowKeeps DEF TInv, TunnelTypeOK, AdoptsAsked

LEMMA DeclineKeeps ==
  ASSUME TInv, NEW w \in Windows, NEW p \in Children, NEW c \in Callers, Decline(w, p, c)
  PROVE  TInv' /\ AdoptsAsked /\ NoUnwanted
<1>1. modals' \in [Windows -> SUBSET Children] /\ link' = link
  BY AnswerEffect DEF Decline
<1>2. Stop(c, "decline") /\ pending' = Nothing
  BY DEF Decline
<1>3. /\ call' \in [Callers -> CallState]
      /\ spawned' \in Children /\ recent' \in 0..(MaxRestarts + 1)
      /\ suspended' \in BOOLEAN /\ stopped' \in BOOLEAN
      /\ status' \in {"up", "degraded", "down"}
      /\ tunnelUrl' \in {tunnelUrl, Nothing}
      /\ Known(child', current') /\ Budget' /\ NoneByItself(child)
  BY <1>2, StopEffect
<1>4. TunnelTypeOK'
  BY <1>1, <1>2, <1>3 DEF TInv, TunnelTypeOK, Known, CallState
<1> QED BY <1>3, <1>4 DEF TInv, Known, OneTunnel, Stage, AdoptsAsked, NoUnwanted

LEMMA TunnelStep ==
  ASSUME TInv, [TunnelNext]_tunnelVars
  PROVE  TInv' /\ AdoptsAsked /\ NoUnwanted
<1>1. CASE UNCHANGED tunnelVars
  BY <1>1, WindowKeeps
     DEF tunnelVars, recoveryVars, windowVars, TInv, TunnelTypeOK, AdoptsAsked
<1> QED BY <1>1, ChildExitsKeeps, SpawnErrorKeeps, StartTimeoutKeeps, UrlArrivesKeeps,
           RestartKeeps, RestartGoesOnKeeps, StopGoesOnKeeps, ShutdownKeeps, HelloKeeps,
           RegisterKeeps, WindowDropsKeeps, DismissKeeps, ConfirmKeeps, DeclineKeeps, Zenon
        DEF TunnelNext

LEMMA TunnelInitKeeps == TunnelInit => TInv
<1> SUFFICES ASSUME TunnelInit PROVE TInv
  OBVIOUS
<1>1. child \in [Children -> ChildRecord]
  BY DEF TunnelInit, Fresh, ChildRecord
<1>2. TunnelTypeOK
  <2>1. 1 \in Children /\ 0 \in 0..(MaxRestarts + 1)
    BY TunnelAssumption DEF Children
  <2>2. suspended \in BOOLEAN /\ stopped \in BOOLEAN
    BY Zenon DEF TunnelInit
  <2>3. call \in [Callers -> CallState] /\ modals \in [Windows -> SUBSET Children]
    BY DEF TunnelInit, CallState, Idle
  <2>4. /\ status \in {"up", "degraded", "down"}
        /\ link \in [Windows -> {"down", "greeted", "registered"}]
    BY DEF TunnelInit
  <2>5. spawned = 1 /\ current = 1 /\ recent = 0 /\ tunnelUrl = 1 /\ pending = Nothing
    BY DEF TunnelInit
  <2> QED BY <1>1, <2>1, <2>2, <2>3, <2>4, <2>5 DEF TunnelTypeOK, CallState
<1>3. Budget
  BY TunnelAssumption DEF TunnelInit, Budget
<1>4. OneTunnel
  BY DEF TunnelInit, OneTunnel, Stage, Fresh
<1> QED BY <1>2, <1>3, <1>4 DEF TInv

LEMMA TunnelInvariant == TunnelSpec => []TInv
<1>1. TInv /\ [TunnelNext]_tunnelVars => TInv'
  BY TunnelStep
<1> QED BY <1>1, TunnelInitKeeps, PTL DEF TunnelSpec

-----------------------------------------------------------------------------
(* The tunnel's state keeps its type: the restarts that are counted never  *)
(* exceed the budget by more than the one that suspends (attemptRespawn).  *)
THEOREM TunnelTypeCorrect == TunnelSpec => []TunnelTypeOK
<1>1. TInv => TunnelTypeOK
  BY DEF TInv
<1> QED BY <1>1, TunnelInvariant, PTL

(* Every cloudflared that runs and has not been told to stop is the        *)
(* current one, and has a URL or a timer, whatever restarts, exits and     *)
(* timeouts overlap (spawnProcess, attemptRespawn, restart, stop).         *)
THEOREM OneTunnelHolds == TunnelSpec => []OneTunnel
<1>1. TInv => OneTunnel
  BY DEF TInv
<1> QED BY <1>1, TunnelInvariant, PTL

(* The public URL only becomes one that a restart asked for or a modal     *)
(* that is open in some window has confirmed (DropRecovery.onDecision).    *)
THEOREM NeverSilentAdoptHolds == TunnelSpec => NeverSilentAdopt
<1>1. TInv /\ [TunnelNext]_tunnelVars =>
        (tunnelUrl' \notin {tunnelUrl, Nothing} =>
           \/ child[tunnelUrl'].initial
           \/ pending = tunnelUrl' /\ \E w \in Windows : tunnelUrl' \in modals[w])
  BY TunnelStep DEF AdoptsAsked
<1> QED BY <1>1, TunnelInvariant, PTL DEF TunnelSpec, NeverSilentAdopt

(* A child is started that nobody asked for only while respawns are on:    *)
(* not after a stop, nor once the budget is used up (attemptRespawn).      *)
THEOREM NoUnwantedRespawnHolds == TunnelSpec => NoUnwantedRespawn
<1>1. TInv /\ [TunnelNext]_tunnelVars =>
        (\A p \in Children :
           Stage(p) = "none" /\ Stage(p)' = "running" /\ ~child'[p].initial
             => ~stopped /\ ~suspended)
  BY TunnelStep DEF NoUnwanted, NoneByItself, Stage
<1> QED BY <1>1, TunnelInvariant, PTL DEF TunnelSpec, NoUnwantedRespawn
=============================================================================
