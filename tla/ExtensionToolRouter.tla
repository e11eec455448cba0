------------------------- MODULE ExtensionToolRouter -------------------------
(***************************************************************************)
(* The read-only tools get_open_editors and get_diagnostics: each call is  *)
(* a request to the window that holds the caller's workspace, correlated   *)
(* with its response by ExtensionToolRouter (mcp/tools/extension-router.ts)*)
(* and composed with the windows of IpcRegistry.                           *)
(*                                                                         *)
(* send() awaits twice: the write of the request (sending), then the       *)
(* response promise (waiting).  Nobody has a handler on that promise while *)
(* the write is awaited and the daemon has no unhandledRejection handler,  *)
(* so a rejection in that gap ends the process.                            *)
(***************************************************************************)
EXTENDS IpcRegistry

CONSTANTS
  Calls  \* tool calls, named by their request_id

VARIABLES
  daemon,   \* up, draining (the IPC layer stops), closed (the router has
            \* stopped) or dead (the process has ended)
  call,     \* call[c]: where the handler of c is
  promise,  \* promise[c]: the response promise of c
  pending,  \* ExtensionToolRouter.pending
  wire,     \* wire[c]: the connection c was written to, while it is open
  unheld    \* history: calls whose window gave up or lost the registration
            \* they were sent under with its connection still open

routerVars == <<daemon, call, promise, pending, wire, unheld>>

vars == <<registryVars, routerVars>>

-----------------------------------------------------------------------------
TypeOK ==
  /\ RegistryTypeOK
  /\ daemon \in {"up", "draining", "closed", "dead"}
  /\ call \in [Calls -> {"new", "sending", "waiting", "ok", "failed"}]
  /\ promise \in [Calls -> {"unsettled", "resolved", "rejected"}]
  /\ pending \subseteq Calls
  /\ wire \in [Calls -> Sockets \cup {None}]
  /\ unheld \subseteq Calls

Init ==
  /\ RegistryInit
  /\ daemon = "up"
  /\ call = [c \in Calls |-> "new"]
  /\ promise = [c \in Calls |-> "unsettled"]
  /\ pending = {}
  /\ wire = [c \in Calls |-> None]
  /\ unheld = {}

Alive == daemon # "dead"

Proceed(c, to) == call' = [call EXCEPT ![c] = to]

(* The pending calls cs are rejected: those that are waiting fail with the *)
(* code 502, 503 or 504 of the rejection, and one whose write is still     *)
(* awaited takes the daemon down; if there is none, its state is next.     *)
Reject(cs, next) ==
  /\ pending' = pending \ cs
  /\ promise' = [c \in Calls |-> IF c \in cs THEN "rejected" ELSE promise[c]]
  /\ call' = [c \in Calls |->
                IF c \in cs /\ call[c] = "waiting" THEN "failed" ELSE call[c]]
  /\ daemon' = IF \E c \in cs : call[c] = "sending" THEN "dead" ELSE next

-----------------------------------------------------------------------------
(* A call that never gets as far as the router, or is refused by it: a     *)
(* token bound to b that asks for another workspace r, a workspace that is *)
(* not in the store, a router that has stopped, no window.                 *)
Refuse(c, b, r) ==
  /\ Alive
  /\ call[c] = "new"
  /\ r # b \/ ~Trusted(b) \/ daemon = "closed" \/ active[b] = None
  /\ Proceed(c, "failed")
  /\ UNCHANGED <<registryVars, daemon, promise, pending, wire, unheld>>

(* send up to the await of the write.  A confirm_trust that outlived its   *)
(* connection leaves a closed one registered; its write will fail.         *)
Send(c, b) ==
  /\ Alive /\ daemon # "closed"
  /\ call[c] = "new"
  /\ Trusted(b) /\ active[b] # None
  /\ call' = [call EXCEPT ![c] = "sending"]
  /\ pending' = pending \cup {c}
  /\ wire' = [wire EXCEPT ![c] = IF conn[active[b]] = "closed" THEN None ELSE active[b]]
  /\ UNCHANGED <<registryVars, daemon, promise, unheld>>

(* The request is flushed; the response may already be in. *)
WriteDone(c) ==
  /\ Alive
  /\ call[c] = "sending" /\ wire[c] # None
  /\ Proceed(c, IF promise[c] = "resolved" THEN "ok" ELSE "waiting")
  /\ UNCHANGED <<registryVars, daemon, promise, pending, wire, unheld>>

(* Fault: the entry and its timer stay. *)
WriteFailsUncleared(c) ==
  /\ Alive
  /\ call[c] = "sending"
  /\ Proceed(c, "failed")
  /\ UNCHANGED <<registryVars, daemon, promise, pending, wire, unheld>>

(* The write fails: the entry is cleared, a response that is in is lost.   *)
WriteFails(c) ==
  /\ Alive
  /\ call[c] = "sending"
  /\ Proceed(c, "failed")
  /\ pending' = pending \ {c}
  /\ UNCHANGED <<registryVars, daemon, promise, wire, unheld>>

(* The window has the request and has not answered it; a response or an    *)
(* error after the timeout finds no entry.                                 *)
Answerable(c) == c \in pending /\ wire[c] # None

(* The window answers. *)
ResolveResponse(c) ==
  /\ Alive
  /\ Answerable(c)
  /\ pending' = pending \ {c}
  /\ promise' = [promise EXCEPT ![c] = "resolved"]
  /\ IF call[c] = "waiting" THEN Proceed(c, "ok") ELSE UNCHANGED call
  /\ UNCHANGED <<registryVars, daemon, wire, unheld>>

(* Fault: the entry and its timer go and the promise is left alone. *)
ResolveErrorSilently(c) ==
  /\ Alive
  /\ Answerable(c)
  /\ pending' = pending \ {c}
  /\ UNCHANGED <<registryVars, daemon, call, promise, wire, unheld>>

(* The window's handler threw. *)
ResolveError(c) ==
  /\ Alive
  /\ Answerable(c)
  /\ Reject({c}, daemon)
  /\ UNCHANGED <<registryVars, wire, unheld>>

(* The timer of c, which runs from before the write. *)
Timeout(c) ==
  /\ Alive
  /\ c \in pending
  /\ Reject({c}, daemon)
  /\ UNCHANGED <<registryVars, wire, unheld>>

-----------------------------------------------------------------------------
(* The calls written to s lose it. *)
Unwire(s) == wire' = [c \in Calls |-> IF wire[c] = s THEN None ELSE wire[c]]

(* Fault: the calls wait for their timers. *)
WindowClosesQuietly(s) ==
  /\ Alive
  /\ Close(s)
  /\ Unwire(s)
  /\ UNCHANGED <<daemon, call, promise, pending, unheld>>

(* A connection closes.  If anything was registered on it, cancelAll       *)
(* rejects the pending calls of every window.                              *)
WindowCloses(s) ==
  /\ Alive
  /\ Close(s)
  /\ Unwire(s)
  /\ IF Held(s) # {}
     THEN Reject(pending, daemon)
     ELSE UNCHANGED <<daemon, call, promise, pending>>
  /\ UNCHANGED unheld

(* The calls that were written to the holder of p. *)
SentTo(p) == {c \in pending : wire[c] # None /\ wire[c] = active[p]}

(* What else the windows do: connect, which the draining daemon refuses,   *)
(* register, deregister.                                                   *)
WindowStep(s) ==
  /\ Alive
  /\ \/ daemon = "up" /\ (\A c \in Calls : wire[c] # s) /\ Connect(s)
     \/ Hello(s)
     \/ \E p \in Paths : Register(s, p) \/ ConfirmTrust(s, p) \/ ConfirmFails(s, p)
  /\ UNCHANGED routerVars

(* The holder of p loses its registration: it deregisters, or another      *)
(* window's confirm_trust, which was being written, takes the folder.      *)
LoseRegistration(s, p) ==
  /\ Alive
  /\ Deregister(s, p) \/ ConfirmDone(s, p)
  /\ unheld' = IF active'[p] = active[p] THEN unheld ELSE unheld \cup SentTo(p)
  /\ UNCHANGED <<daemon, call, promise, pending, wire>>

-----------------------------------------------------------------------------
(* Shutdown.  The IPC layer stops first and waits for the connections to   *)
(* end, as long as a window keeps its own; then the router stops.  (The    *)
(* watchdog may end the process instead, which ends every call.)           *)
StartShutdown ==
  /\ daemon = "up"
  /\ daemon' = "draining"
  /\ UNCHANGED <<registryVars, call, promise, pending, wire, unheld>>

(* stop: closed is set, then cancelAll. *)
StopRouter ==
  /\ daemon = "draining"
  /\ \A s \in Sockets : conn[s] = "closed"
  /\ Reject(pending, "closed")
  /\ UNCHANGED <<registryVars, wire, unheld>>

Next ==
  \/ \E c \in Calls :
       \/ \E b \in Paths : Send(c, b) \/ \E r \in Paths : Refuse(c, b, r)
       \/ WriteDone(c) \/ WriteFails(c)
       \/ ResolveResponse(c) \/ ResolveError(c) \/ Timeout(c)
  \/ \E s \in Sockets :
       \/ WindowCloses(s) \/ WindowStep(s)
       \/ \E p \in Paths : LoseRegistration(s, p)
  \/ StartShutdown \/ StopRouter

Spec == Init /\ [][Next]_vars

(* The timers run, and a write settles once the response to it is in or    *)
(* its connection is gone.                                                 *)
Fairness ==
  \A c \in Calls :
    /\ WF_vars(Timeout(c))
    /\ WF_vars((promise[c] = "resolved" \/ wire[c] = None) /\ (WriteDone(c) \/ WriteFails(c)))

FairSpec == Spec /\ Fairness

-----------------------------------------------------------------------------
(* An entry of the router is exactly a call that can still be settled: no  *)
(* outcome, in whatever order the write, the response, the timer and the   *)
(* disconnect come, leaves an entry behind or takes one from a call that   *)
(* waits, and a router that has stopped has none.                          *)
PendingIsWaiting ==
  /\ \A c \in Calls :
       c \in pending <=> call[c] \in {"sending", "waiting"} /\ promise[c] = "unsettled"
  /\ daemon = "closed" => pending = {}

(* A call does not wait for a window that is gone: the disconnect fails it *)
(* at once, unless the window had no registration any more when it went.   *)
PendingHasWindow ==
  \A c \in pending : call[c] = "waiting" /\ wire[c] = None => c \in unheld

(* Every call that reaches the router is answered, whatever the window     *)
(* does or does not do, as long as the daemon lives.                       *)
EveryCallReturns ==
  \A c \in Calls : call[c] \in {"sending", "waiting"} ~> call[c] \in {"ok", "failed"} \/ daemon = "dead"
=============================================================================
