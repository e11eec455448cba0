------------------------------ MODULE McpAudit ------------------------------
(***************************************************************************)
(* The HTTP requests of the MCP server and their audit entries: AuditLog   *)
(* composed with handleHttpRequest, handleToolsCall and auditAuthFailure   *)
(* of mcp/server.ts, ToolRegistry.invoke of mcp/dispatch.ts, and the order *)
(* in which shutdown() stops the two, however often it is entered.  A call *)
(* makes one entry.  The handlers are the tools' own modules; here they    *)
(* end, or do not.                                                         *)
(***************************************************************************)
EXTENDS AuditLog

CONSTANT MaxStarts  \* bound: daemons started, one after the other

ASSUME McpAuditAssumption == MaxStarts \in Nat \ {0}

VARIABLES
  phase,     \* up; draining: shutdown() has got to McpServer.stop; down
  starts,    \* daemons started
  call,      \* call[c]: where the call is
  there,     \* there[c]: its client is still connected
  overtaken  \* a second shutdown() has closed the log

Calls == Entries

serverVars == <<phase, starts, call, there, overtaken>>

vars == <<logVars, serverVars>>

-----------------------------------------------------------------------------
(* received: the OAuth router has it; dispatching: authenticated, on its   *)
(* way through the MCP transport; elsewhere: answered without an entry.    *)
CallStates == {"new", "received", "dispatching", "handling", "auditing", "elsewhere",
               "refused", "answered", "abandoned", "lost"}

TypeOK ==
  /\ LogTypeOK
  /\ phase \in {"up", "draining", "down"}
  /\ starts \in 1..MaxStarts
  /\ call \in [Calls -> CallStates]
  /\ there \in [Calls -> BOOLEAN]
  /\ overtaken \in BOOLEAN

Init ==
  /\ LogInit
  /\ phase = "up"
  /\ starts = 1
  /\ call = [c \in Calls |-> "new"]
  /\ there = [c \in Calls |-> TRUE]
  /\ overtaken = FALSE

InProgress(c) == call[c] \in {"received", "dispatching", "handling", "auditing"}

(* httpServer.close(): no new connections, and those with a request stay. *)
Listening ==
  \/ phase = "up"
  \/ phase = "draining" /\ \E c \in Calls : InProgress(c) /\ there[c]

Goes(c, to) == call' = [call EXCEPT ![c] = to]

-----------------------------------------------------------------------------
(* A request goes to the OAuth router first, which is asynchronous. *)
Receive(c) ==
  /\ Listening
  /\ call[c] = "new"
  /\ Goes(c, "received")
  /\ UNCHANGED <<logVars, phase, starts, there, overtaken>>

(* Its path is one of the OAuth endpoints', or the router failed (500):    *)
(* neither makes an entry.                                                 *)
ServeOAuth(c) ==
  /\ phase # "down"
  /\ call[c] = "received"
  /\ Goes(c, "elsewhere")
  /\ UNCHANGED <<logVars, phase, starts, there, overtaken>>

(* The token is one of the store's. *)
Authenticate(c) ==
  /\ phase # "down"
  /\ call[c] = "received"
  /\ Goes(c, "dispatching")
  /\ UNCHANGED <<logVars, phase, starts, there, overtaken>>

(* No token, or not one of ours: 401 first, the entry is awaited by nobody.*)
Refuse(c) ==
  /\ phase # "down"
  /\ call[c] = "received"
  /\ AppendEntry(c)
  /\ Goes(c, "refused")
  /\ UNCHANGED <<phase, starts, there, overtaken>>

(* ToolNotFoundError, before any audit. *)
UnknownTool(c) ==
  /\ phase # "down"
  /\ call[c] = "dispatching"
  /\ Goes(c, "elsewhere")
  /\ UNCHANGED <<logVars, phase, starts, there, overtaken>>

InvalidInput(c) ==
  /\ phase # "down"
  /\ call[c] = "dispatching"
  /\ AppendEntry(c)
  /\ Goes(c, "auditing")
  /\ UNCHANGED <<phase, starts, there, overtaken>>

RunHandler(c) ==
  /\ phase # "down"
  /\ call[c] = "dispatching"
  /\ Goes(c, "handling")
  /\ UNCHANGED <<logVars, phase, starts, there, overtaken>>

(* The handler returns or throws: the entry comes before the answer. *)
HandlerEnds(c) ==
  /\ phase # "down"
  /\ call[c] = "handling"
  /\ AppendEntry(c)
  /\ Goes(c, "auditing")
  /\ UNCHANGED <<phase, starts, there, overtaken>>

(* tryAudit() is done: the append has settled, written or not. *)
Audited(c) == entry[c] # "queued"

(* invoke() answers. *)
AnswerCall(c) ==
  /\ phase # "down"
  /\ call[c] = "auditing"
  /\ Audited(c)
  /\ Goes(c, IF there[c] THEN "answered" ELSE "abandoned")
  /\ UNCHANGED <<logVars, phase, starts, there, overtaken>>

(* The client, or the tunnel in between, closes the connection. *)
ClientLeaves(c) ==
  /\ InProgress(c)
  /\ there[c]
  /\ there' = [there EXCEPT ![c] = FALSE]
  /\ UNCHANGED <<logVars, phase, starts, call, overtaken>>

-----------------------------------------------------------------------------
StopServing ==
  /\ phase = "up"
  /\ phase' = "draining"
  /\ UNCHANGED <<logVars, starts, call, there, overtaken>>

(* Fault: the log is closed while requests are being served. *)
StopLogEarly ==
  /\ phase = "draining"
  /\ ~closed
  /\ CloseLog
  /\ UNCHANGED serverVars

(* The connections are gone: the next layers, to the audit log. *)
StopLog ==
  /\ phase = "draining"
  /\ ~closed
  /\ \A c \in Calls : InProgress(c) => ~there[c]
  /\ CloseLog
  /\ UNCHANGED serverVars

(* A second shutdown() finds McpServer.closed set and does not wait for    *)
(* the connections; without one to wait for, it is StopLog.                *)
StopLogAgain ==
  /\ phase = "draining"
  /\ ~closed
  /\ \E c \in Calls : InProgress(c) /\ there[c]
  /\ CloseLog
  /\ overtaken' = TRUE
  /\ UNCHANGED <<phase, starts, call, there>>

Ends ==
  /\ phase' = "down"
  /\ call' = [c \in Calls |-> IF InProgress(c) THEN "lost" ELSE call[c]]
  /\ Forget
  /\ there' = [c \in Calls |-> there[c] /\ ~InProgress(c)]
  /\ overtaken' = FALSE
  /\ UNCHANGED starts

Exit == phase = "draining" /\ closed /\ Drained /\ Ends

(* A kill, the watchdog of shutdown(), or one more shutdown() that waits   *)
(* for nothing: all its layers are stopped already.                        *)
Dies == phase # "down" /\ Ends

StartDaemon ==
  /\ phase = "down"
  /\ starts < MaxStarts
  /\ phase' = "up"
  /\ starts' = starts + 1
  /\ due' = today + 1
  /\ UNCHANGED <<today, entry, day, queue, job, stage, target, current, handle, closed,
                 active, archive, timer, call, there, overtaken>>

Log ==
  /\ phase # "down"
  /\ QueueStep \/ TimerFires \/ Prune
  /\ UNCHANGED serverVars

Clock == Midnight /\ UNCHANGED serverVars

Next ==
  \/ \E c \in Calls :
       \/ Receive(c) \/ ServeOAuth(c) \/ Authenticate(c)
       \/ Refuse(c) \/ UnknownTool(c) \/ InvalidInput(c) \/ RunHandler(c)
       \/ HandlerEnds(c) \/ AnswerCall(c) \/ ClientLeaves(c)
  \/ StopServing \/ StopLog \/ StopLogAgain \/ Exit \/ Dies \/ StartDaemon
  \/ Log \/ Clock

(* The chain and the awaits after it go on by themselves; handlers,        *)
(* clients, the clock and the daemon's life are not promised anything.     *)
Fairness ==
  /\ WF_vars(phase # "down" /\ QueueStep /\ UNCHANGED serverVars)
  /\ \A c \in Calls : WF_vars(AnswerCall(c))

Spec == Init /\ [][Next]_vars /\ Fairness

-----------------------------------------------------------------------------
(* A client that got the answer of a tool that ran, or of one whose input  *)
(* was refused, has an entry in the log, unless its write failed: shutdown *)
(* serves the connected clients with the log open.  A shutdown() entered   *)
(* again while the first waits for them does not, and only then is a call  *)
(* answered whose entry append() dropped.                                  *)
AnsweredIsLogged ==
  [][\A c \in Calls :
       call[c] # "answered" /\ call'[c] = "answered" =>
         \/ entry[c] \in {"written", "failed"}
         \/ entry[c] = "ignored" /\ overtaken]_vars

(* An answer waits for its entry's turn and for nothing else: a rotation   *)
(* or a write that fails, an open that was rejected, or a closed log let   *)
(* the call go on.                                                         *)
EveryCallIsAnswered == \A c \in Calls : call[c] = "auditing" ~> call[c] # "auditing"
=============================================================================
