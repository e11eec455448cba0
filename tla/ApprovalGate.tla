---------------------------- MODULE ApprovalGate ----------------------------
(***************************************************************************)
(* The operator's approval of delegations: awaitApprovalForDelegation and  *)
(* ApprovalGateImpl (approval/gate.ts) over PendingApprovalRegistry        *)
(* (approval/pending.ts), composed with the windows of IpcRegistry that    *)
(* the approval_request is sent to.                                        *)
(*                                                                         *)
(* A request is the delegate handler between its validation and enqueue.   *)
(* It awaits twice: the write of approval_request to the window's socket   *)
(* (sending), then the answer (asked).  A promise that is settled while    *)
(* the write is still awaited keeps its answer for later.  Promise         *)
(* reactions are microtasks, so settling an asked request and recording    *)
(* its bypass are one step.                                                *)
(***************************************************************************)
EXTENDS IpcRegistry

CONSTANTS
  Requests,  \* delegation ids
  Sessions   \* MCP session ids

ASSUME ApprovalGateAssumption == Sessions # {} /\ Paths # {}

VARIABLES
  req,      \* req[r]: the delegate call r
  pending,  \* PendingApprovalRegistry.pending: the ids that can be resolved
  bypass,   \* sessionBypassed: <<session, path>>
  stopped   \* PendingApprovalRegistry.stopped

gateVars == <<req, pending, bypass, stopped>>

vars == <<registryVars, gateVars>>

-----------------------------------------------------------------------------
(* The effective granularity, after the operator's ceiling is applied. *)
Granularities == {"auto", "task", "per_call"}

Decisions == {"approve", "deny", "approve_session"}

(* What the operator may do with the modal. *)
Choices == {"Approve", "Approve for this session", "Deny", "dismissed"}

(* Anything but an explicit approval is a denial, a dismissed modal too. *)
DecisionOf(choice) ==
  CASE choice = "Approve" -> "approve"
    [] choice = "Approve for this session" -> "approve_session"
    [] OTHER -> "deny"

(* Granularities from permissive to cautious (moreCautiousGranularity). *)
Caution == [auto |-> 0, task |-> 1, per_call |-> 2]

(* Fault: the caller's granularity is not clamped. *)
ResolvedAsAsked(ceiling, asked) == IF asked = "unspecified" THEN ceiling ELSE asked

(* The clamp of resolveOperationGranularity: the caller may be more        *)
(* cautious than the operator's ceiling, never less.                       *)
Resolved(ceiling, asked) ==
  IF asked = "unspecified" \/ Caution[asked] <= Caution[ceiling] THEN ceiling ELSE asked

NoRequest(p) ==
  [phase |-> "new", ses |-> CHOOSE s \in Sessions : TRUE, path |-> p, ceiling |-> "per_call",
   gran |-> "per_call", to |-> None, answer |-> "none", by |-> "nobody"]

RequestRecord ==
  [phase   : {"new", "sending", "asked", "approved", "denied", "rejected"},
   ses     : Sessions,
   path    : Paths,
   ceiling : Granularities,
   gran    : Granularities,
   to      : Sockets \cup {None},               \* the window it was sent to
   answer  : {"none", "rejected"} \cup Decisions,
   by      : {"nobody", "granularity", "bypass", "operator"}]

TypeOK ==
  /\ RegistryTypeOK
  /\ req \in [Requests -> RequestRecord]
  /\ pending \subseteq Requests
  /\ bypass \subseteq Sessions \X Paths
  /\ stopped \in BOOLEAN

Init ==
  /\ RegistryInit
  /\ req = [r \in Requests |-> NoRequest(CHOOSE p \in Paths : TRUE)]
  /\ pending = {}
  /\ bypass = {}
  /\ stopped = FALSE

Phase(r) == req[r].phase

(* What an operator's answer makes of a request. *)
Settle(rec, answer) ==
  [rec EXCEPT !.answer = answer,
              !.phase = CASE answer = "rejected" -> "rejected"
                          [] answer = "deny" -> "denied"
                          [] OTHER -> "approved",
              !.by = IF answer = "rejected" THEN "nobody" ELSE "operator"]

(* The promise of r settles.  While the write is awaited nobody looks. *)
Answered(rec, answer) ==
  IF rec.phase = "sending" THEN [rec EXCEPT !.answer = answer] ELSE Settle(rec, answer)

(* The bypass an approval leaves behind. *)
Granted(rec, answer) ==
  IF answer = "approve_session" \/ (answer = "approve" /\ rec.gran = "task")
  THEN {<<rec.ses, rec.path>>}
  ELSE {}

-----------------------------------------------------------------------------
(* The delegate call, before any decision. *)
Asking(r, ses, p, ceiling, asked) ==
  [req[r] EXCEPT !.ses = ses, !.path = p, !.ceiling = ceiling,
                 !.gran = Resolved(ceiling, asked)]

(* Granularity auto, or an earlier approve-once: no prompt. *)
ApproveUnasked(r, rec) ==
  /\ rec.gran = "auto" \/ <<rec.ses, rec.path>> \in bypass
  /\ req' = [req EXCEPT ![r] =
               [rec EXCEPT !.phase = "approved",
                           !.by = IF rec.gran = "auto" THEN "granularity" ELSE "bypass"]]
  /\ UNCHANGED <<registryVars, pending, bypass, stopped>>

(* No window holds the workspace: the send is rejected and so is the call. *)
RejectOffline(r, rec) ==
  /\ rec.gran # "auto" /\ <<rec.ses, rec.path>> \notin bypass
  /\ active[rec.path] = None
  /\ req' = [req EXCEPT ![r] = Settle(rec, "rejected")]
  /\ UNCHANGED <<registryVars, pending, bypass, stopped>>

(* Fault: after stop the request neither waits with a timer nor is rejected. *)
AskAfterStop(r, rec) ==
  /\ rec.gran # "auto" /\ <<rec.ses, rec.path>> \notin bypass
  /\ active[rec.path] # None
  /\ req' = [req EXCEPT ![r] = [rec EXCEPT !.phase = "sending", !.to = active[rec.path]]]
  /\ pending' = IF stopped THEN pending ELSE pending \cup {r}
  /\ UNCHANGED <<registryVars, bypass, stopped>>

(* requestApproval: registered as pending, then sent.  After stop the      *)
(* promise is born rejected, but the window is asked all the same.         *)
AskOperator(r, rec) ==
  /\ rec.gran # "auto" /\ <<rec.ses, rec.path>> \notin bypass
  /\ active[rec.path] # None
  /\ req' = [req EXCEPT ![r] =
               [rec EXCEPT !.phase = "sending", !.to = active[rec.path],
                           !.answer = IF stopped THEN "rejected" ELSE "none"]]
  /\ pending' = IF stopped THEN pending ELSE pending \cup {r}
  /\ UNCHANGED <<registryVars, bypass, stopped>>

(* A delegate call for a workspace the store knows. *)
Call(r, ses, p, ceiling, asked) ==
  /\ Phase(r) = "new"
  /\ Trusted(p)
  /\ LET rec == Asking(r, ses, p, ceiling, asked) IN
       ApproveUnasked(r, rec) \/ RejectOffline(r, rec) \/ AskOperator(r, rec)

(* The write of approval_request is flushed; an answer may already be in. *)
SendDone(r) ==
  /\ Phase(r) = "sending"
  /\ Ready(req[r].to)
  /\ LET a == req[r].answer IN
       /\ req' = [req EXCEPT ![r] =
                    IF a = "none" THEN [@ EXCEPT !.phase = "asked"] ELSE Settle(@, a)]
       /\ bypass' = bypass \cup Granted(req[r], a)
  /\ UNCHANGED <<registryVars, pending, stopped>>

(* The write fails: cancel, and reject whatever was answered. *)
SendFails(r) ==
  /\ Phase(r) = "sending"
  /\ req' = [req EXCEPT ![r] = Settle(@, "rejected")]
  /\ pending' = pending \ {r}
  /\ UNCHANGED <<registryVars, bypass, stopped>>

(* approval_response, from any connection; of an id that is not pending it *)
(* is ignored.                                                             *)
Respond(s, r, decision) ==
  /\ Ready(s)
  /\ r \in pending
  /\ pending' = pending \ {r}
  /\ req' = [req EXCEPT ![r] = Answered(@, decision)]
  /\ bypass' = IF Phase(r) = "asked" THEN bypass \cup Granted(req[r], decision) ELSE bypass
  /\ UNCHANGED <<registryVars, stopped>>

(* The pending requests of R are rejected: cancel, cancelByWorkspace, stop. *)
Reject(R) ==
  /\ pending' = pending \ R
  /\ req' = [r \in Requests |->
               IF r \in R \cap pending THEN Answered(req[r], "rejected") ELSE req[r]]

(* The five minutes of r are over. *)
Timeout(r) ==
  /\ r \in pending
  /\ Reject({r})
  /\ UNCHANGED <<registryVars, bypass, stopped>>

(* The connection goes, and with it, for the workspaces registered on it,  *)
(* the pending approvals and every session's bypass.                       *)
Disconnect(s) ==
  /\ Close(s)
  /\ Reject({r \in Requests : req[r].path \in Held(s)})
  /\ bypass' = {b \in bypass : b[2] \notin Held(s)}
  /\ UNCHANGED stopped

Stop ==
  /\ ~stopped
  /\ stopped' = TRUE
  /\ Reject(pending)
  /\ UNCHANGED <<registryVars, bypass>>

(* What the windows do that does not touch the gate. *)
WindowStep(s) ==
  /\ \/ Connect(s)
     \/ Hello(s)
     \/ \E p \in Paths :
          Register(s, p) \/ ConfirmTrust(s, p) \/ ConfirmDone(s, p)
            \/ ConfirmFails(s, p) \/ Deregister(s, p)
  /\ UNCHANGED gateVars

Next ==
  \/ \E r \in Requests, ses \in Sessions, p \in Paths, ceiling \in Granularities,
        asked \in Granularities \cup {"unspecified"} : Call(r, ses, p, ceiling, asked)
  \/ \E r \in Requests : SendDone(r) \/ SendFails(r) \/ Timeout(r)
  \/ \E s \in Sockets, r \in Requests, choice \in Choices :
       Respond(s, r, DecisionOf(choice))
  \/ \E s \in Sockets : Disconnect(s) \/ WindowStep(s)
  \/ Stop

Spec == Init /\ [][Next]_vars

-----------------------------------------------------------------------------
(* An approval that the operator's ceiling does not grant by itself goes   *)
(* back to an answer of the operator: to this request, or to an earlier    *)
(* one of the same MCP session and workspace whose answer covers more than *)
(* one call.  In particular a caller's auto never gets past the ceiling.   *)
ApprovedByOperator ==
  \A r \in Requests :
    Phase(r) = "approved" =>
      \/ req[r].ceiling = "auto"
      \/ req[r].answer \in {"approve", "approve_session"}
      \/ \E q \in Requests \ {r} :
           /\ Phase(q) = "approved" /\ req[q].by = "operator"
           /\ req[q].ses = req[r].ses /\ req[q].path = req[r].path
           /\ req[q].answer = "approve_session" \/ req[q].gran = "task"

(* The map of pending approvals is exactly the requests nobody answered:   *)
(* none waits without its timer, none that is over can be answered again,  *)
(* and after stop, which no timer survives, none waits at all, not even a  *)
(* call that asks afterwards.                                              *)
PendingIsUnanswered ==
  /\ \A r \in Requests :
       r \in pending <=> Phase(r) \in {"sending", "asked"} /\ req[r].answer = "none"
  /\ stopped => pending = {}
=============================================================================
