------------------------------- MODULE Consent -------------------------------
(***************************************************************************)
(* The OAuth consent of a client: ConsentManager (oauth/consent.ts) and    *)
(* the two browser handlers that wait on it, /authorize for the window's   *)
(* acknowledgement (oauth/authorize.ts) and /authorize/status for the      *)
(* operator's decision (oauth/status.ts); and the windows that are asked   *)
(* (the extension's oauth-consent.ts), one for each workspace.             *)
(*                                                                         *)
(* Decision, timer and ack arrive in any order; all of them go through one *)
(* synchronous funnel, so each is one action.  A poll is one HTTP request  *)
(* parked in awaitDecision; a browser that reloads has several.            *)
(*                                                                         *)
(* A window shows a modal it cannot close by itself: it can only note that *)
(* the consent was resolved elsewhere.  Messages of one connection stay in *)
(* order and are lost with it; the modal is not.                           *)
(***************************************************************************)
EXTENDS AuthCodes

CONSTANTS
  Polls  \* status requests the browser may have open at the same time

ASSUME ConsentAssumption == None \notin Polls \cup Consents

VARIABLES
  consent,  \* consents: state and acked of each record
  authz,    \* authz[q]: what awaitAck tells the /authorize handler
  poll,     \* poll[b]: the consent status request b waits for, and its answer
  waiter,   \* decisionResolvers: the poll that a transition wakes
  owner,    \* decisionTimers: the poll whose call started the running timer
  stopped,  \* stop() was called
  online,   \* the windows with a connection to the daemon
  modal,    \* modal[q][w]: the modal of q in window w and how it was closed
  acks,     \* acks[q]: windows whose auth_consent_ack is on its way
  clicks,   \* clicks[q]: windows whose auth_consent_response is on its way
  notices   \* notices[q]: windows that auth_consent_resolved/timeout is on its way to

pollVars == <<poll, waiter, owner>>

windowVars == <<online, modal, acks, clicks, notices>>

consentVars == <<consent, authz, pollVars, stopped, windowVars>>

vars == <<codeVars, consentVars>>

-----------------------------------------------------------------------------
Resolved == {"approved", "denied", "timeout"}

State(q) == consent[q].state

Free == [req |-> None, answer |-> "none"]

TypeOK ==
  /\ CodesTypeOK
  /\ consent \in [Consents -> [state : {"absent", "pending"} \cup Resolved, acked : BOOLEAN]]
  /\ authz \in [Consents -> {"none", "waiting", "acked", "ack_timeout"}]
  /\ poll \in [Polls -> [req : Consents \cup {None}, answer : {"none"} \cup Resolved]]
  /\ waiter \in [Consents -> Polls \cup {None}]
  /\ owner \in [Consents -> Polls \cup {None}]
  /\ stopped \in BOOLEAN
  /\ online \subseteq Workspaces
  /\ modal \in [Consents -> [Workspaces ->
       {"none", "asked", "open", "stale", "approved", "denied", "closed"}]]
  /\ acks \in [Consents -> SUBSET Workspaces]
  /\ clicks \in [Consents -> SUBSET Workspaces]
  /\ notices \in [Consents -> SUBSET Workspaces]

Init ==
  /\ CodesInit
  /\ consent = [q \in Consents |-> [state |-> "absent", acked |-> FALSE]]
  /\ authz = [q \in Consents |-> "none"]
  /\ poll = [b \in Polls |-> Free]
  /\ waiter = [q \in Consents |-> None]
  /\ owner = [q \in Consents |-> None]
  /\ stopped = FALSE
  /\ online = Workspaces
  /\ modal = [q \in Consents |-> [w \in Workspaces |-> "none"]]
  /\ acks = [q \in Consents |-> {}]
  /\ clicks = [q \in Consents |-> {}]
  /\ notices = [q \in Consents |-> {}]

(* Request b is parked in awaitDecision(q). *)
Waiting(b, q) == poll[b].req = q /\ poll[b].answer = "none"

-----------------------------------------------------------------------------
(* A consent is for the windows without a binding; only when every online  *)
(* window has one are they asked, each, to have its binding replaced.      *)
ToUnbound(B) == online \ B

ToBound(B) == online \cap B

Asked(B) == IF ToUnbound(B) # {} THEN ToUnbound(B) ELSE ToBound(B)

(* /authorize of a valid client, while the workspaces B are bound (the     *)
(* tokens are not modelled here): the record is made, the windows are      *)
(* asked and the handler waits for the ack.  With no window to ask, the    *)
(* record is deleted at once.                                              *)
BeginConsent(q, B) ==
  /\ ~stopped
  /\ State(q) = "absent"
  /\ Asked(B) # {}
  /\ consent' = [consent EXCEPT ![q].state = "pending"]
  /\ authz' = [authz EXCEPT ![q] = "waiting"]
  /\ modal' = [modal EXCEPT ![q] =
                 [w \in Workspaces |-> IF w \in Asked(B) THEN "asked" ELSE "none"]]
  /\ UNCHANGED <<codeVars, pollVars, stopped, online, acks, clicks, notices>>

(* The request arrives: the window sends its ack, then shows the modal. *)
ShowModal(q, w) ==
  /\ modal[q][w] = "asked"
  /\ modal' = [modal EXCEPT ![q][w] = "open"]
  /\ acks' = [acks EXCEPT ![q] = @ \cup {w}]
  /\ UNCHANGED <<codeVars, consent, authz, pollVars, stopped, online, clicks, notices>>

(* The operator clicks Approve or Deny in a modal that is not stale; send  *)
(* throws without a connection, and the click is lost.                     *)
Click(q, w, choice) ==
  /\ modal[q][w] = "open"
  /\ modal' = [modal EXCEPT ![q][w] = choice]
  /\ clicks' = [clicks EXCEPT ![q] = IF w \in online THEN @ \cup {w} ELSE @]
  /\ UNCHANGED <<codeVars, consent, authz, pollVars, stopped, online, acks, notices>>

(* Fault: a modal that closes by itself is a denial. *)
CloseAsDenial(q, w) ==
  /\ modal[q][w] \in {"open", "stale"}
  /\ modal' = [modal EXCEPT ![q][w] = "closed"]
  /\ clicks' = [clicks EXCEPT ![q] = IF w \in online THEN @ \cup {w} ELSE @]
  /\ UNCHANGED <<codeVars, consent, authz, pollVars, stopped, online, acks, notices>>

(* The modal closes without a choice, or with one that comes too late:     *)
(* nothing is sent.                                                        *)
CloseModal(q, w) ==
  /\ modal[q][w] \in {"open", "stale"}
  /\ modal' = [modal EXCEPT ![q][w] = "closed"]
  /\ UNCHANGED <<codeVars, consent, authz, pollVars, stopped, online, acks, clicks, notices>>

(* closeStaleModal: a modal that is still open will not answer any more. *)
NoticeArrives(q, w) ==
  /\ w \in notices[q]
  /\ modal[q][w] # "asked"
  /\ notices' = [notices EXCEPT ![q] = @ \ {w}]
  /\ modal' = [modal EXCEPT ![q][w] = IF @ = "open" THEN "stale" ELSE @]
  /\ UNCHANGED <<codeVars, consent, authz, pollVars, stopped, online, acks, clicks>>

(* The window's connection ends, with all that is under way on it. *)
WindowDrops(w) ==
  /\ w \in online
  /\ online' = online \ {w}
  /\ modal' = [q \in Consents |-> [modal[q] EXCEPT ![w] = IF @ = "asked" THEN "none" ELSE @]]
  /\ acks' = [q \in Consents |-> acks[q] \ {w}]
  /\ clicks' = [q \in Consents |-> clicks[q] \ {w}]
  /\ notices' = [q \in Consents |-> notices[q] \ {w}]
  /\ UNCHANGED <<codeVars, consent, authz, pollVars, stopped>>

(* The window connects again, its modals still on the screen. *)
WindowReturns(w) ==
  /\ w \notin online
  /\ online' = online \cup {w}
  /\ UNCHANGED <<codeVars, consent, authz, pollVars, stopped, modal, acks, clicks, notices>>

(* recordAck: ignored unless the consent is pending and not acked. *)
RecordAck(q, w) ==
  /\ w \in acks[q]
  /\ acks' = [acks EXCEPT ![q] = @ \ {w}]
  /\ IF State(q) = "pending" /\ ~consent[q].acked
     THEN /\ consent' = [consent EXCEPT ![q].acked = TRUE]
          /\ authz' = [authz EXCEPT ![q] = IF @ = "waiting" THEN "acked" ELSE @]
     ELSE UNCHANGED <<consent, authz>>
  /\ UNCHANGED <<codeVars, pollVars, stopped, online, modal, clicks, notices>>

(* Three seconds without an ack; the record stays as it is. *)
AckTimeout(q) ==
  /\ authz[q] = "waiting"
  /\ authz' = [authz EXCEPT ![q] = "ack_timeout"]
  /\ UNCHANGED <<codeVars, consent, pollVars, stopped, windowVars>>

(* Polls B get their answer.  settle() forgets the waiter and the timer of *)
(* its consent, whichever poll they belong to.                             *)
Answer(q, B, answer) ==
  /\ poll' = [b \in Polls |-> IF b \in B /\ Waiting(b, q)
                              THEN [poll[b] EXCEPT !.answer = answer] ELSE poll[b]]
  /\ waiter' = [waiter EXCEPT ![q] = IF B = {} THEN @ ELSE None]
  /\ owner' = [owner EXCEPT ![q] = IF B = {} THEN @ ELSE None]

(* The poll a transition of q wakes. *)
Woken(q) == IF waiter[q] = None THEN {} ELSE {waiter[q]}

(* Fault: the poll's decision timer is not started. *)
PollWaitsUntimed(b, q) ==
  /\ poll[b] = Free
  /\ authz[q] = "acked"
  /\ State(q) = "pending"
  /\ poll' = [poll EXCEPT ![b] = [req |-> q, answer |-> "none"]]
  /\ waiter' = [waiter EXCEPT ![q] = b]
  /\ UNCHANGED <<codeVars, consent, authz, owner, stopped, windowVars>>

(* /authorize/status of a pending consent: awaitDecision takes the place   *)
(* of the waiter, and starts the timer unless one runs.                    *)
PollWaits(b, q) ==
  /\ poll[b] = Free
  /\ authz[q] = "acked"
  /\ State(q) = "pending"
  /\ poll' = [poll EXCEPT ![b] = [req |-> q, answer |-> "none"]]
  /\ waiter' = [waiter EXCEPT ![q] = b]
  /\ owner' = [owner EXCEPT ![q] = IF @ = None THEN b ELSE @]
  /\ UNCHANGED <<codeVars, consent, authz, stopped, windowVars>>

(* /authorize/status of a resolved consent answers at once. *)
PollFinds(b, q) ==
  /\ poll[b] = Free
  /\ authz[q] = "acked"
  /\ State(q) \in Resolved
  /\ poll' = [poll EXCEPT ![b] = [req |-> q, answer |-> State(q)]]
  /\ UNCHANGED <<codeVars, consent, authz, waiter, owner, stopped, windowVars>>

(* The page is rendered, the request is over. *)
PollEnds(b) ==
  /\ poll[b].answer # "none"
  /\ poll' = [poll EXCEPT ![b] = Free]
  /\ UNCHANGED <<codeVars, consent, authz, waiter, owner, stopped, windowVars>>

(* Every active window is told; one that was not asked has no modal. *)
Notify(q) ==
  notices' = [notices EXCEPT ![q] = {w \in online : modal[q][w] \in {"asked", "open"}}]

(* The response of window w is read. *)
ResponseArrives(q, w) ==
  /\ w \in clicks[q] \ acks[q]
  /\ clicks' = [clicks EXCEPT ![q] = @ \ {w}]
  /\ UNCHANGED <<authz, stopped, online, modal, acks>>

(* Fault: the approval does not look at the state. *)
ApproveLate(q, w) ==
  /\ modal[q][w] = "approved"
  /\ ResponseArrives(q, w)
  /\ \E b \in {w, None} : Issue(q, b)
  /\ consent' = [consent EXCEPT ![q].state = "approved"]
  /\ Answer(q, Woken(q), "approved")
  /\ Notify(q)

(* recordDecision(approve): the code is bound to the workspace that the    *)
(* window's connection is registered for, if it is.                        *)
Approve(q, w) ==
  /\ modal[q][w] = "approved"
  /\ ResponseArrives(q, w)
  /\ State(q) = "pending"
  /\ \E b \in {w, None} : Issue(q, b)
  /\ consent' = [consent EXCEPT ![q].state = "approved"]
  /\ Answer(q, Woken(q), "approved")
  /\ Notify(q)

(* recordDecision(deny), the only other response there is. *)
Deny(q, w) ==
  /\ modal[q][w] # "approved"
  /\ ResponseArrives(q, w)
  /\ State(q) = "pending"
  /\ consent' = [consent EXCEPT ![q].state = "denied"]
  /\ Answer(q, Woken(q), "denied")
  /\ Notify(q)
  /\ UNCHANGED codeVars

(* A decision that comes late is discarded. *)
DiscardLate(q, w) ==
  /\ ResponseArrives(q, w)
  /\ State(q) # "pending"
  /\ UNCHANGED <<codeVars, consent, pollVars, notices>>

(* The decision timer: the waiter is woken, and so is the poll that        *)
(* started the timer.                                                      *)
DecisionTimeout(q) ==
  /\ owner[q] # None
  /\ consent' = [consent EXCEPT ![q].state = IF @ = "pending" THEN "timeout" ELSE @]
  /\ Answer(q, Woken(q) \cup {owner[q]}, State(q)')
  /\ IF State(q) = "pending" THEN Notify(q) ELSE UNCHANGED notices
  /\ UNCHANGED <<codeVars, authz, stopped, online, modal, acks, clicks>>

(* Timers are cancelled and waiters told "timeout"; the records stay. *)
Stop ==
  /\ ~stopped
  /\ stopped' = TRUE
  /\ authz' = [q \in Consents |-> IF authz[q] = "waiting" THEN "ack_timeout" ELSE authz[q]]
  /\ poll' = [b \in Polls |-> IF \E q \in Consents : waiter[q] = b /\ Waiting(b, q)
                              THEN [poll[b] EXCEPT !.answer = "timeout"] ELSE poll[b]]
  /\ waiter' = [q \in Consents |-> None]
  /\ owner' = [q \in Consents |-> None]
  /\ UNCHANGED <<codeVars, consent, windowVars>>

(* /token, the expiry timer, and unbind. *)
CodeStep ==
  /\ \/ \E q \in Consents : Redeem(q) \/ Expire(q)
     \/ \E w \in Workspaces : RevokeCodes(w)
  /\ UNCHANGED consentVars

(* What a window does about a consent, and what arrives of it. *)
WindowStep(q, w) ==
  \/ ShowModal(q, w)
  \/ \E choice \in {"approved", "denied"} : Click(q, w, choice)
  \/ CloseModal(q, w)
  \/ NoticeArrives(q, w)
  \/ RecordAck(q, w)
  \/ Approve(q, w)
  \/ Deny(q, w)
  \/ DiscardLate(q, w)

Next ==
  \/ \E q \in Consents :
       \/ \E B \in SUBSET Workspaces : BeginConsent(q, B)
       \/ \E w \in Workspaces : WindowStep(q, w)
       \/ AckTimeout(q)
       \/ DecisionTimeout(q)
       \/ \E b \in Polls : PollWaits(b, q) \/ PollFinds(b, q)
  \/ \E b \in Polls : PollEnds(b)
  \/ \E w \in Workspaces : WindowDrops(w) \/ WindowReturns(w)
  \/ CodeStep
  \/ Stop

Spec == Init /\ [][Next]_vars

(* Timers fire. *)
FairSpec ==
  /\ Spec
  /\ \A q \in Consents : WF_vars(AckTimeout(q)) /\ WF_vars(DecisionTimeout(q))

-----------------------------------------------------------------------------
(* Daemon-authoritative race resolution: decision, denial and timer race,  *)
(* the first to reach the funnel wins, and the others leave no trace: in   *)
(* the end there is a code exactly for the approved consents, and what the *)
(* browser was told is what its consent came to (only a shutdown tells it  *)
(* "timeout" of a consent that is still open).                             *)
FirstDecisionStands ==
  /\ [][\A q \in Consents : State(q) \in Resolved => State(q)' = State(q)]_vars
  /\ [](\A q \in Consents : State(q) = "approved" <=> code[q] # "absent")
  /\ [](\A b \in Polls :
          poll[b].answer # "none" /\ ~stopped => poll[b].answer = State(poll[b].req))

(* Only an explicit click decides, however many windows show the modal,    *)
(* lose their connection or close the modal unasked; and the code is bound *)
(* to the workspace of the very window that was clicked, or to none.       *)
ClickDecides ==
  \A q \in Consents :
    /\ State(q) \in {"approved", "denied"} => \E w \in Workspaces : modal[q][w] = State(q)
    /\ bound[q] # None => modal[q][bound[q]] = "approved"

(* The poll that waits last, the one whose page the operator looks at,     *)
(* gets its answer.                                                        *)
NewestPollReturns ==
  \A q \in Consents, b \in Polls :
    waiter[q] = b ~> (poll[b].answer # "none" \/ (waiter[q] # None /\ waiter[q] # b))
=============================================================================
