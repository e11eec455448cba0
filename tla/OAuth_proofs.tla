----------------------------- MODULE OAuth_proofs -----------------------------
(***************************************************************************)
(* Proofs about Consent and OAuthTokens, for any number of consents,       *)
(* windows, workspaces and requests: which decision a code stands for, and *)
(* what becomes of the code.                                               *)
(***************************************************************************)
EXTENDS Consent, OAuthTokens, TLAPS

(***************************************************************************)
(* FirstDecisionStands and ClickDecides of Consent, for any number of      *)
(* consents, windows and status requests.                                  *)
(*                                                                         *)
(* Neither is inductive.  That a click decides rests on what is on its way *)
(* (a response is never sent for a modal without a click) and on a consent *)
(* that does not exist having no modals, so that asking the windows does   *)
(* not wipe out a click (ModalInv); that the first decision stands for the *)
(* browser too rests on no timer running for a consent that does not exist *)
(* (PollInv).                                                              *)
(***************************************************************************)
Choices == {"approved", "denied"}

ModalInv ==
  \A q \in Consents, w \in Workspaces :
    /\ w \in clicks[q] => modal[q][w] \in Choices
    /\ State(q) = "absent" => modal[q][w] = "none"

CodeInv ==
  \A q \in Consents :
    /\ State(q) = "approved" <=> code[q] # "absent"
    /\ code[q] = "absent" => bound[q] = None

PollInv ==
  /\ \A q \in Consents : owner[q] # None => State(q) # "absent"
  /\ \A b \in Polls :
       poll[b].answer # "none" =>
         /\ poll[b].req \in Consents
         /\ ~stopped => poll[b].answer = State(poll[b].req)

IInv == TypeOK /\ ModalInv /\ CodeInv /\ PollInv /\ ClickDecides

-----------------------------------------------------------------------------
(* Types.                                                                  *)

(* The actions that decide, wait or time out, and those of the windows.    *)
DaemonStep ==
  \/ \E q \in Consents :
       \/ \E B \in SUBSET Workspaces : BeginConsent(q, B)
       \/ \E w \in Workspaces : RecordAck(q, w) \/ Approve(q, w) \/ Deny(q, w) \/ DiscardLate(q, w)
       \/ AckTimeout(q)
       \/ DecisionTimeout(q)
       \/ \E b \in Polls : PollWaits(b, q) \/ PollFinds(b, q)
  \/ \E b \in Polls : PollEnds(b)
  \/ Stop

ModalStep ==
  \/ \E q \in Consents, w \in Workspaces :
       \/ ShowModal(q, w)
       \/ \E choice \in Choices : Click(q, w, choice)
       \/ CloseModal(q, w)
       \/ NoticeArrives(q, w)
  \/ \E w \in Workspaces : WindowDrops(w) \/ WindowReturns(w)

LEMMA StepsAre ==
  [Next]_vars => DaemonStep \/ ModalStep \/ CodeStep \/ UNCHANGED vars
BY DEF Next, WindowStep, DaemonStep, ModalStep, Choices

ConsentRecord == [state : {"absent", "pending"} \cup Resolved, acked : BOOLEAN]

PollRecord == [req : Consents \cup {None}, answer : {"none"} \cup Resolved]

(* An answer leaves polls, waiters and timers well-formed. *)
LEMMA AnswerType ==
  ASSUME TypeOK, NEW q \in Consents, NEW B, NEW answer \in Resolved, Answer(q, B, answer)
  PROVE  /\ poll' \in [Polls -> PollRecord]
         /\ waiter' \in [Consents -> Polls \cup {None}]
         /\ owner' \in [Consents -> Polls \cup {None}]
<1>1. poll \in [Polls -> PollRecord]
  BY DEF TypeOK, PollRecord
<1>2. \A b \in Polls : [poll[b] EXCEPT !.answer = answer] \in PollRecord
  BY <1>1 DEF PollRecord
<1> QED
  BY <1>1, <1>2 DEF TypeOK, PollRecord, Answer

LEMMA RecordType ==
  ASSUME TypeOK, NEW q \in Consents
  PROVE  /\ \A state \in {"absent", "pending"} \cup Resolved :
              [consent EXCEPT ![q].state = state] \in [Consents -> ConsentRecord]
         /\ [consent EXCEPT ![q].acked = TRUE] \in [Consents -> ConsentRecord]
<1>1. consent \in [Consents -> ConsentRecord]
  BY DEF TypeOK, ConsentRecord
<1>2. /\ \A state \in {"absent", "pending"} \cup Resolved :
           [consent[q] EXCEPT !.state = state] \in ConsentRecord
      /\ [consent[q] EXCEPT !.acked = TRUE] \in ConsentRecord
  BY <1>1 DEF ConsentRecord
<1> QED
  BY <1>1, <1>2

LEMMA TypeOfCodes ==
  ASSUME TypeOK
  PROVE  /\ \A q \in Consents : \A w \in Workspaces \cup {None} : Issue(q, w) => CodesTypeOK'
         /\ \A q \in Consents : Redeem(q) \/ Expire(q) => CodesTypeOK'
         /\ \A w \in Workspaces : RevokeCodes(w) => CodesTypeOK'
<1> USE DEF TypeOK, CodesTypeOK
<1>1. \A q \in Consents : \A w \in Workspaces \cup {None} : Issue(q, w) => CodesTypeOK'
  BY DEF Issue
<1>2. \A q \in Consents : Redeem(q) \/ Expire(q) => CodesTypeOK'
  BY DEF Redeem, Expire
<1>3. \A w \in Workspaces : RevokeCodes(w) => CodesTypeOK'
  BY DEF RevokeCodes
<1> QED
  BY <1>1, <1>2, <1>3

(* The response of a window and the notices that follow it. *)
LEMMA MessageTypes ==
  ASSUME TypeOK, NEW q \in Consents
  PROVE  /\ \A w \in Workspaces : ResponseArrives(q, w) => clicks' \in [Consents -> SUBSET Workspaces]
         /\ Notify(q) => notices' \in [Consents -> SUBSET Workspaces]
<1>1. {w \in online : modal[q][w] \in {"asked", "open"}} \subseteq Workspaces
  BY DEF TypeOK
<1>2. ASSUME NEW w \in Workspaces, ResponseArrives(q, w)
      PROVE  clicks' \in [Consents -> SUBSET Workspaces]
  <2>1. clicks[q] \ {w} \in SUBSET Workspaces
    BY DEF TypeOK
  <2> QED
    BY <1>2, <2>1 DEF ResponseArrives, TypeOK
<1>3. Notify(q) => notices' \in [Consents -> SUBSET Workspaces]
  BY <1>1 DEF TypeOK, Notify
<1> QED
  BY <1>2, <1>3

(* A modal is set. *)
LEMMA ModalTypes ==
  ASSUME TypeOK, NEW q \in Consents, NEW w \in Workspaces,
         NEW m \in {"none", "asked", "open", "stale", "approved", "denied", "closed"}
  PROVE  /\ modal[q] \in [Workspaces -> {"none", "asked", "open", "stale", "approved", "denied", "closed"}]
         /\ [modal EXCEPT ![q][w] = m] \in [Consents -> [Workspaces ->
              {"none", "asked", "open", "stale", "approved", "denied", "closed"}]]
BY DEF TypeOK

LEMMA TypeStep == TypeOK /\ PollInv /\ [Next]_vars => TypeOK'
<1> SUFFICES ASSUME TypeOK, PollInv, [Next]_vars PROVE TypeOK'
  OBVIOUS
<1> USE DEF ConsentRecord, PollRecord, pollVars, windowVars, codeVars
<1>1. ASSUME NEW q \in Consents, NEW B \in SUBSET Workspaces, BeginConsent(q, B)
      PROVE  TypeOK'
  <2>1. consent' \in [Consents -> ConsentRecord]
    BY <1>1, RecordType DEF BeginConsent
  <2>2. modal' \in [Consents -> [Workspaces ->
                      {"none", "asked", "open", "stale", "approved", "denied", "closed"}]]
    BY <1>1 DEF BeginConsent, TypeOK
  <2> QED
    BY <1>1, <2>1, <2>2 DEF BeginConsent, TypeOK, CodesTypeOK
<1>2. ASSUME NEW q \in Consents, NEW w \in Workspaces, RecordAck(q, w)
      PROVE  TypeOK'
  <2>1. consent' \in [Consents -> ConsentRecord]
    BY <1>2, RecordType DEF RecordAck, TypeOK
  <2>2. authz' \in [Consents -> {"none", "waiting", "acked", "ack_timeout"}]
    BY <1>2 DEF RecordAck, TypeOK
  <2> QED
    BY <1>2, <2>1, <2>2 DEF RecordAck, TypeOK, CodesTypeOK
<1>3. ASSUME NEW q \in Consents, NEW w \in Workspaces, Approve(q, w)
      PROVE  TypeOK'
  <2>1. CodesTypeOK'
    BY <1>3, TypeOfCodes DEF Approve
  <2>2. consent' \in [Consents -> ConsentRecord]
    BY <1>3, RecordType DEF Approve, Resolved
  <2>3. /\ poll' \in [Polls -> PollRecord]
        /\ waiter' \in [Consents -> Polls \cup {None}]
        /\ owner' \in [Consents -> Polls \cup {None}]
    BY <1>3, AnswerType DEF Approve, Resolved
  <2> QED
    BY <1>3, <2>1, <2>2, <2>3, MessageTypes DEF Approve, ResponseArrives, TypeOK
<1>4. ASSUME NEW q \in Consents, NEW w \in Workspaces, Deny(q, w)
      PROVE  TypeOK'
  <2>1. consent' \in [Consents -> ConsentRecord]
    BY <1>4, RecordType DEF Deny, Resolved
  <2>2. /\ poll' \in [Polls -> PollRecord]
        /\ waiter' \in [Consents -> Polls \cup {None}]
        /\ owner' \in [Consents -> Polls \cup {None}]
    BY <1>4, AnswerType DEF Deny, Resolved
  <2> QED
    BY <1>4, <2>1, <2>2, MessageTypes DEF Deny, ResponseArrives, TypeOK, CodesTypeOK
<1>5. ASSUME NEW q \in Consents, NEW w \in Workspaces, DiscardLate(q, w)
      PROVE  TypeOK'
  BY <1>5, MessageTypes DEF DiscardLate, ResponseArrives, TypeOK, CodesTypeOK
<1>6. ASSUME NEW q \in Consents, AckTimeout(q)
      PROVE  TypeOK'
  BY <1>6 DEF AckTimeout, TypeOK, CodesTypeOK
<1>7. ASSUME NEW q \in Consents, DecisionTimeout(q)
      PROVE  TypeOK'
  <2>1. State(q) \in {"pending"} \cup Resolved
    BY <1>7 DEF DecisionTimeout, PollInv, TypeOK, State
  <2>2. consent' \in [Consents -> ConsentRecord]
    BY <1>7, <2>1, RecordType DEF DecisionTimeout, Resolved, State
  <2>3. State(q)' \in Resolved
    BY <1>7, <2>1 DEF DecisionTimeout, Resolved, State, TypeOK
  <2>4. /\ poll' \in [Polls -> PollRecord]
        /\ waiter' \in [Consents -> Polls \cup {None}]
        /\ owner' \in [Consents -> Polls \cup {None}]
    BY <1>7, <2>3, AnswerType DEF DecisionTimeout
  <2> QED
    BY <1>7, <2>2, <2>4, MessageTypes DEF DecisionTimeout, TypeOK, CodesTypeOK
<1>8. ASSUME NEW q \in Consents, NEW b \in Polls, PollWaits(b, q)
      PROVE  TypeOK'
  <2>1. [req |-> q, answer |-> "none"] \in PollRecord
    OBVIOUS
  <2>2. /\ poll' \in [Polls -> PollRecord]
        /\ waiter' \in [Consents -> Polls \cup {None}]
        /\ owner' \in [Consents -> Polls \cup {None}]
    BY <1>8, <2>1 DEF PollWaits, TypeOK
  <2> QED
    BY <1>8, <2>2 DEF PollWaits, TypeOK, CodesTypeOK
<1>9. ASSUME NEW q \in Consents, NEW b \in Polls, PollFinds(b, q)
      PROVE  TypeOK'
  <2>1. [req |-> q, answer |-> State(q)] \in PollRecord
    BY <1>9 DEF PollFinds
  <2>2. poll' \in [Polls -> PollRecord]
    BY <1>9, <2>1 DEF PollFinds, TypeOK
  <2> QED
    BY <1>9, <2>2 DEF PollFinds, TypeOK, CodesTypeOK
<1>10. ASSUME NEW b \in Polls, PollEnds(b)
      PROVE  TypeOK'
  BY <1>10 DEF PollEnds, Free, TypeOK, CodesTypeOK
<1>11. CASE Stop
  <2>1. \A b \in Polls : [poll[b] EXCEPT !.answer = "timeout"] \in PollRecord
    BY DEF TypeOK, Resolved
  <2>2. poll' \in [Polls -> PollRecord]
    BY <1>11, <2>1 DEF Stop, TypeOK
  <2> QED
    BY <1>11, <2>2 DEF Stop, TypeOK, CodesTypeOK
<1>12. ASSUME NEW q \in Consents, NEW w \in Workspaces,
              \/ ShowModal(q, w)
              \/ \E choice \in Choices : Click(q, w, choice)
              \/ CloseModal(q, w)
              \/ NoticeArrives(q, w)
       PROVE  TypeOK'
  <2>1. modal' \in [Consents -> [Workspaces ->
                      {"none", "asked", "open", "stale", "approved", "denied", "closed"}]]
    <3>1. PICK m \in {"none", "asked", "open", "stale", "approved", "denied", "closed"} :
            modal' = [modal EXCEPT ![q][w] = m]
      BY <1>12 DEF ShowModal, Click, CloseModal, NoticeArrives, Choices, TypeOK
    <3> QED
      BY <3>1, ModalTypes
  <2>2. /\ acks' \in [Consents -> SUBSET Workspaces]
        /\ clicks' \in [Consents -> SUBSET Workspaces]
        /\ notices' \in [Consents -> SUBSET Workspaces]
    <3>1. ShowModal(q, w) => acks' \in [Consents -> SUBSET Workspaces]
                             /\ UNCHANGED <<clicks, notices>>
      BY DEF ShowModal, TypeOK
    <3>2. ASSUME NEW choice, Click(q, w, choice)
          PROVE  clicks' \in [Consents -> SUBSET Workspaces] /\ UNCHANGED <<acks, notices>>
      BY <3>2 DEF Click, TypeOK
    <3>3. NoticeArrives(q, w) => notices' \in [Consents -> SUBSET Workspaces]
                                 /\ UNCHANGED <<acks, clicks>>
      BY DEF NoticeArrives, TypeOK
    <3>4. CloseModal(q, w) => UNCHANGED <<acks, clicks, notices>>
      BY DEF CloseModal
    <3> QED
      BY <1>12, <3>1, <3>2, <3>3, <3>4 DEF TypeOK
  <2> QED
    BY <1>12, <2>1, <2>2 DEF ShowModal, Click, CloseModal, NoticeArrives, TypeOK, CodesTypeOK
<1>13. ASSUME NEW w \in Workspaces, WindowDrops(w) \/ WindowReturns(w)
       PROVE  TypeOK'
  <2>1. modal' \in [Consents -> [Workspaces ->
                      {"none", "asked", "open", "stale", "approved", "denied", "closed"}]]
    <3>1. CASE WindowDrops(w)
      <4>1. \A q \in Consents :
              [modal[q] EXCEPT ![w] = IF @ = "asked" THEN "none" ELSE @] \in
                [Workspaces ->
                   {"none", "asked", "open", "stale", "approved", "denied", "closed"}]
        BY DEF TypeOK
      <4> QED
        BY <3>1, <4>1 DEF WindowDrops
    <3>2. CASE WindowReturns(w)
      BY <3>2 DEF WindowReturns, TypeOK
    <3> QED
      BY <1>13, <3>1, <3>2
  <2> QED
    BY <1>13, <2>1 DEF WindowDrops, WindowReturns, TypeOK, CodesTypeOK
<1>14. CASE CodeStep
  <2>1. CodesTypeOK'
    BY <1>14, TypeOfCodes DEF CodeStep
  <2> QED
    BY <1>14, <2>1 DEF CodeStep, consentVars, TypeOK
<1>15. CASE UNCHANGED vars
  BY <1>15 DEF vars, consentVars, TypeOK, CodesTypeOK
<1> QED
  BY <1>1, <1>2, <1>3, <1>4, <1>5, <1>6, <1>7, <1>8, <1>9, <1>10, <1>11, <1>12, <1>13, <1>14,
     <1>15, StepsAre DEF DaemonStep, ModalStep

-----------------------------------------------------------------------------
(* Consents and their codes.                                               *)

SameCode(q) == (code'[q] = "absent" <=> code[q] = "absent") /\ bound'[q] = bound[q]

(* All that a step can do to a consent. *)
Outcome(q) ==
  \/ State(q)' = State(q) /\ SameCode(q)
  \/ State(q) = "absent" /\ State(q)' = "pending" /\ SameCode(q)
  \/ State(q) = "pending" /\ State(q)' = "timeout" /\ SameCode(q)
  \/ /\ State(q) = "pending" /\ State(q)' = "denied" /\ SameCode(q)
     /\ \E w \in Workspaces : modal[q][w] = "denied"
  \/ /\ State(q) = "pending" /\ State(q)' = "approved"
     /\ code'[q] # "absent"
     /\ \E w \in Workspaces : modal[q][w] = "approved" /\ bound'[q] \in {w, None}

LEMMA OutcomeOfStep ==
  ASSUME IInv, [Next]_vars, NEW q \in Consents
  PROVE  Outcome(q)
<1> USE DEF IInv, TypeOK, State
<1>1. ASSUME UNCHANGED <<code, bound, consent>>
      PROVE  Outcome(q)
  BY <1>1 DEF Outcome, SameCode
<1>2. ASSUME NEW p \in Consents, NEW B \in SUBSET Workspaces, BeginConsent(p, B)
      PROVE  Outcome(q)
  <2>1. UNCHANGED <<code, bound>> /\ State(p) = "absent" /\ State(p)' = "pending"
        /\ \A r \in Consents \ {p} : State(r)' = State(r)
    BY <1>2 DEF BeginConsent, codeVars
  <2> QED
    BY <2>1 DEF Outcome, SameCode
<1>3. ASSUME NEW p \in Consents, NEW w \in Workspaces, RecordAck(p, w)
      PROVE  Outcome(q)
  <2>1. consent' = consent \/ consent' = [consent EXCEPT ![p].acked = TRUE]
    BY <1>3 DEF RecordAck
  <2>2. [consent[p] EXCEPT !.acked = TRUE].state = consent[p].state
    OBVIOUS
  <2>3. UNCHANGED <<code, bound>> /\ State(q)' = State(q)
    BY <1>3, <2>1, <2>2 DEF RecordAck, codeVars
  <2> QED
    BY <2>3 DEF Outcome, SameCode
<1>4. ASSUME NEW p \in Consents, NEW w \in Workspaces, Approve(p, w)
      PROVE  Outcome(q)
  <2>1. /\ State(p) = "pending" /\ State(p)' = "approved"
        /\ \A r \in Consents \ {p} : State(r)' = State(r)
        /\ modal[p][w] = "approved"
    BY <1>4 DEF Approve
  <2>2. PICK b \in {w, None} : Issue(p, b)
    BY <1>4 DEF Approve
  <2>3. /\ code'[p] # "absent" /\ bound'[p] = b
        /\ \A r \in Consents \ {p} : code'[r] = code[r] /\ bound'[r] = bound[r]
    BY <2>2 DEF Issue, CodesTypeOK
  <2> QED
    BY <2>1, <2>2, <2>3 DEF Outcome, SameCode
<1>5. ASSUME NEW p \in Consents, NEW w \in Workspaces, Deny(p, w)
      PROVE  Outcome(q)
  <2>1. /\ State(p) = "pending" /\ State(p)' = "denied"
        /\ \A r \in Consents \ {p} : State(r)' = State(r)
        /\ UNCHANGED <<code, bound>>
    BY <1>5 DEF Deny, codeVars
  <2>2. modal[p][w] = "denied"
    BY <1>5 DEF Deny, ResponseArrives, ModalInv, Choices
  <2> QED
    BY <2>1, <2>2 DEF Outcome, SameCode
<1>6. ASSUME NEW p \in Consents, DecisionTimeout(p)
      PROVE  Outcome(q)
  <2>1. /\ State(p)' = IF State(p) = "pending" THEN "timeout" ELSE State(p)
        /\ \A r \in Consents \ {p} : State(r)' = State(r)
        /\ UNCHANGED <<code, bound>>
    BY <1>6 DEF DecisionTimeout, codeVars
  <2> QED
    BY <2>1 DEF Outcome, SameCode
<1>7. CASE CodeStep
  <2>1. State(q)' = State(q)
    BY <1>7 DEF CodeStep, consentVars
  <2>2. SameCode(q)
    BY <1>7 DEF CodeStep, Redeem, Expire, RevokeCodes, Live, SameCode, CodesTypeOK
  <2> QED
    BY <2>1, <2>2 DEF Outcome
<1>8. CASE ModalStep
  BY <1>1, <1>8
     DEF ModalStep, ShowModal, Click, CloseModal, NoticeArrives, WindowDrops, WindowReturns, codeVars
<1>9. ASSUME NEW p \in Consents,
             \/ \E w \in Workspaces : DiscardLate(p, w)
             \/ AckTimeout(p)
             \/ \E b \in Polls : PollWaits(b, p) \/ PollFinds(b, p)
      PROVE  Outcome(q)
  BY <1>1, <1>9 DEF DiscardLate, AckTimeout, PollWaits, PollFinds, codeVars
<1>10. CASE Stop \/ \E b \in Polls : PollEnds(b)
  BY <1>1, <1>10 DEF Stop, PollEnds, codeVars
<1>11. CASE UNCHANGED vars
  BY <1>1, <1>11 DEF vars, consentVars, codeVars
<1> QED
  BY <1>2, <1>3, <1>4, <1>5, <1>6, <1>7, <1>8, <1>9, <1>10, <1>11, StepsAre DEF DaemonStep

LEMMA CodesKept ==
  ASSUME IInv, [Next]_vars
  PROVE  CodeInv'
<1> SUFFICES ASSUME NEW q \in Consents
             PROVE  /\ State(q)' = "approved" <=> code'[q] # "absent"
                    /\ code'[q] = "absent" => bound'[q] = None
  BY DEF CodeInv
<1>1. Outcome(q)
  BY OutcomeOfStep
<1> QED
  BY <1>1 DEF Outcome, SameCode, IInv, CodeInv

-----------------------------------------------------------------------------
(* Modals: a choice is never taken back.                                   *)

(* A modal in which nothing was chosen gets no response, one in which      *)
(* something was chosen stays as it is.                                    *)
ModalGoesOn(q, w) ==
  /\ modal[q][w] \in Choices => modal'[q][w] = modal[q][w]
  /\ modal[q][w] = "none" => modal'[q][w] = "none" \/ State(q)' # "absent"
  /\ w \in clicks'[q] => w \in clicks[q] \/ modal'[q][w] \in Choices

(* How a modal is. *)
Answers == {"none", "asked", "open", "stale", "approved", "denied", "closed"}

(* One modal is set: the others are as they were. *)
LEMMA OneUpdated ==
  ASSUME NEW S, NEW f \in [Consents -> [Workspaces -> S]], NEW to,
         NEW p \in Consents, NEW v \in Workspaces, NEW q \in Consents, NEW w \in Workspaces
  PROVE  [f EXCEPT ![p][v] = to][q][w] = IF q = p /\ w = v THEN to ELSE f[q][w]
OBVIOUS

LEMMA ModalsGoOn ==
  ASSUME TypeOK, ModalInv, [Next]_vars, NEW q \in Consents, NEW w \in Workspaces
  PROVE  ModalGoesOn(q, w)
<1>1. ASSUME modal' = modal, clicks'[q] \subseteq clicks[q]
      PROVE  ModalGoesOn(q, w)
  BY <1>1 DEF ModalGoesOn
<1>2. ASSUME NEW p \in Consents, NEW B \in SUBSET Workspaces, BeginConsent(p, B)
      PROVE  ModalGoesOn(q, w)
  <2>1. /\ State(p) = "absent" /\ State(p)' # "absent"
        /\ clicks' = clicks
        /\ q # p => modal'[q] = modal[q]
    BY <1>2 DEF BeginConsent, TypeOK, State
  <2>2. q = p => modal[q][w] = "none"
    BY <2>1 DEF ModalInv
  <2> QED
    BY <2>1, <2>2 DEF ModalGoesOn, Choices
<1>3. ASSUME NEW p \in Consents, NEW v \in Workspaces,
             ShowModal(p, v) \/ CloseModal(p, v) \/ NoticeArrives(p, v)
      PROVE  ModalGoesOn(q, w)
  <2>1. modal \in [Consents -> [Workspaces -> Answers]]
    BY DEF TypeOK, Answers
  <2>3. modal'[q][w] = modal[q][w] \/ modal[q][w] \in {"asked", "open", "stale"}
    <3>1. CASE ShowModal(p, v)
      BY <2>1, <3>1, OneUpdated DEF ShowModal
    <3>2. CASE CloseModal(p, v)
      BY <2>1, <3>2, OneUpdated DEF CloseModal
    <3>3. CASE NoticeArrives(p, v)
      BY <2>1, <3>3, OneUpdated DEF NoticeArrives
    <3> QED
      BY <1>3, <3>1, <3>2, <3>3
  <2>2. clicks' = clicks
    BY <1>3 DEF ShowModal, CloseModal, NoticeArrives
  <2> QED
    BY <2>2, <2>3 DEF ModalGoesOn, Choices
<1>4. ASSUME NEW p \in Consents, NEW v \in Workspaces, NEW choice \in Choices, Click(p, v, choice)
      PROVE  ModalGoesOn(q, w)
  <2>1. \/ modal'[q][w] = modal[q][w] /\ (q # p \/ w # v)
        \/ modal[q][w] = "open" /\ modal'[q][w] \in Choices
    BY <1>4 DEF Click, TypeOK
  <2>2. clicks'[q] = clicks[q] \/ (q = p /\ clicks'[q] = clicks[q] \cup {v})
    BY <1>4 DEF Click, TypeOK
  <2> QED
    BY <2>1, <2>2 DEF ModalGoesOn, Choices
<1>5. ASSUME NEW v \in Workspaces, WindowDrops(v)
      PROVE  ModalGoesOn(q, w)
  <2>1. modal'[q][w] = modal[q][w] \/ (modal[q][w] = "asked" /\ modal'[q][w] = "none")
    BY <1>5 DEF WindowDrops, TypeOK
  <2>2. clicks'[q] \subseteq clicks[q]
    BY <1>5 DEF WindowDrops
  <2> QED
    BY <2>1, <2>2 DEF ModalGoesOn, Choices
<1>6. ASSUME NEW p \in Consents, NEW v \in Workspaces,
             RecordAck(p, v) \/ Approve(p, v) \/ Deny(p, v) \/ DiscardLate(p, v)
      PROVE  ModalGoesOn(q, w)
  <2>1. modal' = modal /\ (clicks' = clicks \/ clicks' = [clicks EXCEPT ![p] = @ \ {v}])
    BY <1>6 DEF RecordAck, Approve, Deny, DiscardLate, ResponseArrives
  <2>2. clicks'[q] \subseteq clicks[q]
    BY <2>1 DEF TypeOK
  <2> QED
    BY <1>1, <2>1, <2>2
<1>7. ASSUME NEW p \in Consents,
             \/ AckTimeout(p) \/ DecisionTimeout(p)
             \/ \E b \in Polls : PollWaits(b, p) \/ PollFinds(b, p)
      PROVE  ModalGoesOn(q, w)
  BY <1>1, <1>7 DEF AckTimeout, DecisionTimeout, PollWaits, PollFinds, windowVars
<1>8. CASE Stop \/ CodeStep \/ (\E b \in Polls : PollEnds(b)) \/ UNCHANGED vars
  BY <1>1, <1>8 DEF Stop, CodeStep, PollEnds, vars, consentVars, windowVars
<1>9. CASE \E v \in Workspaces : WindowReturns(v)
  BY <1>1, <1>9 DEF WindowReturns
<1> QED
  BY <1>2, <1>3, <1>4, <1>5, <1>6, <1>7, <1>8, <1>9, StepsAre DEF DaemonStep, ModalStep

LEMMA ModalsKept ==
  ASSUME IInv, [Next]_vars
  PROVE  ModalInv'
<1>1. \A q \in Consents : State(q)' = "absent" => State(q) = "absent"
  BY OutcomeOfStep DEF Outcome
<1>2. \A q \in Consents, w \in Workspaces : ModalGoesOn(q, w)
  BY ModalsGoOn DEF IInv
<1> QED
  BY <1>1, <1>2 DEF ModalGoesOn, ModalInv, IInv, Choices

LEMMA ClicksKept ==
  ASSUME IInv, [Next]_vars
  PROVE  ClickDecides'
<1> SUFFICES ASSUME NEW q \in Consents
             PROVE  /\ State(q)' \in Choices => \E w \in Workspaces : modal'[q][w] = State(q)'
                    /\ bound'[q] # None => modal'[q][bound'[q]] = "approved"
  BY DEF ClickDecides, Choices
<1>1. Outcome(q)
  BY OutcomeOfStep
<1>2. \A w \in Workspaces : modal[q][w] \in Choices => modal'[q][w] = modal[q][w]
  BY ModalsGoOn DEF IInv, ModalGoesOn
<1>3. bound[q] # None => bound[q] \in Workspaces
  BY DEF IInv, TypeOK, CodesTypeOK
<1> QED
  BY <1>1, <1>2, <1>3 DEF Outcome, SameCode, IInv, ClickDecides, Choices

-----------------------------------------------------------------------------
(* Polls.                                                                  *)

(* What is answered is the state that the consent then has. *)
LEMMA AnswersAreTrue ==
  ASSUME IInv, [Next]_vars, NEW q \in Consents, NEW B, Answer(q, B, State(q)'),
         UNCHANGED stopped, q \in Consents, State(q)' # "absent"
  PROVE  PollInv'
<1>1. \A r \in Consents : /\ State(r) \in Resolved => State(r)' = State(r)
                          /\ State(r) # "absent" => State(r)' # "absent"
  BY OutcomeOfStep DEF Outcome, Resolved
<1>2. \A r \in Consents : owner'[r] # None => State(r)' # "absent"
  BY <1>1 DEF Answer, IInv, PollInv, TypeOK
<1>3. ASSUME NEW b \in Polls, poll'[b].answer # "none"
      PROVE  /\ poll'[b].req \in Consents
             /\ ~stopped => poll'[b].answer = consent'[poll'[b].req].state
  <2>1. CASE poll'[b] = poll[b]
    <3>1. poll[b].answer \in Resolved /\ poll[b].req \in Consents
      BY <1>3, <2>1 DEF IInv, PollInv, TypeOK
    <3>2. ~stopped => poll[b].answer = State(poll[b].req)
      BY <1>3, <2>1 DEF IInv, PollInv
    <3>3. ~stopped => State(poll[b].req)' = poll[b].answer
      BY <1>1, <2>1, <3>1, <3>2 DEF State
    <3> QED
      BY <2>1, <3>1, <3>3 DEF State
  <2>2. CASE poll'[b] # poll[b]
    <3>1. poll[b].req = q /\ poll'[b] = [poll[b] EXCEPT !.answer = State(q)']
      BY <2>2 DEF Answer, Waiting
    <3>2. poll'[b].req = q /\ poll'[b].answer = State(q)'
      BY <3>1 DEF IInv, TypeOK
    <3> QED
      BY <3>2 DEF State
  <2> QED
    BY <2>1, <2>2
<1> QED
  BY <1>2, <1>3 DEF PollInv, State

LEMMA PollsKept ==
  ASSUME IInv, [Next]_vars
  PROVE  PollInv'
<1>1. \A r \in Consents : /\ State(r) \in Resolved => State(r)' = State(r)
                          /\ State(r) # "absent" => State(r)' # "absent"
  BY OutcomeOfStep DEF Outcome, Resolved
<1>12. \A b \in Polls : poll[b].answer # "none" => poll[b].answer \in Resolved
  BY DEF IInv, TypeOK
<1>2. ASSUME UNCHANGED <<poll, owner, stopped>>
      PROVE  PollInv'
  BY <1>1, <1>2, <1>12 DEF IInv, PollInv, State
<1>3. ASSUME NEW q \in Consents, NEW w \in Workspaces, Approve(q, w) \/ Deny(q, w)
      PROVE  PollInv'
  <2>1. Answer(q, Woken(q), State(q)') /\ State(q)' # "absent" /\ UNCHANGED stopped
    BY <1>3 DEF Approve, Deny, ResponseArrives, State, IInv, TypeOK
  <2> QED
    BY <2>1, AnswersAreTrue
<1>4. ASSUME NEW q \in Consents, DecisionTimeout(q)
      PROVE  PollInv'
  <2>1. State(q) # "absent"
    BY <1>4 DEF DecisionTimeout, IInv, PollInv
  <2>2. Answer(q, Woken(q) \cup {owner[q]}, State(q)') /\ UNCHANGED stopped
    BY <1>4 DEF DecisionTimeout
  <2> QED
    BY <1>1, <2>1, <2>2, AnswersAreTrue
<1>5. ASSUME NEW q \in Consents, NEW b \in Polls, PollWaits(b, q)
      PROVE  PollInv'
  <2>1. /\ poll'[b].answer = "none" /\ \A c \in Polls \ {b} : poll'[c] = poll[c]
        /\ \A r \in Consents \ {q} : owner'[r] = owner[r]
        /\ State(q) = "pending" /\ UNCHANGED stopped
    BY <1>5 DEF PollWaits, IInv, TypeOK
  <2> QED
    BY <1>1, <1>12, <2>1 DEF IInv, PollInv, State
<1>6. ASSUME NEW q \in Consents, NEW b \in Polls, PollFinds(b, q)
      PROVE  PollInv'
  <2>1. /\ poll'[b].answer = State(q) /\ poll'[b].req = q
        /\ \A c \in Polls \ {b} : poll'[c] = poll[c]
        /\ State(q)' = State(q) /\ UNCHANGED <<owner, stopped>>
    BY <1>6 DEF PollFinds, IInv, TypeOK, State
  <2> QED
    BY <1>1, <1>12, <2>1 DEF IInv, PollInv, State
<1>7. ASSUME NEW b \in Polls, PollEnds(b)
      PROVE  PollInv'
  <2>1. /\ poll'[b].answer = "none" /\ \A c \in Polls \ {b} : poll'[c] = poll[c]
        /\ UNCHANGED <<owner, stopped>>
    BY <1>7 DEF PollEnds, Free, IInv, TypeOK
  <2> QED
    BY <1>1, <1>12, <2>1 DEF IInv, PollInv, State
<1>8. CASE Stop
  <2>1. \A b \in Polls : poll'[b].answer # "none" => poll'[b].req \in Consents
    <3>1. \A b \in Polls, q \in Consents : Waiting(b, q) => [poll[b] EXCEPT !.answer = "timeout"].req = q
      BY DEF Waiting, IInv, TypeOK
    <3> QED
      BY <1>8, <3>1 DEF Stop, IInv, PollInv
  <2> QED
    BY <1>8, <2>1 DEF Stop, PollInv
<1>9. ASSUME NEW q \in Consents,
             \/ \E B \in SUBSET Workspaces : BeginConsent(q, B)
             \/ \E w \in Workspaces : RecordAck(q, w) \/ DiscardLate(q, w)
             \/ AckTimeout(q)
      PROVE  PollInv'
  BY <1>2, <1>9 DEF BeginConsent, RecordAck, DiscardLate, ResponseArrives, AckTimeout, pollVars
<1>10. CASE ModalStep
  BY <1>2, <1>10 DEF ModalStep, ShowModal, Click, CloseModal, NoticeArrives, WindowDrops,
                     WindowReturns, pollVars
<1>11. CASE CodeStep \/ UNCHANGED vars
  BY <1>2, <1>11 DEF CodeStep, vars, consentVars, pollVars
<1> QED
  BY <1>3, <1>4, <1>5, <1>6, <1>7, <1>8, <1>9, <1>10, <1>11, StepsAre DEF DaemonStep

-----------------------------------------------------------------------------
(* The theorems.                                                           *)

LEMMA InvInit == Init => IInv
<1> SUFFICES ASSUME Init PROVE IInv
  OBVIOUS
<1>1. TypeOK
  BY DEF Init, CodesInit, TypeOK, CodesTypeOK, Free
<1>2. ModalInv /\ CodeInv /\ PollInv /\ ClickDecides
  BY DEF Init, CodesInit, ModalInv, CodeInv, PollInv, ClickDecides, State, Free
<1> QED
  BY <1>1, <1>2 DEF IInv

LEMMA InvStep == IInv /\ [Next]_vars => IInv'
<1>1. IInv /\ [Next]_vars => TypeOK'
  BY TypeStep DEF IInv
<1> QED
  BY <1>1, ModalsKept, CodesKept, PollsKept, ClicksKept DEF IInv

(* The inductive invariant holds in every state of every run.              *)
THEOREM ConsentInvariant == Spec => []IInv
BY InvInit, InvStep, PTL DEF Spec

(* Every variable keeps its type.                                          *)
THEOREM ConsentTypeCorrect == Spec => []TypeOK
<1>1. IInv => TypeOK
  BY DEF IInv
<1> QED
  BY <1>1, ConsentInvariant, PTL

(* A consent is approved or denied only if the operator clicked so in a    *)
(* window that was asked, and the code is bound to the workspace of a      *)
(* window in which Approve was clicked, or to none.                        *)
THEOREM ClickDecidesHolds == Spec => []ClickDecides
<1>1. IInv => ClickDecides
  BY DEF IInv
<1> QED
  BY <1>1, ConsentInvariant, PTL

(* Decision, timer and shutdown race, and the first to arrive stands: no   *)
(* later step changes it, there is a code exactly for what was approved,   *)
(* and every browser request was answered with it.                         *)
THEOREM FirstDecisionStandsHolds == Spec => FirstDecisionStands
<1> DEFINE Stands == \A q \in Consents : State(q) \in Resolved => State(q)' = State(q)
           CodeIffApproved == \A q \in Consents : State(q) = "approved" <=> code[q] # "absent"
           ToldTheTruth == \A b \in Polls :
             poll[b].answer # "none" /\ ~stopped => poll[b].answer = State(poll[b].req)
<1>1. IInv => CodeIffApproved
  BY DEF IInv, CodeInv
<1>2. IInv => ToldTheTruth
  BY DEF IInv, PollInv
<1>3. ASSUME IInv, [Next]_vars
      PROVE  Stands
  BY <1>3, OutcomeOfStep DEF Outcome, Resolved
<1>4. IInv /\ [Next]_vars => [Stands]_vars
  BY <1>3
<1> QED
  BY <1>1, <1>2, <1>4, ConsentInvariant, PTL DEF Spec, FirstDecisionStands

(* What NewestPollReturns rests on: the poll that a transition would wake  *)
(* waits for a pending consent, and a timer runs for it.                   *)
NewestIsTimed ==
  \A q \in Consents, b \in Polls :
    waiter[q] = b => Waiting(b, q) /\ State(q) = "pending" /\ owner[q] # None

(* A timer is started only where none runs, by whichever poll comes first; *)
(* it is gone when its consent is resolved, and then nobody waits.  A poll *)
(* that takes the place of another never stays without a timer, although   *)
(* the one that runs is the other's and goes with the answer to either.    *)
LEMMA AnswerLeavesNone ==
  ASSUME IInv, NewestIsTimed, NEW q \in Consents, NEW B,
         waiter[q] # None => waiter[q] \in B, Answer(q, B, State(q)'),
         \A r \in Consents \ {q} : State(r)' = State(r)
  PROVE  NewestIsTimed'
<1> SUFFICES ASSUME NEW r \in Consents, NEW b \in Polls, waiter'[r] = b
             PROVE  /\ poll'[b].req = r /\ poll'[b].answer = "none"
                    /\ State(r)' = "pending" /\ owner'[r] # None
  BY DEF NewestIsTimed, Waiting, State
<1>1. r # q /\ waiter[r] = b /\ owner'[r] = owner[r]
  BY ConsentAssumption DEF Answer, IInv, TypeOK
<1>2. Waiting(b, r) /\ State(r) = "pending" /\ owner[r] # None
  BY <1>1 DEF NewestIsTimed
<1>3. poll'[b] = poll[b]
  BY <1>1, <1>2 DEF Answer, Waiting
<1> QED
  BY <1>1, <1>2, <1>3 DEF Waiting

LEMMA TimersKept ==
  ASSUME IInv, NewestIsTimed, [Next]_vars
  PROVE  NewestIsTimed'
<1> USE ConsentAssumption DEF IInv, TypeOK
<1>1. ASSUME UNCHANGED pollVars, \A q \in Consents : State(q) = "pending" => State(q)' = "pending"
      PROVE  NewestIsTimed'
  BY <1>1 DEF NewestIsTimed, Waiting, State, pollVars
<1>2. ASSUME NEW q \in Consents, NEW w \in Workspaces, Approve(q, w) \/ Deny(q, w)
      PROVE  NewestIsTimed'
  <2>1. /\ Answer(q, Woken(q), State(q)')
        /\ \A r \in Consents \ {q} : State(r)' = State(r)
    BY <1>2 DEF Approve, Deny, State
  <2> QED
    BY <2>1, AnswerLeavesNone DEF Woken
<1>3. ASSUME NEW q \in Consents, DecisionTimeout(q)
      PROVE  NewestIsTimed'
  <2>1. /\ Answer(q, Woken(q) \cup {owner[q]}, State(q)')
        /\ \A r \in Consents \ {q} : State(r)' = State(r)
    BY <1>3 DEF DecisionTimeout, State
  <2> QED
    BY <2>1, AnswerLeavesNone DEF Woken
<1>4. ASSUME NEW q \in Consents, NEW c \in Polls, PollWaits(c, q)
      PROVE  NewestIsTimed'
  <2>1. /\ poll[c] = Free /\ State(q) = "pending" /\ consent' = consent
        /\ poll'[c].req = q /\ poll'[c].answer = "none" /\ waiter'[q] = c /\ owner'[q] # None
        /\ \A b \in Polls \ {c} : poll'[b] = poll[b]
        /\ \A r \in Consents \ {q} : waiter'[r] = waiter[r] /\ owner'[r] = owner[r]
    BY <1>4 DEF PollWaits
  <2>2. \A r \in Consents : waiter[r] # c
    BY <2>1 DEF NewestIsTimed, Waiting, Free
  <2> QED
    BY <2>1, <2>2 DEF NewestIsTimed, Waiting, State
<1>5. ASSUME NEW c \in Polls, PollEnds(c) \/ \E q \in Consents : PollFinds(c, q)
      PROVE  NewestIsTimed'
  <2>1. /\ poll[c] = Free \/ poll[c].answer # "none"
        /\ UNCHANGED <<consent, waiter, owner>>
        /\ \A b \in Polls \ {c} : poll'[b] = poll[b]
    BY <1>5 DEF PollEnds, PollFinds
  <2>2. \A r \in Consents : waiter[r] # c
    BY <2>1 DEF NewestIsTimed, Waiting, Free
  <2> QED
    BY <2>1, <2>2 DEF NewestIsTimed, Waiting, State
<1>6. CASE Stop
  BY <1>6 DEF Stop, NewestIsTimed
<1>7. ASSUME NEW q \in Consents, \E B \in SUBSET Workspaces : BeginConsent(q, B)
      PROVE  NewestIsTimed'
  <2>1. UNCHANGED pollVars /\ consent' = [consent EXCEPT ![q].state = "pending"]
    BY <1>7 DEF BeginConsent
  <2> QED
    BY <1>1, <2>1 DEF State
<1>8. ASSUME NEW q \in Consents, NEW w \in Workspaces, RecordAck(q, w)
      PROVE  NewestIsTimed'
  <2>1. /\ UNCHANGED pollVars
        /\ consent' = consent \/ consent' = [consent EXCEPT ![q].acked = TRUE]
    BY <1>8 DEF RecordAck
  <2>2. [consent[q] EXCEPT !.acked = TRUE].state = consent[q].state
    OBVIOUS
  <2>3. \A r \in Consents : State(r)' = State(r)
    BY <2>1, <2>2 DEF State
  <2> QED
    BY <1>1, <2>1, <2>3
<1>9. ASSUME UNCHANGED <<consent, pollVars>>
      PROVE  NewestIsTimed'
  BY <1>1, <1>9 DEF State
<1>10. ASSUME NEW q \in Consents, AckTimeout(q) \/ \E w \in Workspaces : DiscardLate(q, w)
       PROVE  NewestIsTimed'
  BY <1>9, <1>10 DEF AckTimeout, DiscardLate
<1>11. CASE ModalStep
  BY <1>9, <1>11 DEF ModalStep, ShowModal, Click, CloseModal, NoticeArrives, WindowDrops,
                     WindowReturns
<1>12. CASE CodeStep \/ UNCHANGED vars
  BY <1>9, <1>12 DEF CodeStep, vars, consentVars
<1> QED
  BY <1>2, <1>3, <1>4, <1>5, <1>6, <1>7, <1>8, <1>10, <1>11, <1>12, StepsAre DEF DaemonStep

(* The poll whose page the operator looks at is never parked without a     *)
(* timer that ends it, however polls, decisions and a shutdown follow each *)
(* other.                                                                  *)
THEOREM NewestIsTimedHolds == Spec => []NewestIsTimed
<1>1. Init => NewestIsTimed
  BY ConsentAssumption DEF Init, NewestIsTimed
<1> QED
  BY <1>1, TimersKept, ConsentInvariant, PTL DEF Spec

-----------------------------------------------------------------------------
(***************************************************************************)
(* CodeMintsOnce, OneTakeoverYields, TakeoverNeverUnbinds, UnbindIsComplete*)
(* and DiskIsCurrent of OAuthTokens, for any number of consents,           *)
(* workspaces and requests in progress.                                    *)
(*                                                                         *)
(* The invariant has four parts, each kept by every step: what is in the   *)
(* store, in tokens.json or on its way there was minted from a code        *)
(* (Minted), so a restart brings back nothing else; of the takeovers of    *)
(* one workspace each knows what an earlier one knows (Nested), so one     *)
(* always spares the token that another one relies on (Spared); nothing    *)
(* cut off by an unbind can be redeemed; and a write that met no other one *)
(* carries the store as it is.                                             *)
(***************************************************************************)
(* Stores of which every token was minted. *)
Minted == {d \in Stores : \A q \in Consents : d[q] # "absent" => code[q] = "redeemed"}

OpRecord == [step : Steps, con : Consents \cup {None}, old : SUBSET Consents]

Minting(o) == op[o].step \in {"mint", "revoke"}

(* What a request that has redeemed its code knows. *)
OpsAreSound ==
  \A o \in Ops :
    /\ op[o].step = "verify" => op[o].con \in Consents
    /\ Minting(o) => op[o].con \in Consents /\ code[op[o].con] = "redeemed"
    /\ Doing(o, "mint") =>
         /\ op[o].con \notin op[o].old
         /\ \A q \in op[o].old :
              /\ code[q] = "redeemed"
              /\ bound[q] = bound[op[o].con]
              /\ bound[q] # None

StoreInv ==
  /\ CodesTypeOK
  /\ FileTypeOK(Minted)
  /\ store \in Minted
  /\ op \in [Ops -> OpRecord]
  /\ OpsAreSound

(* Of two takeovers of one workspace one knows of all the tokens that the  *)
(* other one knows of, those that are gone apart.                          *)
Nested ==
  \A o, p \in Ops :
    Doing(o, "mint") /\ Doing(p, "mint") /\ bound[op[o].con] = bound[op[p].con] =>
      \/ \A q \in op[o].old : Valid(q) => q \in op[p].old
      \/ \A q \in op[p].old : Valid(q) => q \in op[o].old

(* A takeover that has something to revoke leaves something. *)
Spared ==
  \A o \in Ops :
    Doing(o, "mint") /\ (\E r \in op[o].old : Valid(r)) =>
      \E q \in Consents : Valid(q) /\ bound[q] = bound[op[o].con] /\ q \notin op[o].old

MintsOnce ==
  \A o, p \in Ops :
    Doing(o, "mint") /\ Minting(p) /\ op[o].con = op[p].con => o = p

TakeoverInv == MintsOnce /\ OneTakeoverYields /\ Nested /\ Spared

CutInv == cut \subseteq Consents /\ \A q \in cut : code[q] \notin {"absent", "live"}

(* A write that is alone will leave the store in the file. *)
AloneInv ==
  \A o \in Ops : write[o].alone /\ Stage(o) # "none" =>
    /\ \A p \in Ops \ {o} : Stage(p) = "none"
    /\ Stage(o) \in {"open", "write"} => write[o].data = store
    /\ Stage(o) = "write" => disk.state = "empty"

DiskInv == AloneInv /\ DiskIsCurrent

TokensInv == StoreInv /\ TakeoverInv /\ CutInv /\ DiskInv

-----------------------------------------------------------------------------
(* The codes.                                                              *)

(* What is redeemed stays so, for the same workspace, and what is dead     *)
(* stays dead.                                                             *)
CodesGoOn ==
  /\ CodesTypeOK'
  /\ \A q \in Consents :
       /\ code[q] = "redeemed" => code'[q] = "redeemed"
       /\ code[q] # "absent" => bound'[q] = bound[q]
       /\ code[q] \notin {"absent", "live"} => code'[q] = code[q]

LEMMA CodeSteps ==
  ASSUME CodesTypeOK
  PROVE  /\ UNCHANGED codeVars => CodesGoOn
         /\ \A q \in Consents :
              /\ \A w \in Workspaces \cup {None} : Issue(q, w) => CodesGoOn
              /\ Redeem(q) \/ Expire(q) => CodesGoOn
         /\ \A w \in Workspaces \cup {None} : RevokeCodes(w) => CodesGoOn
         /\ Restart => CodesGoOn
<1> USE DEF CodesTypeOK, CodesGoOn
<1>1. UNCHANGED codeVars => CodesGoOn
  BY DEF codeVars
<1>2. ASSUME NEW q \in Consents, NEW w \in Workspaces \cup {None}, Issue(q, w)
      PROVE  CodesGoOn
  BY <1>2 DEF Issue
<1>3. ASSUME NEW q \in Consents, Redeem(q) \/ Expire(q)
      PROVE  CodesGoOn
  BY <1>3 DEF Redeem, Expire, Live
<1>4. ASSUME NEW w \in Workspaces \cup {None}, RevokeCodes(w)
      PROVE  CodesGoOn
  BY <1>4 DEF RevokeCodes, Live
<1>5. Restart => CodesGoOn
  BY DEF Restart, Live
<1> QED
  BY <1>1, <1>2, <1>3, <1>4, <1>5

(* What was minted before a step was minted after it. *)
LEMMA MintedGrows ==
  ASSUME CodesGoOn
  PROVE  Minted \subseteq Minted'
BY DEF CodesGoOn, Minted

-----------------------------------------------------------------------------
(* The file.                                                               *)

WriteRecord(S) ==
  [stage : {"none", "stat"}, data : {NoText}, alone : BOOLEAN]
    \cup [stage : {"open", "write"}, data : S, alone : BOOLEAN]

Contents(S) ==
  [state : {"whole"}, data : S] \cup [state : {"empty", "garbled"}, data : {NoText}]

(* A write that begins, instead of the one that has landed or beside the   *)
(* others; and one step of a write that goes on.                           *)
Rewrites == \E o \in Ops : BeginWrite(o) \/ (Landed(o) /\ StartWrite(o))

Proceeds ==
  \/ UNCHANGED fileVars
  \/ \E o \in Ops : Stringify(o, store) \/ OpenFile(o) \/ WriteDone(o) \/ WriteFails(o)

(* No step of a write leaves more in the file, or on its way there, than   *)
(* what was there and the store that is written.                           *)
LEMMA FileSteps ==
  ASSUME NEW S, FileTypeOK(S), NEW o \in Ops, NEW data \in S,
         \/ UNCHANGED fileVars
         \/ BeginWrite(o)
         \/ Stringify(o, data) \/ OpenFile(o)
         \/ WriteDone(o) \/ WriteFails(o)
         \/ Landed(o) /\ StartWrite(o)
         \/ AbandonWrites
  PROVE  /\ disk' \in Contents(S)
         /\ write' \in [Ops -> WriteRecord(S)]
         /\ disturbed' \in BOOLEAN
<1>1. write \in [Ops -> WriteRecord(S)] /\ disk \in Contents(S) /\ disturbed \in BOOLEAN
  BY DEF FileTypeOK, Contents, WriteRecord
<1>2. NoWrite \in WriteRecord(S)
  BY DEF NoWrite, WriteRecord
<1>3. CASE UNCHANGED fileVars
  BY <1>1, <1>3 DEF fileVars
<1>4. CASE StartWrite(o)
  <2>1. ASSUME NEW p \in Ops
        PROVE  [write[p] EXCEPT !.alone = FALSE] \in WriteRecord(S)
    BY <1>1 DEF WriteRecord
  <2>2. [stage |-> "stat", data |-> NoText,
         alone |-> \A other \in Ops \ {o} : Stage(other) = "none"] \in WriteRecord(S)
    BY DEF WriteRecord
  <2>3. write' \in [Ops -> WriteRecord(S)] /\ disturbed' = disturbed
    BY <1>4, <2>1, <2>2 DEF StartWrite
  <2>4. Stage(o) = "write" => write[o].data \in S
    BY <1>1 DEF Stage, WriteRecord
  <2>5. Landed(o) => disk' \in Contents(S)
    BY <2>4 DEF Landed, Contents
  <2>6. BeginWrite(o) => disk' = disk
    BY DEF BeginWrite
  <2>7. BeginWrite(o) \/ Landed(o) \/ disk' = disk \/ disk' \in Contents(S)
    <3>1. Stringify(o, data) \/ OpenFile(o) \/ WriteFails(o) \/ WriteDone(o) \/ AbandonWrites
            => disk' \in Contents(S)
      BY <1>1, <2>5 DEF Stringify, OpenFile, WriteFails, WriteDone, AbandonWrites, Contents
    <3> QED
      BY <3>1 DEF fileVars
  <2> QED
    BY <1>1, <2>3, <2>5, <2>6, <2>7
<1>5. CASE Stringify(o, data)
  <2> DEFINE new == [write[o] EXCEPT !.stage = "open", !.data = data]
  <2>1. new \in WriteRecord(S)
    BY <1>1 DEF WriteRecord
  <2>2. write' = [write EXCEPT ![o] = new] /\ UNCHANGED <<disk, disturbed>>
    BY <1>5 DEF Stringify
  <2> HIDE DEF new
  <2> QED
    BY <1>1, <2>1, <2>2
<1>6. CASE OpenFile(o)
  <2> DEFINE new == [write[o] EXCEPT !.stage = "write"]
  <2>1. new \in WriteRecord(S)
    BY <1>1, <1>6 DEF OpenFile, Stage, WriteRecord
  <2>2. write' = [write EXCEPT ![o] = new] /\ disturbed' = disturbed
    BY <1>6 DEF OpenFile
  <2>3. disk' \in Contents(S)
    BY <1>6 DEF OpenFile, Contents
  <2> HIDE DEF new
  <2> QED
    BY <1>1, <2>1, <2>2, <2>3
<1>7. CASE WriteDone(o) \/ WriteFails(o)
  <2>1. write' = [write EXCEPT ![o] = NoWrite]
    BY <1>7 DEF WriteDone, WriteFails
  <2>2. disturbed' \in BOOLEAN
    BY <1>7 DEF WriteDone, WriteFails
  <2>3. CASE WriteDone(o)
    <3>1. Stage(o) = "write" => write[o].data \in S
      BY <1>1 DEF Stage, WriteRecord
    <3> QED
      BY <1>1, <1>2, <2>1, <2>2, <2>3, <3>1 DEF WriteDone, Landed, Contents
  <2>4. CASE WriteFails(o)
    BY <1>1, <1>2, <2>1, <2>2, <2>4 DEF WriteFails, Contents
  <2> QED
    BY <1>7, <2>3, <2>4
<1>8. CASE AbandonWrites
  BY <1>1, <1>2, <1>8 DEF AbandonWrites
<1> QED
  BY <1>3, <1>4, <1>5, <1>6, <1>7, <1>8 DEF BeginWrite

LEMMA FileTypeGrows ==
  ASSUME NEW S, NEW T, S \subseteq T,
         disk' \in Contents(S), write' \in [Ops -> WriteRecord(S)], disturbed' \in BOOLEAN
  PROVE  /\ disk' \in [state : {"whole"}, data : T]
                        \cup [state : {"empty", "garbled"}, data : {NoText}]
         /\ write' \in [Ops -> [stage : {"none", "stat"}, data : {NoText}, alone : BOOLEAN]
                          \cup [stage : {"open", "write"}, data : T, alone : BOOLEAN]]
         /\ disturbed' \in BOOLEAN
<1>1. Contents(S) \subseteq Contents(T)
  BY DEF Contents
<1>2. WriteRecord(S) \subseteq WriteRecord(T)
  BY DEF WriteRecord
<1> QED
  BY <1>1, <1>2 DEF Contents, WriteRecord

LEMMA FileKept ==
  ASSUME FileTypeOK(Minted), store \in Minted, Rewrites \/ Proceeds \/ AbandonWrites,
         Minted \subseteq Minted'
  PROVE  FileTypeOK(Minted)'
<1>1. /\ disk' \in Contents(Minted)
      /\ write' \in [Ops -> WriteRecord(Minted)]
      /\ disturbed' \in BOOLEAN
  <2>1. CASE UNCHANGED fileVars
    BY <2>1 DEF fileVars, FileTypeOK, Contents, WriteRecord
  <2>2. CASE AbandonWrites
    BY <2>2 DEF AbandonWrites, NoWrite, FileTypeOK, Contents, WriteRecord
  <2>3. CASE \E o \in Ops :
               \/ BeginWrite(o) \/ (Landed(o) /\ StartWrite(o))
               \/ Stringify(o, store) \/ OpenFile(o) \/ WriteDone(o) \/ WriteFails(o)
    BY <2>3, FileSteps
  <2> QED
    BY <2>1, <2>2, <2>3 DEF Rewrites, Proceeds
<1> QED
  BY <1>1, FileTypeGrows DEF FileTypeOK

(* One clean write puts the store into the file. *)
LEMMA DiskKept ==
  ASSUME FileTypeOK(Minted), DiskInv, Rewrites \/ (Proceeds /\ store' = store)
  PROVE  DiskInv'
<1>0. write \in [Ops -> WriteRecord(Minted)] /\ disk \in Contents(Minted)
  BY DEF FileTypeOK, Contents, WriteRecord
<1>1. CASE UNCHANGED <<fileVars, store>>
  BY <1>1 DEF DiskInv, AloneInv, DiskIsCurrent, Settled, Stage, fileVars
<1>2. ASSUME NEW o \in Ops, StartWrite(o)
      PROVE  DiskInv'
  <2>1. /\ write'[o].stage = "stat"
        /\ write'[o].alone => \A p \in Ops \ {o} : Stage(p) = "none"
        /\ \A p \in Ops \ {o} : ~write'[p].alone /\ write'[p].stage = Stage(p)
    <3>1. \A p \in Ops : [write[p] EXCEPT !.alone = FALSE].alone = FALSE
                         /\ [write[p] EXCEPT !.alone = FALSE].stage = Stage(p)
      BY <1>0 DEF WriteRecord, Stage
    <3> QED
      BY <1>2, <3>1 DEF StartWrite
  <2> QED
    BY <2>1 DEF DiskInv, AloneInv, DiskIsCurrent, Settled, Stage
<1>3. ASSUME NEW o \in Ops, Stringify(o, store), store' = store
      PROVE  DiskInv'
  <2>1. /\ \A p \in Ops \ {o} : write'[p] = write[p]
        /\ write[o].stage = "stat"
        /\ write'[o].stage = "open" /\ write'[o].data = store
        /\ write'[o].alone = write[o].alone
        /\ UNCHANGED <<disk, disturbed>>
    BY <1>0, <1>3 DEF Stringify, Stage, WriteRecord
  <2> QED
    BY <1>3, <2>1 DEF DiskInv, AloneInv, DiskIsCurrent, Settled, Stage
<1>4. ASSUME NEW o \in Ops, OpenFile(o), store' = store
      PROVE  DiskInv'
  <2>1. /\ \A p \in Ops \ {o} : write'[p] = write[p]
        /\ write[o].stage = "open"
        /\ write'[o].stage = "write" /\ write'[o].data = write[o].data
        /\ write'[o].alone = write[o].alone
        /\ disk'.state = "empty"
    BY <1>0, <1>4 DEF OpenFile, Stage, WriteRecord
  <2> QED
    BY <1>4, <2>1 DEF DiskInv, AloneInv, DiskIsCurrent, Settled, Stage
<1>5. ASSUME NEW o \in Ops, write' = [write EXCEPT ![o] = NoWrite], Stage(o) # "none"
      PROVE  /\ AloneInv'
             /\ ~Settled
  <2>1. /\ \A p \in Ops \ {o} : write'[p] = write[p]
        /\ write'[o].stage = "none"
    BY <1>0, <1>5 DEF NoWrite
  <2>2. \A p \in Ops \ {o} : write[p].alone => Stage(p) = "none"
    BY <1>5 DEF DiskInv, AloneInv
  <2> QED
    BY <1>5, <2>1, <2>2 DEF AloneInv, Settled, Stage
<1>6. ASSUME NEW o \in Ops, WriteDone(o), store' = store
      PROVE  DiskInv'
  <2>1. AloneInv'
    BY <1>5, <1>6 DEF WriteDone, Landed
  <2>2. write[o].alone => disk' = [state |-> "whole", data |-> store]
    BY <1>6 DEF WriteDone, Landed, DiskInv, AloneInv
  <2> QED
    BY <1>6, <2>1, <2>2 DEF WriteDone, DiskInv, DiskIsCurrent
<1>7. ASSUME NEW o \in Ops, WriteFails(o)
      PROVE  DiskInv'
  BY <1>5, <1>7 DEF WriteFails, DiskInv, DiskIsCurrent
<1> QED
  BY <1>1, <1>2, <1>3, <1>4, <1>6, <1>7 DEF Rewrites, Proceeds, BeginWrite

-----------------------------------------------------------------------------
(* The store and the requests.                                             *)

LEMMA ValidIsRedeemed ==
  ASSUME StoreInv, NEW q \in Consents, Valid(q)
  PROVE  code[q] = "redeemed"
BY DEF StoreInv, Minted, Valid

(* A store from which tokens are taken, or whose modes change. *)
LEMMA FewerAreMinted ==
  ASSUME NEW d \in Minted, NEW e \in Stores,
         \A q \in Consents : e[q] # "absent" => d[q] # "absent"
  PROVE  e \in Minted
BY DEF Minted

LEMMA WithoutIsMinted ==
  ASSUME StoreInv, NEW S
  PROVE  Without(S) \in Minted
BY FewerAreMinted DEF StoreInv, Without, Minted, Stores

(* Requests that go on otherwise than by a redemption. *)
OpsGoOn ==
  /\ op' \in [Ops -> OpRecord]
  /\ \A o \in Ops :
       \/ op'[o] = op[o]
       \/ /\ op'[o].step \notin {"mint", "revoke"}
          /\ op'[o].step = "verify" => op'[o].con \in Consents

LEMMA OpsKept ==
  ASSUME StoreInv, CodesGoOn, OpsGoOn
  PROVE  OpsAreSound'
<1>1. ASSUME NEW o \in Ops, op'[o] = op[o]
      PROVE  /\ op'[o].step = "verify" => op'[o].con \in Consents
             /\ op'[o].step \in {"mint", "revoke"} =>
                  op'[o].con \in Consents /\ code'[op'[o].con] = "redeemed"
             /\ op'[o].step = "mint" =>
                  /\ op'[o].con \notin op'[o].old
                  /\ \A q \in op'[o].old :
                       code'[q] = "redeemed" /\ bound'[q] = bound'[op'[o].con] /\ bound'[q] # None
  <2>1. op[o] \in OpRecord
    BY DEF StoreInv
  <2>2. op[o].old \subseteq Consents
    BY <2>1 DEF OpRecord
  <2> QED
    BY <1>1, <2>2 DEF StoreInv, OpsAreSound, Minting, Doing, CodesGoOn
<1> QED
  BY <1>1 DEF OpsGoOn, OpsAreSound, Minting, Doing

(* Tokens leave the store with all others of their workspace. *)
GoTogether ==
  /\ \A q \in Consents : Valid(q)' => Valid(q)
  /\ \A q, r \in Consents :
       Valid(q) /\ Valid(r) /\ bound[q] = bound[r] /\ bound[q] # None
         => (Valid(q)' <=> Valid(r)')

LEMMA TakeoversKept ==
  ASSUME StoreInv, TakeoverInv, CodesGoOn, OpsGoOn, GoTogether
  PROVE  TakeoverInv'
<1>1. ASSUME NEW o \in Ops, op'[o].step = "mint" \/ op'[o].step = "revoke"
      PROVE  /\ op'[o] = op[o] /\ Minting(o)
             /\ op[o].con \in Consents /\ bound'[op[o].con] = bound[op[o].con]
             /\ op[o].old \subseteq Consents
  BY <1>1 DEF OpsGoOn, StoreInv, OpsAreSound, Minting, CodesGoOn, OpRecord
<1>2. \A q \in Consents : Valid(q) => bound'[q] = bound[q]
  BY ValidIsRedeemed DEF CodesGoOn
<1>3. MintsOnce'
  BY <1>1 DEF TakeoverInv, MintsOnce, Minting, Doing
<1>4. OneTakeoverYields'
  BY <1>1 DEF TakeoverInv, OneTakeoverYields, Doing, GoTogether
<1>5. Nested'
  BY <1>1 DEF TakeoverInv, Nested, Doing, GoTogether
<1>6. Spared'
  <2>1. SUFFICES ASSUME NEW o \in Ops, op'[o].step = "mint",
                        NEW r \in op'[o].old, Valid(r)'
                 PROVE  \E q \in Consents :
                          Valid(q)' /\ bound'[q] = bound'[op'[o].con] /\ q \notin op'[o].old
    BY DEF Spared, Doing
  <2>2. /\ Doing(o, "mint") /\ r \in op[o].old /\ r \in Consents /\ Valid(r)
        /\ bound[r] = bound[op[o].con] /\ bound[r] # None
    BY <1>1, <2>1 DEF Doing, StoreInv, OpsAreSound, GoTogether
  <2>3. PICK q \in Consents : Valid(q) /\ bound[q] = bound[op[o].con] /\ q \notin op[o].old
    BY <2>2 DEF TakeoverInv, Spared
  <2>4. Valid(q)'
    BY <2>1, <2>2, <2>3 DEF GoTogether
  <2> QED
    BY <1>1, <1>2, <2>1, <2>3, <2>4
<1> QED
  BY <1>3, <1>4, <1>5, <1>6 DEF TakeoverInv

(* A takeover that revokes what it has captured. *)
LEMMA RevokeOldKeeps ==
  ASSUME TokensInv, NEW o \in Ops, RevokeOld(o)
  PROVE  OpsAreSound' /\ TakeoverInv'
<1>1. /\ UNCHANGED <<codeVars, cut>>
      /\ Doing(o, "mint") /\ op[o].con \in Consents
      /\ op'[o].step = "revoke" /\ op'[o].con = op[o].con
      /\ \A p \in Ops \ {o} : op'[p] = op[p]
      /\ op' \in [Ops -> OpRecord]
  <2>1. op \in [Ops -> OpRecord]
    BY DEF TokensInv, StoreInv
  <2>2. op' = [op EXCEPT ![o].step = "revoke"] /\ UNCHANGED <<codeVars, cut>> /\ Doing(o, "mint")
    BY DEF RevokeOld
  <2>3. [op[o] EXCEPT !.step = "revoke"] \in OpRecord
    BY <2>1 DEF OpRecord, Steps
  <2>4. op[o].con \in Consents
    BY <2>2 DEF TokensInv, StoreInv, OpsAreSound, Doing, Minting
  <2> QED
    BY <2>1, <2>2, <2>3, <2>4 DEF OpRecord
<1>2. \A q \in Consents : Valid(q)' <=> Valid(q) /\ q \notin op[o].old
  BY DEF RevokeOld, Without, Valid
<1>3. \A p \in Ops : op'[p].step = "mint" => p # o /\ op'[p] = op[p] /\ op[p].con \in Consents
                                          /\ op[p].old \subseteq Consents
  BY <1>1 DEF TokensInv, StoreInv, OpsAreSound, Minting, OpRecord
<1>4. OpsAreSound'
  BY <1>1 DEF TokensInv, StoreInv, OpsAreSound, Minting, Doing, codeVars
<1>5. MintsOnce'
  BY <1>1, <1>3 DEF TokensInv, TakeoverInv, MintsOnce, Minting, Doing
<1>6. OneTakeoverYields' /\ Nested'
  BY <1>1, <1>2, <1>3 DEF TokensInv, TakeoverInv, OneTakeoverYields, Nested, Doing, codeVars
<1>7. Spared'
  <2>1. SUFFICES ASSUME NEW p \in Ops, op'[p].step = "mint",
                        NEW r \in op'[p].old, Valid(r)'
                 PROVE  \E q \in Consents :
                          Valid(q)' /\ bound[q] = bound[op[p].con] /\ q \notin op[p].old
    BY <1>1, <1>3 DEF Spared, Doing, codeVars
  <2>2. /\ p # o /\ Doing(p, "mint") /\ r \in op[p].old /\ r \in Consents
        /\ Valid(r) /\ r \notin op[o].old
    BY <1>2, <1>3, <2>1 DEF Doing
  <2>3. PICK q \in Consents : Valid(q) /\ bound[q] = bound[op[p].con] /\ q \notin op[p].old
    BY <2>2 DEF TokensInv, TakeoverInv, Spared
  <2>4. q \notin op[o].old
    <3>1. CASE bound[op[o].con] = bound[op[p].con]
      BY <1>1, <2>2, <2>3, <3>1 DEF TokensInv, TakeoverInv, Nested
    <3>2. CASE bound[op[o].con] # bound[op[p].con]
      BY <1>1, <2>3, <3>2 DEF TokensInv, StoreInv, OpsAreSound
    <3> QED
      BY <3>1, <3>2
  <2> QED
    BY <1>2, <2>3, <2>4
<1> QED
  BY <1>4, <1>5, <1>6, <1>7 DEF TakeoverInv

(* A redemption: the new request knows of all tokens of its workspace, and *)
(* nobody knows of its own.                                                *)
LEMMA TokenMintedKeeps ==
  ASSUME TokensInv, NEW o \in Ops, TokenMinted(o)
  PROVE  store' \in Minted' /\ op' \in [Ops -> OpRecord] /\ OpsAreSound' /\ TakeoverInv'
<1> DEFINE q == op[o].con
           w == bound[q]
           old == IF w = None THEN {} ELSE TokensOf(w)
<1>1. /\ Doing(o, "verify") /\ q \in Consents /\ Live(q)
      /\ code' = [code EXCEPT ![q] = "redeemed"] /\ bound' = bound
      /\ op' = [op EXCEPT ![o].step = "mint", ![o].old = old]
      /\ store' = [store EXCEPT ![q] = IF w = None THEN "null" ELSE "per_call"]
  BY DEF TokenMinted, Redeem, TokensInv, StoreInv, OpsAreSound, Doing
<1>2. /\ code \in [Consents -> {"absent", "live", "redeemed", "dead"}]
      /\ store \in Stores
      /\ op \in [Ops -> OpRecord]
  BY DEF TokensInv, StoreInv, CodesTypeOK, Minted
<1>3. old \subseteq Consents
  BY DEF TokensOf
<1>4. [op[o] EXCEPT !.step = "mint", !.old = old] \in OpRecord
  BY <1>2, <1>3 DEF OpRecord, Steps
<1>5. /\ op' \in [Ops -> OpRecord]
      /\ op'[o].step = "mint" /\ op'[o].con = q /\ op'[o].old = old
      /\ \A p \in Ops \ {o} : op'[p] = op[p]
  BY <1>1, <1>2, <1>4 DEF OpRecord
<1>6. /\ code'[q] = "redeemed"
      /\ \A r \in Consents \ {q} : code'[r] = code[r]
      /\ code[q] # "redeemed"
  BY <1>1, <1>2 DEF Live
<1>7. \A r \in Consents : Valid(r)' <=> Valid(r) \/ r = q
  BY <1>1, <1>2 DEF Valid, Stores
<1>8. \A r \in Consents : Valid(r) => code[r] = "redeemed" /\ r # q
  BY <1>6, ValidIsRedeemed DEF TokensInv
<1>9. store' \in Minted'
  <2>1. store' \in Stores
    BY <1>1, <1>2 DEF Stores, Ceilings
  <2> QED
    BY <1>6, <1>7, <1>8, <2>1 DEF Minted, Valid
<1>10. \A r \in Consents : r \in old <=> Valid(r) /\ bound[r] = w /\ w # None
  BY DEF TokensOf
<1> HIDE DEF q, w, old
<1>11. \A p \in Ops \ {o} :
         /\ Minting(p) => op[p].con \in Consents /\ op[p].con # q
         /\ Doing(p, "mint") =>
              /\ op[p].old \subseteq Consents
              /\ \A r \in op[p].old : r # q /\ bound[r] = bound[op[p].con] /\ bound[r] # None
  <2>1. \A p \in Ops : op[p].old \subseteq Consents
    BY <1>2 DEF OpRecord
  <2> QED
    BY <1>6, <2>1 DEF TokensInv, StoreInv, OpsAreSound, Minting
<1>12. OpsAreSound'
  BY <1>1, <1>3, <1>5, <1>6, <1>8, <1>10
     DEF TokensInv, StoreInv, OpsAreSound, Minting, Doing, w
<1>13. MintsOnce'
  BY <1>5, <1>11 DEF TokensInv, TakeoverInv, MintsOnce, Minting, Doing
<1>14. OneTakeoverYields'
  <2>1. ASSUME NEW p \in Ops \ {o}, Doing(p, "mint"), bound[op[p].con] = w, w # None,
               Valid(op[p].con)'
        PROVE  op[p].con \in old /\ q \notin op[p].old
    BY <1>5, <1>7, <1>10, <1>11, <2>1 DEF Minting, Doing
  <2> QED
    BY <1>1, <1>5, <1>7, <1>11, <2>1 DEF TokensInv, TakeoverInv, OneTakeoverYields, Doing, Minting, w
<1>15. Nested'
  <2>1. ASSUME NEW p \in Ops \ {o}, Doing(p, "mint"), bound[op[p].con] = w,
               NEW r \in op[p].old, Valid(r)'
        PROVE  r \in old
    BY <1>7, <1>10, <1>11, <2>1
  <2> QED
    BY <1>1, <1>5, <1>7, <1>11, <2>1 DEF TokensInv, TakeoverInv, Nested, Doing, w
<1>16. Spared'
  <2>1. q \notin old
    BY <1>1, <1>8, <1>10
  <2> QED
    BY <1>1, <1>5, <1>7, <1>11, <2>1 DEF TokensInv, TakeoverInv, Spared, Doing, w
<1> QED
  BY <1>5, <1>9, <1>12, <1>13, <1>14, <1>15, <1>16 DEF TakeoverInv

-----------------------------------------------------------------------------
(* The other actions.                                                      *)

LEMMA OpChanges ==
  ASSUME StoreInv, NEW o \in Ops, NEW r \in OpRecord,
         r.step \notin {"mint", "revoke"}, r.step = "verify" => r.con \in Consents,
         op' = [op EXCEPT ![o] = r]
  PROVE  OpsGoOn
BY DEF StoreInv, OpsGoOn

LEMMA OpEnds ==
  ASSUME StoreInv, NEW o \in Ops, Finish(o)
  PROVE  OpsGoOn
<1>1. Idle \in OpRecord /\ Idle.step = "idle"
  BY DEF Idle, OpRecord, Steps
<1> QED
  BY <1>1, OpChanges DEF Finish

LEMMA OpBegins ==
  ASSUME StoreInv, NEW o \in Ops,
         NEW step \in {"unbind", "all", "set"}, NEW old \in SUBSET Consents,
         \/ op' = [op EXCEPT ![o] = [Idle EXCEPT !.step = step, !.old = old]]
         \/ op' = [op EXCEPT ![o] = [Idle EXCEPT !.step = step]]
  PROVE  OpsGoOn
<1>1. Idle \in OpRecord
  BY DEF Idle, OpRecord, Steps
<1> DEFINE r == [Idle EXCEPT !.step = step, !.old = old]
           r0 == [Idle EXCEPT !.step = step]
<1>2. r \in OpRecord /\ r0 \in OpRecord
  BY <1>1 DEF OpRecord, Steps
<1>3. r.step = step /\ r0.step = step
  BY <1>1 DEF OpRecord
<1> HIDE DEF r, r0
<1>4. op' = [op EXCEPT ![o] = r] \/ op' = [op EXCEPT ![o] = r0]
  BY DEF r, r0
<1> QED
  BY <1>2, <1>3, <1>4, OpChanges

LEMMA OpsStay ==
  ASSUME StoreInv, op' = op
  PROVE  OpsGoOn
BY DEF StoreInv, OpsGoOn

LEMMA GoneTogether ==
  /\ store' = store => GoTogether
  /\ \A w : store' = Without(TokensOf(w)) => GoTogether
  /\ store' = Empty => GoTogether
<1>1. store' = store => GoTogether
  BY DEF GoTogether, Valid
<1>2. ASSUME NEW w, store' = Without(TokensOf(w))
      PROVE  GoTogether
  <2>1. \A q \in Consents : Valid(q)' <=> Valid(q) /\ bound[q] # w
    BY <1>2 DEF Without, TokensOf, Valid
  <2> QED
    BY <2>1 DEF GoTogether
<1>3. store' = Empty => GoTogether
  BY DEF GoTogether, Empty, Valid
<1> QED
  BY <1>1, <1>2, <1>3

(* What every step does but a redemption, the revocation that follows it   *)
(* and a restart.                                                          *)
Ordinary ==
  /\ CodesGoOn
  /\ store' \in Minted
  /\ OpsGoOn
  /\ GoTogether
  /\ Rewrites \/ (Proceeds /\ store' = store)
  /\ CutInv'

(* Codes, and the handlers that leave the store alone. *)
LEMMA CodesAlone ==
  ASSUME StoreInv, CutInv, NEW q \in Consents, NEW w \in Workspaces \cup {None},
         ApproveConsent(q, w) \/ CodeExpires(q)
  PROVE  Ordinary
<1>1. CodesGoOn
  BY CodeSteps DEF ApproveConsent, CodeExpires, StoreInv
<1>2. UNCHANGED <<fileVars, store, op, cut>>
  BY DEF ApproveConsent, CodeExpires, tokenVars
<1> QED
  BY <1>1, <1>2, OpsStay, GoneTogether
     DEF Ordinary, Proceeds, StoreInv, CutInv, CodesGoOn

LEMMA RequestsAlone ==
  ASSUME StoreInv, CutInv, NEW o \in Ops,
         \/ \E q \in Consents : TokenRequest(o, q)
         \/ TokenRefused(o) \/ TokenMismatch(o)
         \/ TokenGiven(o) \/ Reply(o) \/ ReplyError(o)
         \/ OneUnbound(o) \/ WriteStep(o)
  PROVE  Ordinary
<1>1. CodesGoOn
  <2>1. CASE TokenMismatch(o)
    <3>1. op[o].con \in Consents
      BY <2>1 DEF TokenMismatch, Doing, StoreInv, OpsAreSound
    <3> QED
      BY <2>1, <3>1, CodeSteps DEF TokenMismatch, StoreInv
  <2>2. CASE ~TokenMismatch(o)
    <3>1. UNCHANGED codeVars
      BY <2>2 DEF TokenRequest, TokenRefused, TokenGiven, Reply, ReplyError, OneUnbound, WriteStep
    <3> QED
      BY <3>1, CodeSteps DEF StoreInv
  <2> QED
    BY <2>1, <2>2
<1>2. UNCHANGED <<store, cut>>
  BY DEF TokenRequest, TokenRefused, TokenMismatch, TokenGiven, Reply, ReplyError, OneUnbound,
         WriteStep, tokenVars
<1>3. Proceeds
  BY DEF Proceeds, TokenRequest, TokenRefused, TokenMismatch, TokenGiven, Reply, ReplyError,
         OneUnbound, WriteStep
<1>4. OpsGoOn
  <2>1. ASSUME NEW q \in Consents, TokenRequest(o, q)
        PROVE  OpsGoOn
    <3> DEFINE r == [Idle EXCEPT !.step = "verify", !.con = q]
    <3>1. Idle \in OpRecord
      BY DEF Idle, OpRecord, Steps
    <3>2. r \in OpRecord
      BY <3>1 DEF OpRecord, Steps
    <3>3. r.step = "verify" /\ r.con = q
      BY <3>1 DEF OpRecord
    <3>4. op' = [op EXCEPT ![o] = r]
      BY <2>1 DEF TokenRequest
    <3> HIDE DEF r
    <3> QED
      BY <3>2, <3>3, <3>4, OpChanges
  <2>2. CASE TokenRefused(o) \/ TokenMismatch(o) \/ TokenGiven(o) \/ Reply(o) \/ ReplyError(o)
    BY <2>2, OpEnds DEF TokenRefused, TokenMismatch, TokenGiven, Reply, ReplyError
  <2>3. CASE OneUnbound(o) \/ WriteStep(o)
    BY <2>3, OpsStay DEF OneUnbound, WriteStep, tokenVars
  <2> QED
    BY <2>1, <2>2, <2>3
<1> QED
  BY <1>1, <1>2, <1>3, <1>4, GoneTogether DEF Ordinary, StoreInv, CutInv, CodesGoOn

(* An unbind: the codes of w, its tokens, and the mark on what was         *)
(* approved before.                                                        *)
LEMMA CutsAlone ==
  ASSUME StoreInv, CutInv, NEW w \in Workspaces \cup {None},
         RevokeCodes(w), store' = Without(TokensOf(w)), cut' = cut \cup ApprovedFor(w)
  PROVE  /\ CodesGoOn
         /\ store' \in Minted
         /\ GoTogether
         /\ CutInv'
         /\ TokensOf(w) = {} => store' = store
<1>1. CodesGoOn
  BY CodeSteps DEF StoreInv
<1>2. \A q \in ApprovedFor(w) : q \in Consents /\ code'[q] \notin {"absent", "live"}
  BY DEF ApprovedFor, RevokeCodes, Live, StoreInv, CodesTypeOK
<1>3. CutInv'
  BY <1>1, <1>2 DEF CutInv, CodesGoOn
<1>4. store \in [Consents -> Ceilings \cup {"absent"}]
  BY DEF StoreInv, Minted, Stores
<1>5. TokensOf(w) = {} => Without(TokensOf(w)) = store
  BY <1>4 DEF Without
<1> QED
  BY <1>1, <1>3, <1>5, GoneTogether, WithoutIsMinted

LEMMA UnbindAlone ==
  ASSUME StoreInv, CutInv, NEW o \in Ops, NEW w \in Workspaces, Unbind(o, w)
  PROVE  Ordinary
<1>1. /\ CodesGoOn /\ store' \in Minted /\ GoTogether /\ CutInv'
      /\ TokensOf(w) = {} => store' = store
  BY CutsAlone DEF Unbind
<1>2. CASE TokensOf(w) = {}
  BY <1>1, <1>2, OpsStay DEF Unbind, Ordinary, Proceeds
<1>3. CASE TokensOf(w) # {}
  <2>1. op' = [op EXCEPT ![o] = [Idle EXCEPT !.step = "unbind"]] /\ BeginWrite(o)
    BY <1>3 DEF Unbind
  <2>2. OpsGoOn
    BY <2>1, OpBegins
  <2> QED
    BY <1>1, <2>1, <2>2 DEF Ordinary, Rewrites
<1> QED
  BY <1>2, <1>3

LEMMA UnbindRestAlone ==
  ASSUME StoreInv, CutInv, NEW o \in Ops, NEW captured \in SUBSET Consents,
         UnbindRest(o, captured)
  PROVE  Ordinary
<1>1. CASE captured = {}
  <2>1. RevokeAll(o)
    BY <1>1 DEF UnbindRest
  <2>2. CodesGoOn /\ CutInv'
    BY <2>1, CodeSteps DEF RevokeAll, StoreInv, CutInv, CodesGoOn
  <2>3. CASE store = Empty
    BY <2>1, <2>2, <2>3, OpEnds, GoneTogether DEF RevokeAll, Ordinary, Proceeds, StoreInv
  <2>4. CASE store # Empty
    <3>1. /\ store' = Empty /\ BeginWrite(o)
          /\ op' = [op EXCEPT ![o] = [Idle EXCEPT !.step = "unbind"]]
      BY <2>1, <2>4 DEF RevokeAll
    <3>2. Empty \in Minted
      BY DEF Empty, Minted, Stores
    <3>3. OpsGoOn
      BY <3>1, OpBegins
    <3> QED
      BY <2>2, <3>1, <3>2, <3>3, GoneTogether DEF Ordinary, Rewrites
  <2> QED
    BY <2>3, <2>4
<1>2. CASE captured # {}
  <2>0. UnbindOne(o, captured)
    BY <1>2 DEF UnbindRest
  <2>1. PICK w \in {bound[q] : q \in captured} :
          /\ RevokeCodes(w)
          /\ store' = Without(TokensOf(w))
          /\ cut' = cut \cup ApprovedFor(w)
          /\ op' = [op EXCEPT ![o] = [Idle EXCEPT !.step = "all",
                                                 !.old = {q \in captured : bound[q] # w}]]
          /\ IF TokensOf(w) = {} THEN UNCHANGED fileVars ELSE BeginWrite(o)
    BY <2>0 DEF UnbindOne
  <2>2. w \in Workspaces \cup {None}
    BY DEF StoreInv, CodesTypeOK
  <2>3. /\ CodesGoOn /\ store' \in Minted /\ GoTogether /\ CutInv'
        /\ TokensOf(w) = {} => store' = store
    BY <2>1, <2>2, CutsAlone
  <2>4. OpsGoOn
    <3> DEFINE rest == {q \in captured : bound[q] # w}
    <3>1. rest \in SUBSET Consents
      OBVIOUS
    <3>2. op' = [op EXCEPT ![o] = [Idle EXCEPT !.step = "all", !.old = rest]]
      BY <2>1
    <3> HIDE DEF rest
    <3> QED
      BY <3>1, <3>2, OpBegins
  <2> QED
    BY <2>1, <2>3, <2>4 DEF Ordinary, Proceeds, Rewrites
<1> QED
  BY <1>1, <1>2

LEMMA SetCeilingAlone ==
  ASSUME StoreInv, CutInv, NEW o \in Ops, NEW w \in Workspaces,
         NEW c \in Ceilings \ {"null"}, SetCeiling(o, w, c)
  PROVE  Ordinary
<1>1. CodesGoOn /\ CutInv'
  BY CodeSteps DEF SetCeiling, StoreInv, CutInv, CodesGoOn
<1>2. store' = [q \in Consents |-> IF q \in TokensOf(w) THEN c ELSE store[q]]
  BY DEF SetCeiling
<1>3. store' \in Stores /\ \A q \in Consents : Valid(q)' <=> Valid(q)
  BY <1>2 DEF TokensOf, Valid, Stores, Ceilings, StoreInv, Minted
<1>4. store' \in Minted /\ GoTogether
  BY <1>3 DEF Minted, GoTogether, StoreInv, Valid
<1>5. OpsGoOn /\ BeginWrite(o)
  BY OpBegins DEF SetCeiling
<1> QED
  BY <1>1, <1>4, <1>5 DEF Ordinary, Rewrites

LEMMA OrdinaryKeeps ==
  ASSUME TokensInv, Ordinary
  PROVE  TokensInv'
<1>1. Minted \subseteq Minted'
  BY MintedGrows DEF Ordinary
<1>2. FileTypeOK(Minted)'
  BY <1>1, FileKept DEF TokensInv, StoreInv, Ordinary
<1>3. StoreInv'
  BY <1>1, <1>2, OpsKept DEF TokensInv, StoreInv, Ordinary, CodesGoOn, OpsGoOn
<1>4. TakeoverInv'
  BY TakeoversKept DEF TokensInv, Ordinary
<1>5. DiskInv'
  BY DiskKept DEF TokensInv, StoreInv, Ordinary
<1> QED
  BY <1>3, <1>4, <1>5 DEF TokensInv, Ordinary

(* A restart takes the store from the file, where everything was minted.   *)
LEMMA RestartKeeps ==
  ASSUME TokensInv, Restart
  PROVE  TokensInv'
<1>1. CodesGoOn
  BY CodeSteps DEF TokensInv, StoreInv
<1>2. Minted \subseteq Minted'
  BY <1>1, MintedGrows
<1>3. FileTypeOK(Minted)'
  BY <1>2, FileKept DEF TokensInv, StoreInv, Restart
<1>4. store' \in Minted'
  BY <1>2 DEF Restart, TokensInv, StoreInv, FileTypeOK
<1>5. \A o \in Ops : op'[o] = Idle
  BY DEF Restart
<1>6. op' \in [Ops -> OpRecord]
  BY DEF Restart, Idle, OpRecord, Steps
<1>7. StoreInv'
  BY <1>1, <1>3, <1>4, <1>5, <1>6 DEF StoreInv, OpsAreSound, Minting, Doing, Idle, CodesGoOn
<1>8. TakeoverInv'
  BY <1>5 DEF TakeoverInv, MintsOnce, OneTakeoverYields, Nested, Spared, Doing, Idle
<1>9. DiskInv'
  <2>1. disk' = disk /\ disk.state = "whole" /\ store' = disk.data
        /\ write' = [o \in Ops |-> NoWrite]
    BY DEF Restart, AbandonWrites
  <2>2. disk = [state |-> "whole", data |-> disk.data]
    BY <2>1 DEF TokensInv, StoreInv, FileTypeOK
  <2> QED
    BY <2>1, <2>2 DEF DiskInv, AloneInv, DiskIsCurrent, Stage, NoWrite
<1>10. CutInv'
  BY <1>1 DEF TokensInv, CutInv, CodesGoOn, Restart
<1> QED
  BY <1>7, <1>8, <1>9, <1>10 DEF TokensInv

LEMMA TakeoverStepKeeps ==
  ASSUME TokensInv, NEW o \in Ops, TokenMinted(o) \/ RevokeOld(o)
  PROVE  TokensInv'
<1>1. CodesGoOn
  <2>1. Doing(o, "verify") => op[o].con \in Consents
    BY DEF TokensInv, StoreInv, OpsAreSound, Doing
  <2> QED
    BY <2>1, CodeSteps DEF TokenMinted, RevokeOld, TokensInv, StoreInv
<1>2. Minted \subseteq Minted'
  BY <1>1, MintedGrows
<1>3. Rewrites
  BY DEF TokenMinted, RevokeOld, Rewrites
<1>4. FileTypeOK(Minted)' /\ DiskInv'
  BY <1>2, <1>3, FileKept, DiskKept DEF TokensInv, StoreInv
<1>5. CutInv'
  BY <1>1 DEF TokensInv, CutInv, CodesGoOn, TokenMinted, RevokeOld
<1>6. CASE TokenMinted(o)
  BY <1>1, <1>4, <1>5, <1>6, TokenMintedKeeps DEF TokensInv, StoreInv, CodesGoOn
<1>7. CASE RevokeOld(o)
  <2>1. store' \in Minted'
    BY <1>2, <1>7, WithoutIsMinted DEF RevokeOld, TokensInv
  <2>2. op' \in [Ops -> OpRecord]
    <3>1. [op[o] EXCEPT !.step = "revoke"] \in OpRecord /\ op \in [Ops -> OpRecord]
      BY DEF TokensInv, StoreInv, OpRecord, Steps
    <3> QED
      BY <1>7, <3>1 DEF RevokeOld
  <2> QED
    BY <1>1, <1>4, <1>5, <1>7, <2>1, <2>2, RevokeOldKeeps DEF TokensInv, StoreInv, CodesGoOn
<1> QED
  BY <1>6, <1>7

-----------------------------------------------------------------------------
(* The steps.                                                              *)

LEMMA KindsOfSteps ==
  ASSUME TokensInv, [TokensNext]_oauthVars
  PROVE  \/ Ordinary
         \/ Restart
         \/ \E o \in Ops : TokenMinted(o) \/ RevokeOld(o)
<1> USE DEF TokensInv
<1>1. CASE UNCHANGED oauthVars
  <2>1. UNCHANGED codeVars /\ UNCHANGED <<fileVars, store, op, cut>>
    BY <1>1 DEF oauthVars, tokenVars
  <2>2. CodesGoOn
    BY <2>1, CodeSteps DEF StoreInv
  <2> QED
    BY <2>1, <2>2, OpsStay, GoneTogether DEF Ordinary, Proceeds, StoreInv, CutInv, codeVars
<1>2. ASSUME NEW q \in Consents,
             CodeExpires(q) \/ \E w \in Workspaces \cup {None} : ApproveConsent(q, w)
      PROVE  Ordinary
  BY <1>2, CodesAlone
<1>3. ASSUME NEW o \in Ops,
             \/ \E q \in Consents : TokenRequest(o, q)
             \/ TokenRefused(o) \/ TokenMismatch(o)
             \/ TokenGiven(o) \/ Reply(o) \/ ReplyError(o)
             \/ OneUnbound(o) \/ WriteStep(o)
      PROVE  Ordinary
  BY <1>3, RequestsAlone
<1>4. ASSUME NEW o \in Ops, NEW w \in Workspaces,
             Unbind(o, w) \/ \E c \in Ceilings \ {"null"} : SetCeiling(o, w, c)
      PROVE  Ordinary
  BY <1>4, UnbindAlone, SetCeilingAlone
<1>5. ASSUME NEW o \in Ops, UnbindAll(o) \/ UnbindNext(o)
      PROVE  Ordinary
  <2>1. {q \in Consents : Valid(q) /\ bound[q] # None} \in SUBSET Consents
    OBVIOUS
  <2>2. op[o].old \in SUBSET Consents
    BY DEF StoreInv, OpRecord
  <2>3. PICK captured \in SUBSET Consents : UnbindRest(o, captured)
    BY <1>5, <2>1, <2>2 DEF UnbindAll, UnbindNext
  <2> QED
    BY <2>3, UnbindRestAlone
<1> QED
  BY <1>1, <1>2, <1>3, <1>4, <1>5 DEF TokensNext

(* No step leaves the invariant. *)
LEMMA TokensInvStep == TokensInv /\ [TokensNext]_oauthVars => TokensInv'
BY KindsOfSteps, OrdinaryKeeps, RestartKeeps, TakeoverStepKeeps

LEMMA TokensInvInit == TokensInit => TokensInv
<1> SUFFICES ASSUME TokensInit PROVE TokensInv
  OBVIOUS
<1>1. Empty \in Minted
  BY DEF Empty, Minted, Stores
<1>2. FileTypeOK(Minted)
  BY <1>1 DEF TokensInit, FileInit, NoWrite, FileTypeOK
<1>3. Idle \in OpRecord /\ Idle.step = "idle"
  BY DEF Idle, OpRecord, Steps
<1>4. op = [o \in Ops |-> Idle]
  BY DEF TokensInit
<1>5. StoreInv
  BY <1>1, <1>2, <1>3, <1>4
     DEF StoreInv, OpsAreSound, Minting, Doing, CodesTypeOK, CodesInit, TokensInit
<1>6. TakeoverInv
  BY <1>3, <1>4 DEF TakeoverInv, MintsOnce, OneTakeoverYields, Nested, Spared, Doing
<1>7. CutInv
  BY DEF TokensInit, CutInv
<1>8. DiskInv
  BY DEF TokensInit, FileInit, NoWrite, DiskInv, AloneInv, DiskIsCurrent, Stage
<1> QED
  BY <1>5, <1>6, <1>7, <1>8 DEF TokensInv

(* The four parts hold in every state of every run of the daemon.          *)
THEOREM TokensInvariant == TokensSpec => []TokensInv
<1>1. TokensInit => TokensInv
  BY TokensInvInit
<1>2. TokensInv /\ [TokensNext]_oauthVars => TokensInv'
  BY TokensInvStep
<1> QED
  BY <1>1, <1>2, PTL DEF TokensSpec

-----------------------------------------------------------------------------
(* Every variable keeps its type: tokens.json never holds anything but a   *)
(* store, nothing or text that does not parse.                             *)
THEOREM TypeCorrect == TokensSpec => []TokensTypeOK
<1>1. ASSUME TokensInv
      PROVE  TokensTypeOK
  <2>1. Minted \subseteq Stores
    BY DEF Minted
  <2>2. FileTypeOK(Stores)
    BY <1>1, <2>1 DEF TokensInv, StoreInv, FileTypeOK
  <2> QED
    BY <1>1, <2>1, <2>2 DEF TokensInv, StoreInv, CutInv, TokensTypeOK, OpRecord
<1>2. TokensInv => TokensTypeOK
  BY <1>1
<1> QED
  BY <1>2, TokensInvariant, PTL

(* A code is redeemed by one request at most, whatever the number of       *)
(* requests that present it at once, and there is no token without one.    *)
THEOREM CodeMintsOnceHolds == TokensSpec => []CodeMintsOnce
<1>1. ASSUME TokensInv
      PROVE  CodeMintsOnce
  BY <1>1, ValidIsRedeemed DEF TokensInv, TakeoverInv, MintsOnce, CodeMintsOnce, Minting
<1>2. TokensInv => CodeMintsOnce
  BY <1>1
<1> QED
  BY <1>2, TokensInvariant, PTL

(* Of two takeovers of a workspace exactly one revokes the other's token. *)
THEOREM OneTakeoverYieldsHolds == TokensSpec => []OneTakeoverYields
<1>1. TokensInv => OneTakeoverYields
  BY DEF TokensInv, TakeoverInv
<1> QED
  BY <1>1, TokensInvariant, PTL

(* A write that met no other leaves the store in tokens.json.             *)
THEOREM DiskIsCurrentHolds == TokensSpec => []DiskIsCurrent
<1>1. TokensInv => DiskIsCurrent
  BY DEF TokensInv, DiskInv
<1> QED
  BY <1>1, TokensInvariant, PTL

(* Only an unbind, or a restart, can leave a bound workspace without a     *)
(* token; the takeovers of it, however many there are, cannot.             *)
THEOREM TakeoverNeverUnbindsHolds == TokensSpec => TakeoverNeverUnbinds
<1> DEFINE Keeps(w) ==
             TokensOf(w) # {} =>
               \/ TokensOf(w)' # {}
               \/ Restart
               \/ \E o \in Ops : Unbind(o, w) \/ UnbindAll(o) \/ UnbindNext(o)
<1>1. ASSUME TokensInv, [TokensNext]_oauthVars, NEW w \in Workspaces
      PROVE  Keeps(w)
  <2>1. SUFFICES ASSUME NEW q \in Consents, Valid(q), bound[q] = w,
                        ~Restart,
                        \A o \in Ops : ~Unbind(o, w) /\ ~UnbindAll(o) /\ ~UnbindNext(o)
                 PROVE  \E r \in Consents : Valid(r)' /\ bound'[r] = w
    BY DEF TokensOf
  <2>2. /\ \A r \in Consents : Valid(r) => code[r] = "redeemed"
        /\ w # None
    BY <1>1, ValidIsRedeemed, AuthCodesAssumption DEF TokensInv
  <2>3. CodesGoOn
    <3>1. \A o \in Ops : TokenMinted(o) \/ RevokeOld(o) => CodesGoOn
      <4>1. \A o \in Ops : TokenMinted(o) => op[o].con \in Consents
        BY <1>1 DEF TokensInv, StoreInv, OpsAreSound, Doing, TokenMinted
      <4> QED
        BY <1>1, <4>1, CodeSteps DEF TokenMinted, RevokeOld, TokensInv, StoreInv
    <3> QED
      BY <1>1, <2>1, <3>1, KindsOfSteps DEF Ordinary
  <2>4. \A r \in Consents : Valid(r) => bound'[r] = bound[r]
    BY <2>2, <2>3 DEF CodesGoOn
  <2>5. ASSUME NEW o \in Ops, RevokeOld(o)
        PROVE  \E r \in Consents : Valid(r)' /\ bound'[r] = w
    <3>1. \A r \in Consents : Valid(r)' <=> Valid(r) /\ r \notin op[o].old
      BY <2>5 DEF RevokeOld, Without, Valid
    <3>2. CASE q \notin op[o].old
      BY <2>1, <2>4, <3>1, <3>2
    <3>3. CASE q \in op[o].old
      <4>1. Doing(o, "mint") /\ bound[op[o].con] = w
        BY <1>1, <2>1, <2>5, <3>3 DEF RevokeOld, TokensInv, StoreInv, OpsAreSound
      <4>2. PICK r \in Consents : Valid(r) /\ bound[r] = w /\ r \notin op[o].old
        BY <1>1, <2>1, <3>3, <4>1 DEF TokensInv, TakeoverInv, Spared
      <4> QED
        BY <2>4, <3>1, <4>2
    <3> QED
      BY <3>2, <3>3
  <2>6. ASSUME NEW o \in Ops, NEW v \in Workspaces \ {w}, Unbind(o, v)
        PROVE  Valid(q)'
    BY <2>1, <2>6 DEF Unbind, Without, TokensOf, Valid
  <2>7. ASSUME NEW o \in Ops, NEW v \in Workspaces, NEW c \in Ceilings \ {"null"},
               SetCeiling(o, v, c)
        PROVE  Valid(q)'
    BY <2>1, <2>7 DEF SetCeiling, TokensOf, Valid, Ceilings
  <2>8. ASSUME NEW o \in Ops, TokenMinted(o)
        PROVE  Valid(q)'
    <3>1. op[o].con \in Consents /\ store \in [Consents -> Ceilings \cup {"absent"}]
      BY <1>1, <2>8 DEF TokensInv, StoreInv, OpsAreSound, Doing, TokenMinted, Minted, Stores
    <3> QED
      BY <2>1, <2>8, <3>1 DEF TokenMinted, Valid
  <2>9. ASSUME store' = store
        PROVE  Valid(q)'
    BY <2>1, <2>9 DEF Valid
  <2>10. CASE UNCHANGED oauthVars
    BY <2>1, <2>4, <2>9, <2>10 DEF oauthVars, tokenVars
  <2>11. CASE TokensNext
    <3>1. \/ store' = store
          \/ \E o \in Ops : \/ RevokeOld(o) \/ TokenMinted(o)
                            \/ \E v \in Workspaces \ {w} : Unbind(o, v)
                            \/ \E v \in Workspaces : \E c \in Ceilings \ {"null"} :
                                 SetCeiling(o, v, c)
      BY <2>1, <2>11
         DEF TokensNext, ApproveConsent, CodeExpires, TokenRequest, TokenRefused, TokenMismatch,
             TokenGiven, Reply, ReplyError, OneUnbound, WriteStep, tokenVars
    <3> QED
      BY <2>1, <2>4, <2>5, <2>6, <2>7, <2>8, <2>9, <3>1
  <2> QED
    BY <1>1, <2>10, <2>11
<1>2. TokensInv /\ [TokensNext]_oauthVars => [\A w \in Workspaces : Keeps(w)]_oauthVars
  BY <1>1
<1> QED
  BY <1>2, TokensInvariant, PTL DEF TokensSpec, TakeoverNeverUnbinds

(* After an unbind no code of the workspace can be redeemed, and no token  *)
(* of it becomes valid again, but for what a restart finds on the disk.    *)
THEOREM UnbindIsCompleteHolds == TokensSpec => UnbindIsComplete
<1> DEFINE NoneIsLive == \A q \in cut : ~Live(q)
           StaysCut == \A q \in cut : ~Valid(q) => ~Valid(q)' \/ Restart
<1>1. TokensInv => NoneIsLive
  BY DEF TokensInv, CutInv, Live
<1>2. ASSUME TokensInv, [TokensNext]_oauthVars
      PROVE  StaysCut
  <2>1. SUFFICES ASSUME NEW q \in cut, ~Valid(q), ~Restart
                 PROVE  ~Valid(q)'
    OBVIOUS
  <2>2. q \in Consents /\ ~Live(q)
    BY <1>1, <1>2 DEF TokensInv, CutInv
  <2>3. CASE Ordinary
    BY <2>1, <2>2, <2>3 DEF Ordinary, GoTogether
  <2>4. ASSUME NEW o \in Ops, RevokeOld(o)
        PROVE  ~Valid(q)'
    BY <2>1, <2>2, <2>4 DEF RevokeOld, Without, Valid
  <2>5. ASSUME NEW o \in Ops, TokenMinted(o)
        PROVE  ~Valid(q)'
    <3>1. op[o].con # q
      BY <2>2, <2>5 DEF TokenMinted, Redeem
    <3>2. store \in [Consents -> Ceilings \cup {"absent"}]
      BY <1>2 DEF TokensInv, StoreInv, Minted, Stores
    <3> QED
      BY <2>1, <2>2, <2>5, <3>1, <3>2 DEF TokenMinted, Valid
  <2> QED
    BY <1>2, <2>1, <2>3, <2>4, <2>5, KindsOfSteps
<1>3. TokensInv /\ [TokensNext]_oauthVars => [StaysCut]_oauthVars
  BY <1>2
<1> QED
  BY <1>1, <1>3, TokensInvariant, PTL DEF TokensSpec, UnbindIsComplete
=============================================================================
