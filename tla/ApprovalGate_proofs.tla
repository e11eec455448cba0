------------------------- MODULE ApprovalGate_proofs -------------------------
(***************************************************************************)
(* Nothing runs without the operator's leave: ApprovedByOperator and       *)
(* PendingIsUnanswered of ApprovalGate are invariants, for any number of   *)
(* windows, folders, sessions and delegations.                             *)
(*                                                                         *)
(* ApprovedByOperator is not inductive: a call that a bypass lets through  *)
(* has an approval behind it only if every bypass has, and that approval   *)
(* stays only if no answer, timer or disconnect reaches a request that is  *)
(* over, which is what PendingIsUnanswered says.                           *)
(***************************************************************************)
EXTENDS ApprovalGate, TLAPS

(* q is an operator's approval that covers other calls of its session and  *)
(* folder.                                                                 *)
Covers(q) ==
  /\ Phase(q) = "approved" /\ req[q].by = "operator"
  /\ req[q].answer = "approve_session" \/ req[q].gran = "task"

(* Every bypass goes back to such an approval. *)
BypassIsEarned ==
  \A b \in bypass : \E q \in Requests :
    Covers(q) /\ b = <<req[q].ses, req[q].path>>

(* Every approved call goes back to an approval, its own or another's. *)
ApprovalIsEarned ==
  \A r \in Requests :
    Phase(r) = "approved" =>
      \/ req[r].ceiling = "auto"
      \/ req[r].answer \in {"approve", "approve_session"}
      \/ \E q \in Requests \ {r} :
           Covers(q) /\ req[q].ses = req[r].ses /\ req[q].path = req[r].path

IInv == TypeOK /\ PendingIsUnanswered /\ BypassIsEarned /\ ApprovalIsEarned

(* A request that is over. *)
Over(r) == Phase(r) \in {"approved", "denied", "rejected"}

-----------------------------------------------------------------------------
(* What the operators of the gate return.                                  *)

LEMMA CallerIsNeverLessCautious ==
  ASSUME NEW ceiling \in Granularities,
         NEW asked \in Granularities \cup {"unspecified"}
  PROVE  /\ Resolved(ceiling, asked) \in Granularities
         /\ Resolved(ceiling, asked) = "auto" => ceiling = "auto"
BY SMT DEF Resolved, Granularities, Caution

LEMMA SettleType ==
  ASSUME NEW rec \in RequestRecord, NEW a \in {"rejected"} \cup Decisions
  PROVE  /\ Settle(rec, a) \in RequestRecord
         /\ Settle(rec, a).phase \in {"approved", "denied", "rejected"}
         /\ Settle(rec, a).answer = a
         /\ Settle(rec, a).ses = rec.ses /\ Settle(rec, a).path = rec.path
         /\ Settle(rec, a).gran = rec.gran
         /\ Settle(rec, a).phase = "approved" => a \in {"approve", "approve_session"}
         /\ a \in {"approve", "approve_session"} =>
              Settle(rec, a).phase = "approved" /\ Settle(rec, a).by = "operator"
<1> DEFINE Outcome(phase, by) == [rec EXCEPT !.answer = a, !.phase = phase, !.by = by]
<1>1. ASSUME NEW phase \in {"approved", "denied", "rejected"}, NEW by \in {"nobody", "operator"}
      PROVE  Outcome(phase, by) \in RequestRecord
  BY Zenon DEF RequestRecord
<1>2. ASSUME NEW phase, NEW by
      PROVE  /\ Outcome(phase, by).phase = phase /\ Outcome(phase, by).by = by
             /\ Outcome(phase, by).answer = a
             /\ Outcome(phase, by).ses = rec.ses /\ Outcome(phase, by).path = rec.path
             /\ Outcome(phase, by).gran = rec.gran
  BY SMT DEF RequestRecord
<1> HIDE DEF Outcome
<1>3. CASE a = "rejected"
  <2>1. Settle(rec, a) = Outcome("rejected", "nobody")
    BY <1>3 DEF Settle, Outcome
  <2> QED
    BY <1>1, <1>2, <1>3, <2>1
<1>4. CASE a = "deny"
  <2>1. Settle(rec, a) = Outcome("denied", "operator")
    BY <1>4 DEF Settle, Outcome
  <2> QED
    BY <1>1, <1>2, <1>4, <2>1
<1>5. CASE a \in {"approve", "approve_session"}
  <2>1. Settle(rec, a) = Outcome("approved", "operator")
    BY <1>5 DEF Settle, Outcome
  <2> QED
    BY <1>1, <1>2, <1>5, <2>1
<1> QED
  BY <1>3, <1>4, <1>5 DEF Decisions

(* The answer of a promise that has settled is not "none", whether its     *)
(* request looks at it now or later.                                       *)
LEMMA AnsweredType ==
  ASSUME NEW rec \in RequestRecord, rec.phase \in {"sending", "asked"},
         NEW a \in {"rejected"} \cup Decisions
  PROVE  /\ Answered(rec, a) \in RequestRecord
         /\ Answered(rec, a).answer = a
         /\ Answered(rec, a).phase = "approved" => a \in {"approve", "approve_session"}
         /\ Answered(rec, a).phase \in {"sending", "approved", "denied", "rejected"}
<1>1. CASE rec.phase = "sending"
  BY <1>1, SMT DEF Answered, RequestRecord, Decisions
<1>2. CASE rec.phase # "sending"
  BY <1>2, SettleType DEF Answered
<1> QED
  BY <1>1, <1>2

LEMMA DecisionIsExplicit ==
  ASSUME NEW choice \in Choices
  PROVE  DecisionOf(choice) \in Decisions
BY DEF DecisionOf, Choices, Decisions

-----------------------------------------------------------------------------
(* The windows do what RegistryTypeOK allows.                              *)

LEMMA RegistryTyped ==
  ASSUME RegistryTypeOK, NEW s \in Sockets, Close(s) \/ WindowStep(s)
  PROVE  RegistryTypeOK'
<1>1. CASE Close(s)
  BY <1>1, SMT DEF RegistryTypeOK, Close
<1>2. CASE Connect(s) \/ Hello(s)
  BY <1>2, SMT DEF RegistryTypeOK, Connect, Hello
<1>3. ASSUME NEW p \in Paths,
             Register(s, p) \/ ConfirmDone(s, p) \/ ConfirmFails(s, p) \/ Deregister(s, p)
      PROVE  RegistryTypeOK'
  BY <1>3, SMT DEF RegistryTypeOK, Register, ConfirmDone, ConfirmFails, Deregister
<1>4. ASSUME NEW p \in Paths, ConfirmTrust(s, p)
      PROVE  RegistryTypeOK'
  BY <1>4, SMT DEF RegistryTypeOK, ConfirmTrust
<1> QED
  BY <1>1, <1>2, <1>3, <1>4 DEF WindowStep

-----------------------------------------------------------------------------
(* What is over stays; so what covers, and what is earned, stays.          *)

LEMMA EarnedStays ==
  ASSUME TypeOK, BypassIsEarned, ApprovalIsEarned,
         \A r \in Requests : Over(r) => req'[r] = req[r],
         \A b \in bypass' : \/ b \in bypass
                            \/ \E q \in Requests : Covers(q)' /\ b = <<req'[q].ses, req'[q].path>>,
         \A r \in Requests :
           req'[r].phase = "approved" /\ ~Over(r) =>
             \/ req'[r].ceiling = "auto"
             \/ req'[r].answer \in {"approve", "approve_session"}
             \/ <<req'[r].ses, req'[r].path>> \in bypass
  PROVE  BypassIsEarned' /\ ApprovalIsEarned'
<1>1. ASSUME NEW q \in Requests, Covers(q)
      PROVE  Covers(q)' /\ req'[q] = req[q]
  BY <1>1 DEF Covers, Over, Phase
<1>2. BypassIsEarned'
  BY <1>1 DEF BypassIsEarned
<1>3. ASSUME NEW r \in Requests, req'[r].phase = "approved"
      PROVE  \/ req'[r].ceiling = "auto"
             \/ req'[r].answer \in {"approve", "approve_session"}
             \/ \E q \in Requests \ {r} :
                  Covers(q)' /\ req'[q].ses = req'[r].ses /\ req'[q].path = req'[r].path
  <2>1. CASE Over(r)
    <3>1. req'[r] = req[r] /\ Phase(r) = "approved"
      BY <1>3, <2>1 DEF Phase
    <3> QED
      BY <3>1, <1>1 DEF ApprovalIsEarned
  <2>2. CASE ~Over(r) /\ <<req'[r].ses, req'[r].path>> \in bypass
    <3>1. PICK q \in Requests : Covers(q) /\ <<req'[r].ses, req'[r].path>> = <<req[q].ses, req[q].path>>
      BY <2>2 DEF BypassIsEarned
    <3>2. q # r
      BY <3>1, <2>2 DEF Covers, Over
    <3>3. req'[q].ses = req'[r].ses /\ req'[q].path = req'[r].path
      BY <3>1, <1>1
    <3> QED
      BY <3>1, <3>2, <3>3, <1>1
  <2> QED
    BY <1>3, <2>1, <2>2
<1> QED
  BY <1>2, <1>3 DEF ApprovalIsEarned, Phase

-----------------------------------------------------------------------------
(* The actions.                                                            *)

LEMMA AskingType ==
  ASSUME TypeOK, NEW r \in Requests, NEW ses \in Sessions, NEW p \in Paths,
         NEW ceiling \in Granularities, NEW asked \in Granularities \cup {"unspecified"}
  PROVE  LET rec == Asking(r, ses, p, ceiling, asked) IN
         /\ rec \in RequestRecord
         /\ rec.phase = Phase(r) /\ rec.answer = req[r].answer
         /\ rec.ceiling = ceiling
         /\ rec.gran = "auto" => ceiling = "auto"
<1>1. req[r] \in RequestRecord
  BY DEF TypeOK
<1>2. Resolved(ceiling, asked) \in Granularities
  BY CallerIsNeverLessCautious
<1>3. Asking(r, ses, p, ceiling, asked) \in RequestRecord
  BY <1>1, <1>2, Zenon DEF Asking, RequestRecord
<1> QED
  BY <1>1, <1>3, CallerIsNeverLessCautious, SMT DEF Asking, RequestRecord, Phase

LEMMA CallKeeps ==
  ASSUME IInv, NEW r \in Requests, NEW ses \in Sessions, NEW p \in Paths,
         NEW ceiling \in Granularities, NEW asked \in Granularities \cup {"unspecified"},
         Call(r, ses, p, ceiling, asked)
  PROVE  IInv'
<1> DEFINE rec == Asking(r, ses, p, ceiling, asked)
<1>1. /\ rec \in RequestRecord
      /\ rec.phase = "new"
      /\ rec.gran = "auto" => rec.ceiling = "auto"
  BY AskingType DEF IInv, Call
<1>2. Phase(r) = "new" /\ r \notin pending
  BY DEF Call, IInv, PendingIsUnanswered
<1> HIDE DEF rec
<1>3. CASE ApproveUnasked(r, rec)
  <2> DEFINE by == IF rec.gran = "auto" THEN "granularity" ELSE "bypass"
  <2> DEFINE new == [rec EXCEPT !.phase = "approved", !.by = by]
  <2>1. new \in RequestRecord
    <3>1. by \in {"nobody", "granularity", "bypass", "operator"}
      OBVIOUS
    <3> HIDE DEF by
    <3> QED
      BY <1>1, <3>1, Zenon DEF RequestRecord
  <2>2. /\ new.phase = "approved" /\ new.ceiling = rec.ceiling
        /\ new.ses = rec.ses /\ new.path = rec.path
    BY <1>1, SMT DEF RequestRecord
  <2>3. req' = [req EXCEPT ![r] = new] /\ UNCHANGED <<registryVars, pending, bypass, stopped>>
    BY <1>3 DEF ApproveUnasked
  <2>4. new.ceiling = "auto" \/ <<new.ses, new.path>> \in bypass
    BY <1>1, <1>3, <2>2 DEF ApproveUnasked
  <2> HIDE DEF new
  <2>5. TypeOK'
    BY <2>1, <2>3 DEF IInv, TypeOK, RegistryTypeOK, registryVars
  <2>6. PendingIsUnanswered'
    BY <1>2, <2>2, <2>3 DEF IInv, TypeOK, PendingIsUnanswered, Phase
  <2>7. BypassIsEarned' /\ ApprovalIsEarned'
    BY <1>2, <2>2, <2>3, <2>4, EarnedStays DEF IInv, TypeOK, Over, Phase
  <2> QED
    BY <2>5, <2>6, <2>7 DEF IInv
<1>4. CASE RejectOffline(r, rec)
  <2> DEFINE new == Settle(rec, "rejected")
  <2>1. new \in RequestRecord /\ new.phase \notin {"approved", "sending", "asked"}
    <3>1. /\ new \in RequestRecord /\ new.phase \in {"approved", "denied", "rejected"}
          /\ new.phase = "approved" => "rejected" \in {"approve", "approve_session"}
      BY <1>1, SettleType
    <3> QED
      BY <3>1
  <2>2. req' = [req EXCEPT ![r] = new] /\ UNCHANGED <<registryVars, pending, bypass, stopped>>
    BY <1>4 DEF RejectOffline
  <2> HIDE DEF new
  <2>3. TypeOK'
    BY <2>1, <2>2 DEF IInv, TypeOK, RegistryTypeOK, registryVars
  <2>4. PendingIsUnanswered'
    BY <1>2, <2>1, <2>2 DEF IInv, TypeOK, PendingIsUnanswered, Phase
  <2>5. BypassIsEarned' /\ ApprovalIsEarned'
    BY <1>2, <2>1, <2>2, EarnedStays DEF IInv, TypeOK, Over, Phase
  <2> QED
    BY <2>3, <2>4, <2>5 DEF IInv
<1>5. CASE AskOperator(r, rec)
  <2> DEFINE answer == IF stopped THEN "rejected" ELSE "none"
  <2> DEFINE to == active[rec.path]
  <2> DEFINE new == [rec EXCEPT !.phase = "sending", !.to = to, !.answer = answer]
  <2>1. answer \in {"none", "rejected"} /\ (answer = "none" <=> ~stopped)
    OBVIOUS
  <2>2. to \in Sockets \cup {None}
    BY <1>1 DEF IInv, TypeOK, RegistryTypeOK, RequestRecord
  <2>3. /\ req' = [req EXCEPT ![r] = new] /\ UNCHANGED <<registryVars, bypass, stopped>>
        /\ pending' = IF stopped THEN pending ELSE pending \cup {r}
    BY <1>5 DEF AskOperator
  <2> HIDE DEF answer, to
  <2>4. new \in RequestRecord
    BY <1>1, <2>1, <2>2, Zenon DEF RequestRecord
  <2>5. new.phase = "sending" /\ new.answer = answer
    BY <1>1, SMT DEF RequestRecord
  <2> HIDE DEF new
  <2>6. TypeOK'
    BY <2>3, <2>4 DEF IInv, TypeOK, RegistryTypeOK, registryVars
  <2>7. PendingIsUnanswered'
    BY <1>2, <2>1, <2>3, <2>5 DEF IInv, TypeOK, PendingIsUnanswered, Phase
  <2>8. BypassIsEarned' /\ ApprovalIsEarned'
    BY <1>2, <2>3, <2>5, EarnedStays DEF IInv, TypeOK, Over, Phase
  <2> QED
    BY <2>6, <2>7, <2>8 DEF IInv
<1> QED
  BY <1>3, <1>4, <1>5 DEF Call, rec

LEMMA SendDoneKeeps ==
  ASSUME IInv, NEW r \in Requests, SendDone(r)
  PROVE  IInv'
<1> DEFINE a == req[r].answer
<1>1. /\ req[r] \in RequestRecord /\ Phase(r) = "sending"
      /\ a \in {"none", "rejected"} \cup Decisions
  BY DEF IInv, TypeOK, SendDone, RequestRecord
<1>2. UNCHANGED <<registryVars, pending, stopped>>
  BY DEF SendDone
<1>3. CASE a = "none"
  <2> DEFINE new == [req[r] EXCEPT !.phase = "asked"]
  <2>1. req' = [req EXCEPT ![r] = new] /\ bypass' = bypass
    BY <1>3 DEF SendDone, Granted
  <2>2. new \in RequestRecord
    BY <1>1, Zenon DEF RequestRecord
  <2>3. new.phase = "asked" /\ new.answer = "none"
    BY <1>1, <1>3, SMT DEF RequestRecord
  <2> HIDE DEF new
  <2>4. TypeOK'
    BY <1>2, <2>1, <2>2 DEF IInv, TypeOK, RegistryTypeOK, registryVars
  <2>5. PendingIsUnanswered'
    BY <1>1, <1>2, <1>3, <2>1, <2>3 DEF IInv, TypeOK, PendingIsUnanswered, Phase
  <2>6. BypassIsEarned' /\ ApprovalIsEarned'
    BY <1>1, <2>1, <2>3, EarnedStays DEF IInv, TypeOK, Over, Phase
  <2> QED
    BY <2>4, <2>5, <2>6 DEF IInv
<1>4. CASE a # "none"
  <2> DEFINE new == Settle(req[r], a)
  <2>1. req' = [req EXCEPT ![r] = new] /\ bypass' = bypass \cup Granted(req[r], a)
    BY <1>4 DEF SendDone
  <2>2. /\ new \in RequestRecord /\ new.phase \in {"approved", "denied", "rejected"}
        /\ new.answer = a /\ new.gran = req[r].gran
        /\ new.ses = req[r].ses /\ new.path = req[r].path
        /\ new.phase = "approved" => a \in {"approve", "approve_session"}
        /\ a \in {"approve", "approve_session"} => new.phase = "approved" /\ new.by = "operator"
    <3>1. a \in {"rejected"} \cup Decisions
      BY <1>1, <1>4
    <3> HIDE DEF a
    <3> QED
      BY <1>1, <3>1, SettleType
  <2> HIDE DEF new
  <2>3. TypeOK'
    <3>1. Granted(req[r], a) \subseteq Sessions \X Paths
      BY <1>1 DEF Granted, RequestRecord
    <3> QED
      BY <1>2, <2>1, <2>2, <3>1 DEF IInv, TypeOK, RegistryTypeOK, registryVars
  <2>4. PendingIsUnanswered'
    BY <1>1, <1>2, <1>4, <2>1, <2>2 DEF IInv, TypeOK, PendingIsUnanswered, Phase
  <2>5. req'[r] = new
    BY <2>1 DEF IInv, TypeOK
  <2>6. ASSUME NEW b \in Granted(req[r], a)
        PROVE  Covers(r)' /\ b = <<req'[r].ses, req'[r].path>>
    BY <2>2, <2>5, <2>6 DEF Granted, Covers, Phase
  <2>7. \A b \in bypass' : \/ b \in bypass
                           \/ \E q \in Requests : Covers(q)' /\ b = <<req'[q].ses, req'[q].path>>
    BY <2>1, <2>6
  <2>8. \A q \in Requests : Over(q) => req'[q] = req[q]
    BY <1>1, <2>1 DEF IInv, TypeOK, Over
  <2>9. \A q \in Requests :
          req'[q].phase = "approved" /\ ~Over(q) => req'[q].answer \in {"approve", "approve_session"}
    BY <2>1, <2>2, <2>5 DEF IInv, TypeOK, Over, Phase
  <2>10. BypassIsEarned' /\ ApprovalIsEarned'
    BY <2>7, <2>8, <2>9, EarnedStays DEF IInv
  <2> QED
    BY <2>3, <2>4, <2>10 DEF IInv
<1> QED
  BY <1>3, <1>4

LEMMA SendFailsKeeps ==
  ASSUME IInv, NEW r \in Requests, SendFails(r)
  PROVE  IInv'
<1> DEFINE new == Settle(req[r], "rejected")
<1>1. Phase(r) = "sending" /\ UNCHANGED <<registryVars, bypass, stopped>>
  BY DEF SendFails
<1>2. req' = [req EXCEPT ![r] = new] /\ pending' = pending \ {r}
  BY DEF SendFails
<1>3. new \in RequestRecord /\ new.phase \notin {"approved", "sending", "asked"}
  <2>1. /\ new \in RequestRecord /\ new.phase \in {"approved", "denied", "rejected"}
        /\ new.phase = "approved" => "rejected" \in {"approve", "approve_session"}
    BY SettleType DEF IInv, TypeOK
  <2> QED
    BY <2>1
<1> HIDE DEF new
<1>4. TypeOK'
  BY <1>1, <1>2, <1>3 DEF IInv, TypeOK, RegistryTypeOK, registryVars
<1>5. PendingIsUnanswered'
  BY <1>1, <1>2, <1>3 DEF IInv, TypeOK, PendingIsUnanswered, Phase
<1>6. BypassIsEarned' /\ ApprovalIsEarned'
  BY <1>1, <1>2, <1>3, EarnedStays DEF IInv, TypeOK, Over, Phase
<1> QED
  BY <1>4, <1>5, <1>6 DEF IInv

LEMMA RespondKeeps ==
  ASSUME IInv, NEW s \in Sockets, NEW r \in Requests, NEW decision \in Decisions,
         Respond(s, r, decision)
  PROVE  IInv'
<1> DEFINE new == Answered(req[r], decision)
<1>1. /\ req[r] \in RequestRecord /\ r \in pending
      /\ Phase(r) \in {"sending", "asked"}
  BY DEF IInv, TypeOK, PendingIsUnanswered, Respond
<1>2. /\ req' = [req EXCEPT ![r] = new] /\ pending' = pending \ {r}
      /\ UNCHANGED <<registryVars, stopped>>
  BY DEF Respond
<1>3. /\ new \in RequestRecord /\ new.answer = decision
      /\ new.phase = "approved" => decision \in {"approve", "approve_session"}
  BY <1>1, AnsweredType DEF Phase
<1>4. req'[r] = new
  BY <1>2 DEF IInv, TypeOK
<1>5. TypeOK'
  <2>1. Granted(req[r], decision) \subseteq Sessions \X Paths
    BY <1>1 DEF Granted, RequestRecord
  <2>2. bypass' \subseteq Sessions \X Paths
    BY <2>1 DEF IInv, TypeOK, Respond
  <2> HIDE DEF new
  <2> QED
    BY <1>2, <1>3, <2>2 DEF IInv, TypeOK, RegistryTypeOK, registryVars
<1>6. PendingIsUnanswered'
  <2> HIDE DEF new
  <2> QED
    BY <1>1, <1>2, <1>3, <1>4 DEF IInv, TypeOK, PendingIsUnanswered, Phase, Decisions
<1>7. \A b \in bypass' : \/ b \in bypass
                         \/ \E q \in Requests : Covers(q)' /\ b = <<req'[q].ses, req'[q].path>>
  <2>1. SUFFICES ASSUME NEW b \in bypass', b \notin bypass
                 PROVE  Covers(r)' /\ b = <<req'[r].ses, req'[r].path>>
    OBVIOUS
  <2>2. Phase(r) = "asked" /\ b \in Granted(req[r], decision)
    BY <2>1 DEF Respond
  <2>3. new = Settle(req[r], decision)
    BY <2>2 DEF Answered, Phase
  <2>4. /\ decision \in {"approve", "approve_session"}
        /\ decision = "approve_session" \/ req[r].gran = "task"
        /\ b = <<req[r].ses, req[r].path>>
    BY <2>2 DEF Granted
  <2>5. /\ new.phase = "approved" /\ new.by = "operator" /\ new.gran = req[r].gran
        /\ new.ses = req[r].ses /\ new.path = req[r].path
    BY <1>1, <2>3, <2>4, SettleType
  <2> HIDE DEF new
  <2> QED
    BY <1>3, <1>4, <2>4, <2>5 DEF Covers, Phase
<1> HIDE DEF new
<1>8. \A q \in Requests : Over(q) => req'[q] = req[q]
  BY <1>1, <1>2 DEF IInv, TypeOK, Over
<1>9. \A q \in Requests :
        req'[q].phase = "approved" /\ ~Over(q) => req'[q].answer \in {"approve", "approve_session"}
  BY <1>2, <1>3, <1>4 DEF IInv, TypeOK, Over, Phase
<1>10. BypassIsEarned' /\ ApprovalIsEarned'
  BY <1>7, <1>8, <1>9, EarnedStays DEF IInv
<1> QED
  BY <1>5, <1>6, <1>10 DEF IInv

(* A rejection approves nothing and leaves what is over alone. *)
LEMMA RejectKeeps ==
  ASSUME IInv, NEW R, Reject(R), bypass' \subseteq bypass
  PROVE  /\ req' \in [Requests -> RequestRecord] /\ pending' \subseteq Requests
         /\ \A r \in Requests :
              r \in pending' <=> Phase(r)' \in {"sending", "asked"} /\ req'[r].answer = "none"
         /\ BypassIsEarned' /\ ApprovalIsEarned'
<1>1. \A r \in Requests :
        req'[r] = IF r \in R \cap pending THEN Answered(req[r], "rejected") ELSE req[r]
  BY DEF Reject
<1>2. ASSUME NEW r \in Requests, r \in R \cap pending
      PROVE  /\ req'[r] \in RequestRecord /\ req'[r].answer = "rejected"
             /\ req'[r].phase # "approved" /\ ~Over(r)
  <2>1. req[r] \in RequestRecord /\ req[r].phase \in {"sending", "asked"}
    BY <1>2 DEF IInv, TypeOK, PendingIsUnanswered, Phase
  <2>2. /\ Answered(req[r], "rejected") \in RequestRecord
        /\ Answered(req[r], "rejected").answer = "rejected"
        /\ Answered(req[r], "rejected").phase = "approved" => "rejected" \in {"approve", "approve_session"}
    BY <2>1, AnsweredType
  <2> QED
    BY <1>1, <1>2, <2>1, <2>2 DEF Over, Phase
<1>3. ASSUME NEW r \in Requests, r \notin R \cap pending
      PROVE  req'[r] = req[r]
  BY <1>1, <1>3
<1>4. req' \in [Requests -> RequestRecord]
  <2>1. \A r \in Requests : req'[r] \in RequestRecord
    BY <1>2, <1>3 DEF IInv, TypeOK
  <2> QED
    BY <2>1 DEF Reject
<1>5. \A r \in Requests :
        r \in pending' <=> Phase(r)' \in {"sending", "asked"} /\ req'[r].answer = "none"
  BY <1>2, <1>3 DEF Reject, IInv, PendingIsUnanswered, Phase
<1>6. BypassIsEarned' /\ ApprovalIsEarned'
  <2>1. \A r \in Requests : Over(r) => req'[r] = req[r]
    BY <1>2, <1>3
  <2>2. \A r \in Requests : req'[r].phase = "approved" => Over(r)
    BY <1>2, <1>3 DEF Over, Phase
  <2> QED
    BY <2>1, <2>2, EarnedStays DEF IInv
<1> QED
  BY <1>4, <1>5, <1>6 DEF Reject, IInv, TypeOK

LEMMA TimeoutKeeps ==
  ASSUME IInv, NEW r \in Requests, Timeout(r)
  PROVE  IInv'
<1>1. Reject({r}) /\ UNCHANGED <<registryVars, bypass, stopped>>
  BY DEF Timeout
<1>2. pending' \subseteq pending
  BY <1>1 DEF Reject
<1> QED
  BY <1>1, <1>2, RejectKeeps DEF IInv, TypeOK, RegistryTypeOK, registryVars, PendingIsUnanswered

LEMMA StopKeeps ==
  ASSUME IInv, Stop
  PROVE  IInv'
<1>1. Reject(pending) /\ UNCHANGED <<registryVars, bypass>> /\ stopped' = TRUE
  BY DEF Stop
<1>2. pending' = {}
  BY <1>1 DEF Reject
<1> QED
  BY <1>1, <1>2, RejectKeeps DEF IInv, TypeOK, RegistryTypeOK, registryVars, PendingIsUnanswered

LEMMA DisconnectKeeps ==
  ASSUME IInv, NEW s \in Sockets, Disconnect(s)
  PROVE  IInv'
<1>1. /\ Reject({r \in Requests : req[r].path \in Held(s)})
      /\ bypass' \subseteq bypass /\ stopped' = stopped
  BY DEF Disconnect
<1>2. RegistryTypeOK'
  BY RegistryTyped DEF IInv, TypeOK, Disconnect
<1>3. pending' \subseteq pending
  BY <1>1 DEF Reject
<1> QED
  BY <1>1, <1>2, <1>3, RejectKeeps DEF IInv, TypeOK, PendingIsUnanswered

LEMMA WindowKeeps ==
  ASSUME IInv, NEW s \in Sockets, WindowStep(s)
  PROVE  IInv'
<1>1. RegistryTypeOK' /\ UNCHANGED gateVars
  BY RegistryTyped DEF IInv, TypeOK, WindowStep
<1> QED
  BY <1>1 DEF IInv, TypeOK, gateVars, PendingIsUnanswered, BypassIsEarned, ApprovalIsEarned,
               Covers, Phase

-----------------------------------------------------------------------------
LEMMA InitKeeps == Init => IInv
<1>1. SUFFICES ASSUME Init PROVE IInv
  OBVIOUS
<1> DEFINE folder == CHOOSE p \in Paths : TRUE
<1> DEFINE session == CHOOSE s \in Sessions : TRUE
<1>2. folder \in Paths /\ session \in Sessions
  BY ApprovalGateAssumption
<1>3. NoRequest(folder) \in RequestRecord
  <2> HIDE DEF folder, session
  <2>1. NoRequest(folder) =
          [phase |-> "new", ses |-> session, path |-> folder, ceiling |-> "per_call",
           gran |-> "per_call", to |-> None, answer |-> "none", by |-> "nobody"]
    BY DEF NoRequest, session
  <2> QED
    BY <1>2, <2>1 DEF RequestRecord, Granularities
<1>4. NoRequest(folder).phase = "new"
  BY DEF NoRequest
<1>5. RegistryTypeOK
  BY <1>1 DEF Init, RegistryInit, RegistryTypeOK
<1>6. req = [r \in Requests |-> NoRequest(folder)] /\ pending = {} /\ bypass = {} /\ stopped = FALSE
  BY <1>1 DEF Init
<1> HIDE DEF folder
<1> QED
  BY <1>3, <1>4, <1>5, <1>6
     DEF IInv, TypeOK, PendingIsUnanswered, BypassIsEarned, ApprovalIsEarned, Phase

(* Each action of the gate and of the windows keeps the invariant. *)
LEMMA NextKeeps == IInv /\ [Next]_vars => IInv'
<1>1. SUFFICES ASSUME IInv, [Next]_vars PROVE IInv'
  OBVIOUS
<1>2. CASE UNCHANGED vars
  BY <1>1, <1>2 DEF IInv, TypeOK, RegistryTypeOK, vars, registryVars, gateVars,
                    PendingIsUnanswered, BypassIsEarned, ApprovalIsEarned, Covers, Phase
<1>3. ASSUME NEW r \in Requests, NEW ses \in Sessions, NEW p \in Paths,
             NEW ceiling \in Granularities, NEW asked \in Granularities \cup {"unspecified"},
             Call(r, ses, p, ceiling, asked)
      PROVE  IInv'
  BY <1>1, <1>3, CallKeeps
<1>4. ASSUME NEW r \in Requests, SendDone(r) \/ SendFails(r) \/ Timeout(r)
      PROVE  IInv'
  BY <1>1, <1>4, SendDoneKeeps, SendFailsKeeps, TimeoutKeeps
<1>5. ASSUME NEW s \in Sockets, NEW r \in Requests, NEW choice \in Choices,
             Respond(s, r, DecisionOf(choice))
      PROVE  IInv'
  BY <1>1, <1>5, DecisionIsExplicit, RespondKeeps
<1>6. ASSUME NEW s \in Sockets, Disconnect(s) \/ WindowStep(s)
      PROVE  IInv'
  BY <1>1, <1>6, DisconnectKeeps, WindowKeeps
<1>7. CASE Stop
  BY <1>1, <1>7, StopKeeps
<1> QED
  BY <1>1, <1>2, <1>3, <1>4, <1>5, <1>6, <1>7 DEF Next

(* The inductive invariant holds of every behaviour of the gate. *)
THEOREM GateInvariant == Spec => []IInv
<1> QED
  BY InitKeeps, NextKeeps, PTL DEF Spec

(* The gate and the registry of windows are type correct. *)
THEOREM GateTypeCorrect == Spec => []TypeOK
<1>1. IInv => TypeOK
  BY DEF IInv
<1> QED
  BY <1>1, GateInvariant, PTL

(* The map of pending approvals is exactly the requests nobody answered.   *)
THEOREM PendingIsUnansweredHolds == Spec => []PendingIsUnanswered
<1>1. IInv => PendingIsUnanswered
  BY DEF IInv
<1> QED
  BY <1>1, GateInvariant, PTL

(* No delegation gets past the gate unless the ceiling is auto or an       *)
(* operator has answered: to it, or to one of its session and folder.      *)
THEOREM ApprovedByOperatorHolds == Spec => []ApprovedByOperator
<1>1. IInv => ApprovedByOperator
  BY DEF IInv, ApprovalIsEarned, ApprovedByOperator, Covers
<1> QED
  BY <1>1, GateInvariant, PTL
=============================================================================
