------------------------------ MODULE AuthCodes ------------------------------
(***************************************************************************)
(* The authorization codes of the consent flow (oauth/consent.ts): single  *)
(* use, bound at issue to the workspace of the window that approved, gone  *)
(* after their time to live or when the workspace is unbound.  A consent   *)
(* issues at most one code, which bears the consent's name.                *)
(***************************************************************************)
EXTENDS Naturals

CONSTANTS
  Consents,    \* request ids of consents
  Workspaces,  \* workspace identifiers
  None         \* "no workspace", "nobody"

ASSUME AuthCodesAssumption == None \notin Workspaces

VARIABLES
  code,   \* code[q]: absent, live, redeemed, dead (expired or revoked)
  bound   \* bound[q]: the workspace the code of q is bound to, or None

codeVars == <<code, bound>>

CodesTypeOK ==
  /\ code \in [Consents -> {"absent", "live", "redeemed", "dead"}]
  /\ bound \in [Consents -> Workspaces \cup {None}]

CodesInit ==
  /\ code = [q \in Consents |-> "absent"]
  /\ bound = [q \in Consents |-> None]

Live(q) == code[q] = "live"

(* An approve from a window with workspace w, None if it has registered none. *)
Issue(q, w) ==
  /\ code[q] = "absent"
  /\ code' = [code EXCEPT ![q] = "live"]
  /\ bound' = [bound EXCEPT ![q] = w]

(* redeemAuthCode takes the code out of the map: a second call finds none. *)
Redeem(q) ==
  /\ Live(q)
  /\ code' = [code EXCEPT ![q] = "redeemed"]
  /\ UNCHANGED bound

(* The expiry timer, or a redemption that comes too late. *)
Expire(q) ==
  /\ Live(q)
  /\ code' = [code EXCEPT ![q] = "dead"]
  /\ UNCHANGED bound

(* revokeAuthCodesByWorkspace *)
RevokeCodes(w) ==
  /\ code' = [q \in Consents |-> IF Live(q) /\ bound[q] = w THEN "dead" ELSE code[q]]
  /\ UNCHANGED bound
=============================================================================
