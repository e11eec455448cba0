----------------------------- MODULE OAuthTokens -----------------------------
(***************************************************************************)
(* From the authorization code to the bound access token and back: the     *)
(* /token endpoint (oauth/token-endpoint.ts) with its takeover of an       *)
(* existing binding, the token store (oauth/token-store.ts) in memory and  *)
(* on disk, and the two ways the operator changes a binding: unbind and    *)
(* the approval-mode switch (main.ts, ipc/server.ts).                      *)
(*                                                                         *)
(* One action is the code between two awaits: the check of the client      *)
(* secret and every write of tokens.json let other operations in between.  *)
(* The token of consent q bears the name of q.  Tokens live 30 days; their *)
(* expiry is not modelled.                                                 *)
(***************************************************************************)
EXTENDS AuthCodes, StoreFile

VARIABLES
  store,     \* store[q]: absent, or the ceiling the token of q carries
  op,        \* op[o]: the request operation o serves
  cut        \* history: consents approved before an unbind of their workspace

tokenVars == <<store, op, cut>>

oauthVars == <<codeVars, fileVars, tokenVars>>

-----------------------------------------------------------------------------
(* A token without a workspace has no ceiling. *)
Ceilings == {"null", "per_call", "auto"}

Stores == [Consents -> Ceilings \cup {"absent"}]

(* old: the tokens a takeover replaces, or those an unbind --all still     *)
(* has to revoke.                                                          *)
Idle == [step |-> "idle", con |-> None, old |-> {}]

Steps == {"idle", "verify", "mint", "revoke", "unbind", "all", "set"}

TokensTypeOK ==
  /\ CodesTypeOK
  /\ FileTypeOK(Stores)
  /\ store \in Stores
  /\ op \in [Ops -> [step : Steps, con : Consents \cup {None}, old : SUBSET Consents]]
  /\ cut \subseteq Consents

Empty == [q \in Consents |-> "absent"]

TokensInit ==
  /\ CodesInit
  /\ FileInit(Empty)
  /\ store = Empty
  /\ op = [o \in Ops |-> Idle]
  /\ cut = {}

Doing(o, step) == op[o].step = step

(* lookup() finds the token. *)
Valid(q) == store[q] # "absent"

(* tokenHashesForWorkspace *)
TokensOf(w) == {q \in Consents : Valid(q) /\ bound[q] = w}

(* The consents some window with workspace w has approved so far. *)
ApprovedFor(w) == {q \in Consents : code[q] # "absent" /\ bound[q] = w}

(* The store without the tokens of S. *)
Without(S) == [q \in Consents |-> IF q \in S THEN "absent" ELSE store[q]]

Finish(o) == op' = [op EXCEPT ![o] = Idle]

-----------------------------------------------------------------------------
(* The consent flow issues and drops codes. *)
ApproveConsent(q, w) ==
  /\ Issue(q, w)
  /\ UNCHANGED <<fileVars, tokenVars>>

CodeExpires(q) ==
  /\ Expire(q)
  /\ UNCHANGED <<fileVars, tokenVars>>

(* POST /token with a code the client was given: the secret is checked     *)
(* first, so that a wrong one does not burn the code.                      *)
TokenRequest(o, q) ==
  /\ op[o] = Idle
  /\ code[q] # "absent"
  /\ op' = [op EXCEPT ![o] = [Idle EXCEPT !.step = "verify", !.con = q]]
  /\ UNCHANGED <<codeVars, fileVars, store, cut>>

(* The secret is wrong, or the code is redeemed, expired or revoked. *)
TokenRefused(o) ==
  /\ Doing(o, "verify")
  /\ Finish(o)
  /\ UNCHANGED <<codeVars, fileVars, store, cut>>

(* The code is redeemed, but client, redirect_uri or PKCE do not match. *)
TokenMismatch(o) ==
  /\ Doing(o, "verify")
  /\ Redeem(op[o].con)
  /\ Finish(o)
  /\ UNCHANGED <<fileVars, store, cut>>

(* Fault: the code stays in the map. *)
MintUnredeemed(o) ==
  /\ Doing(o, "verify")
  /\ LET q == op[o].con
         w == bound[q] IN
       /\ Live(q)
       /\ op' = [op EXCEPT ![o].step = "mint",
                           ![o].old = IF w = None THEN {} ELSE TokensOf(w)]
       /\ store' = [store EXCEPT ![q] = IF w = None THEN "null" ELSE "per_call"]
  /\ BeginWrite(o)
  /\ UNCHANGED <<codeVars, cut>>

(* Fault: the workspace is stored as the ceiling, and nothing is captured. *)
MintSwapped(o) ==
  /\ Doing(o, "verify")
  /\ Redeem(op[o].con)
  /\ op' = [op EXCEPT ![o].step = "mint"]
  /\ store' = [store EXCEPT ![op[o].con] = bound[op[o].con]]
  /\ BeginWrite(o)
  /\ UNCHANGED cut

(* Takeover: the old tokens of the workspace are captured before the new   *)
(* one is minted, and mint() awaits its write.                             *)
TokenMinted(o) ==
  /\ Doing(o, "verify")
  /\ LET q == op[o].con
         w == bound[q] IN
       /\ Redeem(q)
       /\ op' = [op EXCEPT ![o].step = "mint",
                           ![o].old = IF w = None THEN {} ELSE TokensOf(w)]
       /\ store' = [store EXCEPT ![q] = IF w = None THEN "null" ELSE "per_call"]
  /\ BeginWrite(o)
  /\ UNCHANGED cut

(* Fault: everything the workspace has is revoked, the new token included. *)
RevokeWorkspace(o) ==
  /\ Doing(o, "mint")
  /\ op[o].old \cap {q \in Consents : Valid(q)} # {}
  /\ Landed(o)
  /\ store' = Without(TokensOf(bound[op[o].con]))
  /\ StartWrite(o)
  /\ op' = [op EXCEPT ![o].step = "revoke"]
  /\ UNCHANGED <<codeVars, cut>>

(* The new token is on disk; what of the captured set is still there goes, *)
(* and is written in turn.                                                 *)
RevokeOld(o) ==
  /\ Doing(o, "mint")
  /\ op[o].old \cap {q \in Consents : Valid(q)} # {}
  /\ Landed(o)
  /\ store' = Without(op[o].old)
  /\ StartWrite(o)
  /\ op' = [op EXCEPT ![o].step = "revoke"]
  /\ UNCHANGED <<codeVars, cut>>

(* Nothing to revoke: the token is handed out. *)
TokenGiven(o) ==
  /\ Doing(o, "mint")
  /\ op[o].old \cap {q \in Consents : Valid(q)} = {}
  /\ WriteDone(o)
  /\ Finish(o)
  /\ UNCHANGED <<codeVars, store, cut>>

(* Fault: codes that are not redeemed yet are left alone. *)
UnbindTokensOnly(o, w) ==
  /\ op[o] = Idle
  /\ store' = Without(TokensOf(w))
  /\ cut' = cut \cup ApprovedFor(w)
  /\ IF TokensOf(w) = {}
     THEN UNCHANGED <<op, fileVars>>
     ELSE /\ op' = [op EXCEPT ![o] = [Idle EXCEPT !.step = "unbind"]]
          /\ BeginWrite(o)
  /\ UNCHANGED <<codeVars>>

(* unbind: the codes of the workspace, then its tokens; without a token    *)
(* there is nothing to write and the reply is success.                     *)
Unbind(o, w) ==
  /\ op[o] = Idle
  /\ RevokeCodes(w)
  /\ store' = Without(TokensOf(w))
  /\ cut' = cut \cup ApprovedFor(w)
  /\ IF TokensOf(w) = {}
     THEN UNCHANGED <<op, fileVars>>
     ELSE /\ op' = [op EXCEPT ![o] = [Idle EXCEPT !.step = "unbind"]]
          /\ BeginWrite(o)

(* One binding of "unbind --all": captured are the tokens of the bindings  *)
(* that are left to do.                                                    *)
UnbindOne(o, captured) ==
  \E w \in {bound[q] : q \in captured} :
    /\ RevokeCodes(w)
    /\ store' = Without(TokensOf(w))
    /\ cut' = cut \cup ApprovedFor(w)
    /\ op' = [op EXCEPT ![o] = [Idle EXCEPT !.step = "all",
                                           !.old = {q \in captured : bound[q] # w}]]
    /\ IF TokensOf(w) = {} THEN UNCHANGED fileVars ELSE BeginWrite(o)

(* ... and what is left in the end, tokens without a workspace above all.  *)
(* Codes that are on their way to /token are not asked for here.           *)
RevokeAll(o) ==
  /\ IF store = Empty
     THEN Finish(o) /\ UNCHANGED <<store, fileVars>>
     ELSE /\ store' = Empty
          /\ op' = [op EXCEPT ![o] = [Idle EXCEPT !.step = "unbind"]]
          /\ BeginWrite(o)
  /\ UNCHANGED <<codeVars, cut>>

UnbindRest(o, captured) == IF captured = {} THEN RevokeAll(o) ELSE UnbindOne(o, captured)

(* unbind_binding of the CLI, with --all. *)
UnbindAll(o) ==
  /\ op[o] = Idle
  /\ store # Empty
  /\ UnbindRest(o, {q \in Consents : Valid(q) /\ bound[q] # None})

(* A binding is gone, on disk too; the next one. *)
UnbindNext(o) ==
  /\ Doing(o, "all")
  /\ Stage(o) = "none"
  /\ UnbindRest(o, op[o].old)

OneUnbound(o) ==
  /\ Doing(o, "all")
  /\ WriteDone(o)
  /\ UNCHANGED <<codeVars, tokenVars>>

(* Fault: the switch is not written. *)
SetInMemory(o, w, ceiling) ==
  /\ op[o] = Idle
  /\ TokensOf(w) # {}
  /\ store' = [q \in Consents |-> IF q \in TokensOf(w) THEN ceiling ELSE store[q]]
  /\ UNCHANGED <<codeVars, fileVars, op, cut>>

(* setGranularityForWorkspace *)
SetCeiling(o, w, ceiling) ==
  /\ op[o] = Idle
  /\ TokensOf(w) # {}
  /\ store' = [q \in Consents |-> IF q \in TokensOf(w) THEN ceiling ELSE store[q]]
  /\ op' = [op EXCEPT ![o] = [Idle EXCEPT !.step = "set"]]
  /\ BeginWrite(o)
  /\ UNCHANGED <<codeVars, cut>>

(* The write of a revoke, an unbind or a switch is done: the reply. *)
Reply(o) ==
  /\ op[o].step \in {"revoke", "unbind", "set"}
  /\ WriteDone(o)
  /\ Finish(o)
  /\ UNCHANGED <<codeVars, store, cut>>

(* The write fails: an error reply, or for the captured set a log entry;   *)
(* the store in memory keeps what was done to it.                          *)
ReplyError(o) ==
  /\ WriteFails(o)
  /\ Finish(o)
  /\ UNCHANGED <<codeVars, store, cut>>

(* One step of a write that hands control to nobody. *)
WriteStep(o) ==
  /\ Stringify(o, store) \/ OpenFile(o)
  /\ UNCHANGED <<codeVars, tokenVars>>

(* The daemon dies and starts again from tokens.json; it refuses to start  *)
(* from a file that is not JSON.                                           *)
Restart ==
  /\ disk.state = "whole"
  /\ store' = disk.data
  /\ AbandonWrites
  /\ op' = [o \in Ops |-> Idle]
  /\ code' = [q \in Consents |-> IF Live(q) THEN "dead" ELSE code[q]]
  /\ UNCHANGED <<bound, cut>>

TokensNext ==
  \/ \E q \in Consents : CodeExpires(q) \/ \E w \in Workspaces \cup {None} : ApproveConsent(q, w)
  \/ \E o \in Ops :
       \/ \E q \in Consents : TokenRequest(o, q)
       \/ TokenRefused(o)
       \/ TokenMismatch(o)
       \/ TokenMinted(o)
       \/ RevokeOld(o)
       \/ TokenGiven(o)
       \/ \E w \in Workspaces : Unbind(o, w) \/ \E c \in Ceilings \ {"null"} : SetCeiling(o, w, c)
       \/ UnbindAll(o)
       \/ UnbindNext(o)
       \/ OneUnbound(o)
       \/ Reply(o)
       \/ ReplyError(o)
       \/ WriteStep(o)
  \/ Restart

TokensSpec == TokensInit /\ [][TokensNext]_oauthVars

-----------------------------------------------------------------------------
(* A code mints one token at most: requests that present the same code at  *)
(* the same time all pass the secret check, and one of them redeems it.    *)
CodeMintsOnce ==
  /\ \A q \in Consents : Valid(q) => code[q] = "redeemed"
  /\ \A o, p \in Ops :
       Doing(o, "mint") /\ op[p].step \in {"mint", "revoke"} /\ op[o].con = op[p].con => o = p

(* Install, then revoke: a takeover, or several at once, also one whose    *)
(* write fails, never leaves the workspace without a binding ("never the   *)
(* unbound state").                                                        *)
TakeoverNeverUnbinds ==
  [][\A w \in Workspaces :
       TokensOf(w) # {} =>
         \/ TokensOf(w)' # {}
         \/ Restart
         \/ \E o \in Ops : Unbind(o, w) \/ UnbindAll(o) \/ UnbindNext(o)]_oauthVars

(* Of two requests that take over the same workspace at the same time the  *)
(* later one replaces the earlier one's token, and never both each other's *)
(* (the workspace would end up with none) or neither (with two).           *)
OneTakeoverYields ==
  \A o, p \in Ops :
    LET a == op[o].con
        b == op[p].con
    IN  /\ o # p /\ Doing(o, "mint") /\ Doing(p, "mint")
        /\ bound[a] = bound[b] /\ bound[a] # None
        /\ Valid(a) /\ Valid(b)
        => (a \in op[p].old) # (b \in op[o].old)

(* Nothing approved before an unbind comes back after it: no token, and no *)
(* code that is still on its way to the /token endpoint.  (A restart may   *)
(* bring back what the disk still has.)                                    *)
UnbindIsComplete ==
  /\ [](\A q \in cut : ~Live(q))
  /\ [][\A q \in cut : ~Valid(q) => ~Valid(q)' \/ Restart]_oauthVars

(* When nothing is being written and the last write was not disturbed,     *)
(* tokens.json is what the store is: no change forgets its write, and one  *)
(* clean write heals what failed or overlapping ones have left behind.     *)
DiskIsCurrent ==
  Settled /\ ~disturbed => disk = [state |-> "whole", data |-> store]
=============================================================================
