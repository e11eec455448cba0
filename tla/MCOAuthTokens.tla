---------------------------- MODULE MCOAuthTokens ----------------------------
(* Model values for OAuthTokens. *)
EXTENDS OAuthTokens, TLC

TokenSymmetry == Permutations(Consents) \cup Permutations(Ops) \cup Permutations(Workspaces)
=============================================================================
