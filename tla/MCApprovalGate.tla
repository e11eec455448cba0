--------------------------- MODULE MCApprovalGate ---------------------------
(* Model values for ApprovalGate.  Sessions and paths are not symmetric:    *)
(* a new request has to name one of each.                                   *)
EXTENDS ApprovalGate, TLC

GateSymmetry == Permutations(Sockets) \cup Permutations(Requests)
=============================================================================
