------------------------------- MODULE MCTunnel -------------------------------
(* Model values for Tunnel: calls and windows are interchangeable. *)
EXTENDS Tunnel, TLC

TunnelSymmetry == Permutations(Callers) \cup Permutations(Windows)
=============================================================================
