--------------------------- MODULE MCWorkspaceStore ---------------------------
(* Model values for WorkspaceStore: windows and folders are interchangeable. *)
EXTENDS WorkspaceStore, TLC

StoreSymmetry == Permutations(Sockets) \cup Permutations(Paths)
=============================================================================
