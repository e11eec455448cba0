----------------------------- MODULE MCJobReport -----------------------------
(* Symmetry for JobReport: paths and texts are only compared.              *)
EXTENDS JobReport, TLC

ReportSymmetry == Permutations(Files) \cup Permutations(Texts)
=============================================================================
