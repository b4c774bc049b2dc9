-------------------------- MODULE MCCompanyRegistry --------------------------
(* Instances of CompanyRegistry for TLC. *)
EXTENDS CompanyRegistry, TLC

MCSymmetry == Permutations(Companies) \cup Permutations(Uppers)
=============================================================================
