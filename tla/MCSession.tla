----------------------------- MODULE MCSession ------------------------------
(* Instances of Session for TLC.                                           *)
EXTENDS Session, TLC

MCSymmetry == Permutations(Clients) \cup Permutations(Workers)
=============================================================================
