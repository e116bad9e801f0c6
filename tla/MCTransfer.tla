----------------------------- MODULE MCTransfer -----------------------------
(* Instances of Transfer for TLC.                                            *)
EXTENDS Transfer, TLC

MCSymmetry == Permutations(Sessions)
=============================================================================
