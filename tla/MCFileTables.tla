---------------------------- MODULE MCFileTables ----------------------------
(* An instance of FileTables for TLC; workers and accounts are alike. *)
EXTENDS FileTables, TLC

CONSTANTS alice, bob, a

MCNames == {alice, bob, a}
MCLike == {<<n, n>> : n \in MCNames}
MCSymmetry == Permutations(Workers) \cup Permutations(Accounts)
=============================================================================
