------------------------------ MODULE MCToken -------------------------------
(* Instances of Token for TLC. *)
EXTENDS TokenProperties, TLC

CONSTANTS k1, k2, g

BothOfTwo == {[m |-> 2, signers |-> <<k1, k2>>]}
AccountSymmetry == Permutations(Accounts)
=============================================================================
