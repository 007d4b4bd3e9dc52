-------------------------------- MODULE MCILP --------------------------------
(* A small instance of ILPClient for TLC: two calls that may pay from one    *)
(* account or from two, in up to two packets each.                         *)
EXTENDS ILPClient, TLC

CallSymmetry == Permutations(Calls)
=============================================================================
