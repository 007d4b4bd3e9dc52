------------------------------ MODULE MCXpring ------------------------------
(* Small instances of XpringClient for TLC. *)
EXTENDS XpringClient, TLC

(* Calls are interchangeable; sound for the safety runs only. *)
XpringSymmetry == Permutations(Calls)
=============================================================================
