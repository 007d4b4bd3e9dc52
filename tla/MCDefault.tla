------------------------------ MODULE MCDefault ------------------------------
(* Small instances of DefaultXRPClient for TLC. *)
EXTENDS DefaultXRPClient, TLC

(* Calls are interchangeable; sound for the safety runs only. *)
CallSymmetry == Permutations(Calls)
=============================================================================
