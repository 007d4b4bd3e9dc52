----------------------------- MODULE MCReliable -----------------------------
(* Small instances of ReliableSubmissionXRPClient for TLC. *)
EXTENDS ReliableSubmissionXRPClient, TLC

(* Calls are interchangeable; sound for the safety runs only. *)
CallSymmetry == Permutations(Calls)
=============================================================================
