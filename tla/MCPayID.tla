------------------------------ MODULE MCPayID ------------------------------
(* A small instance of PayIDClient for TLC: the constants are in the cfg.     *)
(* Calls and queues are interchangeable, but the run checks liveness too,    *)
(* for which symmetry is not sound: none is declared.                        *)
EXTENDS PayIDClient
============================================================================
