-------------------------- MODULE MCAttestationHost --------------------------
(***************************************************************************)
(* Series of at most MaxRuns runs of every kind, each killed anywhere.     *)
(***************************************************************************)
EXTENDS AttestationHost
=============================================================================
