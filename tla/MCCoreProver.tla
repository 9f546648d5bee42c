---------------------------- MODULE MCCoreProver ----------------------------
(***************************************************************************)
(* One call with two core shards and two shards of the events both defer;  *)
(* every step that can fail may.                                           *)
(***************************************************************************)
EXTENDS CoreProver
=============================================================================
