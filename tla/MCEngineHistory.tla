-------------------------- MODULE MCEngineHistory --------------------------
(***************************************************************************)
(* Small instances of EngineHistory.                                       *)
(***************************************************************************)
EXTENDS EngineHistory, MCEngine
=============================================================================
