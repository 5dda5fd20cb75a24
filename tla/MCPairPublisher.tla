---------------------------- MODULE MCPairPublisher ----------------------------
(***************************************************************************)
(* Instance of PairPublisher for TLC.                                      *)
(***************************************************************************)
EXTENDS PairPublisher
===============================================================================
