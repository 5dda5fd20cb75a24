-------------------------- MODULE MCPendingStoreFile --------------------------
(***************************************************************************)
(* Instances of PendingStoreFile for TLC.                                  *)
(***************************************************************************)
EXTENDS PendingStoreFile

SaveFaults == {"write", "copy", "move", "garble"}
MoveFaults == {"move"}
RestoreFaults == {"restore"}
===============================================================================
