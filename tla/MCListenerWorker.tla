---------------------------- MODULE MCListenerWorker ----------------------------
(***************************************************************************)
(* Instance of ListenerWorker for TLC.  Where requests have overtaken one  *)
(* another no property claims anything, and TLC does not look further.     *)
(***************************************************************************)
EXTENDS ListenerWorker

InOrder == ~raced
===============================================================================
