----------------------------- MODULE MCTelethonHook -----------------------------
(***************************************************************************)
(* Instance of TelethonHook for TLC.  Requests for the login overlap while *)
(* the worker is down; while it is up, TLC looks at those that are made    *)
(* one after the other and not yet or no longer waiting for Telegram.      *)
(***************************************************************************)
EXTENDS TelethonHook

Apart == loop.at # "down" => ~Busy /\ ~tangled
===============================================================================
