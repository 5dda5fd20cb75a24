----------------------------- MODULE MCSignalRoute -----------------------------
(***************************************************************************)
(* Instance of SignalRoute for TLC: two routes, one of which has messages. *)
(***************************************************************************)
EXTENDS SignalRoute, TLC

CONSTANTS gold, other, t1, t2, buy, sell, sellReply, buyDetails, album

RouteOf(m) == gold
Seed(m) == m \in {buy, sell}
TextOf(m) == m
HeaderOf(m) == IF m \in {buy, buyDetails} THEN "buy" ELSE "sell"

\* The seed to sell and the second details come as one album, and the details
\* answer the other seed.
GroupOf(m) == IF m \in {sell, sellReply} THEN album ELSE None
ReplyOf(m) == IF m = sellReply THEN buy ELSE None

Same == Permutations({t1, t2})
===============================================================================
