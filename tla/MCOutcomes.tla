----------------------------- MODULE MCOutcomes -----------------------------
(* A small instance of Outcomes for TLC: two signals, the cron and a request. *)
EXTENDS Outcomes

CONSTANTS s1, s2, c1

SameKey == [s \in Signals |-> "key"]
Everywhere == [s \in Signals |-> Channels]
=============================================================================
