------------------------- MODULE MCExchangeChannel -------------------------
(* A small instance of ExchangeChannel for TLC: three deliveries, one to a   *)
(* channel with the default settings that buys at the market, one that buys  *)
(* with limit orders and closes nothing, one that sells with limit orders.   *)
EXTENDS ExchangeChannel, TLC

CONSTANTS a, b, c

Sides == [s \in Sends |-> IF s = c THEN "sell" ELSE "buy"]
Types == [s \in Sends |-> IF s = a THEN "market" ELSE "limit"]
Closing == [s \in Sends |-> s # b]
Limits == [s \in Sends |-> IF s = a THEN 1 ELSE 2]
=============================================================================
