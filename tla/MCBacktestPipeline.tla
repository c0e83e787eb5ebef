------------------------- MODULE MCBacktestPipeline -------------------------
(* A small instance of BacktestPipeline for TLC. *)
EXTENDS BacktestPipeline

MCSignals == {-7, 0, 3}

\* Positions that go forward, and parameters that take some of them back in time.
MCHoldings == {[weak |-> 1, strong |-> 2, spot |-> 2],
               [weak |-> -1, strong |-> 1, spot |-> -2]}

\* Binance holds a part of the range, one page, several pages or more than the range;
\* Deribit knows the asset by both names; Bitfinex holds a bar too few or more than one
\* answer carries.
MCHistories ==
    {h \in [Books -> {{}, {2}, {1, 2}, {1, 3, 4}, {0, 1, 2, 3, 4, 5}}] :
        /\ h["binance"] # {2}
        /\ h["deribit"] \in {{}, {1, 2}}
        /\ h["deribit_usdc"] \in {{1, 2}, {1, 3, 4}}
        /\ h["bitfinex"] \in {{2}, {0, 1, 2, 3, 4, 5}}}
=============================================================================
