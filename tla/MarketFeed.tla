----------------------------- MODULE MarketFeed -----------------------------
(***************************************************************************)
(* What the OHLCV fetchers of app/core/market_data.py agree on: the three  *)
(* providers and the order they are asked in, which of them know a         *)
(* timeframe, and the part of a provider's history one HTTP answer holds.  *)
(* A bar is its opening time; prices are data.                             *)
(***************************************************************************)
EXTENDS Naturals, Sequences, FiniteSets

AllProviders == <<"binance", "deribit", "bitfinex">>

Providers == {"binance", "deribit", "bitfinex"}

\* The order of preference: the exchange asked for first, if it is one of the three,
\* then the others.
OrderedProviders(preferred) ==
    IF preferred \in Providers
    THEN LET i == CHOOSE j \in DOMAIN AllProviders : AllProviders[j] = preferred
         IN  <<preferred>> \o SubSeq(AllProviders, 1, i - 1)
                           \o SubSeq(AllProviders, i + 1, Len(AllProviders))
    ELSE AllProviders

\* The timeframes each provider's table lists.
Timeframes == [binance |-> {"1m", "3m", "5m", "15m", "30m", "1h", "2h", "4h", "6h", "8h",
                            "12h", "1d", "3d", "1w"},
               deribit |-> {"1m", "3m", "5m", "10m", "15m", "30m", "1h", "2h", "3h", "4h",
                            "6h", "12h", "1d"},
               bitfinex |-> {"1m", "5m", "15m", "30m", "1h", "3h", "4h", "6h", "12h", "1d",
                             "1w"}]

Supports(provider, timeframe) == timeframe \in Timeframes[provider]

\* The books a provider can answer from: the history of one instrument each.  Deribit has
\* two names for an asset, the legacy one and the USDC one.
Books == {"binance", "deribit", "deribit_usdc", "bitfinex"}

FirstBook(provider) == provider

-----------------------------------------------------------------------------

Within(bars, first, last) == {b \in bars : first <= b /\ b <= last}

Earliest(bars, n) == {b \in bars : Cardinality({c \in bars : c < b}) < n}

Latest(bars, n) == {b \in bars : Cardinality({c \in bars : c > b}) < n}

LastOf(bars) == CHOOSE b \in bars : \A c \in bars : c <= b

=============================================================================
