----------------------------- MODULE MarketData -----------------------------
(***************************************************************************)
(* Fetching candles: fetch_ohlcv_range, which pages through a date range   *)
(* for a backtest, and fetch_ohlcv, which wants the latest bars            *)
(* (app/core/market_data.py).  Both ask the providers one after another,   *)
(* retry a provider's whole fetch on a transient network error, and take   *)
(* the first answer with enough bars.                                      *)
(*                                                                         *)
(* One call.  Each HTTP request is a step, with any outcome: an answer     *)
(* from the provider's history, a transient error (a timeout or a lost     *)
(* connection), or a hard one (a 4xx or 5xx, a malformed body, a symbol    *)
(* or timeframe the provider does not know).                               *)
(***************************************************************************)
EXTENDS MarketFeed

CONSTANTS
    Kinds,          \* subset of {"range", "latest"}: the calls considered
    Preferences,    \* values of exchange_id
    Timeframe,
    Histories,      \* set of [Books -> SUBSET Nat]: what the providers may hold
    From, To,       \* the range in bars; for "latest", To is now
    Limit,          \* fetch_ohlcv's limit
    BatchSize,      \* Binance's page size in a range fetch
    MaxPage,        \* the most bars one Binance (1000) or Bitfinex (10000) answer holds
    MinBars,        \* 50 in the code
    MaxAttempts     \* 3 in the code

ASSUME MarketDataAssumption ==
    /\ Kinds \subseteq {"range", "latest"}
    /\ \A h \in Histories : h \in [Books -> SUBSET Nat] /\ \A b \in Books : IsFiniteSet(h[b])
    /\ {From, To, Limit} \subseteq Nat /\ From <= To
    /\ {BatchSize, MaxPage, MinBars, MaxAttempts} \subseteq Nat \ {0}
    /\ BatchSize <= MaxPage

VARIABLES
    kind, held,     \* the call, and the providers' histories
    phase,
    queue,          \* providers, the one being asked first
    attempt,        \* of the provider's fetch, from 1
    book,           \* the instrument being asked for
    cursor,         \* Binance's startTime
    bars,           \* collected so far from this provider in this attempt
    failures,       \* providers that failed, and why
    frame           \* the data frame returned

fetchVars == <<kind, held, phase, queue, attempt, book, cursor, bars, failures, frame>>

\* The start asked of Deribit and Bitfinex: for the latest bars, Limit bars back from now,
\* which lies within the bar To.
Start == IF kind = "range" THEN From ELSE IF Limit <= To THEN To + 1 - Limit ELSE 0

TypeOKFetch ==
    /\ kind \in Kinds
    /\ held \in Histories
    /\ phase \in {"next", "ask", "fetched", "raised"}
    /\ queue \in Seq(Providers)
    /\ attempt \in 1..MaxAttempts
    /\ book \in Books
    /\ cursor \in Nat
    /\ bars \in SUBSET UNION {held[b] : b \in Books}
    /\ failures \subseteq Providers \X {"network", "rejected", "insufficient"}
    /\ frame \in SUBSET UNION {held[b] : b \in Books}

FetchInit ==
    /\ kind \in Kinds
    /\ held \in Histories
    /\ phase = "next"
    /\ \E preferred \in Preferences : queue = OrderedProviders(preferred)
    /\ attempt = 1
    /\ book = "binance"
    /\ cursor = 0
    /\ bars = {}
    /\ failures = {}
    /\ frame = {}

-----------------------------------------------------------------------------

Provider == Head(queue)

\* A fetch starts from nothing, whatever an earlier attempt had collected.
Restart(provider) ==
    /\ book' = FirstBook(provider)
    /\ cursor' = Start
    /\ bars' = {}

\* The next provider of the list.
TryProvider ==
    /\ phase = "next" /\ queue # <<>>
    /\ Restart(Provider)
    /\ attempt' = 1
    /\ phase' = "ask"
    /\ UNCHANGED <<kind, held, queue, failures, frame>>

\* Every provider failed: ValueError.
AllFailed ==
    /\ phase = "next" /\ queue = <<>>
    /\ phase' = "raised"
    /\ UNCHANGED <<kind, held, queue, attempt, book, cursor, bars, failures, frame>>

\* Mutant: an exception of a provider reaches the caller.
GiveUpReraised(reason) ==
    /\ failures' = failures \union {<<Provider, reason>>}
    /\ queue' = Tail(queue)
    /\ phase' = IF reason = "rejected" THEN "raised" ELSE "next"
    /\ UNCHANGED <<kind, held, attempt, book, cursor, bars, frame>>

\* The provider is given up for a reason, and the loop goes on to the next.
GiveUp(reason) ==
    /\ failures' = failures \union {<<Provider, reason>>}
    /\ queue' = Tail(queue)
    /\ phase' = "next"
    /\ UNCHANGED <<kind, held, attempt, book, cursor, bars, frame>>

\* The provider's fetch returned raw bars.  A range is trimmed to its end; either kind
\* needs MinBars of them.
Returned(raw) ==
    LET trimmed == IF kind = "range" THEN {b \in raw : b <= To} ELSE raw
    IN  IF Cardinality(trimmed) >= MinBars
        THEN /\ frame' = trimmed
             /\ phase' = "fetched"
             /\ bars' = raw
             /\ UNCHANGED <<kind, held, queue, attempt, book, cursor, failures>>
        ELSE GiveUp("insufficient")

-----------------------------------------------------------------------------

Asking(provider) == phase = "ask" /\ queue # <<>> /\ Provider = provider

\* Mutant: a full page is taken for the last one.
PageIsLastWhenFull(page) == LastOf(page) >= To \/ Cardinality(page) <= BatchSize

\* One page of a Binance range: it is the last when it is empty, reaches the end or is
\* not full; otherwise the cursor moves past it.
PageIsLast(page) == LastOf(page) >= To \/ Cardinality(page) < BatchSize

NextCursor(page) == LastOf(page) + 1

BinancePage ==
    /\ Asking("binance") /\ kind = "range" /\ Supports("binance", Timeframe)
    /\ LET page == Earliest(Within(held["binance"], cursor, To), BatchSize)
       IN  IF page = {} \/ PageIsLast(page)
           THEN Returned(bars \union page)
           ELSE /\ bars' = bars \union page
                /\ cursor' = NextCursor(page)
                /\ UNCHANGED <<kind, held, phase, queue, attempt, book, failures, frame>>

BinanceLatest ==
    /\ Asking("binance") /\ kind = "latest" /\ Supports("binance", Timeframe)
    /\ Returned(Latest(Within(held["binance"], 0, To), IF Limit < MaxPage THEN Limit ELSE MaxPage))

\* Deribit answers the whole range at once, from the first of the two instruments it knows.
\* (The code asks once, and takes what comes: that one answer holds the range is assumed.)
DeribitAnswers ==
    /\ Asking("deribit") /\ Supports("deribit", Timeframe)
    /\ LET answer == Within(held[book], Start, To)
       IN  Returned(IF kind = "latest" THEN Latest(answer, Limit) ELSE answer)

\* HTTP 400 for the legacy name: the USDC name is asked for.
DeribitUnknownName ==
    /\ Asking("deribit") /\ Supports("deribit", Timeframe)
    /\ book = "deribit"
    /\ book' = "deribit_usdc"
    /\ UNCHANGED <<kind, held, phase, queue, attempt, cursor, bars, failures, frame>>

\* Bitfinex answers the oldest bars of the range, up to its limit.
BitfinexAnswers ==
    /\ Asking("bitfinex") /\ Supports("bitfinex", Timeframe)
    /\ Returned(Earliest(Within(held["bitfinex"], Start, To),
                         IF kind = "latest" THEN Limit ELSE MaxPage))

\* Mutant: one attempt too many.
MayRetryOnceMore == attempt <= MaxAttempts

MayRetry == attempt < MaxAttempts

\* Mutant: attempts are not counted.
NextAttemptUncounted == attempt

NextAttempt == attempt + 1

\* A transient error: the whole fetch is started again, up to MaxAttempts times.
TransientError ==
    /\ phase = "ask" /\ Supports(Provider, Timeframe)
    /\ IF MayRetry
       THEN /\ attempt' = NextAttempt
            /\ Restart(Provider)
            /\ UNCHANGED <<kind, held, phase, queue, failures, frame>>
       ELSE GiveUp("network")

\* Any other error is not retried; a timeframe the provider does not list is one.
HardError == phase = "ask" /\ GiveUp("rejected")

Answer == BinancePage \/ BinanceLatest \/ DeribitAnswers \/ DeribitUnknownName \/ BitfinexAnswers

FetchNext == TryProvider \/ AllFailed \/ Answer \/ TransientError \/ HardError

\* The event loop runs every step, and a request is answered or times out
\* (ClientTimeout(total=20)), which is a step too.
FetchFairness == WF_fetchVars(FetchNext)

-----------------------------------------------------------------------------

\* The frame a caller gets is the whole of what the book that served it holds in the range
\* asked for, from one book only: no bar is missing at a page boundary, none is left over
\* from an attempt or a provider given up on.  Bitfinex answers a part of it, with no gap
\* after the start, when the range exceeds its limit.
FrameIsComplete ==
    phase = "fetched" /\ kind = "range" =>
        frame = (IF book = "bitfinex" THEN Earliest(Within(held[book], From, To), MaxPage)
                                      ELSE Within(held[book], From, To))

\* The call fails only after every provider was asked and each was given up: fetch_ohlcv*
\* tries all of them "on any failure".
FallbackIsExhaustive ==
    phase = "raised" => \A p \in Providers : \E why \in {"network", "rejected", "insufficient"} :
                            <<p, why>> \in failures

=============================================================================
