--------------------------- MODULE BacktestEngine ---------------------------
(***************************************************************************)
(* The bar-by-bar simulation of app/core/backtest_engine.py: the options   *)
(* and the spot execution models, and the summary of the trades.           *)
(*                                                                         *)
(* The strategy's signal series and the closing prices are data: any       *)
(* signal and any price of a small set, chosen when the loop first looks   *)
(* at the bar.  Of the capital, what a trade does to it is modelled.  The  *)
(* execution_params of a strategy are a dict nobody validates: they may be *)
(* zero or negative, and a negative holding takes the loop back in time.   *)
(***************************************************************************)
EXTENDS Integers, FiniteSets

CONSTANTS
    TradeTypes,         \* the trade types considered
    Signals,            \* values of the signal series
    Prices,             \* closing prices
    Target,             \* profit_cap_pct or take_profit_pct, in percent
    Stop,               \* stop_loss_pct, in percent
    Premium,            \* premium_pct, in percent
    PositionSize,       \* position_size_pct, in percent
    Holdings,           \* values of tenor_days_weak, tenor_days_strong and hold_bars
    Grain,              \* the steps a percent is recorded in: 10 000, four decimals
    MaxBack,            \* bound: different trades recorded while a holding goes back
    NoBar

ASSUME EngineAssumption ==
    /\ Signals \subseteq Int
    /\ Prices \subseteq Nat \ {0}
    /\ {Target, Stop, Premium, PositionSize} \subseteq Int
    /\ Holdings \subseteq [weak: Int, strong: Int, spot: Int]
    /\ Grain \in Nat \ {0} /\ MaxBack \in Nat
    /\ NoBar \notin Int

VARIABLES
    count,          \* n, the bars of the frame
    tradeType,
    holding,        \* how many bars a position is held, by kind
    stage,
    at,             \* i: the bar the outer loop is at; the last is also bar -1
    scan,           \* j: the bar the early-exit scan has reached
    entry,          \* signal of the position being simulated, or 0
    price,          \* [bar -> price] for the bars looked at in this position
    trades          \* the TradeRecords: while holdings go forward, no two begin at a bar

engineVars == <<count, tradeType, holding, stage, at, scan, entry, price, trades>>

Side == {"up", "down"}      \* CALL or LONG, and PUT or SHORT

\* The bars of a trade, what it earned, whether its recorded pnl_pct is positive, and
\* whether it multiplied the capital by more than 1.
Trade == [entered: Int, left: Int, profit: {"none", "trace", "clear"}, won: BOOLEAN,
          grew: BOOLEAN]

TypeOKEngine ==
    /\ count \in Nat
    /\ tradeType \in TradeTypes
    /\ holding \in Holdings
    /\ stage \in {"waiting", "outer", "scan", "summary", "unsupported", "failed"}
    /\ at \in (-count)..count
    /\ scan \in (-count)..count
    /\ entry \in Signals
    /\ DOMAIN price \subseteq (-count)..count /\ \A b \in DOMAIN price : price[b] \in Prices
    /\ trades \subseteq Trade

EngineInit ==
    /\ tradeType \in TradeTypes
    /\ holding \in Holdings
    /\ stage = "waiting"
    /\ count = 0 /\ at = 0 /\ scan = 0
    /\ entry \in {s \in Signals : s = 0}
    /\ price = [b \in {} |-> 0]
    /\ trades = {}

-----------------------------------------------------------------------------

Abs(n) == IF n < 0 THEN -n ELSE n

SideOf(signal) == IF signal > 0 THEN "up" ELSE "down"

\* How far a close is from the entry, in the position's favour (times the entry price).
Move(close, from, side) == IF side = "up" THEN (close - from) * 100 ELSE (from - close) * 100

\* How many bars a position may be held.
Holding(type, signal) ==
    IF type = "spot" THEN holding.spot
    ELSE IF Abs(signal) = 7 THEN holding.strong ELSE holding.weak

\* OptionsExecutionParams and SpotExecutionParams (app/types/strategy.py) ask for one bar
\* at least, but nothing applies them.
HoldsForward == holding.weak >= 0 /\ holding.strong >= 0 /\ holding.spot >= 0

Horizon(type, i, signal) ==
    LET due == i + Holding(type, signal) IN IF due < count - 1 THEN due ELSE count - 1

\* The close ends the position early: the profit cap or take-profit is reached, or, in
\* spot trading, the stop loss.
EndsEarly(type, close, from, side) ==
    \/ Move(close, from, side) >= Target * from
    \/ type = "spot" /\ Move(close, from, side) <= -(Stop * from)

\* pnl_frac, in percent and times the entry price: an option earns the cap at most.
Pnl(type, close, from, side) ==
    LET move == Move(close, from, side)
    IN  IF type = "options" /\ move > Target * from THEN Target * from ELSE move

\* A profit of less than a grain is a trace.
ProfitOf(type, close, from, side) ==
    LET pnl == Pnl(type, close, from, side)
    IN  IF pnl <= 0 THEN "none" ELSE IF Grain * pnl >= from THEN "clear" ELSE "trace"

\* round(..., 4) > 0: half a grain or less is rounded to 0.
RecordsAWin(type, close, from, side) == 2 * (Grain * Pnl(type, close, from, side)) > from

\* Options lose the premium unless the trade gained; spot moves the position's share of
\* the capital with the price.
Grows(type, close, from, side) ==
    IF type = "spot" THEN PositionSize * Pnl(type, close, from, side) > 0
    ELSE Pnl(type, close, from, side) > 0 \/ Premium < 0

-----------------------------------------------------------------------------

\* run_backtest: the model of the trade type simulates; futures are not supported.
StartSimulation(n) ==
    /\ stage = "waiting"
    /\ count' = n
    /\ stage' = IF tradeType \in {"options", "spot"} THEN "outer" ELSE "unsupported"
    /\ UNCHANGED <<tradeType, holding, at, scan, entry, price, trades>>

\* A bar with no signal.
SkipBar ==
    /\ stage = "outer" /\ at < count
    /\ 0 \in Signals
    /\ at' = at + 1
    /\ UNCHANGED <<count, tradeType, holding, stage, scan, entry, price, trades>>

\* A bar with a signal: the position is entered at its close.
EnterAt(signal) ==
    /\ stage = "outer" /\ at < count
    /\ signal # 0
    /\ HoldsForward \/ Cardinality(trades) < MaxBack
    /\ entry' = signal
    /\ \E p \in Prices : price' = [b \in {at} |-> p]
    /\ scan' = at
    /\ stage' = "scan"
    /\ UNCHANGED <<count, tradeType, holding, at, trades>>

\* Mutant: the bar a trade was left at is looked at again.
NextBarAgain(exit) == exit

\* The index the outer loop goes on from.
NextBar(exit) == exit + 1

\* The trade is recorded: capital and equity curve follow it.
Record(exit, close) ==
    LET side == SideOf(entry)
    IN  trades' = trades \union
            {[entered |-> at, left |-> exit,
              profit |-> ProfitOf(tradeType, close, price[at], side),
              won |-> RecordsAWin(tradeType, close, price[at], side),
              grew |-> Grows(tradeType, close, price[at], side)]}

Close(exit, close) ==
    /\ Record(exit, close)
    /\ at' = NextBar(exit)
    /\ stage' = "outer"
    /\ scan' = 0
    /\ price' = [b \in {} |-> 0]
    /\ entry' = 0
    /\ UNCHANGED <<count, tradeType, holding>>

\* The early-exit scan looks at the next bar, up to the horizon.
ScanBar ==
    /\ stage = "scan" /\ scan < Horizon(tradeType, at, entry)
    /\ \E p \in Prices :
         IF EndsEarly(tradeType, p, price[at], SideOf(entry))
         THEN Close(scan + 1, p)
         ELSE /\ scan' = scan + 1
              /\ price' = [b \in DOMAIN price \union {scan + 1} |->
                              IF b = scan + 1 THEN p ELSE price[b]]
              /\ UNCHANGED <<count, tradeType, holding, stage, at, entry, trades>>

\* Nothing ended it early: it is left at the horizon's close.  A negative holding has
\* scanned nothing, and its horizon is an earlier bar, or a negative index.
Expire ==
    LET horizon == Horizon(tradeType, at, entry)
    IN  /\ stage = "scan" /\ scan >= horizon
        /\ horizon >= -count
        /\ \E p \in IF scan = horizon THEN {price[scan]} ELSE Prices : Close(horizon, p)

\* The loop is over: _build_result.
Summarise ==
    /\ stage = "outer" /\ at >= count
    /\ stage' = "summary"
    /\ UNCHANGED <<count, tradeType, holding, at, scan, entry, price, trades>>

\* The strategy's series, the parameters, an index below the first bar, or the summary
\* raises: run_backtest.py's except branch records the job as failed.
EngineRaises ==
    /\ stage \in {"outer", "scan"}
    /\ stage' = "failed"
    /\ UNCHANGED <<count, tradeType, holding, at, scan, entry, price, trades>>

Simulate ==
    \/ SkipBar
    \/ \E s \in Signals : EnterAt(s)
    \/ ScanBar
    \/ Expire
    \/ Summarise
    \/ EngineRaises

-----------------------------------------------------------------------------
\* _build_result counts the trades with a positive pnl_pct.

WinningTrades == Cardinality({t \in trades : t.won})

-----------------------------------------------------------------------------

\* A backtest's trades are those of a position book: the scan runs ahead of the outer loop,
\* and the book's clock is the bar it has reached.
Book == INSTANCE PositionBook WITH
    Ordinary <- Premium >= 0 /\ PositionSize > 0,
    forward <- HoldsForward,
    last <- count - 1,
    clock <- IF entry # 0 THEN scan ELSE at,
    open <- IF entry # 0 THEN at ELSE NoBar,
    closed <- trades,
    wins <- IF stage = "summary" THEN WinningTrades ELSE 0

=============================================================================
