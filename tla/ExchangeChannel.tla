--------------------------- MODULE ExchangeChannel ---------------------------
(***************************************************************************)
(* Sends of exchange channels that trade one symbol on one account         *)
(* (app/channels/exchange.py): each closes an opposing position, looks at  *)
(* the positions, places an entry order, then a stop loss and a take       *)
(* profit, with an await before every step while other sends and the       *)
(* market move the account.  A send that fails, or whose worker dies, is   *)
(* repeated by the delivery jobs.                                          *)
(*                                                                         *)
(* The account nets: the exchange holds one signed position for the        *)
(* symbol, in units of one entry.  A market order fills at once, a limit   *)
(* order rests until the market takes it.  A reduceOnly order takes what   *)
(* there is to reduce and is then gone.  Every channel has a stop loss, a  *)
(* take profit and the total exposure limit configured.  Prices and        *)
(* balances are data: a check that depends on them passes or fails.        *)
(***************************************************************************)
EXTENDS Integers, FiniteSets

CONSTANTS
    Sends,          \* deliveries to exchange channels of the account
    SideOf,         \* [Sends -> Side]
    OrderType,      \* [Sends -> {"market", "limit"}]
    CloseOpposite,  \* [Sends -> BOOLEAN]: close_on_opposite_signal
    MaxOpen,        \* [Sends -> Nat \ {0}]: max_open_positions
    MaxExposure,    \* max_total_exposure_pct of the balance, in entries
    MaxTries,       \* bound: sends of one delivery, replays and retries included
    MaxFaults       \* bound: deaths, lost answers, exceptions after the entry

Side == {"buy", "sell"}

ASSUME ExchangeAssumption ==
    /\ IsFiniteSet(Sends)
    /\ SideOf \in [Sends -> Side]
    /\ OrderType \in [Sends -> {"market", "limit"}]
    /\ CloseOpposite \in [Sends -> BOOLEAN]
    /\ MaxOpen \in [Sends -> Nat \ {0}]
    /\ {MaxExposure, MaxTries, MaxFaults} \subseteq Nat

VARIABLES
    position,   \* the account's position, negative when short
    resting,    \* limit entry orders not yet filled, by side
    stops,      \* stop-loss orders on the exchange, by their own side
    profits,    \* take-profit orders on the exchange, by their own side
    phase,      \* where each send is
    seen,       \* the position a send is about to act on, 0 when it is not
    tries,
    entries,    \* history: entry orders placed for each send
    stale,      \* history: entries placed when the account was not as seen
    exposed,    \* history: entries whose stop was not placed, or fired too early
    faults

marketVars == <<position, resting, stops, profits>>
historyVars == <<entries, stale, exposed>>
vars == <<position, resting, stops, profits, phase, seen, tries, entries, stale,
          exposed, faults>>

-----------------------------------------------------------------------------

\* Each phase is named for the exchange call the send is about to make.
TypeOK ==
    /\ position \in Int
    /\ resting \in [Side -> Nat]
    /\ stops \in [Side -> Nat]
    /\ profits \in [Side -> Nat]
    /\ phase \in [Sends -> {"queued", "look", "close", "guard", "exposure", "entry",
                            "stop", "profit", "ok", "bad"}]
    /\ seen \in [Sends -> Int]
    /\ tries \in [Sends -> Nat]
    /\ entries \in [Sends -> Nat]
    /\ stale \in Nat
    /\ exposed \in Nat
    /\ faults \in 0..MaxFaults

Init ==
    /\ position = 0
    /\ resting = [side \in Side |-> 0]
    /\ stops = [side \in Side |-> 0]
    /\ profits = [side \in Side |-> 0]
    /\ phase = [s \in Sends |-> "queued"]
    /\ seen = [s \in Sends |-> 0]
    /\ tries = [s \in Sends |-> 0]
    /\ entries = [s \in Sends |-> 0]
    /\ stale = 0
    /\ exposed = 0
    /\ faults = 0

-----------------------------------------------------------------------------
(* The exchange *)

Size(p) == IF p < 0 THEN -p ELSE p

Opposite(side) == IF side = "buy" THEN "sell" ELSE "buy"

Filled(p, side) == IF side = "buy" THEN p + 1 ELSE p - 1

\* What a reduceOnly order of n units leaves of a position.
Reduced(p, side, n) ==
    CASE side = "sell" /\ p > 0 -> IF p > n THEN p - n ELSE 0
      [] side = "buy" /\ p < 0 -> IF -p > n THEN p + n ELSE 0
      [] OTHER -> p

\* _fetch_open_positions: a query that fails reads as no position.
Answers == {position, 0}

-----------------------------------------------------------------------------
(* ExchangeChannel.send *)

Goes(s, to) == phase' = [phase EXCEPT ![s] = to]

\* _apply_gating ends some sends, as successes or as failures, without a call; then
\* the markets are loaded, which may raise, and the leverage is set.
SendStarts(s) ==
    /\ phase[s] = "queued"
    /\ tries[s] < MaxTries
    /\ tries' = [tries EXCEPT ![s] = @ + 1]
    /\ \E to \in {"ok", "bad", IF CloseOpposite[s] THEN "look" ELSE "guard"} : Goes(s, to)
    /\ UNCHANGED <<marketVars, seen, historyVars, faults>>

Opposes(side, p) == (side = "buy" /\ p < 0) \/ (side = "sell" /\ p > 0)

LooksForOpposing(s) ==
    /\ phase[s] = "look"
    /\ \E p \in Answers :
         IF Opposes(SideOf[s], p)
         THEN Goes(s, "close") /\ seen' = [seen EXCEPT ![s] = p]
         ELSE Goes(s, "guard") /\ UNCHANGED seen
    /\ UNCHANGED <<marketVars, tries, historyVars, faults>>

\* Mutant: the closing order is not reduceOnly.
ClosesAnyway(s) ==
    /\ phase[s] = "close"
    /\ position' = IF SideOf[s] = "buy" THEN position + Size(seen[s])
                                        ELSE position - Size(seen[s])
    /\ Goes(s, "guard")
    /\ seen' = [seen EXCEPT ![s] = 0]
    /\ UNCHANGED <<resting, stops, profits, tries, historyVars, faults>>

\* A closing order that fails is logged.
Closes(s) ==
    /\ phase[s] = "close"
    /\ position' \in {position, Reduced(position, SideOf[s], Size(seen[s]))}
    /\ Goes(s, "guard")
    /\ seen' = [seen EXCEPT ![s] = 0]
    /\ UNCHANGED <<resting, stops, profits, tries, historyVars, faults>>

OpenPositions(p) == IF p = 0 THEN 0 ELSE 1

\* The guard, then balance, price, spread and amount, any of which may raise.
ChecksMaxPositions(s) ==
    /\ phase[s] = "guard"
    /\ \E p \in Answers :
         IF OpenPositions(p) >= MaxOpen[s] THEN Goes(s, "bad")
         ELSE \E to \in {"exposure", "bad"} : Goes(s, to)
    /\ UNCHANGED <<marketVars, seen, tries, historyVars, faults>>

\* Mutant: the new entry is not part of the exposure.
BreachesLate(p) == Size(p) > MaxExposure

Breaches(p) == Size(p) + 1 > MaxExposure

ChecksExposure(s) ==
    /\ phase[s] = "exposure"
    /\ \E p \in Answers :
         IF Breaches(p)
         THEN Goes(s, "bad") /\ UNCHANGED seen
         ELSE Goes(s, "entry") /\ seen' = [seen EXCEPT ![s] = p]
    /\ UNCHANGED <<marketVars, tries, historyVars, faults>>

AsSeen(s) == position = seen[s] /\ \A side \in Side : resting[side] = 0

\* create_order: the order is on the exchange, whatever becomes of the answer.
Enters(s) ==
    /\ IF OrderType[s] = "market"
       THEN /\ position' = Filled(position, SideOf[s])
            /\ UNCHANGED resting
       ELSE /\ resting' = [resting EXCEPT ![SideOf[s]] = @ + 1]
            /\ UNCHANGED position
    /\ entries' = [entries EXCEPT ![s] = @ + 1]
    /\ stale' = IF AsSeen(s) THEN stale ELSE stale + 1
    /\ seen' = [seen EXCEPT ![s] = 0]
    /\ UNCHANGED <<stops, profits, tries>>

PlacesEntry(s) ==
    /\ phase[s] = "entry"
    /\ Enters(s)
    /\ Goes(s, "stop")
    /\ UNCHANGED <<exposed, faults>>

EntryIsRefused(s) ==
    /\ phase[s] = "entry"
    /\ Goes(s, "bad")
    /\ seen' = [seen EXCEPT ![s] = 0]
    /\ UNCHANGED <<marketVars, tries, historyVars, faults>>

\* The order is placed and the answer lost: the call raises.
EntryAnswerIsLost(s) ==
    /\ phase[s] = "entry"
    /\ faults < MaxFaults
    /\ faults' = faults + 1
    /\ Enters(s)
    /\ exposed' = exposed + 1
    /\ Goes(s, "bad")

ExitSide(s) == Opposite(SideOf[s])

PlacesStop(s) ==
    /\ phase[s] = "stop"
    /\ stops' = [stops EXCEPT ![ExitSide(s)] = @ + 1]
    /\ Goes(s, "profit")
    /\ UNCHANGED <<position, resting, profits, seen, tries, historyVars, faults>>

\* Mutant: a stop that is refused fails the send.
StopRefusalFailsSend(s) ==
    /\ phase[s] = "stop"
    /\ exposed' = exposed + 1
    /\ Goes(s, "bad")
    /\ UNCHANGED <<marketVars, seen, tries, entries, stale, faults>>

\* "Logs and continues on failure."
StopIsRefused(s) ==
    /\ phase[s] = "stop"
    /\ exposed' = exposed + 1
    /\ Goes(s, "profit")
    /\ UNCHANGED <<marketVars, seen, tries, entries, stale, faults>>

\* Take-profit levels count as one order.
PlacesProfit(s) ==
    /\ phase[s] = "profit"
    /\ \/ profits' = [profits EXCEPT ![ExitSide(s)] = @ + 1]
       \/ UNCHANGED profits
    /\ Goes(s, "ok")
    /\ UNCHANGED <<position, resting, stops, seen, tries, historyVars, faults>>

\* price_to_precision and amount_to_precision are called outside the try blocks of the
\* stop loss and of each take-profit level, client.close() outside any: the send fails
\* though its entry is placed.
ExitRaises(s) ==
    /\ faults < MaxFaults
    /\ faults' = faults + 1
    /\ \/ phase[s] = "stop" /\ exposed' = exposed + 1 /\ UNCHANGED profits
       \/ phase[s] = "profit" /\ UNCHANGED <<exposed, profits>>
       \/ /\ phase[s] = "profit"
          /\ profits' = [profits EXCEPT ![ExitSide(s)] = @ + 1]
          /\ UNCHANGED exposed
    /\ Goes(s, "bad")
    /\ UNCHANGED <<position, resting, stops, seen, tries, entries, stale>>

\* retry_delivery sends a failed delivery again.
SendsAgain(s) ==
    /\ phase[s] = "bad"
    /\ tries[s] < MaxTries
    /\ Goes(s, "queued")
    /\ UNCHANGED <<marketVars, seen, tries, historyVars, faults>>

\* The worker dies and arq runs the job again; the row is still pending.
SendDies(s) ==
    /\ phase[s] \notin {"queued", "ok", "bad"}
    /\ faults < MaxFaults
    /\ faults' = faults + 1
    /\ exposed' = IF phase[s] = "stop" THEN exposed + 1 ELSE exposed
    /\ Goes(s, "queued")
    /\ seen' = [seen EXCEPT ![s] = 0]
    /\ UNCHANGED <<marketVars, tries, entries, stale>>

-----------------------------------------------------------------------------
(* The market *)

Fills(side) ==
    /\ resting[side] > 0
    /\ resting' = [resting EXCEPT ![side] = @ - 1]
    /\ position' = Filled(position, side)
    /\ UNCHANGED <<stops, profits, phase, seen, tries, historyVars, faults>>

\* A stop that fires before its limit order has filled protects nothing.
StopFires(side) ==
    /\ stops[side] > 0
    /\ stops' = [stops EXCEPT ![side] = @ - 1]
    /\ position' = Reduced(position, side, 1)
    /\ exposed' = IF position' = position /\ resting[Opposite(side)] > 0 THEN exposed + 1
                                                                         ELSE exposed
    /\ UNCHANGED <<resting, profits, phase, seen, tries, entries, stale, faults>>

ProfitIsTaken(side) ==
    /\ profits[side] > 0
    /\ profits' = [profits EXCEPT ![side] = @ - 1]
    /\ position' = Reduced(position, side, 1)
    /\ UNCHANGED <<resting, stops, phase, seen, tries, historyVars, faults>>

-----------------------------------------------------------------------------

SendStep(s) ==
    \/ SendStarts(s)
    \/ LooksForOpposing(s)
    \/ Closes(s)
    \/ ChecksMaxPositions(s)
    \/ ChecksExposure(s)
    \/ PlacesEntry(s)
    \/ EntryIsRefused(s)
    \/ PlacesStop(s)
    \/ StopIsRefused(s)
    \/ PlacesProfit(s)
    \/ SendsAgain(s)

Fault(s) == EntryAnswerIsLost(s) \/ ExitRaises(s) \/ SendDies(s)

Market(side) == Fills(side) \/ StopFires(side) \/ ProfitIsTaken(side)

Next ==
    \/ \E s \in Sends : SendStep(s) \/ Fault(s)
    \/ \E side \in Side : Market(side)

Spec == Init /\ [][Next]_vars
-----------------------------------------------------------------------------
(* Properties. *)

\* The exposure limit is exceeded only through entries that were decided on an account
\* that had changed since, on a query that failed, or beside orders still resting, which
\* no query shows, and by one entry for each; no number of replays, retries, fills and
\* closing orders exceeds it otherwise.
ExcessNeedsStaleLooks ==
    Size(position) + resting["buy"] + resting["sell"] <= MaxExposure + stale

\* A signal is traded twice only if a worker died, an answer was lost or a risk order
\* raised: a refused stop or a retry of an ordinary failure never repeats an entry.
RepeatsNeedFaults == \A s \in Sends : entries[s] <= 1 + faults

Placing(side) == {s \in Sends : phase[s] = "stop" /\ SideOf[s] = side}

Held(side) == IF side = "buy" THEN position ELSE -position

\* Every unit held, or about to be, has a stop order on the exchange or a send that is
\* about to place one, except the entries known to have lost theirs: orders left over
\* from closed positions, other sends' exits and netting never use up the stop of a
\* unit that is still held.
PositionIsProtected ==
    \A side \in Side :
        Held(side) > 0 =>
            Held(side) + resting[side]
                <= stops[Opposite(side)] + Cardinality(Placing(side)) + exposed
=============================================================================
