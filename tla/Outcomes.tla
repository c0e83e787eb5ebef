------------------------------ MODULE Outcomes ------------------------------
(***************************************************************************)
(* Resolving expired signals: outcome_service.resolve_outcomes, run by the *)
(* nightly cron compute_outcomes and by POST /outcomes/resolve, and the    *)
(* job deliver_outcomes that tells the channels a signal was sent to.      *)
(*                                                                         *)
(* A resolver reads the expired signals without an outcome, fetches a      *)
(* price for each (exchange, asset, timeframe, expiry) it has not fetched  *)
(* yet, inserts all outcome rows in one statement, marks the signals and   *)
(* commits.  Two resolvers may work on the same signals.                   *)
(***************************************************************************)
EXTENDS MarketFeed

CONSTANTS
    Signals, Channels,
    Resolvers,      \* the nightly cron and the API request, which may overlap
    CronRuns,       \* those of them that are runs of the cron
    KeyOf,          \* [Signals -> a price key]
    SentTo,         \* [Signals -> SUBSET Channels]: deliveries with status sent
    History,        \* bars every provider holds before an expiry
    PriceLimit,     \* the limit _fetch_close_at asks for: 2
    MinBars         \* 50

VARIABLES
    expired,        \* signals whose expiry_time has passed
    outcome,        \* [Signals -> "none", "profit" or "loss"]: signal_outcomes
    marked,         \* [Signals -> the same]: Signal.is_profitable, committed
    resolver,       \* [Resolvers -> the local state of a call]
    jobs,           \* deliver_outcomes jobs, as the sets of signals they name
    told            \* <<signal, channel>> pairs a notification was sent for

outcomeVars == <<expired, outcome, marked, resolver, jobs, told>>

Verdict == {"profit", "loss"}

Resolver == [phase: {"idle", "prices", "insert", "mark"},
             todo: SUBSET Signals,          \* expired_signals the loop has yet to visit
             prices: [Signals -> Verdict \union {"none"}],      \* price_cache
             rows: SUBSET Signals]          \* outcomes_to_insert

Idle == [phase |-> "idle", todo |-> {}, prices |-> [s \in Signals |-> "none"], rows |-> {}]

TypeOK ==
    /\ expired \subseteq Signals
    /\ outcome \in [Signals -> Verdict \union {"none"}]
    /\ marked \in [Signals -> Verdict \union {"none"}]
    /\ resolver \in [Resolvers -> Resolver]
    /\ jobs \subseteq (SUBSET Signals)
    /\ told \subseteq Signals \X Channels

Init ==
    /\ expired = {}
    /\ outcome = [s \in Signals |-> "none"]
    /\ marked = [s \in Signals |-> "none"]
    /\ resolver = [r \in Resolvers |-> Idle]
    /\ jobs = {}
    /\ told = {}

\* The expiry of a signal passes.
Expire(s) ==
    /\ s \notin expired
    /\ expired' = expired \union {s}
    /\ UNCHANGED <<outcome, marked, resolver, jobs, told>>

-----------------------------------------------------------------------------

\* get_unresolved_expired; with nothing to do the call returns.
Load(r) ==
    LET found == {s \in expired : marked[s] = "none"}
    IN  /\ resolver[r].phase = "idle"
        /\ found # {}
        /\ resolver' = [resolver EXCEPT ![r].phase = "prices", ![r].todo = found]
        /\ UNCHANGED <<expired, outcome, marked, jobs, told>>

\* fetch_ohlcv raises unless some provider answers MinBars bars of the PriceLimit asked for.
PriceIsFound == Cardinality(Latest(1..History, PriceLimit)) >= MinBars

\* The price of a signal's key is fetched, or is in the cache already: the signal joins the
\* rows; if it cannot be had the signal is skipped.
Price(r, s) ==
    /\ resolver[r].phase = "prices" /\ s \in resolver[r].todo
    /\ LET cached == {t \in Signals : KeyOf[t] = KeyOf[s] /\ resolver[r].prices[t] # "none"}
       IN  \/ /\ cached = {} /\ ~PriceIsFound
              /\ resolver' = [resolver EXCEPT ![r].todo = @ \ {s}]
           \/ /\ cached # {} \/ PriceIsFound
              /\ \E verdict \in Verdict :
                    resolver' = [resolver EXCEPT ![r].todo = @ \ {s},
                                                 ![r].prices[s] = verdict,
                                                 ![r].rows = @ \union {s}]
    /\ UNCHANGED <<expired, outcome, marked, jobs, told>>

\* The loop is over: with no rows the call returns an empty list.
Priced(r) ==
    /\ resolver[r].phase = "prices" /\ resolver[r].todo = {}
    /\ resolver' = [resolver EXCEPT ![r] =
                       IF @.rows = {} THEN Idle ELSE [@ EXCEPT !.phase = "insert"]]
    /\ UNCHANGED <<expired, outcome, marked, jobs, told>>

\* The columns of signal_outcomes that may not be null, and those bulk_insert is given.
RequiredColumns == {"tenant_id", "signal_id", "exit_price", "exit_time", "pnl_pct",
                    "is_profitable", "computed_at"}

InsertedColumns == {"signal_id", "exit_price", "exit_time", "pnl_pct", "is_profitable",
                    "regime_at_exit", "computed_at"}

\* The whole batch is refused for a missing column or for a signal that has its outcome.
InsertIsAccepted(rows) ==
    /\ RequiredColumns \subseteq InsertedColumns
    /\ \A s \in rows : outcome[s] = "none"

\* bulk_insert, bulk_mark_profitable and the commit; an error rolls everything back, which
\* compute_outcomes logs and reports as nothing resolved.  A run of the cron then enqueues
\* deliver_outcomes; the API request tells nobody.
Store(r) ==
    /\ resolver[r].phase = "insert"
    /\ LET rows == resolver[r].rows
           verdicts(old) == [s \in Signals |-> IF s \in rows THEN resolver[r].prices[s] ELSE old[s]]
       IN  IF InsertIsAccepted(rows)
           THEN /\ outcome' = verdicts(outcome)
                /\ marked' = verdicts(marked)
                /\ jobs' = IF r \in CronRuns THEN jobs \union {rows} ELSE jobs
           ELSE UNCHANGED <<outcome, marked, jobs>>
    /\ resolver' = [resolver EXCEPT ![r] = Idle]
    /\ UNCHANGED <<expired, told>>

\* deliver_outcomes tells each channel the signal was sent to; one that is gone, inactive
\* or refuses the message is skipped, and the job is not retried.
DeliverOutcomes(job) ==
    /\ job \in jobs
    /\ jobs' = jobs \ {job}
    /\ \E reached \in SUBSET {<<s, c>> \in job \X Channels : c \in SentTo[s]} :
          told' = told \union reached
    /\ UNCHANGED <<expired, outcome, marked, resolver>>

Resolve(r) == Load(r) \/ (\E s \in Signals : Price(r, s)) \/ Priced(r) \/ Store(r)

Next ==
    \/ \E s \in Signals : Expire(s)
    \/ \E r \in Resolvers : Resolve(r)
    \/ \E job \in jobs : DeliverOutcomes(job)

vars == outcomeVars

\* Time passes, the cron runs every night to its end, and queued jobs run.
FairSpec ==
    /\ Init /\ [][Next]_vars
    /\ \A s \in Signals : WF_vars(Expire(s))
    /\ \A r \in CronRuns : WF_vars(Resolve(r))
    /\ WF_vars(\E job \in jobs : DeliverOutcomes(job))

-----------------------------------------------------------------------------

\* The nightly cron computes the outcome of every expired signal and persists it
\* (app/workers/compute_outcomes.py:4-5).
ExpiredSignalsAreResolved == \A s \in Signals : <>(outcome[s] # "none" /\ marked[s] = outcome[s])

=============================================================================
