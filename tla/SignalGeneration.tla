-------------------------- MODULE SignalGeneration --------------------------
(***************************************************************************)
(* How signals come to be: API requests that generate or force a signal    *)
(* (app/api/v1/signals.py), the cron job scheduled_signals that visits     *)
(* every strategy (app/workers/scheduled_signals.py), and the pipeline     *)
(* both run, generate_signal with its risk gates                           *)
(* (app/services/signal_service.py).                                       *)
(*                                                                         *)
(* The gates and the cron's memory are Redis keys, read and written one    *)
(* command at a time while other calls do the same; they are not undone    *)
(* when a call's database transaction rolls back.  Time passes in ticks.   *)
(* What the market shows a strategy is data: any reading of the grid its   *)
(* rule is considered on.  One tenant; every strategy is active; the days  *)
(* of a behaviour lie in one month.                                        *)
(***************************************************************************)
EXTENDS StrategyRules, FiniteSets

CONSTANTS
    Strategies,
    Requests,       \* API requests, one use each
    Crons,          \* runs of scheduled_signals
    CronAt,         \* [Crons -> Nat]: when each is scheduled
    Interval,       \* [Strategies -> Nat \ {0}]: interval_minutes
    MaxDaily,       \* [Strategies -> Nat \union {Unset}]: max_daily_signals
    Cooldown,       \* [Strategies -> Nat \union {Unset}]: cooldown_minutes
    ClassOf,        \* [Strategies -> Classes]: strategy_class
    AssetOf,        \* [Strategies -> assets]
    Threshold,      \* [Strategies -> Nat \union {Unset}]: min_confidence_threshold, in thousandths
    Subscriptions,  \* every tenant's: [active, channelActive, strategy, assets, values, least]
    PlanDaily,      \* EffectiveLimits.max_signals_per_day, -1: unlimited
    PlanMonthly,    \* EffectiveLimits.max_signals_per_month, -1: unlimited
    TicksPerDay,
    MaxTime,        \* bound on the clock
    MaxFaults,      \* bound: cron jobs that die, time out or fail
    Unset, None

ASSUME GenerationAssumption ==
    /\ CronAt \in [Crons -> Nat]
    /\ Interval \in [Strategies -> Nat \ {0}]
    /\ MaxDaily \in [Strategies -> Nat \union {Unset}]
    /\ Cooldown \in [Strategies -> (Nat \ {0}) \union {Unset}]
    /\ ClassOf \in [Strategies -> Classes]
    /\ Threshold \in [Strategies -> Nat \union {Unset}]
    /\ PlanDaily \in Nat \union {-1} /\ PlanMonthly \in Nat \union {-1}
    /\ TicksPerDay \in Nat \ {0}
    /\ {MaxTime, MaxFaults} \subseteq Nat
    /\ {Unset, None} \intersect Nat = {}
    /\ None \notin Strategies
    /\ IsFiniteSet(Requests) /\ Requests \intersect Crons = {}

Callers == Requests \union Crons

VARIABLES
    now,
    daily,          \* Redis signal:daily_count:<strategy>:<day>
    cooldownUntil,  \* Redis signal:cooldown:<strategy>: when the key expires
    lastRun,        \* Redis signal:last_run:<strategy>
    call,           \* the generate_signal or force_signal call of each caller
    todo,           \* the strategies each cron run has yet to visit
    startedAt,      \* when each cron run started
    signals,        \* committed signals: entry_time, by the request that made them
    faults

redisVars == <<daily, cooldownUntil, lastRun>>
cronVars == <<todo, startedAt>>
vars == <<now, daily, cooldownUntil, lastRun, call, todo, startedAt, signals, faults>>

-----------------------------------------------------------------------------

Day(t) == t \div TicksPerDay

Time == 0..MaxTime

\* "loop" is a cron run between two strategies; "end" and "raised" are how a call
\* ends, "done", "failed" and "killed" how a cron run does.
Phase == {"idle", "loop", "evaluate", "cap", "cooldown", "set", "emit", "commit",
          "end", "vetoed", "raised", "done", "failed", "killed"}

\* What a strategy can make of the market, below its min_confidence_threshold or not.
Verdicts == [s \in Strategies |-> {Rule(ClassOf[s], r) : r \in Grid[ClassOf[s]]}]

\* VALID_SIGNAL_VALUES; a forced signal has confidence 1.
Forced == {Result(value, 1000) : value \in {-7, -3, 3, 7}}

Results == Forced \union UNION {Verdicts[s] : s \in Strategies}

Call == [phase: Phase,
         strategy: Strategies \union {None},
         result: Results \union {None},
         day: {Day(t) : t \in Time} \union {None},
         checked: Time \union {None},
         set: Time \union {None},
         at: Time \union {None}]

NoCall == [phase |-> "idle", strategy |-> None, result |-> None, day |-> None,
           checked |-> None, set |-> None, at |-> None]

TypeOK ==
    /\ now \in Time
    /\ daily \in [Strategies -> [{Day(t) : t \in Time} -> Nat]]
    /\ cooldownUntil \in [Strategies -> Nat]
    /\ lastRun \in [Strategies -> Time \union {None}]
    /\ call \in [Callers -> Call]
    /\ todo \in [Crons -> SUBSET Strategies]
    /\ startedAt \in [Crons -> Time \union {None}]
    /\ signals \in [Requests -> Time \union {None}]
    /\ faults \in 0..MaxFaults

Init ==
    /\ now = 0
    /\ daily = [s \in Strategies |-> [d \in {Day(t) : t \in Time} |-> 0]]
    /\ cooldownUntil = [s \in Strategies |-> 0]
    /\ lastRun = [s \in Strategies |-> None]
    /\ call = [k \in Callers |-> NoCall]
    /\ todo = [c \in Crons |-> {}]
    /\ startedAt = [c \in Crons |-> None]
    /\ signals = [r \in Requests |-> None]
    /\ faults = 0

-----------------------------------------------------------------------------
(* The API *)

CountToday == Cardinality({r \in Requests : signals[r] # None /\ Day(signals[r]) = Day(now)})

CountThisMonth == Cardinality({r \in Requests : signals[r] # None})

WithinPlan ==
    /\ PlanDaily = -1 \/ CountToday < PlanDaily
    /\ PlanMonthly = -1 \/ CountThisMonth < PlanMonthly

\* _check_signal_limits answers 429, or the call proceeds.
RequestGenerates(r, s) ==
    /\ call[r].phase = "idle"
    /\ call' = [call EXCEPT ![r] = [@ EXCEPT
                    !.strategy = s,
                    !.phase = IF WithinPlan THEN "evaluate" ELSE "raised"]]
    /\ UNCHANGED <<now, redisVars, cronVars, signals, faults>>

\* force_signal passes no gate.
RequestForces(r, s) ==
    /\ call[r].phase = "idle"
    /\ \E result \in Forced :
          call' = [call EXCEPT ![r] = [@ EXCEPT
                       !.strategy = s,
                       !.result = result,
                       !.phase = IF WithinPlan THEN "emit" ELSE "raised"]]
    /\ UNCHANGED <<now, redisVars, cronVars, signals, faults>>

-----------------------------------------------------------------------------
(* generate_signal *)

\* min_confidence_threshold; a neutral verdict has confidence 0.
TooUnsure(s, result) == Threshold[s] # Unset /\ result.confidence < Threshold[s]

\* Bars are fetched and the strategy computes, or something raises; a confidence that is
\* too low ends the call before any key is touched.
Evaluate(k) ==
    LET s == call[k].strategy IN
    /\ call[k].phase = "evaluate"
    /\ \/ \E result \in Verdicts[s] :
            call' = [call EXCEPT ![k] = [@ EXCEPT
                         !.phase = IF TooUnsure(s, result) THEN "end" ELSE "cap",
                         !.result = result]]
       \/ call' = [call EXCEPT ![k] = [@ EXCEPT !.phase = "raised"]]
    /\ UNCHANGED <<now, redisVars, cronVars, signals, faults>>

\* Mutant: the count before the increment is compared.
OverCapLate(count, limit) == count - 1 > limit

OverCap(count, limit) == count > limit

PassesCap(k) ==
    LET s == call[k].strategy
        d == Day(now) IN
    /\ call[k].phase = "cap"
    /\ IF MaxDaily[s] = Unset
       THEN /\ call' = [call EXCEPT ![k] = [@ EXCEPT !.phase = "cooldown"]]
            /\ UNCHANGED daily
       ELSE /\ daily' = [daily EXCEPT ![s][d] = @ + 1]
            /\ call' = [call EXCEPT ![k] = [@ EXCEPT
                         !.day = d,
                         !.phase = IF OverCap(daily[s][d] + 1, MaxDaily[s])
                                   THEN "vetoed" ELSE "cooldown"]]
    /\ UNCHANGED <<now, cooldownUntil, lastRun, cronVars, signals, faults>>

CooldownExists(s) == cooldownUntil[s] > now

ChecksCooldown(k) ==
    LET s == call[k].strategy IN
    /\ call[k].phase = "cooldown"
    /\ IF Cooldown[s] = Unset
       THEN call' = [call EXCEPT ![k] = [@ EXCEPT !.phase = "emit"]]
       ELSE call' = [call EXCEPT ![k] = [@ EXCEPT
                       !.checked = now,
                       !.phase = IF CooldownExists(s) THEN "vetoed" ELSE "set"]]
    /\ UNCHANGED <<now, redisVars, cronVars, signals, faults>>

\* Mutant: the key expires a tick early.
CooldownEndShort(s) == now + Cooldown[s] - 1

CooldownEnd(s) == now + Cooldown[s]

SetsCooldown(k) ==
    LET s == call[k].strategy IN
    /\ call[k].phase = "set"
    /\ cooldownUntil' = [cooldownUntil EXCEPT ![s] = CooldownEnd(s)]
    /\ call' = [call EXCEPT ![k] = [@ EXCEPT !.phase = "emit", !.set = now]]
    /\ UNCHANGED <<now, daily, lastRun, cronVars, signals, faults>>

\* get_matching_for_signal: a filter that is not set lets everything through.  Whose the
\* subscription is, is not asked.
Matches(sub, s, result) ==
    /\ sub.active /\ sub.channelActive
    /\ sub.strategy \in {s, Unset}
    /\ sub.assets = Unset \/ AssetOf[s] \in sub.assets
    /\ sub.values = Unset \/ result.value \in sub.values
    /\ sub.least <= result.confidence

Matching(k) == {sub \in Subscriptions : Matches(sub, call[k].strategy, call[k].result)}

\* signals.tenant_id and signal_deliveries.tenant_id are NOT NULL.  The cron calls
\* without a tenant, and fan_out_signal builds its repositories without one.
InsertsSucceed(k) == k \in Requests /\ Matching(k) = {}

\* A neutral verdict ends the call; a signal is inserted, fanned out and its
\* deliver_signal job queued, all before the commit.
Emits(k) ==
    /\ call[k].phase = "emit"
    /\ \/ /\ call[k].result.value = 0
          /\ call' = [call EXCEPT ![k] = [@ EXCEPT !.phase = "end"]]
       \/ /\ call[k].result.value # 0
          /\ call' = [call EXCEPT ![k] = [@ EXCEPT
                         !.phase = IF InsertsSucceed(k) THEN "commit" ELSE "raised",
                         !.at = now]]
    /\ UNCHANGED <<now, redisVars, cronVars, signals, faults>>

Commits(r) ==
    /\ call[r].phase = "commit"
    /\ signals' = [signals EXCEPT ![r] = call[r].at]
    /\ call' = [call EXCEPT ![r] = [@ EXCEPT !.phase = "end"]]
    /\ UNCHANGED <<now, redisVars, cronVars, faults>>

-----------------------------------------------------------------------------
(* scheduled_signals *)

CronStarts(c) ==
    /\ call[c].phase = "idle"
    /\ now >= CronAt[c]
    /\ call' = [call EXCEPT ![c] = [@ EXCEPT !.phase = "loop"]]
    /\ todo' = [todo EXCEPT ![c] = Strategies]
    /\ startedAt' = [startedAt EXCEPT ![c] = now]
    /\ UNCHANGED <<now, redisVars, signals, faults>>

\* The last_run key lives for two intervals, longer than it matters.
WithinInterval(s) == lastRun[s] # None /\ now - lastRun[s] < Interval[s]

CronSkips(c, s) ==
    /\ call[c].phase = "loop"
    /\ s \in todo[c]
    /\ WithinInterval(s)
    /\ todo' = [todo EXCEPT ![c] = @ \ {s}]
    /\ UNCHANGED <<now, redisVars, call, startedAt, signals, faults>>

CronBegins(c, s) ==
    /\ call[c].phase = "loop"
    /\ s \in todo[c]
    /\ ~WithinInterval(s)
    /\ call' = [call EXCEPT ![c] = [NoCall EXCEPT !.phase = "evaluate", !.strategy = s]]
    /\ UNCHANGED <<now, redisVars, todo, startedAt, signals, faults>>

\* Mutant: the first strategy that raises ends the run.
RemainingAfterAborts(c) ==
    IF call[c].phase = "raised" THEN {} ELSE todo[c] \ {call[c].strategy}

Remaining(c) == todo[c] \ {call[c].strategy}

\* The run time is recorded whatever the outcome; an exception is logged.
CronRecords(c) ==
    /\ call[c].phase \in {"end", "vetoed", "raised"}
    /\ lastRun' = [lastRun EXCEPT ![call[c].strategy] = now]
    /\ todo' = [todo EXCEPT ![c] = Remaining(c)]
    /\ call' = [call EXCEPT ![c] = [NoCall EXCEPT !.phase = "loop"]]
    /\ UNCHANGED <<now, daily, cooldownUntil, startedAt, signals, faults>>

CronEnds(c) ==
    /\ call[c].phase = "loop"
    /\ todo[c] = {}
    /\ call' = [call EXCEPT ![c] = [@ EXCEPT !.phase = "done"]]
    /\ UNCHANGED <<now, redisVars, cronVars, signals, faults>>

\* Redis or the database fails outside a strategy's own try: in list_active, in reading
\* a last run, or in recording one.  The outer except logs it, and the job returns with
\* the strategies it has not served left to the next run.
CronFails(c) ==
    /\ \/ call[c].phase = "loop" /\ todo[c] # {}
       \/ call[c].phase \in {"end", "vetoed", "raised"}
    /\ faults < MaxFaults
    /\ faults' = faults + 1
    /\ call' = [call EXCEPT ![c] = [@ EXCEPT !.phase = "failed"]]
    /\ UNCHANGED <<now, redisVars, cronVars, signals>>

CronRunning(c) == call[c].phase \notin {"idle", "done", "failed", "killed"}

\* The worker dies: arq starts the run again, and nothing was recorded.
CronDies(c) ==
    /\ CronRunning(c)
    /\ faults < MaxFaults
    /\ faults' = faults + 1
    /\ call' = [call EXCEPT ![c] = NoCall]
    /\ UNCHANGED <<now, redisVars, cronVars, signals>>

CronCalling(c) == call[c].phase \in {"evaluate", "cap", "cooldown", "set", "emit", "commit"}

\* job_timeout cancels the coroutine: the finally clause records the run time.
CronTimesOut(c) ==
    /\ CronCalling(c)
    /\ faults < MaxFaults
    /\ faults' = faults + 1
    /\ lastRun' = [lastRun EXCEPT ![call[c].strategy] = now]
    /\ call' = [call EXCEPT ![c] = [@ EXCEPT !.phase = "killed"]]
    /\ UNCHANGED <<now, daily, cooldownUntil, cronVars, signals>>

Tick ==
    /\ now < MaxTime
    /\ now' = now + 1
    /\ UNCHANGED <<redisVars, call, cronVars, signals, faults>>

-----------------------------------------------------------------------------

CallStep(k) ==
    \/ Evaluate(k)
    \/ PassesCap(k)
    \/ ChecksCooldown(k)
    \/ SetsCooldown(k)
    \/ Emits(k)

CronStep(c) ==
    \/ CronStarts(c)
    \/ \E s \in Strategies : CronSkips(c, s) \/ CronBegins(c, s)
    \/ CallStep(c)
    \/ CronRecords(c)
    \/ CronEnds(c)

RequestStep(r) ==
    \/ \E s \in Strategies : RequestGenerates(r, s) \/ RequestForces(r, s)
    \/ CallStep(r)
    \/ Commits(r)

Next ==
    \/ \E r \in Requests : RequestStep(r)
    \/ \E c \in Crons : CronStep(c) \/ CronFails(c) \/ CronDies(c) \/ CronTimesOut(c)
    \/ Tick

Spec == Init /\ [][Next]_vars

-----------------------------------------------------------------------------
(* Properties. *)

Fired(r, s) == signals[r] # None /\ call[r].strategy = s

\* The signals of a strategy that entered the market on a day.
FiredOn(s, d) == {r \in Requests : Fired(r, s) /\ Day(signals[r]) = d}

\* What is left of the "hard cap on signals fired per UTC day": it bounds the signals of
\* the calls counted on a day, however many race, and so a day's own signals but for
\* those that were not counted on it, being forced or of a call that asked before
\* midnight.
CapMissesOnlyUncounted ==
    \A s \in Strategies, d \in {Day(t) : t \in Time} :
        MaxDaily[s] # Unset =>
            /\ Cardinality({r \in Requests : Fired(r, s) /\ call[r].day = d}) <= MaxDaily[s]
            /\ Cardinality(FiredOn(s, d))
                  <= MaxDaily[s] + Cardinality({r \in FiredOn(s, d) : call[r].day # d})

\* How long after its cooldown was set a signal entered.
Delay(r) == signals[r] - call[r].set

\* What is left of the "minimum gap between consecutive signals": when the later call
\* asked after the earlier one had set the key, the gap is short by no more than what
\* the earlier one took from there to its signal.  Calls that overlapped, or met within
\* one tick, and forced signals, which ask for no key and set none, may be closer.
GapShortByDelayOnly ==
    \A s \in Strategies, r, q \in Requests :
        Fired(r, s) /\ Fired(q, s) /\ call[r].set # None /\ call[q].checked # None =>
            (call[q].checked > call[r].set
                => signals[q] - signals[r] >= Cooldown[s] - Delay(r))

\* A cron run has served every strategy it has behind it: each was run less than its
\* interval before the run began, or since, whatever other strategies raised and other
\* runs did meanwhile.  Nothing is left when it ends, unless Redis or the database has
\* failed the run itself.
EveryStrategyIsServed ==
    \A c \in Crons :
        /\ call[c].phase # "idle" =>
              \A s \in Strategies \ todo[c] :
                  lastRun[s] # None /\ startedAt[c] - lastRun[s] < Interval[s]
        /\ call[c].phase = "done" => todo[c] = {}

\* Whatever class a strategy that is evaluated has, it favours no side: the opposite market
\* gets the opposite signal with the same confidence.  The exception is an RSI of 0, in a
\* market that only fell: it is read as 50, where 100, in one that only rose, is read as
\* it is.
VerdictsMirror ==
    \A k \in Callers : call[k].phase = "evaluate" => Classes \subseteq Unbiased

=============================================================================
