--------------------------- MODULE CircuitBreaker ---------------------------
(***************************************************************************)
(* The circuit breaker of one channel (app/core/circuit_breaker.py) and    *)
(* the calls that consult it and report to it, the sends of concurrent     *)
(* deliver_signal jobs (app/workers/deliver_signal.py).                    *)
(*                                                                         *)
(* The breaker is two Redis keys, a failure counter and an "open" flag,    *)
(* each with a time to live.  A Redis command, or a pipeline, is atomic;   *)
(* record_failure is a pipeline followed by a second command.  Time passes *)
(* in ticks; a key whose time to live reaches 0 is gone.                   *)
(***************************************************************************)
EXTENDS Integers, Sequences, SequencesExt

CONSTANTS
    Calls,              \* sends that may be in flight at once
    \* The settings of config.py, which a channel's cb_* fields override (each ge=1, none
    \* bounded by another); they stay as they are for a behaviour.
    FailureThreshold,   \* circuit_breaker_failure_threshold
    RecoveryTimeout,    \* circuit_breaker_recovery_timeout_seconds, in ticks
    WindowSeconds,      \* circuit_breaker_window_seconds, in ticks
    MaxCount,           \* bound on the failure counter
    MaxCrashes          \* bound: workers that die during a call

ASSUME BreakerAssumption ==
    /\ {FailureThreshold, RecoveryTimeout, WindowSeconds} \subseteq Nat \ {0}
    /\ {MaxCount, MaxCrashes} \subseteq Nat

VARIABLES
    count, countTtl,    \* cb:failures:<channel>: value and seconds left
    openTtl,            \* cb:open:<channel>: seconds left, 0 when absent
    call,               \* where each call is
    recent,             \* history: of the last failures since a success, how long
                        \* after the failure before it each happened
    since,              \* history: the time since the last failure
    crashes

historyVars == <<recent, since>>
vars == <<count, countTtl, openTtl, call, recent, since, crashes>>

-----------------------------------------------------------------------------

\* A time of WindowSeconds stands for that long or longer.
AtMostWindow(n) == IF n < WindowSeconds THEN n ELSE WindowSeconds

\* "trip": the pipeline has run and the counter it returned reached the threshold.
TypeOK ==
    /\ count \in Nat
    /\ countTtl \in 0..WindowSeconds
    /\ openTtl \in 0..RecoveryTimeout
    /\ call \in [Calls -> {"idle", "send", "trip"}]
    /\ recent \in Seq(0..WindowSeconds)
    /\ since \in 0..WindowSeconds
    /\ crashes \in 0..MaxCrashes

Init ==
    /\ count = 0
    /\ countTtl = 0
    /\ openTtl = 0
    /\ call = [c \in Calls |-> "idle"]
    /\ recent = <<>>
    /\ since = WindowSeconds
    /\ crashes = 0

-----------------------------------------------------------------------------

IsOpen == openTtl > 0

\* Mutant: the caller forgets to ask the breaker.
CallStartsUnasked(c) ==
    /\ call[c] = "idle"
    /\ call' = [call EXCEPT ![c] = "send"]
    /\ UNCHANGED <<count, countTtl, openTtl, historyVars, crashes>>

\* deliver_signal asks, and goes on to send.
CallStarts(c) ==
    /\ call[c] = "idle"
    /\ ~IsOpen
    /\ call' = [call EXCEPT ![c] = "send"]
    /\ UNCHANGED <<count, countTtl, openTtl, historyVars, crashes>>

\* The last FailureThreshold entries are all the properties look at.
Remember(gap) ==
    LET seen == Append(recent, gap) IN
    IF Len(seen) > FailureThreshold THEN Tail(seen) ELSE seen

\* Mutant: ">" for ">=".
ReachesThresholdLate(n) == n > FailureThreshold

ReachesThreshold(n) == n >= FailureThreshold

\* INCR and EXPIRE in one pipeline.
RecordFailure(c) ==
    /\ call[c] = "send"
    /\ count < MaxCount
    /\ count' = count + 1
    /\ countTtl' = WindowSeconds
    /\ call' = [call EXCEPT ![c] = IF ReachesThreshold(count + 1) THEN "trip" ELSE "idle"]
    /\ recent' = Remember(since)
    /\ since' = 0
    /\ UNCHANGED <<openTtl, crashes>>

\* The SETEX of record_failure.
Trip(c) ==
    /\ call[c] = "trip"
    /\ openTtl' = RecoveryTimeout
    /\ call' = [call EXCEPT ![c] = "idle"]
    /\ UNCHANGED <<count, countTtl, historyVars, crashes>>

\* Mutant: a success closes the breaker but leaves the counter.
RecordSuccessKeepsCount(c) ==
    /\ call[c] = "send"
    /\ openTtl' = 0
    /\ call' = [call EXCEPT ![c] = "idle"]
    /\ recent' = <<>>
    /\ since' = WindowSeconds
    /\ UNCHANGED <<count, countTtl, crashes>>

\* DEL of both keys.
RecordSuccess(c) ==
    /\ call[c] = "send"
    /\ count' = 0
    /\ countTtl' = 0
    /\ openTtl' = 0
    /\ call' = [call EXCEPT ![c] = "idle"]
    /\ recent' = <<>>
    /\ since' = WindowSeconds
    /\ UNCHANGED crashes

\* The worker dies, or the send is cancelled by a timeout: nothing is reported.
CallDies(c) ==
    /\ call[c] # "idle"
    /\ crashes < MaxCrashes
    /\ crashes' = crashes + 1
    /\ call' = [call EXCEPT ![c] = "idle"]
    /\ UNCHANGED <<count, countTtl, openTtl, historyVars>>

Lower(n) == IF n = 0 THEN 0 ELSE n - 1

\* A tick passes: Redis drops the keys whose time to live ends.
Tick ==
    /\ countTtl' = Lower(countTtl)
    /\ count' = IF Lower(countTtl) = 0 THEN 0 ELSE count
    /\ openTtl' = Lower(openTtl)
    /\ since' = AtMostWindow(since + 1)
    /\ UNCHANGED <<call, recent, crashes>>

Next ==
    \/ \E c \in Calls : \/ CallStarts(c) \/ RecordFailure(c) \/ Trip(c)
                        \/ RecordSuccess(c) \/ CallDies(c)
    \/ Tick

Spec == Init /\ [][Next]_vars

\* Time passes; a send may take for ever and nobody has to start one.
FairSpec == Spec /\ WF_vars(Tick)
-----------------------------------------------------------------------------
(* Properties. *)

\* The last failures, each less than WindowSeconds after the one before it: the
\* n-th last belongs to the run when all the gaps after it are that small.
Run ==
    LET back == Reverse(recent) IN
    {n \in 1..Len(recent) : \A i \in 1..(n - 1) : back[i] < WindowSeconds}

\* The breaker counts runs of failures: what the counter holds, as far as the
\* threshold can tell, is the number of failures since the last success that follow
\* each other within a window, and the counter is gone a window after the last one.
CountIsRun ==
    LET capped == IF count < FailureThreshold THEN count ELSE FailureThreshold IN
    IF since = WindowSeconds THEN count = 0
    ELSE \A n \in 1..FailureThreshold : n <= capped <=> n \in Run

\* A breaker that is closed although it counts as many failures as its threshold, and
\* that no call is about to open, has been through its recovery timeout since the last
\* of them: nothing else lets calls at a failing channel again, unless a worker died
\* between the two commands of record_failure.  So the counter of a closed breaker is
\* below its threshold when the flag outlives the window (300 s and 60 s by default), and
\* a channel with a shorter recovery timeout is opened again by its first failure.
FullCountHasWaited ==
    crashes = 0 /\ ~IsOpen /\ (\A c \in Calls : call[c] # "trip")
        => \/ count < FailureThreshold
           \/ RecoveryTimeout <= since /\ since < WindowSeconds

\* An open breaker closes again: calls in flight may open it anew, but only so often,
\* and no new call starts before it has closed.
OpenLapses == IsOpen ~> ~IsOpen
=============================================================================
