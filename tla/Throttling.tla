----------------------------- MODULE Throttling -----------------------------
(***************************************************************************)
(* What stands between a request or a delivery and its being served, where *)
(* time and counters decide: the API's limit per key                       *)
(* (app/api/middleware/rate_limit.py), and for a delivery the channel's    *)
(* filters, the subscription's quiet hours and hourly limit and the        *)
(* channel's limit per minute (app/workers/deliver_signal.py).             *)
(*                                                                         *)
(* A limit is a counter in Redis under a key that names the window, with a *)
(* time to live that every count sets again.  The key is made from the     *)
(* clock, and the counter is incremented some time after: a worker's loop  *)
(* may be busy with something else in between.                             *)
(***************************************************************************)
EXTENDS Integers, Sequences, FiniteSets

CONSTANTS
    Requests,       \* HTTP requests and deliveries
    Kind,           \* [Requests -> {"api", "delivery"}]
    Gates,          \* [Requests -> the buckets it must pass, in order: one at least]
    ApiBuckets,     \* an API key, or the one bucket of all requests without one
    Buckets,        \* those, subscriptions' hours and channels' minutes
    Limit, Length,  \* [Buckets -> ...]: calls per window, and its length in ticks
    Signal,         \* [Requests -> the signal to deliver: [strength, type, long]]
    Filter,         \* [Requests -> the channel's filters]
    Quiet,          \* [Requests -> the subscription's quiet hours, or NoQuiet]
    NoQuiet,
    ZoneNames,      \* what subscriptions name as their timezone: nothing checks it
    Zones,          \* those there are in the timezone database
    ClockAt,        \* [Zones -> [ticks -> the local time]]
    Workloads,      \* bound: the sets of requests that are looked at together
    MaxNow,         \* bound: ticks
    MaxStall        \* bound: ticks between making a key and counting under it

TradeTypes == {"options", "spot", "futures"}

\* NotificationChannelConfig: what a channel lets through; no types are all types.
Filters == [enabled: BOOLEAN, strength: Nat, types: SUBSET TradeTypes,
            direction: {"both", "long_only", "short_only"}]

\* _validate_hhmm takes an hour below ten with one digit or two.  (It takes more zeros before
\* the hour, and a minute of one digit, too: those are left out.)
Times == {t \in [hour: 0..23, minute: 0..59, digits: {1, 2}] : t.digits = 1 => t.hour < 10}

\* The clock writes two digits.
ClockTimes == {t \in Times : t.digits = 2}

ASSUME ThrottlingAssumption ==
    /\ Kind \in [Requests -> {"api", "delivery"}]
    /\ \A r \in Requests : Gates[r] \in Seq(Buckets) /\ Gates[r] # <<>>
    /\ ApiBuckets \subseteq Buckets
    /\ \A b \in Buckets : Limit[b] \in Nat \ {0} /\ Length[b] \in Nat \ {0}
    /\ Signal \in [Requests -> [strength: Nat, type: TradeTypes, long: BOOLEAN]]
    /\ Filter \in [Requests -> Filters]
    /\ Quiet \in [Requests -> [start: Times, end: Times, zone: ZoneNames] \union {NoQuiet}]
    /\ ClockAt \in [Zones -> [0..MaxNow -> ClockTimes]]
    /\ MaxNow \in Nat
    /\ Workloads \subseteq SUBSET Requests
    /\ MaxStall \in Nat

VARIABLES
    now,
    phase,          \* [Requests -> where it is]
    gate,           \* [Requests -> the gate it is at]
    stamp,          \* [Requests -> when it made the key of that gate]
    counter,        \* [Buckets -> [windows -> the counter]]
    expires,        \* [Buckets -> [windows -> when the counter goes]]
    passes          \* the calls that passed a gate: [who, bucket, window, at]

vars == <<now, phase, gate, stamp, counter, expires, passes>>

Windows == 0..MaxNow

Phase == {"unmade", "new", "stamp", "count", "served", "refused", "filtered", "quiet", "error"}

TypeOK ==
    /\ now \in 0..MaxNow
    /\ phase \in [Requests -> Phase]
    /\ gate \in [Requests -> Nat]
    /\ \A r \in Requests : gate[r] \in 1..Len(Gates[r])
    /\ stamp \in [Requests -> 0..MaxNow]
    /\ counter \in [Buckets -> [Windows -> Nat]]
    /\ expires \in [Buckets -> [Windows -> Nat]]
    /\ passes \subseteq [who: Requests, bucket: Buckets, window: Windows, at: 0..MaxNow]

Init ==
    /\ now = 0
    /\ \E made \in Workloads : phase = [r \in Requests |-> IF r \in made THEN "new" ELSE "unmade"]
    /\ gate = [r \in Requests |-> 1]
    /\ stamp = [r \in Requests |-> 0]
    /\ counter = [b \in Buckets |-> [w \in Windows |-> 0]]
    /\ expires = [b \in Buckets |-> [w \in Windows |-> 0]]
    /\ passes = {}

-----------------------------------------------------------------------------
\* The filters of a notification channel.

\* A signal the channel wants: it is switched on, and strength, type and direction fit.
Wanted(filter, signal) ==
    /\ filter.enabled
    /\ signal.strength >= filter.strength
    /\ filter.types = {} \/ signal.type \in filter.types
    /\ filter.direction = "both" \/ (filter.direction = "long_only") = signal.long

-----------------------------------------------------------------------------
\* Quiet hours.  Times are compared as the strings they are written as.  The clock's has
\* two digits of hours; the subscription's may have one, and then the colon after it, which
\* comes after every digit, is compared with the clock's second one.

TextOrder(time) ==
    time.minute + 60 * (IF time.digits = 2 THEN 2 * time.hour ELSE 2 * (10 * time.hour + 9) + 1)

Before(a, b) == TextOrder(a) < TextOrder(b)

\* Mutant: a window over midnight is taken for one within the day.
InQuietWindowSameDay(quiet, t) == ~Before(t, quiet.start) /\ Before(t, quiet.end)

InQuietWindow(quiet, t) ==
    IF ~Before(quiet.end, quiet.start)
    THEN ~Before(t, quiet.start) /\ Before(t, quiet.end)
    ELSE ~Before(t, quiet.start) \/ Before(t, quiet.end)

\* A timezone that is not there is an exception, caught: no hour is quiet.
IsQuietHour(r) ==
    /\ Quiet[r] # NoQuiet
    /\ Quiet[r].zone \in Zones
    /\ InQuietWindow(Quiet[r], ClockAt[Quiet[r].zone][now])

\* A delivery is held against the filters and the quiet hours before it is counted.  The key
\* of the first gate is made in the same breath.
Arrive(r) ==
    /\ phase[r] = "new"
    /\ phase' = [phase EXCEPT ![r] =
                    IF Kind[r] = "api" THEN "count"
                    ELSE IF ~Wanted(Filter[r], Signal[r]) THEN "filtered"
                    ELSE IF IsQuietHour(r) THEN "quiet" ELSE "count"]
    /\ stamp' = [stamp EXCEPT ![r] = now]
    /\ UNCHANGED <<now, gate, counter, expires, passes>>

-----------------------------------------------------------------------------
\* The gates.

Bucket(r) == Gates[r][gate[r]]

\* Mutant: the keys of deliveries are made from a finer clock.
WindowOfTick(b, t) == IF b \in ApiBuckets THEN t \div Length[b] ELSE t

WindowOf(b, t) == t \div Length[b]

\* The worker is back from one gate and makes the key of the next.
Stamp(r) ==
    /\ phase[r] = "stamp"
    /\ stamp' = [stamp EXCEPT ![r] = now]
    /\ phase' = [phase EXCEPT ![r] = "count"]
    /\ UNCHANGED <<now, gate, counter, expires, passes>>

\* Mutant: the API's counters live as long as their window.
TimeToLiveShort(b) == Length[b]

\* Two windows for the API's counters, one for the others.
TimeToLive(b) == IF b \in ApiBuckets THEN 2 * Length[b] ELSE Length[b]

\* Mutant: one too many.
OverByOne(count, limit) == count > limit + 1

Over(count, limit) == count > limit

IsLastGate(r) == gate[r] = Len(Gates[r])

\* INCR and EXPIRE, in one transaction of Redis.
Count(r) ==
    LET b == Bucket(r)
        w == WindowOf(b, stamp[r])
        count == IF now < expires[b][w] THEN counter[b][w] + 1 ELSE 1
    IN  /\ phase[r] = "count"
        /\ counter' = [counter EXCEPT ![b][w] = count]
        /\ expires' = [expires EXCEPT ![b][w] = now + TimeToLive(b)]
        /\ IF Over(count, Limit[b])
           THEN phase' = [phase EXCEPT ![r] = "refused"] /\ UNCHANGED <<gate, passes>>
           ELSE /\ passes' = passes \union {[who |-> r, bucket |-> b, window |-> w, at |-> now]}
                /\ IF IsLastGate(r)
                   THEN phase' = [phase EXCEPT ![r] = "served"] /\ UNCHANGED gate
                   ELSE /\ phase' = [phase EXCEPT ![r] = "stamp"]
                        /\ gate' = [gate EXCEPT ![r] = @ + 1]
        /\ UNCHANGED <<now, stamp>>

\* Redis cannot be reached: the API lets the request through, and the delivery fails and
\* is retried, which no limit is asked about.
RedisFails(r) ==
    /\ phase[r] = "count"
    /\ phase' = [phase EXCEPT ![r] = IF Kind[r] = "api" THEN "served" ELSE "error"]
    /\ UNCHANGED <<now, gate, stamp, counter, expires, passes>>

Tick ==
    /\ now < MaxNow
    /\ \A r \in Requests : phase[r] = "count" => now - stamp[r] < MaxStall
    /\ now' = now + 1
    /\ UNCHANGED <<phase, gate, stamp, counter, expires, passes>>

Next == Tick \/ \E r \in Requests : Arrive(r) \/ Stamp(r) \/ Count(r) \/ RedisFails(r)

Spec == Init /\ [][Next]_vars

-----------------------------------------------------------------------------

PassedIn(b, w) == {p \in passes : p.bucket = b /\ p.window = w}

\* Calls counted when the window they belong to was over.
Late(ps) == {p \in ps : p.at >= (p.window + 1) * Length[p.bucket]}

Limiter == INSTANCE FixedWindow WITH
    Buckets <- ApiBuckets,
    passed <- [b \in ApiBuckets |-> [w \in Windows |-> Cardinality(PassedIn(b, w))]]

\* The API's limiter is a fixed-window limiter, though a call may be counted after its
\* window: the counter lives for two windows, so it is still there.
ImplementsFixedWindow == Limiter!Spec

\* No window of any bucket lets more through than its limit, but for calls that were counted
\* after it: a counter that lives no longer than its window is gone by then.
WindowsAreKept ==
    \A b \in Buckets, w \in Windows :
        Cardinality(PassedIn(b, w)) <= Limit[b] + Cardinality(Late(PassedIn(b, w)))

\* In any stretch of time as long as a window, wherever it begins, at most twice the limit
\* passes, late calls apart: the end of one window and the beginning of the next.
TwiceTheLimitAtMost ==
    \A b \in Buckets, t \in 0..MaxNow :
        LET within == {p \in passes : p.bucket = b /\ t <= p.at /\ p.at < t + Length[b]}
        IN  Cardinality(within \ Late(within)) <= 2 * Limit[b]

\* Minutes since midnight.
OfDay(time) == 60 * time.hour + time.minute

\* A delivery is held back for quiet hours exactly when the local time it arrived at lies
\* between those the subscription names, over midnight or not, if their hours are written
\* with two digits and the timezone is one there is.  (With one digit, "9:00" is after
\* "17:00".)  With a timezone there is not it is never held back, whatever the time.
QuietHoursAreKept ==
    \A r \in Requests :
        (/\ Kind[r] = "delivery" /\ phase[r] \in {"count", "quiet"} /\ gate[r] = 1
         /\ Quiet[r] # NoQuiet /\ Quiet[r].start.digits = 2 /\ Quiet[r].end.digits = 2)
        => LET from == OfDay(Quiet[r].start)
               until == OfDay(Quiet[r].end)
               time == OfDay(ClockAt[Quiet[r].zone][stamp[r]])
           IN  (phase[r] = "quiet")
                   <=> /\ Quiet[r].zone \in Zones
                       /\ (time - from + 1440) % 1440 < (until - from + 1440) % 1440

=============================================================================
