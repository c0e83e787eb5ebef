------------------------ MODULE CircuitBreakerProofs ------------------------
(* What the two time-to-live keys of the circuit breaker guarantee, for every *)
(* number of concurrent calls, threshold, window and recovery time.           *)
EXTENDS CircuitBreaker, TLAPS

\* The history of failures stays a sequence of gaps.
LEMMA RememberType ==
    ASSUME recent \in Seq(0..WindowSeconds), since \in 0..WindowSeconds
    PROVE  Remember(since) \in Seq(0..WindowSeconds)
<1> DEFINE seen == Append(recent, since)
<1>1. seen \in Seq(0..WindowSeconds) /\ Len(seen) = Len(recent) + 1
  OBVIOUS
<1>2. seen # <<>>
  BY <1>1
<1>3. Tail(seen) \in Seq(0..WindowSeconds)
  BY <1>1, <1>2
<1>. QED
  BY <1>1, <1>3 DEF Remember

\* TypeOK is an invariant.
THEOREM TypeCorrect == Spec => []TypeOK
<1>1. Init => TypeOK
  BY BreakerAssumption DEF Init, TypeOK
<1>2. TypeOK /\ [Next]_vars => TypeOK'
  <2> SUFFICES ASSUME TypeOK, [Next]_vars PROVE TypeOK'
    OBVIOUS
  <2> USE BreakerAssumption DEF TypeOK
  <2>1. ASSUME NEW c \in Calls, CallStarts(c) PROVE TypeOK'
    BY <2>1 DEF CallStarts, historyVars
  <2>2. ASSUME NEW c \in Calls, RecordFailure(c) PROVE TypeOK'
    BY <2>2, RememberType DEF RecordFailure
  <2>3. ASSUME NEW c \in Calls, Trip(c) PROVE TypeOK'
    BY <2>3 DEF Trip, historyVars
  <2>4. ASSUME NEW c \in Calls, RecordSuccess(c) PROVE TypeOK'
    <3>1. <<>> \in Seq(0..WindowSeconds)
      OBVIOUS
    <3>. QED BY <2>4, <3>1 DEF RecordSuccess
  <2>5. ASSUME NEW c \in Calls, CallDies(c) PROVE TypeOK'
    BY <2>5 DEF CallDies, historyVars
  <2>6. CASE Tick
    BY <2>6 DEF Tick, Lower, AtMostWindow
  <2>7. CASE UNCHANGED vars
    BY <2>7 DEF vars
  <2>. QED
    BY <2>1, <2>2, <2>3, <2>4, <2>5, <2>6, <2>7 DEF Next
<1>. QED
  BY <1>1, <1>2, PTL DEF Spec

-----------------------------------------------------------------------------

\* As long as no worker has died, a counter at the threshold has set the flag, a recovery
\* timeout ago at the latest, or is about to; and it is not there a window after the last
\* failure.
FlagFollowsFailure ==
    /\ since = WindowSeconds - countTtl
    /\ countTtl = 0 => count = 0
    /\ crashes = 0 /\ count >= FailureThreshold =>
          \/ \E c \in Calls : call[c] = "trip"
          \/ openTtl + since >= RecoveryTimeout

\* Every step of the breaker keeps FlagFollowsFailure.
LEMMA FlagFollowsFailureStep ==
    TypeOK /\ FlagFollowsFailure /\ [Next]_vars => FlagFollowsFailure'
<1> SUFFICES ASSUME TypeOK, FlagFollowsFailure, [Next]_vars PROVE FlagFollowsFailure'
  OBVIOUS
<1> USE BreakerAssumption DEF TypeOK, FlagFollowsFailure
<1>1. ASSUME NEW c \in Calls, CallStarts(c) PROVE FlagFollowsFailure'
  BY <1>1 DEF CallStarts, historyVars
<1>2. ASSUME NEW c \in Calls, RecordFailure(c) PROVE FlagFollowsFailure'
  <2>1. countTtl' # 0 /\ since' = WindowSeconds - countTtl'
    BY <1>2 DEF RecordFailure
  <2>2. count' >= FailureThreshold => call'[c] = "trip"
    BY <1>2 DEF RecordFailure, ReachesThreshold
  <2>. QED BY <2>1, <2>2
<1>3. ASSUME NEW c \in Calls, Trip(c) PROVE FlagFollowsFailure'
  <2>1. openTtl' + since' >= RecoveryTimeout
    BY <1>3 DEF Trip, historyVars
  <2>. QED BY <1>3, <2>1 DEF Trip, historyVars
<1>4. ASSUME NEW c \in Calls, RecordSuccess(c) PROVE FlagFollowsFailure'
  BY <1>4 DEF RecordSuccess
<1>5. ASSUME NEW c \in Calls, CallDies(c) PROVE FlagFollowsFailure'
  <2>1. crashes' # 0
    BY <1>5 DEF CallDies
  <2>. QED BY <1>5, <2>1 DEF CallDies, historyVars
<1>6. CASE Tick
  <2>1. /\ since' = WindowSeconds - countTtl'
        /\ countTtl' = 0 => count' = 0
    BY <1>6 DEF Tick, Lower, AtMostWindow
  <2>2. count' >= FailureThreshold => count >= FailureThreshold /\ countTtl > 1
    BY <1>6 DEF Tick, Lower
  <2>3. ASSUME countTtl > 1, openTtl + since >= RecoveryTimeout
        PROVE  openTtl' + since' >= RecoveryTimeout
    <3>1. /\ openTtl \in Nat /\ since \in Nat /\ RecoveryTimeout \in Nat
          /\ since + 1 < WindowSeconds \/ since + 1 = WindowSeconds
      BY <2>3
    <3>2. since' = since + 1
      BY <1>6, <3>1 DEF Tick, AtMostWindow
    <3>3. openTtl' = IF openTtl = 0 THEN 0 ELSE openTtl - 1
      BY <1>6 DEF Tick, Lower
    <3> HIDE DEF TypeOK, FlagFollowsFailure
    <3>. QED BY <2>3, <3>1, <3>2, <3>3
  <2>. QED BY <1>6, <2>1, <2>2, <2>3 DEF Tick
<1>7. CASE UNCHANGED vars
  BY <1>7 DEF vars
<1>. QED
  BY <1>1, <1>2, <1>3, <1>4, <1>5, <1>6, <1>7 DEF Next

\* FullCountHasWaited is an invariant, whatever the three settings of a channel are: the
\* flag of the last failure is set after it, and lives for the recovery timeout.
THEOREM FullCountsHaveWaited == Spec => []FullCountHasWaited
<1>1. Init => FlagFollowsFailure
  BY BreakerAssumption DEF Init, FlagFollowsFailure
<1>2. TypeOK /\ FlagFollowsFailure => FullCountHasWaited
  BY BreakerAssumption
     DEF TypeOK, FlagFollowsFailure, FullCountHasWaited, IsOpen
<1>. QED
  BY <1>1, <1>2, TypeCorrect, FlagFollowsFailureStep, PTL DEF Spec

-----------------------------------------------------------------------------
(* The counter and the runs of failures. *)

\* The i-th last failure of a history s, counted from 1.
Back(s, i) == s[Len(s) - i + 1]

\* The n-th last failure of s belongs to the run.
InRun(s, n) == n \in 1..Len(s) /\ \A i \in 1..(n - 1) : Back(s, i) < WindowSeconds

\* The key has as long to live as the last failure is from being a window ago, and what
\* it holds is the run's length as far as the threshold can tell.
CountedRun ==
    /\ Len(recent) <= FailureThreshold
    /\ since = WindowSeconds - countTtl
    /\ countTtl = 0 => count = 0
    /\ since < WindowSeconds =>
          \A n \in 1..FailureThreshold : n <= count <=> InRun(recent, n)

LEMMA RunIsInRun ==
    ASSUME TypeOK
    PROVE  \A n \in Nat : n \in Run <=> InRun(recent, n)
<1>1. recent \in Seq(0..WindowSeconds) /\ Len(recent) \in Nat
  BY DEF TypeOK
<1>2. \A i \in 1..Len(recent) : Reverse(recent)[i] = Back(recent, i)
  BY <1>1 DEF Reverse, Back
<1>3. ASSUME NEW n \in Nat PROVE n \in Run <=> InRun(recent, n)
  <2>1. n \in 1..Len(recent) => \A i \in 1..(n - 1) : i \in 1..Len(recent)
    BY <1>1
  <2>. QED BY <1>2, <2>1 DEF Run, InRun
<1>. QED BY <1>3

\* What a failure adds to the history, and what it pushes one place back.
LEMMA Remembered ==
    ASSUME TypeOK, Len(recent) <= FailureThreshold
    PROVE  LET s == Remember(since) IN
           /\ Len(s) = IF Len(recent) < FailureThreshold THEN Len(recent) + 1
                                                         ELSE FailureThreshold
           /\ Back(s, 1) = since
           /\ \A i \in 2..Len(s) : Back(s, i) = Back(recent, i - 1)
<1> DEFINE seen == Append(recent, since)
           s == Remember(since)
           m == Len(recent)
<1>1. /\ recent \in Seq(0..WindowSeconds) /\ since \in 0..WindowSeconds
      /\ m \in Nat /\ FailureThreshold \in Nat \ {0}
  BY BreakerAssumption DEF TypeOK
<1>2. /\ seen \in Seq(0..WindowSeconds)
      /\ Len(seen) = m + 1
      /\ seen[m + 1] = since
      /\ \A i \in 1..m : seen[i] = recent[i]
  BY <1>1
<1>3. CASE m < FailureThreshold
  <2>1. s = seen
    BY <1>1, <1>2, <1>3 DEF Remember
  <2>2. Len(s) = m + 1 /\ Back(s, 1) = since
    BY <1>1, <1>2, <2>1 DEF Back
  <2>3. ASSUME NEW i \in 2..Len(s) PROVE Back(s, i) = Back(recent, i - 1)
    <3>1. Len(s) - i + 1 \in 1..m /\ Len(s) - i + 1 = m - (i - 1) + 1
      BY <1>1, <2>2
    <3>. QED BY <1>2, <2>1, <3>1 DEF Back
  <2>. QED BY <1>3, <2>2, <2>3
<1>4. CASE m = FailureThreshold
  <2>1. s = Tail(seen) /\ Len(s) = m
    BY <1>1, <1>2, <1>4 DEF Remember
  <2>2. \A i \in 1..m : s[i] = seen[i + 1]
    BY <1>1, <1>2, <2>1
  <2>3. Back(s, 1) = since
    BY <1>1, <1>2, <1>4, <2>1, <2>2 DEF Back
  <2>4. ASSUME NEW i \in 2..Len(s) PROVE Back(s, i) = Back(recent, i - 1)
    <3>1. /\ m - i + 1 \in 1..m
          /\ m - i + 2 \in 1..m
          /\ (m - i + 1) + 1 = m - i + 2
          /\ m - (i - 1) + 1 = m - i + 2
      BY <1>1, <2>1
    <3>2. s[m - i + 1] = recent[m - i + 2]
      BY <1>2, <2>2, <3>1
    <3>. QED BY <2>1, <3>1, <3>2 DEF Back
  <2>. QED BY <1>4, <2>1, <2>3, <2>4
<1>. QED BY <1>1, <1>3, <1>4

\* A failure lengthens the run by one, or begins a new one after a window of quiet.
LEMMA FailureCounts ==
    ASSUME TypeOK, TypeOK', CountedRun, NEW c \in Calls, RecordFailure(c)
    PROVE  CountedRun'
<1> DEFINE s == Remember(since)
           m == Len(recent)
<1>1. /\ recent' = s /\ since' = 0 /\ countTtl' = WindowSeconds /\ count' = count + 1
  BY DEF RecordFailure
<1>2. /\ count \in Nat /\ countTtl \in Nat /\ m \in Nat
      /\ since \in 0..WindowSeconds
      /\ WindowSeconds \in Nat \ {0} /\ FailureThreshold \in Nat \ {0}
      /\ m <= FailureThreshold
  BY BreakerAssumption DEF TypeOK, CountedRun
<1>3. /\ Len(s) = IF m < FailureThreshold THEN m + 1 ELSE FailureThreshold
      /\ Back(s, 1) = since
      /\ \A i \in 2..Len(s) : Back(s, i) = Back(recent, i - 1)
  BY Remembered DEF CountedRun
<1> HIDE DEF s, m
<1>4. ASSUME NEW n \in 1..FailureThreshold PROVE n <= count + 1 <=> InRun(s, n)
  <2>1. CASE n = 1
    BY <1>2, <1>3, <2>1 DEF InRun
  <2>2. CASE n > 1 /\ since = WindowSeconds
    <3>1. count = 0
      BY <1>2, <2>2 DEF CountedRun
    <3>2. 1 \in 1..(n - 1)
      BY <2>2
    <3>. QED BY <1>2, <1>3, <2>2, <3>1, <3>2 DEF InRun
  <2>3. CASE n > 1 /\ since < WindowSeconds
    <3>1. n - 1 \in 1..FailureThreshold /\ (n - 1 <= count <=> n <= count + 1)
      BY <1>2, <2>3
    <3>2. n - 1 <= count <=> InRun(recent, n - 1)
      BY <2>3, <3>1 DEF CountedRun
    <3>3. n \in 1..Len(s) <=> n - 1 \in 1..m
      BY <1>2, <1>3, <2>3
    <3>4. ASSUME n \in 1..Len(s)
          PROVE  (\A i \in 1..(n - 1) : Back(s, i) < WindowSeconds)
                 <=> (\A i \in 1..(n - 2) : Back(recent, i) < WindowSeconds)
      <4>1. ASSUME \A i \in 1..(n - 1) : Back(s, i) < WindowSeconds, NEW i \in 1..(n - 2)
            PROVE  Back(recent, i) < WindowSeconds
        <5>1. i + 1 \in 2..Len(s) /\ i + 1 \in 1..(n - 1) /\ (i + 1) - 1 = i
          BY <1>2, <1>3, <3>4
        <5>. QED BY <1>3, <4>1, <5>1
      <4>2. ASSUME \A i \in 1..(n - 2) : Back(recent, i) < WindowSeconds, NEW i \in 1..(n - 1)
            PROVE  Back(s, i) < WindowSeconds
        <5>1. CASE i = 1
          BY <1>3, <2>3, <5>1
        <5>2. CASE i # 1
          <6>1. i \in 2..Len(s) /\ i - 1 \in 1..(n - 2)
            BY <1>2, <1>3, <3>4, <5>2
          <6>. QED BY <1>3, <4>2, <6>1
        <5>. QED BY <5>1, <5>2
      <4>. QED BY <4>1, <4>2
    <3>5. (n - 1) - 1 = n - 2
      OBVIOUS
    <3>. QED BY <3>1, <3>2, <3>3, <3>4, <3>5 DEF InRun, m
  <2>. QED BY <1>2, <2>1, <2>2, <2>3
<1>5. Len(s) <= FailureThreshold
  BY <1>2, <1>3
<1>. QED BY <1>1, <1>2, <1>4, <1>5 DEF CountedRun

LEMMA CountedRunStep == TypeOK /\ TypeOK' /\ CountedRun /\ [Next]_vars => CountedRun'
<1> SUFFICES ASSUME TypeOK, TypeOK', CountedRun, [Next]_vars PROVE CountedRun'
  OBVIOUS
<1> USE BreakerAssumption
<1>1. ASSUME NEW c \in Calls, CallStarts(c) \/ Trip(c) \/ CallDies(c) PROVE CountedRun'
  BY <1>1 DEF CallStarts, Trip, CallDies, historyVars, CountedRun, InRun
<1>2. ASSUME NEW c \in Calls, RecordFailure(c) PROVE CountedRun'
  BY <1>2, FailureCounts
<1>3. ASSUME NEW c \in Calls, RecordSuccess(c) PROVE CountedRun'
  BY <1>3 DEF RecordSuccess, CountedRun
<1>4. CASE Tick
  <2>1. /\ count \in Nat /\ countTtl \in 0..WindowSeconds /\ since \in 0..WindowSeconds
        /\ WindowSeconds \in Nat \ {0}
    BY DEF TypeOK
  <2>2. since' = WindowSeconds - countTtl'
    BY <1>4, <2>1 DEF Tick, Lower, AtMostWindow, CountedRun
  <2>3. countTtl' = 0 => count' = 0
    BY <1>4 DEF Tick
  <2>4. since' < WindowSeconds => since < WindowSeconds /\ count' = count
    BY <1>4, <2>1, <2>2 DEF Tick, AtMostWindow
  <2>5. recent' = recent
    BY <1>4 DEF Tick
  <2>. QED BY <2>2, <2>3, <2>4, <2>5 DEF CountedRun, InRun
<1>5. CASE UNCHANGED vars
  BY <1>5 DEF vars, CountedRun, InRun
<1>. QED BY <1>1, <1>2, <1>3, <1>4, <1>5 DEF Next

\* The two keys of the breaker count runs of failures: what the counter holds is, up to
\* the threshold, the number of failures since the last success that follow each other
\* within a window, because every failure sets the key's time to live again.
THEOREM CounterCountsRuns == Spec => []CountIsRun
<1>1. Init => CountedRun
  BY BreakerAssumption DEF Init, CountedRun
<1>2. TypeOK /\ CountedRun => CountIsRun
  <2> SUFFICES ASSUME TypeOK, CountedRun PROVE CountIsRun
    OBVIOUS
  <2>1. /\ count \in Nat /\ countTtl \in 0..WindowSeconds /\ since \in 0..WindowSeconds
        /\ WindowSeconds \in Nat \ {0} /\ FailureThreshold \in Nat \ {0}
    BY BreakerAssumption DEF TypeOK
  <2>2. CASE since = WindowSeconds
    BY <2>1, <2>2 DEF CountedRun, CountIsRun
  <2>3. CASE since # WindowSeconds
    <3> DEFINE capped == IF count < FailureThreshold THEN count ELSE FailureThreshold
    <3>1. \A n \in 1..FailureThreshold : n <= capped <=> n <= count
      BY <2>1
    <3>2. \A n \in 1..FailureThreshold : n <= count <=> InRun(recent, n)
      BY <2>1, <2>3 DEF CountedRun
    <3>3. \A n \in 1..FailureThreshold : n \in Run <=> InRun(recent, n)
      BY <2>1, RunIsInRun
    <3>. QED BY <2>3, <3>1, <3>2, <3>3 DEF CountIsRun
  <2>. QED BY <2>2, <2>3
<1>3. TypeOK /\ TypeOK' /\ CountedRun /\ [Next]_vars => CountedRun'
  BY CountedRunStep
<1>. QED BY <1>1, <1>2, <1>3, TypeCorrect, PTL DEF Spec
=============================================================================
