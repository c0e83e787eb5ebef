----------------------- MODULE SignalGenerationProofs -----------------------
(* What holds of the signal pipeline for any requests, cron runs, strategies  *)
(* and limits.                                                                *)
EXTENDS SignalGeneration, FiniteSetTheorems, TLAPS

Days == {Day(t) : t \in Time}

\* A call that is under way, or over, is for a strategy; it sets a cooldown only where
\* there is one; and one that has not begun has been nowhere.
ForAStrategy ==
    \A k \in Callers :
        /\ call[k].phase \notin {"idle", "loop", "done", "failed", "killed"} => call[k].strategy \in Strategies
        /\ call[k].phase = "set" => Cooldown[call[k].strategy] # Unset
        /\ call[k].phase = "idle" => call[k].day = None /\ call[k].checked = None /\ call[k].set = None

Typed == TypeOK /\ ForAStrategy

\* The day of a tick is a number, and one of the days there are.
LEMMA DayIsKnown ==
    ASSUME NEW t \in Time
    PROVE  Day(t) \in Days /\ Day(t) \in Nat
<1> DEFINE n == TicksPerDay
<1>1. t \in Nat /\ n \in Nat /\ n > 0
  BY GenerationAssumption DEF Time
<1> HIDE DEF n
<1>2. t \div n \in Nat
  BY <1>1, SMTT(30)
<1>. QED
  BY <1>2 DEF Day, Days, n

-----------------------------------------------------------------------------
(* What one step makes of a call c. *)

AtPhase(c, p) == [c EXCEPT !.phase = p]
Asked(c, s, p) == [c EXCEPT !.strategy = s, !.phase = p]
AskedFor(c, s, x, p) == [c EXCEPT !.strategy = s, !.result = x, !.phase = p]
WithResult(c, p, x) == [c EXCEPT !.phase = p, !.result = x]
WithDay(c, d, p) == [c EXCEPT !.day = d, !.phase = p]
WithCheck(c, t, p) == [c EXCEPT !.checked = t, !.phase = p]
WithSet(c, p, t) == [c EXCEPT !.phase = p, !.set = t]
WithEntry(c, p, t) == [c EXCEPT !.phase = p, !.at = t]

\* The gates' marks on a call.
SameMarks(c, e) == e.day = c.day /\ e.checked = c.checked /\ e.set = c.set

\* Their fields.
LEMMA AtPhaseFields ==
    \A c \in Call, p \in Phase :
        /\ AtPhase(c, p) \in Call /\ AtPhase(c, p).phase = p
        /\ AtPhase(c, p).strategy = c.strategy
        /\ SameMarks(c, AtPhase(c, p))
BY DEF Call, Days, SameMarks, AtPhase

LEMMA AskedFields ==
    \A c \in Call, p \in Phase, s \in Strategies :
        /\ Asked(c, s, p) \in Call /\ Asked(c, s, p).phase = p
        /\ Asked(c, s, p).strategy = s
        /\ SameMarks(c, Asked(c, s, p))
BY DEF Call, Days, SameMarks, Asked

LEMMA AskedForFields ==
    \A c \in Call, p \in Phase, s \in Strategies, x \in Results :
        /\ AskedFor(c, s, x, p) \in Call /\ AskedFor(c, s, x, p).phase = p
        /\ AskedFor(c, s, x, p).strategy = s
        /\ SameMarks(c, AskedFor(c, s, x, p))
<1> TAKE c \in Call, p \in Phase, s \in Strategies, x \in Results
<1>. QED
  BY DEF Call, SameMarks, AskedFor

LEMMA WithResultFields ==
    \A c \in Call, p \in Phase, x \in Results :
        /\ WithResult(c, p, x) \in Call /\ WithResult(c, p, x).phase = p
        /\ WithResult(c, p, x).strategy = c.strategy
        /\ SameMarks(c, WithResult(c, p, x))
BY DEF Call, Days, SameMarks, WithResult

LEMMA WithDayFields ==
    \A c \in Call, p \in Phase, d \in Days :
        /\ WithDay(c, d, p) \in Call /\ WithDay(c, d, p).phase = p
        /\ WithDay(c, d, p).strategy = c.strategy
        /\ WithDay(c, d, p).day = d
        /\ WithDay(c, d, p).checked = c.checked
        /\ WithDay(c, d, p).set = c.set
BY DEF Call, Days, SameMarks, WithDay

LEMMA WithCheckFields ==
    \A c \in Call, p \in Phase, t \in Time :
        /\ WithCheck(c, t, p) \in Call /\ WithCheck(c, t, p).phase = p
        /\ WithCheck(c, t, p).strategy = c.strategy
        /\ WithCheck(c, t, p).day = c.day
        /\ WithCheck(c, t, p).checked = t
        /\ WithCheck(c, t, p).set = c.set
BY DEF Call, Days, SameMarks, WithCheck

LEMMA WithSetFields ==
    \A c \in Call, p \in Phase, t \in Time :
        /\ WithSet(c, p, t) \in Call /\ WithSet(c, p, t).phase = p
        /\ WithSet(c, p, t).strategy = c.strategy
        /\ WithSet(c, p, t).day = c.day
        /\ WithSet(c, p, t).checked = c.checked
        /\ WithSet(c, p, t).set = t
BY DEF Call, Days, SameMarks, WithSet

LEMMA WithEntryFields ==
    \A c \in Call, p \in Phase, t \in Time :
        /\ WithEntry(c, p, t) \in Call /\ WithEntry(c, p, t).phase = p
        /\ WithEntry(c, p, t).strategy = c.strategy
        /\ WithEntry(c, p, t).at = t
        /\ SameMarks(c, WithEntry(c, p, t))
BY DEF Call, Days, SameMarks, WithEntry

Named == Phase \ {"idle", "loop", "done", "failed", "killed"}

\* Replacing a call by one that is for a strategy, if it needs one.
LEMMA Replaced ==
    ASSUME Typed
    PROVE  \A k \in Callers, c \in Call :
               (/\ call' = [call EXCEPT ![k] = c]
                /\ c.phase # "idle" \/ c = NoCall
                /\ c.phase \in Named => c.strategy \in Strategies
                /\ c.phase = "set" => Cooldown[c.strategy] # Unset)
               => /\ call' \in [Callers -> Call] /\ ForAStrategy'
                  /\ call'[k] = c
                  /\ \A q \in Callers : q # k => call'[q] = call[q]
<1> SUFFICES ASSUME NEW k \in Callers, NEW c \in Call,
                    call' = [call EXCEPT ![k] = c],
                    c.phase # "idle" \/ c = NoCall,
                    c.phase \in Named => c.strategy \in Strategies,
                    c.phase = "set" => Cooldown[c.strategy] # Unset
             PROVE  /\ call' \in [Callers -> Call] /\ ForAStrategy'
                    /\ call'[k] = c
                    /\ \A q \in Callers : q # k => call'[q] = call[q]
  OBVIOUS
<1>1. call \in [Callers -> Call] /\ call' \in [Callers -> Call]
  BY DEF Typed, TypeOK
<1>2. call'[k] = c /\ \A q \in Callers : q # k => call'[q] = call[q]
  BY <1>1
<1>3. c.phase \in Phase /\ (c.phase = "idle" => c.day = None /\ c.checked = None /\ c.set = None)
  BY DEF Call, NoCall
<1>4. \A q \in Callers :
          /\ call'[q].phase \notin {"idle", "loop", "done", "failed", "killed"} => call'[q].strategy \in Strategies
          /\ call'[q].phase = "set" => Cooldown[call'[q].strategy] # Unset
          /\ call'[q].phase = "idle" => call'[q].day = None /\ call'[q].checked = None /\ call'[q].set = None
  <2> TAKE q \in Callers
  <2>1. CASE q = k
    BY <1>2, <1>3, <2>1 DEF Named
  <2>2. CASE q # k
    BY <1>2, <2>2 DEF Typed, ForAStrategy
  <2>. QED BY <2>1, <2>2
<1>. QED
  BY <1>1, <1>2, <1>4 DEF ForAStrategy

-----------------------------------------------------------------------------
(* The steps of a call of generate_signal, whoever makes it. *)

Moves(c, e) ==
    /\ c.phase \in {"evaluate", "emit", "cap", "cooldown"}
    /\ e.phase \in {"end", "cap", "raised", "commit", "cooldown", "emit"}
    /\ e.phase = "commit" => e.at = now
    /\ SameMarks(c, e)
    /\ UNCHANGED <<daily, cooldownUntil>>

Counts(c, e) ==
    LET s == c.strategy
        d == Day(now)
    IN  /\ c.phase = "cap" /\ MaxDaily[s] # Unset
        /\ e.phase = "vetoed" \/ (e.phase = "cooldown" /\ daily[s][d] + 1 <= MaxDaily[s])
        /\ e.day = d /\ e.checked = c.checked /\ e.set = c.set
        /\ daily' = [daily EXCEPT ![s][d] = @ + 1]
        /\ UNCHANGED cooldownUntil

Checks(c, e) ==
    /\ c.phase = "cooldown" /\ Cooldown[c.strategy] # Unset
    /\ e.phase = "vetoed" \/ (e.phase = "set" /\ cooldownUntil[c.strategy] <= now)
    /\ e.day = c.day /\ e.checked = now /\ e.set = c.set
    /\ UNCHANGED <<daily, cooldownUntil>>

Sets(c, e) ==
    /\ c.phase = "set" /\ e.phase = "emit"
    /\ e.day = c.day /\ e.checked = c.checked /\ e.set = now
    /\ cooldownUntil' = [cooldownUntil EXCEPT ![c.strategy] = now + Cooldown[c.strategy]]
    /\ UNCHANGED daily

\* A call k becomes e.
Becomes(k, e) ==
    /\ call' = [call EXCEPT ![k] = e]
    /\ e.strategy = call[k].strategy
    /\ Moves(call[k], e) \/ Counts(call[k], e) \/ Checks(call[k], e) \/ Sets(call[k], e)
    /\ UNCHANGED <<now, lastRun, todo, startedAt, signals, faults>>

LEMMA CallStepEffect ==
    ASSUME Typed, NEW k \in Callers, CallStep(k)
    PROVE  call[k].strategy \in Strategies /\ \E e \in Call : Becomes(k, e)
<1> DEFINE c == call[k]
           s == c.strategy
<1>0. "raised" \in Phase /\ "end" \in Phase /\ "cooldown" \in Phase /\ "emit" \in Phase
  BY DEF Phase
<1>1. c \in Call /\ now \in Time /\ now \in Nat /\ Day(now) \in Days
  BY DayIsKnown, GenerationAssumption DEF Typed, TypeOK, Time
<1>2. s \in Strategies
  BY DEF CallStep, Evaluate, PassesCap, ChecksCooldown, SetsCooldown, Emits, Typed, ForAStrategy
<1>3. Verdicts[s] \subseteq Results
  BY <1>2 DEF Results
<1>4. CASE Evaluate(k)
  <2>1. UNCHANGED <<daily, cooldownUntil, now, lastRun, todo, startedAt, signals, faults>>
        /\ c.phase = "evaluate"
    BY <1>4 DEF Evaluate, redisVars, cronVars
  <2>2. CASE call' = [call EXCEPT ![k] = AtPhase(c, "raised")]
    <3>1. AtPhase(c, "raised") \in Call /\ Becomes(k, AtPhase(c, "raised"))
      <4>1. AtPhase(c, "raised") \in Call /\ AtPhase(c, "raised").strategy = s
        BY <1>0, <1>1, AtPhaseFields
      <4>2. Moves(c, AtPhase(c, "raised"))
        BY <1>0, <1>1, <2>1, <2>2, AtPhaseFields DEF Moves
      <4>. QED BY <1>1, <2>1, <2>2, <4>1, <4>2 DEF Becomes
    <3>. QED BY <1>2, <3>1
  <2>3. ASSUME NEW x \in Results, NEW p \in {"end", "cap"},
               call' = [call EXCEPT ![k] = WithResult(c, p, x)]
        PROVE  \E e \in Call : Becomes(k, e)
    <3> p \in Phase
      BY DEF Phase
    <3>1. WithResult(c, p, x) \in Call /\ Becomes(k, WithResult(c, p, x))
      <4>1. WithResult(c, p, x) \in Call /\ WithResult(c, p, x).strategy = s
        BY <1>0, <1>1, WithResultFields
      <4>2. Moves(c, WithResult(c, p, x))
        BY <1>0, <1>1, <2>1, <2>3, WithResultFields DEF Moves
      <4>. QED BY <1>1, <2>1, <2>3, <4>1, <4>2 DEF Becomes
    <3>. QED BY <3>1
  <2>4. \/ call' = [call EXCEPT ![k] = AtPhase(c, "raised")]
        \/ \E x \in Results, p \in {"end", "cap"} : call' = [call EXCEPT ![k] = WithResult(c, p, x)]
    BY <1>3, <1>4 DEF Evaluate, AtPhase, WithResult
  <2>. QED BY <1>2, <2>2, <2>3, <2>4
<1>5. CASE PassesCap(k)
  <2>1. UNCHANGED <<cooldownUntil, now, lastRun, todo, startedAt, signals, faults>> /\ c.phase = "cap"
    BY <1>5 DEF PassesCap, redisVars, cronVars
  <2>2. CASE MaxDaily[s] = Unset
    <3>1. call' = [call EXCEPT ![k] = AtPhase(c, "cooldown")] /\ UNCHANGED daily
      BY <1>5, <2>2 DEF PassesCap, AtPhase
    <3>2. AtPhase(c, "cooldown") \in Call /\ Becomes(k, AtPhase(c, "cooldown"))
      <4>1. AtPhase(c, "cooldown") \in Call /\ AtPhase(c, "cooldown").strategy = s
        BY <1>0, <1>1, AtPhaseFields
      <4>2. Moves(c, AtPhase(c, "cooldown"))
        BY <1>0, <1>1, <2>1, <3>1, AtPhaseFields DEF Moves
      <4>. QED BY <1>1, <2>1, <3>1, <4>1, <4>2 DEF Becomes
    <3>. QED BY <1>2, <3>2
  <2>3. CASE MaxDaily[s] # Unset
    <3>1. daily[s][Day(now)] + 1 \in Nat /\ MaxDaily[s] \in Nat
      <4>1. daily \in [Strategies -> [Days -> Nat]]
        BY DEF Typed, TypeOK, Days
      <4>2. daily[s][Day(now)] \in Nat
        BY <1>1, <1>2, <4>1
      <4>3. MaxDaily[s] \in Nat
        BY <1>2, <2>3, GenerationAssumption
      <4>. QED BY <4>2, <4>3
    <3>2. PICK p \in {"vetoed", "cooldown"} :
              /\ call' = [call EXCEPT ![k] = WithDay(c, Day(now), p)]
              /\ p = "vetoed" \/ daily[s][Day(now)] + 1 <= MaxDaily[s]
      <4>1. CASE OverCap(daily[s][Day(now)] + 1, MaxDaily[s])
        BY <1>5, <2>3, <4>1 DEF PassesCap, WithDay
      <4>2. CASE ~ OverCap(daily[s][Day(now)] + 1, MaxDaily[s])
        <5>1. daily[s][Day(now)] + 1 <= MaxDaily[s]
          BY <3>1, <4>2 DEF OverCap
        <5>. QED BY <1>5, <2>3, <4>2, <5>1 DEF PassesCap, WithDay
      <4>. QED BY <4>1, <4>2
    <3> p \in Phase
      BY DEF Phase
    <3>3. daily' = [daily EXCEPT ![s][Day(now)] = @ + 1]
      BY <1>5, <2>3 DEF PassesCap
    <3>4. WithDay(c, Day(now), p) \in Call /\ Becomes(k, WithDay(c, Day(now), p))
      <4>1. WithDay(c, Day(now), p) \in Call /\ WithDay(c, Day(now), p).strategy = s
        BY <1>0, <1>1, WithDayFields
      <4>2. Counts(c, WithDay(c, Day(now), p))
        BY <1>0, <1>1, <2>1, <2>3, <3>2, <3>3, WithDayFields DEF Counts
      <4>. QED BY <1>1, <2>1, <2>3, <3>2, <3>3, <4>1, <4>2 DEF Becomes
    <3>. QED BY <1>2, <3>4
  <2>. QED BY <2>2, <2>3
<1>6. CASE ChecksCooldown(k)
  <2>1. /\ UNCHANGED <<daily, cooldownUntil, now, lastRun, todo, startedAt, signals, faults>>
        /\ c.phase = "cooldown"
    BY <1>6 DEF ChecksCooldown, redisVars, cronVars
  <2>2. CASE Cooldown[s] = Unset
    <3>1. call' = [call EXCEPT ![k] = AtPhase(c, "emit")]
      BY <1>6, <2>2 DEF ChecksCooldown, AtPhase
    <3>2. AtPhase(c, "emit") \in Call /\ Becomes(k, AtPhase(c, "emit"))
      <4>1. AtPhase(c, "emit") \in Call /\ AtPhase(c, "emit").strategy = s
        BY <1>0, <1>1, AtPhaseFields
      <4>2. Moves(c, AtPhase(c, "emit"))
        BY <1>0, <1>1, <2>1, <3>1, AtPhaseFields DEF Moves
      <4>. QED BY <1>1, <2>1, <3>1, <4>1, <4>2 DEF Becomes
    <3>. QED BY <1>2, <3>2
  <2>3. CASE Cooldown[s] # Unset
    <3>1. cooldownUntil[s] \in Nat
      BY <1>2 DEF Typed, TypeOK
    <3>2. PICK p \in {"vetoed", "set"} :
              /\ call' = [call EXCEPT ![k] = WithCheck(c, now, p)]
              /\ p = "vetoed" \/ cooldownUntil[s] <= now
      <4>1. CASE CooldownExists(s)
        BY <1>6, <2>3, <4>1 DEF ChecksCooldown, WithCheck
      <4>2. CASE ~ CooldownExists(s)
        <5>1. cooldownUntil[s] <= now
          BY <1>1, <3>1, <4>2 DEF CooldownExists
        <5>. QED BY <1>6, <2>3, <4>2, <5>1 DEF ChecksCooldown, WithCheck
      <4>. QED BY <4>1, <4>2
    <3> p \in Phase
      BY DEF Phase
    <3>3. WithCheck(c, now, p) \in Call /\ Becomes(k, WithCheck(c, now, p))
      <4>1. WithCheck(c, now, p) \in Call /\ WithCheck(c, now, p).strategy = s
        BY <1>0, <1>1, WithCheckFields
      <4>2. Checks(c, WithCheck(c, now, p))
        BY <1>0, <1>1, <2>1, <2>3, <3>2, WithCheckFields DEF Checks
      <4>. QED BY <1>1, <2>1, <2>3, <3>2, <4>1, <4>2 DEF Becomes
    <3>. QED BY <1>2, <3>3
  <2>. QED BY <2>2, <2>3
<1>7. CASE SetsCooldown(k)
  <2>1. UNCHANGED <<daily, now, lastRun, todo, startedAt, signals, faults>> /\ c.phase = "set"
    BY <1>7 DEF SetsCooldown, redisVars, cronVars
  <2>2. /\ call' = [call EXCEPT ![k] = WithSet(c, "emit", now)]
        /\ cooldownUntil' = [cooldownUntil EXCEPT ![s] = now + Cooldown[s]]
    BY <1>7 DEF SetsCooldown, WithSet, CooldownEnd
  <2>3. WithSet(c, "emit", now) \in Call /\ Becomes(k, WithSet(c, "emit", now))
    <3>1. WithSet(c, "emit", now) \in Call /\ WithSet(c, "emit", now).strategy = s
      BY <1>0, <1>1, WithSetFields
    <3>2. Sets(c, WithSet(c, "emit", now))
      BY <1>0, <1>1, <2>1, <2>2, WithSetFields DEF Sets
    <3>. QED BY <1>1, <2>1, <2>2, <3>1, <3>2 DEF Becomes
  <2>. QED BY <1>2, <2>3
<1>8. CASE Emits(k)
  <2>1. /\ UNCHANGED <<daily, cooldownUntil, now, lastRun, todo, startedAt, signals, faults>>
        /\ c.phase = "emit"
    BY <1>8 DEF Emits, redisVars, cronVars
  <2>2. CASE call' = [call EXCEPT ![k] = AtPhase(c, "end")]
    <3>1. AtPhase(c, "end") \in Call /\ Becomes(k, AtPhase(c, "end"))
      <4>1. AtPhase(c, "end") \in Call /\ AtPhase(c, "end").strategy = s
        BY <1>0, <1>1, AtPhaseFields
      <4>2. Moves(c, AtPhase(c, "end"))
        BY <1>0, <1>1, <2>1, <2>2, AtPhaseFields DEF Moves
      <4>. QED BY <1>1, <2>1, <2>2, <4>1, <4>2 DEF Becomes
    <3>. QED BY <1>2, <3>1
  <2>3. ASSUME NEW p \in {"commit", "raised"},
               call' = [call EXCEPT ![k] = WithEntry(c, p, now)]
        PROVE  \E e \in Call : Becomes(k, e)
    <3> p \in Phase
      BY DEF Phase
    <3>1. WithEntry(c, p, now) \in Call /\ Becomes(k, WithEntry(c, p, now))
      <4>1. WithEntry(c, p, now) \in Call /\ WithEntry(c, p, now).strategy = s
        BY <1>0, <1>1, WithEntryFields
      <4>2. Moves(c, WithEntry(c, p, now))
        BY <1>0, <1>1, <2>1, <2>3, WithEntryFields DEF Moves
      <4>. QED BY <1>1, <2>1, <2>3, <4>1, <4>2 DEF Becomes
    <3>. QED BY <3>1
  <2>4. \/ call' = [call EXCEPT ![k] = AtPhase(c, "end")]
        \/ \E p \in {"commit", "raised"} : call' = [call EXCEPT ![k] = WithEntry(c, p, now)]
    BY <1>8 DEF Emits, AtPhase, WithEntry
  <2>. QED BY <1>2, <2>2, <2>3, <2>4
<1>. QED
  BY <1>4, <1>5, <1>6, <1>7, <1>8 DEF CallStep

-----------------------------------------------------------------------------
(* The other steps that change a call: a request begins, or commits; a cron run loops. *)

\* A request is refused, or goes on.
Begins(r, e) ==
    /\ call[r].phase = "idle"
    /\ e.strategy \in Strategies /\ e.phase \in {"evaluate", "emit", "raised"}
    /\ SameMarks(call[r], e)
    /\ UNCHANGED signals

\* A request's signal is there.
Ends(r, e) ==
    /\ call[r].phase = "commit"
    /\ e.strategy = call[r].strategy /\ e.phase = "end"
    /\ SameMarks(call[r], e)
    /\ signals' = [signals EXCEPT ![r] = call[r].at]

\* A request's own steps.
Goes(r, e) ==
    /\ call' = [call EXCEPT ![r] = e]
    /\ Begins(r, e) \/ Ends(r, e)
    /\ UNCHANGED <<now, daily, cooldownUntil, lastRun, todo, startedAt, faults>>

LEMMA RequestEffect ==
    ASSUME Typed, NEW r \in Requests, NEW s \in Strategies,
           RequestGenerates(r, s) \/ RequestForces(r, s) \/ Commits(r)
    PROVE  \E e \in Call : Goes(r, e)
<1> DEFINE c == call[r]
<1>1. c \in Call
  BY DEF Typed, TypeOK, Callers
<1>2. UNCHANGED <<now, daily, cooldownUntil, lastRun, todo, startedAt, faults>>
  BY DEF RequestGenerates, RequestForces, Commits, redisVars, cronVars
<1>3. "evaluate" \in Phase /\ "emit" \in Phase /\ "raised" \in Phase /\ "end" \in Phase
  BY DEF Phase
<1>4. ASSUME NEW p \in {"evaluate", "raised"}, c.phase = "idle", UNCHANGED signals,
             call' = [call EXCEPT ![r] = Asked(c, s, p)]
      PROVE  \E e \in Call : Goes(r, e)
  <2> DEFINE f == Asked(c, s, p)
  <2>1. f \in Call /\ f.phase = p /\ f.strategy = s /\ SameMarks(c, f)
    BY <1>1, <1>3, <1>4, AskedFields
  <2> HIDE DEF f
  <2>2. call' = [call EXCEPT ![r] = f]
    BY <1>4 DEF f
  <2>. QED BY <1>2, <1>4, <2>1, <2>2 DEF Goes, Begins
<1>5. ASSUME NEW x \in Results, NEW p \in {"emit", "raised"}, c.phase = "idle", UNCHANGED signals,
             call' = [call EXCEPT ![r] = AskedFor(c, s, x, p)]
      PROVE  \E e \in Call : Goes(r, e)
  <2> DEFINE f == AskedFor(c, s, x, p)
  <2>1. f \in Call /\ f.phase = p /\ f.strategy = s /\ SameMarks(c, f)
    BY <1>1, <1>3, <1>5, AskedForFields
  <2> HIDE DEF f
  <2>2. call' = [call EXCEPT ![r] = f]
    BY <1>5 DEF f
  <2>. QED BY <1>2, <1>5, <2>1, <2>2 DEF Goes, Begins
<1>6. CASE Commits(r)
  <2> DEFINE f == AtPhase(c, "end")
  <2>1. f \in Call /\ f.phase = "end" /\ f.strategy = c.strategy /\ SameMarks(c, f)
    BY <1>1, <1>3, AtPhaseFields
  <2>2. /\ call' = [call EXCEPT ![r] = f] /\ c.phase = "commit"
        /\ signals' = [signals EXCEPT ![r] = c.at]
    BY <1>6 DEF Commits, AtPhase
  <2> HIDE DEF f
  <2>. QED BY <1>2, <2>1, <2>2 DEF Goes, Ends
<1>7. RequestGenerates(r, s) =>
          /\ c.phase = "idle" /\ UNCHANGED signals
          /\ \E p \in {"evaluate", "raised"} : call' = [call EXCEPT ![r] = Asked(c, s, p)]
  BY DEF RequestGenerates, Asked
<1>8. RequestForces(r, s) =>
          /\ c.phase = "idle" /\ UNCHANGED signals
          /\ \E x \in Results, p \in {"emit", "raised"} : call' = [call EXCEPT ![r] = AskedFor(c, s, x, p)]
  <2>1. Forced \subseteq Results
    BY DEF Results
  <2>. QED BY <2>1 DEF RequestForces, AskedFor
<1>. QED
  BY <1>4, <1>5, <1>6, <1>7, <1>8

\* A cron run's own steps.
Loops(c, e) ==
    /\ call' = [call EXCEPT ![c] = e]
    /\ e.phase # "set"
    /\ e.phase \in Named => e.strategy \in Strategies
    /\ e.phase # "idle" \/ e = NoCall
    /\ UNCHANGED <<now, daily, cooldownUntil, signals>>
    /\ faults' = faults \/ (faults < MaxFaults /\ faults' = faults + 1)

CronAction(c) ==
    \/ CronStarts(c) \/ CronRecords(c) \/ CronEnds(c)
    \/ CronFails(c) \/ CronDies(c) \/ CronTimesOut(c)
    \/ \E s \in Strategies : CronSkips(c, s) \/ CronBegins(c, s)

LEMMA CronEffect ==
    ASSUME Typed, NEW c \in Crons, CronAction(c)
    PROVE  \/ \E e \in Call : Loops(c, e)
           \/ UNCHANGED <<now, daily, cooldownUntil, lastRun, call, startedAt, signals, faults>>
<1> DEFINE k == call[c]
<1>1. k \in Call
  BY DEF Typed, TypeOK, Callers
<1>2. "loop" \in Phase /\ "done" \in Phase /\ "failed" \in Phase /\ "killed" \in Phase /\ "evaluate" \in Phase /\ "idle" \in Phase
  BY DEF Phase
<1>3. NoCall \in Call /\ NoCall.phase = "idle"
  BY <1>2 DEF NoCall, Call
<1>4. ASSUME NEW e \in Call, call' = [call EXCEPT ![c] = e],
             e.phase \in {"loop", "done", "failed", "killed"} \/ e = NoCall
                 \/ (e.phase = "evaluate" /\ e.strategy \in Strategies)
      PROVE  \E f \in Call : Loops(c, f)
  <2>1. UNCHANGED <<now, daily, cooldownUntil, signals>>
    BY DEF CronAction, CronStarts, CronRecords, CronEnds, CronFails, CronDies, CronTimesOut, CronSkips, CronBegins,
           redisVars, cronVars
  <2>2. faults' = faults \/ (faults < MaxFaults /\ faults' = faults + 1)
    BY DEF CronAction, CronStarts, CronRecords, CronEnds, CronFails, CronDies, CronTimesOut, CronSkips, CronBegins
  <2>. QED BY <1>3, <1>4, <2>1, <2>2 DEF Loops, Named
<1>5. CASE CronStarts(c) \/ CronEnds(c) \/ CronFails(c) \/ CronTimesOut(c)
  <2>1. PICK p \in {"loop", "done", "failed", "killed"} : call' = [call EXCEPT ![c] = AtPhase(k, p)]
    BY <1>5 DEF CronStarts, CronEnds, CronFails, CronTimesOut, AtPhase
  <2>2. AtPhase(k, p) \in Call /\ AtPhase(k, p).phase = p
    <3>1. p \in Phase
      BY DEF Phase
    <3>. QED BY <1>1, <3>1, AtPhaseFields
  <2>. QED BY <1>4, <2>1, <2>2
<1>6. CASE CronRecords(c)
  <2>1. call' = [call EXCEPT ![c] = AtPhase(NoCall, "loop")]
    BY <1>6 DEF CronRecords, AtPhase
  <2>2. AtPhase(NoCall, "loop") \in Call /\ AtPhase(NoCall, "loop").phase = "loop"
    BY <1>2, <1>3, AtPhaseFields
  <2>. QED BY <1>4, <2>1, <2>2
<1>7. CASE CronDies(c)
  BY <1>3, <1>4, <1>7 DEF CronDies
<1>8. ASSUME NEW s \in Strategies, CronBegins(c, s)
      PROVE  \E e \in Call : Loops(c, e)
  <2>1. call' = [call EXCEPT ![c] = [NoCall EXCEPT !.phase = "evaluate", !.strategy = s]]
    BY <1>8 DEF CronBegins
  <2> DEFINE e == [NoCall EXCEPT !.phase = "evaluate", !.strategy = s]
  <2>2. e \in Call /\ e.phase = "evaluate" /\ e.strategy = s
    BY <1>2 DEF NoCall, Call
  <2> HIDE DEF e
  <2>3. call' = [call EXCEPT ![c] = e]
    BY <2>1 DEF e
  <2>. QED BY <1>4, <2>2, <2>3
<1>9. ASSUME NEW s \in Strategies, CronSkips(c, s)
      PROVE  UNCHANGED <<now, daily, cooldownUntil, lastRun, call, startedAt, signals, faults>>
  BY <1>9 DEF CronSkips, redisVars
<1>. QED
  BY <1>5, <1>6, <1>7, <1>8, <1>9 DEF CronAction

-----------------------------------------------------------------------------
(* Types. *)

\* Every step is one of those above.
LEMMA StepCases ==
    ASSUME Typed, Next
    PROVE  \/ \E k \in Callers : CallStep(k) /\ \E e \in Call : Becomes(k, e)
           \/ \E r \in Requests, e \in Call : Goes(r, e)
           \/ \E c \in Crons : CronAction(c)
           \/ Tick
<1>1. ASSUME NEW k \in Callers, CallStep(k) PROVE \E e \in Call : Becomes(k, e)
  BY <1>1, CallStepEffect
<1>2. ASSUME NEW r \in Requests,
             Commits(r) \/ \E s \in Strategies : RequestGenerates(r, s) \/ RequestForces(r, s)
      PROVE  \E e \in Call : Goes(r, e)
  <2>1. CASE Commits(r)
    <3>1. call[r].strategy \in Strategies
      BY <2>1 DEF Commits, Typed, ForAStrategy, Callers
    <3>. QED BY <2>1, <3>1, RequestEffect
  <2>. QED BY <1>2, <2>1, RequestEffect
<1>. QED
  BY <1>1, <1>2 DEF Next, RequestStep, CronStep, CronAction, Callers

\* What a step of a call does to a call that is for a strategy.
LEMMA BecomesTypes ==
    ASSUME Typed, NEW k \in Callers, NEW e \in Call, call[k].strategy \in Strategies, Becomes(k, e)
    PROVE  Typed'
<1> USE GenerationAssumption
<1> DEFINE c == call[k]
           s == c.strategy
<1>1. now \in Time /\ now \in Nat /\ Day(now) \in Days
  BY DayIsKnown DEF Typed, TypeOK, Time
<1>2. call' \in [Callers -> Call] /\ ForAStrategy'
  <2>1. e.phase # "idle" /\ e.strategy \in Strategies /\ (e.phase = "set" => Cooldown[e.strategy] # Unset)
    BY DEF Becomes, Moves, Counts, Checks, Sets
  <2>. QED BY <2>1, Replaced DEF Becomes
<1>3. daily' \in [Strategies -> [Days -> Nat]]
  <2>1. daily \in [Strategies -> [Days -> Nat]]
    BY DEF Typed, TypeOK, Days
  <2>2. CASE daily' = [daily EXCEPT ![s][Day(now)] = @ + 1]
    <3>1. daily[s][Day(now)] + 1 \in Nat
      BY <1>1, <2>1
    <3>. QED BY <1>1, <2>1, <2>2, <3>1
  <2>. QED BY <2>1, <2>2 DEF Becomes, Moves, Counts, Checks, Sets
<1>4. cooldownUntil' \in [Strategies -> Nat]
  <2>1. cooldownUntil \in [Strategies -> Nat]
    BY DEF Typed, TypeOK
  <2>2. CASE Sets(c, e)
    <3>1. Cooldown[s] \in Nat
      BY <2>2 DEF Sets, Typed, ForAStrategy
    <3>2. now + Cooldown[s] \in Nat
      BY <1>1, <3>1
    <3>. QED BY <2>1, <2>2, <3>2 DEF Sets
  <2>. QED BY <2>1, <2>2 DEF Becomes, Moves, Counts, Checks
<1>5. UNCHANGED <<now, lastRun, todo, startedAt, signals, faults>>
  BY DEF Becomes
<1>. QED
  BY <1>2, <1>3, <1>4, <1>5 DEF Typed, TypeOK, Days

LEMMA TypesKept == Typed /\ [Next]_vars => Typed'
<1> SUFFICES ASSUME Typed, [Next]_vars PROVE Typed'
  OBVIOUS
<1> USE GenerationAssumption
<1>1. ASSUME NEW k \in Callers, CallStep(k) PROVE Typed'
  BY <1>1, CallStepEffect, BecomesTypes
<1>2. ASSUME NEW r \in Requests, NEW e \in Call, Goes(r, e) PROVE Typed'
  <2>1. r \in Callers /\ call[r] \in Call
    BY DEF Callers, Typed, TypeOK
  <2>2. e.phase \notin {"idle", "set"} /\ e.strategy \in Strategies
    BY <1>2, <2>1 DEF Goes, Begins, Ends, Typed, ForAStrategy
  <2>3. call' \in [Callers -> Call] /\ ForAStrategy'
    BY <1>2, <2>1, <2>2, Replaced DEF Goes
  <2>4. signals' \in [Requests -> Time \union {None}]
    <3>1. call[r].at \in Time \union {None}
      BY <2>1 DEF Call
    <3>. QED BY <1>2, <3>1 DEF Goes, Begins, Ends, Typed, TypeOK
  <2>. QED
    BY <1>2, <2>3, <2>4 DEF Goes, Typed, TypeOK
<1>3. ASSUME NEW c \in Crons, CronAction(c) PROVE Typed'
  <2>1. call' \in [Callers -> Call] /\ ForAStrategy'
    <3>1. ASSUME NEW e \in Call, Loops(c, e) PROVE call' \in [Callers -> Call] /\ ForAStrategy'
      BY <3>1, Replaced DEF Loops, Callers
    <3>2. CASE UNCHANGED call
      BY <3>2 DEF Typed, TypeOK, ForAStrategy
    <3>. QED BY <1>3, <3>1, <3>2, CronEffect
  <2>2. UNCHANGED <<now, daily, cooldownUntil, signals>> /\ faults' \in 0..MaxFaults
    <3>1. faults \in 0..MaxFaults
      BY DEF Typed, TypeOK
    <3>2. faults < MaxFaults => faults + 1 \in 0..MaxFaults
      BY <3>1
    <3>. QED BY <1>3, <3>1, <3>2, CronEffect DEF Loops
  <2>3. lastRun' \in [Strategies -> Time \union {None}]
    <3>1. UNCHANGED lastRun \/ lastRun' = [lastRun EXCEPT ![call[c].strategy] = now]
      BY <1>3 DEF CronAction, CronStarts, CronRecords, CronEnds, CronFails, CronDies, CronTimesOut, CronSkips,
                  CronBegins, redisVars
    <3>. QED BY <3>1 DEF Typed, TypeOK
  <2>4. todo' \in [Crons -> SUBSET Strategies]
    <3>1. \/ UNCHANGED todo
          \/ todo' = [todo EXCEPT ![c] = Strategies]
          \/ \E x \in SUBSET todo[c] : todo' = [todo EXCEPT ![c] = x]
      <4>1. Remaining(c) \in SUBSET todo[c]
        BY DEF Remaining
      <4>. QED
        BY <1>3, <4>1 DEF CronAction, CronStarts, CronRecords, CronEnds, CronFails, CronDies, CronTimesOut,
                          CronSkips, CronBegins, cronVars
    <3>. QED BY <3>1 DEF Typed, TypeOK
  <2>5. startedAt' \in [Crons -> Time \union {None}]
    <3>1. UNCHANGED startedAt \/ startedAt' = [startedAt EXCEPT ![c] = now]
      BY <1>3 DEF CronAction, CronStarts, CronRecords, CronEnds, CronFails, CronDies, CronTimesOut, CronSkips,
                  CronBegins, cronVars
    <3>. QED BY <3>1 DEF Typed, TypeOK
  <2>. QED
    BY <2>1, <2>2, <2>3, <2>4, <2>5 DEF Typed, TypeOK
<1>4. CASE Tick
  <2>1. now + 1 \in Time
    BY <1>4 DEF Tick, Typed, TypeOK, Time
  <2>. QED
    BY <1>4, <2>1 DEF Tick, Typed, TypeOK, ForAStrategy, redisVars, cronVars
<1>5. CASE UNCHANGED vars
  BY <1>5 DEF vars, Typed, TypeOK, ForAStrategy
<1>. QED
  BY <1>1, <1>2, <1>3, <1>4, <1>5, StepCases

LEMMA TypedAtFirst == Init => Typed
<1> SUFFICES ASSUME Init PROVE Typed
  OBVIOUS
<1>1. NoCall \in Call /\ NoCall.phase = "idle"
  BY DEF NoCall, Call, Phase
<1>2. NoCall.day = None /\ NoCall.checked = None /\ NoCall.set = None
  BY DEF NoCall
<1>3. call \in [Callers -> Call] /\ ForAStrategy
  BY <1>1, <1>2 DEF Init, ForAStrategy
<1>4. now \in Time /\ faults \in 0..MaxFaults
  BY GenerationAssumption DEF Init, Time
<1>. QED
  BY <1>3, <1>4 DEF Init, Typed, TypeOK

\* TypeOK is an invariant.
THEOREM TypeCorrect == Spec => []TypeOK
BY TypedAtFirst, TypesKept, PTL DEF Spec, Typed

-----------------------------------------------------------------------------
(***************************************************************************)
(* The daily cap.  The counter of a day has counted every request that is  *)
(* past the gate of that day, and lets none past beyond the limit.         *)
(***************************************************************************)

\* Requests that are past the gate of a day.
Passed(s, d) == {r \in Requests : call[r].strategy = s /\ call[r].day = d /\ call[r].phase # "vetoed"}

Capped ==
    \A s \in Strategies, d \in Days : MaxDaily[s] # Unset =>
        Cardinality(Passed(s, d)) <= daily[s][d] /\ Cardinality(Passed(s, d)) <= MaxDaily[s]

\* A signal is there only when its call has ended.
Ended == \A r \in Requests : signals[r] # None => call[r].phase = "end"

LEMMA PassedIsFinite ==
    \A s, d : IsFiniteSet(Passed(s, d)) /\ Cardinality(Passed(s, d)) \in Nat
<1> SUFFICES ASSUME NEW s, NEW d
             PROVE  IsFiniteSet(Passed(s, d)) /\ Cardinality(Passed(s, d)) \in Nat
  OBVIOUS
<1>1. Passed(s, d) \subseteq Requests
  BY DEF Passed
<1>. QED
  BY <1>1, GenerationAssumption, FS_Subset, FS_CardinalityType

\* What does not bring a request past a gate keeps the cap.
LEMMA FewerPassed ==
    ASSUME Typed, Capped, UNCHANGED daily,
           \A s \in Strategies, d \in Days : Passed(s, d)' \subseteq Passed(s, d)
    PROVE  Capped'
<1> SUFFICES ASSUME NEW s \in Strategies, NEW d \in Days, MaxDaily[s] # Unset
             PROVE  Cardinality(Passed(s, d)') <= daily[s][d] /\ Cardinality(Passed(s, d)') <= MaxDaily[s]
  BY DEF Capped
<1>1. IsFiniteSet(Passed(s, d)) /\ Cardinality(Passed(s, d)) \in Nat
  BY PassedIsFinite
<1>2. Cardinality(Passed(s, d)') \in Nat /\ Cardinality(Passed(s, d)') <= Cardinality(Passed(s, d))
  BY <1>1, FS_Subset, FS_CardinalityType
<1>3. daily[s][d] \in Nat /\ MaxDaily[s] \in Nat
  <2>1. daily \in [Strategies -> [Days -> Nat]]
    BY DEF Typed, TypeOK, Days
  <2>. QED BY <2>1, GenerationAssumption
<1>. QED
  BY <1>1, <1>2, <1>3 DEF Capped

LEMMA CountsCaps ==
    ASSUME Typed, Capped, NEW k \in Callers, NEW e \in Call, call[k].strategy \in Strategies,
           Becomes(k, e), Counts(call[k], e)
    PROVE  Capped'
<1> DEFINE s == call[k].strategy
           d == Day(now)
<1>1. d \in Days /\ d \in Nat /\ daily \in [Strategies -> [Days -> Nat]]
  BY DayIsKnown DEF Typed, TypeOK, Days
<1>2. daily[s][d] \in Nat /\ MaxDaily[s] \in Nat
  <2>1. daily[s][d] \in Nat
    BY <1>1
  <2>2. MaxDaily[s] \in Nat
    BY GenerationAssumption DEF Counts
  <2>. QED BY <2>1, <2>2
<1>3. daily' = [daily EXCEPT ![s][d] = daily[s][d] + 1]
  BY DEF Counts
<1>4. call \in [Callers -> Call] /\ call' = [call EXCEPT ![k] = e] /\ e.strategy = s /\ e.day = d
  BY DEF Becomes, Counts, Typed, TypeOK
<1>5. \A r \in Requests : r \in Callers /\ (r # k => call'[r] = call[r]) /\ (r = k => call'[r] = e)
  BY <1>4 DEF Callers
<1> SUFFICES ASSUME NEW t \in Strategies, NEW f \in Days, MaxDaily[t] # Unset
             PROVE  Cardinality(Passed(t, f)') <= daily'[t][f] /\ Cardinality(Passed(t, f)') <= MaxDaily[t]
  BY DEF Capped
<1>6. IsFiniteSet(Passed(t, f)) /\ Cardinality(Passed(t, f)) \in Nat
  BY PassedIsFinite
<1>7. /\ Cardinality(Passed(t, f)) <= daily[t][f] /\ Cardinality(Passed(t, f)) <= MaxDaily[t]
      /\ daily[t][f] \in Nat /\ MaxDaily[t] \in Nat
  BY <1>1, GenerationAssumption DEF Capped
<1>8. CASE Passed(t, f)' \subseteq Passed(t, f)
  <2>1. Cardinality(Passed(t, f)') \in Nat /\ Cardinality(Passed(t, f)') <= Cardinality(Passed(t, f))
    BY <1>6, <1>8, FS_Subset, FS_CardinalityType
  <2>2. daily[t][f] <= daily'[t][f] /\ daily'[t][f] \in Nat
    <3>1. CASE t = s /\ f = d
      BY <1>1, <1>2, <1>3, <3>1
    <3>2. CASE ~ (t = s /\ f = d)
      <4>1. daily'[t][f] = daily[t][f]
        BY <1>1, <1>3, <3>2
      <4>. QED BY <1>7, <4>1
    <3>. QED BY <3>1, <3>2
  <2>. QED BY <1>6, <1>7, <2>1, <2>2
<1>9. CASE /\ t = s /\ f = d /\ e.phase # "vetoed"
           /\ Passed(t, f)' \subseteq Passed(t, f) \union {k}
  <2>1. daily[t][f] + 1 <= MaxDaily[t]
    BY <1>9 DEF Counts
  <2>2. daily'[t][f] = daily[t][f] + 1
    BY <1>1, <1>3, <1>9
  <2>3. /\ IsFiniteSet(Passed(t, f) \union {k})
        /\ Cardinality(Passed(t, f) \union {k}) \in Nat
        /\ Cardinality(Passed(t, f) \union {k}) <= Cardinality(Passed(t, f)) + 1
    <3>1. /\ IsFiniteSet(Passed(t, f) \union {k})
          /\ \/ Cardinality(Passed(t, f) \union {k}) = Cardinality(Passed(t, f))
             \/ Cardinality(Passed(t, f) \union {k}) = Cardinality(Passed(t, f)) + 1
      BY <1>6, FS_AddElement
    <3>. QED BY <1>6, <3>1
  <2>4. Cardinality(Passed(t, f)') \in Nat
        /\ Cardinality(Passed(t, f)') <= Cardinality(Passed(t, f) \union {k})
    BY <1>9, <2>3, FS_Subset, FS_CardinalityType
  <2>. QED BY <1>6, <1>7, <2>1, <2>2, <2>3, <2>4
<1>10. CASE e.phase = "vetoed" \/ ~ (t = s /\ f = d)
  <2>1. Passed(t, f)' \subseteq Passed(t, f)
    BY <1>4, <1>5, <1>10 DEF Passed
  <2>. QED BY <1>8, <2>1
<1>11. Passed(t, f)' \subseteq Passed(t, f) \union {k}
  BY <1>5 DEF Passed
<1>. QED
  BY <1>9, <1>10, <1>11

LEMMA CapKept == Typed /\ Capped /\ Ended /\ [Next]_vars => Capped' /\ Ended'
<1> SUFFICES ASSUME Typed, Capped, Ended, [Next]_vars PROVE Capped' /\ Ended'
  OBVIOUS
<1>1. \A r \in Requests : r \in Callers
  BY DEF Callers
<1>2. call \in [Callers -> Call] /\ signals \in [Requests -> Time \union {None}]
  BY DEF Typed, TypeOK
<1>3. ASSUME NEW k \in Callers, NEW e \in Call, CallStep(k), Becomes(k, e) PROVE Capped' /\ Ended'
  <2>1. call[k].strategy \in Strategies
    BY <1>3, CallStepEffect
  <2>2. /\ call[k].phase \notin {"end", "vetoed"}
        /\ e.strategy = call[k].strategy /\ UNCHANGED signals
        /\ \A r \in Requests : (r # k => call'[r] = call[r]) /\ (r = k => call'[r] = e)
    BY <1>1, <1>2, <1>3 DEF Becomes, Moves, Counts, Checks, Sets
  <2>3. Ended'
    BY <2>2 DEF Ended
  <2>4. CASE Counts(call[k], e)
    BY <1>3, <2>1, <2>3, <2>4, CountsCaps
  <2>5. CASE UNCHANGED daily /\ e.day = call[k].day
    <3>1. \A s \in Strategies, d \in Days : Passed(s, d)' \subseteq Passed(s, d)
      BY <2>2, <2>5 DEF Passed
    <3>. QED BY <2>3, <2>5, <3>1, FewerPassed
  <2>. QED BY <1>3, <2>4, <2>5 DEF Becomes, Moves, Checks, Sets, SameMarks
<1>4. ASSUME NEW r \in Requests, NEW e \in Call, Goes(r, e) PROVE Capped' /\ Ended'
  <2>1. \A q \in Requests : (q # r => call'[q] = call[q]) /\ (q = r => call'[q] = e)
    BY <1>1, <1>2, <1>4 DEF Goes
  <2>2. Ended'
    BY <1>2, <1>4, <2>1 DEF Goes, Begins, Ends, Ended
  <2>3. \A s \in Strategies, d \in Days : Passed(s, d)' \subseteq Passed(s, d)
    <3>1. \A d \in Days : d # None
      <4>1. \A t \in Time : Day(t) \in Nat
        BY DayIsKnown
      <4>. QED BY <4>1, GenerationAssumption DEF Days
    <3>2. CASE Begins(r, e)
      <4>1. e.day = None
        BY <1>1, <3>2 DEF Begins, SameMarks, Typed, ForAStrategy
      <4>. QED BY <2>1, <3>1, <4>1 DEF Passed
    <3>3. CASE Ends(r, e)
      BY <2>1, <3>3 DEF Ends, SameMarks, Passed
    <3>. QED BY <1>4, <3>2, <3>3 DEF Goes
  <2>. QED BY <1>4, <2>2, <2>3, FewerPassed DEF Goes
<1>5. ASSUME \A r \in Requests : call'[r] = call[r], UNCHANGED <<daily, signals>>
      PROVE  Capped' /\ Ended'
  <2>1. \A s \in Strategies, d \in Days : Passed(s, d)' \subseteq Passed(s, d)
    BY <1>5 DEF Passed
  <2>. QED BY <1>5, <2>1, FewerPassed DEF Ended
<1>6. ASSUME NEW c \in Crons, CronAction(c) PROVE Capped' /\ Ended'
  <2>1. \A r \in Requests : r # c
    BY GenerationAssumption
  <2>2. UNCHANGED <<daily, signals>> /\ \A r \in Requests : call'[r] = call[r]
    BY <1>1, <1>2, <1>6, <2>1, CronEffect DEF Loops
  <2>. QED BY <1>5, <2>2
<1>7. CASE Tick \/ UNCHANGED vars
  BY <1>5, <1>7 DEF Tick, vars, redisVars
<1>. QED
  BY <1>3, <1>4, <1>6, <1>7, StepCases

LEMMA CappedAtFirst == Init => Typed /\ Capped /\ Ended
<1> SUFFICES ASSUME Init PROVE Typed /\ Capped /\ Ended
  OBVIOUS
<1>1. Typed
  BY TypedAtFirst
<1>2. \A s \in Strategies, d \in Days : Passed(s, d) = {} /\ daily[s][d] = 0
  <2>1. \A d \in Days : d # None
    <3>1. \A t \in Time : Day(t) \in Nat
      BY DayIsKnown
    <3>. QED BY <3>1, GenerationAssumption DEF Days
  <2>. QED BY <2>1 DEF Init, Passed, NoCall, Callers, Days
<1>3. Capped
  <2>1. \A s \in Strategies : MaxDaily[s] # Unset => MaxDaily[s] \in Nat
    BY GenerationAssumption
  <2>. QED BY <1>2, <2>1, FS_EmptySet DEF Capped
<1>. QED BY <1>1, <1>3 DEF Init, Ended

\* CapMissesOnlyUncounted: the calls counted on a day never fire more signals than the
\* cap, and a day's signals exceed it only by those that were not counted on it.
THEOREM CapHolds == Spec => []CapMissesOnlyUncounted
<1>1. Typed /\ Capped /\ Ended => CapMissesOnlyUncounted
  <2> DEFINE fired(s, d) == {r \in Requests : Fired(r, s) /\ call[r].day = d}
             others(s, d) == {r \in FiredOn(s, d) : call[r].day # d}
  <2> SUFFICES ASSUME Typed, Capped, Ended, NEW s \in Strategies, NEW d \in Days, MaxDaily[s] # Unset
               PROVE  /\ Cardinality(fired(s, d)) <= MaxDaily[s]
                      /\ Cardinality(FiredOn(s, d)) <= MaxDaily[s] + Cardinality(others(s, d))
    BY DEF CapMissesOnlyUncounted, Days
  <2>1. fired(s, d) \subseteq Passed(s, d)
    BY DEF Ended, Fired, Passed
  <2>2. /\ fired(s, d) \subseteq Requests /\ others(s, d) \subseteq Requests
        /\ FiredOn(s, d) \subseteq fired(s, d) \union others(s, d)
    BY DEF FiredOn
  <2>3. IsFiniteSet(Passed(s, d)) /\ Cardinality(Passed(s, d)) \in Nat
    BY PassedIsFinite
  <2>4. Cardinality(Passed(s, d)) <= MaxDaily[s] /\ MaxDaily[s] \in Nat
    BY GenerationAssumption DEF Capped
  <2> HIDE DEF fired, others
  <2>5. Cardinality(fired(s, d)) \in Nat /\ Cardinality(fired(s, d)) <= Cardinality(Passed(s, d))
    BY <2>1, <2>3, FS_Subset, FS_CardinalityType
  <2>6. IsFiniteSet(fired(s, d)) /\ IsFiniteSet(others(s, d)) /\ Cardinality(others(s, d)) \in Nat
    BY <2>2, FS_Subset, FS_CardinalityType, GenerationAssumption
  <2>7. /\ IsFiniteSet(fired(s, d) \union others(s, d))
        /\ Cardinality(fired(s, d) \union others(s, d)) \in Nat
        /\ Cardinality(fired(s, d) \union others(s, d)) <= Cardinality(fired(s, d)) + Cardinality(others(s, d))
    <3> DEFINE both == fired(s, d) \cap others(s, d)
    <3>1. IsFiniteSet(both)
      BY <2>6, FS_Intersection
    <3>2. Cardinality(both) \in Nat
      BY <3>1, FS_CardinalityType
    <3>3. /\ IsFiniteSet(fired(s, d) \union others(s, d))
          /\ Cardinality(fired(s, d) \union others(s, d))
                = Cardinality(fired(s, d)) + Cardinality(others(s, d)) - Cardinality(both)
      BY <2>6, FS_Union
    <3>4. Cardinality(fired(s, d) \union others(s, d)) \in Nat
      BY <3>3, FS_CardinalityType
    <3> HIDE DEF both
    <3>. QED BY <2>5, <2>6, <3>2, <3>3, <3>4
  <2>8. /\ Cardinality(FiredOn(s, d)) \in Nat
        /\ Cardinality(FiredOn(s, d)) <= Cardinality(fired(s, d) \union others(s, d))
    BY <2>2, <2>7, FS_Subset, FS_CardinalityType
  <2>9. Cardinality(fired(s, d)) <= MaxDaily[s]
    BY <2>3, <2>4, <2>5
  <2>10. Cardinality(FiredOn(s, d)) <= MaxDaily[s] + Cardinality(others(s, d))
    BY <2>4, <2>5, <2>6, <2>7, <2>8, <2>9
  <2>. QED BY <2>9, <2>10
<1>. QED
  BY <1>1, CappedAtFirst, TypesKept, CapKept, PTL DEF Spec

-----------------------------------------------------------------------------
(***************************************************************************)
(* The cooldown.  The key of a strategy outlives every cooldown that was   *)
(* set for it, so that a call that finds no key asks after all of them.    *)
(***************************************************************************)

\* A request's marks are of the past, and the key covers its cooldown.
Marked ==
    \A r \in Requests :
        LET s == call[r].strategy
        IN  /\ call[r].checked # None => call[r].checked <= now
            /\ call[r].set # None =>
                  /\ s \in Strategies /\ Cooldown[s] # Unset
                  /\ call[r].set <= now /\ call[r].set + Cooldown[s] <= cooldownUntil[s]

\* A call that was not vetoed waited out the cooldowns set before it asked.
Separated ==
    \A r, q \in Requests :
        (/\ call[r].strategy = call[q].strategy /\ call[q].phase # "vetoed"
         /\ call[r].set # None /\ call[q].checked # None /\ call[q].checked > call[r].set)
        => call[q].checked >= call[r].set + Cooldown[call[r].strategy]

\* A step that changes no request's marks, or makes one fresh, and no key earlier.
LEMMA MarksStay ==
    ASSUME Typed, Marked, Separated, now' \in Nat, now <= now',
           cooldownUntil' \in [Strategies -> Nat],
           \A s \in Strategies : cooldownUntil[s] <= cooldownUntil'[s],
           \A r \in Requests : \/ call'[r].checked = None /\ call'[r].set = None
                               \/ /\ call'[r].strategy = call[r].strategy
                                  /\ call'[r].checked = call[r].checked
                                  /\ call'[r].set = call[r].set
                                  /\ call[r].phase # "vetoed"
                               \/ call'[r] = call[r]
    PROVE  Marked' /\ Separated'
<1>1. \A r \in Requests : /\ call[r].checked \in Time \union {None}
                          /\ call[r].set \in Time \union {None}
  BY DEF Typed, TypeOK, Call, Callers
<1>2. now \in Nat /\ Time \subseteq Nat
  BY GenerationAssumption DEF Typed, TypeOK, Time
<1>3. \A s \in Strategies : Cooldown[s] # Unset => Cooldown[s] \in Nat
  BY GenerationAssumption
<1>4. Marked'
  <2> SUFFICES ASSUME NEW r \in Requests
               PROVE  LET s == call'[r].strategy
                      IN  /\ call'[r].checked # None => call'[r].checked <= now'
                          /\ call'[r].set # None =>
                                /\ s \in Strategies /\ Cooldown[s] # Unset
                                /\ call'[r].set <= now' /\ call'[r].set + Cooldown[s] <= cooldownUntil'[s]
    BY DEF Marked
  <2>1. CASE call'[r].checked = None /\ call'[r].set = None
    BY <2>1
  <2>2. CASE /\ call'[r].strategy = call[r].strategy
             /\ call'[r].checked = call[r].checked /\ call'[r].set = call[r].set
    <3>1. call[r].checked # None => call[r].checked \in Nat /\ call[r].checked <= now
      BY <1>1, <1>2 DEF Marked
    <3>2. CASE call[r].set # None
      <4> DEFINE s == call[r].strategy
      <4>1. /\ call[r].set \in Nat /\ s \in Strategies /\ Cooldown[s] # Unset
            /\ call[r].set <= now /\ call[r].set + Cooldown[s] <= cooldownUntil[s]
        BY <1>1, <1>2, <3>2 DEF Marked
      <4>2. cooldownUntil[s] \in Nat /\ cooldownUntil'[s] \in Nat /\ Cooldown[s] \in Nat
        BY <1>3, <4>1 DEF Typed, TypeOK
      <4>3. call[r].set <= now' /\ call[r].set + Cooldown[s] <= cooldownUntil'[s]
        BY <1>2, <4>1, <4>2
      <4>. QED BY <1>2, <2>2, <3>1, <4>1, <4>3
    <3>. QED BY <1>2, <2>2, <3>1, <3>2
  <2>. QED BY <2>1, <2>2
<1>5. Separated'
  <2> SUFFICES ASSUME NEW r \in Requests, NEW q \in Requests,
                      call'[r].strategy = call'[q].strategy, call'[q].phase # "vetoed",
                      call'[r].set # None, call'[q].checked # None, call'[q].checked > call'[r].set
               PROVE  call'[q].checked >= call'[r].set + Cooldown[call'[r].strategy]
    BY DEF Separated
  <2>1. /\ call'[r].strategy = call[r].strategy /\ call'[r].set = call[r].set
        /\ call'[q].strategy = call[q].strategy /\ call'[q].checked = call[q].checked
        /\ call[q].phase # "vetoed"
    OBVIOUS
  <2>. QED BY <2>1 DEF Separated
<1>. QED
  BY <1>4, <1>5

\* A request asks for the key: it is vetoed, or all the cooldowns set so far are over.
LEMMA ChecksSeparate ==
    ASSUME Typed, Marked, Separated, NEW k \in Requests, NEW e \in Call,
           call[k].strategy \in Strategies, Becomes(k, e), Checks(call[k], e)
    PROVE  Marked' /\ Separated'
<1>1. now \in Nat /\ now' = now /\ cooldownUntil' = cooldownUntil /\ Time \subseteq Nat
      /\ cooldownUntil \in [Strategies -> Nat]
  BY GenerationAssumption DEF Typed, TypeOK, Time, Becomes, Checks
<1>2. \A r \in Requests : (r # k => call'[r] = call[r]) /\ (r = k => call'[r] = e)
  BY DEF Becomes, Typed, TypeOK, Callers
<1>3. e.strategy = call[k].strategy /\ e.set = call[k].set /\ e.checked = now
  BY DEF Becomes, Checks
<1>4. Marked'
  BY <1>1, <1>2, <1>3 DEF Marked
<1>5. Separated'
  <2> SUFFICES ASSUME NEW r \in Requests, NEW q \in Requests,
                      call'[r].strategy = call'[q].strategy, call'[q].phase # "vetoed",
                      call'[r].set # None, call'[q].checked # None, call'[q].checked > call'[r].set
               PROVE  call'[q].checked >= call'[r].set + Cooldown[call'[r].strategy]
    BY DEF Separated
  <2>1. call'[r].strategy = call[r].strategy /\ call'[r].set = call[r].set
    BY <1>2, <1>3
  <2>2. CASE q = k
    <3> DEFINE s == call[k].strategy
    <3>1. cooldownUntil[s] <= now /\ cooldownUntil[s] \in Nat
      BY <1>1, <1>2, <2>2 DEF Checks
    <3>2. call[r].strategy = s /\ call'[q].checked = now
      BY <1>2, <1>3, <2>1, <2>2
    <3>3. call[r].set \in Nat /\ Cooldown[s] \in Nat /\ call[r].set + Cooldown[s] <= cooldownUntil[s]
      <4>1. call[r].set \in Time
        BY <2>1 DEF Typed, TypeOK, Call, Callers
      <4>2. Cooldown[s] # Unset /\ call[r].set + Cooldown[s] <= cooldownUntil[s]
        BY <2>1, <3>2 DEF Marked
      <4>. QED BY <1>1, <4>1, <4>2, GenerationAssumption
    <3>. QED BY <1>1, <2>1, <3>1, <3>2, <3>3
  <2>3. CASE q # k
    BY <1>2, <2>1, <2>3 DEF Separated
  <2>. QED BY <2>2, <2>3
<1>. QED
  BY <1>4, <1>5

\* A call sets the key: it now outlives the new cooldown, and the older ones.
LEMMA SetsSeparate ==
    ASSUME Typed, Marked, Separated, NEW k \in Callers, NEW e \in Call,
           call[k].strategy \in Strategies, Becomes(k, e), Sets(call[k], e)
    PROVE  Marked' /\ Separated'
<1> DEFINE s == call[k].strategy
<1>1. /\ now \in Nat /\ now' = now /\ Time \subseteq Nat /\ cooldownUntil \in [Strategies -> Nat]
      /\ cooldownUntil' = [cooldownUntil EXCEPT ![s] = now + Cooldown[s]]
  BY GenerationAssumption DEF Typed, TypeOK, Time, Becomes, Sets
<1>2. \A r \in Requests : r \in Callers /\ (r # k => call'[r] = call[r]) /\ (r = k => call'[r] = e)
  BY DEF Becomes, Typed, TypeOK, Callers
<1>3. e.strategy = s /\ e.set = now /\ e.checked = call[k].checked /\ e.phase = "emit" /\ call[k].phase = "set"
  BY DEF Becomes, Sets
<1>4. Cooldown[s] # Unset /\ Cooldown[s] \in Nat
  BY <1>3, GenerationAssumption DEF Typed, ForAStrategy
<1>5. \A r \in Requests : /\ call[r].checked # None => call[r].checked \in Nat /\ call[r].checked <= now
                          /\ call[r].set # None => call[r].set \in Nat /\ call[r].set <= now
  <2>1. \A r \in Requests : /\ call[r].checked \in Time \union {None}
                            /\ call[r].set \in Time \union {None}
    BY DEF Typed, TypeOK, Call, Callers
  <2>. QED BY <1>1, <2>1 DEF Marked
<1>6. Marked'
  <2> SUFFICES ASSUME NEW r \in Requests
               PROVE  LET t == call'[r].strategy
                      IN  /\ call'[r].checked # None => call'[r].checked <= now'
                          /\ call'[r].set # None =>
                                /\ t \in Strategies /\ Cooldown[t] # Unset
                                /\ call'[r].set <= now' /\ call'[r].set + Cooldown[t] <= cooldownUntil'[t]
    BY DEF Marked
  <2>1. CASE r = k
    <3>1. call'[r] = e /\ cooldownUntil'[s] = now + Cooldown[s]
      BY <1>1, <1>2, <2>1
    <3>. QED BY <1>1, <1>3, <1>4, <1>5, <2>1, <3>1
  <2>2. CASE r # k
    <3>1. call'[r] = call[r]
      BY <1>2, <2>2
    <3>2. CASE call[r].set # None /\ call[r].strategy = s
      <4>1. cooldownUntil'[s] = now + Cooldown[s]
        BY <1>1
      <4>2. call[r].set + Cooldown[s] <= now + Cooldown[s]
        BY <1>1, <1>4, <1>5, <3>2
      <4>. QED BY <1>1, <1>4, <1>5, <3>1, <3>2, <4>1, <4>2
    <3>3. CASE call[r].set # None /\ call[r].strategy # s
      BY <1>1, <3>1, <3>3 DEF Marked
    <3>4. CASE call[r].set = None
      BY <1>1, <3>1, <3>4 DEF Marked
    <3>. QED BY <3>2, <3>3, <3>4
  <2>. QED BY <2>1, <2>2
<1>7. Separated'
  <2> SUFFICES ASSUME NEW r \in Requests, NEW q \in Requests,
                      call'[r].strategy = call'[q].strategy, call'[q].phase # "vetoed",
                      call'[r].set # None, call'[q].checked # None, call'[q].checked > call'[r].set
               PROVE  call'[q].checked >= call'[r].set + Cooldown[call'[r].strategy]
    BY DEF Separated
  <2>1. call'[q].checked = call[q].checked /\ call'[q].strategy = call[q].strategy /\ call[q].phase # "vetoed"
    BY <1>2, <1>3
  <2>2. CASE r = k
    BY <1>1, <1>2, <1>3, <1>5, <2>1, <2>2
  <2>3. CASE r # k
    BY <1>2, <2>1, <2>3 DEF Separated
  <2>. QED BY <2>2, <2>3
<1>. QED
  BY <1>6, <1>7

LEMMA CooldownKept == Typed /\ Marked /\ Separated /\ [Next]_vars => Marked' /\ Separated'
<1> SUFFICES ASSUME Typed, Marked, Separated, [Next]_vars PROVE Marked' /\ Separated'
  OBVIOUS
<1>1. /\ \A r \in Requests : r \in Callers
      /\ call \in [Callers -> Call] /\ cooldownUntil \in [Strategies -> Nat]
      /\ now \in Nat /\ now <= now
      /\ \A s \in Strategies : cooldownUntil[s] <= cooldownUntil[s]
  BY GenerationAssumption DEF Callers, Typed, TypeOK, Time
<1>2. ASSUME NEW k \in Callers, NEW e \in Call, CallStep(k), Becomes(k, e)
      PROVE  Marked' /\ Separated'
  <2>1. call[k].strategy \in Strategies
    BY <1>2, CallStepEffect
  <2>2. \A r \in Requests : (r # k => call'[r] = call[r]) /\ (r = k => call'[r] = e)
    BY <1>1, <1>2 DEF Becomes
  <2>3. CASE Sets(call[k], e)
    BY <1>2, <2>1, <2>3, SetsSeparate
  <2>4. CASE Checks(call[k], e) /\ k \in Requests
    BY <1>2, <2>1, <2>4, ChecksSeparate
  <2>5. CASE /\ UNCHANGED cooldownUntil
             /\ k \notin Requests \/ (/\ e.checked = call[k].checked /\ e.set = call[k].set
                                      /\ call[k].phase # "vetoed")
    <3>1. \A r \in Requests : \/ call'[r] = call[r]
                              \/ /\ call'[r].strategy = call[r].strategy
                                 /\ call'[r].checked = call[r].checked
                                 /\ call'[r].set = call[r].set
                                 /\ call[r].phase # "vetoed"
      BY <1>2, <2>2, <2>5 DEF Becomes
    <3>2. now' = now
      BY <1>2 DEF Becomes
    <3>. QED BY <1>1, <2>5, <3>1, <3>2, MarksStay
  <2>6. CASE Moves(call[k], e) \/ Counts(call[k], e)
    BY <2>5, <2>6 DEF Moves, Counts, SameMarks
  <2>7. CASE Checks(call[k], e) /\ k \notin Requests
    BY <2>5, <2>7 DEF Checks
  <2>. QED BY <1>2, <2>3, <2>4, <2>6, <2>7 DEF Becomes
<1>3. ASSUME NEW r \in Requests, NEW e \in Call, Goes(r, e) PROVE Marked' /\ Separated'
  <2>1. UNCHANGED <<now, cooldownUntil>>
        /\ \A q \in Requests : (q # r => call'[q] = call[q]) /\ (q = r => call'[q] = e)
    BY <1>1, <1>3 DEF Goes
  <2>2. \/ e.checked = None /\ e.set = None
        \/ /\ e.strategy = call[r].strategy /\ e.checked = call[r].checked /\ e.set = call[r].set
           /\ call[r].phase # "vetoed"
    <3>1. CASE Begins(r, e)
      BY <1>1, <3>1 DEF Begins, SameMarks, Typed, ForAStrategy
    <3>2. CASE Ends(r, e)
      BY <3>2 DEF Ends, SameMarks
    <3>. QED BY <1>3, <3>1, <3>2 DEF Goes
  <2>3. \A q \in Requests : \/ call'[q].checked = None /\ call'[q].set = None
                            \/ /\ call'[q].strategy = call[q].strategy
                               /\ call'[q].checked = call[q].checked
                               /\ call'[q].set = call[q].set
                               /\ call[q].phase # "vetoed"
                            \/ call'[q] = call[q]
    BY <2>1, <2>2
  <2>. QED BY <1>1, <2>1, <2>3, MarksStay
<1>4. ASSUME UNCHANGED cooldownUntil, now' \in Nat, now <= now',
             \A r \in Requests : call'[r] = call[r]
      PROVE  Marked' /\ Separated'
  BY <1>1, <1>4, MarksStay
<1>5. ASSUME NEW c \in Crons, CronAction(c) PROVE Marked' /\ Separated'
  <2>1. \A r \in Requests : r # c
    BY GenerationAssumption
  <2>2. UNCHANGED <<now, cooldownUntil>> /\ \A r \in Requests : call'[r] = call[r]
    BY <1>1, <1>5, <2>1, CronEffect DEF Loops
  <2>. QED BY <1>1, <1>4, <2>2
<1>6. CASE Tick
  <2>1. now' = now + 1 /\ UNCHANGED <<call, cooldownUntil>>
    BY <1>6 DEF Tick, redisVars
  <2>. QED BY <1>1, <1>4, <2>1
<1>7. CASE UNCHANGED vars
  BY <1>1, <1>4, <1>7 DEF vars
<1>. QED
  BY <1>2, <1>3, <1>5, <1>6, <1>7, StepCases

\* A signal entered no earlier than its call had asked for the key.
Entered ==
    \A r \in Requests :
        call[r].checked # None =>
            /\ call[r].phase = "commit" => call[r].at \in Time /\ call[r].checked <= call[r].at
            /\ signals[r] # None => call[r].checked <= signals[r]

LEMMA EnteredKept == Typed /\ Ended /\ Marked /\ Entered /\ [Next]_vars => Entered'
<1> SUFFICES ASSUME Typed, Ended, Marked, Entered, [Next]_vars PROVE Entered'
  OBVIOUS
<1>1. /\ \A r \in Requests : r \in Callers
      /\ call \in [Callers -> Call] /\ now \in Time
      /\ signals \in [Requests -> Time \union {None}]
  BY DEF Callers, Typed, TypeOK
<1>2. ASSUME NEW k \in Callers, NEW e \in Call, Becomes(k, e) PROVE Entered'
  <2>1. UNCHANGED signals /\ \A r \in Requests : (r # k => call'[r] = call[r]) /\ (r = k => call'[r] = e)
    BY <1>1, <1>2 DEF Becomes
  <2>2. k \in Requests => signals[k] = None
    BY <1>2 DEF Ended, Becomes, Moves, Counts, Checks, Sets
  <2>3. CASE e.phase = "commit"
    <3>1. e.at = now /\ e.checked = call[k].checked
      BY <1>2, <2>3 DEF Becomes, Moves, Counts, Checks, Sets, SameMarks
    <3>. QED BY <1>1, <2>1, <2>2, <3>1 DEF Entered, Marked
  <2>4. CASE e.phase # "commit"
    BY <2>1, <2>2, <2>4 DEF Entered
  <2>. QED BY <2>3, <2>4
<1>3. ASSUME NEW r \in Requests, NEW e \in Call, Goes(r, e) PROVE Entered'
  <2>1. \A q \in Requests : (q # r => call'[q] = call[q]) /\ (q = r => call'[q] = e)
    BY <1>1, <1>3 DEF Goes
  <2>2. CASE Begins(r, e)
    <3>1. e.checked = None /\ UNCHANGED signals
      BY <1>1, <2>2 DEF Begins, SameMarks, Typed, ForAStrategy
    <3>. QED BY <2>1, <3>1 DEF Entered
  <2>3. CASE Ends(r, e)
    <3>1. /\ e.phase = "end" /\ e.checked = call[r].checked /\ call[r].phase = "commit"
          /\ signals'[r] = call[r].at /\ \A q \in Requests : q # r => signals'[q] = signals[q]
      BY <1>1, <2>3 DEF Ends, SameMarks
    <3>. QED BY <2>1, <3>1 DEF Entered
  <2>. QED BY <1>3, <2>2, <2>3 DEF Goes
<1>4. ASSUME \A r \in Requests : call'[r] = call[r], UNCHANGED signals PROVE Entered'
  BY <1>4 DEF Entered
<1>5. ASSUME NEW c \in Crons, CronAction(c) PROVE Entered'
  <2>1. \A r \in Requests : r # c
    BY GenerationAssumption
  <2>2. UNCHANGED signals /\ \A r \in Requests : call'[r] = call[r]
    BY <1>1, <1>5, <2>1, CronEffect DEF Loops
  <2>. QED BY <1>4, <2>2
<1>6. CASE Tick \/ UNCHANGED vars
  BY <1>4, <1>6 DEF Tick, vars
<1>. QED
  BY <1>2, <1>3, <1>5, <1>6, StepCases

\* GapShortByDelayOnly: of two signals whose calls asked one after the other, the later
\* waits out the cooldown, counted from when the earlier call had set it.
THEOREM CooldownHolds == Spec => []GapShortByDelayOnly
<1>1. Init => Typed /\ Capped /\ Ended /\ Marked /\ Separated /\ Entered
  <2> SUFFICES ASSUME Init PROVE Typed /\ Capped /\ Ended /\ Marked /\ Separated /\ Entered
    OBVIOUS
  <2>1. Typed /\ Capped /\ Ended
    BY TypedAtFirst, CappedAtFirst
  <2>2. \A r \in Requests : call[r].checked = None /\ call[r].set = None
    BY DEF Init, NoCall, Callers
  <2>. QED BY <2>1, <2>2 DEF Marked, Separated, Entered
<1>2. Typed /\ Ended /\ Marked /\ Separated /\ Entered => GapShortByDelayOnly
  <2> SUFFICES ASSUME Typed, Ended, Marked, Separated, Entered,
                      NEW s \in Strategies, NEW r \in Requests, NEW q \in Requests,
                      Fired(r, s), Fired(q, s), call[r].set # None, call[q].checked # None,
                      call[q].checked > call[r].set
               PROVE  signals[q] - signals[r] >= Cooldown[s] - Delay(r)
    BY DEF GapShortByDelayOnly
  <2>1. call[q].checked >= call[r].set + Cooldown[s] /\ signals[q] >= call[q].checked
    BY DEF Fired, Ended, Separated, Entered
  <2>2. /\ signals[r] \in Nat /\ signals[q] \in Nat
        /\ call[r].set \in Nat /\ call[q].checked \in Nat
    <3>1. signals[r] \in Time /\ signals[q] \in Time /\ call[r].set \in Time /\ call[q].checked \in Time
      BY DEF Fired, Typed, TypeOK, Call, Callers
    <3>. QED BY <3>1, GenerationAssumption DEF Time
  <2>3. Cooldown[s] \in Nat
    BY GenerationAssumption DEF Marked, Fired
  <2>. QED BY <2>1, <2>2, <2>3 DEF Delay
<1>. QED
  BY <1>1, <1>2, TypesKept, CapKept, CooldownKept, EnteredKept, PTL DEF Spec

-----------------------------------------------------------------------------
(***************************************************************************)
(* The cron.  A strategy that a run has behind it was run less than its    *)
(* interval before the run began, or since.                                *)
(***************************************************************************)

\* A run has served the strategies it no longer has to do.
ServedRun(c) ==
    /\ call[c].phase # "idle" =>
          /\ startedAt[c] \in Nat /\ startedAt[c] <= now
          /\ \A s \in Strategies \ todo[c] :
                lastRun[s] # None /\ startedAt[c] - lastRun[s] < Interval[s]
    /\ call[c].phase = "done" => todo[c] = {}

Served == \A c \in Crons : ServedRun(c)

\* What leaves a run as it is, or where it has been served, while last runs only come closer.
LEMMA ServedStays ==
    ASSUME Typed, Served, now' \in Nat, now <= now', NEW c \in Crons,
           call[c].phase # "idle" \/ call'[c].phase = "idle",
           call'[c].phase = "done" => todo'[c] = {},
           startedAt'[c] = startedAt[c], todo'[c] = todo[c],
           \A s \in Strategies : lastRun'[s] = lastRun[s] \/ lastRun'[s] = now
    PROVE  ServedRun(c)'
<1> SUFFICES ASSUME call'[c].phase # "idle"
             PROVE  /\ startedAt'[c] \in Nat /\ startedAt'[c] <= now'
                    /\ \A s \in Strategies \ todo'[c] :
                          lastRun'[s] # None /\ startedAt'[c] - lastRun'[s] < Interval[s]
  BY DEF ServedRun
<1>1. now \in Nat /\ now # None
  <2>1. now \in Nat
    BY GenerationAssumption DEF Typed, TypeOK, Time
  <2>. QED BY <2>1, GenerationAssumption
<1>2. startedAt[c] \in Nat /\ startedAt[c] <= now
  BY DEF Served, ServedRun
<1>3. ASSUME NEW s \in Strategies \ todo'[c]
      PROVE  lastRun'[s] # None /\ startedAt'[c] - lastRun'[s] < Interval[s]
  <2>1. Interval[s] \in Nat \ {0}
    BY GenerationAssumption
  <2>2. CASE lastRun'[s] = now
    BY <1>1, <1>2, <2>1, <2>2
  <2>3. CASE lastRun'[s] = lastRun[s]
    BY <2>3 DEF Served, ServedRun
  <2>. QED BY <2>2, <2>3
<1>. QED
  BY <1>1, <1>2, <1>3

\* A run's own steps: it starts with every strategy to do, and drops one that was run less
\* than its interval ago, or that it has just run.
LEMMA CronServes ==
    ASSUME Typed, Served, NEW c \in Crons, CronAction(c)
    PROVE  ServedRun(c)'
<1> USE GenerationAssumption
<1>1. /\ now \in Nat /\ now # None /\ c \in Callers
      /\ call \in [Callers -> Call] /\ todo \in [Crons -> SUBSET Strategies]
      /\ lastRun \in [Strategies -> Time \union {None}]
      /\ startedAt \in [Crons -> Time \union {None}]
  <2>1. now \in Nat
    BY DEF Typed, TypeOK, Time
  <2>2. now # None
    BY <2>1
  <2>. QED BY <2>1, <2>2 DEF Callers, Typed, TypeOK
<1>2. \A s \in Strategies : Interval[s] \in Nat \ {0}
  OBVIOUS
<1>3. ServedRun(c)
  BY DEF Served
<1>4. CASE CronStarts(c)
  BY <1>1, <1>4 DEF CronStarts, ServedRun, redisVars
<1>5. ASSUME NEW s \in Strategies, CronSkips(c, s) PROVE ServedRun(c)'
  <2>1. /\ UNCHANGED <<now, lastRun, call, startedAt>> /\ call[c].phase = "loop"
        /\ todo'[c] = todo[c] \ {s}
    BY <1>1, <1>5 DEF CronSkips, redisVars
  <2>2. lastRun[s] # None /\ now - lastRun[s] < Interval[s]
    BY <1>5 DEF CronSkips, WithinInterval
  <2>3. startedAt[c] \in Nat /\ startedAt[c] <= now /\ lastRun[s] \in Nat
    BY <1>1, <1>3, <2>1, <2>2 DEF ServedRun, Time
  <2>4. startedAt[c] - lastRun[s] < Interval[s]
    BY <1>1, <1>2, <2>2, <2>3
  <2>. QED BY <1>3, <2>1, <2>2, <2>3, <2>4 DEF ServedRun
<1>6. ASSUME NEW s \in Strategies, CronBegins(c, s) PROVE ServedRun(c)'
  <2>1. /\ UNCHANGED <<now, lastRun, todo, startedAt>> /\ call[c].phase = "loop"
        /\ call'[c].phase = "evaluate"
    BY <1>1, <1>6 DEF CronBegins, redisVars, NoCall
  <2>. QED BY <1>3, <2>1 DEF ServedRun
<1>7. CASE CronRecords(c)
  <2> DEFINE s == call[c].strategy
  <2>1. /\ UNCHANGED <<now, startedAt>> /\ call[c].phase \in {"end", "vetoed", "raised"}
        /\ lastRun' = [lastRun EXCEPT ![s] = now]
        /\ todo'[c] = todo[c] \ {s} /\ call'[c].phase = "loop"
    BY <1>1, <1>7 DEF CronRecords, Remaining, NoCall
  <2>2. s \in Strategies
    BY <1>1, <2>1 DEF Typed, ForAStrategy
  <2>3. lastRun'[s] = now /\ \A t \in Strategies \ {s} : lastRun'[t] = lastRun[t]
    BY <1>1, <2>1, <2>2
  <2>4. startedAt[c] \in Nat /\ startedAt[c] <= now
    BY <1>3, <2>1 DEF ServedRun
  <2>5. startedAt[c] - now < Interval[s]
    BY <1>1, <1>2, <2>2, <2>4
  <2> HIDE DEF s
  <2>6. ASSUME NEW t \in Strategies \ todo'[c]
        PROVE  lastRun'[t] # None /\ startedAt[c] - lastRun'[t] < Interval[t]
    <3>1. CASE t = s
      BY <1>1, <2>3, <2>5, <3>1
    <3>2. CASE t # s
      BY <1>3, <2>1, <2>3, <3>2 DEF ServedRun
    <3>. QED BY <3>1, <3>2
  <2>. QED BY <2>1, <2>4, <2>6 DEF ServedRun
<1>8. CASE CronEnds(c)
  <2>1. /\ UNCHANGED <<now, lastRun, todo, startedAt>> /\ call[c].phase = "loop"
        /\ todo[c] = {}
    BY <1>8 DEF CronEnds, redisVars, cronVars
  <2>. QED BY <1>3, <2>1 DEF ServedRun
<1>9. CASE CronDies(c)
  <2>1. call'[c].phase = "idle"
    BY <1>1, <1>9 DEF CronDies, NoCall
  <2>. QED BY <2>1 DEF ServedRun
<1>10. CASE CronTimesOut(c)
  <2>1. /\ UNCHANGED <<now, todo, startedAt>> /\ call[c].phase # "idle" /\ call'[c].phase # "done"
        /\ lastRun' = [lastRun EXCEPT ![call[c].strategy] = now]
    <3>1. call'[c] = AtPhase(call[c], "killed") /\ call[c] \in Call /\ "killed" \in Phase
      BY <1>1, <1>10 DEF CronTimesOut, AtPhase, Phase
    <3>2. call'[c].phase = "killed"
      BY <3>1, AtPhaseFields
    <3>. QED BY <1>10, <3>2 DEF CronTimesOut, CronCalling, cronVars
  <2>2. \A s \in Strategies : lastRun'[s] = lastRun[s] \/ lastRun'[s] = now
    BY <1>1, <2>1
  <2>3. now' \in Nat /\ now <= now' /\ startedAt'[c] = startedAt[c] /\ todo'[c] = todo[c]
    BY <1>1, <2>1
  <2>. QED BY <2>1, <2>2, <2>3, ServedStays
<1>11. CASE CronFails(c)
  <2>1. UNCHANGED <<now, lastRun, todo, startedAt>> /\ call[c].phase # "idle"
    BY <1>11 DEF CronFails, redisVars, cronVars
  <2>2. call'[c].phase = "failed"
    <3>1. call'[c] = AtPhase(call[c], "failed") /\ call[c] \in Call /\ "failed" \in Phase
      BY <1>1, <1>11 DEF CronFails, AtPhase, Phase
    <3>. QED BY <3>1, AtPhaseFields
  <2>. QED BY <1>3, <2>1, <2>2 DEF ServedRun
<1>. QED
  BY <1>4, <1>5, <1>6, <1>7, <1>8, <1>9, <1>10, <1>11 DEF CronAction

LEMMA ServedKept == Typed /\ Served /\ [Next]_vars => Served'
<1> SUFFICES ASSUME Typed, Served, [Next]_vars, NEW c \in Crons PROVE ServedRun(c)'
  BY DEF Served
<1>1. /\ c \in Callers /\ now \in Nat /\ now <= now
      /\ call \in [Callers -> Call] /\ lastRun \in [Strategies -> Time \union {None}]
      /\ startedAt \in [Crons -> Time \union {None}] /\ todo \in [Crons -> SUBSET Strategies]
  BY GenerationAssumption DEF Callers, Typed, TypeOK, Time
<1>2. ASSUME now' \in Nat, now <= now', startedAt'[c] = startedAt[c], todo'[c] = todo[c],
             \A s \in Strategies : lastRun'[s] = lastRun[s] \/ lastRun'[s] = now,
             call'[c] = call[c] \/ (call[c].phase # "idle" /\ call'[c].phase # "done")
      PROVE  ServedRun(c)'
  <2>1. call[c].phase # "idle" \/ call'[c].phase = "idle"
    BY <1>2
  <2>2. call'[c].phase = "done" => todo'[c] = {}
    BY <1>2 DEF Served, ServedRun
  <2>. QED BY <1>2, <2>1, <2>2, ServedStays
<1>3. ASSUME NEW k \in Callers, NEW e \in Call, Becomes(k, e) PROVE ServedRun(c)'
  <2>1. /\ UNCHANGED <<now, lastRun, todo, startedAt>>
        /\ call'[c] = call[c] \/ (call[c].phase # "idle" /\ call'[c].phase # "done")
    BY <1>1, <1>3 DEF Becomes, Moves, Counts, Checks, Sets
  <2>. QED BY <1>1, <1>2, <2>1
<1>4. ASSUME NEW r \in Requests, NEW e \in Call, Goes(r, e) PROVE ServedRun(c)'
  <2>1. r # c
    BY GenerationAssumption
  <2>2. UNCHANGED <<now, lastRun, todo, startedAt>> /\ call'[c] = call[c]
    BY <1>1, <1>4, <2>1 DEF Goes
  <2>. QED BY <1>1, <1>2, <2>2
<1>5. ASSUME NEW d \in Crons, CronAction(d) PROVE ServedRun(c)'
  <2>1. CASE d = c
    BY <1>5, <2>1, CronServes
  <2>2. CASE d # c
    <3>1. d \in Callers /\ now' = now /\ call'[c] = call[c]
      BY <1>1, <1>5, <2>2, CronEffect DEF Loops, Callers
    <3>2. startedAt'[c] = startedAt[c] /\ todo'[c] = todo[c]
      BY <1>1, <1>5, <2>2 DEF CronAction, CronStarts, CronRecords, CronEnds, CronFails, CronDies, CronTimesOut,
                              CronSkips, CronBegins, cronVars
    <3>3. UNCHANGED lastRun \/ lastRun' = [lastRun EXCEPT ![call[d].strategy] = now]
      BY <1>5 DEF CronAction, CronStarts, CronRecords, CronEnds, CronFails, CronDies, CronTimesOut,
                  CronSkips, CronBegins, redisVars
    <3>4. \A s \in Strategies : lastRun'[s] = lastRun[s] \/ lastRun'[s] = now
      BY <1>1, <3>3
    <3>. QED BY <1>1, <1>2, <3>1, <3>2, <3>4
  <2>. QED BY <2>1, <2>2
<1>6. CASE Tick
  <2>1. now' = now + 1 /\ UNCHANGED <<lastRun, call, todo, startedAt>>
    BY <1>6 DEF Tick, redisVars, cronVars
  <2>. QED BY <1>1, <1>2, <2>1
<1>7. CASE UNCHANGED vars
  BY <1>1, <1>2, <1>7 DEF vars
<1>. QED
  BY <1>3, <1>4, <1>5, <1>6, <1>7, StepCases

\* EveryStrategyIsServed: whatever a cron run has behind it is served, and a run that ends
\* without having failed itself has everything behind it.
THEOREM CronServesAll == Spec => []EveryStrategyIsServed
<1>1. Init => Typed /\ Served
  <2>1. Init => \A c \in Crons : call[c].phase = "idle"
    BY DEF Init, NoCall, Callers
  <2>. QED BY <2>1, TypedAtFirst DEF Served, ServedRun
<1>2. Served => EveryStrategyIsServed
  BY DEF Served, ServedRun, EveryStrategyIsServed
<1>. QED
  BY <1>1, <1>2, TypesKept, ServedKept, PTL DEF Spec

-----------------------------------------------------------------------------
(* VerdictsMirror: what makes the rules take no side.                         *)

\* The readings the mirror is made for: an RSI is a percentage, an average or a band that
\* is there is positive, and the upper band is not below the lower one.
Rsi == 0..100

Readings ==
    [ema_crossover |->
        [prevFast: Int, prevSlow: Int, fast: Int, slow: Int, trend: 1..(Top - 1), close: Int],
     macd_rsi |-> [prevFast: Int, prevSlow: Int, fast: Int, slow: Int, rsi: Rsi],
     vwap_reversion |-> [vwap: Nat, close: Int, rsi: Rsi],
     bollinger_breakout |->
        {r \in [close: Int, upper: 1..(Top - 1), lower: 1..(Top - 1), volume: Int, average: Int] :
            r.lower <= r.upper},
     adx_trend |-> [adx: Int, plus: Int, minus: Int, rsi: Rsi],
     rsi_divergence |-> {r \in Seq([price: Int, rsi: Rsi]) : Len(r) > 1}]

WholeReadings ==
    /\ Top \in Nat
    /\ \A class \in Classes : Grid[class] \subseteq Readings[class]

\* Thresholds that lie on either side of 50 alike, as the defaults of every strategy do.
Around50(low, high) == low \in Int /\ high = 100 - low

SymmetricThresholds ==
    /\ Around50(Params["macd_rsi"].oversold, Params["macd_rsi"].overbought)
    /\ Around50(Params["vwap_reversion"].oversold, Params["vwap_reversion"].overbought)
    /\ Params["vwap_reversion"].deviation \in Nat
    /\ Params["bollinger_breakout"].multiplier \in Int
    /\ {Params["adx_trend"].strong, Params["adx_trend"].weak} \subseteq Int
    /\ Around50(Params["rsi_divergence"].low, Params["rsi_divergence"].high)

Opposite(v) == Result(-v.value, v.confidence)

Mirrors(class, r) == Rule(class, Mirror(class, r)) = Opposite(Rule(class, r))

\* As far beyond the upper threshold as its mirror image is beyond the lower one.
LEMMA DepthMirrors ==
    ASSUME NEW rsi \in Int, NEW low \in Int
    PROVE  /\ Depth(100 - rsi, 100 - low, 100) = Depth(rsi, low, 0)
           /\ Depth(100 - rsi, low, 0) = Depth(rsi, 100 - low, 100)
<1>1. /\ (100 - rsi) - (100 - low) = low - rsi
      /\ 100 - (100 - low) = low
      /\ rsi - (100 - low) = low - (100 - rsi)
  OBVIOUS
<1>. QED
  BY <1>1 DEF Depth

\* Lines upside down cross the other way.
LEMMA CrossesMirror ==
    ASSUME NEW r, NEW m, NEW k \in Int,
           {r.prevFast, r.prevSlow, r.fast, r.slow} \subseteq Int,
           m.prevFast = k - r.prevFast, m.prevSlow = k - r.prevSlow,
           m.fast = k - r.fast, m.slow = k - r.slow
    PROVE  /\ CrossesUp(m) <=> CrossesDown(r)
           /\ CrossesDown(m) <=> CrossesUp(r)
           /\ ~(CrossesUp(r) /\ CrossesDown(r))
BY DEF CrossesUp, CrossesDown

LEMMA EmaMirrors ==
    ASSUME NEW r \in Readings["ema_crossover"], Top \in Nat
    PROVE  Mirrors("ema_crossover", r)
<1> DEFINE m == Mirror("ema_crossover", r)
           p == Params["ema_crossover"]
<1>1. /\ m.prevFast = Top - r.prevFast /\ m.prevSlow = Top - r.prevSlow
      /\ m.fast = Top - r.fast /\ m.slow = Top - r.slow
      /\ m.trend = Top - r.trend /\ m.close = Top - r.close
  BY DEF Mirror
<1>2. /\ {r.prevFast, r.prevSlow, r.fast, r.slow} \subseteq Int
      /\ r.trend \in 1..(Top - 1) /\ r.close \in Int
  BY DEF Readings
<1>3. /\ Rule("ema_crossover", m) = EmaCrossover(p, m)
      /\ Rule("ema_crossover", r) = EmaCrossover(p, r)
  BY DEF Rule
<1> HIDE DEF m, p
<1>4. /\ CrossesUp(m) <=> CrossesDown(r)
      /\ CrossesDown(m) <=> CrossesUp(r)
      /\ ~(CrossesUp(r) /\ CrossesDown(r))
  BY <1>1, <1>2, CrossesMirror
<1>5. /\ m.trend > 0 /\ r.trend > 0
      /\ m.close > m.trend <=> r.close < r.trend
      /\ m.close < m.trend <=> r.close > r.trend
  BY <1>1, <1>2
<1>6. EmaCrossover(p, m) = Opposite(EmaCrossover(p, r))
  BY <1>4, <1>5 DEF EmaCrossover, Opposite, Result, Neutral
<1>. QED
  BY <1>3, <1>6 DEF Mirrors, m

LEMMA MacdMirrors ==
    ASSUME NEW r \in Readings["macd_rsi"], r.rsi \notin {0, 100}, SymmetricThresholds
    PROVE  Mirrors("macd_rsi", r)
<1> DEFINE m == Mirror("macd_rsi", r)
           p == Params["macd_rsi"]
<1>1. /\ m.prevFast = 0 - r.prevFast /\ m.prevSlow = 0 - r.prevSlow
      /\ m.fast = 0 - r.fast /\ m.slow = 0 - r.slow /\ m.rsi = 100 - r.rsi
  BY DEF Mirror, Readings
<1>2. /\ {r.prevFast, r.prevSlow, r.fast, r.slow} \subseteq Int
      /\ r.rsi \in 1..99
  BY DEF Readings, Rsi
<1>3. /\ Rule("macd_rsi", m) = MacdRsi(p, m)
      /\ Rule("macd_rsi", r) = MacdRsi(p, r)
  BY DEF Rule
<1>4. p.oversold \in Int /\ p.overbought = 100 - p.oversold
  BY DEF SymmetricThresholds, Around50
<1> HIDE DEF m, p
<1>5. /\ CrossesUp(m) <=> CrossesDown(r)
      /\ CrossesDown(m) <=> CrossesUp(r)
      /\ ~(CrossesUp(r) /\ CrossesDown(r))
  BY <1>1, <1>2, CrossesMirror
<1>6. RsiOr50(m.rsi) = 100 - r.rsi /\ RsiOr50(r.rsi) = r.rsi
  BY <1>1, <1>2 DEF RsiOr50
<1>7. /\ p.overbought - (100 - r.rsi) = r.rsi - p.oversold
      /\ (100 - r.rsi) - p.oversold = p.overbought - r.rsi
  BY <1>2, <1>4
<1>8. /\ m.fast - m.slow > 0 <=> r.fast - r.slow < 0
      /\ m.fast - m.slow < 0 <=> r.fast - r.slow > 0
  BY <1>1, <1>2
<1>9. MacdRsi(p, m) = Opposite(MacdRsi(p, r))
  <2> DEFINE below == p.overbought - r.rsi
             above == r.rsi - p.oversold
  <2>1. below \in Int /\ above \in Int
    BY <1>2, <1>4
  <2>2. MacdRsi(p, r) =
            IF CrossesUp(r) /\ below > 10 /\ r.fast - r.slow > 0
            THEN Result(7, AtMost((1000 * below) \div 70, 900))
            ELSE IF CrossesUp(r) /\ below > 0 THEN Result(3, AtMost(10 * below, 650))
            ELSE IF CrossesDown(r) /\ above > 10 /\ r.fast - r.slow < 0
            THEN Result(-7, AtMost((1000 * above) \div 70, 900))
            ELSE IF CrossesDown(r) /\ above > 0 THEN Result(-3, AtMost(10 * above, 650))
            ELSE Neutral
    BY <1>6 DEF MacdRsi
  <2>3. MacdRsi(p, m) =
            IF CrossesDown(r) /\ above > 10 /\ r.fast - r.slow < 0
            THEN Result(7, AtMost((1000 * above) \div 70, 900))
            ELSE IF CrossesDown(r) /\ above > 0 THEN Result(3, AtMost(10 * above, 650))
            ELSE IF CrossesUp(r) /\ below > 10 /\ r.fast - r.slow > 0
            THEN Result(-7, AtMost((1000 * below) \div 70, 900))
            ELSE IF CrossesUp(r) /\ below > 0 THEN Result(-3, AtMost(10 * below, 650))
            ELSE Neutral
    BY <1>5, <1>6, <1>7, <1>8 DEF MacdRsi
  <2> HIDE DEF below, above
  <2>. QED
    BY <2>1, <2>2, <2>3, <1>5 DEF Opposite, Result, Neutral
<1>. QED
  BY <1>3, <1>9 DEF Mirrors, m

LEMMA VwapMirrors ==
    ASSUME NEW r \in Readings["vwap_reversion"], r.rsi \notin {0, 100}, SymmetricThresholds
    PROVE  Mirrors("vwap_reversion", r)
<1> DEFINE m == Mirror("vwap_reversion", r)
           p == Params["vwap_reversion"]
           low == p.oversold
           under == 1000 * (r.vwap - r.close)
           over == 1000 * (r.close - r.vwap)
           dev == p.deviation * r.vwap
<1>1. m.vwap = r.vwap /\ m.close = 2 * r.vwap - r.close /\ m.rsi = 100 - r.rsi
  BY DEF Mirror
<1>2. r.vwap \in Nat /\ r.close \in Int /\ r.rsi \in 1..99
  BY DEF Readings, Rsi
<1>3. /\ Rule("vwap_reversion", m) = VwapReversion(p, m)
      /\ Rule("vwap_reversion", r) = VwapReversion(p, r)
  BY DEF Rule
<1>4. low \in Int /\ p.overbought = 100 - low /\ p.deviation \in Nat
  BY DEF SymmetricThresholds, Around50
<1>5. dev \in Nat
  <2> DEFINE d == p.deviation
             v == r.vwap
  <2>1. d \in Nat /\ v \in Nat
    BY <1>2, <1>4
  <2> HIDE DEF d, v
  <2>2. d * v \in Nat
    BY <2>1
  <2>. QED BY <2>2 DEF d, v
<1> HIDE DEF m
<1>6. RsiOr50(m.rsi) = 100 - r.rsi /\ RsiOr50(r.rsi) = r.rsi
  BY <1>1, <1>2 DEF RsiOr50
<1>7. /\ 1000 * (m.vwap - m.close) = over
      /\ 1000 * (m.close - m.vwap) = under
      /\ p.deviation * m.vwap = dev
  BY <1>1, <1>2
<1>8. /\ under \in Int /\ over = -under
      /\ r.rsi \in Int
  BY <1>2
<1>9. /\ Depth(100 - r.rsi, p.overbought, 100) = Depth(r.rsi, low, 0)
      /\ Depth(100 - r.rsi, low, 0) = Depth(r.rsi, p.overbought, 100)
  <2> HIDE DEF low, p
  <2>1. /\ Depth(100 - r.rsi, 100 - low, 100) = Depth(r.rsi, low, 0)
        /\ Depth(100 - r.rsi, low, 0) = Depth(r.rsi, 100 - low, 100)
    BY <1>4, <1>8, DepthMirrors
  <2>. QED BY <1>4, <2>1
<1>10. VwapReversion(p, r) =
          IF r.vwap = 0 THEN Neutral
          ELSE IF under > dev /\ r.rsi < low THEN Result(7, Depth(r.rsi, low, 0))
          ELSE IF 2 * under > dev /\ r.rsi < 45 THEN Result(3, 550)
          ELSE IF over > dev /\ r.rsi > p.overbought THEN Result(-7, Depth(r.rsi, p.overbought, 100))
          ELSE IF 2 * over > dev /\ r.rsi > 55 THEN Result(-3, 550)
          ELSE Neutral
  BY <1>6 DEF VwapReversion
<1>11. VwapReversion(p, m) =
          IF r.vwap = 0 THEN Neutral
          ELSE IF over > dev /\ 100 - r.rsi < low THEN Result(7, Depth(100 - r.rsi, low, 0))
          ELSE IF 2 * over > dev /\ 100 - r.rsi < 45 THEN Result(3, 550)
          ELSE IF under > dev /\ 100 - r.rsi > p.overbought
               THEN Result(-7, Depth(100 - r.rsi, p.overbought, 100))
          ELSE IF 2 * under > dev /\ 100 - r.rsi > 55 THEN Result(-3, 550)
          ELSE Neutral
  BY <1>1, <1>6, <1>7 DEF VwapReversion
<1>12. /\ 100 - r.rsi < low <=> r.rsi > p.overbought
       /\ 100 - r.rsi > p.overbought <=> r.rsi < low
       /\ 100 - r.rsi < 45 <=> r.rsi > 55
       /\ 100 - r.rsi > 55 <=> r.rsi < 45
  BY <1>2, <1>4
<1> HIDE DEF under, over, dev, p, low
<1>13. ~((under > dev \/ 2 * under > dev) /\ (over > dev \/ 2 * over > dev))
  BY <1>5, <1>8
<1>14. VwapReversion(p, m) = Opposite(VwapReversion(p, r))
  BY <1>9, <1>10, <1>11, <1>12, <1>13 DEF Opposite, Result, Neutral
<1>. QED
  BY <1>3, <1>14 DEF Mirrors, m, p

LEMMA BollingerMirrors ==
    ASSUME NEW r \in Readings["bollinger_breakout"], Top \in Nat
    PROVE  Mirrors("bollinger_breakout", r)
<1> DEFINE m == Mirror("bollinger_breakout", r)
           p == Params["bollinger_breakout"]
<1>1. /\ r \in [close: Int, upper: 1..(Top - 1), lower: 1..(Top - 1), volume: Int, average: Int]
      /\ r.lower <= r.upper
  BY DEF Readings
<1>2. /\ m.close = Top - r.close /\ m.upper = Top - r.lower /\ m.lower = Top - r.upper
      /\ m.volume = r.volume /\ m.average = r.average
  BY <1>1 DEF Mirror
<1>3. /\ Rule("bollinger_breakout", m) = BollingerBreakout(p, m)
      /\ Rule("bollinger_breakout", r) = BollingerBreakout(p, r)
  BY DEF Rule
<1> HIDE DEF m, p
<1>4. /\ r.upper > 0 /\ r.lower > 0 /\ m.upper > 0 /\ m.lower > 0
      /\ m.close > m.upper <=> r.close < r.lower
      /\ m.close < m.lower <=> r.close > r.upper
      /\ ~(r.close < r.lower /\ r.close > r.upper)
  BY <1>1, <1>2
<1>5. BollingerBreakout(p, m) = Opposite(BollingerBreakout(p, r))
  BY <1>2, <1>4 DEF BollingerBreakout, Opposite, Result, Neutral
<1>. QED
  BY <1>3, <1>5 DEF Mirrors, m

LEMMA AdxMirrors ==
    ASSUME NEW r \in Readings["adx_trend"], r.rsi \notin {0, 100}, SymmetricThresholds
    PROVE  Mirrors("adx_trend", r)
<1> DEFINE m == Mirror("adx_trend", r)
           p == Params["adx_trend"]
<1>1. m.adx = r.adx /\ m.plus = r.minus /\ m.minus = r.plus /\ m.rsi = 100 - r.rsi
  BY DEF Mirror
<1>2. {r.adx, r.plus, r.minus} \subseteq Int /\ r.rsi \in 1..99
  BY DEF Readings, Rsi
<1>3. /\ Rule("adx_trend", m) = AdxTrend(p, m)
      /\ Rule("adx_trend", r) = AdxTrend(p, r)
  BY DEF Rule
<1> HIDE DEF m, p
<1>4. RsiOr50(m.rsi) = 100 - r.rsi /\ RsiOr50(r.rsi) = r.rsi
  BY <1>1, <1>2 DEF RsiOr50
<1>5. /\ 100 - r.rsi < 70 <=> r.rsi > 30
      /\ 100 - r.rsi > 30 <=> r.rsi < 70
      /\ ~(r.plus > r.minus /\ r.minus > r.plus)
  BY <1>2
<1>6. AdxTrend(p, m) = Opposite(AdxTrend(p, r))
  BY <1>1, <1>4, <1>5 DEF AdxTrend, Opposite, Result, Neutral
<1>. QED
  BY <1>3, <1>6 DEF Mirrors, m

\* A set of numbers that is not empty has a least one.
LEMMA LeastNatural ==
    ASSUME NEW S \in SUBSET Nat, S # {}
    PROVE  \E n \in S : \A m \in S : n <= m
<1>1. PICK R : R = OpToRel(<, Nat)
  OBVIOUS
<1>2. IsWellFoundedOn(R, Nat)
  BY <1>1, NatLessThanWellFounded
<1>3. \A x, y \in Nat : y < x => <<y, x>> \in R
  BY <1>1, Zenon DEF OpToRel
<1>4. PICK x \in S : \A y \in S : ~(<<y, x>> \in R)
  BY <1>2, WFMin
<1>5. \A y \in S : ~(y < x)
  BY <1>3, <1>4
<1>. QED
  BY <1>5

IsFirstLeast(f, n, i) ==
    /\ i \in 1..n
    /\ \A j \in 1..n : f[i] <= f[j]
    /\ \A j \in 1..(i - 1) : f[j] # f[i]

\* Some value of a window is the least: otherwise take the shortest beginning of the window
\* without a least one.
LEMMA LeastOfWindow ==
    ASSUME NEW n \in Nat \ {0}, NEW f, \A i \in 1..n : f[i] \in Int
    PROVE  \E i \in 1..n : \A j \in 1..n : f[i] <= f[j]
<1> DEFINE HasLeast(k) == \E i \in 1..k : \A j \in 1..k : f[i] <= f[j]
           Bad == {k \in 1..n : ~HasLeast(k)}
<1>1. SUFFICES ASSUME Bad # {} PROVE FALSE
  <2>1. n \in 1..n
    OBVIOUS
  <2>. QED BY <1>1, <2>1
<1>2. Bad \in SUBSET Nat
  OBVIOUS
<1>3. PICK k \in Bad : \A m \in Bad : k <= m
  <2> HIDE DEF Bad
  <2>. QED BY <1>1, <1>2, LeastNatural
<1>4. k \in 1..n /\ ~HasLeast(k)
  OBVIOUS
<1>5. k # 1
  <2>1. SUFFICES ASSUME k = 1 PROVE FALSE
    OBVIOUS
  <2>2. \A j \in 1..k : f[1] <= f[j]
    BY <2>1
  <2>3. 1 \in 1..k
    BY <2>1
  <2>. QED BY <1>4, <2>2, <2>3
<1>6. k - 1 \in 1..n /\ k - 1 \notin Bad
  <2>1. k - 1 \in 1..n /\ ~(k <= k - 1)
    BY <1>4, <1>5
  <2> HIDE DEF Bad
  <2>. QED BY <1>3, <2>1
<1>7. PICK i \in 1..(k - 1) : \A j \in 1..(k - 1) : f[i] <= f[j]
  BY <1>6
<1>8. /\ i \in 1..k /\ k \in 1..k
      /\ \A j \in 1..k : j = k \/ j \in 1..(k - 1)
      /\ f[i] \in Int /\ f[k] \in Int
      /\ \A j \in 1..k : f[j] \in Int
  BY <1>4
<1>9. CASE f[i] <= f[k]
  <2>1. \A j \in 1..k : f[i] <= f[j]
    BY <1>7, <1>8, <1>9
  <2>. QED BY <1>4, <1>8, <2>1
<1>10. CASE ~(f[i] <= f[k])
  <2>1. \A j \in 1..k : f[k] <= f[j]
    BY <1>7, <1>8, <1>10
  <2>. QED BY <1>4, <1>8, <2>1
<1>. QED
  BY <1>9, <1>10

\* argmin is the first of the least.
LEMMA FirstLeastIsFirst ==
    ASSUME NEW n \in Nat \ {0}, NEW f, \A i \in 1..n : f[i] \in Int
    PROVE  IsFirstLeast(f, n, FirstLeast(f, n))
<1> DEFINE Least == {i \in 1..n : \A j \in 1..n : f[i] <= f[j]}
<1>1. Least \in SUBSET Nat /\ Least # {}
  BY LeastOfWindow
<1>2. PICK i \in Least : \A j \in Least : i <= j
  <2> HIDE DEF Least
  <2>. QED BY <1>1, LeastNatural
<1>3. i \in 1..n /\ \A j \in 1..n : f[i] <= f[j]
  OBVIOUS
<1>4. \A j \in 1..(i - 1) : f[j] # f[i]
  <2>1. SUFFICES ASSUME NEW j \in 1..(i - 1), f[j] = f[i] PROVE FALSE
    OBVIOUS
  <2>2. j \in 1..n /\ ~(i <= j)
    BY <1>3
  <2>3. j \in Least
    BY <1>3, <2>1, <2>2
  <2>. QED BY <1>2, <2>2, <2>3
<1>5. \E k \in 1..n : /\ \A j \in 1..n : f[k] <= f[j]
                      /\ \A j \in 1..(k - 1) : f[j] # f[k]
  BY <1>3, <1>4
<1>. QED
  BY <1>5 DEF FirstLeast, IsFirstLeast

\* Only the order of the values counts.
LEMMA FirstLeastOfSameOrder ==
    ASSUME NEW n \in Nat \ {0}, NEW f, NEW g,
           \A i \in 1..n : f[i] \in Int /\ g[i] \in Int,
           \A i, j \in 1..n : f[i] <= f[j] <=> g[i] <= g[j]
    PROVE  FirstLeast(f, n) = FirstLeast(g, n)
<1>1. PICK i : i = FirstLeast(f, n)
  OBVIOUS
<1>2. PICK k : k = FirstLeast(g, n)
  OBVIOUS
<1>3. IsFirstLeast(f, n, i) /\ IsFirstLeast(g, n, k)
  BY <1>1, <1>2, FirstLeastIsFirst
<1>4. i \in 1..n /\ k \in 1..n /\ f[i] = f[k] /\ g[i] = g[k]
  BY <1>3 DEF IsFirstLeast
<1>5. ~(i < k) /\ ~(k < i)
  <2>1. i < k => i \in 1..(k - 1)
    BY <1>4
  <2>2. k < i => k \in 1..(i - 1)
    BY <1>4
  <2>. QED BY <1>3, <1>4, <2>1, <2>2 DEF IsFirstLeast
<1>. QED
  BY <1>1, <1>2, <1>4, <1>5

LEMMA DivergenceMirrors ==
    ASSUME NEW r \in Readings["rsi_divergence"], SymmetricThresholds, Top \in Nat
    PROVE  Mirrors("rsi_divergence", r)
<1> DEFINE m == Mirror("rsi_divergence", r)
           p == Params["rsi_divergence"]
<1>1. PICK n \in Nat \ {0} : r \in [1..(n + 1) -> [price: Int, rsi: Rsi]]
  <2>1. r \in Seq([price: Int, rsi: Rsi]) /\ Len(r) > 1
    BY DEF Readings
  <2>2. r \in [1..Len(r) -> [price: Int, rsi: Rsi]] /\ Len(r) \in Nat
    <3> DEFINE S == [price: Int, rsi: Rsi]
    <3>1. r \in Seq(S)
      BY <2>1
    <3> HIDE DEF S
    <3>2. r \in [1..Len(r) -> S] /\ Len(r) \in Nat
      BY <3>1
    <3>. QED BY <3>2 DEF S
  <2>3. PICK k : k = Len(r) - 1
    OBVIOUS
  <2>4. k \in Nat \ {0} /\ k + 1 = Len(r)
    BY <2>1, <2>2, <2>3
  <2>5. r \in [1..(k + 1) -> [price: Int, rsi: Rsi]]
    BY <2>2, <2>4
  <2>. QED BY <2>4, <2>5
<1>2. m = [i \in 1..(n + 1) |-> [price |-> Top - r[i].price, rsi |-> 100 - r[i].rsi]]
  BY <1>1 DEF Mirror
<1>3. Len(r) - 1 = n /\ Len(m) - 1 = n
  <2>1. Len(r) = n + 1 /\ Len(m) = n + 1
    BY <1>1, <1>2
  <2>. QED BY <2>1
<1>4. \A i \in 1..(n + 1) : /\ r[i].price \in Int /\ r[i].rsi \in Int
                            /\ m[i].price = Top - r[i].price
                            /\ m[i].rsi = 100 - r[i].rsi
  <2>1. SUFFICES ASSUME NEW i \in 1..(n + 1)
                 PROVE  /\ r[i].price \in Int /\ r[i].rsi \in Int
                        /\ m[i].price = Top - r[i].price
                        /\ m[i].rsi = 100 - r[i].rsi
    OBVIOUS
  <2>2. r[i] \in [price: Int, rsi: Rsi]
    BY <1>1
  <2>3. m[i] = [price |-> Top - r[i].price, rsi |-> 100 - r[i].rsi]
    BY <1>2
  <2> HIDE DEF m
  <2>. QED BY <2>2, <2>3 DEF Rsi
<1>5. /\ Rule("rsi_divergence", m) = RsiDivergence(p, m)
      /\ Rule("rsi_divergence", r) = RsiDivergence(p, r)
  BY DEF Rule
<1>6. p.low \in Int /\ p.high = 100 - p.low
  BY DEF SymmetricThresholds, Around50
<1> HIDE DEF m, p
<1> DEFINE f == [i \in 1..n |-> r[i].price]
           g == [i \in 1..n |-> -r[i].price]
           fm == [i \in 1..n |-> m[i].price]
           gm == [i \in 1..n |-> -m[i].price]
<1>7. \A i \in 1..n : /\ f[i] \in Int /\ g[i] = -f[i]
                      /\ fm[i] = Top - f[i] /\ gm[i] = f[i] - Top
                      /\ f[i] = r[i].price
  <2>1. \A i \in 1..n : i \in 1..(n + 1)
    OBVIOUS
  <2>. QED BY <1>4, <2>1
<1> HIDE DEF f, g, fm, gm
<1>8. FirstLeast(fm, n) = FirstLeast(g, n)
  <2>1. \A i \in 1..n : fm[i] \in Int /\ g[i] \in Int
    BY <1>7
  <2>2. \A i, j \in 1..n : fm[i] <= fm[j] <=> g[i] <= g[j]
    BY <1>7
  <2>. QED BY <2>1, <2>2, FirstLeastOfSameOrder
<1>9. FirstLeast(gm, n) = FirstLeast(f, n)
  <2>1. \A i \in 1..n : gm[i] \in Int /\ f[i] \in Int
    BY <1>7
  <2>2. \A i, j \in 1..n : gm[i] <= gm[j] <=> f[i] <= f[j]
    BY <1>7
  <2>. QED BY <2>1, <2>2, FirstLeastOfSameOrder
<1>10. PICK lo : lo = FirstLeast(f, n)
  OBVIOUS
<1>11. PICK hi : hi = FirstLeast(g, n)
  OBVIOUS
<1>12. /\ lo \in 1..n /\ hi \in 1..n
       /\ r[lo].price <= r[hi].price
  <2>1. \A i \in 1..n : f[i] \in Int /\ g[i] \in Int
    BY <1>7
  <2>2. IsFirstLeast(f, n, lo) /\ IsFirstLeast(g, n, hi)
    BY <1>10, <1>11, <2>1, FirstLeastIsFirst
  <2>3. lo \in 1..n /\ hi \in 1..n /\ f[lo] <= f[hi]
    BY <2>2 DEF IsFirstLeast
  <2>. QED BY <1>7, <2>3
<1>13. {lo, hi, n + 1} \subseteq 1..(n + 1)
  BY <1>12
<1> DEFINE cur == r[n + 1]
<1>14. /\ {cur.price, cur.rsi, r[lo].price, r[lo].rsi, r[hi].price, r[hi].rsi} \subseteq Int
       /\ m[n + 1].price = Top - cur.price /\ m[n + 1].rsi = 100 - cur.rsi
       /\ m[lo].price = Top - r[lo].price /\ m[lo].rsi = 100 - r[lo].rsi
       /\ m[hi].price = Top - r[hi].price /\ m[hi].rsi = 100 - r[hi].rsi
  BY <1>4, <1>13
<1>15. /\ Depth(100 - cur.rsi, p.high, 100) = Depth(cur.rsi, p.low, 0)
       /\ Depth(100 - cur.rsi, p.low, 0) = Depth(cur.rsi, p.high, 100)
  BY <1>6, <1>14, DepthMirrors
<1>16. RsiDivergence(p, r) =
          IF cur.price < r[lo].price /\ cur.rsi > r[lo].rsi
          THEN IF cur.rsi < p.low THEN Result(7, Depth(cur.rsi, p.low, 0)) ELSE Result(3, 500)
          ELSE IF cur.price > r[hi].price /\ cur.rsi < r[hi].rsi
          THEN IF cur.rsi > p.high THEN Result(-7, Depth(cur.rsi, p.high, 100)) ELSE Result(-3, 500)
          ELSE Neutral
  BY <1>3, <1>10, <1>11 DEF RsiDivergence, f, g
<1>17. RsiDivergence(p, m) =
          IF m[n + 1].price < m[hi].price /\ m[n + 1].rsi > m[hi].rsi
          THEN IF m[n + 1].rsi < p.low THEN Result(7, Depth(m[n + 1].rsi, p.low, 0)) ELSE Result(3, 500)
          ELSE IF m[n + 1].price > m[lo].price /\ m[n + 1].rsi < m[lo].rsi
          THEN IF m[n + 1].rsi > p.high THEN Result(-7, Depth(m[n + 1].rsi, p.high, 100)) ELSE Result(-3, 500)
          ELSE Neutral
  <2>1. /\ FirstLeast([i \in 1..n |-> m[i].price], n) = hi
        /\ FirstLeast([i \in 1..n |-> -m[i].price], n) = lo
    BY <1>8, <1>9, <1>10, <1>11 DEF fm, gm
  <2>. QED BY <1>3, <2>1 DEF RsiDivergence
<1> HIDE DEF cur
<1>18. /\ m[n + 1].price < m[hi].price <=> cur.price > r[hi].price
       /\ m[n + 1].rsi > m[hi].rsi <=> cur.rsi < r[hi].rsi
       /\ m[n + 1].price > m[lo].price <=> cur.price < r[lo].price
       /\ m[n + 1].rsi < m[lo].rsi <=> cur.rsi > r[lo].rsi
       /\ m[n + 1].rsi < p.low <=> cur.rsi > p.high
       /\ m[n + 1].rsi > p.high <=> cur.rsi < p.low
       /\ ~(cur.price < r[lo].price /\ cur.price > r[hi].price)
  BY <1>6, <1>12, <1>14
<1>19. RsiDivergence(p, m) = Opposite(RsiDivergence(p, r))
  BY <1>14, <1>15, <1>16, <1>17, <1>18 DEF Opposite, Result, Neutral
<1>. QED
  BY <1>5, <1>19 DEF Mirrors, m

\* VerdictsMirror: with thresholds that favour no side, no rule does, on whatever readings.
THEOREM RulesFavourNoSide ==
    WholeReadings /\ SymmetricThresholds => (Spec => []VerdictsMirror)
<1>1. SUFFICES ASSUME WholeReadings, SymmetricThresholds PROVE Spec => []VerdictsMirror
  OBVIOUS
<1>2. ASSUME NEW class \in Classes, NEW r \in Grid[class]
      PROVE  RsiAtEnd(class, r) \/ Mirrors(class, r)
  <2>1. r \in Readings[class] /\ Top \in Nat
    BY <1>1, <1>2 DEF WholeReadings
  <2>2. CASE RsiAtEnd(class, r)
    BY <2>2
  <2>3. CASE ~RsiAtEnd(class, r)
    <3>1. class = "ema_crossover" => Mirrors(class, r)
      BY <2>1, EmaMirrors
    <3>2. class = "macd_rsi" => Mirrors(class, r)
      BY <1>1, <2>1, <2>3, MacdMirrors DEF RsiAtEnd
    <3>3. class = "vwap_reversion" => Mirrors(class, r)
      BY <1>1, <2>1, <2>3, VwapMirrors DEF RsiAtEnd
    <3>4. class = "bollinger_breakout" => Mirrors(class, r)
      BY <2>1, BollingerMirrors
    <3>5. class = "adx_trend" => Mirrors(class, r)
      BY <1>1, <2>1, <2>3, AdxMirrors DEF RsiAtEnd
    <3>6. class = "rsi_divergence" => Mirrors(class, r)
      BY <1>1, <2>1, DivergenceMirrors
    <3>. QED
      BY <1>2, <3>1, <3>2, <3>3, <3>4, <3>5, <3>6 DEF Classes
  <2>. QED BY <2>2, <2>3
<1>3. Classes \subseteq Unbiased
  <2>1. SUFFICES ASSUME NEW class \in Classes PROVE class \in Unbiased
    OBVIOUS
  <2>. QED BY <1>2 DEF Unbiased, Mirrors, Opposite
<1>4. VerdictsMirror
  BY <1>3 DEF VerdictsMirror
<1>. QED
  BY <1>4, PTL

=============================================================================
