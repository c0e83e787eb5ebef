-------------------------- MODULE ThrottlingProofs --------------------------
(* What holds of the throttles for any requests, limits and window lengths. *)
EXTENDS Throttling, FiniteSetTheorems, TLAPS

\* The window of a tick is one of the windows there are.
LEMMA WindowIsKnown ==
    ASSUME NEW b \in Buckets, NEW t \in 0..MaxNow
    PROVE  WindowOf(b, t) \in Windows
<1> DEFINE n == Length[b]
<1>1. n \in Nat /\ n > 0
  BY ThrottlingAssumption
<1>2. t \in Nat /\ t <= MaxNow /\ MaxNow \in Nat
  BY ThrottlingAssumption
<1> HIDE DEF n
<1>3. t \div n \in Nat /\ t \div n <= t
  BY <1>1, <1>2, SMTT(30)
<1>4. t \div n \in 0..MaxNow
  BY <1>2, <1>3
<1>. QED
  BY <1>4 DEF WindowOf, Windows, n

\* The bucket a request is at is a bucket.
LEMMA BucketIsKnown ==
    ASSUME NEW r \in Requests, gate[r] \in 1..Len(Gates[r])
    PROVE  Bucket(r) \in Buckets
BY ThrottlingAssumption DEF Bucket

\* TypeOK is an invariant.
THEOREM TypeCorrect == Spec => []TypeOK
<1>1. Init => TypeOK
  <2> SUFFICES ASSUME Init PROVE TypeOK
    OBVIOUS
  <2> USE ThrottlingAssumption DEF Init
  <2>1. phase \in [Requests -> Phase]
    <3>1. PICK made \in Workloads :
             phase = [r \in Requests |-> IF r \in made THEN "new" ELSE "unmade"]
      BY DEF Init
    <3>. QED BY <3>1 DEF Phase
  <2>2. \A r \in Requests : gate[r] \in 1..Len(Gates[r])
    <3> TAKE r \in Requests
    <3>1. Gates[r] \in Seq(Buckets) /\ Gates[r] # <<>>
      OBVIOUS
    <3>2. Len(Gates[r]) \in Nat /\ Len(Gates[r]) >= 1
      BY <3>1
    <3>3. gate[r] = 1
      OBVIOUS
    <3>. QED BY <3>2, <3>3
  <2>3. now \in 0..MaxNow /\ stamp \in [Requests -> 0..MaxNow]
    OBVIOUS
  <2>4. counter \in [Buckets -> [Windows -> Nat]] /\ expires \in [Buckets -> [Windows -> Nat]]
    BY DEF Windows
  <2>. QED BY <2>1, <2>2, <2>3, <2>4 DEF TypeOK
<1>2. TypeOK /\ [Next]_vars => TypeOK'
  <2> SUFFICES ASSUME TypeOK, [Next]_vars PROVE TypeOK'
    OBVIOUS
  <2> USE ThrottlingAssumption
  <2>1. CASE Tick
    BY <2>1 DEF Tick, TypeOK
  <2>2. ASSUME NEW r \in Requests, Arrive(r) PROVE TypeOK'
    BY <2>2 DEF Arrive, TypeOK, Phase
  <2>3. ASSUME NEW r \in Requests, Stamp(r) PROVE TypeOK'
    BY <2>3 DEF Stamp, TypeOK, Phase
  <2>4. ASSUME NEW r \in Requests, Count(r) PROVE TypeOK'
    <3> DEFINE b == Bucket(r)
               w == WindowOf(b, stamp[r])
               n == IF now < expires[b][w] THEN counter[b][w] + 1 ELSE 1
    <3>1. gate[r] \in 1..Len(Gates[r]) /\ stamp[r] \in 0..MaxNow /\ now \in 0..MaxNow
      BY DEF TypeOK
    <3>2. b \in Buckets
      BY <3>1, BucketIsKnown
    <3>3. w \in Windows
      BY <3>1, <3>2, WindowIsKnown
    <3>4. n \in Nat
      BY <3>2, <3>3 DEF TypeOK
    <3>5. now + TimeToLive(b) \in Nat
      BY <3>1, <3>2 DEF TimeToLive
    <3> HIDE DEF b, w, n
    <3>6. /\ counter' = [counter EXCEPT ![b][w] = n]
          /\ expires' = [expires EXCEPT ![b][w] = now + TimeToLive(b)]
          /\ UNCHANGED <<now, stamp>>
      BY <2>4 DEF Count, b, w, n
    <3>7. counter' \in [Buckets -> [Windows -> Nat]]
      BY <3>2, <3>3, <3>4, <3>6 DEF TypeOK
    <3>8. expires' \in [Buckets -> [Windows -> Nat]]
      BY <3>2, <3>3, <3>5, <3>6 DEF TypeOK
    <3>9. phase' \in [Requests -> Phase]
      <4>1. PICK p \in {"refused", "served", "stamp"} : phase' = [phase EXCEPT ![r] = p]
        BY <2>4 DEF Count
      <4>2. p \in Phase
        BY DEF Phase
      <4>. QED BY <4>1, <4>2 DEF TypeOK
    <3>10. gate' \in [Requests -> Nat] /\ \A q \in Requests : gate'[q] \in 1..Len(Gates[q])
      <4>1. CASE UNCHANGED gate
        BY <4>1 DEF TypeOK
      <4>2. CASE ~IsLastGate(r) /\ gate' = [gate EXCEPT ![r] = @ + 1]
        <5>1. Len(Gates[r]) \in Nat
          OBVIOUS
        <5>2. gate[r] + 1 \in 1..Len(Gates[r]) /\ gate[r] + 1 \in Nat
          BY <3>1, <4>2, <5>1 DEF IsLastGate
        <5>3. gate' \in [Requests -> Nat]
          BY <4>2, <5>2 DEF TypeOK
        <5>. QED BY <4>2, <5>2, <5>3 DEF TypeOK
      <4>. QED BY <2>4, <4>1, <4>2 DEF Count
    <3>11. passes' \subseteq [who: Requests, bucket: Buckets, window: Windows, at: 0..MaxNow]
      <4>1. passes' = passes \/ passes' = passes \union {[who |-> r, bucket |-> b, window |-> w, at |-> now]}
        BY <2>4 DEF Count, b, w
      <4>. QED BY <3>1, <3>2, <3>3, <4>1 DEF TypeOK
    <3>. QED
      BY <3>6, <3>7, <3>8, <3>9, <3>10, <3>11 DEF TypeOK
  <2>5. ASSUME NEW r \in Requests, RedisFails(r) PROVE TypeOK'
    BY <2>5 DEF RedisFails, TypeOK, Phase
  <2>6. CASE UNCHANGED vars
    BY <2>6 DEF vars, TypeOK
  <2>. QED
    BY <2>1, <2>2, <2>3, <2>4, <2>5, <2>6 DEF Next
<1>. QED
  BY <1>1, <1>2, PTL DEF Spec

-----------------------------------------------------------------------------
(***************************************************************************)
(* The limits.  Of the calls that passed in a window, those counted before *)
(* its end are as many as its counter says, or fewer, as long as the       *)
(* window lasts: until then the counter cannot go.  What is counted later  *)
(* does not matter: it is late.                                            *)
(***************************************************************************)

End(b, w) == (w + 1) * Length[b]

OnTime(b, w) == {p \in PassedIn(b, w) : p.at < End(b, w)}

\* The counter of a window knows of every call that passed in it so far.
Known(b, w) ==
    (now < End(b, w) /\ OnTime(b, w) # {})
    => Cardinality(OnTime(b, w)) <= counter[b][w] /\ End(b, w) <= expires[b][w]

Kept ==
    /\ IsFiniteSet(passes)
    /\ \A r \in Requests : stamp[r] <= now
    /\ \A b \in Buckets, w \in Windows : Cardinality(OnTime(b, w)) <= Limit[b] /\ Known(b, w)

\* A window begins no later than the ticks in it, and ends a length after.
LEMMA WindowHasItsTicks ==
    ASSUME NEW n \in Nat \ {0}, NEW t \in Nat
    PROVE  (t \div n + 1) * n <= t + n
<1>1. t \div n \in Nat /\ (t \div n) * n <= t
  BY SMTT(30)
<1>. QED
  BY <1>1, SMTT(30)

\* The calls of a window are finitely many.
LEMMA OnTimeIsFinite ==
    ASSUME IsFiniteSet(passes)
    PROVE  \A b \in Buckets, w \in Windows :
               IsFiniteSet(OnTime(b, w)) /\ IsFiniteSet(PassedIn(b, w))
<1> SUFFICES ASSUME NEW b \in Buckets, NEW w \in Windows
             PROVE  IsFiniteSet(OnTime(b, w)) /\ IsFiniteSet(PassedIn(b, w))
  OBVIOUS
<1>1. OnTime(b, w) \subseteq passes /\ PassedIn(b, w) \subseteq passes
  BY DEF OnTime, PassedIn
<1>. QED
  BY <1>1, FS_Subset

\* Counting keeps the counters right.
LEMMA CountKeeps ==
    ASSUME TypeOK, Kept, NEW r \in Requests, Count(r)
    PROVE  Kept'
<1> DEFINE c == Bucket(r)
           v == WindowOf(c, stamp[r])
           n == IF now < expires[c][v] THEN counter[c][v] + 1 ELSE 1
           call == [who |-> r, bucket |-> c, window |-> v, at |-> now]
<1> USE ThrottlingAssumption
<1>1. gate[r] \in 1..Len(Gates[r]) /\ stamp[r] \in 0..MaxNow /\ now \in 0..MaxNow
  BY DEF TypeOK
<1>2. c \in Buckets /\ v \in Windows
  BY <1>1, BucketIsKnown, WindowIsKnown
<1>3. now \in Nat /\ n \in Nat /\ n >= 1 /\ counter[c][v] \in Nat /\ expires[c][v] \in Nat
  BY <1>1, <1>2 DEF TypeOK
<1>4. End(c, v) \in Nat /\ End(c, v) <= now + TimeToLive(c)
  <2>1. Length[c] \in Nat \ {0} /\ stamp[r] \in Nat /\ v \in Nat
    BY <1>1, <1>2 DEF Windows
  <2>2. End(c, v) <= stamp[r] + Length[c]
    BY <2>1, WindowHasItsTicks DEF End, WindowOf
  <2>3. stamp[r] <= now
    BY DEF Kept
  <2>4. End(c, v) \in Nat
    BY <2>1 DEF End
  <2>5. TimeToLive(c) \in Nat /\ Length[c] <= TimeToLive(c)
    BY <2>1 DEF TimeToLive
  <2>. QED
    BY <1>3, <2>1, <2>2, <2>3, <2>4, <2>5
<1>5. /\ counter' = [counter EXCEPT ![c][v] = n]
      /\ expires' = [expires EXCEPT ![c][v] = now + TimeToLive(c)]
      /\ now' = now /\ stamp' = stamp
      /\ passes' = passes \/ (passes' = passes \union {call} /\ n <= Limit[c])
  <2>1. Limit[c] \in Nat
    BY <1>2
  <2>2. CASE Over(n, Limit[c])
    BY <2>2 DEF Count
  <2>3. CASE ~ Over(n, Limit[c])
    <3>1. n <= Limit[c]
      BY <1>3, <2>1, <2>3 DEF Over
    <3>. QED BY <2>3, <3>1 DEF Count
  <2>. QED BY <2>2, <2>3
<1>6. counter'[c][v] = n /\ expires'[c][v] = now + TimeToLive(c)
  BY <1>2, <1>5 DEF TypeOK
<1>7. \A b \in Buckets, w \in Windows :
          b # c \/ w # v => counter'[b][w] = counter[b][w] /\ expires'[b][w] = expires[b][w]
  BY <1>2, <1>5 DEF TypeOK
<1>8. call.bucket = c /\ call.window = v /\ call.at = now
  OBVIOUS
<1> HIDE DEF c, v, n, call
<1>9. IsFiniteSet(passes)'
  <2>1. IsFiniteSet(passes) /\ IsFiniteSet(passes \union {call})
    BY FS_AddElement DEF Kept
  <2>. QED BY <1>5, <2>1
<1>10. \A q \in Requests : (stamp[q] <= now)'
  BY <1>5 DEF Kept
<1>11. ASSUME NEW b \in Buckets, NEW w \in Windows
       PROVE  (Cardinality(OnTime(b, w)) <= Limit[b] /\ Known(b, w))'
  <2>1. Cardinality(OnTime(b, w)) <= Limit[b] /\ Known(b, w)
    BY DEF Kept
  <2>2. CASE OnTime(b, w)' = OnTime(b, w) /\ (b # c \/ w # v)
    BY <1>5, <1>7, <2>1, <2>2 DEF Known, End
  <2>3. CASE b # c \/ w # v
    <3>1. OnTime(b, w)' = OnTime(b, w)
      BY <1>5, <1>8, <2>3 DEF OnTime, PassedIn, End
    <3>. QED BY <2>2, <2>3, <3>1
  <2>4. CASE b = c /\ w = v
    <3>1. IsFiniteSet(OnTime(b, w)) /\ Cardinality(OnTime(b, w)) \in Nat
      BY OnTimeIsFinite, FS_CardinalityType DEF Kept
    <3>. USE <2>4
    <3>2. CASE End(b, w) <= now
      <4>1. OnTime(b, w)' = OnTime(b, w)
        BY <1>3, <1>4, <1>5, <1>8, <3>2 DEF OnTime, PassedIn, End
      <4>2. Known(b, w)'
        BY <1>3, <1>4, <1>5, <3>2 DEF Known, End
      <4>. QED BY <2>1, <2>4, <4>1, <4>2
    <3>3. CASE now < End(b, w)
      <4>1. OnTime(b, w) # {} => Cardinality(OnTime(b, w)) + 1 <= n
        <5>1. SUFFICES ASSUME OnTime(b, w) # {}
                       PROVE  Cardinality(OnTime(b, w)) + 1 <= n
          OBVIOUS
        <5>2. Cardinality(OnTime(b, w)) <= counter[b][w] /\ End(b, w) <= expires[b][w]
          BY <2>1, <2>4, <3>3, <5>1 DEF Known
        <5>3. n = counter[b][w] + 1
          BY <1>3, <1>4, <3>3, <5>2 DEF n
        <5>. QED BY <1>3, <3>1, <5>2, <5>3
      <4>2. Cardinality(OnTime(b, w)) + 1 <= n
        <5>1. CASE OnTime(b, w) = {}
          <6>1. Cardinality(OnTime(b, w)) = 0
            BY <5>1, FS_EmptySet
          <6>. QED BY <1>3, <6>1
        <5>. QED BY <4>1, <5>1
      <4>3. CASE OnTime(b, w)' = OnTime(b, w)
        BY <1>3, <1>4, <1>6, <2>1, <2>4, <3>1, <4>2, <4>3, <1>5 DEF Known, End
      <4>4. CASE OnTime(b, w)' = OnTime(b, w) \union {call} /\ n <= Limit[b]
        <5>1. Cardinality(OnTime(b, w)') \in Nat /\ Cardinality(OnTime(b, w)') <= Cardinality(OnTime(b, w)) + 1
          <6>1. Cardinality(OnTime(b, w) \union {call}) = Cardinality(OnTime(b, w))
                \/ Cardinality(OnTime(b, w) \union {call}) = Cardinality(OnTime(b, w)) + 1
            BY <3>1, FS_AddElement
          <6>. QED BY <3>1, <4>4, <6>1
        <5>2. Limit[b] \in Nat
          BY <1>2
        <5>3. Cardinality(OnTime(b, w)') <= n
          BY <1>3, <3>1, <4>2, <5>1
        <5>4. Cardinality(OnTime(b, w)') <= Limit[b]
          BY <1>3, <4>4, <5>1, <5>2, <5>3
        <5>5. Known(b, w)'
          BY <1>4, <1>5, <1>6, <5>3 DEF Known, End
        <5>. QED BY <2>4, <5>4, <5>5
      <4>5. OnTime(b, w)' = OnTime(b, w) \/ (OnTime(b, w)' = OnTime(b, w) \union {call} /\ n <= Limit[b])
        <5>1. CASE passes' = passes
          BY <5>1 DEF OnTime, PassedIn, End
        <5>2. CASE passes' = passes \union {call} /\ n <= Limit[b]
          BY <1>8, <3>3, <5>2 DEF OnTime, PassedIn, End
        <5>. QED BY <1>5, <5>1, <5>2
      <4>. QED BY <4>3, <4>4, <4>5
    <3>. QED BY <1>3, <1>4, <3>2, <3>3
  <2>. QED BY <2>3, <2>4
<1>. QED
  BY <1>9, <1>10, <1>11 DEF Kept

LEMMA KeptInvariant == Spec => []Kept
<1>1. Init => Kept
  <2> SUFFICES ASSUME Init PROVE Kept
    OBVIOUS
  <2>1. IsFiniteSet(passes)
    BY FS_EmptySet DEF Init
  <2>2. \A r \in Requests : stamp[r] <= now
    BY DEF Init
  <2>3. \A b \in Buckets, w \in Windows : Cardinality(OnTime(b, w)) <= Limit[b] /\ Known(b, w)
    <3> TAKE b \in Buckets, w \in Windows
    <3>1. OnTime(b, w) = {}
      BY DEF Init, OnTime, PassedIn
    <3>2. Cardinality(OnTime(b, w)) = 0 /\ Limit[b] \in Nat
      BY <3>1, FS_EmptySet, ThrottlingAssumption
    <3>. QED BY <3>1, <3>2 DEF Known
  <2>. QED BY <2>1, <2>2, <2>3 DEF Kept
<1>2. TypeOK /\ Kept /\ [Next]_vars => Kept'
  <2> SUFFICES ASSUME TypeOK, Kept, [Next]_vars PROVE Kept'
    OBVIOUS
  <2>1. ASSUME /\ UNCHANGED <<counter, expires, passes>>
               /\ now' \in Nat /\ now <= now'
               /\ \A r \in Requests : stamp'[r] = stamp[r] \/ stamp'[r] = now'
        PROVE  Kept'
    <3>1. now \in Nat /\ \A r \in Requests : stamp[r] \in Nat
      BY ThrottlingAssumption DEF TypeOK
    <3>2. \A r \in Requests : (stamp[r] <= now)'
      BY <2>1, <3>1 DEF Kept
    <3>3. \A b \in Buckets, w \in Windows : (Cardinality(OnTime(b, w)) <= Limit[b] /\ Known(b, w))'
      <4> TAKE b \in Buckets, w \in Windows
      <4>1. End(b, w) \in Nat /\ End(b, w)' = End(b, w)
        BY ThrottlingAssumption DEF End, Windows
      <4>2. OnTime(b, w)' = OnTime(b, w)
        BY <2>1, <4>1 DEF OnTime, PassedIn
      <4>3. Known(b, w)'
        BY <2>1, <3>1, <4>1, <4>2 DEF Known, Kept
      <4>. QED BY <4>2, <4>3 DEF Kept
    <3>. QED BY <2>1, <3>2, <3>3 DEF Kept
  <2>2. now \in Nat
    BY ThrottlingAssumption DEF TypeOK
  <2>3. CASE Tick
    BY <2>1, <2>2, <2>3 DEF Tick
  <2>4. ASSUME NEW r \in Requests, Arrive(r) \/ Stamp(r) PROVE Kept'
    <3>1. stamp' = [stamp EXCEPT ![r] = now] /\ UNCHANGED <<now, counter, expires, passes>>
      BY <2>4 DEF Arrive, Stamp
    <3>2. \A q \in Requests : stamp'[q] = stamp[q] \/ stamp'[q] = now'
      BY <3>1 DEF TypeOK
    <3>. QED BY <2>1, <2>2, <3>1, <3>2
  <2>5. ASSUME NEW r \in Requests, Count(r) PROVE Kept'
    BY <2>5, CountKeeps
  <2>6. ASSUME NEW r \in Requests, RedisFails(r) PROVE Kept'
    BY <2>1, <2>2, <2>6 DEF RedisFails
  <2>7. CASE UNCHANGED vars
    BY <2>1, <2>2, <2>7 DEF vars
  <2>. QED
    BY <2>3, <2>4, <2>5, <2>6, <2>7 DEF Next
<1>. QED
  BY <1>1, <1>2, TypeCorrect, PTL DEF Spec

\* WindowsAreKept: no window of any bucket lets more through than its limit, late calls apart.
THEOREM LimitsHold == Spec => []WindowsAreKept
<1>1. TypeOK /\ Kept => WindowsAreKept
  <2> SUFFICES ASSUME TypeOK, Kept, NEW b \in Buckets, NEW w \in Windows
               PROVE  Cardinality(PassedIn(b, w)) <= Limit[b] + Cardinality(Late(PassedIn(b, w)))
    BY DEF WindowsAreKept
  <2> DEFINE late == Late(PassedIn(b, w))
  <2>1. IsFiniteSet(OnTime(b, w)) /\ IsFiniteSet(PassedIn(b, w))
    BY OnTimeIsFinite DEF Kept
  <2>2. IsFiniteSet(late)
    BY <2>1, FS_Subset DEF Late
  <2>3. PassedIn(b, w) = OnTime(b, w) \union late /\ OnTime(b, w) \cap late = {}
    <3>1. End(b, w) \in Nat
      BY ThrottlingAssumption DEF End, Windows
    <3>2. \A p \in PassedIn(b, w) : p.at \in Nat /\ p.bucket = b /\ p.window = w
      BY ThrottlingAssumption DEF PassedIn, TypeOK
    <3>3. \A p \in PassedIn(b, w) : (p.at >= (p.window + 1) * Length[p.bucket]) <=> ~ (p.at < End(b, w))
      BY <3>1, <3>2 DEF End
    <3>. QED BY <3>3 DEF OnTime, Late
  <2>4. Cardinality(PassedIn(b, w)) = Cardinality(OnTime(b, w)) + Cardinality(late) - Cardinality({})
    BY <2>1, <2>2, <2>3, FS_Union
  <2>5. Cardinality({}) = 0 /\ Cardinality(late) \in Nat /\ Cardinality(OnTime(b, w)) \in Nat
    BY <2>1, <2>2, FS_EmptySet, FS_CardinalityType
  <2>6. Cardinality(OnTime(b, w)) <= Limit[b] /\ Limit[b] \in Nat
    BY ThrottlingAssumption DEF Kept
  <2> HIDE DEF late
  <2>7. Cardinality(PassedIn(b, w)) <= Limit[b] + Cardinality(late)
    BY <2>4, <2>5, <2>6
  <2>. QED
    BY <2>7 DEF late
<1>. QED
  BY <1>1, TypeCorrect, KeptInvariant, PTL

-----------------------------------------------------------------------------
(* Bursts: what passes in any stretch as long as a window. *)

LEMMA Window ==
    ASSUME NEW n \in Nat \ {0}, NEW t \in Nat
    PROVE  /\ t \div n \in Nat
           /\ (t \div n) * n <= t
           /\ t < (t \div n + 1) * n
           /\ (t \div n + 2) * n = (t \div n + 1) * n + n
<1>1. t \div n \in Nat /\ (t \div n) * n <= t /\ t < (t \div n) * n + n
  BY SMTT(30)
<1>. DEFINE q == t \div n
<1>. HIDE DEF q
<1>2. q \in Nat /\ q * n <= t /\ t < q * n + n
  BY <1>1 DEF q
<1>3. (q + 1) * n = q * n + n /\ (q + 2) * n = q * n + n + n
  BY <1>2, SMTT(30)
<1>. QED BY <1>2, <1>3 DEF q

LEMMA Cancel ==
    ASSUME NEW n \in Nat \ {0}, NEW a \in Nat, NEW b \in Nat, a * n < b * n
    PROVE  a < b
<1> SUFFICES ASSUME a >= b PROVE FALSE
  OBVIOUS
<1>1. PICK k \in Nat : a = b + k
  <2>1. a - b \in Nat /\ a = b + (a - b)
    OBVIOUS
  <2>. QED BY <2>1
<1>2. a * n = b * n + k * n /\ k * n \in Nat /\ b * n \in Nat
  BY <1>1, SMTT(30)
<1>. QED BY <1>2

\* A call passes after its window began.
Began == \A p \in passes : p.window * Length[p.bucket] <= p.at

LEMMA BeganStep == TypeOK /\ Kept /\ Began /\ [Next]_vars => Began'
<1> SUFFICES ASSUME TypeOK, Kept, Began, [Next]_vars PROVE Began'
  OBVIOUS
<1>1. CASE UNCHANGED passes
  BY <1>1 DEF Began
<1>2. ASSUME NEW r \in Requests, Count(r) PROVE Began'
  <2> DEFINE c == Bucket(r)
             v == WindowOf(c, stamp[r])
             call == [who |-> r, bucket |-> c, window |-> v, at |-> now]
  <2>1. gate[r] \in 1..Len(Gates[r]) /\ stamp[r] \in Nat /\ now \in Nat /\ stamp[r] <= now
    BY ThrottlingAssumption DEF TypeOK, Kept
  <2>2. c \in Buckets /\ Length[c] \in Nat \ {0}
    BY <2>1, BucketIsKnown, ThrottlingAssumption
  <2>3. v \in Nat /\ v * Length[c] <= stamp[r]
    BY <2>1, <2>2, Window DEF WindowOf
  <2>4. v * Length[c] <= now
    <3>1. v * Length[c] \in Nat
      BY <2>2, <2>3
    <3>. QED BY <2>1, <2>3, <3>1
  <2>5. passes' \subseteq passes \union {call}
    BY <1>2 DEF Count
  <2>6. call.window = v /\ call.bucket = c /\ call.at = now
    OBVIOUS
  <2> HIDE DEF c, v, call
  <2>. QED BY <2>4, <2>5, <2>6 DEF Began
<1>3. ASSUME NEW r \in Requests, Arrive(r) \/ Stamp(r) \/ RedisFails(r) PROVE UNCHANGED passes
  BY <1>3 DEF Arrive, Stamp, RedisFails
<1>. QED BY <1>1, <1>2, <1>3 DEF Next, Tick, vars

\* In any stretch of time as long as a window at most twice the limit passes, late calls
\* apart: a stretch meets two windows.
THEOREM BurstsAreBounded == Spec => []TwiceTheLimitAtMost
<1>1. TypeOK /\ Kept /\ Began => TwiceTheLimitAtMost
  <2> SUFFICES ASSUME TypeOK, Kept, Began, NEW b \in Buckets, NEW t \in 0..MaxNow
               PROVE  LET within == {p \in passes : p.bucket = b /\ t <= p.at /\ p.at < t + Length[b]}
                      IN  Cardinality(within \ Late(within)) <= 2 * Limit[b]
    BY DEF TwiceTheLimitAtMost
  <2> DEFINE within == {p \in passes : p.bucket = b /\ t <= p.at /\ p.at < t + Length[b]}
             S == within \ Late(within)
             n == Length[b]
             q == t \div n
  <2>1. n \in Nat \ {0} /\ t \in Nat /\ Limit[b] \in Nat
    BY ThrottlingAssumption
  <2>2. /\ q \in Nat
        /\ q * n <= t
        /\ t < (q + 1) * n
        /\ (q + 2) * n = (q + 1) * n + n
    BY <2>1, Window
  <2> HIDE DEF n, q
  <2>3. ASSUME NEW p \in S
        PROVE  /\ p.window \in Windows
               /\ p.window = q \/ p.window = q + 1
               /\ p \in OnTime(b, p.window)
    <3> DEFINE w == p.window
    <3>1. /\ p \in passes /\ p.bucket = b
          /\ t <= p.at /\ p.at < t + n
          /\ ~(p.at >= (w + 1) * n)
      BY DEF Late, n
    <3>2. w \in Windows /\ w \in Nat /\ p.at \in Nat
      BY <3>1, ThrottlingAssumption DEF TypeOK, Windows
    <3>3. w * n <= p.at
      BY <3>1 DEF Began, n
    <3> HIDE DEF w
    <3>4. w * n \in Nat /\ (w + 1) * n \in Nat /\ q * n \in Nat /\ (q + 1) * n \in Nat /\ (q + 2) * n \in Nat
      BY <2>1, <2>2, <3>2
    <3>5. p.at < (w + 1) * n
      BY <3>1, <3>2, <3>4
    <3>6. q * n < (w + 1) * n
      BY <2>1, <2>2, <3>1, <3>2, <3>4, <3>5
    <3>7. w * n < (q + 2) * n
      BY <2>1, <2>2, <3>1, <3>2, <3>3, <3>4
    <3>8. q < w + 1 /\ w < q + 2
      BY <2>1, <2>2, <3>2, <3>6, <3>7, Cancel
    <3>9. w = q \/ w = q + 1
      BY <2>2, <3>2, <3>8
    <3>10. p \in OnTime(b, w)
      BY <3>1, <3>5 DEF OnTime, PassedIn, End, n, w
    <3>. QED BY <3>2, <3>9, <3>10 DEF w
  <2> DEFINE Of(w) == IF w \in Windows THEN OnTime(b, w) ELSE {}
             A == Of(q)
             B == Of(q + 1)
  <2>4. S \subseteq A \union B
    BY <2>3
  <2>5. /\ IsFiniteSet(A) /\ Cardinality(A) <= Limit[b]
        /\ IsFiniteSet(B) /\ Cardinality(B) <= Limit[b]
    BY <2>1, OnTimeIsFinite, FS_EmptySet DEF Kept
  <2> HIDE DEF A, B, S, within
  <2>6. /\ IsFiniteSet(A \union B)
        /\ Cardinality(A \union B) = Cardinality(A) + Cardinality(B) - Cardinality(A \cap B)
    BY <2>5, FS_Union
  <2>7. IsFiniteSet(A \cap B)
    BY <2>5, FS_Subset
  <2>8. Cardinality(A) \in Nat /\ Cardinality(B) \in Nat /\ Cardinality(A \cap B) \in Nat
    BY <2>5, <2>7, FS_CardinalityType
  <2>9. IsFiniteSet(S) /\ Cardinality(S) <= Cardinality(A \union B)
    BY <2>4, <2>6, FS_Subset
  <2>10. Cardinality(S) \in Nat
    BY <2>9, FS_CardinalityType
  <2>11. Cardinality(S) <= 2 * Limit[b]
    BY <2>1, <2>5, <2>6, <2>8, <2>9, <2>10
  <2>. QED BY <2>11 DEF S, within
<1>2. Init => Began
  BY DEF Init, Began
<1>3. TypeOK /\ Kept /\ Began /\ [Next]_vars => Began'
  BY BeganStep
<1>. QED BY <1>1, <1>2, <1>3, TypeCorrect, KeptInvariant, PTL DEF Spec

-----------------------------------------------------------------------------
(* Quiet hours. *)

\* Compared as text, times of two digits are compared as times on the clock's face,
\* whichever of the two ends of the window comes first.
LEMMA QuietWindow ==
    ASSUME NEW quiet \in [start: ClockTimes, end: ClockTimes, zone: ZoneNames], NEW time \in ClockTimes
    PROVE  InQuietWindow(quiet, time)
           <=> (OfDay(time) - OfDay(quiet.start) + 1440) % 1440
                 < (OfDay(quiet.end) - OfDay(quiet.start) + 1440) % 1440
<1> DEFINE f == OfDay(quiet.start)
           u == OfDay(quiet.end)
           h == OfDay(time)
<1>1. /\ \A t \in ClockTimes : /\ t.hour \in 0..23 /\ t.minute \in 0..59
                              /\ TextOrder(t) = t.minute + 120 * t.hour
                              /\ OfDay(t) = 60 * t.hour + t.minute
      /\ quiet.start \in ClockTimes /\ quiet.end \in ClockTimes
  BY DEF ClockTimes, Times, TextOrder, OfDay
<1>2. \A t \in ClockTimes : OfDay(t) \in 0..1439
  BY <1>1
<1>3. \A s, t \in ClockTimes : Before(s, t) <=> OfDay(s) < OfDay(t)
  <2> SUFFICES ASSUME NEW s \in ClockTimes, NEW t \in ClockTimes
               PROVE  Before(s, t) <=> OfDay(s) < OfDay(t)
    OBVIOUS
  <2>1. Before(s, t) <=> s.minute + 120 * s.hour < t.minute + 120 * t.hour
    BY <1>1 DEF Before
  <2>2. OfDay(s) < OfDay(t) <=> 60 * s.hour + s.minute < 60 * t.hour + t.minute
    BY <1>1
  <2>3. \A a, b \in 0..23 : \A m, n \in 0..59 :
            m + 120 * a < n + 120 * b <=> 60 * a + m < 60 * b + n
    OBVIOUS
  <2> QED
    BY <1>1, <2>1, <2>2, <2>3
<1>4. f \in 0..1439 /\ u \in 0..1439 /\ h \in 0..1439
  BY <1>1, <1>2
<1>5. InQuietWindow(quiet, time) <=> IF f <= u THEN f <= h /\ h < u ELSE f <= h \/ h < u
  <2>1. /\ Before(quiet.end, quiet.start) <=> u < f
        /\ Before(time, quiet.start) <=> h < f
        /\ Before(time, quiet.end) <=> h < u
    BY <1>1, <1>3
  <2> HIDE DEF f, u, h
  <2>2. (u < f <=> ~(f <= u)) /\ (h < f <=> ~(f <= h))
    BY <1>4
  <2> QED
    BY <2>1, <2>2 DEF InQuietWindow
<1> HIDE DEF f, u, h
<1>6. (h - f + 1440) % 1440 = IF f <= h THEN h - f ELSE h - f + 1440
  BY <1>4, SMTT(30)
<1>7. (u - f + 1440) % 1440 = IF f <= u THEN u - f ELSE u - f + 1440
  BY <1>4, SMTT(30)
<1>8. (IF f <= u THEN f <= h /\ h < u ELSE f <= h \/ h < u)
      <=> (h - f + 1440) % 1440 < (u - f + 1440) % 1440
  BY <1>4, <1>6, <1>7
<1>. QED BY <1>5, <1>8 DEF f, u, h

\* A request that comes back for another key has a gate behind it.
GatesBehind == \A r \in Requests : phase[r] = "stamp" => gate[r] > 1

Quieted ==
    \A r \in Requests :
        Kind[r] = "delivery" /\ gate[r] = 1 /\ phase[r] \in {"count", "quiet"} =>
            (phase[r] = "quiet"
             <=> /\ Quiet[r] # NoQuiet /\ Quiet[r].zone \in Zones
                 /\ InQuietWindow(Quiet[r], ClockAt[Quiet[r].zone][stamp[r]]))

QuietInv == GatesBehind /\ Quieted

LEMMA QuietStep == TypeOK /\ QuietInv /\ [Next]_vars => QuietInv'
<1> SUFFICES ASSUME TypeOK, QuietInv, [Next]_vars PROVE QuietInv'
  OBVIOUS
<1> USE DEF QuietInv, GatesBehind, Quieted
<1>0. /\ DOMAIN phase = Requests /\ DOMAIN stamp = Requests
      /\ phase \in [Requests -> Phase] /\ stamp \in [Requests -> 0..MaxNow]
  BY DEF TypeOK
<1>1. ASSUME NEW r \in Requests, Arrive(r) PROVE QuietInv'
  <2>1. /\ phase[r] = "new"
        /\ \A q \in Requests : q # r => phase'[q] = phase[q] /\ stamp'[q] = stamp[q]
        /\ stamp'[r] = now
        /\ UNCHANGED gate
    BY <1>0, <1>1 DEF Arrive
  <2>2. phase'[r] = IF Kind[r] = "api" THEN "count"
                    ELSE IF ~Wanted(Filter[r], Signal[r]) THEN "filtered"
                    ELSE IF IsQuietHour(r) THEN "quiet" ELSE "count"
    BY <1>0, <1>1 DEF Arrive
  <2>3. Kind[r] = "delivery" /\ phase'[r] \in {"count", "quiet"} =>
           (phase'[r] = "quiet"
            <=> /\ Quiet[r] # NoQuiet /\ Quiet[r].zone \in Zones
                /\ InQuietWindow(Quiet[r], ClockAt[Quiet[r].zone][stamp'[r]]))
    BY <2>1, <2>2 DEF IsQuietHour
  <2>4. phase'[r] # "stamp"
    BY <2>2
  <2>. QED BY <2>1, <2>3, <2>4
<1>2. ASSUME NEW r \in Requests, Stamp(r) PROVE QuietInv'
  <2>1. /\ phase[r] = "stamp" /\ phase'[r] = "count"
        /\ \A q \in Requests : q # r => phase'[q] = phase[q] /\ stamp'[q] = stamp[q]
        /\ UNCHANGED gate
    BY <1>0, <1>2 DEF Stamp
  <2>2. gate'[r] # 1
    BY <2>1
  <2>. QED BY <2>1, <2>2
<1>3. ASSUME NEW r \in Requests, Count(r) PROVE QuietInv'
  <2>1. UNCHANGED stamp
    BY <1>3 DEF Count
  <2>2. \/ UNCHANGED gate /\ \E p \in {"refused", "served"} : phase' = [phase EXCEPT ![r] = p]
        \/ gate' = [gate EXCEPT ![r] = @ + 1] /\ phase' = [phase EXCEPT ![r] = "stamp"]
    BY <1>3 DEF Count
  <2>3. CASE UNCHANGED gate /\ \E p \in {"refused", "served"} : phase' = [phase EXCEPT ![r] = p]
    BY <1>0, <2>1, <2>3
  <2>4. CASE gate' = [gate EXCEPT ![r] = @ + 1] /\ phase' = [phase EXCEPT ![r] = "stamp"]
    <3>1. gate[r] \in Nat /\ gate[r] >= 1 /\ DOMAIN gate = Requests
      BY ThrottlingAssumption DEF TypeOK
    <3>2. gate'[r] > 1
      BY <2>4, <3>1
    <3>. QED BY <1>0, <2>1, <2>4, <3>1, <3>2
  <2>. QED BY <2>2, <2>3, <2>4
<1>4. ASSUME NEW r \in Requests, RedisFails(r) PROVE QuietInv'
  <2>1. /\ phase'[r] \in {"served", "error"}
        /\ \A q \in Requests : q # r => phase'[q] = phase[q]
        /\ UNCHANGED <<gate, stamp>>
    BY <1>0, <1>4 DEF RedisFails
  <2>. QED BY <2>1
<1>5. CASE UNCHANGED <<phase, gate, stamp>>
  BY <1>5
<1>. QED BY <1>1, <1>2, <1>3, <1>4, <1>5 DEF Next, Tick, vars

\* A delivery is held back for quiet hours exactly at the times its subscription names,
\* within a day or over midnight, when their hours are written with two digits and the
\* timezone is one there is; and never when it is not.
THEOREM QuietHoursHold == Spec => []QuietHoursAreKept
<1>1. Init => QuietInv
  BY DEF Init, QuietInv, GatesBehind, Quieted
<1>2. TypeOK /\ QuietInv /\ [Next]_vars => QuietInv'
  BY QuietStep
<1>3. TypeOK /\ QuietInv => QuietHoursAreKept
  <2> SUFFICES ASSUME TypeOK, QuietInv, NEW r \in Requests,
                      Kind[r] = "delivery", phase[r] \in {"count", "quiet"}, gate[r] = 1,
                      Quiet[r] # NoQuiet,
                      Quiet[r].start.digits = 2, Quiet[r].end.digits = 2
               PROVE  (phase[r] = "quiet")
                      <=> /\ Quiet[r].zone \in Zones
                          /\ (OfDay(ClockAt[Quiet[r].zone][stamp[r]]) - OfDay(Quiet[r].start) + 1440) % 1440
                               < (OfDay(Quiet[r].end) - OfDay(Quiet[r].start) + 1440) % 1440
    BY DEF QuietHoursAreKept
  <2>1. Quiet[r] \in [start: ClockTimes, end: ClockTimes, zone: ZoneNames]
    BY ThrottlingAssumption DEF ClockTimes
  <2>2. phase[r] = "quiet" <=> /\ Quiet[r].zone \in Zones
                               /\ InQuietWindow(Quiet[r], ClockAt[Quiet[r].zone][stamp[r]])
    BY DEF QuietInv, Quieted
  <2>3. Quiet[r].zone \in Zones => ClockAt[Quiet[r].zone][stamp[r]] \in ClockTimes
    BY ThrottlingAssumption DEF TypeOK
  <2>. QED BY <2>1, <2>2, <2>3, QuietWindow
<1>. QED BY <1>1, <1>2, <1>3, TypeCorrect, PTL DEF Spec

-----------------------------------------------------------------------------
(***************************************************************************)
(* The API's limiter is a fixed-window limiter, if a worker counts under a *)
(* key within a window's length of making it: the counter of a window then *)
(* outlives every call of that window, and knows them all.                 *)
(***************************************************************************)

ApiStalls == \A b \in ApiBuckets : MaxStall <= Length[b]

\* A request whose key is made has not waited longer than a worker stalls.
Prompt == \A r \in Requests : phase[r] = "count" => now <= stamp[r] + MaxStall

\* An API counter has all the calls that passed, until none of its window can come.
KnowsAll(b, w) ==
    PassedIn(b, w) # {} =>
        /\ Cardinality(PassedIn(b, w)) <= counter[b][w]
        /\ (w + 2) * Length[b] <= expires[b][w]

Counted == Prompt /\ \A b \in ApiBuckets, w \in Windows : KnowsAll(b, w)

passedNow == [b \in ApiBuckets |-> [w \in Windows |-> Cardinality(PassedIn(b, w))]]

LEMMA PromptStep == TypeOK /\ Prompt /\ [Next]_vars => Prompt'
<1> SUFFICES ASSUME TypeOK, Prompt, [Next]_vars PROVE Prompt'
  OBVIOUS
<1>0. /\ phase \in [Requests -> Phase] /\ stamp \in [Requests -> Nat]
      /\ now \in Nat /\ MaxStall \in Nat
  BY ThrottlingAssumption DEF TypeOK
<1>1. CASE Tick
  <2> SUFFICES ASSUME NEW r \in Requests, phase[r] = "count"
               PROVE  now + 1 <= stamp[r] + MaxStall
    BY <1>1 DEF Tick, Prompt
  <2>1. now - stamp[r] < MaxStall
    BY <1>1 DEF Tick
  <2>. QED BY <1>0, <2>1
<1>2. ASSUME NEW r \in Requests, Arrive(r) \/ Stamp(r) PROVE Prompt'
  <2>1. /\ \A q \in Requests : q # r => phase'[q] = phase[q] /\ stamp'[q] = stamp[q]
        /\ stamp'[r] = now
        /\ now' = now
    BY <1>0, <1>2 DEF Arrive, Stamp
  <2>2. now <= now + MaxStall
    BY <1>0
  <2>. QED BY <2>1, <2>2 DEF Prompt
<1>3. ASSUME NEW r \in Requests, Count(r) \/ RedisFails(r) PROVE Prompt'
  <2>1. /\ \A q \in Requests : q # r => phase'[q] = phase[q]
        /\ phase'[r] # "count"
        /\ UNCHANGED <<now, stamp>>
    <3>1. \E p \in {"refused", "served", "stamp", "error"} : phase' = [phase EXCEPT ![r] = p]
      BY <1>3 DEF Count, RedisFails
    <3>2. UNCHANGED <<now, stamp>>
      BY <1>3 DEF Count, RedisFails
    <3>. QED BY <1>0, <3>1, <3>2
  <2>. QED BY <2>1 DEF Prompt
<1>4. CASE UNCHANGED vars
  BY <1>4 DEF vars, Prompt
<1>. QED BY <1>1, <1>2, <1>3, <1>4 DEF Next

\* A count under an API key adds to a counter that knows all the calls before it, and
\* passes, if it does, as the limiter allows.
LEMMA CountOfApi ==
    ASSUME ApiStalls, TypeOK, Kept, Began, Counted, NEW r \in Requests, Count(r)
    PROVE  /\ \A b \in ApiBuckets, w \in Windows : KnowsAll(b, w)'
           /\ [Limiter!Next]_<<now, passedNow>>
<1>0. /\ ApiBuckets \subseteq Buckets /\ MaxNow \in Nat /\ MaxStall \in Nat
      /\ \A b \in Buckets : Limit[b] \in Nat \ {0} /\ Length[b] \in Nat \ {0}
  BY ThrottlingAssumption
<1> USE <1>0
<1>1. /\ gate[r] \in 1..Len(Gates[r])
      /\ stamp[r] \in 0..MaxNow /\ now \in 0..MaxNow
      /\ stamp[r] \in Nat /\ now \in Nat
      /\ stamp[r] <= now /\ now <= stamp[r] + MaxStall
  BY DEF TypeOK, Kept, Counted, Prompt, Count
<1>2. PICK c \in Buckets, v \in Windows : c = Bucket(r) /\ v = WindowOf(c, stamp[r])
  <2>1. Bucket(r) \in Buckets
    BY <1>1, BucketIsKnown
  <2>. QED BY <1>1, <2>1, WindowIsKnown
<1> DEFINE L == Length[c]
<1>3. v \in Nat /\ L \in Nat \ {0} /\ Limit[c] \in Nat
  BY DEF Windows
<1>4. v * L <= stamp[r] /\ stamp[r] < (v + 1) * L /\ (v + 2) * L = (v + 1) * L + L
  BY <1>1, <1>2, <1>3, Window DEF WindowOf
<1>5. PICK n : n = IF now < expires[c][v] THEN counter[c][v] + 1 ELSE 1
  OBVIOUS
<1>6. PICK call : call = [who |-> r, bucket |-> c, window |-> v, at |-> now]
  OBVIOUS
<1>7. n \in Nat /\ n >= 1 /\ counter[c][v] \in Nat /\ expires[c][v] \in Nat
  BY <1>1, <1>5 DEF TypeOK
<1>8. /\ counter' = [counter EXCEPT ![c][v] = n]
      /\ expires' = [expires EXCEPT ![c][v] = now + TimeToLive(c)]
      /\ now' = now
      /\ passes' = passes \/ (passes' = passes \union {call} /\ n <= Limit[c])
  <2>1. CASE Over(n, Limit[c])
    BY <1>2, <1>5, <2>1 DEF Count
  <2>2. CASE ~ Over(n, Limit[c])
    <3>1. n <= Limit[c]
      BY <1>3, <1>7, <2>2 DEF Over
    <3>. QED BY <1>2, <1>5, <1>6, <2>2, <3>1 DEF Count
  <2>. QED BY <2>1, <2>2
<1>9. counter'[c][v] = n /\ expires'[c][v] = now + TimeToLive(c)
  BY <1>2, <1>8 DEF TypeOK
<1>10. \A b \in Buckets, w \in Windows :
          b # c \/ w # v => counter'[b][w] = counter[b][w] /\ expires'[b][w] = expires[b][w]
  BY <1>2, <1>8 DEF TypeOK
<1>11. call.bucket = c /\ call.window = v
  BY <1>6
<1>12. \A b \in Buckets, w \in Windows : b # c \/ w # v => PassedIn(b, w)' = PassedIn(b, w)
  BY <1>8, <1>11 DEF PassedIn
<1>13. PassedIn(c, v)' = PassedIn(c, v)
       \/ (PassedIn(c, v)' = PassedIn(c, v) \union {call} /\ n <= Limit[c])
  BY <1>8, <1>11 DEF PassedIn
<1>14. IsFiniteSet(PassedIn(c, v)) /\ Cardinality(PassedIn(c, v)) \in Nat
  BY <1>2, OnTimeIsFinite, FS_CardinalityType DEF Kept
<1> HIDE DEF L
<1>15. \A b \in Buckets, w \in Windows : b # c \/ w # v => (KnowsAll(b, w) => KnowsAll(b, w)')
  BY <1>10, <1>12 DEF KnowsAll
<1>16. CASE c \notin ApiBuckets
  <2>1. \A b \in ApiBuckets, w \in Windows : KnowsAll(b, w)'
    BY <1>15, <1>16 DEF Counted
  <2>2. \A b \in ApiBuckets, w \in Windows : PassedIn(b, w)' = PassedIn(b, w)
    BY <1>12, <1>16
  <2>3. passedNow' = passedNow
    BY <2>2 DEF passedNow
  <2>. QED BY <1>8, <2>1, <2>3
<1>17. CASE c \in ApiBuckets
  <2>1. v * L <= now /\ now < (v + 2) * L
    <3>1. MaxStall \in Nat /\ MaxStall <= L
      BY <1>17 DEF ApiStalls, L
    <3>2. v * L \in Nat /\ (v + 1) * L \in Nat /\ (v + 2) * L \in Nat
      BY <1>3
    <3>. QED BY <1>1, <1>3, <1>4, <3>1, <3>2
  <2>2. (v + 2) * L <= now + TimeToLive(c)
    <3>1. TimeToLive(c) = 2 * L
      BY <1>17 DEF TimeToLive, L
    <3>2. (v + 2) * L = v * L + 2 * L /\ v * L \in Nat
      BY <1>3, SMTT(30)
    <3>. QED BY <1>1, <1>3, <2>1, <3>1, <3>2
  <2>3. Cardinality(PassedIn(c, v)) + 1 <= n
    <3>1. CASE PassedIn(c, v) = {}
      <4>1. Cardinality(PassedIn(c, v)) = 0
        BY <3>1, FS_EmptySet
      <4>. QED BY <1>7, <4>1
    <3>2. CASE PassedIn(c, v) # {}
      <4>1. Cardinality(PassedIn(c, v)) <= counter[c][v] /\ (v + 2) * L <= expires[c][v]
        BY <1>2, <1>17, <3>2 DEF Counted, KnowsAll, L
      <4>2. now < expires[c][v]
        <5>1. (v + 2) * L \in Nat
          BY <1>3
        <5>. QED BY <1>1, <1>7, <2>1, <4>1, <5>1
      <4>3. n = counter[c][v] + 1
        BY <1>5, <4>2
      <4>. QED BY <1>7, <1>14, <4>1, <4>3
    <3>. QED BY <3>1, <3>2
  <2>4. Cardinality(PassedIn(c, v)') <= Cardinality(PassedIn(c, v)) + 1
    <3>1. Cardinality(PassedIn(c, v) \union {call}) = Cardinality(PassedIn(c, v))
          \/ Cardinality(PassedIn(c, v) \union {call}) = Cardinality(PassedIn(c, v)) + 1
      BY <1>14, FS_AddElement
    <3>2. CASE PassedIn(c, v)' = PassedIn(c, v)
      BY <1>14, <3>2
    <3>3. CASE PassedIn(c, v)' = PassedIn(c, v) \union {call}
      BY <1>14, <3>1, <3>3
    <3>. QED BY <1>13, <3>2, <3>3
  <2>5. KnowsAll(c, v)'
    <3>1. Cardinality(PassedIn(c, v)') \in Nat
      <4>1. IsFiniteSet(PassedIn(c, v) \union {call})
        BY <1>14, FS_AddElement
      <4>2. IsFiniteSet(PassedIn(c, v)')
        BY <1>13, <1>14, <4>1
      <4>. QED BY <4>2, FS_CardinalityType
    <3>2. Cardinality(PassedIn(c, v)') <= n
      BY <1>7, <1>14, <2>3, <2>4, <3>1
    <3>. QED BY <1>9, <2>2, <3>2 DEF KnowsAll, L
  <2>6. \A b \in ApiBuckets, w \in Windows : KnowsAll(b, w)'
    BY <1>15, <2>5 DEF Counted
  <2>7. [Limiter!Next]_<<now, passedNow>>
    <3>1. CASE Cardinality(PassedIn(c, v)') = Cardinality(PassedIn(c, v))
      <4>1. \A b \in ApiBuckets, w \in Windows :
               Cardinality(PassedIn(b, w)') = Cardinality(PassedIn(b, w))
        BY <1>12, <3>1
      <4>2. passedNow' = passedNow
        BY <4>1 DEF passedNow
      <4>. QED BY <1>8, <4>2
    <3>2. CASE /\ Cardinality(PassedIn(c, v)') = Cardinality(PassedIn(c, v)) + 1
               /\ n <= Limit[c]
      <4>1. passedNow[c][v] = Cardinality(PassedIn(c, v))
        BY <1>2, <1>17 DEF passedNow
      <4>2. passedNow[c][v] < Limit[c]
        BY <1>3, <1>7, <1>14, <2>3, <3>2, <4>1
      <4>3. passedNow' = [passedNow EXCEPT ![c][v] = @ + 1]
        <5>1. \A b \in ApiBuckets, w \in Windows :
                 Cardinality(PassedIn(b, w)') =
                 IF b = c /\ w = v THEN Cardinality(PassedIn(b, w)) + 1
                                   ELSE Cardinality(PassedIn(b, w))
          BY <1>12, <3>2
        <5>2. passedNow' =
                 [b \in ApiBuckets |-> [w \in Windows |->
                    IF b = c /\ w = v THEN Cardinality(PassedIn(b, w)) + 1
                                      ELSE Cardinality(PassedIn(b, w))]]
          BY <5>1 DEF passedNow
        <5>. QED BY <1>17, <5>2 DEF passedNow
      <4>4. Limiter!Pass(c, v)
        BY <1>8, <2>1, <4>2, <4>3 DEF Limiter!Pass, passedNow, L
      <4>. QED BY <1>2, <1>17, <4>4 DEF Limiter!Next
    <3>3. \/ Cardinality(PassedIn(c, v)') = Cardinality(PassedIn(c, v))
          \/ /\ Cardinality(PassedIn(c, v)') = Cardinality(PassedIn(c, v)) + 1
             /\ n <= Limit[c]
      <4>1. Cardinality(PassedIn(c, v) \union {call}) = Cardinality(PassedIn(c, v))
            \/ Cardinality(PassedIn(c, v) \union {call}) = Cardinality(PassedIn(c, v)) + 1
        BY <1>14, FS_AddElement
      <4>. QED BY <1>13, <4>1
    <3>. QED BY <3>1, <3>2, <3>3
  <2>. QED BY <2>6, <2>7
<1>. QED BY <1>16, <1>17

\* As long as no worker stalls longer than the window of an API key between making the key
\* and counting under it, the limiter the middleware builds from INCR and EXPIRE is the
\* fixed-window limiter: each window passes at most its limit, and no call later than the
\* end of the window after it.
THEOREM ApiLimiterIsFixedWindow == ApiStalls => (Spec => ImplementsFixedWindow)
<1> SUFFICES ASSUME ApiStalls PROVE Spec => ImplementsFixedWindow
  OBVIOUS
<1>1. Init => Limiter!Init /\ Counted
  <2> SUFFICES ASSUME Init PROVE Limiter!Init /\ Counted
    OBVIOUS
  <2>1. \A b \in ApiBuckets, w \in Windows : PassedIn(b, w) = {} /\ Cardinality(PassedIn(b, w)) = 0
    BY FS_EmptySet DEF Init, PassedIn
  <2>2. Prompt
    BY DEF Init, Prompt
  <2>. QED BY <2>1, <2>2 DEF Init, Limiter!Init, Counted, KnowsAll
<1>2. TypeOK /\ Kept /\ Began /\ Counted /\ [Next]_vars
        => Counted' /\ [Limiter!Next]_<<now, passedNow>>
  <2> SUFFICES ASSUME TypeOK, Kept, Began, Counted, [Next]_vars
               PROVE  Counted' /\ [Limiter!Next]_<<now, passedNow>>
    OBVIOUS
  <2>1. Prompt'
    BY PromptStep DEF Counted
  <2>2. CASE UNCHANGED <<counter, expires, passes>>
    <3>1. \A b \in ApiBuckets, w \in Windows : KnowsAll(b, w)'
      BY <2>2 DEF Counted, KnowsAll, PassedIn
    <3>2. passedNow' = passedNow
      BY <2>2 DEF passedNow, PassedIn
    <3>3. now' = now \/ now' = now + 1
      BY DEF Next, Tick, Arrive, Stamp, Count, RedisFails, vars
    <3>4. now' = now + 1 => Limiter!Next
      BY <3>2 DEF Limiter!Next, Limiter!Tick, passedNow
    <3>. QED BY <2>1, <3>1, <3>2, <3>3, <3>4 DEF Counted
  <2>3. ASSUME NEW r \in Requests, Count(r)
        PROVE  Counted' /\ [Limiter!Next]_<<now, passedNow>>
    BY <2>1, <2>3, CountOfApi DEF Counted
  <2>4. UNCHANGED <<counter, expires, passes>> \/ \E r \in Requests : Count(r)
    BY DEF Next, Tick, Arrive, Stamp, RedisFails, vars
  <2>. QED BY <2>2, <2>3, <2>4
<1>3. Init => Began
  BY DEF Init, Began
<1>4. TypeOK /\ Kept /\ Began /\ [Next]_vars => Began'
  BY BeganStep
<1>. QED
  BY <1>1, <1>2, <1>3, <1>4, TypeCorrect, KeptInvariant, PTL
     DEF Spec, ImplementsFixedWindow, Limiter!Spec, passedNow
=============================================================================
