------------------------- MODULE ChannelStoreProofs -------------------------
(* What holds of the channels' rows for any channels, subscriptions and       *)
(* transactions.                                                              *)
EXTENDS ChannelStore, TLAPS

(***************************************************************************)
(* Only a busy transaction has anything to write, it has loaded what it is *)
(* to write from a sealed row, and what it has locked so is still there.   *)
(***************************************************************************)

Locks ==
    \A s \in Sessions :
        /\ phase[s] # "busy" => held[s] = {} /\ dirty[s] = {}
        /\ \A c \in dirty[s] : /\ seen[s][c] # Gone /\ seen[s][c].form = "sealed"
                               /\ c \in held[s] => row[c] # Gone
        /\ phase[s] = "busy" /\ Single(s) => seen[s][work[s].channel] # Gone

RowTypes ==
    /\ row \in [Chans -> Row \union {Gone}]
    /\ versions \in [Chans -> Nat]
    /\ opened \in [Chans -> SUBSET (Nat \ {0})]

HealthTypes ==
    /\ failures \in [Chans -> Nat] /\ alerts \in [Chans -> Nat] /\ streak \in [Chans -> Nat]
    /\ spared \subseteq Chans

LockTypes ==
    /\ dirty \in [Sessions -> SUBSET Chans]
    /\ held \in [Sessions -> SUBSET Chans]
    /\ \A s, t \in Sessions : s # t => held[s] \intersect held[t] = {}

WorkTypes ==
    /\ work \in {w.sessions : w \in Workloads}
    /\ phase \in [Sessions -> {"start", "busy", "done", "aborted"}]
    /\ seen \in [Sessions -> [Chans -> Row \union {Gone}]]
    /\ \A s \in Sessions : todo[s] \subseteq (IF work[s].kind = "cron" THEN Chans ELSE Subs)
    /\ todo = [s \in Sessions |-> todo[s]]
    /\ result \in [Sessions -> [Subs -> {"none", "sent", "failed"}]]
    /\ verdict \in [Sessions -> [Chans -> BOOLEAN \union {Gone}]]

Typed == RowTypes /\ HealthTypes /\ LockTypes /\ WorkTypes /\ Locks

LEMMA TypedIsTypeOK == Typed => TypeOK
BY DEF Typed, RowTypes, HealthTypes, LockTypes, WorkTypes, TypeOK

\* The channel of a request is a channel.
LEMMA RequestsChannel ==
    ASSUME WorkTypes, NEW s \in Sessions
    PROVE  work[s].kind \in Kinds /\ (Single(s) => work[s].channel \in Chans)
<1>1. PICK w \in Workloads : work = w.sessions
  BY DEF WorkTypes
<1>. QED
  BY <1>1, ChannelStoreAssumption DEF Single

\* A row with a transaction's writes over it.
LEMMA CommittedIsRow ==
    ASSUME Typed
    PROVE  \A s \in Sessions, c \in Chans :
               /\ row[c] # Gone =>
                     /\ Committed(s, c) \in Row
                     /\ Committed(s, c).version = IF c \in dirty[s] THEN seen[s][c].version ELSE row[c].version
                     /\ Committed(s, c).form = IF c \in dirty[s] THEN "plain" ELSE row[c].form
               /\ row[c] = Gone /\ c \notin dirty[s] => Committed(s, c) = Gone
<1> SUFFICES ASSUME NEW s \in Sessions, NEW c \in Chans
             PROVE  /\ row[c] # Gone =>
                          /\ Committed(s, c) \in Row
                          /\ Committed(s, c).version = IF c \in dirty[s] THEN seen[s][c].version ELSE row[c].version
                          /\ Committed(s, c).form = IF c \in dirty[s] THEN "plain" ELSE row[c].form
                    /\ row[c] = Gone /\ c \notin dirty[s] => Committed(s, c) = Gone
  OBVIOUS
<1>1. verdict[s][c] \in BOOLEAN \union {Gone} /\ row[c] \in Row \union {Gone}
  BY DEF Typed, RowTypes, WorkTypes
<1>2. \A r \in Row : Checked(s, c, r) \in Row /\ Checked(s, c, r).version = r.version
                     /\ Checked(s, c, r).form = r.form
  BY <1>1, ChannelStoreAssumption DEF Checked, Row
<1>3. CASE c \in dirty[s] /\ row[c] # Gone
  <2>1. seen[s][c] \in Row
    BY <1>3 DEF Typed, Locks, WorkTypes
  <2>2. Opened(s, c) \in Row /\ Opened(s, c).version = seen[s][c].version /\ Opened(s, c).form = "plain"
    BY <1>1, <1>3, <2>1 DEF Opened, Row
  <2>. QED BY <1>2, <1>3, <2>2 DEF Committed
<1>4. CASE c \notin dirty[s] /\ row[c] # Gone
  BY <1>1, <1>2, <1>4 DEF Committed
<1>5. CASE c \notin dirty[s] /\ row[c] = Gone
  BY <1>5 DEF Committed, Checked
<1>. QED
  BY <1>3, <1>4, <1>5

\* A transaction that ends gives up its locks; what it deletes nobody else has locked.
LEMMA Ending ==
    ASSUME Typed, NEW s \in Sessions, NEW p \in {"done", "aborted"},
           phase' = [phase EXCEPT ![s] = p],
           held' = [held EXCEPT ![s] = {}],
           dirty' = [dirty EXCEPT ![s] = {}],
           UNCHANGED <<work, seen, todo, result, verdict>>,
           \A c \in Chans : row[c] # Gone => row'[c] # Gone \/ Free(s, c)
    PROVE  LockTypes' /\ WorkTypes' /\ Locks'
<1>1. LockTypes'
  BY DEF Typed, LockTypes
<1>2. WorkTypes'
  BY DEF Typed, WorkTypes
<1>3. ASSUME NEW t \in Sessions
      PROVE  /\ phase'[t] # "busy" => held'[t] = {} /\ dirty'[t] = {}
             /\ \A c \in dirty'[t] : /\ seen'[t][c] # Gone /\ seen'[t][c].form = "sealed"
                                     /\ c \in held'[t] => row'[c] # Gone
             /\ phase'[t] = "busy" /\ Single(t)' => seen'[t][work'[t].channel] # Gone
  <2>1. CASE t = s
    <3>1. phase'[t] # "busy" /\ held'[t] = {} /\ dirty'[t] = {}
      BY <2>1 DEF Typed, LockTypes, WorkTypes
    <3>. QED BY <3>1
  <2>2. CASE t # s
    <3>1. phase'[t] = phase[t] /\ held'[t] = held[t] /\ dirty'[t] = dirty[t] /\ dirty[t] \subseteq Chans
      BY <2>2 DEF Typed, LockTypes, WorkTypes
    <3>2. \A c \in Chans : c \in held[t] => ~ Free(s, c)
      BY <2>2 DEF Free
    <3>. QED BY <3>1, <3>2 DEF Typed, Locks, Single
  <2>. QED BY <2>1, <2>2
<1>. QED
  BY <1>1, <1>2, <1>3 DEF Locks

\* What loading channels that are not dirty makes of a transaction.
LEMMA Loading ==
    ASSUME Typed, NEW s \in Sessions, NEW cs \in SUBSET Chans, cs \intersect dirty[s] = {},
           Load(s, cs), UNCHANGED <<row, held>>
    PROVE  /\ seen' \in [Sessions -> [Chans -> Row \union {Gone}]]
           /\ dirty' \in [Sessions -> SUBSET Chans]
           /\ \A t \in Sessions : t # s => seen'[t] = seen[t] /\ dirty'[t] = dirty[t]
           /\ \A c \in cs : seen'[s][c] = row[c]
           /\ \A c \in dirty'[s] : /\ seen'[s][c] # Gone /\ seen'[s][c].form = "sealed"
                                   /\ c \in held'[s] => row'[c] # Gone
           /\ (\A c \in cs : row[c] = Gone) => dirty'[s] = dirty[s]
<1>1. /\ seen \in [Sessions -> [Chans -> Row \union {Gone}]] /\ row \in [Chans -> Row \union {Gone}]
      /\ dirty \in [Sessions -> SUBSET Chans]
  BY DEF Typed, RowTypes, LockTypes, WorkTypes
<1>2. \A c \in Chans : Dirties(row[c]) => row[c] # Gone /\ row[c].form = "sealed"
  BY DEF Dirties
<1>3. seen'[s] = [c \in Chans |-> IF c \in cs THEN row[c] ELSE seen[s][c]]
  BY <1>1 DEF Load
<1>4. dirty'[s] = dirty[s] \union {c \in cs : Dirties(row[c])}
  BY <1>1 DEF Load
<1>5. seen' \in [Sessions -> [Chans -> Row \union {Gone}]]
  <2>1. [c \in Chans |-> IF c \in cs THEN row[c] ELSE seen[s][c]] \in [Chans -> Row \union {Gone}]
    BY <1>1
  <2>. QED BY <1>1, <2>1 DEF Load
<1>6. dirty' \in [Sessions -> SUBSET Chans]
  BY <1>1 DEF Load
<1>7. \A t \in Sessions : t # s => seen'[t] = seen[t] /\ dirty'[t] = dirty[t]
  BY <1>1 DEF Load
<1>8. \A c \in dirty'[s] : /\ seen'[s][c] # Gone /\ seen'[s][c].form = "sealed"
                           /\ c \in held'[s] => row'[c] # Gone
  <2> SUFFICES ASSUME NEW c \in dirty'[s]
               PROVE  /\ seen'[s][c] # Gone /\ seen'[s][c].form = "sealed"
                      /\ c \in held'[s] => row'[c] # Gone
    OBVIOUS
  <2>1. c \in Chans
    BY <1>6
  <2>2. CASE c \in dirty[s]
    <3>1. seen'[s][c] = seen[s][c]
      BY <1>3, <2>1, <2>2
    <3>. QED BY <2>2, <3>1 DEF Typed, Locks
  <2>3. CASE c \in cs /\ Dirties(row[c])
    <3>1. seen'[s][c] = row[c]
      BY <1>3, <2>1, <2>3
    <3>. QED BY <1>2, <2>1, <2>3, <3>1
  <2>. QED BY <1>4, <2>2, <2>3
<1>9. \A c \in cs : seen'[s][c] = row[c]
  BY <1>3
<1>10. (\A c \in cs : row[c] = Gone) => dirty'[s] = dirty[s]
  BY <1>2, <1>4
<1>. QED
  BY <1>5, <1>6, <1>7, <1>8, <1>9, <1>10

-----------------------------------------------------------------------------
(* Steps that leave the rows as they are, and the session busy. *)

LEMMA FlushTypes ==
    ASSUME Typed, NEW s \in Sessions, NEW c \in Chans, Flush(s, c)
    PROVE  Typed'
<1>1. /\ UNCHANGED <<row, versions, opened, failures, alerts, streak, spared, work, phase, seen, dirty,
                     todo, result, verdict>>
      /\ held' = [held EXCEPT ![s] = @ \union {c}]
      /\ phase[s] = "busy" /\ row[c] # Gone /\ Free(s, c)
  BY DEF Flush, rowVars, healthVars
<1>2. LockTypes'
  BY <1>1 DEF Typed, LockTypes, Free
<1>3. Locks'
  BY <1>1 DEF Typed, LockTypes, Locks, Single
<1>. QED
  BY <1>1, <1>2, <1>3 DEF Typed, RowTypes, HealthTypes, WorkTypes

LEMMA LoadOneTypes ==
    ASSUME Typed, NEW s \in Sessions, LoadOne(s)
    PROVE  Typed'
<1> DEFINE c == work[s].channel
<1>1. c \in Chans /\ phase[s] = "start" /\ dirty[s] = {} /\ held[s] = {}
  BY RequestsChannel DEF LoadOne, Typed, Locks
<1>2. /\ UNCHANGED <<row, versions, opened, failures, alerts, streak, spared, work, held, todo, result,
                     verdict>>
      /\ Load(s, {c})
      /\ phase' = [phase EXCEPT ![s] = IF row[c] = Gone THEN "aborted" ELSE "busy"]
  BY DEF LoadOne, rowVars, healthVars
<1>3. /\ seen' \in [Sessions -> [Chans -> Row \union {Gone}]]
      /\ dirty' \in [Sessions -> SUBSET Chans]
      /\ \A t \in Sessions : t # s => seen'[t] = seen[t] /\ dirty'[t] = dirty[t]
      /\ seen'[s][c] = row[c]
      /\ \A d \in dirty'[s] : /\ seen'[s][d] # Gone /\ seen'[s][d].form = "sealed"
                              /\ d \in held'[s] => row'[d] # Gone
      /\ row[c] = Gone => dirty'[s] = dirty[s]
  <2>1. {c} \in SUBSET Chans /\ {c} \intersect dirty[s] = {}
    BY <1>1
  <2>. QED BY <1>2, <2>1, Loading
<1>4. phase' \in [Sessions -> {"start", "busy", "done", "aborted"}]
  BY <1>2 DEF Typed, WorkTypes
<1>5. LockTypes' /\ WorkTypes' /\ RowTypes' /\ HealthTypes'
  BY <1>2, <1>3, <1>4 DEF Typed, LockTypes, WorkTypes, RowTypes, HealthTypes
<1>6. ASSUME NEW t \in Sessions
      PROVE  /\ phase'[t] # "busy" => held'[t] = {} /\ dirty'[t] = {}
             /\ \A d \in dirty'[t] : /\ seen'[t][d] # Gone /\ seen'[t][d].form = "sealed"
                                     /\ d \in held'[t] => row'[d] # Gone
             /\ phase'[t] = "busy" /\ Single(t)' => seen'[t][work'[t].channel] # Gone
  <2>1. CASE t = s
    <3>1. phase'[s] = IF row[c] = Gone THEN "aborted" ELSE "busy"
      BY <1>2 DEF Typed, WorkTypes
    <3>. QED BY <1>1, <1>2, <1>3, <2>1, <3>1
  <2>2. CASE t # s
    <3>1. phase'[t] = phase[t]
      BY <1>2, <2>2 DEF Typed, WorkTypes
    <3>. QED BY <1>2, <1>3, <2>2, <3>1 DEF Typed, Locks, Single
  <2>. QED BY <2>1, <2>2
<1>. QED
  BY <1>5, <1>6 DEF Typed, Locks

LEMMA BeginTypes ==
    ASSUME Typed, NEW s \in Sessions, Begin(s)
    PROVE  Typed'
<1>1. /\ UNCHANGED <<row, versions, opened, failures, alerts, streak, spared, work, seen, dirty, held,
                     result, verdict>>
      /\ phase' = [phase EXCEPT ![s] = "busy"] /\ phase[s] = "start"
      /\ todo' = [todo EXCEPT ![s] = {u \in Subs : work[s].kind = "outcomes" \/ Active(ChannelOf[u])}]
      /\ work[s].kind \in Jobs
  BY DEF Begin, rowVars, healthVars
<1>2. work[s].kind # "cron" /\ ~ Single(s)
  BY <1>1 DEF Jobs, Single
<1>3. WorkTypes'
  BY <1>1, <1>2 DEF Typed, WorkTypes
<1>4. Locks'
  BY <1>1, <1>2 DEF Typed, WorkTypes, Locks, Single
<1>. QED
  BY <1>1, <1>3, <1>4 DEF Typed, RowTypes, HealthTypes, LockTypes

LEMMA VisitTypes ==
    ASSUME Typed, NEW s \in Sessions, NEW u \in Subs, Visit(s, u)
    PROVE  Typed'
<1> DEFINE c == ChannelOf[u]
<1>1. c \in Chans /\ phase[s] = "busy" /\ work[s].kind \in Jobs
  BY ChannelStoreAssumption DEF Visit
<1>2. work[s].kind # "cron" /\ ~ Single(s)
  BY <1>1 DEF Jobs, Single
<1>3. CASE Rollback(s) /\ UNCHANGED healthVars
  <2>1. LockTypes' /\ WorkTypes' /\ Locks'
    BY <1>3, Ending DEF Rollback, rowVars
  <2>. QED BY <1>3, <2>1 DEF Rollback, rowVars, healthVars, Typed, RowTypes, HealthTypes
<1>4. CASE /\ todo' = [todo EXCEPT ![s] = @ \ {u}]
           /\ (seen[s][c] = Gone /\ Load(s, {c})) \/ UNCHANGED <<seen, dirty>>
           /\ UNCHANGED result \/ \E x \in {"sent", "failed"} : result' = [result EXCEPT ![s][u] = x]
           /\ UNCHANGED <<row, versions, opened, failures, alerts, streak, spared, work, phase, held,
                          verdict>>
  <2>1. /\ seen' \in [Sessions -> [Chans -> Row \union {Gone}]]
        /\ dirty' \in [Sessions -> SUBSET Chans]
        /\ \A t \in Sessions : t # s => seen'[t] = seen[t] /\ dirty'[t] = dirty[t]
        /\ \A d \in dirty'[s] : /\ seen'[s][d] # Gone /\ seen'[s][d].form = "sealed"
                                /\ d \in held'[s] => row'[d] # Gone
    <3>1. CASE UNCHANGED <<seen, dirty>>
      BY <1>4, <3>1 DEF Typed, WorkTypes, LockTypes, Locks
    <3>2. CASE seen[s][c] = Gone /\ Load(s, {c})
      <4>1. {c} \in SUBSET Chans /\ {c} \intersect dirty[s] = {}
        BY <1>1, <3>2 DEF Typed, Locks
      <4>. QED BY <1>4, <3>2, <4>1, Loading
    <3>. QED BY <1>4, <3>1, <3>2
  <2>2. result' \in [Sessions -> [Subs -> {"none", "sent", "failed"}]]
    <3>1. result \in [Sessions -> [Subs -> {"none", "sent", "failed"}]]
      BY DEF Typed, WorkTypes
    <3>2. ASSUME NEW x \in {"sent", "failed"}, result' = [result EXCEPT ![s][u] = x]
          PROVE  result' \in [Sessions -> [Subs -> {"none", "sent", "failed"}]]
      BY <3>1, <3>2
    <3>. QED BY <1>4, <3>1, <3>2
  <2>3. WorkTypes' /\ LockTypes'
    BY <1>4, <2>1, <2>2 DEF Typed, WorkTypes, LockTypes
  <2>4. Locks'
    BY <1>1, <1>2, <1>4, <2>1 DEF Typed, Locks, Single
  <2>. QED BY <1>4, <2>3, <2>4 DEF Typed, RowTypes, HealthTypes
<1>. QED
  BY <1>3, <1>4 DEF Visit, rowVars, healthVars

LEMMA ListTypes ==
    ASSUME Typed, NEW s \in Sessions, List(s)
    PROVE  Typed'
<1> DEFINE cs == {c \in Chans : Active(c)}
<1>1. /\ work[s].kind = "cron" /\ phase[s] = "start" /\ dirty[s] = {} /\ held[s] = {} /\ ~ Single(s)
      /\ cs \in SUBSET Chans
  BY DEF List, Typed, Locks, Single
<1>2. /\ UNCHANGED <<row, versions, opened, failures, alerts, streak, spared, work, held, result, verdict>>
      /\ Load(s, cs) /\ phase' = [phase EXCEPT ![s] = "busy"] /\ todo' = [todo EXCEPT ![s] = cs]
  BY DEF List, rowVars, healthVars
<1>3. /\ seen' \in [Sessions -> [Chans -> Row \union {Gone}]]
      /\ dirty' \in [Sessions -> SUBSET Chans]
      /\ \A t \in Sessions : t # s => seen'[t] = seen[t] /\ dirty'[t] = dirty[t]
      /\ \A d \in dirty'[s] : /\ seen'[s][d] # Gone /\ seen'[s][d].form = "sealed"
                              /\ d \in held'[s] => row'[d] # Gone
  <2>1. cs \intersect dirty[s] = {}
    BY <1>1
  <2>. QED BY <1>1, <1>2, <2>1, Loading
<1> HIDE DEF cs
<1>4. WorkTypes' /\ LockTypes'
  BY <1>1, <1>2, <1>3 DEF Typed, WorkTypes, LockTypes
<1>5. phase'[s] = "busy" /\ \A t \in Sessions : t # s => phase'[t] = phase[t]
  BY <1>2 DEF Typed, WorkTypes
<1>6. Locks'
  BY <1>1, <1>2, <1>3, <1>5 DEF Typed, Locks, Single
<1>. QED
  BY <1>2, <1>4, <1>6 DEF Typed, RowTypes, HealthTypes

LEMMA ProbeTypes ==
    ASSUME Typed, NEW s \in Sessions, NEW c \in Chans, Probe(s, c)
    PROVE  Typed'
<1>1. UNCHANGED <<row, versions, opened, failures, alerts, spared, work, phase, seen, dirty, held, todo,
                  result>>
  BY DEF Probe, rowVars
<1>2. PICK ok \in BOOLEAN : /\ verdict' = [verdict EXCEPT ![s][c] = ok]
                            /\ streak' = [streak EXCEPT ![c] = IF ok THEN 0 ELSE @ + 1]
  <2>1. \A answer \in Answers : Healthy(TypeOf[c], KeysOf[c], answer) \in BOOLEAN
    BY DEF Healthy
  <2>. QED BY <2>1 DEF Probe
<1>3. verdict' \in [Sessions -> [Chans -> BOOLEAN \union {Gone}]]
  BY <1>2 DEF Typed, WorkTypes
<1>4. streak' \in [Chans -> Nat]
  <2>1. (IF ok THEN 0 ELSE streak[c] + 1) \in Nat
    BY DEF Typed, HealthTypes
  <2>. QED BY <1>2, <2>1 DEF Typed, HealthTypes
<1>. QED
  BY <1>1, <1>3, <1>4 DEF Typed, RowTypes, HealthTypes, LockTypes, WorkTypes, Locks, Single

LEMMA RecordTypes ==
    ASSUME Typed, NEW s \in Sessions, NEW c \in Chans, Record(s, c)
    PROVE  Typed'
<1>1. /\ UNCHANGED <<row, versions, opened, streak, work, phase, seen, dirty, result, verdict>>
      /\ held' = [held EXCEPT ![s] = @ \union {c}] /\ todo' = [todo EXCEPT ![s] = @ \ {c}]
      /\ phase[s] = "busy" /\ work[s].kind = "cron" /\ Free(s, c) /\ dirty[s] \subseteq held[s]
  BY DEF Record, rowVars, Flushed
<1>2. failures' \in [Chans -> Nat]
  <2>1. (IF verdict[s][c] THEN AfterSuccess(failures[c]) ELSE failures[c] + 1) \in Nat
    BY DEF Typed, HealthTypes, AfterSuccess
  <2>. QED BY <2>1 DEF Record, Typed, HealthTypes
<1>3. alerts' \in [Chans -> Nat]
  <2>1. PICK n : alerts' = [alerts EXCEPT ![c] = n] /\ n \in {streak[c], 0, alerts[c]}
    BY DEF Record
  <2>. QED BY <2>1 DEF Typed, HealthTypes
<1>4. spared' \subseteq Chans
  BY DEF Record, Typed, HealthTypes
<1>5. LockTypes'
  BY <1>1 DEF Typed, LockTypes, Free
<1>6. WorkTypes'
  BY <1>1 DEF Typed, WorkTypes
<1>7. Locks'
  BY <1>1 DEF Typed, LockTypes, Locks, Single
<1>. QED
  BY <1>1, <1>2, <1>3, <1>4, <1>5, <1>6, <1>7 DEF Typed, RowTypes, HealthTypes

-----------------------------------------------------------------------------
(***************************************************************************)
(* Steps that end a transaction.  What each does to the rows is said once: *)
(* a row stays sealed, or is written in the clear by one that has opened   *)
(* it; its version grows by an update, or is one that was opened.          *)
(***************************************************************************)

\* The row of c is as it was, but for its flags.
Untouched(c) ==
    /\ row[c] # Gone /\ row'[c] # Gone
    /\ row'[c].version = row[c].version /\ row'[c].form = row[c].form
    /\ opened'[c] = opened[c] /\ versions'[c] = versions[c]

\* s writes back, in the clear, the version it had loaded.
WritesBack(s, c) ==
    /\ row[c] # Gone /\ row'[c] # Gone /\ c \in dirty[s]
    /\ row'[c].version = seen[s][c].version /\ row'[c].form = "plain"
    /\ opened'[c] = opened[c] \union {seen[s][c].version} /\ versions'[c] = versions[c]
    /\ phase[s] = "busy" /\ phase'[s] = "done" /\ work[s].kind # "update"

\* The row of c is new, or has a new configuration.
Renewed(c) ==
    /\ row'[c] # Gone /\ row'[c].form = "sealed"
    /\ row'[c].version = versions'[c] /\ versions'[c] = versions[c] + 1 /\ opened'[c] = opened[c]

RowStep(s, c) ==
    \/ row[c] = Gone /\ row'[c] = Gone /\ versions'[c] = versions[c]
    \/ row[c] # Gone /\ row'[c] = Gone /\ Free(s, c) /\ versions'[c] = versions[c]
    \/ Untouched(c) \/ WritesBack(s, c)
    \/ Renewed(c)

\* What writes back what a transaction has opened.
Writes(s, c) ==
    opened' = [opened EXCEPT ![c] = @ \union (IF c \in dirty[s] THEN {seen[s][c].version} ELSE {})]

\* A request that writes its one channel, and what it has opened, with one flag changed.
LEMMA WriteOne ==
    ASSUME Typed, NEW s \in Sessions, NEW c \in Chans, row[c] # Gone, NEW r \in Row,
           r.version = Committed(s, c).version, r.form = Committed(s, c).form,
           row' = [row EXCEPT ![c] = r], Writes(s, c), UNCHANGED versions,
           phase[s] = "busy", work[s].kind # "update", End(s)
    PROVE  RowTypes' /\ \A d \in Chans : RowStep(s, d)
<1>1. row \in [Chans -> Row \union {Gone}] /\ opened \in [Chans -> SUBSET (Nat \ {0})]
      /\ seen \in [Sessions -> [Chans -> Row \union {Gone}]]
      /\ phase \in [Sessions -> {"start", "busy", "done", "aborted"}]
  BY DEF Typed, RowTypes, WorkTypes
<1>2. row'[c] = r /\ r # Gone /\ \A d \in Chans : d # c => row'[d] = row[d] /\ opened'[d] = opened[d]
  BY <1>1, ChannelStoreAssumption DEF Writes
<1>3. c \in dirty[s] => seen[s][c] \in Row /\ seen[s][c].version \in Nat \ {0}
  BY <1>1 DEF Typed, Locks, Row
<1>4. opened'[c] = opened[c] \union (IF c \in dirty[s] THEN {seen[s][c].version} ELSE {})
  BY <1>1 DEF Writes
<1>5. RowTypes'
  <2>1. row' \in [Chans -> Row \union {Gone}]
    BY <1>1
  <2>2. opened' \in [Chans -> SUBSET (Nat \ {0})]
    BY <1>1, <1>3 DEF Writes
  <2>. QED BY <2>1, <2>2 DEF Typed, RowTypes
<1>6. ASSUME NEW d \in Chans PROVE RowStep(s, d)
  <2>1. CASE d # c
    BY <1>2, <2>1 DEF RowStep, Untouched
  <2>2. CASE d = c /\ c \in dirty[s]
    <3>1. r.version = seen[s][c].version /\ r.form = "plain"
      BY <2>2, CommittedIsRow
    <3>2. phase'[s] = "done"
      BY <1>1 DEF End
    <3>. QED BY <1>2, <1>4, <2>2, <3>1, <3>2 DEF RowStep, WritesBack
  <2>3. CASE d = c /\ c \notin dirty[s]
    <3>1. r.version = row[c].version /\ r.form = row[c].form
      BY <2>3, CommittedIsRow
    <3>2. opened'[c] = opened[c]
      BY <1>4, <2>3
    <3>. QED BY <1>2, <2>3, <3>1, <3>2 DEF RowStep, Untouched
  <2>. QED BY <2>1, <2>2, <2>3
<1>. QED
  BY <1>5, <1>6

\* A transaction that commits what it has opened and checked.
LEMMA CommitRows ==
    ASSUME Typed, NEW s \in Sessions, Commit(s), dirty[s] \subseteq held[s],
           phase[s] = "busy", work[s].kind # "update"
    PROVE  RowTypes' /\ \A d \in Chans : RowStep(s, d)
<1>1. row \in [Chans -> Row \union {Gone}] /\ opened \in [Chans -> SUBSET (Nat \ {0})]
      /\ seen \in [Sessions -> [Chans -> Row \union {Gone}]]
      /\ phase \in [Sessions -> {"start", "busy", "done", "aborted"}]
  BY DEF Typed, RowTypes, WorkTypes
<1>2. /\ row' = [c \in Chans |-> Committed(s, c)]
      /\ opened' = [c \in Chans |-> opened[c] \union (IF c \in dirty[s] THEN {seen[s][c].version} ELSE {})]
      /\ UNCHANGED versions /\ phase'[s] = "done"
  BY <1>1 DEF Commit, End
<1>3. \A c \in Chans : c \in dirty[s] => row[c] # Gone /\ seen[s][c] \in Row
  BY <1>1 DEF Typed, Locks
<1>4. \A c \in Chans : (row[c] # Gone => Committed(s, c) \in Row /\ Committed(s, c) # Gone)
                       /\ (row[c] = Gone => Committed(s, c) = Gone)
  BY <1>3, CommittedIsRow, ChannelStoreAssumption
<1>5. RowTypes'
  <2>1. row' \in [Chans -> Row \union {Gone}]
    BY <1>2, <1>4
  <2>2. \A c \in Chans : c \in dirty[s] => seen[s][c].version \in Nat \ {0}
    BY <1>3 DEF Row
  <2>3. opened' \in [Chans -> SUBSET (Nat \ {0})]
    BY <1>1, <1>2, <2>2
  <2>. QED BY <1>2, <2>1, <2>3 DEF Typed, RowTypes
<1>6. ASSUME NEW c \in Chans PROVE RowStep(s, c)
  <2>1. row'[c] = Committed(s, c)
        /\ opened'[c] = opened[c] \union (IF c \in dirty[s] THEN {seen[s][c].version} ELSE {})
    BY <1>2
  <2>2. CASE row[c] = Gone
    BY <1>2, <1>4, <2>1, <2>2 DEF RowStep
  <2>3. CASE row[c] # Gone /\ c \in dirty[s]
    <3>1. Committed(s, c).version = seen[s][c].version /\ Committed(s, c).form = "plain"
      BY <2>3, CommittedIsRow
    <3>2. opened'[c] = opened[c] \union {seen[s][c].version} /\ row'[c] # Gone
      BY <1>4, <2>1, <2>3
    <3>. QED BY <1>2, <2>1, <2>3, <3>1, <3>2 DEF RowStep, WritesBack
  <2>4. CASE row[c] # Gone /\ c \notin dirty[s]
    <3>1. Committed(s, c).version = row[c].version /\ Committed(s, c).form = row[c].form
      BY <2>4, CommittedIsRow
    <3>2. opened'[c] = opened[c] /\ row'[c] # Gone
      BY <1>4, <2>1, <2>4
    <3>. QED BY <1>2, <2>1, <2>4, <3>1, <3>2 DEF RowStep, Untouched
  <2>. QED BY <2>2, <2>3, <2>4
<1>. QED
  BY <1>5, <1>6

\* A transaction that ends, with what that did to the rows.
LEMMA Ended ==
    ASSUME Typed, NEW s \in Sessions, NEW p \in {"done", "aborted"},
           phase' = [phase EXCEPT ![s] = p],
           held' = [held EXCEPT ![s] = {}],
           dirty' = [dirty EXCEPT ![s] = {}],
           UNCHANGED <<work, seen, todo, result, verdict>>,
           RowTypes', HealthTypes', \A c \in Chans : RowStep(s, c)
    PROVE  Typed'
<1>1. \A c \in Chans : row[c] # Gone => row'[c] # Gone \/ Free(s, c)
  BY DEF RowStep, Untouched, WritesBack, Renewed
<1>2. LockTypes' /\ WorkTypes' /\ Locks'
  BY <1>1, Ending
<1>. QED
  BY <1>2 DEF Typed

\* What a step that leaves the rows alone does to them.
LEMMA RowsStay ==
    ASSUME UNCHANGED rowVars
    PROVE  \A s \in Sessions, c \in Chans : RowStep(s, c)
BY DEF rowVars, RowStep, Untouched

LEMMA RollbackTypes ==
    ASSUME Typed, NEW s \in Sessions, Rollback(s), HealthTypes'
    PROVE  Typed' /\ \A c \in Chans : RowStep(s, c)
<1>1. RowTypes' /\ \A c \in Chans : RowStep(s, c)
  BY RowsStay DEF Rollback, rowVars, Typed, RowTypes
<1>. QED
  BY <1>1, Ended DEF Rollback

LEMMA CommitTypes ==
    ASSUME Typed, NEW s \in Sessions, Commit(s), Flushed(s), phase[s] = "busy",
           work[s].kind # "update"
    PROVE  Typed' /\ \A c \in Chans : RowStep(s, c)
<1>1. RowTypes' /\ \A c \in Chans : RowStep(s, c)
  BY CommitRows DEF Flushed
<1>2. HealthTypes'
  BY DEF Commit, healthVars, Typed, HealthTypes
<1>. QED
  BY <1>1, <1>2, Ended DEF Commit, End

LEMMA ReadTypes ==
    ASSUME Typed, NEW s \in Sessions, Read(s) \/ Finish(s) \/ FinishRun(s)
    PROVE  Typed' /\ \A c \in Chans : RowStep(s, c)
<1>1. Commit(s) /\ Flushed(s) /\ phase[s] = "busy" /\ work[s].kind # "update"
  BY DEF Read, Finish, FinishRun, Jobs
<1>. QED
  BY <1>1, CommitTypes

LEMMA FailTypes ==
    ASSUME Typed, NEW s \in Sessions,
           WriteFails(s) \/ Abort(s) \/ \E c \in Chans : RedisFails(s, c)
    PROVE  Typed' /\ \A c \in Chans : RowStep(s, c)
<1>1. Unrecorded(s) \subseteq Chans
  BY DEF Unrecorded
<1>2. Rollback(s)
  BY DEF WriteFails, Abort, RedisFails
<1>3. HealthTypes'
  <2>1. CASE WriteFails(s) \/ Abort(s)
    BY <1>1, <2>1 DEF WriteFails, Abort, healthVars, Typed, HealthTypes
  <2>2. ASSUME NEW c \in Chans, RedisFails(s, c) PROVE HealthTypes'
    <3>1. failures' = failures \/ failures' = [failures EXCEPT ![c] = @ + 1]
      BY <2>2 DEF RedisFails
    <3>2. failures' \in [Chans -> Nat]
      BY <3>1 DEF Typed, HealthTypes
    <3>. QED BY <1>1, <2>2, <3>2 DEF RedisFails, Typed, HealthTypes
  <2>. QED BY <2>1, <2>2
<1>. QED
  BY <1>2, <1>3, RollbackTypes

LEMMA CheckTypes ==
    ASSUME Typed, NEW s \in Sessions, Check(s)
    PROVE  Typed' /\ \A c \in Chans : RowStep(s, c)
<1> DEFINE c == work[s].channel
<1>1. c \in Chans /\ phase[s] = "busy" /\ work[s].kind = "check" /\ dirty[s] \subseteq held[s]
  <2>1. WorkTypes /\ Single(s)
    BY DEF Check, Typed, Single, Kinds, Jobs
  <2>. QED BY <2>1, RequestsChannel DEF Check, Flushed
<1>2. CASE Rollback(s) /\ UNCHANGED healthVars
  <2>1. HealthTypes'
    BY <1>2 DEF healthVars, Typed, HealthTypes
  <2>. QED BY <1>2, <2>1, RollbackTypes
<1>3. CASE /\ row' = [row EXCEPT ![c] = IF @ = Gone THEN Gone ELSE [Committed(s, c) EXCEPT !.healthy = FALSE]]
           /\ Writes(s, c)
           /\ UNCHANGED <<versions, healthVars>>
           /\ End(s)
  <2>1. HealthTypes'
    BY <1>3 DEF healthVars, Typed, HealthTypes
  <2>2. row \in [Chans -> Row \union {Gone}] /\ opened \in [Chans -> SUBSET (Nat \ {0})]
    BY DEF Typed, RowTypes
  <2>3. CASE row[c] = Gone
    <3>1. c \notin dirty[s]
      BY <1>1, <2>3 DEF Typed, Locks
    <3>2. UNCHANGED rowVars
      <4>1. row' = row
        BY <1>3, <2>2, <2>3
      <4>2. opened' = opened
        BY <1>3, <2>2, <3>1 DEF Writes
      <4>. QED BY <1>3, <4>1, <4>2 DEF rowVars
    <3>3. RowTypes' /\ \A d \in Chans : RowStep(s, d)
      BY <3>2, RowsStay DEF Typed, RowTypes, rowVars
    <3>. QED BY <1>3, <2>1, <3>3, Ended DEF End
  <2>4. CASE row[c] # Gone
    <3> DEFINE r == [Committed(s, c) EXCEPT !.healthy = FALSE]
    <3>1. Committed(s, c) \in Row
      BY <1>1, <2>4, CommittedIsRow
    <3>2. r \in Row /\ r.version = Committed(s, c).version /\ r.form = Committed(s, c).form
      BY <3>1 DEF Row
    <3>3. row' = [row EXCEPT ![c] = r]
      BY <1>3, <2>4
    <3> HIDE DEF r
    <3>4. RowTypes' /\ \A d \in Chans : RowStep(s, d)
      BY <1>1, <1>3, <2>4, <3>2, <3>3, WriteOne
    <3>. QED BY <1>3, <2>1, <3>4, Ended DEF End
  <2>. QED BY <2>3, <2>4
<1>. QED
  BY <1>2, <1>3 DEF Check, Writes

LEMMA ToggleTypes ==
    ASSUME Typed, NEW s \in Sessions, Toggle(s)
    PROVE  Typed' /\ \A c \in Chans : RowStep(s, c)
<1> DEFINE c == work[s].channel
<1> DEFINE r == [Committed(s, c) EXCEPT !.active = ~seen[s][c].active]
<1>1. Single(s) /\ phase[s] = "busy" /\ work[s].kind # "update" /\ row[c] # Gone
  BY DEF Toggle, Single, Kinds, Jobs
<1>2. c \in Chans /\ seen[s][c] # Gone
  BY <1>1, RequestsChannel DEF Typed, Locks
<1>3. seen[s][c] \in Row /\ Committed(s, c) \in Row
  BY <1>1, <1>2, CommittedIsRow DEF Typed, WorkTypes
<1>4. r \in Row /\ r.version = Committed(s, c).version /\ r.form = Committed(s, c).form
  BY <1>3 DEF Row
<1>5. row' = [row EXCEPT ![c] = r] /\ Writes(s, c) /\ UNCHANGED <<versions, healthVars>> /\ End(s)
  BY DEF Toggle, Writes
<1> HIDE DEF r
<1>6. RowTypes' /\ \A d \in Chans : RowStep(s, d)
  BY <1>1, <1>2, <1>4, <1>5, WriteOne
<1>7. HealthTypes'
  BY <1>5 DEF healthVars, Typed, HealthTypes
<1>. QED
  BY <1>5, <1>6, <1>7, Ended DEF End

LEMMA UpdateTypes ==
    ASSUME Typed, NEW s \in Sessions, Update(s)
    PROVE  Typed' /\ \A c \in Chans : RowStep(s, c)
<1> DEFINE c == work[s].channel
<1> DEFINE r == [row[c] EXCEPT !.version = versions[c] + 1, !.form = FormWritten]
<1>1. c \in Chans /\ row[c] # Gone
  <2>1. Single(s)
    BY DEF Update, Single, Kinds, Jobs
  <2>. QED BY <2>1, RequestsChannel DEF Typed, Update
<1>2. /\ row \in [Chans -> Row \union {Gone}] /\ versions \in [Chans -> Nat]
      /\ opened \in [Chans -> SUBSET (Nat \ {0})]
  BY DEF Typed, RowTypes
<1>3. r \in Row /\ r.version = versions[c] + 1 /\ r.form = "sealed" /\ r # Gone
  <2>1. row[c] \in Row /\ versions[c] + 1 \in Nat \ {0}
    BY <1>1, <1>2
  <2>. QED BY <2>1, ChannelStoreAssumption DEF Row, FormWritten
<1>4. /\ versions' = [versions EXCEPT ![c] = @ + 1] /\ row' = [row EXCEPT ![c] = r]
      /\ UNCHANGED <<opened, healthVars>> /\ End(s)
  BY DEF Update
<1> HIDE DEF r
<1>5. RowTypes' /\ HealthTypes'
  BY <1>1, <1>2, <1>3, <1>4 DEF RowTypes, HealthTypes, healthVars, Typed
<1>6. ASSUME NEW d \in Chans PROVE RowStep(s, d)
  <2>1. CASE d = c
    BY <1>1, <1>2, <1>3, <1>4, <2>1 DEF RowStep, Renewed
  <2>2. CASE d # c
    BY <1>1, <1>2, <1>4, <2>2 DEF RowStep, Untouched
  <2>. QED BY <2>1, <2>2
<1>. QED
  BY <1>4, <1>5, <1>6, Ended DEF End

LEMMA DeleteTypes ==
    ASSUME Typed, NEW s \in Sessions, Delete(s)
    PROVE  Typed' /\ \A c \in Chans : RowStep(s, c)
<1> DEFINE c == work[s].channel
<1>1. c \in Chans /\ row[c] # Gone /\ Free(s, c)
  <2>1. Single(s)
    BY DEF Delete, Single, Kinds, Jobs
  <2>. QED BY <2>1, RequestsChannel DEF Typed, Delete
<1>2. row' = [row EXCEPT ![c] = Gone] /\ UNCHANGED <<versions, opened, healthVars>> /\ End(s)
  BY DEF Delete
<1>3. row \in [Chans -> Row \union {Gone}]
  BY DEF Typed, RowTypes
<1>4. RowTypes' /\ HealthTypes'
  BY <1>1, <1>2 DEF RowTypes, HealthTypes, healthVars, Typed
<1>5. \A d \in Chans : RowStep(s, d)
  BY <1>1, <1>2, <1>3 DEF RowStep, Untouched
<1>. QED
  BY <1>2, <1>4, <1>5, Ended DEF End

LEMMA CreateTypes ==
    ASSUME Typed, NEW s \in Sessions, Create(s)
    PROVE  Typed' /\ \A c \in Chans : RowStep(s, c)
<1> DEFINE c == work[s].channel
<1>1. c \in Chans /\ phase[s] = "start" /\ held[s] = {} /\ dirty[s] = {}
  <2>1. Single(s)
    BY DEF Create, Single, Kinds, Jobs
  <2>. QED BY <2>1, RequestsChannel DEF Typed, Create, Locks
<1>2. /\ row \in [Chans -> Row \union {Gone}] /\ versions \in [Chans -> Nat]
      /\ opened \in [Chans -> SUBSET (Nat \ {0})]
  BY DEF Typed, RowTypes
<1>3. UNCHANGED <<opened, healthVars, work, seen, dirty, held, todo, result, verdict>>
  BY DEF Create
<1>4. held' = [held EXCEPT ![s] = {}] /\ dirty' = [dirty EXCEPT ![s] = {}]
  BY <1>1, <1>3 DEF Typed, LockTypes
<1>5. HealthTypes'
  BY <1>3 DEF healthVars, Typed, HealthTypes
<1>6. CASE /\ versions[c] = 0 /\ versions' = [versions EXCEPT ![c] = 1]
           /\ row' = [row EXCEPT ![c] = NewRow]
           /\ phase' = [phase EXCEPT ![s] = "done"]
  <2>1. NewRow \in Row /\ NewRow # Gone /\ NewRow.version = 1 /\ NewRow.form = "sealed"
    <3>1. NewRow \in Row /\ NewRow.version = 1 /\ NewRow.form = "sealed"
      BY DEF NewRow, Row, FormWritten
    <3>. QED BY <3>1, ChannelStoreAssumption
  <2>2. RowTypes'
    BY <1>1, <1>2, <1>3, <1>6, <2>1 DEF RowTypes
  <2>3. ASSUME NEW d \in Chans PROVE RowStep(s, d)
    <3>1. CASE d = c
      BY <1>1, <1>2, <1>3, <1>6, <2>1, <3>1 DEF RowStep, Renewed
    <3>2. CASE d # c
      BY <1>1, <1>2, <1>3, <1>6, <3>2 DEF RowStep, Untouched
    <3>. QED BY <3>1, <3>2
  <2>. QED BY <1>3, <1>4, <1>5, <1>6, <2>2, <2>3, Ended
<1>7. CASE phase' = [phase EXCEPT ![s] = "aborted"] /\ UNCHANGED <<versions, row>>
  <2>1. RowTypes' /\ \A d \in Chans : RowStep(s, d)
    BY <1>3, <1>7, RowsStay DEF Typed, RowTypes, rowVars
  <2>. QED BY <1>3, <1>4, <1>5, <1>7, <2>1, Ended
<1>. QED
  BY <1>6, <1>7 DEF Create

-----------------------------------------------------------------------------
(* The whole system. *)

\* Every step leaves every row alone or does one of the things above to it, on behalf of
\* one transaction.
RowsStep == UNCHANGED rowVars \/ \E s \in Sessions : \A c \in Chans : RowStep(s, c)

LEMMA TypesKept ==
    ASSUME Typed, [Next]_vars
    PROVE  Typed' /\ RowsStep
<1>1. CASE UNCHANGED vars
  BY <1>1 DEF vars, rowVars, healthVars, sessionVars, Typed, RowTypes, HealthTypes, LockTypes, WorkTypes,
              Locks, Single, RowsStep
<1>2. ASSUME NEW s \in Sessions, Request(s) PROVE Typed' /\ RowsStep
  <2>1. CASE LoadOne(s)
    <3>1. Typed'
      BY <2>1, LoadOneTypes
    <3>2. UNCHANGED rowVars
      BY <2>1 DEF LoadOne
    <3>. QED BY <3>1, <3>2 DEF RowsStep
  <2>2. CASE Read(s)
    BY <2>2, ReadTypes DEF RowsStep
  <2>3. CASE Check(s)
    BY <2>3, CheckTypes DEF RowsStep
  <2>4. CASE Update(s)
    BY <2>4, UpdateTypes DEF RowsStep
  <2>5. CASE Toggle(s)
    BY <2>5, ToggleTypes DEF RowsStep
  <2>6. CASE Delete(s)
    BY <2>6, DeleteTypes DEF RowsStep
  <2>7. CASE WriteFails(s)
    BY <2>7, FailTypes DEF RowsStep
  <2>8. CASE Create(s)
    BY <2>8, CreateTypes DEF RowsStep
  <2>. QED BY <1>2, <2>1, <2>2, <2>3, <2>4, <2>5, <2>6, <2>7, <2>8 DEF Request
<1>3. ASSUME NEW s \in Sessions, Job(s) PROVE Typed' /\ RowsStep
  <2>1. CASE Begin(s)
    <3>1. Typed'
      BY <2>1, BeginTypes
    <3>2. UNCHANGED rowVars
      BY <2>1 DEF Begin
    <3>. QED BY <3>1, <3>2 DEF RowsStep
  <2>2. ASSUME NEW u \in Subs, Visit(s, u) PROVE Typed' /\ RowsStep
    <3>1. Typed'
      BY <2>2, VisitTypes
    <3>2. UNCHANGED rowVars
      BY <2>2 DEF Visit, Rollback
    <3>. QED BY <3>1, <3>2 DEF RowsStep
  <2>3. CASE Finish(s)
    BY <2>3, ReadTypes DEF RowsStep
  <2>. QED BY <1>3, <2>1, <2>2, <2>3 DEF Job
<1>4. ASSUME NEW s \in Sessions, Cron(s) PROVE Typed' /\ RowsStep
  <2>1. CASE List(s)
    <3>1. Typed'
      BY <2>1, ListTypes
    <3>2. UNCHANGED rowVars
      BY <2>1 DEF List
    <3>. QED BY <3>1, <3>2 DEF RowsStep
  <2>2. ASSUME NEW c \in Chans, Probe(s, c) PROVE Typed' /\ RowsStep
    <3>1. Typed'
      BY <2>2, ProbeTypes
    <3>2. UNCHANGED rowVars
      BY <2>2 DEF Probe
    <3>. QED BY <3>1, <3>2 DEF RowsStep
  <2>3. ASSUME NEW c \in Chans, Record(s, c) PROVE Typed' /\ RowsStep
    <3>1. Typed'
      BY <2>3, RecordTypes
    <3>2. UNCHANGED rowVars
      BY <2>3 DEF Record
    <3>. QED BY <3>1, <3>2 DEF RowsStep
  <2>4. ASSUME NEW c \in Chans, RedisFails(s, c) PROVE Typed' /\ RowsStep
    BY <2>4, FailTypes DEF RowsStep
  <2>5. CASE FinishRun(s)
    BY <2>5, ReadTypes DEF RowsStep
  <2>. QED BY <1>4, <2>1, <2>2, <2>3, <2>4, <2>5 DEF Cron
<1>5. ASSUME NEW s \in Sessions, Abort(s) PROVE Typed' /\ RowsStep
  BY <1>5, FailTypes DEF RowsStep
<1>6. ASSUME NEW s \in Sessions, NEW c \in Chans, Flush(s, c) PROVE Typed' /\ RowsStep
  <2>1. Typed'
    BY <1>6, FlushTypes
  <2>2. UNCHANGED rowVars
    BY <1>6 DEF Flush
  <2>. QED BY <2>1, <2>2 DEF RowsStep
<1>7. ASSUME NEW c \in Chans, Expire(c) PROVE Typed' /\ RowsStep
  <2>1. /\ failures' = [failures EXCEPT ![c] = 0]
        /\ UNCHANGED <<row, versions, opened, alerts, streak, spared, work, phase, seen, dirty, held, todo,
                       result, verdict>>
    BY <1>7 DEF Expire, rowVars, sessionVars
  <2>2. HealthTypes'
    BY <2>1 DEF Typed, HealthTypes
  <2>. QED BY <2>1, <2>2 DEF Typed, RowTypes, LockTypes, WorkTypes, Locks, Single, RowsStep, rowVars
<1>. QED
  BY <1>1, <1>2, <1>3, <1>4, <1>5, <1>6, <1>7 DEF Next

LEMMA TypedAtFirst ==
    ASSUME Init
    PROVE  Typed
<1>1. PICK w \in Workloads :
          /\ row = [c \in Chans |-> IF c \in w.existing THEN NewRow ELSE Gone]
          /\ versions = [c \in Chans |-> IF c \in w.existing THEN 1 ELSE 0]
          /\ work = w.sessions
  BY DEF Init
<1>2. NewRow \in Row
  BY DEF NewRow, Row, FormWritten
<1>3. RowTypes
  BY <1>1, <1>2 DEF Init, RowTypes
<1>4. HealthTypes
  BY DEF Init, HealthTypes
<1>5. LockTypes
  BY DEF Init, LockTypes
<1>6. WorkTypes
  BY <1>1 DEF Init, WorkTypes
<1>7. Locks
  BY DEF Init, Locks
<1>. QED
  BY <1>3, <1>4, <1>5, <1>6, <1>7 DEF Typed

LEMMA Always == Spec => []Typed
<1>1. Init => Typed
  BY TypedAtFirst
<1>2. Typed /\ [Next]_vars => Typed'
  BY TypesKept
<1>. QED
  BY <1>1, <1>2, PTL DEF Spec

\* Every state has its type, and no row is locked twice: what PostgreSQL promises is kept
\* by every step that takes a lock or writes, whatever the requests, jobs and checks are.
THEOREM TypeCorrect == Spec => []TypeOK
<1>1. Typed => TypeOK
  BY TypedIsTypeOK
<1>. QED
  BY <1>1, Always, PTL

-----------------------------------------------------------------------------
(* Configurations. *)

\* A configuration lies in the clear in its row only after some transaction has opened it
\* and committed (_decrypt_config assigned to the mapped instance).
THEOREM StaysSealed == Spec => []SealedUntilRead
<1>1. ASSUME Init PROVE SealedUntilRead
  <2>1. PICK w \in Workloads : row = [c \in Chans |-> IF c \in w.existing THEN NewRow ELSE Gone]
    BY <1>1 DEF Init
  <2>2. NewRow.form = "sealed"
    BY DEF NewRow, FormWritten
  <2>. QED BY <2>1, <2>2 DEF SealedUntilRead
<1>2. ASSUME Typed, SealedUntilRead, [Next]_vars PROVE SealedUntilRead'
  <2>1. CASE UNCHANGED rowVars
    BY <1>2, <2>1 DEF rowVars, SealedUntilRead
  <2>2. ASSUME NEW s \in Sessions, \A c \in Chans : RowStep(s, c) PROVE SealedUntilRead'
    <3> SUFFICES ASSUME NEW c \in Chans, row'[c] # Gone, row'[c].form = "plain"
                 PROVE  row'[c].version \in opened'[c]
      BY DEF SealedUntilRead
    <3>1. CASE Untouched(c)
      BY <1>2, <3>1 DEF Untouched, SealedUntilRead
    <3>2. CASE WritesBack(s, c)
      BY <3>2 DEF WritesBack
    <3>3. ~ Renewed(c)
      BY DEF Renewed
    <3>. QED BY <2>2, <3>1, <3>2, <3>3 DEF RowStep
  <2>. QED BY <1>2, <2>1, <2>2, TypesKept DEF RowsStep
<1>. QED
  BY <1>1, <1>2, Always, PTL DEF Spec

\* Nothing is newer than the last configuration written.
Dated ==
    \A c \in Chans :
        /\ row[c] # Gone => row[c].version <= versions[c]
        /\ \A s \in Sessions : seen[s][c] # Gone => seen[s][c].version <= versions[c]

\* A transaction remembers a row as it had it, or as it now is.
SeenStep == \A s \in Sessions, c \in Chans : seen'[s][c] = seen[s][c] \/ seen'[s][c] = row[c]

LEMMA LoadSees ==
    ASSUME Typed, NEW s \in Sessions, NEW cs \in SUBSET Chans, Load(s, cs)
    PROVE  SeenStep
<1>1. seen \in [Sessions -> [Chans -> Row \union {Gone}]]
  BY DEF Typed, WorkTypes
<1>. QED
  BY <1>1 DEF Load, SeenStep

LEMMA Sees ==
    ASSUME Typed, [Next]_vars
    PROVE  SeenStep
<1>1. CASE UNCHANGED seen
  BY <1>1 DEF SeenStep
<1>2. ASSUME NEW s \in Sessions, Request(s) PROVE SeenStep
  <2>1. CASE LoadOne(s)
    <3>1. {work[s].channel} \in SUBSET Chans
      BY <2>1, RequestsChannel DEF Typed, LoadOne
    <3>. QED BY <2>1, <3>1, LoadSees DEF LoadOne
  <2>2. CASE ~ LoadOne(s)
    BY <1>1, <1>2, <2>2 DEF Request, Read, Check, Update, Toggle, Delete, WriteFails, Create, Rollback,
                            Commit, End
  <2>. QED BY <2>1, <2>2
<1>3. ASSUME NEW s \in Sessions, Job(s) PROVE SeenStep
  <2>1. ASSUME NEW u \in Subs, Visit(s, u) PROVE SeenStep
    <3>1. {ChannelOf[u]} \in SUBSET Chans
      BY ChannelStoreAssumption
    <3>2. Load(s, {ChannelOf[u]}) \/ UNCHANGED seen
      BY <2>1 DEF Visit, Rollback
    <3>. QED BY <1>1, <3>1, <3>2, LoadSees
  <2>. QED BY <1>1, <1>3, <2>1 DEF Job, Begin, Finish, Commit, End
<1>4. ASSUME NEW s \in Sessions, Cron(s) PROVE SeenStep
  <2>1. CASE List(s)
    <3>1. {c \in Chans : Active(c)} \in SUBSET Chans
      OBVIOUS
    <3>. QED BY <2>1, <3>1, LoadSees DEF List
  <2>. QED BY <1>1, <1>4, <2>1 DEF Cron, Probe, Record, RedisFails, FinishRun, Rollback, Commit, End
<1>. QED
  BY <1>1, <1>2, <1>3, <1>4 DEF Next, Abort, Rollback, Flush, Expire, vars, sessionVars

\* Versions only grow: a row's new version is one more than any, or one that was loaded.
LEMMA DatesKept ==
    ASSUME Typed, Dated, [Next]_vars
    PROVE  Dated'
<1>1. Typed' /\ RowsStep /\ SeenStep
  BY TypesKept, Sees
<1>2. /\ row \in [Chans -> Row \union {Gone}] /\ versions \in [Chans -> Nat]
      /\ row' \in [Chans -> Row \union {Gone}] /\ versions' \in [Chans -> Nat]
      /\ seen \in [Sessions -> [Chans -> Row \union {Gone}]]
      /\ seen' \in [Sessions -> [Chans -> Row \union {Gone}]]
  BY <1>1 DEF Typed, RowTypes, WorkTypes
<1>3. \A r \in Row : r.version \in Nat
  BY DEF Row
<1>4. ASSUME NEW c \in Chans
      PROVE  versions[c] <= versions'[c] /\ (row'[c] # Gone => row'[c].version <= versions'[c])
  <2>1. CASE UNCHANGED rowVars
    BY <1>2, <1>3, <2>1 DEF rowVars, Dated
  <2>2. ASSUME NEW s \in Sessions, RowStep(s, c)
        PROVE  versions[c] <= versions'[c] /\ (row'[c] # Gone => row'[c].version <= versions'[c])
    <3>1. CASE row'[c] = Gone /\ versions'[c] = versions[c]
      BY <1>2, <3>1
    <3>2. CASE Untouched(c)
      BY <1>2, <1>3, <3>2 DEF Untouched, Dated
    <3>3. CASE WritesBack(s, c)
      <4>1. seen[s][c] # Gone /\ versions'[c] = versions[c]
        BY <3>3 DEF WritesBack, Typed, Locks
      <4>. QED BY <1>2, <1>3, <3>3, <4>1 DEF WritesBack, Dated
    <3>4. CASE Renewed(c)
      <4>1. versions'[c] = versions[c] + 1 /\ row'[c].version = versions'[c]
        BY <3>4 DEF Renewed
      <4>. QED BY <1>2, <4>1
    <3>. QED BY <2>2, <3>1, <3>2, <3>3, <3>4 DEF RowStep
  <2>. QED BY <1>1, <2>1, <2>2 DEF RowsStep
<1>5. ASSUME NEW c \in Chans, NEW s \in Sessions, seen'[s][c] # Gone
      PROVE  seen'[s][c].version <= versions'[c]
  <2>1. seen'[s][c] \in {seen[s][c], row[c]} /\ seen'[s][c] \in Row
    BY <1>1, <1>2, <1>5 DEF SeenStep
  <2>2. seen'[s][c].version <= versions[c]
    BY <1>5, <2>1 DEF Dated
  <2>. QED BY <1>2, <1>3, <1>4, <2>1, <2>2
<1>. QED
  BY <1>4, <1>5 DEF Dated

LEMMA AlwaysDated == Spec => []Dated
<1>1. Init => Dated
  <2> SUFFICES ASSUME Init PROVE Dated
    OBVIOUS
  <2>1. PICK w \in Workloads :
            /\ row = [c \in Chans |-> IF c \in w.existing THEN NewRow ELSE Gone]
            /\ versions = [c \in Chans |-> IF c \in w.existing THEN 1 ELSE 0]
    BY DEF Init
  <2>2. NewRow.version = 1
    BY DEF NewRow
  <2>3. seen = [s \in Sessions |-> [c \in Chans |-> Gone]]
    BY DEF Init
  <2>. QED BY <2>1, <2>2, <2>3 DEF Dated
<1>2. Typed /\ Dated /\ [Next]_vars => Dated'
  BY DatesKept
<1>. QED
  BY <1>1, <1>2, Always, PTL DEF Spec

\* An update is undone only by a transaction that had read the configuration sealed and
\* commits it, other than an update; readers of a row in the clear write nothing back.
THEOREM UpdatesStay == Spec => OnlyFirstReadersUndoUpdates
<1>1. ASSUME Typed, Dated, [Next]_vars, NEW c \in Chans,
             row[c] # Gone, row'[c] # Gone, row'[c].version < row[c].version
      PROVE  \E s \in Sessions : /\ phase[s] = "busy" /\ phase'[s] = "done"
                                 /\ work[s].kind # "update"
                                 /\ seen[s][c] # Gone
                                 /\ seen[s][c].form = "sealed"
                                 /\ seen[s][c].version = row'[c].version
  <2>1. /\ row \in [Chans -> Row \union {Gone}] /\ versions \in [Chans -> Nat]
        /\ \A r \in Row : r.version \in Nat
    BY <1>1 DEF Typed, RowTypes, Row
  <2>2. row[c].version \in Nat /\ row[c].version <= versions[c] /\ versions[c] \in Nat
    BY <1>1, <2>1 DEF Dated
  <2>3. row'[c].version # row[c].version
    BY <1>1, <2>2
  <2>4. ~ UNCHANGED rowVars /\ ~ Untouched(c)
    BY <2>3 DEF rowVars, Untouched
  <2>5. ~ Renewed(c)
    <3> SUFFICES ASSUME Renewed(c) PROVE FALSE
      OBVIOUS
    <3>1. row'[c].version = versions[c] + 1
      BY DEF Renewed
    <3>. QED BY <1>1, <2>2, <3>1
  <2>6. PICK s \in Sessions : WritesBack(s, c)
    BY <1>1, <2>4, <2>5, TypesKept DEF RowsStep, RowStep
  <2>7. seen[s][c] # Gone /\ seen[s][c].form = "sealed"
    BY <1>1, <2>6 DEF WritesBack, Typed, Locks
  <2>. QED BY <2>6, <2>7 DEF WritesBack
<1>2. Typed /\ Dated /\ [Next]_vars =>
        [\A c \in Chans :
          row[c] # Gone /\ row'[c] # Gone /\ row'[c].version < row[c].version
              => \E s \in Sessions : /\ phase[s] = "busy" /\ phase'[s] = "done"
                                     /\ work[s].kind # "update"
                                     /\ seen[s][c] # Gone
                                     /\ seen[s][c].form = "sealed"
                                     /\ seen[s][c].version = row'[c].version]_vars
  BY <1>1
<1>. QED
  BY <1>2, Always, AlwaysDated, PTL DEF Spec, OnlyFirstReadersUndoUpdates

-----------------------------------------------------------------------------
(* Broadcasts. *)

\* Only a visit sends anything, and what a transaction is for does not change.
LEMMA WorkStays ==
    ASSUME [Next]_vars
    PROVE  work' = work
<1>1. ASSUME NEW s \in Sessions, Request(s) PROVE work' = work
  BY <1>1 DEF Request, LoadOne, Read, Check, Update, Toggle, Delete, WriteFails, Create, Rollback, Commit, End
<1>2. ASSUME NEW s \in Sessions, Job(s) PROVE work' = work
  BY <1>2 DEF Job, Begin, Visit, Finish, Rollback, Commit, End
<1>3. ASSUME NEW s \in Sessions, Cron(s) PROVE work' = work
  BY <1>3 DEF Cron, List, Probe, Record, RedisFails, FinishRun, Rollback, Commit, End
<1>. QED
  BY <1>1, <1>2, <1>3 DEF Next, Abort, Rollback, Flush, Expire, vars

LEMMA OnlyVisits ==
    ASSUME [Next]_vars
    PROVE  UNCHANGED result \/ \E s \in Sessions, u \in Subs : Visit(s, u)
<1>1. ASSUME NEW s \in Sessions, Request(s) PROVE UNCHANGED result
  BY <1>1 DEF Request, LoadOne, Read, Check, Update, Toggle, Delete, WriteFails, Create, Rollback, Commit, End
<1>2. ASSUME NEW s \in Sessions, Job(s), ~ \E u \in Subs : Visit(s, u) PROVE UNCHANGED result
  BY <1>2 DEF Job, Begin, Finish, Commit, End
<1>3. ASSUME NEW s \in Sessions, Cron(s) PROVE UNCHANGED result
  BY <1>3 DEF Cron, List, Probe, Record, RedisFails, FinishRun, Rollback, Commit, End
<1>. QED
  BY <1>1, <1>2, <1>3 DEF Next, Abort, Rollback, Flush, Expire, vars, sessionVars

\* Neutral notices and outcomes reach a channel once a run, and no exchange gets a
\* neutral one.
THEOREM OnceAChannel == Spec => []OneBroadcastPerChannel
<1>1. Init => OneBroadcastPerChannel
  BY DEF Init, OneBroadcastPerChannel
<1>2. ASSUME Typed, OneBroadcastPerChannel, [Next]_vars PROVE OneBroadcastPerChannel'
  <2>1. work' = work
    BY <1>2, WorkStays
  <2>2. CASE UNCHANGED result
    BY <1>2, <2>1, <2>2 DEF OneBroadcastPerChannel
  <2>3. ASSUME NEW s \in Sessions, NEW u \in Subs, Visit(s, u), result' # result
        PROVE  OneBroadcastPerChannel'
    <3> DEFINE c == ChannelOf[u]
    <3>1. /\ work[s].kind \in Jobs /\ ~ AlreadySent(s, c)
          /\ ~ (work[s].kind = "neutral" /\ TypeOf[c] = "exchange")
      BY <2>3 DEF Visit, Rollback, Skipped
    <3>2. PICK x \in {"sent", "failed"} : result' = [result EXCEPT ![s][u] = x]
      BY <2>3 DEF Visit, Rollback
    <3>3. result \in [Sessions -> [Subs -> {"none", "sent", "failed"}]]
      BY <1>2 DEF Typed, WorkTypes
    <3>4. \A t \in Sessions, v \in Subs : t # s \/ v # u => result'[t][v] = result[t][v]
      BY <3>2, <3>3
    <3>5. work[s].kind # "signal" => \A v \in Subs : result[s][v] # "none" => ChannelOf[v] # c
      BY <3>1 DEF AlreadySent, Jobs
    <3>. QED BY <1>2, <2>1, <3>1, <3>4, <3>5 DEF OneBroadcastPerChannel
  <2>. QED BY <1>2, <2>2, <2>3, OnlyVisits
<1>. QED
  BY <1>1, <1>2, Always, PTL DEF Spec

-----------------------------------------------------------------------------
(***************************************************************************)
(* Alerts.  One health run is busy at a time; what the counter of a        *)
(* channel holds, with the failure the run has found and not yet counted,  *)
(* is no more than the channel's streak, unless a success has not reached  *)
(* the counter.                                                            *)
(***************************************************************************)

\* The run has asked the channel and not yet recorded the answer.
Found(s, c, ok) ==
    work[s].kind = "cron" /\ phase[s] = "busy" /\ c \in todo[s] /\ verdict[s][c] = ok

OneRun ==
    \A s, t \in Sessions :
        work[s].kind = "cron" /\ phase[s] = "busy" /\ work[t].kind = "cron" /\ phase[t] = "busy" => s = t

NothingFoundYet ==
    \A s \in Sessions : phase[s] = "start" => \A c \in Chans : verdict[s][c] = Gone

Counted ==
    \A c \in Chans :
        \/ c \in spared
        \/ \E s \in Sessions : Found(s, c, TRUE)
        \/ /\ failures[c] <= streak[c]
           /\ \A s \in Sessions : Found(s, c, FALSE) => failures[c] + 1 <= streak[c]

Honest == OneRun /\ NothingFoundYet /\ Counted /\ AlertsAreConsecutive

\* What only the health runs' steps and the expiry of a counter do not leave alone.
LEMMA OthersAreHonest ==
    ASSUME Typed, Honest, NEW s \in Sessions, work[s].kind # "cron",
           UNCHANGED <<work, verdict, failures, alerts, streak, spared>>,
           \A t \in Sessions : t # s => phase'[t] = phase[t] /\ todo'[t] = todo[t],
           phase'[s] # "start" \/ phase'[s] = phase[s]
    PROVE  Honest'
<1>1. \A t \in Sessions, c \in Chans, ok \in BOOLEAN : Found(t, c, ok)' <=> Found(t, c, ok)
  BY DEF Found
<1>2. OneRun' /\ NothingFoundYet'
  BY DEF Honest, OneRun, NothingFoundYet
<1>3. Counted'
  BY <1>1 DEF Honest, Counted
<1>. QED
  BY <1>2, <1>3 DEF Honest, AlertsAreConsecutive

LEMMA RequestsAreHonest ==
    ASSUME Typed, Honest, NEW s \in Sessions,
           Request(s) \/ Job(s)
    PROVE  Honest'
<1>0. phase \in [Sessions -> {"start", "busy", "done", "aborted"}]
      /\ todo = [t \in Sessions |-> todo[t]]
  BY DEF Typed, WorkTypes
<1>1. CASE Request(s)
  <2>1. work[s].kind # "cron" /\ UNCHANGED <<work, verdict, failures, alerts, streak, spared, todo>>
    BY <1>1 DEF Request, LoadOne, Read, Check, Update, Toggle, Delete, WriteFails, Create, Rollback, Commit,
                End, healthVars, Single
  <2>2. PICK p \in {"busy", "done", "aborted"} : phase' = [phase EXCEPT ![s] = p]
    BY <1>1 DEF Request, LoadOne, Read, Check, Update, Toggle, Delete, WriteFails, Create, Rollback, Commit,
                End
  <2>3. phase'[s] # "start" /\ \A t \in Sessions : t # s => phase'[t] = phase[t]
    BY <1>0, <2>2
  <2>. QED BY <2>1, <2>3, OthersAreHonest
<1>2. CASE Job(s)
  <2>1. work[s].kind # "cron" /\ UNCHANGED <<work, verdict, failures, alerts, streak, spared>>
    BY <1>2 DEF Job, Begin, Visit, Finish, Rollback, Commit, End, healthVars, Jobs
  <2>2. UNCHANGED phase \/ \E p \in {"busy", "done", "aborted"} : phase' = [phase EXCEPT ![s] = p]
    BY <1>2 DEF Job, Begin, Visit, Finish, Rollback, Commit, End
  <2>3. UNCHANGED todo \/ \E d : todo' = [todo EXCEPT ![s] = d]
    BY <1>2 DEF Job, Begin, Visit, Finish, Rollback, Commit, End
  <2>4. /\ phase'[s] # "start" \/ phase'[s] = phase[s]
        /\ \A t \in Sessions : t # s => phase'[t] = phase[t]
    BY <1>0, <2>2
  <2>5. \A t \in Sessions : t # s => todo'[t] = todo[t]
    BY <1>0, <2>3
  <2>. QED BY <2>1, <2>4, <2>5, OthersAreHonest
<1>. QED
  BY <1>1, <1>2

LEMMA ListIsHonest ==
    ASSUME Typed, Honest, NEW s \in Sessions, List(s)
    PROVE  Honest'
<1>1. /\ phase[s] = "start" /\ phase' = [phase EXCEPT ![s] = "busy"]
      /\ UNCHANGED <<work, verdict, failures, alerts, streak, spared>>
      /\ ~ \E t \in Sessions : work[t].kind = "cron" /\ phase[t] = "busy"
  BY DEF List, healthVars
<1>2. phase'[s] = "busy" /\ \A t \in Sessions : t # s => phase'[t] = phase[t]
  BY <1>1 DEF Typed, WorkTypes
<1>3. OneRun'
  BY <1>1, <1>2 DEF OneRun
<1>4. NothingFoundYet'
  BY <1>1, <1>2 DEF Honest, NothingFoundYet
<1>5. \A t \in Sessions, c \in Chans, ok \in BOOLEAN : ~ Found(t, c, ok) /\ ~ Found(t, c, ok)'
  <2>1. \A c \in Chans, ok \in BOOLEAN : verdict'[s][c] # ok
    BY <1>1, ChannelStoreAssumption DEF Honest, NothingFoundYet
  <2>. QED BY <1>1, <1>2, <2>1 DEF Found
<1>6. Counted'
  BY <1>1, <1>5 DEF Honest, Counted
<1>. QED
  BY <1>1, <1>3, <1>4, <1>6 DEF Honest, AlertsAreConsecutive

LEMMA ProbeIsHonest ==
    ASSUME Typed, Honest, NEW s \in Sessions, NEW c \in Chans, Probe(s, c)
    PROVE  Honest'
<1>1. /\ work[s].kind = "cron" /\ phase[s] = "busy" /\ c \in todo[s] /\ verdict[s][c] = Gone
      /\ UNCHANGED <<work, phase, todo, failures, alerts, spared>>
  BY DEF Probe, NextToCheck
<1>2. PICK ok \in BOOLEAN : /\ verdict' = [verdict EXCEPT ![s][c] = ok]
                            /\ streak' = [streak EXCEPT ![c] = IF ok THEN 0 ELSE @ + 1]
  <2>1. \A answer \in Answers : Healthy(TypeOf[c], KeysOf[c], answer) \in BOOLEAN
    BY DEF Healthy
  <2>. QED BY <2>1 DEF Probe
<1>3. /\ verdict \in [Sessions -> [Chans -> BOOLEAN \union {Gone}]]
      /\ streak \in [Chans -> Nat] /\ failures \in [Chans -> Nat]
  BY DEF Typed, WorkTypes, HealthTypes
<1>4. /\ verdict'[s][c] = ok
      /\ \A t \in Sessions, d \in Chans : t # s \/ d # c => verdict'[t][d] = verdict[t][d]
  BY <1>2, <1>3
<1>5. /\ streak'[c] = (IF ok THEN 0 ELSE streak[c] + 1)
      /\ \A d \in Chans : d # c => streak'[d] = streak[d]
  BY <1>2, <1>3
<1>6. OneRun' /\ NothingFoundYet'
  BY <1>1, <1>4 DEF Honest, OneRun, NothingFoundYet
<1>7. \A t \in Sessions, d \in Chans, o \in BOOLEAN : d # c => (Found(t, d, o)' <=> Found(t, d, o))
  BY <1>1, <1>4 DEF Found
<1>8. \A t \in Sessions, o \in BOOLEAN : ~ Found(t, c, o)
  <2>1. Gone \notin BOOLEAN
    BY ChannelStoreAssumption
  <2>2. ASSUME NEW t \in Sessions, NEW o \in BOOLEAN, Found(t, c, o) PROVE FALSE
    <3>1. t = s
      BY <1>1, <2>2 DEF Found, Honest, OneRun
    <3>. QED BY <1>1, <2>1, <2>2, <3>1 DEF Found
  <2>. QED BY <2>2
<1>9. c \in spared \/ failures[c] <= streak[c]
  BY <1>8 DEF Honest, Counted
<1>10. ASSUME NEW d \in Chans
       PROVE  \/ d \in spared'
              \/ \E t \in Sessions : Found(t, d, TRUE)'
              \/ /\ failures'[d] <= streak'[d]
                 /\ \A t \in Sessions : Found(t, d, FALSE)' => failures'[d] + 1 <= streak'[d]
  <2>1. CASE d # c
    BY <1>1, <1>5, <1>7, <2>1 DEF Honest, Counted
  <2>2. CASE d = c /\ ok = TRUE
    <3>1. Found(s, c, TRUE)'
      BY <1>1, <1>4, <2>2 DEF Found
    <3>. QED BY <2>2, <3>1
  <2>3. CASE d = c /\ ok = FALSE
    <3>1. streak'[c] = streak[c] + 1
      BY <1>5, <2>3
    <3>2. c \in spared \/ (failures[c] <= streak[c] + 1 /\ failures[c] + 1 <= streak[c] + 1)
      BY <1>3, <1>9
    <3>. QED BY <1>1, <2>3, <3>1, <3>2
  <2>. QED BY <2>1, <2>2, <2>3
<1>11. Counted'
  BY <1>10 DEF Counted
<1>. QED
  BY <1>1, <1>6, <1>11 DEF Honest, AlertsAreConsecutive

LEMMA RecordIsHonest ==
    ASSUME Typed, Honest, NEW s \in Sessions, NEW c \in Chans, Record(s, c)
    PROVE  Honest'
<1>1. /\ work[s].kind = "cron" /\ phase[s] = "busy" /\ c \in todo[s] /\ verdict[s][c] # Gone
      /\ UNCHANGED <<work, phase, verdict, streak>>
      /\ todo' = [todo EXCEPT ![s] = @ \ {c}]
      /\ spared' = IF verdict[s][c] THEN spared \ {c} ELSE spared
  BY DEF Record, NextToCheck
<1>2. /\ streak \in [Chans -> Nat] /\ failures \in [Chans -> Nat] /\ alerts \in [Chans -> Nat]
      /\ todo = [t \in Sessions |-> todo[t]]
      /\ verdict[s][c] \in BOOLEAN
  BY <1>1 DEF Typed, WorkTypes, HealthTypes
<1>3. /\ failures'[c] = (IF verdict[s][c] THEN 0 ELSE failures[c] + 1)
      /\ \A d \in Chans : d # c => failures'[d] = failures[d]
  BY <1>2 DEF Record, AfterSuccess
<1>4. /\ alerts'[c] = (IF failures'[c] >= 3 /\ ~verdict[s][c] THEN streak[c]
                       ELSE IF verdict[s][c] THEN 0 ELSE alerts[c])
      /\ \A d \in Chans : d # c => alerts'[d] = alerts[d]
  BY <1>2 DEF Record, ConsecutiveThreshold
<1>5. todo'[s] = todo[s] \ {c} /\ \A t \in Sessions : t # s => todo'[t] = todo[t]
  BY <1>1, <1>2
<1>6. OneRun' /\ NothingFoundYet'
  BY <1>1 DEF Honest, OneRun, NothingFoundYet
<1>7. \A t \in Sessions, d \in Chans, o \in BOOLEAN : d # c => (Found(t, d, o)' <=> Found(t, d, o))
  BY <1>1, <1>5 DEF Found
<1>8. \A t \in Sessions, o \in BOOLEAN : ~ Found(t, c, o)'
  BY <1>1, <1>5 DEF Found, Honest, OneRun
<1>9. ASSUME NEW d \in Chans, d # c
      PROVE  /\ \/ d \in spared'
                \/ \E t \in Sessions : Found(t, d, TRUE)'
                \/ /\ failures'[d] <= streak'[d]
                   /\ \A t \in Sessions : Found(t, d, FALSE)' => failures'[d] + 1 <= streak'[d]
             /\ alerts'[d] = 0 \/ alerts'[d] >= ConsecutiveThreshold \/ d \in spared'
  <2>1. d \in spared => d \in spared'
    BY <1>1, <1>9
  <2>. QED BY <1>1, <1>3, <1>4, <1>7, <1>9, <2>1 DEF Honest, Counted, AlertsAreConsecutive
<1>10. CASE verdict[s][c] = TRUE
  <2>1. failures'[c] = 0 /\ alerts'[c] = 0 /\ 0 <= streak[c]
    BY <1>2, <1>3, <1>4, <1>10
  <2>. QED BY <1>1, <1>6, <1>8, <1>9, <2>1 DEF Honest, Counted, AlertsAreConsecutive
<1>11. CASE verdict[s][c] = FALSE
  <2>1. spared' = spared /\ failures'[c] = failures[c] + 1
    BY <1>1, <1>3, <1>11
  <2>2. \A t \in Sessions : ~ Found(t, c, TRUE)
    BY <1>1, <1>11 DEF Found, Honest, OneRun
  <2>3. Found(s, c, FALSE)
    BY <1>1, <1>11 DEF Found
  <2>4. c \in spared \/ failures'[c] <= streak[c]
    BY <2>1, <2>2, <2>3 DEF Honest, Counted
  <2>5. alerts'[c] = 0 \/ alerts'[c] >= 3 \/ c \in spared
    <3>1. CASE failures'[c] >= 3
      <4>1. alerts'[c] = streak[c]
        BY <1>4, <1>11, <3>1
      <4>2. failures'[c] \in Nat
        BY <1>2, <2>1
      <4>. QED BY <1>2, <2>4, <3>1, <4>1, <4>2
    <3>2. CASE ~ (failures'[c] >= 3)
      <4>1. alerts'[c] = alerts[c]
        BY <1>4, <1>11, <3>2
      <4>. QED BY <4>1 DEF Honest, AlertsAreConsecutive, ConsecutiveThreshold
    <3>. QED BY <3>1, <3>2
  <2>. QED BY <1>1, <1>6, <1>8, <1>9, <2>1, <2>4, <2>5
           DEF Honest, Counted, AlertsAreConsecutive, ConsecutiveThreshold
<1>. QED
  BY <1>2, <1>10, <1>11

\* A run that ends: the successes it has found and not recorded are spared.
LEMMA EndsAreHonest ==
    ASSUME Typed, Honest, NEW s \in Sessions,
           Abort(s) \/ FinishRun(s) \/ \E c \in Chans : RedisFails(s, c)
    PROVE  Honest'
<1>1. UNCHANGED <<work, todo, verdict, alerts, streak>> /\ phase[s] = "busy"
  BY DEF Abort, FinishRun, RedisFails, Rollback, Commit, End, healthVars
<1>2. /\ phase'[s] \in {"done", "aborted"}
      /\ \A t \in Sessions : t # s => phase'[t] = phase[t]
  <2>1. PICK p \in {"done", "aborted"} : phase' = [phase EXCEPT ![s] = p]
    BY DEF Abort, FinishRun, RedisFails, Rollback, Commit, End
  <2>. QED BY <2>1 DEF Typed, WorkTypes
<1>3. spared' = spared \union Unrecorded(s)
  <2>1. CASE FinishRun(s)
    BY <2>1 DEF FinishRun, Commit, healthVars, Unrecorded
  <2>. QED BY <2>1 DEF Abort, RedisFails
<1>4. OneRun' /\ NothingFoundYet'
  BY <1>1, <1>2 DEF Honest, OneRun, NothingFoundYet
<1>5. \A t \in Sessions, c \in Chans, o \in BOOLEAN :
          /\ t # s => (Found(t, c, o)' <=> Found(t, c, o))
          /\ ~ Found(s, c, o)'
  BY <1>1, <1>2 DEF Found
<1>6. \A c \in Chans : Found(s, c, TRUE) => c \in spared'
  BY <1>3 DEF Unrecorded, Found
<1>7. \A c \in Chans : \/ failures'[c] = failures[c]
                       \/ Found(s, c, FALSE) /\ failures'[c] = failures[c] + 1
  <2>1. CASE Abort(s) \/ FinishRun(s)
    BY <2>1 DEF Abort, FinishRun, Commit, healthVars
  <2>2. ASSUME NEW c \in Chans, RedisFails(s, c)
        PROVE  \A d \in Chans : \/ failures'[d] = failures[d]
                                \/ Found(s, d, FALSE) /\ failures'[d] = failures[d] + 1
    <3>1. \/ failures' = failures
          \/ ~verdict[s][c] /\ failures' = [failures EXCEPT ![c] = @ + 1]
      BY <2>2 DEF RedisFails
    <3>2. verdict[s][c] \in BOOLEAN /\ failures \in [Chans -> Nat]
      BY <2>2 DEF RedisFails, Typed, WorkTypes, HealthTypes
    <3>3. ~verdict[s][c] => Found(s, c, FALSE)
      BY <2>2, <3>2 DEF RedisFails, Found, NextToCheck
    <3>. QED BY <3>1, <3>2, <3>3
  <2>. QED BY <2>1, <2>2
<1>8. ASSUME NEW c \in Chans
      PROVE  \/ c \in spared'
             \/ \E t \in Sessions : Found(t, c, TRUE)'
             \/ /\ failures'[c] <= streak'[c]
                /\ \A t \in Sessions : Found(t, c, FALSE)' => failures'[c] + 1 <= streak'[c]
  <2>1. CASE c \in spared \/ Found(s, c, TRUE)
    BY <1>3, <1>6, <2>1
  <2>2. CASE \E t \in Sessions : t # s /\ Found(t, c, TRUE)
    BY <1>5, <2>2
  <2>3. CASE /\ failures[c] <= streak[c]
             /\ \A t \in Sessions : Found(t, c, FALSE) => failures[c] + 1 <= streak[c]
    <3>1. failures'[c] <= streak'[c]
      BY <1>1, <1>7, <2>3
    <3>2. ASSUME NEW t \in Sessions, Found(t, c, FALSE)' PROVE failures'[c] + 1 <= streak'[c]
      <4>1. t # s /\ Found(t, c, FALSE)
        BY <1>5, <3>2
      <4>2. ~ Found(s, c, FALSE)
        BY <4>1 DEF Found, Honest, OneRun
      <4>. QED BY <1>1, <1>7, <2>3, <4>1, <4>2
    <3>. QED BY <3>1, <3>2
  <2>. QED BY <2>1, <2>2, <2>3 DEF Honest, Counted
<1>9. AlertsAreConsecutive'
  BY <1>1, <1>3 DEF Honest, AlertsAreConsecutive
<1>. QED
  BY <1>4, <1>8, <1>9 DEF Honest, Counted

LEMMA QuietAreHonest ==
    ASSUME Typed, Honest,
           \/ UNCHANGED vars
           \/ \E s \in Sessions, c \in Chans : Flush(s, c)
           \/ \E c \in Chans : Expire(c)
    PROVE  Honest'
<1>1. UNCHANGED <<work, phase, todo, verdict, alerts, streak, spared>>
  BY DEF vars, rowVars, healthVars, sessionVars, Flush, Expire
<1>2. \A c \in Chans : failures'[c] = failures[c] \/ (failures'[c] = 0 /\ failures[c] > 0)
  <2>1. CASE UNCHANGED failures
    BY <2>1
  <2>2. ASSUME NEW d \in Chans, Expire(d)
        PROVE  \A c \in Chans : failures'[c] = failures[c] \/ (failures'[c] = 0 /\ failures[c] > 0)
    BY <2>2 DEF Expire, Typed, HealthTypes
  <2>. QED BY <2>1, <2>2 DEF vars, healthVars, Flush
<1>3. failures \in [Chans -> Nat] /\ streak \in [Chans -> Nat]
  BY DEF Typed, HealthTypes
<1>4. \A c \in Chans : \/ failures'[c] = failures[c]
                       \/ failures'[c] <= streak[c] /\ (failures[c] + 1 <= streak[c] => failures'[c] + 1 <= streak[c])
  BY <1>2, <1>3
<1>5. \A t \in Sessions, c \in Chans, o \in BOOLEAN : Found(t, c, o)' <=> Found(t, c, o)
  BY <1>1 DEF Found
<1>6. Counted'
  BY <1>1, <1>4, <1>5 DEF Honest, Counted
<1>. QED
  BY <1>1, <1>6 DEF Honest, OneRun, NothingFoundYet, AlertsAreConsecutive

\* An alert for a channel says that it failed three checks in a row, whatever runs were
\* rolled back and whenever counters expired (health_check_channels), unless a success
\* never reached the counter.
THEOREM AlertsMeanThree == Spec => []AlertsAreConsecutive
<1>1. Init => Honest
  <2> SUFFICES ASSUME Init PROVE Honest
    OBVIOUS
  <2>1. phase = [s \in Sessions |-> "start"] /\ verdict = [s \in Sessions |-> [c \in Chans |-> Gone]]
        /\ failures = [c \in Chans |-> 0] /\ alerts = [c \in Chans |-> 0] /\ streak = [c \in Chans |-> 0]
    BY DEF Init
  <2>. QED BY <2>1 DEF Honest, OneRun, NothingFoundYet, Counted, Found, AlertsAreConsecutive
<1>2. Typed /\ Honest /\ [Next]_vars => Honest'
  <2> SUFFICES ASSUME Typed, Honest, [Next]_vars PROVE Honest'
    OBVIOUS
  <2>1. ASSUME NEW s \in Sessions, Cron(s) PROVE Honest'
    BY <2>1, ListIsHonest, ProbeIsHonest, RecordIsHonest, EndsAreHonest DEF Cron
  <2>2. ASSUME NEW s \in Sessions, Request(s) \/ Job(s) PROVE Honest'
    BY <2>2, RequestsAreHonest
  <2>3. ASSUME NEW s \in Sessions, Abort(s) PROVE Honest'
    BY <2>3, EndsAreHonest
  <2>. QED BY <2>1, <2>2, <2>3, QuietAreHonest DEF Next
<1>3. Honest => AlertsAreConsecutive
  BY DEF Honest
<1>. QED
  BY <1>1, <1>2, <1>3, Always, PTL DEF Spec

=============================================================================
