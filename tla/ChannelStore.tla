---------------------------- MODULE ChannelStore ----------------------------
(***************************************************************************)
(* The rows of channels, their configurations sealed with a key            *)
(* (app/repositories/channel.py), and the transactions that load or change *)
(* one: the API's requests (app/services/channel_service.py), the jobs     *)
(* that send (deliver_signal, notify_neutral, deliver_outcomes) and the    *)
(* health cron (app/workers/health_check_channels.py).  Two reads are left *)
(* out that open what they load as "get" does: GET /channels, of a page of *)
(* rows at once, and get_by_name, which a creation and a renaming ask.     *)
(*                                                                         *)
(* Loading a sealed row assigns the opened configuration to the mapped     *)
(* instance, which makes it dirty: the session's next query, or its        *)
(* commit, writes it back.  A write locks the row until the transaction    *)
(* ends; PostgreSQL, at READ COMMITTED, lets a waiting write through on    *)
(* the row as it then is.  Any transaction may be aborted before its end.  *)
(***************************************************************************)
EXTENDS ChannelTypes, Sequences, FiniteSets

CONSTANTS
    Chans,          \* channels, numbered in the order of their names
    TypeOf,         \* [Chans -> Types]
    KeysOf,         \* [Chans -> the keys of the channel's configurations]
    Subs,           \* active subscriptions
    ChannelOf,      \* [Subs -> Chans]
    Sessions,       \* transactions
    Workloads,      \* what a behaviour starts from: the channels there are, and what each
                    \* transaction is for
    Gone            \* no row, or nothing loaded

Kinds == {"get", "test", "check", "update", "toggle", "delete", "create",
          "signal", "neutral", "outcomes", "cron"}

Jobs == {"signal", "neutral", "outcomes"}

Row == [version: Nat \ {0}, form: {"sealed", "plain"}, active: BOOLEAN, healthy: BOOLEAN]

ASSUME ChannelStoreAssumption ==
    /\ Chans \subseteq Nat
    /\ TypeOf \in [Chans -> Types]
    /\ ChannelOf \in [Subs -> Chans]
    /\ \A w \in Workloads :
          /\ w.existing \subseteq Chans
          /\ w.sessions \in [Sessions -> [kind: Kinds, channel: Nat]]
          /\ \A s \in Sessions :
                w.sessions[s].kind \notin Jobs \union {"cron"} => w.sessions[s].channel \in Chans
    /\ Gone \notin Row \union BOOLEAN

ConsecutiveThreshold == 3

VARIABLES
    row,            \* [Chans -> the committed row, or Gone]
    versions,       \* [Chans -> configurations written so far]
    work,           \* [Sessions -> [kind, channel]]: what each is for
    phase,          \* [Sessions -> where it is]
    seen,           \* [Sessions -> [Chans -> the row as it was loaded, or Gone]]
    dirty,          \* [Sessions -> channels whose opened configuration is to be written]
    held,           \* [Sessions -> channels whose row it has locked by a write]
    todo,           \* [Sessions -> subscriptions (of a job) or channels (of the cron) to do]
    result,         \* [Sessions -> [Subs -> what came of the message sent for it]]
    verdict,        \* [Sessions -> [Chans -> the cron's verdict, or Gone]]
    failures,       \* [Chans -> the counter health:failures:{id}]
    alerts,         \* [Chans -> length of the streak of failures at the last alert, or 0]
    streak,         \* [Chans -> failed checks since the last one that succeeded]
    spared,         \* channels whose last successful check the counter has not heard of
    opened          \* [Chans -> versions a transaction has committed in the clear]

rowVars == <<row, versions, opened>>
healthVars == <<failures, alerts, streak, spared>>
sessionVars == <<phase, seen, dirty, held, todo, result, verdict>>

vars == <<rowVars, healthVars, sessionVars, work>>

TypeOK ==
    /\ row \in [Chans -> Row \union {Gone}]
    /\ versions \in [Chans -> Nat]
    /\ work \in {w.sessions : w \in Workloads}
    /\ phase \in [Sessions -> {"start", "busy", "done", "aborted"}]
    /\ seen \in [Sessions -> [Chans -> Row \union {Gone}]]
    /\ \A s \in Sessions : dirty[s] \subseteq Chans /\ held[s] \subseteq Chans
    /\ \A s \in Sessions : todo[s] \subseteq (IF work[s].kind = "cron" THEN Chans ELSE Subs)
    /\ result \in [Sessions -> [Subs -> {"none", "sent", "failed"}]]
    /\ verdict \in [Sessions -> [Chans -> BOOLEAN \union {Gone}]]
    /\ failures \in [Chans -> Nat] /\ alerts \in [Chans -> Nat] /\ streak \in [Chans -> Nat]
    /\ spared \subseteq Chans
    /\ opened \in [Chans -> SUBSET (Nat \ {0})]
    /\ \A s, t \in Sessions : s # t => held[s] \intersect held[t] = {}

\* Mutant: a new configuration is stored as it came.
FormWrittenInClear == "plain"

\* _encrypt_config
FormWritten == "sealed"

NewRow == [version |-> 1, form |-> FormWritten, active |-> TRUE, healthy |-> TRUE]

Init ==
    /\ \E w \in Workloads :
          /\ row = [c \in Chans |-> IF c \in w.existing THEN NewRow ELSE Gone]
          /\ versions = [c \in Chans |-> IF c \in w.existing THEN 1 ELSE 0]
          /\ work = w.sessions
    /\ phase = [s \in Sessions |-> "start"]
    /\ seen = [s \in Sessions |-> [c \in Chans |-> Gone]]
    /\ dirty = [s \in Sessions |-> {}]
    /\ held = [s \in Sessions |-> {}]
    /\ todo = [s \in Sessions |-> {}]
    /\ result = [s \in Sessions |-> [u \in Subs |-> "none"]]
    /\ verdict = [s \in Sessions |-> [c \in Chans |-> Gone]]
    /\ failures = [c \in Chans |-> 0]
    /\ alerts = [c \in Chans |-> 0]
    /\ streak = [c \in Chans |-> 0]
    /\ spared = {}
    /\ opened = [c \in Chans |-> {}]

-----------------------------------------------------------------------------
\* Rows and locks.

\* Mutant: every row that is loaded is written back.
DirtiesAlways(loaded) == loaded # Gone

\* _decrypt_config is assigned to the instance only for a sealed row.
Dirties(loaded) == loaded # Gone /\ loaded.form = "sealed"

Free(s, c) == \A t \in Sessions \ {s} : c \notin held[t]

\* What the session has made dirty has been written.
Flushed(s) == dirty[s] \subseteq held[s]

Active(c) == row[c] # Gone /\ row[c].active

Single(s) == work[s].kind \in Kinds \ (Jobs \union {"cron"})

\* The session that loaded these rows remembers them, and those it opened are dirty.
Load(s, cs) ==
    /\ seen' = [seen EXCEPT ![s] = [c \in Chans |-> IF c \in cs THEN row[c] ELSE @[c]]]
    /\ dirty' = [dirty EXCEPT ![s] = @ \union {c \in cs : Dirties(row[c])}]

\* A dirty row is written.
Flush(s, c) ==
    /\ phase[s] = "busy"
    /\ c \in dirty[s] \ held[s]
    /\ row[c] # Gone
    /\ Free(s, c)
    /\ held' = [held EXCEPT ![s] = @ \union {c}]
    /\ UNCHANGED <<rowVars, healthVars, work, phase, seen, dirty, todo, result, verdict>>

\* The transaction ends without a trace.
Rollback(s) ==
    /\ phase' = [phase EXCEPT ![s] = "aborted"]
    /\ held' = [held EXCEPT ![s] = {}]
    /\ dirty' = [dirty EXCEPT ![s] = {}]
    /\ UNCHANGED <<rowVars, work, seen, todo, result, verdict>>

\* The channel a health run has found well, and not yet recorded.
Unrecorded(s) == {c \in Chans : work[s].kind = "cron" /\ c \in todo[s] /\ verdict[s][c] = TRUE}

\* At any time: PostgreSQL breaks a circle of transactions that wait for each other's
\* rows, a dirty row is gone when it is to be written, the job is timed out or its process
\* dies.
Abort(s) ==
    /\ phase[s] = "busy"
    /\ spared' = spared \union Unrecorded(s)
    /\ Rollback(s)
    /\ UNCHANGED <<failures, alerts, streak>>

\* The rows with the session's writes over them.
Opened(s, c) == [row[c] EXCEPT !.version = seen[s][c].version, !.form = "plain"]

Checked(s, c, r) == IF verdict[s][c] = Gone \/ r = Gone THEN r ELSE [r EXCEPT !.healthy = verdict[s][c]]

Committed(s, c) ==
    IF c \in dirty[s] THEN Checked(s, c, Opened(s, c)) ELSE Checked(s, c, row[c])

End(s) ==
    /\ phase' = [phase EXCEPT ![s] = "done"]
    /\ held' = [held EXCEPT ![s] = {}]
    /\ dirty' = [dirty EXCEPT ![s] = {}]
    /\ UNCHANGED <<work, seen, todo, result, verdict>>

Commit(s) ==
    /\ row' = [c \in Chans |-> Committed(s, c)]
    /\ opened' = [c \in Chans |-> opened[c] \union (IF c \in dirty[s] THEN {seen[s][c].version} ELSE {})]
    /\ UNCHANGED <<versions, healthVars>>
    /\ End(s)

-----------------------------------------------------------------------------
\* The API.  A request loads the one channel it is for; a channel that is not there is 404.

LoadOne(s) ==
    /\ Single(s) /\ work[s].kind # "create"
    /\ phase[s] = "start"
    /\ Load(s, {work[s].channel})
    /\ phase' = [phase EXCEPT ![s] = IF row[work[s].channel] = Gone THEN "aborted" ELSE "busy"]
    /\ UNCHANGED <<rowVars, healthVars, work, held, todo, result, verdict>>

\* GET /channels/{id} and POST /channels/{id}/test: nothing is meant to change.
Read(s) == work[s].kind \in {"get", "test"} /\ phase[s] = "busy" /\ Flushed(s) /\ Commit(s)

\* GET /channels/{id}/health: update_health is given a DeliveryResult where the column
\* takes a boolean, and the request fails; when the sender raised it is given FALSE.
Check(s) ==
    LET c == work[s].channel
    IN  /\ work[s].kind = "check" /\ phase[s] = "busy" /\ Flushed(s)
        /\ IF TypeOf[c] \in KnownTypes /\ Reads(TypeOf[c], KeysOf[c]) \subseteq KeysOf[c]
           THEN Rollback(s) /\ UNCHANGED healthVars
           ELSE /\ Free(s, c)
                /\ row' = [row EXCEPT ![c] = IF @ = Gone THEN Gone ELSE [Committed(s, c) EXCEPT !.healthy = FALSE]]
                /\ opened' = [opened EXCEPT ![c] = @ \union (IF c \in dirty[s] THEN {seen[s][c].version} ELSE {})]
                /\ UNCHANGED <<versions, healthVars>>
                /\ End(s)

\* PUT /channels/{id} with a configuration.
Update(s) ==
    LET c == work[s].channel
    IN  /\ work[s].kind = "update" /\ phase[s] = "busy"
        /\ row[c] # Gone /\ Free(s, c)
        /\ versions' = [versions EXCEPT ![c] = @ + 1]
        /\ row' = [row EXCEPT ![c] = [@ EXCEPT !.version = versions[c] + 1, !.form = FormWritten]]
        /\ UNCHANGED <<opened, healthVars>>
        /\ End(s)

\* PUT /channels/{id} without one: is_active, and with it a configuration that was opened.
Toggle(s) ==
    LET c == work[s].channel
    IN  /\ work[s].kind = "toggle" /\ phase[s] = "busy"
        /\ row[c] # Gone /\ Free(s, c)
        /\ row' = [row EXCEPT ![c] = [Committed(s, c) EXCEPT !.active = ~seen[s][c].active]]
        /\ opened' = [opened EXCEPT ![c] = @ \union (IF c \in dirty[s] THEN {seen[s][c].version} ELSE {})]
        /\ UNCHANGED <<versions, healthVars>>
        /\ End(s)

\* DELETE /channels/{id}
Delete(s) ==
    LET c == work[s].channel
    IN  /\ work[s].kind = "delete" /\ phase[s] = "busy"
        /\ row[c] # Gone /\ Free(s, c)
        /\ row' = [row EXCEPT ![c] = Gone]
        /\ UNCHANGED <<versions, opened, healthVars>>
        /\ End(s)

\* A write whose row is gone fails.
WriteFails(s) ==
    /\ work[s].kind \in {"update", "toggle", "delete"} /\ phase[s] = "busy"
    /\ row[work[s].channel] = Gone
    /\ Rollback(s) /\ UNCHANGED healthVars

\* POST /channels; a name that is taken is a conflict.
Create(s) ==
    LET c == work[s].channel
    IN  /\ work[s].kind = "create" /\ phase[s] = "start"
        /\ IF versions[c] = 0
           THEN /\ versions' = [versions EXCEPT ![c] = 1]
                /\ row' = [row EXCEPT ![c] = NewRow]
                /\ phase' = [phase EXCEPT ![s] = "done"]
           ELSE phase' = [phase EXCEPT ![s] = "aborted"] /\ UNCHANGED <<versions, row>>
        /\ UNCHANGED <<opened, healthVars, work, seen, dirty, held, todo, result, verdict>>

Request(s) ==
    LoadOne(s) \/ Read(s) \/ Check(s) \/ Update(s) \/ Toggle(s) \/ Delete(s) \/ WriteFails(s) \/ Create(s)

-----------------------------------------------------------------------------
\* The jobs that send.

\* The subscriptions (deliver_signal: the pending deliveries made from them) are read,
\* with a channel that is active at that moment; deliver_outcomes takes those that were
\* sent, whatever the channel is now.
Begin(s) ==
    /\ work[s].kind \in Jobs /\ phase[s] = "start"
    /\ phase' = [phase EXCEPT ![s] = "busy"]
    /\ todo' = [todo EXCEPT ![s] = {u \in Subs : work[s].kind = "outcomes" \/ Active(ChannelOf[u])}]
    /\ UNCHANGED <<rowVars, healthVars, work, seen, dirty, held, result, verdict>>

\* Mutant: the channels done are not remembered.
AlreadySentAlways(s, c) == FALSE

\* notify_neutral and deliver_outcomes send once to a channel, however many subscriptions
\* it has; deliver_signal has a delivery for each.
AlreadySent(s, c) ==
    /\ work[s].kind \in {"neutral", "outcomes"}
    /\ \E u \in Subs : result[s][u] # "none" /\ ChannelOf[u] = c

\* Nothing is sent to a channel that is gone; notify_neutral leaves out exchanges, and
\* deliver_outcomes channels that are no longer active.
Skipped(s, loaded, c) ==
    \/ loaded = Gone
    \/ work[s].kind = "neutral" /\ TypeOf[c] = "exchange"
    \/ work[s].kind = "outcomes" /\ ~loaded.active

\* The next subscription, in any order: its channel is loaded, which first writes what the
\* session has opened.  A configuration deliver_signal cannot parse ends the whole job.
Visit(s, u) ==
    LET c == ChannelOf[u]
        loaded == IF seen[s][c] = Gone THEN row[c] ELSE seen[s][c]
    IN  /\ work[s].kind \in Jobs /\ phase[s] = "busy"
        /\ u \in todo[s] /\ Flushed(s)
        /\ IF work[s].kind = "signal" /\ loaded # Gone /\ ~Accepted(TypeOf[c], KeysOf[c])
           THEN Rollback(s) /\ UNCHANGED healthVars
           ELSE /\ todo' = [todo EXCEPT ![s] = @ \ {u}]
                /\ IF seen[s][c] = Gone /\ ~AlreadySent(s, c) THEN Load(s, {c}) ELSE UNCHANGED <<seen, dirty>>
                /\ IF AlreadySent(s, c) \/ Skipped(s, loaded, c)
                   THEN UNCHANGED result
                   ELSE \E answer \in Answers : result' = [result EXCEPT ![s][u] =
                            IF Sent(TypeOf[c], KeysOf[c], answer) THEN "sent" ELSE "failed"]
                /\ UNCHANGED <<rowVars, healthVars, work, phase, held, verdict>>

Finish(s) == work[s].kind \in Jobs /\ phase[s] = "busy" /\ todo[s] = {} /\ Flushed(s) /\ Commit(s)

Job(s) == Begin(s) \/ (\E u \in Subs : Visit(s, u)) \/ Finish(s)

-----------------------------------------------------------------------------
\* The health cron: every active channel, in the order of the names, in one transaction.
\* (list_active gives the first hundred; there are fewer here.)

List(s) ==
    /\ work[s].kind = "cron" /\ phase[s] = "start"
    /\ ~ \E t \in Sessions : work[t].kind = "cron" /\ phase[t] = "busy"
    /\ phase' = [phase EXCEPT ![s] = "busy"]
    /\ Load(s, {c \in Chans : Active(c)})
    /\ todo' = [todo EXCEPT ![s] = {c \in Chans : Active(c)}]
    /\ UNCHANGED <<rowVars, healthVars, work, held, result, verdict>>

NextToCheck(s, c) == c \in todo[s] /\ \A d \in todo[s] : c <= d

\* The channel is asked; any exception is a failure.
Probe(s, c) ==
    /\ work[s].kind = "cron" /\ phase[s] = "busy"
    /\ NextToCheck(s, c) /\ verdict[s][c] = Gone
    /\ \E answer \in Answers :
          LET ok == Healthy(TypeOf[c], KeysOf[c], answer)
          IN  /\ verdict' = [verdict EXCEPT ![s][c] = ok]
              /\ streak' = [streak EXCEPT ![c] = IF ok THEN 0 ELSE @ + 1]
    /\ UNCHANGED <<rowVars, failures, alerts, spared, work, phase, seen, dirty, held, todo, result>>

\* Mutant: the counter survives a success.
AfterSuccessKept(count) == count

\* DEL
AfterSuccess(count) == 0

\* update_health, which first writes what the session has opened, and then the counter.
\* The counter is not part of the transaction.
Record(s, c) ==
    /\ work[s].kind = "cron" /\ phase[s] = "busy"
    /\ NextToCheck(s, c) /\ verdict[s][c] # Gone
    /\ Flushed(s) /\ Free(s, c)
    /\ held' = [held EXCEPT ![s] = @ \union {c}]
    /\ todo' = [todo EXCEPT ![s] = @ \ {c}]
    /\ failures' = [failures EXCEPT ![c] = IF verdict[s][c] THEN AfterSuccess(@) ELSE @ + 1]
    /\ alerts' = [alerts EXCEPT ![c] = IF failures'[c] >= ConsecutiveThreshold /\ ~verdict[s][c]
                                       THEN streak[c]
                                       ELSE IF verdict[s][c] THEN 0 ELSE @]
    /\ spared' = IF verdict[s][c] THEN spared \ {c} ELSE spared
    /\ UNCHANGED <<rowVars, streak, work, phase, seen, dirty, result, verdict>>

\* Redis fails, before the count or after it: the exception is not caught, and the run's
\* verdicts are rolled back.
RedisFails(s, c) ==
    /\ work[s].kind = "cron" /\ phase[s] = "busy"
    /\ NextToCheck(s, c) /\ verdict[s][c] # Gone
    /\ Flushed(s) /\ Free(s, c)
    /\ spared' = spared \union Unrecorded(s)
    /\ failures' \in {failures} \union
          (IF verdict[s][c] THEN {} ELSE {[failures EXCEPT ![c] = @ + 1]})
    /\ Rollback(s)
    /\ UNCHANGED <<alerts, streak>>

FinishRun(s) == work[s].kind = "cron" /\ phase[s] = "busy" /\ todo[s] = {} /\ Flushed(s) /\ Commit(s)

\* A counter expires two hours after the last failure.
Expire(c) ==
    /\ failures[c] > 0
    /\ failures' = [failures EXCEPT ![c] = 0]
    /\ UNCHANGED <<rowVars, alerts, streak, spared, sessionVars, work>>

Cron(s) == List(s) \/ (\E c \in Chans : Probe(s, c) \/ Record(s, c) \/ RedisFails(s, c)) \/ FinishRun(s)

-----------------------------------------------------------------------------

Next ==
    \/ \E s \in Sessions : Request(s) \/ Job(s) \/ Cron(s) \/ Abort(s) \/ \E c \in Chans : Flush(s, c)
    \/ \E c \in Chans : Expire(c)

Spec == Init /\ [][Next]_vars

-----------------------------------------------------------------------------

\* A configuration stays sealed in its row until some transaction has opened it and
\* committed: no update, creation or recovery stores one in the clear of itself.
SealedUntilRead ==
    \A c \in Chans : row[c] # Gone /\ row[c].form = "plain" => row[c].version \in opened[c]

\* An update is lost, its configuration replaced by an older one, only to a transaction
\* that had loaded the channel from its sealed form before the update and wrote it back
\* after it.  Readers of a row that is in the clear never undo an update, however late
\* they commit.
OnlyFirstReadersUndoUpdates ==
    [][\A c \in Chans :
          row[c] # Gone /\ row'[c] # Gone /\ row'[c].version < row[c].version
              => \E s \in Sessions : /\ phase[s] = "busy" /\ phase'[s] = "done"
                                     /\ work[s].kind # "update"
                                     /\ seen[s][c] # Gone
                                     /\ seen[s][c].form = "sealed"
                                     /\ seen[s][c].version = row'[c].version]_vars

\* The alert for a channel means what it says, three failed checks in a row, whatever runs
\* were rolled back between them; only a success whose run ended before the counter was
\* deleted may hide between the three.
AlertsAreConsecutive ==
    \A c \in Chans : alerts[c] = 0 \/ alerts[c] >= ConsecutiveThreshold \/ c \in spared

\* Broadcasts, neutral or of outcomes, reach a channel at most once a run, and no neutral one
\* is an order to an exchange, however many subscriptions share the channel.
OneBroadcastPerChannel ==
    \A s \in Sessions, u, v \in Subs :
        /\ (/\ work[s].kind # "signal" /\ u # v
            /\ result[s][u] # "none" /\ result[s][v] # "none") => ChannelOf[u] # ChannelOf[v]
        /\ (work[s].kind = "neutral" /\ result[s][u] # "none") => TypeOf[ChannelOf[u]] # "exchange"

=============================================================================
