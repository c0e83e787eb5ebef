------------------------------ MODULE Delivery ------------------------------
(***************************************************************************)
(* The delivery pipeline: the arq job deliver_signal fans one signal out   *)
(* to its SignalDelivery rows, and the arq job retry_delivery retries one  *)
(* row (app/workers/deliver_signal.py, app/workers/retry_delivery.py,      *)
(* app/repositories/delivery.py, app/core/circuit_breaker.py).             *)
(*                                                                         *)
(* Each job runs inside ONE database transaction.  A SELECT sees committed *)
(* rows; a conditional UPDATE waits for the row's uncommitted writer and   *)
(* then re-evaluates its WHERE clause on the committed row (READ           *)
(* COMMITTED).  What a job does outside the database, a message a channel  *)
(* accepts, a Redis counter, a job put on the queue, is immediate and is   *)
(* not undone when the transaction rolls back.                             *)
(*                                                                         *)
(* Time is abstract: a Redis key may expire and a deferred job may become  *)
(* due at any moment.  Filters, quiet hours and rate counters are data:    *)
(* any delivery may be filtered.                                           *)
(***************************************************************************)
EXTENDS Integers, FiniteSets

CONSTANTS
    Signals,            \* signals with a deliver_signal job on the queue
    Deliveries,         \* SignalDelivery rows
    Channels,
    SignalOf,           \* [Deliveries -> Signals]
    ChannelOf,          \* [Deliveries -> Channels]
    ConfiguredRetries,  \* [Channels -> Nat \union {Unset}]: cfg.max_retries
    GlobalMaxAttempts,  \* settings.retry_max_attempts
    FailureThreshold,   \* settings.circuit_breaker_failure_threshold
    MaxTries,           \* WorkerSettings.max_tries
    RetryJobs,          \* identities of retry_delivery jobs, reused when free
    MaxCrashes,         \* bound: workers that die with a job running
    MaxRaises,          \* bound: jobs that raise or time out
    MaxDeletes,         \* bound: rows deleted through the API
    Unset, NoDelivery, Nobody

ASSUME DeliveryAssumption ==
    /\ SignalOf \in [Deliveries -> Signals]
    /\ ChannelOf \in [Deliveries -> Channels]
    /\ ConfiguredRetries \in [Channels -> Nat \union {Unset}]
    /\ Unset \notin Nat
    /\ GlobalMaxAttempts \in Nat \ {0}
    /\ FailureThreshold \in Nat \ {0}
    /\ MaxTries \in Nat \ {0}
    /\ {MaxCrashes, MaxRaises, MaxDeletes} \subseteq Nat
    /\ NoDelivery \notin Deliveries
    /\ Nobody \notin Signals \union RetryJobs
    /\ Signals \intersect RetryJobs = {}

VARIABLES
    row,        \* committed rows: status and attempt_count
    draft,      \* the uncommitted version of a row and the job holding its lock
    deliver,    \* the deliver_signal job of each signal
    retry,      \* the retry_delivery jobs
    failures,   \* Redis cb:failures:<channel>
    open,       \* Redis cb:open:<channel> exists
    acked,      \* history: messages of a row a channel reported accepted
    rejected,   \* history: sends of a row that were reported failed
    crashes, raises, deletes

rowVars == <<row, draft>>
breakerVars == <<failures, open>>
history == <<acked, rejected>>
faultVars == <<crashes, raises, deletes>>
vars == <<row, draft, deliver, retry, failures, open, acked, rejected,
          crashes, raises, deletes>>

-----------------------------------------------------------------------------
(* Types. *)

Status == {"pending", "sent", "failed", "retrying", "dlq"}

Row == [status: Status \union {"gone"}, attempts: Nat]

Draft == [by: Signals \union RetryJobs \union {Nobody}, status: Status]

\* "done" for arq: the job's result is stored and it will not run again.
DeliverJob == [phase: {"queued", "loop", "send", "mark", "done"},
               tries: Nat,
               todo: SUBSET Deliveries,
               cur: Deliveries \union {NoDelivery},
               outcome: {"none", "skip", "ok", "bad"}]

RetryJob == [phase: {"free", "queued", "send", "mark", "commit"},
             delivery: Deliveries \union {NoDelivery},
             attempt: Nat,
             tries: Nat,
             outcome: {"none", "ok", "bad"}]

NoDraft == [by |-> Nobody, status |-> "pending"]

FreeJob == [phase |-> "free", delivery |-> NoDelivery, attempt |-> 0,
            tries |-> 0, outcome |-> "none"]

\* Mutant: a retry is queued with an attempt number one too high.
QueuedRetryOffByOne(d, n) ==
    [phase |-> "queued", delivery |-> d, attempt |-> n + 1, tries |-> 0, outcome |-> "none"]

QueuedRetry(d, n) ==
    [phase |-> "queued", delivery |-> d, attempt |-> n, tries |-> 0, outcome |-> "none"]

RowTypeOK ==
    /\ row \in [Deliveries -> Row]
    /\ draft \in [Deliveries -> Draft]

\* A job works on a row exactly while its phase says so.
DeliverTypeOK ==
    /\ deliver \in [Signals -> DeliverJob]
    /\ \A s \in Signals :
          deliver[s].cur \in Deliveries <=> deliver[s].phase \in {"send", "mark"}

RetryTypeOK ==
    /\ retry \in [RetryJobs -> RetryJob]
    /\ \A r \in RetryJobs :
          retry[r].delivery \in Deliveries <=> retry[r].phase # "free"

BreakerTypeOK ==
    /\ failures \in [Channels -> Nat]
    /\ open \in [Channels -> BOOLEAN]

HistoryTypeOK ==
    /\ acked \in [Deliveries -> Nat]
    /\ rejected \in [Deliveries -> Nat]

FaultTypeOK ==
    /\ crashes \in 0..MaxCrashes
    /\ raises \in 0..MaxRaises
    /\ deletes \in 0..MaxDeletes

TypeOK == /\ RowTypeOK
          /\ DeliverTypeOK
          /\ RetryTypeOK
          /\ BreakerTypeOK
          /\ HistoryTypeOK
          /\ FaultTypeOK

\* A signal has just been generated: its rows are pending and its job queued.
Init ==
    /\ row = [d \in Deliveries |-> [status |-> "pending", attempts |-> 0]]
    /\ draft = [d \in Deliveries |-> NoDraft]
    /\ deliver = [s \in Signals |-> [phase |-> "queued", tries |-> 0, todo |-> {},
                                     cur |-> NoDelivery, outcome |-> "none"]]
    /\ retry = [r \in RetryJobs |-> FreeJob]
    /\ failures = [c \in Channels |-> 0]
    /\ open = [c \in Channels |-> FALSE]
    /\ acked = [d \in Deliveries |-> 0]
    /\ rejected = [d \in Deliveries |-> 0]
    /\ crashes = 0
    /\ raises = 0
    /\ deletes = 0

-----------------------------------------------------------------------------
(* DeliveryRepository: conditional updates of one row. *)

Exists(d) == row[d].status # "gone"

Unlocked(d) == draft[d].by = Nobody

\* Mutant: mark_failed without its status clause.
MarkableFromUnguarded(status) ==
    CASE status = "sent"     -> {"pending", "retrying"}
      [] status = "failed"   -> Status
      [] status = "retrying" -> {"pending", "retrying"}
      [] status = "dlq"      -> Status \ {"dlq"}
      [] OTHER               -> {}

\* The statuses each mark_* statement accepts in its WHERE clause.
MarkableFrom(status) ==
    CASE status = "sent"     -> {"pending", "retrying"}
      [] status = "failed"   -> {"pending"}
      [] status = "retrying" -> {"pending", "retrying"}
      [] status = "dlq"      -> Status \ {"dlq"}
      [] OTHER               -> {}

\* UPDATE ... WHERE id = d AND <clause>: matches nothing, or takes the row lock.
UpdateStatus(job, d, status) ==
    /\ Unlocked(d)
    /\ draft' = IF row[d].status \in MarkableFrom(status)
                THEN [draft EXCEPT ![d] = [by |-> job, status |-> status]]
                ELSE draft

Commit(job) ==
    /\ row' = [d \in Deliveries |->
                 IF draft[d].by = job
                 THEN [status |-> draft[d].status, attempts |-> row[d].attempts + 1]
                 ELSE row[d]]
    /\ draft' = [d \in Deliveries |-> IF draft[d].by = job THEN NoDraft ELSE draft[d]]

\* Mutant: a dead worker's session keeps its row locks.
RollbackKeepsLocks(job) == UNCHANGED <<row, draft>>

Rollback(job) ==
    /\ draft' = [d \in Deliveries |-> IF draft[d].by = job THEN NoDraft ELSE draft[d]]
    /\ UNCHANGED row

(* CircuitBreaker: two Redis keys per channel. *)

RecordSuccess(c) ==
    /\ failures' = [failures EXCEPT ![c] = 0]
    /\ open' = [open EXCEPT ![c] = FALSE]

RecordFailure(c) ==
    /\ failures' = [failures EXCEPT ![c] = @ + 1]
    /\ open' = [open EXCEPT ![c] = @ \/ failures[c] + 1 >= FailureThreshold]

(* The arq queue. *)

EnqueueRetry(d, n) ==
    \E r \in RetryJobs :
        /\ retry[r].phase = "free"
        /\ retry' = [retry EXCEPT ![r] = QueuedRetry(d, n)]

-----------------------------------------------------------------------------
(* deliver_signal *)

DeliveriesOf(s) == {d \in Deliveries : SignalOf[d] = s}

\* Load the rows once; without a pending row the job returns.
DeliverStart(s) ==
    LET pending == {d \in DeliveriesOf(s) : row[d].status = "pending"} IN
    /\ deliver[s].phase = "queued"
    /\ deliver' = [deliver EXCEPT
                     ![s].phase = IF pending = {} THEN "done" ELSE "loop",
                     ![s].tries = @ + 1,
                     ![s].todo = pending]
    /\ UNCHANGED <<rowVars, retry, breakerVars, history, faultVars>>

\* The re-read of a row goes through the session's identity map: a row that is
\* still there keeps the status it was loaded with.
FreshStatus(s, d) == IF Exists(d) /\ d \in deliver[s].todo THEN "pending" ELSE "gone"

Turn(s, d) ==
    /\ deliver[s].phase = "loop"
    /\ d \in deliver[s].todo

DeliverSkipsMissing(s, d) ==
    /\ Turn(s, d)
    /\ FreshStatus(s, d) # "pending"
    /\ deliver' = [deliver EXCEPT ![s].todo = @ \ {d}]
    /\ UNCHANGED <<rowVars, retry, breakerVars, history, faultVars>>

\* Mutant: the filter branch falls through to mark_sent.
DeliverFiltersAsSent(s, d) ==
    /\ Turn(s, d)
    /\ FreshStatus(s, d) = "pending"
    /\ deliver' = [deliver EXCEPT ![s].phase = "mark", ![s].cur = d,
                                  ![s].outcome = "ok"]
    /\ UNCHANGED <<rowVars, retry, breakerVars, history, faultVars>>

\* Breaker open, a notification filter, quiet hours, a throttle or a rate limit:
\* the row is about to be marked failed and nothing is sent.
DeliverFilters(s, d) ==
    /\ Turn(s, d)
    /\ FreshStatus(s, d) = "pending"
    /\ deliver' = [deliver EXCEPT ![s].phase = "mark", ![s].cur = d,
                                  ![s].outcome = "skip"]
    /\ UNCHANGED <<rowVars, retry, breakerVars, history, faultVars>>

DeliverPasses(s, d) ==
    /\ Turn(s, d)
    /\ FreshStatus(s, d) = "pending"
    /\ ~open[ChannelOf[d]]
    /\ deliver' = [deliver EXCEPT ![s].phase = "send", ![s].cur = d]
    /\ UNCHANGED <<rowVars, retry, breakerVars, history, faultVars>>

\* The channel accepts; it accepts but record_success raises, so the except branch
\* treats the message as failed; or the channel refuses or the send raises.
DeliverSend(s) ==
    LET d == deliver[s].cur IN
    /\ deliver[s].phase = "send"
    /\ \/ /\ deliver' = [deliver EXCEPT ![s].phase = "mark", ![s].outcome = "ok"]
          /\ acked' = [acked EXCEPT ![d] = @ + 1]
          /\ RecordSuccess(ChannelOf[d])
          /\ UNCHANGED <<rejected, raises>>
       \/ /\ raises < MaxRaises
          /\ raises' = raises + 1
          /\ deliver' = [deliver EXCEPT ![s].phase = "mark", ![s].outcome = "bad"]
          /\ acked' = [acked EXCEPT ![d] = @ + 1]
          /\ RecordFailure(ChannelOf[d])
          /\ UNCHANGED rejected
       \/ /\ deliver' = [deliver EXCEPT ![s].phase = "mark", ![s].outcome = "bad"]
          /\ rejected' = [rejected EXCEPT ![d] = @ + 1]
          /\ RecordFailure(ChannelOf[d])
          /\ UNCHANGED <<acked, raises>>
    /\ UNCHANGED <<rowVars, retry, crashes, deletes>>

\* Mutant: a retry is enqueued after every send, also an accepted one.
NeedsRetryAlways(outcome) == outcome # "skip"

NeedsRetry(outcome) == outcome = "bad"

\* mark_sent or mark_failed, then _enqueue_retry after a failed send.  A failed
\* enqueue is swallowed: it counts against the bound on raises.
DeliverMark(s) ==
    LET d == deliver[s].cur
        outcome == deliver[s].outcome IN
    /\ deliver[s].phase = "mark"
    /\ UpdateStatus(s, d, IF outcome = "ok" THEN "sent" ELSE "failed")
    /\ \/ /\ NeedsRetry(outcome)
          /\ EnqueueRetry(d, 1)
          /\ UNCHANGED raises
       \/ /\ NeedsRetry(outcome)
          /\ raises < MaxRaises
          /\ raises' = raises + 1
          /\ UNCHANGED retry
       \/ /\ ~NeedsRetry(outcome)
          /\ UNCHANGED <<retry, raises>>
    /\ deliver' = [deliver EXCEPT ![s].phase = "loop", ![s].todo = @ \ {d},
                                  ![s].cur = NoDelivery, ![s].outcome = "none"]
    /\ UNCHANGED <<row, breakerVars, history, crashes, deletes>>

DeliverCommit(s) ==
    /\ deliver[s].phase = "loop"
    /\ deliver[s].todo = {}
    /\ Commit(s)
    /\ deliver' = [deliver EXCEPT ![s].phase = "done"]
    /\ UNCHANGED <<retry, breakerVars, history, faultVars>>

DeliverRunning(s) == deliver[s].phase \in {"loop", "send", "mark"}

Stopped(job, phase) ==
    [phase |-> phase, tries |-> job.tries, todo |-> {}, cur |-> NoDelivery,
     outcome |-> "none"]

\* Mutant: a job whose worker died is not run again.
AfterDeathNever(tries) == "done"

AfterDeath(tries) == IF tries < MaxTries THEN "queued" ELSE "done"

\* The mark_* statement itself fails: the except branch still counts a breaker
\* failure and enqueues a retry, and the aborted transaction is lost as a whole.
DeliverStatementFails(s) ==
    LET d == deliver[s].cur IN
    /\ deliver[s].phase = "mark"
    /\ raises < MaxRaises
    /\ raises' = raises + 1
    /\ RecordFailure(ChannelOf[d])
    /\ EnqueueRetry(d, 1)
    /\ Rollback(s)
    /\ deliver' = [deliver EXCEPT ![s] = Stopped(@, "done")]
    /\ UNCHANGED <<history, crashes, deletes>>

\* The worker dies or shuts down: rollback, and arq runs the job again.
DeliverDies(s) ==
    /\ DeliverRunning(s)
    /\ crashes < MaxCrashes
    /\ crashes' = crashes + 1
    /\ Rollback(s)
    /\ deliver' = [deliver EXCEPT
                     ![s] = Stopped(@, AfterDeath(@.tries))]
    /\ UNCHANGED <<retry, breakerVars, history, raises, deletes>>

\* Mutant: arq runs a job that raised once more, as if its worker had died.
DeliverRaisesAndReruns(s) ==
    /\ DeliverRunning(s)
    /\ raises < MaxRaises
    /\ raises' = raises + 1
    /\ Rollback(s)
    /\ deliver' = [deliver EXCEPT ![s] = Stopped(@, AfterDeath(@.tries))]
    /\ UNCHANGED <<retry, breakerVars, history, crashes, deletes>>

\* An exception leaves the job (a channel config that no longer parses, Redis or
\* the database failing) or job_timeout passes: rollback, and no second run.
DeliverRaises(s) ==
    /\ DeliverRunning(s)
    /\ raises < MaxRaises
    /\ raises' = raises + 1
    /\ Rollback(s)
    /\ deliver' = [deliver EXCEPT ![s] = Stopped(@, "done")]
    /\ UNCHANGED <<retry, breakerVars, history, crashes, deletes>>

-----------------------------------------------------------------------------
(* retry_delivery *)

\* cfg.max_retries or settings.retry_max_attempts: 0 counts as unset.
MaxAttempts(c) ==
    IF ConfiguredRetries[c] \in {Unset, 0} THEN GlobalMaxAttempts
                                           ELSE ConfiguredRetries[c]

Skippable(d) ==
    \/ ~Exists(d)
    \/ row[d].status = "dlq"
    \/ row[d].attempts >= GlobalMaxAttempts

RetrySkips(r) ==
    /\ retry[r].phase = "queued"
    /\ Skippable(retry[r].delivery)
    /\ retry' = [retry EXCEPT ![r] = FreeJob]
    /\ UNCHANGED <<rowVars, deliver, breakerVars, history, faultVars>>

RetryStart(r) ==
    /\ retry[r].phase = "queued"
    /\ ~Skippable(retry[r].delivery)
    /\ retry' = [retry EXCEPT ![r].phase = "send", ![r].tries = @ + 1]
    /\ UNCHANGED <<rowVars, deliver, breakerVars, history, faultVars>>

\* The breaker is neither asked nor told.
RetrySend(r) ==
    LET d == retry[r].delivery IN
    /\ retry[r].phase = "send"
    /\ \/ /\ retry' = [retry EXCEPT ![r].phase = "mark", ![r].outcome = "ok"]
          /\ acked' = [acked EXCEPT ![d] = @ + 1]
          /\ UNCHANGED rejected
       \/ /\ retry' = [retry EXCEPT ![r].phase = "mark", ![r].outcome = "bad"]
          /\ rejected' = [rejected EXCEPT ![d] = @ + 1]
          /\ UNCHANGED acked
    /\ UNCHANGED <<rowVars, deliver, breakerVars, faultVars>>

RetryMarksSent(r) ==
    /\ retry[r].phase = "mark"
    /\ retry[r].outcome = "ok"
    /\ UpdateStatus(r, retry[r].delivery, "sent")
    /\ retry' = [retry EXCEPT ![r].phase = "commit"]
    /\ UNCHANGED <<row, deliver, breakerVars, history, faultVars>>

\* mark_retrying, then the next attempt is on the queue before the commit.
RetryReschedules(r) ==
    LET d == retry[r].delivery IN
    /\ retry[r].phase = "mark"
    /\ retry[r].outcome = "bad"
    /\ retry[r].attempt < MaxAttempts(ChannelOf[d])
    /\ UpdateStatus(r, d, "retrying")
    /\ \E q \in RetryJobs :
         /\ retry[q].phase = "free"
         /\ retry' = [retry EXCEPT ![q] = QueuedRetry(d, retry[r].attempt + 1),
                                   ![r].phase = "commit"]
    /\ UNCHANGED <<row, deliver, breakerVars, history, faultVars>>

RetryGivesUp(r) ==
    LET d == retry[r].delivery IN
    /\ retry[r].phase = "mark"
    /\ retry[r].outcome = "bad"
    /\ retry[r].attempt >= MaxAttempts(ChannelOf[d])
    /\ UpdateStatus(r, d, "dlq")
    /\ retry' = [retry EXCEPT ![r].phase = "commit"]
    /\ UNCHANGED <<row, deliver, breakerVars, history, faultVars>>

RetryCommit(r) ==
    /\ retry[r].phase = "commit"
    /\ Commit(r)
    /\ retry' = [retry EXCEPT ![r] = FreeJob]
    /\ UNCHANGED <<deliver, breakerVars, history, faultVars>>

RetryRunning(r) == retry[r].phase \in {"send", "mark", "commit"}

RetryDies(r) ==
    /\ RetryRunning(r)
    /\ crashes < MaxCrashes
    /\ crashes' = crashes + 1
    /\ Rollback(r)
    /\ retry' = [retry EXCEPT ![r] =
                   IF AfterDeath(@.tries) = "queued"
                   THEN [phase |-> "queued", delivery |-> @.delivery,
                         attempt |-> @.attempt, tries |-> @.tries, outcome |-> "none"]
                   ELSE FreeJob]
    /\ UNCHANGED <<deliver, breakerVars, history, raises, deletes>>

RetryRaises(r) ==
    /\ RetryRunning(r)
    /\ raises < MaxRaises
    /\ raises' = raises + 1
    /\ Rollback(r)
    /\ retry' = [retry EXCEPT ![r] = FreeJob]
    /\ UNCHANGED <<deliver, breakerVars, history, crashes, deletes>>

-----------------------------------------------------------------------------
(* The environment of the jobs. *)

\* Deleting a subscription or a channel deletes its rows; it waits for locks.
DeleteRow(d) ==
    /\ Exists(d)
    /\ Unlocked(d)
    /\ deletes < MaxDeletes
    /\ deletes' = deletes + 1
    /\ row' = [row EXCEPT ![d].status = "gone"]
    /\ UNCHANGED <<draft, deliver, retry, breakerVars, history, crashes, raises>>

\* The TTL of cb:failures, and of cb:open.
WindowExpires(c) ==
    /\ failures[c] > 0
    /\ failures' = [failures EXCEPT ![c] = 0]
    /\ UNCHANGED <<rowVars, deliver, retry, open, history, faultVars>>

RecoveryTimeout(c) ==
    /\ open[c]
    /\ open' = [open EXCEPT ![c] = FALSE]
    /\ UNCHANGED <<rowVars, deliver, retry, failures, history, faultVars>>

-----------------------------------------------------------------------------

DeliverStep(s) ==
    \/ DeliverStart(s)
    \/ \E d \in Deliveries :
         DeliverSkipsMissing(s, d) \/ DeliverFilters(s, d) \/ DeliverPasses(s, d)
    \/ DeliverSend(s)
    \/ DeliverMark(s)
    \/ DeliverCommit(s)

RetryStep(r) ==
    \/ RetrySkips(r)
    \/ RetryStart(r)
    \/ RetrySend(r)
    \/ RetryMarksSent(r)
    \/ RetryReschedules(r)
    \/ RetryGivesUp(r)
    \/ RetryCommit(r)

Next ==
    \/ \E s \in Signals : \/ DeliverStep(s) \/ DeliverDies(s)
                           \/ DeliverRaises(s) \/ DeliverStatementFails(s)
    \/ \E r \in RetryJobs : RetryStep(r) \/ RetryDies(r) \/ RetryRaises(r)
    \/ \E d \in Deliveries : DeleteRow(d)
    \/ \E c \in Channels : WindowExpires(c) \/ RecoveryTimeout(c)

Spec == Init /\ [][Next]_vars

\* arq polls its queue and runs every due job: a job that can take a step
\* eventually does.  Crashes, exceptions, deletions and expiries need not happen.
Fairness ==
    /\ \A s \in Signals : WF_vars(DeliverStep(s))
    /\ \A r \in RetryJobs : WF_vars(RetryStep(r))

FairSpec == Spec /\ Fairness
-----------------------------------------------------------------------------
(* Properties. *)

\* A row whose committed status is sent had a message accepted by its channel:
\* no interleaving of replays, retries and rollbacks records a delivery that did
\* not happen.
SentWasAcked ==
    \A d \in Deliveries : row[d].status = "sent" => acked[d] > 0

\* A customer receives a second copy of a signal only if something went wrong in
\* the system itself, and at most one copy more for each worker that died with the
\* job running and each Redis or database call that failed: retries alone, and
\* retries racing the fan-out, never duplicate a message.
DuplicatesNeedFaults ==
    \A d \in Deliveries : acked[d] <= 1 + crashes + raises

\* Every retry the channel allows failed before a row is given up to the
\* dead-letter queue, whatever crashed, raised and was replayed in between.
DlqOnlyAfterAllAttempts ==
    \A d \in Deliveries :
        row[d].status = "dlq" => rejected[d] >= MaxAttempts(ChannelOf[d])

\* Without a crash the first recorded outcome is what the fan-out saw: a row marked
\* sent stays sent (unless it is deleted), so no leftover retry chain re-opens it.
SentIsFinalWithoutCrashes ==
    [][\A d \in Deliveries :
          row[d].status = "sent" /\ crashes = 0 => row'[d].status \in {"sent", "gone"}]_vars

\* A retry that ends with its message accepted by the channel is recorded: the row is
\* sent when the job's transaction has committed.  Only a row deleted or given up
\* meanwhile is not.
AcceptedRetriesAreRecorded ==
    [][\A r \in RetryJobs :
          retry[r].outcome = "ok" /\ RetryCommit(r)
             => row'[retry[r].delivery].status \in {"sent", "dlq", "gone"}]_vars

\* The inductive strengthening of the two invariants above and of the refinement
\* below: what rows, row locks and jobs say agrees with what the channels did.
RowEvidence ==
    \A d \in Deliveries :
        /\ row[d].status = "sent" => acked[d] > 0
        /\ row[d].status = "dlq" => rejected[d] >= MaxAttempts(ChannelOf[d])
        /\ ~Unlocked(d) =>
              /\ row[d].status \in MarkableFrom(draft[d].status)
              /\ draft[d].status = "sent" => acked[d] > 0
              /\ draft[d].status = "dlq" => rejected[d] >= MaxAttempts(ChannelOf[d])

DeliverEvidence ==
    \A s \in Signals :
        deliver[s].phase = "mark" /\ deliver[s].outcome = "ok" => acked[deliver[s].cur] > 0

RetryEvidence ==
    \A r \in RetryJobs : retry[r].phase # "free" =>
        /\ rejected[retry[r].delivery] >= retry[r].attempt - 1
        /\ retry[r].phase = "mark" =>
              /\ retry[r].outcome = "ok" => acked[retry[r].delivery] > 0
              /\ retry[r].outcome = "bad" => rejected[retry[r].delivery] >= retry[r].attempt

Evidence == RowEvidence /\ DeliverEvidence /\ RetryEvidence

\* The rows move as the life cycle allows, whatever the jobs do to them.
Lifecycle == INSTANCE DeliveryLifecycle
ImplementsLifecycle == Lifecycle!Spec

\* Every job finishes: retry chains are finite and no job waits for ever on a row
\* lock another one holds.
AllJobsFinish ==
    <>[](/\ \A s \in Signals : deliver[s].phase = "done"
         /\ \A r \in RetryJobs : retry[r].phase = "free")

\* Jobs that die less often than arq replays them leave no row pending; only a job
\* that raises or times out, which arq does not run again, may.
PendingIsResolved ==
    \A d \in Deliveries :
        (row[d].status = "pending") ~> (row[d].status # "pending" \/ raises > 0)
=============================================================================
