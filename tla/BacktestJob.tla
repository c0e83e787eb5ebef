---------------------------- MODULE BacktestJob ----------------------------
(***************************************************************************)
(* A backtest from its submission to its result: the API request that      *)
(* checks the monthly quota, inserts the row and queues the job            *)
(* (app/api/v1/backtests.py, app/services/backtest_service.py), the arq    *)
(* job run_backtest that executes it (app/workers/run_backtest.py), and    *)
(* the user who cancels it, all three writing the same row through         *)
(* app/repositories/backtest.py.                                           *)
(*                                                                         *)
(* Each request is one database transaction that commits after its handler *)
(* (app/db/session.py); the job is two transactions, and a third one after *)
(* an exception.  A SELECT sees committed rows, an UPDATE waits for the    *)
(* row's uncommitted writer.  All requests fall in one calendar month.     *)
(***************************************************************************)
EXTENDS Integers, FiniteSets

CONSTANTS
    Backtests,      \* submissions, each with its row and its job
    MonthlyLimit,   \* EffectiveLimits.max_backtests_per_month
    MaxTries,       \* WorkerSettings.max_tries
    MaxCrashes,     \* bound: workers that die with a job running
    MaxTimeouts,    \* bound: jobs that pass job_timeout
    MaxErrors       \* bound: database or Redis calls that fail

ASSUME BacktestAssumption ==
    /\ IsFiniteSet(Backtests)
    /\ MonthlyLimit \in Nat \union {-1}
    /\ MaxTries \in Nat \ {0}
    /\ {MaxCrashes, MaxTimeouts, MaxErrors} \subseteq Nat

VARIABLES
    row,        \* committed Backtest rows, with their number of trade sets
    draft,      \* the uncommitted version of a row and who holds its lock
    submit,     \* the POST request of each backtest
    cancel,     \* the DELETE request of each backtest, one at a time
    job,        \* the run_backtest job of each backtest
    stopped,    \* history: cancelled while no worker was running its job
    crashes, timeouts, errors

rowVars == <<row, draft>>
faultVars == <<crashes, timeouts, errors>>
vars == <<row, draft, submit, cancel, job, stopped, crashes, timeouts, errors>>

-----------------------------------------------------------------------------

Status == {"absent", "pending", "running", "completed", "failed"}

Row == [status: Status, results: BOOLEAN, trades: Nat]

Writer == {"worker", "user"}

AbsentRow == [status |-> "absent", results |-> FALSE, trades |-> 0]

NoDraft == [by |-> "nobody", row |-> AbsentRow]

\* claim .. claimed is the transaction around set_running, run .. written the one
\* around the pipeline and set_completed, fail .. failed the one around set_failed;
\* in "ack" arq has yet to store the result.
JobPhase == {"none", "queued", "claim", "claimed", "run", "write", "written",
             "fail", "failed", "ack", "done"}

Job == [phase: JobPhase, tries: Nat]

TypeOK ==
    /\ row \in [Backtests -> Row]
    /\ draft \in [Backtests -> [by: Writer \union {"nobody"}, row: Row]]
    /\ submit \in [Backtests -> {"idle", "checked", "queued", "done", "refused"}]
    /\ cancel \in [Backtests -> {"idle", "update", "commit"}]
    /\ job \in [Backtests -> Job]
    /\ stopped \in SUBSET Backtests
    /\ crashes \in 0..MaxCrashes
    /\ timeouts \in 0..MaxTimeouts
    /\ errors \in 0..MaxErrors

Init ==
    /\ row = [b \in Backtests |-> AbsentRow]
    /\ draft = [b \in Backtests |-> NoDraft]
    /\ submit = [b \in Backtests |-> "idle"]
    /\ cancel = [b \in Backtests |-> "idle"]
    /\ job = [b \in Backtests |-> [phase |-> "none", tries |-> 0]]
    /\ stopped = {}
    /\ crashes = 0
    /\ timeouts = 0
    /\ errors = 0

-----------------------------------------------------------------------------
(* BacktestRepository *)

Unlocked(b) == draft[b].by = "nobody"

SetStatus(b, status) ==
    [status |-> status, results |-> row[b].results, trades |-> row[b].trades]

\* set_completed, in the transaction that has inserted the trades.
SetCompleted(b) ==
    [status |-> "completed", results |-> TRUE, trades |-> row[b].trades + 1]

\* UPDATE ... WHERE id = b, with no clause on the status.
Update(who, b, new) ==
    /\ Unlocked(b)
    /\ draft' = [draft EXCEPT ![b] = [by |-> who, row |-> new]]

Commit(b) ==
    /\ row' = [row EXCEPT ![b] = draft[b].row]
    /\ draft' = [draft EXCEPT ![b] = NoDraft]

\* Mutant: a session that ends keeps its row lock.
RollbackKeepsLock(who, b) == UNCHANGED rowVars

Rollback(who, b) ==
    /\ draft' = IF draft[b].by = who THEN [draft EXCEPT ![b] = NoDraft] ELSE draft
    /\ UNCHANGED row

-----------------------------------------------------------------------------
(* POST /backtests *)

CountThisMonth == Cardinality({b \in Backtests : row[b].status # "absent"})

\* EffectiveLimits.check_capacity
HasCapacity(count) == MonthlyLimit = -1 \/ count < MonthlyLimit

SubmitCheck(b) ==
    /\ submit[b] = "idle"
    /\ submit' = [submit EXCEPT ![b] = IF HasCapacity(CountThisMonth) THEN "checked"
                                                                      ELSE "refused"]
    /\ UNCHANGED <<rowVars, cancel, job, stopped, faultVars>>

\* The row is inserted but not committed when its job is on the queue.
SubmitEnqueue(b) ==
    /\ submit[b] = "checked"
    /\ submit' = [submit EXCEPT ![b] = "queued"]
    /\ job' = [job EXCEPT ![b] = [phase |-> "queued", tries |-> 0]]
    /\ UNCHANGED <<rowVars, cancel, stopped, faultVars>>

SubmitCommit(b) ==
    /\ submit[b] = "queued"
    /\ submit' = [submit EXCEPT ![b] = "done"]
    /\ row' = [row EXCEPT ![b] = [status |-> "pending", results |-> FALSE, trades |-> 0]]
    /\ UNCHANGED <<draft, cancel, job, stopped, faultVars>>

\* The request fails before its commit: no row, though the job may be queued.
SubmitFails(b) ==
    /\ submit[b] \in {"checked", "queued"}
    /\ errors < MaxErrors
    /\ errors' = errors + 1
    /\ submit' = [submit EXCEPT ![b] = "refused"]
    /\ UNCHANGED <<rowVars, cancel, job, stopped, crashes, timeouts>>

-----------------------------------------------------------------------------
(* DELETE /backtests/{id} *)

\* job.abort() never reaches arq: the pool has no method "job", and the
\* AttributeError is swallowed.
CancelRead(b) ==
    /\ cancel[b] = "idle"
    /\ row[b].status \in {"pending", "running"}
    /\ cancel' = [cancel EXCEPT ![b] = "update"]
    /\ UNCHANGED <<rowVars, submit, job, stopped, faultVars>>

CancelUpdate(b) ==
    /\ cancel[b] = "update"
    /\ Update("user", b, SetStatus(b, "failed"))
    /\ cancel' = [cancel EXCEPT ![b] = "commit"]
    /\ UNCHANGED <<row, submit, job, stopped, faultVars>>

CancelCommit(b) ==
    /\ cancel[b] = "commit"
    /\ Commit(b)
    /\ cancel' = [cancel EXCEPT ![b] = "idle"]
    /\ stopped' = IF job[b].phase \in {"queued", "ack", "done"} THEN stopped \union {b}
                                                                ELSE stopped
    /\ UNCHANGED <<submit, job, faultVars>>

CancelFails(b) ==
    /\ cancel[b] # "idle"
    /\ errors < MaxErrors
    /\ errors' = errors + 1
    /\ Rollback("user", b)
    /\ cancel' = [cancel EXCEPT ![b] = "idle"]
    /\ UNCHANGED <<submit, job, stopped, crashes, timeouts>>

-----------------------------------------------------------------------------
(* run_backtest *)

JobTo(b, phase) == job' = [job EXCEPT ![b] = [phase |-> phase, tries |-> job[b].tries]]

\* Mutant: the status guard is dropped.
RunnableAlways(status) == status # "absent"

Runnable(status) == status = "pending"

\* The row is not found, is not pending, or is about to be claimed.
WorkerStart(b) ==
    /\ job[b].phase = "queued"
    /\ job' = [job EXCEPT ![b] =
                 [phase |-> IF Runnable(row[b].status) THEN "claim" ELSE "done",
                  tries |-> job[b].tries + 1]]
    /\ UNCHANGED <<rowVars, submit, cancel, stopped, faultVars>>

WorkerClaims(b) ==
    /\ job[b].phase = "claim"
    /\ Update("worker", b, SetStatus(b, "running"))
    /\ JobTo(b, "claimed")
    /\ UNCHANGED <<row, submit, cancel, stopped, faultVars>>

WorkerCommitsClaim(b) ==
    /\ job[b].phase = "claimed"
    /\ Commit(b)
    /\ JobTo(b, "run")
    /\ UNCHANGED <<submit, cancel, stopped, faultVars>>

\* Fetch the bars, run the engine, insert the trades, export; or any of them raises.
PipelineSucceeds(b) ==
    /\ job[b].phase = "run"
    /\ JobTo(b, "write")
    /\ UNCHANGED <<rowVars, submit, cancel, stopped, faultVars>>

\* Mutant: an exception of the pipeline leaves the job without set_failed.
PipelineRaisesSilently(b) ==
    /\ job[b].phase = "run"
    /\ JobTo(b, "ack")
    /\ UNCHANGED <<rowVars, submit, cancel, stopped, faultVars>>

PipelineRaises(b) ==
    /\ job[b].phase = "run"
    /\ JobTo(b, "fail")
    /\ UNCHANGED <<rowVars, submit, cancel, stopped, faultVars>>

WorkerCompletes(b) ==
    /\ job[b].phase = "write"
    /\ Update("worker", b, SetCompleted(b))
    /\ JobTo(b, "written")
    /\ UNCHANGED <<row, submit, cancel, stopped, faultVars>>

WorkerCommitsResult(b) ==
    /\ job[b].phase = "written"
    /\ Commit(b)
    /\ JobTo(b, "ack")
    /\ UNCHANGED <<submit, cancel, stopped, faultVars>>

\* Mutant: the trades were committed before the metrics.
ResultIsHalfLost(b) ==
    /\ job[b].phase \in {"write", "written"}
    /\ errors < MaxErrors
    /\ errors' = errors + 1
    /\ row' = [row EXCEPT ![b].trades = @ + 1]
    /\ draft' = IF draft[b].by = "worker" THEN [draft EXCEPT ![b] = NoDraft] ELSE draft
    /\ JobTo(b, "fail")
    /\ UNCHANGED <<submit, cancel, stopped, crashes, timeouts>>

\* The second transaction fails on the database: it is rolled back as a whole.
ResultIsLost(b) ==
    /\ job[b].phase \in {"write", "written"}
    /\ errors < MaxErrors
    /\ errors' = errors + 1
    /\ Rollback("worker", b)
    /\ JobTo(b, "fail")
    /\ UNCHANGED <<submit, cancel, stopped, crashes, timeouts>>

\* The except branch, in a transaction of its own.
WorkerFails(b) ==
    /\ job[b].phase = "fail"
    /\ Update("worker", b, SetStatus(b, "failed"))
    /\ JobTo(b, "failed")
    /\ UNCHANGED <<row, submit, cancel, stopped, faultVars>>

WorkerCommitsFailure(b) ==
    /\ job[b].phase = "failed"
    /\ Commit(b)
    /\ JobTo(b, "ack")
    /\ UNCHANGED <<submit, cancel, stopped, faultVars>>

\* The first transaction raises, which nothing catches, or the one of the except
\* branch does, which is swallowed.
StatusIsLost(b) ==
    /\ job[b].phase \in {"claim", "claimed", "fail", "failed"}
    /\ errors < MaxErrors
    /\ errors' = errors + 1
    /\ Rollback("worker", b)
    /\ JobTo(b, "ack")
    /\ UNCHANGED <<submit, cancel, stopped, crashes, timeouts>>

\* arq stores the result of the job.
JobIsAcknowledged(b) ==
    /\ job[b].phase = "ack"
    /\ JobTo(b, "done")
    /\ UNCHANGED <<rowVars, submit, cancel, stopped, faultVars>>

JobRunning(b) == job[b].phase \notin {"none", "queued", "done"}

PhaseAfterDeath(b) == IF job[b].tries < MaxTries THEN "queued" ELSE "done"

WorkerDies(b) ==
    /\ JobRunning(b)
    /\ crashes < MaxCrashes
    /\ crashes' = crashes + 1
    /\ Rollback("worker", b)
    /\ JobTo(b, PhaseAfterDeath(b))
    /\ UNCHANGED <<submit, cancel, stopped, timeouts, errors>>

\* arq cancels the coroutine: a CancelledError is no Exception, so the except
\* branch does not run, and arq does not run the job again.
JobTimesOut(b) ==
    /\ JobRunning(b)
    /\ job[b].phase # "ack"
    /\ timeouts < MaxTimeouts
    /\ timeouts' = timeouts + 1
    /\ Rollback("worker", b)
    /\ JobTo(b, "done")
    /\ UNCHANGED <<submit, cancel, stopped, crashes, errors>>

-----------------------------------------------------------------------------

SubmitStep(b) == SubmitCheck(b) \/ SubmitEnqueue(b) \/ SubmitCommit(b)

CancelStep(b) == CancelUpdate(b) \/ CancelCommit(b)

WorkerStep(b) ==
    \/ WorkerStart(b)
    \/ WorkerClaims(b)
    \/ WorkerCommitsClaim(b)
    \/ PipelineSucceeds(b)
    \/ PipelineRaises(b)
    \/ WorkerCompletes(b)
    \/ WorkerCommitsResult(b)
    \/ WorkerFails(b)
    \/ WorkerCommitsFailure(b)
    \/ JobIsAcknowledged(b)

Fault(b) ==
    \/ SubmitFails(b)
    \/ CancelFails(b)
    \/ ResultIsLost(b)
    \/ StatusIsLost(b)
    \/ WorkerDies(b)
    \/ JobTimesOut(b)

Next == \E b \in Backtests :
            SubmitStep(b) \/ CancelRead(b) \/ CancelStep(b) \/ WorkerStep(b) \/ Fault(b)

Spec == Init /\ [][Next]_vars

\* A request that has started runs to its end and arq runs every queued job; nobody
\* has to submit or cancel anything, and no fault has to happen.
Fairness ==
    \A b \in Backtests :
        /\ WF_vars(SubmitEnqueue(b) \/ SubmitCommit(b))
        /\ WF_vars(CancelStep(b))
        /\ WF_vars(WorkerStep(b))

FairSpec == Spec /\ Fairness
-----------------------------------------------------------------------------
(* Properties. *)

\* The trades of a backtest are stored once, together with its metrics, or not at
\* all: no crash, replay, lost commit or cancellation leaves half a result or two.
ResultIsStoredOnce ==
    \A b \in Backtests :
        row[b].trades = (IF row[b].results THEN 1 ELSE 0)

\* A backtest cancelled while no worker was running it stays failed: neither the
\* job still on the queue nor the replay of a dead one runs it.
StoppedStaysStopped == \A b \in stopped : row[b].status = "failed"

\* A backtest whose row was there when its job was taken from the queue reaches a
\* final status, unless a fault intervenes: claims, cancellations and the worker's
\* own transactions never wait for each other for ever.
QueuedIsResolved ==
    \A b \in Backtests :
        (row[b].status = "pending" /\ job[b].phase = "queued")
            ~> \/ row[b].status \in {"completed", "failed"}
               \/ crashes + timeouts + errors > 0

\* No cancellation and no job waits for ever on the row lock of the other, whatever
\* dies, times out or fails while it holds it.
NobodyWaitsForEver ==
    \A b \in Backtests :
        /\ (cancel[b] # "idle") ~> (cancel[b] = "idle")
        /\ (job[b].phase = "queued") ~> (job[b].phase = "done")
=============================================================================
