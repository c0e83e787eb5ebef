--------------------------- MODULE BacktestProofs ---------------------------
(***************************************************************************)
(* What holds of every backtest.  Of its job (BacktestJob), for every      *)
(* number of submissions, tries and faults: results are stored once, and a *)
(* cancelled backtest stays cancelled.  Of what the job computes           *)
(* (BacktestPipeline), for every history, page size, signal and price: the *)
(* frame is whole, and the simulation is a walk of a position book.        *)
(***************************************************************************)
EXTENDS BacktestJob, BacktestPipeline, FiniteSetTheorems, SequenceTheorems, TLAPS

\* What the repository's statements make of a row is a row.
LEMMA RowTypes ==
    ASSUME TypeOK, NEW b \in Backtests, NEW status \in Status
    PROVE  SetStatus(b, status) \in Row /\ SetCompleted(b) \in Row
BY DEF TypeOK, Row, Status, SetStatus, SetCompleted

\* Taking, committing and giving up the lock of a row keeps the types.
LEMMA LockTypes ==
    ASSUME TypeOK, NEW b \in Backtests, NEW who \in Writer
    PROVE  /\ \A new \in Row : Update(who, b, new) => 
                  draft' \in [Backtests -> [by: Writer \union {"nobody"}, row: Row]]
           /\ Commit(b) \/ Rollback(who, b) =>
                  /\ row' \in [Backtests -> Row]
                  /\ draft' \in [Backtests -> [by: Writer \union {"nobody"}, row: Row]]
<1> USE DEF TypeOK
<1>1. NoDraft \in [by: Writer \union {"nobody"}, row: Row]
  BY DEF NoDraft, AbsentRow, Row, Status
<1>2. draft[b].row \in Row
  OBVIOUS
<1>3. ASSUME NEW new \in Row, Update(who, b, new)
      PROVE  draft' \in [Backtests -> [by: Writer \union {"nobody"}, row: Row]]
  <2>1. [by |-> who, row |-> new] \in [by: Writer \union {"nobody"}, row: Row]
    OBVIOUS
  <2>. QED BY <1>3, <2>1 DEF Update
<1>4. ASSUME Commit(b)
      PROVE  /\ row' \in [Backtests -> Row]
             /\ draft' \in [Backtests -> [by: Writer \union {"nobody"}, row: Row]]
  BY <1>1, <1>2, <1>4 DEF Commit
<1>5. ASSUME Rollback(who, b)
      PROVE  /\ row' \in [Backtests -> Row]
             /\ draft' \in [Backtests -> [by: Writer \union {"nobody"}, row: Row]]
  BY <1>1, <1>5 DEF Rollback
<1>. QED BY <1>3, <1>4, <1>5

\* Moving a job to another phase keeps its type.
LEMMA JobTypes ==
    ASSUME TypeOK, NEW b \in Backtests, NEW to \in JobPhase, JobTo(b, to)
    PROVE  job' \in [Backtests -> Job]
BY DEF TypeOK, JobTo, Job, JobPhase

\* TypeOK is an invariant.
THEOREM TypeCorrect == Spec => []TypeOK
<1>1. Init => TypeOK
  <2>1. AbsentRow \in Row
    BY DEF AbsentRow, Row, Status
  <2>2. [phase |-> "none", tries |-> 0] \in Job
    BY DEF Job, JobPhase
  <2>. QED BY <2>1, <2>2, BacktestAssumption DEF Init, TypeOK, NoDraft, Writer
<1>2. TypeOK /\ [Next]_vars => TypeOK'
  <2> SUFFICES ASSUME TypeOK, [Next]_vars PROVE TypeOK'
    OBVIOUS
  <2> USE BacktestAssumption
  <2>1. ASSUME NEW b \in Backtests, SubmitStep(b) PROVE TypeOK'
    <3>1. CASE SubmitCheck(b)
      BY <3>1 DEF SubmitCheck, TypeOK, rowVars, faultVars
    <3>2. CASE SubmitEnqueue(b)
      <4>1. [phase |-> "queued", tries |-> 0] \in Job
        BY DEF Job, JobPhase
      <4>. QED BY <3>2, <4>1 DEF SubmitEnqueue, TypeOK, rowVars, faultVars
    <3>3. CASE SubmitCommit(b)
      <4>1. [status |-> "pending", results |-> FALSE, trades |-> 0] \in Row
        BY DEF Row, Status
      <4>. QED BY <3>3, <4>1 DEF SubmitCommit, TypeOK, faultVars
    <3>. QED BY <2>1, <3>1, <3>2, <3>3 DEF SubmitStep
  <2>2. ASSUME NEW b \in Backtests, CancelRead(b) \/ CancelStep(b) PROVE TypeOK'
    <3>1. CASE CancelRead(b)
      BY <3>1 DEF CancelRead, TypeOK, rowVars, faultVars
    <3>2. CASE CancelUpdate(b)
      <4>1. SetStatus(b, "failed") \in Row
        BY RowTypes DEF Status
      <4>. QED BY <3>2, <4>1, LockTypes DEF CancelUpdate, TypeOK, Writer, faultVars
    <3>3. CASE CancelCommit(b)
      BY <3>3, LockTypes DEF CancelCommit, TypeOK, Writer, faultVars
    <3>. QED BY <2>2, <3>1, <3>2, <3>3 DEF CancelStep
  <2>3. ASSUME NEW b \in Backtests, WorkerStep(b) PROVE TypeOK'
    <3>1. CASE WorkerStart(b)
      <4>1. job' \in [Backtests -> Job]
        BY <3>1 DEF WorkerStart, TypeOK, Job, JobPhase
      <4>. QED BY <3>1, <4>1 DEF WorkerStart, TypeOK, rowVars, faultVars
    <3>2. CASE WorkerClaims(b)
      <4>1. SetStatus(b, "running") \in Row
        BY RowTypes DEF Status
      <4>. QED BY <3>2, <4>1, LockTypes, JobTypes
               DEF WorkerClaims, TypeOK, Writer, JobPhase, faultVars
    <3>3. CASE WorkerCommitsClaim(b)
      BY <3>3, LockTypes, JobTypes DEF WorkerCommitsClaim, TypeOK, Writer, JobPhase, faultVars
    <3>4. CASE PipelineSucceeds(b) \/ PipelineRaises(b)
      BY <3>4, JobTypes
         DEF PipelineSucceeds, PipelineRaises, TypeOK, JobPhase, rowVars, faultVars
    <3>5. CASE WorkerCompletes(b)
      <4>1. SetCompleted(b) \in Row
        BY RowTypes DEF Status
      <4>. QED BY <3>5, <4>1, LockTypes, JobTypes
               DEF WorkerCompletes, TypeOK, Writer, JobPhase, faultVars
    <3>6. CASE WorkerCommitsResult(b)
      BY <3>6, LockTypes, JobTypes DEF WorkerCommitsResult, TypeOK, Writer, JobPhase, faultVars
    <3>7. CASE WorkerFails(b)
      <4>1. SetStatus(b, "failed") \in Row
        BY RowTypes DEF Status
      <4>. QED BY <3>7, <4>1, LockTypes, JobTypes
               DEF WorkerFails, TypeOK, Writer, JobPhase, faultVars
    <3>8. CASE WorkerCommitsFailure(b)
      BY <3>8, LockTypes, JobTypes DEF WorkerCommitsFailure, TypeOK, Writer, JobPhase, faultVars
    <3>9. CASE JobIsAcknowledged(b)
      BY <3>9, JobTypes DEF JobIsAcknowledged, TypeOK, JobPhase, rowVars, faultVars
    <3>. QED BY <2>3, <3>1, <3>2, <3>3, <3>4, <3>5, <3>6, <3>7, <3>8, <3>9 DEF WorkerStep
  <2>4. ASSUME NEW b \in Backtests, Fault(b) PROVE TypeOK'
    <3>1. CASE SubmitFails(b)
      BY <3>1 DEF SubmitFails, TypeOK, rowVars
    <3>2. CASE CancelFails(b)
      BY <3>2, LockTypes DEF CancelFails, TypeOK, Writer
    <3>3. CASE ResultIsLost(b)
      BY <3>3, LockTypes, JobTypes DEF ResultIsLost, TypeOK, Writer, JobPhase
    <3>4. CASE StatusIsLost(b)
      BY <3>4, LockTypes, JobTypes DEF StatusIsLost, TypeOK, Writer, JobPhase
    <3>5. CASE WorkerDies(b)
      <4>1. PhaseAfterDeath(b) \in JobPhase
        BY DEF PhaseAfterDeath, JobPhase
      <4>. QED BY <3>5, <4>1, LockTypes, JobTypes DEF WorkerDies, TypeOK, Writer
    <3>6. CASE JobTimesOut(b)
      BY <3>6, LockTypes, JobTypes DEF JobTimesOut, TypeOK, Writer, JobPhase
    <3>. QED BY <2>4, <3>1, <3>2, <3>3, <3>4, <3>5, <3>6 DEF Fault
  <2>5. CASE UNCHANGED vars
    BY <2>5 DEF vars, TypeOK
  <2>. QED BY <2>1, <2>2, <2>3, <2>4, <2>5 DEF Next
<1>. QED
  BY <1>1, <1>2, PTL DEF Spec
-----------------------------------------------------------------------------

\* The strengthening, for one backtest.  The row exists exactly when its request has
\* committed, and only then is anybody working on it.
Existence(b) ==
    /\ submit[b] # "done" => /\ row[b] = AbsentRow
                             /\ cancel[b] = "idle"
                             /\ job[b].phase \in {"none", "queued", "done"}
    /\ submit[b] = "done" => row[b].status # "absent"

\* Who holds the row's lock, and what that writer is about to commit.
Lock(b) ==
    /\ draft[b].by = "worker" <=> job[b].phase \in {"claimed", "written", "failed"}
    /\ draft[b].by = "user" <=> cancel[b] = "commit"
    /\ job[b].phase = "claimed" => draft[b].row = SetStatus(b, "running")
    /\ job[b].phase = "written" => draft[b].row = SetCompleted(b)
    /\ job[b].phase = "failed" => draft[b].row = SetStatus(b, "failed")
    /\ cancel[b] = "commit" => draft[b].row = SetStatus(b, "failed")

\* A pending backtest, and one whose pipeline has not committed, has no result.
Result(b) ==
    /\ row[b].trades = (IF row[b].results THEN 1 ELSE 0)
    /\ row[b].status = "pending" => ~row[b].results
    /\ job[b].phase \in {"claim", "claimed", "run", "write", "written", "fail", "failed"}
          => ~row[b].results

\* Nobody is working on a backtest that was cancelled at rest.
Stopped(b) ==
    b \in stopped => /\ row[b].status = "failed"
                     /\ cancel[b] = "idle"
                     /\ job[b].phase \in {"queued", "ack", "done"}

Consistent(b) == Existence(b) /\ Lock(b) /\ Result(b) /\ Stopped(b)

\* A step that leaves everything of a backtest alone keeps it consistent.
LEMMA Frame ==
    ASSUME NEW e, Consistent(e), row'[e] = row[e], draft'[e] = draft[e],
           submit'[e] = submit[e], cancel'[e] = cancel[e], job'[e] = job[e],
           e \in stopped' <=> e \in stopped
    PROVE  Consistent(e)'
BY DEF Consistent, Existence, Lock, Result, Stopped, SetStatus, SetCompleted

\* Each step is a step of one backtest and keeps it consistent.
LEMMA SubmitKeeps ==
    ASSUME TypeOK, NEW b \in Backtests, Consistent(b),
           SubmitStep(b) \/ SubmitFails(b)
    PROVE  Consistent(b)'
<1> USE DEF TypeOK, Consistent, Existence, Lock, Result, Stopped, AbsentRow, SetStatus, SetCompleted
<1>1. CASE SubmitCheck(b)
  BY <1>1 DEF SubmitCheck, rowVars
<1>2. CASE SubmitEnqueue(b)
  BY <1>2 DEF SubmitEnqueue, rowVars
<1>3. CASE SubmitCommit(b)
  BY <1>3 DEF SubmitCommit
<1>4. CASE SubmitFails(b)
  BY <1>4 DEF SubmitFails, rowVars
<1>. QED BY <1>1, <1>2, <1>3, <1>4 DEF SubmitStep

LEMMA CancelKeeps ==
    ASSUME TypeOK, NEW b \in Backtests, Consistent(b),
           CancelRead(b) \/ CancelStep(b) \/ CancelFails(b)
    PROVE  Consistent(b)'
<1> USE DEF TypeOK, Consistent, Existence, Lock, Result, Stopped, SetStatus, SetCompleted
<1>1. CASE CancelRead(b)
  <2>1. submit[b] = "done" /\ b \notin stopped
    BY <1>1 DEF CancelRead, AbsentRow
  <2>2. /\ row' = row /\ draft' = draft /\ submit' = submit /\ job' = job
        /\ stopped' = stopped /\ cancel'[b] = "update" /\ cancel[b] = "idle"
    BY <1>1 DEF CancelRead, rowVars
  <2>. QED BY <2>1, <2>2
<1>2. CASE CancelUpdate(b)
  BY <1>2 DEF CancelUpdate, Update, Unlocked
<1>3. CASE CancelCommit(b)
  BY <1>3 DEF CancelCommit, Commit, NoDraft
<1>4. CASE CancelFails(b)
  BY <1>4 DEF CancelFails, Rollback, NoDraft
<1>. QED BY <1>1, <1>2, <1>3, <1>4 DEF CancelStep

LEMMA WorkerKeeps ==
    ASSUME TypeOK, NEW b \in Backtests, Consistent(b), WorkerStep(b)
    PROVE  Consistent(b)'
<1> USE DEF TypeOK, Consistent, Existence, Lock, Result, Stopped, SetStatus, SetCompleted
<1>1. CASE WorkerStart(b)
  BY <1>1 DEF WorkerStart, Runnable, rowVars, AbsentRow
<1>2. CASE WorkerClaims(b)
  BY <1>2 DEF WorkerClaims, Update, Unlocked, JobTo
<1>3. CASE WorkerCommitsClaim(b)
  BY <1>3 DEF WorkerCommitsClaim, Commit, NoDraft, JobTo
<1>4. CASE PipelineSucceeds(b) \/ PipelineRaises(b)
  BY <1>4 DEF PipelineSucceeds, PipelineRaises, rowVars, JobTo
<1>5. CASE WorkerCompletes(b)
  BY <1>5 DEF WorkerCompletes, Update, Unlocked, JobTo
<1>6. CASE WorkerCommitsResult(b)
  BY <1>6 DEF WorkerCommitsResult, Commit, NoDraft, JobTo
<1>7. CASE WorkerFails(b)
  BY <1>7 DEF WorkerFails, Update, Unlocked, JobTo
<1>8. CASE WorkerCommitsFailure(b)
  BY <1>8 DEF WorkerCommitsFailure, Commit, NoDraft, JobTo
<1>9. CASE JobIsAcknowledged(b)
  BY <1>9 DEF JobIsAcknowledged, rowVars, JobTo
<1>. QED BY <1>1, <1>2, <1>3, <1>4, <1>5, <1>6, <1>7, <1>8, <1>9 DEF WorkerStep

LEMMA FaultKeeps ==
    ASSUME TypeOK, NEW b \in Backtests, Consistent(b), Fault(b)
    PROVE  Consistent(b)'
<1> USE DEF TypeOK, Consistent, Existence, Lock, Result, Stopped, SetStatus, SetCompleted
<1>1. CASE SubmitFails(b)
  BY <1>1, SubmitKeeps
<1>2. CASE CancelFails(b)
  BY <1>2, CancelKeeps
<1>3. CASE ResultIsLost(b)
  BY <1>3 DEF ResultIsLost, Rollback, NoDraft, JobTo
<1>4. CASE StatusIsLost(b)
  BY <1>4 DEF StatusIsLost, Rollback, NoDraft, JobTo
<1>5. CASE WorkerDies(b)
  BY <1>5 DEF WorkerDies, Rollback, NoDraft, JobTo, PhaseAfterDeath, JobRunning
<1>6. CASE JobTimesOut(b)
  BY <1>6 DEF JobTimesOut, Rollback, NoDraft, JobTo, JobRunning
<1>. QED BY <1>1, <1>2, <1>3, <1>4, <1>5, <1>6 DEF Fault

\* A step of one backtest touches nothing of another one.
LEMMA StepsAreLocal ==
    ASSUME TypeOK, NEW b \in Backtests, NEW e \in Backtests \ {b},
           SubmitStep(b) \/ CancelRead(b) \/ CancelStep(b) \/ WorkerStep(b) \/ Fault(b)
    PROVE  /\ row'[e] = row[e] /\ draft'[e] = draft[e]
           /\ submit'[e] = submit[e] /\ cancel'[e] = cancel[e] /\ job'[e] = job[e]
           /\ e \in stopped' <=> e \in stopped
<1> USE DEF TypeOK, rowVars, Update, Commit, Rollback, JobTo
<1>1. CASE SubmitStep(b)
  BY <1>1 DEF SubmitStep, SubmitCheck, SubmitEnqueue, SubmitCommit
<1>2. CASE CancelRead(b) \/ CancelStep(b)
  BY <1>2 DEF CancelRead, CancelStep, CancelUpdate, CancelCommit
<1>3. CASE WorkerStep(b)
  BY <1>3 DEF WorkerStep, WorkerStart, WorkerClaims, WorkerCommitsClaim, PipelineSucceeds,
              PipelineRaises, WorkerCompletes, WorkerCommitsResult, WorkerFails,
              WorkerCommitsFailure, JobIsAcknowledged
<1>4. CASE Fault(b)
  BY <1>4 DEF Fault, SubmitFails, CancelFails, ResultIsLost, StatusIsLost, WorkerDies,
              JobTimesOut
<1>. QED BY <1>1, <1>2, <1>3, <1>4

\* In every reachable state the row, the lock, the requests and the job of each backtest
\* (submit_backtest, cancel_backtest, run_backtest) agree with each other.
THEOREM Consistency == Spec => [](\A b \in Backtests : Consistent(b))
<1> DEFINE Inv == \A b \in Backtests : Consistent(b)
<1>1. Init => Inv
  BY DEF Init, Consistent, Existence, Lock, Result, Stopped, AbsentRow, NoDraft
<1>2. TypeOK /\ Inv /\ [Next]_vars => Inv'
  <2> SUFFICES ASSUME TypeOK, Inv, [Next]_vars, NEW e \in Backtests
               PROVE  Consistent(e)'
    OBVIOUS
  <2>1. CASE UNCHANGED vars
    BY <2>1, Frame DEF vars
  <2>2. CASE Next
    <3>1. PICK b \in Backtests : SubmitStep(b) \/ CancelRead(b) \/ CancelStep(b)
                                  \/ WorkerStep(b) \/ Fault(b)
      BY <2>2 DEF Next
    <3>2. CASE e = b
      BY <3>1, <3>2, SubmitKeeps, CancelKeeps, WorkerKeeps, FaultKeeps
    <3>3. CASE e # b
      BY <3>1, <3>3, StepsAreLocal, Frame
    <3>. QED BY <3>2, <3>3
  <2>. QED BY <2>1, <2>2
<1> HIDE DEF Inv
<1>3. Spec => []Inv
  BY <1>1, <1>2, TypeCorrect, PTL DEF Spec
<1>. QED BY <1>3 DEF Inv

\* ResultIsStoredOnce is an invariant: trades and metrics are committed together and
\* once (run_backtest's second transaction), whatever dies, raises or is cancelled.
THEOREM ResultsAreStoredOnce == Spec => []ResultIsStoredOnce
<1>1. (\A b \in Backtests : Consistent(b)) => ResultIsStoredOnce
  BY DEF Consistent, Result, ResultIsStoredOnce
<1>. QED BY <1>1, Consistency, PTL

\* StoppedStaysStopped is an invariant: neither the queued job nor the replay of a
\* dead one revives a backtest cancelled at rest (the status guard of run_backtest).
THEOREM StoppedBacktestsStay == Spec => []StoppedStaysStopped
<1>1. TypeOK /\ (\A b \in Backtests : Consistent(b)) => StoppedStaysStopped
  BY DEF TypeOK, Consistent, Stopped, StoppedStaysStopped
<1>. QED BY <1>1, TypeCorrect, Consistency, PTL

-----------------------------------------------------------------------------
\* The pipeline: pages of bars.

\* A set of natural numbers has a least one.
LEMMA LeastNatural ==
    ASSUME NEW S \in SUBSET Nat, S # {}
    PROVE  \E n \in S : \A m \in S : n <= m
<1>1. PICK R : R = OpToRel(<, Nat)
  OBVIOUS
<1>2. IsWellFoundedOn(R, Nat)
  BY <1>1, NatLessThanWellFounded
<1>3. \A x, y \in Nat : y < x => <<y, x>> \in R
  BY <1>1, Zenon DEF OpToRel
<1>4. PICK x \in S : \A y \in S : ~(<<y, x>> \in R)
  BY <1>2, WFMin
<1>5. \A y \in S : ~(y < x)
  BY <1>3, <1>4
<1> QED
  BY <1>5

\* The last bar of an answer is one of its bars, and the last.
LEMMA LastIsThere ==
    ASSUME NEW S \in SUBSET Nat, S # {}, NEW n \in Nat, \A b \in S : b <= n
    PROVE  LastOf(S) \in S /\ \A c \in S : c <= LastOf(S)
<1> DEFINE Back == {n - b : b \in S}
<1>1. Back \in SUBSET Nat /\ Back # {}
  <2>1. \A b \in S : n - b \in Nat
    OBVIOUS
  <2> QED
    BY <2>1
<1>2. PICK least \in Back : \A m \in Back : least <= m
  BY <1>1, LeastNatural
<1>3. PICK b \in S : least = n - b
  OBVIOUS
<1>4. \A c \in S : c <= b
  <2>1. \A c \in S : n - b <= n - c
    BY <1>2, <1>3
  <2> QED
    BY <2>1
<1> QED
  BY <1>4 DEF LastOf

\* What a page of the earliest bars holds: any bar before one of its own, and all of them
\* when it is not full.
LEMMA PagesAreInitial ==
    ASSUME NEW S \in SUBSET Nat, IsFiniteSet(S), NEW n \in Nat \ {0}
    PROVE  /\ Earliest(S, n) \subseteq S
           /\ \A b \in Earliest(S, n), c \in S : c <= b => c \in Earliest(S, n)
           /\ Cardinality(Earliest(S, n)) < n => Earliest(S, n) = S
<1> DEFINE Before(b) == {c \in S : c < b}
           page == Earliest(S, n)
<1>1. \A b \in S : /\ Before(b) \in SUBSET S /\ IsFiniteSet(Before(b))
                   /\ Cardinality(Before(b)) \in Nat
  BY FS_Subset, FS_CardinalityType
<1>2. \A b : b \in page <=> b \in S /\ Cardinality(Before(b)) < n
  BY DEF Earliest
<1>3. ASSUME NEW b \in page, NEW c \in S, c <= b
      PROVE  c \in page
  <2>1. b \in S /\ Before(c) \in SUBSET Before(b)
    <3>1. b \in S
      BY <1>2
    <3>2. \A x \in S : x < c => x < b
      BY <1>3, <3>1
    <3> QED
      BY <3>1, <3>2
  <2>2. Cardinality(Before(c)) <= Cardinality(Before(b))
    BY <1>1, <2>1, FS_Subset
  <2> HIDE DEF Before, page
  <2> QED
    BY <1>1, <1>2, <1>3, <2>1, <2>2
<1>4. ASSUME Cardinality(page) < n, page # S
      PROVE  FALSE
  <2> DEFINE Rest == S \ page
  <2>1. Rest \in SUBSET Nat /\ Rest # {}
    BY <1>2, <1>4
  <2>2. PICK b \in Rest : \A c \in Rest : b <= c
    BY <2>1, LeastNatural
  <2>3. Before(b) \in SUBSET page
    <3>1. \A c \in S : c < b => ~(b <= c)
      OBVIOUS
    <3> QED
      BY <2>2, <3>1
  <2>4. IsFiniteSet(page) /\ Cardinality(page) \in Nat
    <3>1. page \in SUBSET S
      BY <1>2
    <3> QED
      BY <3>1, FS_Subset, FS_CardinalityType
  <2>5. Cardinality(Before(b)) <= Cardinality(page)
    BY <2>3, <2>4, FS_Subset
  <2> HIDE DEF Before, page
  <2> QED
    BY <1>1, <1>2, <1>4, <2>2, <2>4, <2>5
<1> QED
  BY <1>2, <1>3, <1>4

-----------------------------------------------------------------------------
\* The pipeline: a fetch.

\* While a provider is asked there is one; a frame has as many bars as were required.
Fetching ==
    /\ TypeOKFetch
    /\ phase = "ask" => queue # <<>>
    /\ phase = "raised" => queue = <<>>
    /\ phase = "fetched" => IsFiniteSet(frame) /\ Cardinality(frame) >= MinBars

\* Of every provider it is known whether it is still to be asked or was given up.
NoneForgotten ==
    \A p \in Providers : \/ \E i \in DOMAIN queue : queue[i] = p
                         \/ \E why \in {"network", "rejected", "insufficient"} : <<p, why>> \in failures

Reasons == {"network", "rejected", "insufficient"}

Raw == UNION {held[b] : b \in Books}

\* Every provider is in the list, whichever is preferred.
LEMMA OrderedProvidersAreAll ==
    ASSUME NEW preferred
    PROVE  /\ OrderedProviders(preferred) \in Seq(Providers)
           /\ \A p \in Providers : \E i \in DOMAIN OrderedProviders(preferred) : OrderedProviders(preferred)[i] = p
<1>1. AllProviders \in Seq(Providers) /\ Len(AllProviders) = 3 /\ DOMAIN AllProviders = 1..3
      /\ AllProviders[1] = "binance" /\ AllProviders[2] = "deribit" /\ AllProviders[3] = "bitfinex"
  BY DEF AllProviders, Providers
<1>2. \A p \in Providers : \E i \in 1..3 : AllProviders[i] = p
  BY <1>1 DEF Providers
<1>3. CASE preferred \notin Providers
  BY <1>1, <1>2, <1>3 DEF OrderedProviders
<1>4. CASE preferred \in Providers
  <2> DEFINE before(i) == SubSeq(AllProviders, 1, i - 1)
             after(i) == SubSeq(AllProviders, i + 1, 3)
             list(i) == <<preferred>> \o before(i) \o after(i)
  <2>1. PICK i \in 1..3 : i = CHOOSE j \in DOMAIN AllProviders : AllProviders[j] = preferred
    BY <1>1, <1>2, <1>4
  <2>2. AllProviders[i] = preferred
    BY <1>1, <1>2, <1>4, <2>1
  <2>3. OrderedProviders(preferred) = list(i)
    BY <1>1, <1>4, <2>1 DEF OrderedProviders
  <2>4. /\ before(i) \in Seq(Providers) /\ Len(before(i)) = i - 1
        /\ \A j \in 1..(i - 1) : before(i)[j] = AllProviders[j]
        /\ after(i) \in Seq(Providers) /\ Len(after(i)) = 3 - i
        /\ \A j \in 1..(3 - i) : after(i)[j] = AllProviders[i + j]
    <3>1. \A k \in 1..3 : AllProviders[k] \in Providers
      BY <1>1
    <3>2. \A k \in 1..(i - 1) : AllProviders[k] \in Providers
      BY <3>1
    <3>3. /\ before(i) \in Seq(Providers) /\ Len(before(i)) = IF 1 <= i - 1 THEN (i - 1) - 1 + 1 ELSE 0
          /\ \A j \in 1..((i - 1) - 1 + 1) : before(i)[j] = AllProviders[1 + j - 1]
      BY <3>2, SubSeqProperties
    <3>4. \A k \in (i + 1)..3 : AllProviders[k] \in Providers
      BY <3>1
    <3>5. /\ after(i) \in Seq(Providers) /\ Len(after(i)) = IF i + 1 <= 3 THEN 3 - (i + 1) + 1 ELSE 0
          /\ \A j \in 1..(3 - (i + 1) + 1) : after(i)[j] = AllProviders[(i + 1) + j - 1]
      BY <3>4, SubSeqProperties
    <3> HIDE DEF before, after
    <3>6. Len(before(i)) = i - 1 /\ \A j \in 1..(i - 1) : before(i)[j] = AllProviders[j]
      BY <3>3
    <3>7. Len(after(i)) = 3 - i /\ \A j \in 1..(3 - i) : after(i)[j] = AllProviders[i + j]
      BY <3>5
    <3> QED
      BY <3>3, <3>5, <3>6, <3>7
  <2>5. <<preferred>> \in Seq(Providers) /\ Len(<<preferred>>) = 1 /\ <<preferred>>[1] = preferred
    BY <1>4
  <2> HIDE DEF before, after
  <2>6. /\ list(i) \in Seq(Providers) /\ Len(list(i)) = 3 /\ list(i)[1] = preferred
        /\ \A j \in 1..(i - 1) : list(i)[1 + j] = AllProviders[j]
        /\ \A j \in 1..(3 - i) : list(i)[i + j] = AllProviders[i + j]
    BY <2>4, <2>5
  <2> HIDE DEF list
  <2>7. \A k \in 1..3 : \E j \in 1..3 : list(i)[j] = AllProviders[k]
    <3> SUFFICES ASSUME NEW k \in 1..3
                 PROVE  \E j \in 1..3 : list(i)[j] = AllProviders[k]
      OBVIOUS
    <3>1. CASE k = i
      BY <2>2, <2>6, <3>1
    <3>2. CASE k < i
      BY <2>6, <3>2
    <3>3. CASE k > i
      <4>1. k - i \in 1..(3 - i) /\ i + (k - i) = k
        BY <3>3
      <4> QED
        BY <2>6, <4>1
    <3> QED
      BY <3>1, <3>2, <3>3
  <2>8. DOMAIN list(i) = 1..3
    BY <2>6
  <2> QED
    BY <1>2, <2>3, <2>6, <2>7, <2>8
<1> QED
  BY <1>3, <1>4

\* The bars an answer holds.
LEMMA AnswersAreHeld ==
    ASSUME NEW S, NEW first, NEW last, NEW n
    PROVE  /\ Within(S, first, last) \subseteq S
           /\ Earliest(S, n) \subseteq S /\ Latest(S, n) \subseteq S
BY DEF Within, Earliest, Latest

LEMMA HeldIsFinite ==
    ASSUME Fetching
    PROVE  /\ \A b \in Books : held[b] \in SUBSET Nat /\ IsFiniteSet(held[b])
           /\ Raw \in SUBSET Nat /\ IsFiniteSet(Raw)
<1>1. \A b \in Books : held[b] \in SUBSET Nat /\ IsFiniteSet(held[b])
  BY MarketDataAssumption DEF Fetching, TypeOKFetch
<1>2. Raw = held["binance"] \union held["deribit"] \union held["deribit_usdc"] \union held["bitfinex"]
  BY DEF Raw, Books
<1>3. IsFiniteSet(Raw)
  BY <1>1, <1>2, FS_Union DEF Books
<1> QED
  BY <1>1, <1>3 DEF Raw

LEMMA GiveUpKeepsFetching ==
    ASSUME Fetching, phase = "ask", NEW reason \in Reasons, GiveUp(reason)
    PROVE  Fetching' /\ (NoneForgotten => NoneForgotten')
<1>1. /\ queue \in Seq(Providers) /\ queue # <<>> /\ Provider \in Providers /\ queue[1] = Provider
      /\ Tail(queue) \in Seq(Providers) /\ Len(Tail(queue)) = Len(queue) - 1
      /\ \A i \in 1..Len(Tail(queue)) : Tail(queue)[i] = queue[i + 1]
  BY DEF Fetching, TypeOKFetch, Provider
<1>2. Fetching'
  BY <1>1 DEF Fetching, TypeOKFetch, GiveUp, Reasons
<1>3. ASSUME NEW p \in Providers, NEW i \in DOMAIN queue, queue[i] = p
      PROVE  \/ \E j \in DOMAIN queue' : queue'[j] = p
             \/ <<p, reason>> \in failures'
  <2>1. CASE i = 1
    BY <1>1, <1>3, <2>1 DEF GiveUp
  <2>2. CASE i # 1
    <3>1. i - 1 \in 1..Len(Tail(queue)) /\ (i - 1) + 1 = i
      BY <1>1, <2>2
    <3>2. i - 1 \in DOMAIN Tail(queue) /\ Tail(queue)[i - 1] = p
      BY <1>1, <1>3, <3>1
    <3> QED
      BY <3>2 DEF GiveUp
  <2> QED
    BY <2>1, <2>2
<1>4. \A f \in failures : f \in failures'
  BY DEF GiveUp
<1>5. NoneForgotten => NoneForgotten'
  BY <1>3, <1>4 DEF NoneForgotten, Reasons
<1> QED
  BY <1>2, <1>5

LEMMA ReturnedKeepsFetching ==
    ASSUME Fetching, phase = "ask", NEW raw \in SUBSET Raw, Returned(raw)
    PROVE  Fetching' /\ (NoneForgotten => NoneForgotten')
<1> DEFINE trimmed == IF kind = "range" THEN {b \in raw : b <= To} ELSE raw
<1>1. CASE Cardinality(trimmed) >= MinBars
  <2>1. /\ frame' = trimmed /\ phase' = "fetched" /\ bars' = raw
        /\ UNCHANGED <<kind, held, queue, attempt, book, cursor, failures>>
    BY <1>1 DEF Returned
  <2>2. trimmed \in SUBSET Raw /\ IsFiniteSet(trimmed)
    <3>1. trimmed \in SUBSET Raw
      OBVIOUS
    <3> QED
      BY <3>1, HeldIsFinite, FS_Subset
  <2>3. Fetching'
    BY <1>1, <2>1, <2>2 DEF Fetching, TypeOKFetch, Raw
  <2> QED
    BY <2>1, <2>3 DEF NoneForgotten
<1>2. CASE ~(Cardinality(trimmed) >= MinBars)
  BY <1>2, GiveUpKeepsFetching DEF Returned, Reasons
<1> QED
  BY <1>1, <1>2

LEMMA RestartKeepsTypes ==
    ASSUME TypeOKFetch, Restart(Provider), queue # <<>>, UNCHANGED <<kind, held, queue, failures, frame>>,
           attempt' \in 1..MaxAttempts, phase' = "ask"
    PROVE  TypeOKFetch'
<1>1. Provider \in Books
  BY DEF TypeOKFetch, Provider, Providers, Books
<1>2. Start \in Nat
  BY MarketDataAssumption DEF Start
<1> QED
  BY <1>1, <1>2 DEF TypeOKFetch, Restart, FirstBook

\* A step that changes no more than where the fetch has got to.
LEMMA FetchKeepsFetching ==
    ASSUME Fetching, [FetchNext]_fetchVars
    PROVE  Fetching' /\ (NoneForgotten => NoneForgotten')
<1>1. CASE UNCHANGED fetchVars
  BY <1>1 DEF fetchVars, Fetching, TypeOKFetch, NoneForgotten
<1>2. CASE TryProvider
  <2>1. TypeOKFetch'
    BY <1>2, RestartKeepsTypes, MarketDataAssumption DEF TryProvider, Fetching
  <2> QED
    BY <1>2, <2>1 DEF TryProvider, Fetching, NoneForgotten
<1>3. CASE AllFailed
  BY <1>3 DEF AllFailed, Fetching, TypeOKFetch, NoneForgotten
<1>4. CASE BinancePage
  <2> DEFINE page == Earliest(Within(held["binance"], cursor, To), BatchSize)
  <2>1. page \in SUBSET held["binance"] /\ page \in SUBSET Within(held["binance"], cursor, To)
    BY AnswersAreHeld
  <2>2. bars \in SUBSET Raw /\ page \in SUBSET Raw /\ bars \union page \in SUBSET Raw
    BY <2>1 DEF Fetching, TypeOKFetch, Raw, Books
  <2>3. CASE page = {} \/ PageIsLast(page)
    BY <1>4, <2>2, <2>3, ReturnedKeepsFetching DEF BinancePage, Asking
  <2>4. CASE ~(page = {} \/ PageIsLast(page))
    <3>1. /\ bars' = bars \union page /\ cursor' = NextCursor(page) /\ phase = "ask"
          /\ UNCHANGED <<kind, held, phase, queue, attempt, book, failures, frame>>
      BY <1>4, <2>4 DEF BinancePage, Asking
    <3>2. page \in SUBSET Nat /\ \A b \in page : b <= To
      BY <2>1, HeldIsFinite DEF Within, Books
    <3>3. LastOf(page) \in Nat
      BY <2>4, <3>2, LastIsThere, MarketDataAssumption
    <3>4. cursor' \in Nat
      BY <3>1, <3>3 DEF NextCursor
    <3> QED
      BY <2>2, <3>1, <3>4 DEF Fetching, TypeOKFetch, NoneForgotten, Raw
  <2> QED
    BY <2>3, <2>4
<1>5. CASE BinanceLatest
  <2>1. Latest(Within(held["binance"], 0, To), IF Limit < MaxPage THEN Limit ELSE MaxPage) \in SUBSET Raw
    BY AnswersAreHeld DEF Raw, Books
  <2> QED
    BY <1>5, <2>1, ReturnedKeepsFetching DEF BinanceLatest, Asking
<1>6. CASE DeribitAnswers
  <2> DEFINE answer == Within(held[book], Start, To)
  <2>1. answer \in SUBSET Raw /\ Latest(answer, Limit) \in SUBSET Raw
    BY AnswersAreHeld DEF Raw, Fetching, TypeOKFetch
  <2> QED
    BY <1>6, <2>1, ReturnedKeepsFetching DEF DeribitAnswers, Asking
<1>7. CASE DeribitUnknownName
  BY <1>7 DEF DeribitUnknownName, Fetching, TypeOKFetch, NoneForgotten, Books
<1>8. CASE BitfinexAnswers
  <2>1. Earliest(Within(held["bitfinex"], Start, To), IF kind = "latest" THEN Limit ELSE MaxPage) \in SUBSET Raw
    BY AnswersAreHeld DEF Raw, Books
  <2> QED
    BY <1>8, <2>1, ReturnedKeepsFetching DEF BitfinexAnswers, Asking
<1>9. CASE TransientError
  <2>1. CASE MayRetry
    <3>1. /\ attempt' = attempt + 1 /\ Restart(Provider) /\ phase = "ask" /\ queue # <<>>
          /\ UNCHANGED <<kind, held, phase, queue, failures, frame>>
      BY <1>9, <2>1 DEF TransientError, NextAttempt, Fetching
    <3>2. attempt' \in 1..MaxAttempts
      BY <2>1, <3>1, MarketDataAssumption DEF MayRetry, Fetching, TypeOKFetch
    <3>3. TypeOKFetch'
      BY <3>1, <3>2, RestartKeepsTypes DEF Fetching
    <3> QED
      BY <3>1, <3>3 DEF Fetching, NoneForgotten
  <2>2. CASE ~MayRetry
    BY <1>9, <2>2, GiveUpKeepsFetching DEF TransientError, Reasons
  <2> QED
    BY <2>1, <2>2
<1>10. CASE HardError
  BY <1>10, GiveUpKeepsFetching DEF HardError, Reasons
<1> QED
  BY <1>1, <1>2, <1>3, <1>4, <1>5, <1>6, <1>7, <1>8, <1>9, <1>10 DEF FetchNext, Answer

LEMMA FetchingAtFirst == FetchInit => Fetching /\ NoneForgotten
<1> SUFFICES ASSUME FetchInit
             PROVE  Fetching /\ NoneForgotten
  OBVIOUS
<1>1. PICK preferred \in Preferences : queue = OrderedProviders(preferred)
  BY DEF FetchInit
<1>2. queue \in Seq(Providers) /\ \A p \in Providers : \E i \in DOMAIN queue : queue[i] = p
  BY <1>1, OrderedProvidersAreAll
<1>3. Fetching
  BY <1>2, MarketDataAssumption DEF FetchInit, Fetching, TypeOKFetch, Books
<1> QED
  BY <1>2, <1>3 DEF NoneForgotten

-----------------------------------------------------------------------------
\* The pipeline: the frame.

\* While Binance is paged through, what has been collected is all it holds before the cursor;
\* the book is one of the provider's.
PagesJoin ==
    kind = "range" /\ phase = "ask" =>
        /\ Provider = "binance" => /\ book = "binance" /\ From <= cursor
                                   /\ bars = Within(held["binance"], From, cursor - 1)
        /\ Provider = "deribit" => book \in {"deribit", "deribit_usdc"}
        /\ Provider = "bitfinex" => book = "bitfinex"

\* A page that is the last holds all there is; one that is not, all up to its last bar.
LEMMA PagesJoinUp ==
    ASSUME NEW H \in SUBSET Nat, IsFiniteSet(H), NEW from \in Nat,
           NEW page, page = Earliest(Within(H, from, To), BatchSize)
    PROVE  /\ page = {} \/ PageIsLast(page) => page = Within(H, from, To)
           /\ page # {} /\ ~PageIsLast(page) =>
                 /\ LastOf(page) \in Nat /\ from <= LastOf(page) /\ LastOf(page) < To
                 /\ page = Within(H, from, LastOf(page))
<1> DEFINE S == Within(H, from, To)
<1>1. S \in SUBSET Nat /\ S \in SUBSET H /\ \A b \in S : from <= b /\ b <= To
  BY DEF Within
<1>2. IsFiniteSet(S)
  BY <1>1, FS_Subset
<1>3. To \in Nat /\ BatchSize \in Nat \ {0}
  BY MarketDataAssumption
<1>4. /\ page \in SUBSET S
      /\ \A b \in page, c \in S : c <= b => c \in page
      /\ Cardinality(page) < BatchSize => page = S
  BY <1>1, <1>2, <1>3, PagesAreInitial
<1>5. page # {} => LastOf(page) \in page /\ \A c \in page : c <= LastOf(page)
  BY <1>1, <1>3, <1>4, LastIsThere
<1>6. CASE page = {}
  <2>1. Cardinality(page) < BatchSize
    BY <1>3, <1>6, FS_EmptySet
  <2> QED
    BY <1>4, <1>6, <2>1
<1>7. CASE page # {} /\ PageIsLast(page)
  <2>1. CASE LastOf(page) >= To
    <3>1. \A c \in S : c <= LastOf(page)
      BY <1>1, <1>3, <1>4, <1>5, <1>7, <2>1
    <3> QED
      BY <1>4, <1>5, <1>7, <3>1
  <2> QED
    BY <1>4, <1>7, <2>1 DEF PageIsLast
<1>8. CASE page # {} /\ ~PageIsLast(page)
  <2>1. LastOf(page) < To /\ LastOf(page) \in S /\ LastOf(page) \in Nat /\ from <= LastOf(page)
    BY <1>1, <1>3, <1>4, <1>5, <1>8 DEF PageIsLast
  <2>2. \A c \in Within(H, from, LastOf(page)) : c \in S /\ c <= LastOf(page)
    BY <1>3, <2>1 DEF Within
  <2>3. \A c \in page : c \in Within(H, from, LastOf(page))
    BY <1>1, <1>4, <1>5, <1>8 DEF Within
  <2>4. \A c \in Within(H, from, LastOf(page)) : c \in page
    BY <1>4, <1>5, <1>8, <2>2
  <2> QED
    BY <1>8, <2>1, <2>3, <2>4
<1> QED
  BY <1>6, <1>7, <1>8

\* What a provider has answered in full is, trimmed, the whole of the range.
LEMMA ReturnedIsComplete ==
    ASSUME Fetching, phase = "ask", kind = "range", NEW raw, Returned(raw),
           {b \in raw : b <= To} = IF book = "bitfinex"
                                   THEN Earliest(Within(held[book], From, To), MaxPage)
                                   ELSE Within(held[book], From, To)
    PROVE  PagesJoin' /\ FrameIsComplete'
<1>1. CASE phase' = "fetched"
  <2>1. frame' = {b \in raw : b <= To} /\ UNCHANGED <<held, book>>
    BY <1>1 DEF Returned, GiveUp
  <2> QED
    BY <1>1, <2>1 DEF PagesJoin, FrameIsComplete
<1>2. CASE phase' = "next"
  BY <1>2 DEF PagesJoin, FrameIsComplete
<1> QED
  BY <1>1, <1>2 DEF Returned, GiveUp

LEMMA RestartJoins ==
    ASSUME Fetching, Restart(Provider), UNCHANGED <<kind, held, queue>>, phase' = "ask", queue # <<>>
    PROVE  PagesJoin' /\ FrameIsComplete'
<1>1. Provider' = Provider /\ Provider \in Providers
  BY DEF Provider, Fetching, TypeOKFetch
<1>2. kind = "range" => Start = From
  BY DEF Start
<1>3. From \in Nat /\ held["binance"] \in SUBSET Nat
  BY MarketDataAssumption, HeldIsFinite DEF Books
<1>4. Within(held["binance"], From, From - 1) = {}
  BY <1>3 DEF Within
<1> QED
  BY <1>1, <1>2, <1>3, <1>4 DEF PagesJoin, FrameIsComplete, Restart, FirstBook

LEMMA FetchJoins ==
    ASSUME Fetching, PagesJoin, FrameIsComplete, [FetchNext]_fetchVars
    PROVE  PagesJoin' /\ FrameIsComplete'
<1>1. CASE UNCHANGED fetchVars
  BY <1>1 DEF fetchVars, PagesJoin, FrameIsComplete, Provider
<1>2. CASE TryProvider
  BY <1>2, RestartJoins DEF TryProvider
<1>3. CASE AllFailed
  BY <1>3 DEF AllFailed, PagesJoin, FrameIsComplete
<1>4. CASE BinancePage
  <2> DEFINE H == held["binance"]
             page == Earliest(Within(H, cursor, To), BatchSize)
  <2>1. /\ phase = "ask" /\ kind = "range" /\ book = "binance" /\ From <= cursor
        /\ bars = Within(H, From, cursor - 1)
    BY <1>4 DEF BinancePage, Asking, PagesJoin
  <2>2. H \in SUBSET Nat /\ IsFiniteSet(H) /\ cursor \in Nat /\ From \in Nat /\ To \in Nat
    BY HeldIsFinite, MarketDataAssumption DEF Fetching, TypeOKFetch, Books
  <2>3. /\ page = {} \/ PageIsLast(page) => page = Within(H, cursor, To)
        /\ page # {} /\ ~PageIsLast(page) =>
              /\ LastOf(page) \in Nat /\ cursor <= LastOf(page) /\ LastOf(page) < To
              /\ page = Within(H, cursor, LastOf(page))
    BY <2>2, PagesJoinUp
  <2>4. CASE page = {} \/ PageIsLast(page)
    <3>1. page = Within(H, cursor, To)
      BY <2>3, <2>4
    <3>2. \A b \in Nat : (From <= b /\ b <= To)
                            <=> /\ (From <= b /\ b <= cursor - 1) \/ (cursor <= b /\ b <= To)
                                /\ b <= To
      BY <2>1, <2>2
    <3>3. {b \in bars \union page : b <= To} = Within(H, From, To)
      BY <2>1, <2>2, <3>1, <3>2 DEF Within
    <3>4. Returned(bars \union page)
      BY <1>4, <2>4 DEF BinancePage
    <3> QED
      BY <2>1, <3>3, <3>4, ReturnedIsComplete
  <2>5. CASE ~(page = {} \/ PageIsLast(page))
    <3>1. /\ bars' = bars \union page /\ cursor' = NextCursor(page)
          /\ UNCHANGED <<kind, held, phase, queue, attempt, book, failures, frame>>
      BY <1>4, <2>5 DEF BinancePage
    <3> DEFINE n == LastOf(page)
    <3>2. n \in Nat /\ cursor <= n /\ page = Within(H, cursor, n) /\ cursor' = n + 1
      BY <2>3, <2>5, <3>1 DEF NextCursor
    <3> HIDE DEF n, page
    <3>3. From <= cursor' /\ cursor' - 1 = n
      BY <2>1, <2>2, <3>2
    <3>4. \A b \in Nat : (From <= b /\ b <= n)
                            <=> (From <= b /\ b <= cursor - 1) \/ (cursor <= b /\ b <= n)
      BY <2>1, <2>2, <3>2
    <3>5. bars' = Within(H, From, n)
      BY <2>1, <2>2, <3>1, <3>2, <3>4 DEF Within
    <3>6. Provider' = Provider /\ Provider = "binance"
      BY <1>4, <3>1 DEF Provider, BinancePage, Asking
    <3> QED
      BY <2>1, <3>1, <3>3, <3>5, <3>6 DEF PagesJoin, FrameIsComplete
  <2> QED
    BY <2>4, <2>5
<1>5. CASE BinanceLatest
  BY <1>5 DEF BinanceLatest, Returned, GiveUp, PagesJoin, FrameIsComplete
<1>6. CASE DeribitAnswers
  <2> DEFINE answer == Within(held[book], Start, To)
  <2>1. CASE kind = "range"
    <3>1. phase = "ask" /\ Returned(answer) /\ book \in {"deribit", "deribit_usdc"} /\ Start = From
      BY <1>6, <2>1 DEF DeribitAnswers, Asking, PagesJoin, Start
    <3>2. {b \in answer : b <= To} = Within(held[book], From, To)
      BY <3>1 DEF Within
    <3> QED
      BY <2>1, <3>1, <3>2, ReturnedIsComplete
  <2>2. CASE kind # "range"
    BY <1>6, <2>2 DEF DeribitAnswers, Returned, GiveUp, PagesJoin, FrameIsComplete
  <2> QED
    BY <2>1, <2>2
<1>7. CASE DeribitUnknownName
  <2>1. Provider' = Provider
    BY <1>7 DEF DeribitUnknownName, Provider
  <2> QED
    BY <1>7, <2>1 DEF DeribitUnknownName, Asking, PagesJoin, FrameIsComplete
<1>8. CASE BitfinexAnswers
  <2>1. CASE kind = "range"
    <3> DEFINE answer == Earliest(Within(held["bitfinex"], Start, To), MaxPage)
    <3>1. phase = "ask" /\ Returned(answer) /\ book = "bitfinex" /\ Start = From
      BY <1>8, <2>1 DEF BitfinexAnswers, Asking, PagesJoin, Start
    <3>2. {b \in answer : b <= To} = Earliest(Within(held[book], From, To), MaxPage)
      BY <3>1 DEF Within, Earliest
    <3> QED
      BY <2>1, <3>1, <3>2, ReturnedIsComplete
  <2>2. CASE kind # "range"
    BY <1>8, <2>2 DEF BitfinexAnswers, Returned, GiveUp, PagesJoin, FrameIsComplete
  <2> QED
    BY <2>1, <2>2
<1>9. CASE TransientError
  <2>1. CASE MayRetry
    BY <1>9, <2>1, RestartJoins DEF TransientError, Fetching
  <2>2. CASE ~MayRetry
    BY <1>9, <2>2 DEF TransientError, GiveUp, PagesJoin, FrameIsComplete
  <2> QED
    BY <2>1, <2>2
<1>10. CASE HardError
  BY <1>10 DEF HardError, GiveUp, PagesJoin, FrameIsComplete
<1> QED
  BY <1>1, <1>2, <1>3, <1>4, <1>5, <1>6, <1>7, <1>8, <1>9, <1>10 DEF FetchNext, Answer

-----------------------------------------------------------------------------
\* The pipeline: the simulation.

\* What the loop holds of the position it simulates: it has not scanned beyond the bar the
\* position is due, unless that lies behind it.
Simulating ==
    /\ TypeOKEngine
    /\ 0 \in Signals
    /\ stage = "waiting" => count = 0 /\ at = 0 /\ trades = {}
    /\ entry # 0 => stage \in {"scan", "failed"}
    /\ stage = "scan" => /\ entry # 0
                         /\ at <= scan /\ at < count /\ scan < count
                         /\ at \in DOMAIN price /\ scan \in DOMAIN price
                         /\ HoldsForward => scan <= Horizon(tradeType, at, entry)

\* The types of what the loop holds.
LEMMA EngineTypes ==
    ASSUME Simulating
    PROVE  /\ count \in Nat /\ at \in Int /\ scan \in Int
           /\ -count <= at /\ at <= count /\ -count <= scan /\ scan <= count
           /\ holding.weak \in Int /\ holding.strong \in Int /\ holding.spot \in Int
           /\ trades \subseteq Trade
BY EngineAssumption DEF Simulating, TypeOKEngine

\* A position is due no later than at the last bar, and not before it was entered unless a
\* holding is negative.
LEMMA HorizonIsABar ==
    ASSUME Simulating, at < count, NEW s \in Signals
    PROVE  /\ Horizon(tradeType, at, s) \in Int
           /\ Horizon(tradeType, at, s) < count
           /\ HoldsForward => at <= Horizon(tradeType, at, s)
<1>1. Holding(tradeType, s) \in Int /\ (HoldsForward => Holding(tradeType, s) >= 0)
  BY EngineTypes DEF Holding, HoldsForward
<1> HIDE DEF Holding
<1>2. at \in Int /\ count \in Nat
  BY EngineTypes
<1> QED
  BY <1>1, <1>2 DEF Horizon

\* What a product of a positive number says of the other factor.
LEMMA ProductSign ==
    ASSUME NEW a \in Nat \ {0}, NEW b \in Int
    PROVE  a * b \in Int /\ (a * b > 0 <=> b > 0)
<1>1. CASE b > 0
  BY <1>1, Z3
<1>2. CASE b = 0
  BY <1>2, Z3
<1>3. CASE b < 0
  BY <1>3, Z3
<1> QED
  BY <1>1, <1>2, <1>3

\* What is recorded of a trade is what the book allows: the rounding of pnl_pct hides no
\* profit of a grain or more and makes none of a loss.
LEMMA RecordIsFair ==
    ASSUME NEW from \in Prices, NEW close \in Prices, NEW side \in Side
    PROVE  LET profit == ProfitOf(tradeType, close, from, side)
               won == RecordsAWin(tradeType, close, from, side)
               grew == Grows(tradeType, close, from, side)
           IN  /\ profit \in {"none", "trace", "clear"} /\ won \in BOOLEAN /\ grew \in BOOLEAN
               /\ Book!Fair(profit, won, grew)
<1> DEFINE pnl == Pnl(tradeType, close, from, side)
<1>1. from \in Nat \ {0} /\ close \in Nat \ {0} /\ Target \in Int
  BY EngineAssumption
<1>2. Target * from \in Int
  BY <1>1
<1>3. pnl \in Int
  BY <1>1, <1>2 DEF Pnl, Move
<1> HIDE DEF pnl
<1>4. Grain * pnl \in Int /\ (Grain * pnl > 0 <=> pnl > 0)
  BY <1>3, ProductSign, EngineAssumption
<1>5. PositionSize > 0 => (PositionSize * pnl > 0 <=> pnl > 0)
  BY <1>3, ProductSign, EngineAssumption
<1>6. /\ ProfitOf(tradeType, close, from, side)
            = IF pnl <= 0 THEN "none" ELSE IF Grain * pnl >= from THEN "clear" ELSE "trace"
      /\ RecordsAWin(tradeType, close, from, side) = (2 * (Grain * pnl) > from)
      /\ Grows(tradeType, close, from, side)
            = IF tradeType = "spot" THEN PositionSize * pnl > 0 ELSE pnl > 0 \/ Premium < 0
  BY DEF ProfitOf, RecordsAWin, Grows, pnl
<1> DEFINE gained == Grain * pnl
<1>7. gained \in Int /\ (gained > 0 <=> pnl > 0)
  BY <1>4
<1>8. ProfitOf(tradeType, close, from, side)
         = IF pnl <= 0 THEN "none" ELSE IF gained >= from THEN "clear" ELSE "trace"
  BY <1>6
<1>9. RecordsAWin(tradeType, close, from, side) <=> 2 * gained > from
  BY <1>6
<1> HIDE DEF gained
<1>10. ProfitOf(tradeType, close, from, side) = "clear" => RecordsAWin(tradeType, close, from, side)
  BY <1>1, <1>3, <1>7, <1>8, <1>9
<1>11. RecordsAWin(tradeType, close, from, side) => ProfitOf(tradeType, close, from, side) # "none"
  BY <1>1, <1>3, <1>7, <1>8, <1>9
<1>12. Premium >= 0 /\ PositionSize > 0
         => (Grows(tradeType, close, from, side) <=> ProfitOf(tradeType, close, from, side) # "none")
  <2>1. Premium \in Int
    BY EngineAssumption
  <2>2. ProfitOf(tradeType, close, from, side) # "none" <=> pnl > 0
    BY <1>3, <1>8
  <2>3. CASE tradeType = "spot"
    <3>1. Grows(tradeType, close, from, side) <=> PositionSize * pnl > 0
      BY <1>6, <2>3
    <3> QED
      BY <1>5, <2>2, <3>1
  <2>4. CASE tradeType # "spot"
    <3>1. Grows(tradeType, close, from, side) <=> pnl > 0 \/ Premium < 0
      BY <1>6, <2>4
    <3>2. Premium >= 0 => ~(Premium < 0)
      BY <2>1
    <3> QED
      BY <2>2, <3>1, <3>2
  <2> QED
    BY <2>3, <2>4
<1>13. /\ ProfitOf(tradeType, close, from, side) \in {"none", "trace", "clear"}
       /\ RecordsAWin(tradeType, close, from, side) \in BOOLEAN
       /\ Grows(tradeType, close, from, side) \in BOOLEAN
  <2>1. ProfitOf(tradeType, close, from, side) \in {"none", "trace", "clear"}
    BY <1>8
  <2>2. RecordsAWin(tradeType, close, from, side) \in BOOLEAN
    BY DEF RecordsAWin
  <2>3. Grows(tradeType, close, from, side) \in BOOLEAN
    <3>1. CASE tradeType = "spot"
      BY <3>1 DEF Grows
    <3>2. CASE tradeType # "spot"
      BY <3>2 DEF Grows
    <3> QED
      BY <3>1, <3>2
  <2> QED
    BY <2>1, <2>2, <2>3
<1> QED
  BY <1>10, <1>11, <1>12, <1>13 DEF Book!Fair

\* The bars a position may be left at.
Leaves(exit) ==
    /\ -count <= exit /\ exit < count
    /\ HoldsForward => scan <= exit

\* Closing a position at a bar that exists.
LEMMA CloseKeepsSimulating ==
    ASSUME Simulating, stage = "scan", NEW exit \in Int, Leaves(exit), NEW close \in Prices,
           Close(exit, close)
    PROVE  Simulating'
<1> DEFINE side == SideOf(entry)
           t == [entered |-> at, left |-> exit,
                 profit |-> ProfitOf(tradeType, close, price[at], side),
                 won |-> RecordsAWin(tradeType, close, price[at], side),
                 grew |-> Grows(tradeType, close, price[at], side)]
<1>1. /\ trades' = trades \union {t} /\ at' = exit + 1 /\ stage' = "outer" /\ scan' = 0
      /\ price' = [b \in {} |-> 0] /\ entry' = 0 /\ UNCHANGED <<count, tradeType, holding>>
  BY DEF Close, Record, NextBar
<1>2. side \in Side /\ price[at] \in Prices
  BY DEF SideOf, Side, Simulating, TypeOKEngine
<1>3. t \in Trade
  BY <1>2, RecordIsFair, EngineTypes DEF Trade, Leaves
<1> HIDE DEF t
<1>4. at' \in (-count)..count /\ 0 \in (-count)..count
  BY <1>1, EngineTypes DEF Leaves
<1>5. TypeOKEngine'
  BY <1>1, <1>3, <1>4 DEF Simulating, TypeOKEngine
<1> QED
  BY <1>1, <1>5 DEF Simulating

\* The ways a scan ends: with the position closed at a bar that exists, or one bar on.
LEMMA ScanSteps ==
    ASSUME Simulating, ScanBar \/ Expire
    PROVE  /\ stage = "scan"
           /\ \/ \E exit \in Int, close \in Prices : Leaves(exit) /\ Close(exit, close)
              \/ /\ scan' = scan + 1 /\ scan < Horizon(tradeType, at, entry)
                 /\ \E p \in Prices : price' = [b \in DOMAIN price \union {scan + 1} |->
                                                  IF b = scan + 1 THEN p ELSE price[b]]
                 /\ UNCHANGED <<count, tradeType, holding, stage, at, entry, trades>>
<1>1. stage = "scan"
  BY DEF ScanBar, Expire
<1>2. /\ scan \in Int /\ count \in Nat /\ -count <= scan /\ at < count
      /\ HoldsForward => scan <= Horizon(tradeType, at, entry)
      /\ entry \in Signals /\ price[scan] \in Prices
  BY <1>1, EngineTypes DEF Simulating, TypeOKEngine
<1>3. Horizon(tradeType, at, entry) \in Int /\ Horizon(tradeType, at, entry) < count
  BY <1>2, HorizonIsABar
<1>4. CASE Expire
  <2>1. Leaves(Horizon(tradeType, at, entry))
    BY <1>2, <1>3, <1>4 DEF Expire, Leaves
  <2>2. PICK p \in IF scan = Horizon(tradeType, at, entry) THEN {price[scan]} ELSE Prices :
           Close(Horizon(tradeType, at, entry), p)
    BY <1>4 DEF Expire
  <2>3. p \in Prices
    BY <1>2, <2>2
  <2>4. \E exit \in Int, close \in Prices : Leaves(exit) /\ Close(exit, close)
    BY <1>3, <2>1, <2>2, <2>3
  <2> QED
    BY <1>1, <2>4
<1>5. CASE ScanBar
  <2>1. PICK p \in Prices :
           IF EndsEarly(tradeType, p, price[at], SideOf(entry))
           THEN Close(scan + 1, p)
           ELSE /\ scan' = scan + 1
                /\ price' = [b \in DOMAIN price \union {scan + 1} |-> IF b = scan + 1 THEN p ELSE price[b]]
                /\ UNCHANGED <<count, tradeType, holding, stage, at, entry, trades>>
    BY <1>5 DEF ScanBar
  <2>2. scan < Horizon(tradeType, at, entry)
    BY <1>5 DEF ScanBar
  <2>3. Leaves(scan + 1)
    BY <1>2, <1>3, <2>2 DEF Leaves
  <2>4. CASE EndsEarly(tradeType, p, price[at], SideOf(entry))
    <3>1. scan + 1 \in Int /\ Close(scan + 1, p)
      BY <1>2, <2>1, <2>4
    <3>2. \E exit \in Int, close \in Prices : Leaves(exit) /\ Close(exit, close)
      BY <2>3, <3>1
    <3> QED
      BY <1>1, <3>2
  <2>5. CASE ~EndsEarly(tradeType, p, price[at], SideOf(entry))
    BY <1>1, <2>1, <2>2, <2>5
  <2> QED
    BY <2>4, <2>5
<1> QED
  BY <1>4, <1>5

LEMMA SimulateKeepsSimulating ==
    ASSUME Simulating, Simulate
    PROVE  Simulating'
<1>1. at \in Int /\ count \in Nat /\ scan \in Int /\ -count <= at /\ -count <= scan
  BY EngineTypes
<1>2. CASE SkipBar
  <2>1. at + 1 \in (-count)..count
    BY <1>1, <1>2 DEF SkipBar
  <2> QED
    BY <1>2, <2>1 DEF SkipBar, Simulating, TypeOKEngine
<1>3. ASSUME NEW s \in Signals, EnterAt(s)
      PROVE  Simulating'
  <2>1. /\ stage = "outer" /\ at < count /\ s # 0 /\ entry' = s /\ scan' = at /\ stage' = "scan"
        /\ UNCHANGED <<count, tradeType, holding, at, trades>>
    BY <1>3 DEF EnterAt
  <2>2. PICK p \in Prices : price' = [b \in {at} |-> p]
    BY <1>3 DEF EnterAt
  <2>3. HoldsForward => at <= Horizon(tradeType, at, s)
    BY <2>1, HorizonIsABar
  <2>4. Horizon(tradeType, at, entry)' = Horizon(tradeType, at, s) /\ HoldsForward' = HoldsForward
    BY <2>1 DEF Horizon, Holding, HoldsForward
  <2>5. TypeOKEngine'
    BY <1>1, <2>1, <2>2 DEF Simulating, TypeOKEngine
  <2> QED
    BY <1>1, <2>1, <2>2, <2>3, <2>4, <2>5 DEF Simulating
<1>4. CASE ScanBar \/ Expire
  <2>1. CASE \E exit \in Int, close \in Prices : Leaves(exit) /\ Close(exit, close)
    BY <1>4, <2>1, ScanSteps, CloseKeepsSimulating
  <2>2. CASE /\ scan' = scan + 1 /\ scan < Horizon(tradeType, at, entry)
             /\ \E p \in Prices : price' = [b \in DOMAIN price \union {scan + 1} |->
                                              IF b = scan + 1 THEN p ELSE price[b]]
             /\ UNCHANGED <<count, tradeType, holding, stage, at, entry, trades>>
    <3>1. PICK p \in Prices : price' = [b \in DOMAIN price \union {scan + 1} |->
                                          IF b = scan + 1 THEN p ELSE price[b]]
      BY <2>2
    <3>2. /\ stage = "scan" /\ at <= scan /\ at < count /\ at \in DOMAIN price /\ entry \in Signals
      BY <1>4, ScanSteps DEF Simulating, TypeOKEngine
    <3>3. Horizon(tradeType, at, entry) \in Int /\ Horizon(tradeType, at, entry) < count
      BY <3>2, HorizonIsABar
    <3>4. Horizon(tradeType, at, entry)' = Horizon(tradeType, at, entry)
      BY <2>2 DEF Horizon, Holding
    <3>5. /\ scan + 1 \in (-count)..count /\ scan + 1 <= Horizon(tradeType, at, entry)
          /\ scan + 1 < count /\ at <= scan + 1
      BY <1>1, <2>2, <3>2, <3>3
    <3>6. TypeOKEngine'
      BY <1>1, <2>2, <3>1, <3>5 DEF Simulating, TypeOKEngine
    <3> QED
      BY <2>2, <3>1, <3>2, <3>4, <3>5, <3>6 DEF Simulating
  <2> QED
    BY <1>4, <2>1, <2>2, ScanSteps
<1>5. CASE Summarise \/ EngineRaises
  BY <1>5 DEF Summarise, EngineRaises, Simulating, TypeOKEngine
<1> QED
  BY <1>2, <1>3, <1>4, <1>5 DEF Simulate

LEMMA StartKeepsSimulating ==
    ASSUME Simulating, NEW n \in Nat, StartSimulation(n)
    PROVE  Simulating'
<1>1. /\ stage = "waiting" /\ count = 0 /\ at = 0 /\ trades = {} /\ entry = 0 /\ scan = 0
      /\ count' = n /\ stage' \in {"outer", "unsupported"}
      /\ UNCHANGED <<tradeType, holding, at, scan, entry, price, trades>>
  BY DEF StartSimulation, Simulating, TypeOKEngine
<1>2. 0 \in (-n)..n /\ (-count)..count \subseteq (-n)..n
  BY <1>1
<1>3. TypeOKEngine'
  BY <1>1, <1>2 DEF Simulating, TypeOKEngine
<1> QED
  BY <1>1, <1>3 DEF Simulating

LEMMA SimulatingAtFirst == EngineInit => Simulating
BY DEF EngineInit, Simulating, TypeOKEngine

LEMMA SimulatingStays ==
    ASSUME Simulating, UNCHANGED engineVars
    PROVE  Simulating'
BY DEF Simulating, TypeOKEngine, engineVars, Horizon, Holding, HoldsForward

-----------------------------------------------------------------------------
\* The pipeline: the position book.

\* The frame is the bars the book receives.
LEMMA StartIsReceive ==
    ASSUME Simulating, NEW n \in Nat \ {0}, StartSimulation(n)
    PROVE  Book!Receive
<1>1. /\ stage = "waiting" /\ count' = n /\ stage' \in {"outer", "unsupported"}
      /\ UNCHANGED <<tradeType, holding, at, scan, entry, price, trades>>
      /\ count = 0
  BY DEF StartSimulation, Simulating
<1>2. count - 1 = -1 /\ count' - 1 \in Nat
  BY <1>1
<1> QED
  BY <1>1, <1>2 DEF Book!Receive, HoldsForward

\* Closing a position is leaving it, at a bar not before the one reached.
LEMMA CloseIsLeave ==
    ASSUME Simulating, stage = "scan", NEW exit \in Int, Leaves(exit), NEW close \in Prices,
           Close(exit, close)
    PROVE  Book!Leave
<1> DEFINE profit == ProfitOf(tradeType, close, price[at], SideOf(entry))
           won == RecordsAWin(tradeType, close, price[at], SideOf(entry))
           grew == Grows(tradeType, close, price[at], SideOf(entry))
<1>1. trades' = trades \union {[entered |-> at, left |-> exit, profit |-> profit, won |-> won,
                                grew |-> grew]}
  BY DEF Close, Record
<1>2. /\ at' = exit + 1 /\ stage' = "outer" /\ entry' = 0 /\ UNCHANGED <<count, holding>>
  BY DEF Close, NextBar
<1>3. SideOf(entry) \in Side /\ price[at] \in Prices
  BY DEF SideOf, Side, Simulating, TypeOKEngine
<1>4. /\ profit \in {"none", "trace", "clear"} /\ won \in BOOLEAN /\ grew \in BOOLEAN
      /\ Book!Fair(profit, won, grew)
  BY <1>3, RecordIsFair
<1> HIDE DEF profit, won, grew
<1>5. /\ exit \in (IF HoldsForward THEN scan ELSE -((count - 1) + 1))..(count - 1)
      /\ at # NoBar /\ entry # 0
  BY EngineAssumption, EngineTypes DEF Simulating, Leaves
<1> QED
  BY <1>1, <1>2, <1>4, <1>5 DEF Book!Leave, HoldsForward

\* Every step of the simulation is one of the book's.
LEMMA SimulateIsBook ==
    ASSUME Simulating, Simulate
    PROVE  [Book!BookNext]_(Book!bookVars)
<1>1. at \in Int /\ count \in Nat /\ scan \in Int
  BY EngineTypes
<1>2. CASE SkipBar
  <2>1. at <= count - 1 /\ entry = 0
    BY <1>1, <1>2 DEF SkipBar, Simulating
  <2>2. Book!Pass
    BY <1>2, <2>1 DEF SkipBar, Book!Pass, HoldsForward
  <2> QED
    BY <2>2 DEF Book!BookNext
<1>3. ASSUME NEW s \in Signals, EnterAt(s)
      PROVE  [Book!BookNext]_(Book!bookVars)
  <2>1. at <= count - 1 /\ entry = 0
    BY <1>1, <1>3 DEF EnterAt, Simulating
  <2>2. Book!Enter
    BY <1>3, <2>1 DEF EnterAt, Book!Enter, HoldsForward
  <2> QED
    BY <2>2 DEF Book!BookNext
<1>4. CASE ScanBar \/ Expire
  <2>1. CASE \E exit \in Int, close \in Prices : Leaves(exit) /\ Close(exit, close)
    BY <1>4, <2>1, ScanSteps, CloseIsLeave DEF Book!BookNext
  <2>2. CASE /\ scan' = scan + 1 /\ scan < Horizon(tradeType, at, entry)
             /\ UNCHANGED <<count, tradeType, holding, stage, at, entry, trades>>
    <3>1. stage = "scan" /\ at < count /\ entry \in Signals /\ entry # 0
      BY <1>4, ScanSteps DEF Simulating, TypeOKEngine
    <3>2. Horizon(tradeType, at, entry) \in Int /\ Horizon(tradeType, at, entry) < count
      BY <3>1, HorizonIsABar
    <3>3. scan < count - 1 /\ scan <= count - 1
      BY <1>1, <2>2, <3>2
    <3>4. Book!Pass
      BY <2>2, <3>1, <3>3 DEF Book!Pass, HoldsForward
    <3> QED
      BY <3>4 DEF Book!BookNext
  <2> QED
    BY <1>4, <2>1, <2>2, ScanSteps
<1>5. CASE Summarise
  <2>1. /\ stage = "outer" /\ entry = 0 /\ at > count - 1 /\ stage' = "summary"
        /\ UNCHANGED <<count, tradeType, holding, at, scan, entry, price, trades>>
    BY <1>1, <1>5 DEF Summarise, Simulating
  <2>2. WinningTrades' = Cardinality({t \in trades : t.won})
    BY <2>1 DEF WinningTrades
  <2>3. Book!CountWins
    BY <2>1, <2>2 DEF Book!CountWins, Book!Cardinality, Cardinality, HoldsForward
  <2> QED
    BY <2>3 DEF Book!BookNext
<1>6. CASE EngineRaises
  <2>1. /\ stage \in {"outer", "scan"} /\ stage' = "failed"
        /\ UNCHANGED <<count, tradeType, holding, at, scan, entry, price, trades>>
    BY <1>6 DEF EngineRaises
  <2>2. UNCHANGED Book!bookVars
    BY <2>1 DEF Book!bookVars, HoldsForward
  <2> QED
    BY <2>2
<1> QED
  BY <1>2, <1>3, <1>4, <1>5, <1>6 DEF Simulate

-----------------------------------------------------------------------------
\* The pipeline: what holds of it.

Running == Fetching /\ NoneForgotten /\ PagesJoin /\ FrameIsComplete /\ Simulating

LEMMA PipelineSteps ==
    ASSUME Running, [PipelineNext]_pipelineVars
    PROVE  /\ [FetchNext]_fetchVars
           /\ \/ UNCHANGED engineVars \/ Simulate
              \/ \E n \in Nat \ {0} : StartSimulation(n)
<1>1. CASE UNCHANGED pipelineVars
  BY <1>1 DEF pipelineVars
<1>2. CASE Hand
  <2>1. phase = "fetched" /\ StartSimulation(Cardinality(frame)) /\ UNCHANGED fetchVars
    BY <1>2 DEF Hand
  <2>2. Cardinality(frame) \in Nat /\ Cardinality(frame) # 0
    BY <2>1, FS_CardinalityType, MarketDataAssumption DEF Running, Fetching
  <2> QED
    BY <2>1, <2>2
<1> QED
  BY <1>1, <1>2 DEF PipelineNext

LEMMA RunningStays ==
    ASSUME Running, [PipelineNext]_pipelineVars
    PROVE  Running'
<1>1. [FetchNext]_fetchVars
  BY PipelineSteps
<1>2. Fetching' /\ NoneForgotten'
  BY <1>1, FetchKeepsFetching DEF Running
<1>3. PagesJoin' /\ FrameIsComplete'
  BY <1>1, FetchJoins DEF Running
<1>4. Simulating'
  <2>1. CASE UNCHANGED engineVars
    BY <2>1, SimulatingStays DEF Running
  <2>2. CASE Simulate
    BY <2>2, SimulateKeepsSimulating DEF Running
  <2>3. ASSUME NEW n \in Nat \ {0}, StartSimulation(n)
        PROVE  Simulating'
    BY <2>3, StartKeepsSimulating DEF Running
  <2> QED
    BY <2>1, <2>2, <2>3, PipelineSteps
<1> QED
  BY <1>2, <1>3, <1>4 DEF Running

LEMMA RunningInvariant == PipelineSpec => []Running
<1>1. PipelineInit => Running
  <2> SUFFICES ASSUME PipelineInit
               PROVE  Running
    OBVIOUS
  <2>1. Fetching /\ NoneForgotten /\ Simulating
    BY FetchingAtFirst, SimulatingAtFirst DEF PipelineInit
  <2>2. PagesJoin /\ FrameIsComplete
    BY DEF PipelineInit, FetchInit, PagesJoin, FrameIsComplete
  <2> QED
    BY <2>1, <2>2 DEF Running
<1> QED
  BY <1>1, RunningStays, PTL DEF PipelineSpec

\* Every reachable state of the fetch and the simulation is type-correct, for any histories of
\* the providers, page sizes, ranges, signals and prices.
THEOREM PipelineTypeCorrect == PipelineSpec => []TypeOKPipeline
<1>1. Running => TypeOKPipeline
  BY DEF Running, Fetching, Simulating, TypeOKPipeline
<1> QED
  BY <1>1, RunningInvariant, PTL

\* The frame of a range is the whole of what the book that served it holds there: the pages
\* of Binance join without a gap, and what an attempt or a provider given up on has left
\* over is never in it.
THEOREM FramesAreComplete == PipelineSpec => []FrameIsComplete
<1>1. Running => FrameIsComplete
  BY DEF Running
<1> QED
  BY <1>1, RunningInvariant, PTL

\* A fetch fails only when each of the three providers was given up, in whichever order they
\* were asked and whatever each of them answered.
THEOREM EveryProviderIsAsked == PipelineSpec => []FallbackIsExhaustive
<1>1. Running => FallbackIsExhaustive
  <2> SUFFICES ASSUME Running, phase = "raised"
               PROVE  \A p \in Providers : \E why \in Reasons : <<p, why>> \in failures
    BY DEF FallbackIsExhaustive, Reasons
  <2>1. DOMAIN queue = {}
    BY DEF Running, Fetching
  <2> QED
    BY <2>1 DEF Running, NoneForgotten, Reasons
<1> QED
  BY <1>1, RunningInvariant, PTL

\* The simulation is a walk of a position book over the frame: its steps are the book's, and
\* the wins it counts leave out no clear profit and take in no loss.
THEOREM SimulationIsABook == PipelineSpec => ImplementsBook
<1>1. PipelineInit => Book!BookInit
  <2> SUFFICES ASSUME PipelineInit
               PROVE  Book!BookInit
    OBVIOUS
  <2>1. stage = "waiting" /\ count = 0 /\ at = 0 /\ entry = 0 /\ trades = {}
    BY DEF PipelineInit, EngineInit
  <2> QED
    BY <2>1 DEF Book!BookInit, HoldsForward
<1>2. ASSUME Running, [PipelineNext]_pipelineVars
      PROVE  [Book!BookNext]_(Book!bookVars)
  <2>1. CASE UNCHANGED engineVars
    BY <2>1 DEF engineVars, Book!bookVars, WinningTrades, HoldsForward
  <2>2. CASE Simulate
    BY <1>2, <2>2, SimulateIsBook DEF Running
  <2>3. ASSUME NEW n \in Nat \ {0}, StartSimulation(n)
        PROVE  Book!BookNext
    BY <1>2, <2>3, StartIsReceive DEF Running, Book!BookNext
  <2> QED
    BY <1>2, <2>1, <2>2, <2>3, PipelineSteps
<1> QED
  BY <1>1, <1>2, RunningInvariant, PTL DEF PipelineSpec, ImplementsBook, Book!BookSpec

=============================================================================
