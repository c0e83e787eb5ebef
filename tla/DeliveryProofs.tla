--------------------------- MODULE DeliveryProofs ---------------------------
(* Theorems about Delivery, for every set of rows, channels and jobs. *)
EXTENDS Delivery, FiniteSetTheorems, TLAPS

Jobs == Signals \union RetryJobs

-----------------------------------------------------------------------------
(* Types. *)

\* A part of the state no statement touches keeps its type.
LEMMA KeptTypes ==
    TypeOK => /\ UNCHANGED rowVars => RowTypeOK'
              /\ UNCHANGED deliver => DeliverTypeOK'
              /\ UNCHANGED retry => RetryTypeOK'
              /\ UNCHANGED breakerVars => BreakerTypeOK'
              /\ UNCHANGED history => HistoryTypeOK'
              /\ UNCHANGED faultVars => FaultTypeOK'
  BY DEF TypeOK, RowTypeOK, DeliverTypeOK, RetryTypeOK, BreakerTypeOK, HistoryTypeOK,
         FaultTypeOK, rowVars, breakerVars, history, faultVars

\* The statements on a row, and the end of a transaction, keep the rows' types.
LEMMA RowStatementTypes ==
    ASSUME TypeOK, NEW job \in Jobs
    PROVE  /\ \A d \in Deliveries, status \in Status :
                 UpdateStatus(job, d, status) /\ UNCHANGED row => RowTypeOK'
           /\ Commit(job) => RowTypeOK'
           /\ Rollback(job) => RowTypeOK'
<1> USE DEF TypeOK, RowTypeOK, Draft, NoDraft, Jobs
<1>1. \A d \in Deliveries, status \in Status :
         UpdateStatus(job, d, status) /\ UNCHANGED row => RowTypeOK'
  BY DEF UpdateStatus
<1>2. Commit(job) => RowTypeOK'
  BY DEF Commit, Row, Status
<1>3. Rollback(job) => RowTypeOK'
  BY DEF Rollback, Status
<1> QED
  BY <1>1, <1>2, <1>3

LEMMA QueueTypes ==
    ASSUME TypeOK, NEW d \in Deliveries
    PROVE  EnqueueRetry(d, 1) => RetryTypeOK'
  BY DEF TypeOK, RetryTypeOK, EnqueueRetry, QueuedRetry, RetryJob

LEMMA BreakerTypes ==
    ASSUME TypeOK, NEW c \in Channels
    PROVE  RecordSuccess(c) \/ RecordFailure(c) => BreakerTypeOK'
<1>1. RecordSuccess(c) \/ RecordFailure(c) => failures' \in [Channels -> Nat]
  BY DEF TypeOK, BreakerTypeOK, RecordSuccess, RecordFailure
<1>2. RecordSuccess(c) \/ RecordFailure(c) => open' \in [Channels -> BOOLEAN]
  BY Zenon DEF TypeOK, BreakerTypeOK, RecordSuccess, RecordFailure
<1> QED
  BY <1>1, <1>2 DEF BreakerTypeOK

LEMMA StoppedTypes ==
    ASSUME TypeOK, NEW s \in Signals, NEW phase \in {"queued", "done"},
           deliver' = [deliver EXCEPT ![s] = Stopped(@, phase)]
    PROVE  DeliverTypeOK'
  BY DeliveryAssumption DEF TypeOK, DeliverTypeOK, Stopped, DeliverJob

\* Every variable keeps its type, and a job holds a row to work on exactly while it
\* sends or records.
THEOREM TypeCorrect == Spec => []TypeOK
<1>1. Init => TypeOK
  BY DeliveryAssumption DEF Init, TypeOK, RowTypeOK, DeliverTypeOK, RetryTypeOK,
     BreakerTypeOK, HistoryTypeOK, FaultTypeOK, Row, Status, Draft, NoDraft, DeliverJob,
     RetryJob, FreeJob
<1>2. TypeOK /\ [Next]_vars => TypeOK'
  <2> SUFFICES ASSUME TypeOK, [Next]_vars PROVE TypeOK'
    OBVIOUS
  <2>0. TypeOK' <=> RowTypeOK' /\ DeliverTypeOK' /\ RetryTypeOK' /\ BreakerTypeOK'
                    /\ HistoryTypeOK' /\ FaultTypeOK'
    BY DEF TypeOK
  <2>1. ASSUME NEW s \in Signals, DeliverStart(s) PROVE TypeOK'
    <3> DEFINE pending == {d \in DeliveriesOf(s) : row[d].status = "pending"}
    <3>1. pending \in SUBSET Deliveries
      BY DEF DeliveriesOf
    <3>2. PICK p \in {"done", "loop"} :
             deliver' = [deliver EXCEPT ![s].phase = p, ![s].tries = @ + 1,
                                        ![s].todo = pending]
      BY <2>1 DEF DeliverStart
    <3>4. deliver[s].phase = "queued"
      BY <2>1 DEF DeliverStart
    <3> HIDE DEF pending
    <3>3. DeliverTypeOK'
      BY <3>1, <3>2, <3>4 DEF TypeOK, DeliverTypeOK, DeliverJob
    <3> QED BY <3>3, <2>0, <2>1, KeptTypes DEF DeliverStart
  <2>2. ASSUME NEW s \in Signals, NEW d \in Deliveries, DeliverSkipsMissing(s, d)
        PROVE  TypeOK'
    <3>1. DeliverTypeOK'
      BY <2>2 DEF DeliverSkipsMissing, Turn, TypeOK, DeliverTypeOK, DeliverJob
    <3> QED BY <3>1, <2>0, <2>2, KeptTypes DEF DeliverSkipsMissing
  <2>3. ASSUME NEW s \in Signals, NEW d \in Deliveries, DeliverFilters(s, d)
        PROVE  TypeOK'
    <3>1. DeliverTypeOK'
      BY <2>3 DEF DeliverFilters, Turn, TypeOK, DeliverTypeOK, DeliverJob
    <3> QED BY <3>1, <2>0, <2>3, KeptTypes DEF DeliverFilters
  <2>4. ASSUME NEW s \in Signals, NEW d \in Deliveries, DeliverPasses(s, d)
        PROVE  TypeOK'
    <3>1. DeliverTypeOK'
      BY <2>4 DEF DeliverPasses, Turn, TypeOK, DeliverTypeOK, DeliverJob
    <3> QED BY <3>1, <2>0, <2>4, KeptTypes DEF DeliverPasses
  <2>5. ASSUME NEW s \in Signals, DeliverSend(s) PROVE TypeOK'
    <3>1. DeliverTypeOK'
      BY <2>5 DEF DeliverSend, TypeOK, DeliverTypeOK, DeliverJob
    <3>2. ChannelOf[deliver[s].cur] \in Channels
      BY <2>5, DeliveryAssumption DEF DeliverSend, TypeOK, DeliverTypeOK
    <3>3. BreakerTypeOK'
      BY <3>2, <2>5, BreakerTypes DEF DeliverSend
    <3>4. HistoryTypeOK' /\ FaultTypeOK'
      BY <2>5, DeliveryAssumption DEF DeliverSend, TypeOK, HistoryTypeOK, FaultTypeOK
    <3> QED BY <3>1, <3>3, <3>4, <2>0, <2>5, KeptTypes DEF DeliverSend
  <2>6. ASSUME NEW s \in Signals, DeliverMark(s) PROVE TypeOK'
    <3>1. deliver[s].cur \in Deliveries
      BY <2>6 DEF DeliverMark, TypeOK, DeliverTypeOK
    <3>2. DeliverTypeOK'
      BY <2>6, DeliveryAssumption DEF DeliverMark, TypeOK, DeliverTypeOK, DeliverJob
    <3>3. RowTypeOK'
      BY <3>1, <2>6, RowStatementTypes DEF DeliverMark, Jobs, Status
    <3>4. RetryTypeOK'
      BY <3>1, <2>6, QueueTypes, KeptTypes DEF DeliverMark
    <3>5. FaultTypeOK'
      BY <2>6, DeliveryAssumption DEF DeliverMark, TypeOK, FaultTypeOK
    <3> QED BY <3>2, <3>3, <3>4, <3>5, <2>0, <2>6, KeptTypes DEF DeliverMark
  <2>7. ASSUME NEW s \in Signals, DeliverCommit(s) PROVE TypeOK'
    <3>1. DeliverTypeOK'
      BY <2>7 DEF DeliverCommit, TypeOK, DeliverTypeOK, DeliverJob
    <3> QED BY <3>1, <2>0, <2>7, KeptTypes, RowStatementTypes DEF DeliverCommit, Jobs
  <2>8. ASSUME NEW s \in Signals, DeliverDies(s) PROVE TypeOK'
    <3>1. DeliverTypeOK'
      BY <2>8, StoppedTypes DEF DeliverDies, AfterDeath
    <3>2. FaultTypeOK'
      BY <2>8, DeliveryAssumption DEF DeliverDies, TypeOK, FaultTypeOK
    <3> QED BY <3>1, <3>2, <2>0, <2>8, KeptTypes, RowStatementTypes DEF DeliverDies, Jobs
  <2>9. ASSUME NEW s \in Signals, DeliverRaises(s) PROVE TypeOK'
    <3>1. DeliverTypeOK'
      BY <2>9, StoppedTypes DEF DeliverRaises
    <3>2. FaultTypeOK'
      BY <2>9, DeliveryAssumption DEF DeliverRaises, TypeOK, FaultTypeOK
    <3> QED BY <3>1, <3>2, <2>0, <2>9, KeptTypes, RowStatementTypes DEF DeliverRaises, Jobs
  <2>10. ASSUME NEW s \in Signals, DeliverStatementFails(s) PROVE TypeOK'
    <3>1. /\ deliver[s].cur \in Deliveries
          /\ ChannelOf[deliver[s].cur] \in Channels
      BY <2>10, DeliveryAssumption DEF DeliverStatementFails, TypeOK, DeliverTypeOK
    <3>2. DeliverTypeOK'
      BY <2>10, StoppedTypes DEF DeliverStatementFails
    <3>3. RetryTypeOK' /\ BreakerTypeOK'
      BY <3>1, <2>10, QueueTypes, BreakerTypes DEF DeliverStatementFails
    <3>4. FaultTypeOK'
      BY <2>10, DeliveryAssumption DEF DeliverStatementFails, TypeOK, FaultTypeOK
    <3> QED BY <3>2, <3>3, <3>4, <2>0, <2>10, KeptTypes, RowStatementTypes
            DEF DeliverStatementFails, Jobs
  <2>11. ASSUME NEW r \in RetryJobs, RetrySkips(r) PROVE TypeOK'
    <3>1. RetryTypeOK'
      BY <2>11, DeliveryAssumption DEF RetrySkips, TypeOK, RetryTypeOK, FreeJob, RetryJob
    <3> QED BY <3>1, <2>0, <2>11, KeptTypes DEF RetrySkips
  <2>12. ASSUME NEW r \in RetryJobs, RetryStart(r) PROVE TypeOK'
    <3>1. RetryTypeOK'
      BY <2>12 DEF RetryStart, TypeOK, RetryTypeOK, RetryJob
    <3> QED BY <3>1, <2>0, <2>12, KeptTypes DEF RetryStart
  <2>13. ASSUME NEW r \in RetryJobs, RetrySend(r) PROVE TypeOK'
    <3>1. RetryTypeOK'
      BY <2>13 DEF RetrySend, TypeOK, RetryTypeOK, RetryJob
    <3>2. HistoryTypeOK'
      BY <2>13 DEF RetrySend, TypeOK, HistoryTypeOK
    <3> QED BY <3>1, <3>2, <2>0, <2>13, KeptTypes DEF RetrySend
  <2>14. ASSUME NEW r \in RetryJobs, RetryMarksSent(r) PROVE TypeOK'
    <3>1. RetryTypeOK'
      BY <2>14 DEF RetryMarksSent, TypeOK, RetryTypeOK, RetryJob
    <3>2. retry[r].delivery \in Deliveries
      BY <2>14 DEF RetryMarksSent, TypeOK, RetryTypeOK
    <3>3. RowTypeOK'
      BY <3>2, <2>14, RowStatementTypes DEF RetryMarksSent, Jobs, Status
    <3> QED BY <3>1, <3>3, <2>0, <2>14, KeptTypes DEF RetryMarksSent
  <2>15. ASSUME NEW r \in RetryJobs, RetryReschedules(r) PROVE TypeOK'
    <3>1. RetryTypeOK'
      BY <2>15 DEF RetryReschedules, QueuedRetry, TypeOK, RetryTypeOK, RetryJob
    <3>2. retry[r].delivery \in Deliveries
      BY <2>15 DEF RetryReschedules, TypeOK, RetryTypeOK
    <3>3. RowTypeOK'
      BY <3>2, <2>15, RowStatementTypes DEF RetryReschedules, Jobs, Status
    <3> QED BY <3>1, <3>3, <2>0, <2>15, KeptTypes DEF RetryReschedules
  <2>16. ASSUME NEW r \in RetryJobs, RetryGivesUp(r) PROVE TypeOK'
    <3>1. RetryTypeOK'
      BY <2>16 DEF RetryGivesUp, TypeOK, RetryTypeOK, RetryJob
    <3>2. retry[r].delivery \in Deliveries
      BY <2>16 DEF RetryGivesUp, TypeOK, RetryTypeOK
    <3>3. RowTypeOK'
      BY <3>2, <2>16, RowStatementTypes DEF RetryGivesUp, Jobs, Status
    <3> QED BY <3>1, <3>3, <2>0, <2>16, KeptTypes DEF RetryGivesUp
  <2>17. ASSUME NEW r \in RetryJobs, RetryCommit(r) PROVE TypeOK'
    <3>1. RetryTypeOK'
      BY <2>17, DeliveryAssumption DEF RetryCommit, FreeJob, TypeOK, RetryTypeOK, RetryJob
    <3> QED BY <3>1, <2>0, <2>17, KeptTypes, RowStatementTypes DEF RetryCommit, Jobs
  <2>18. ASSUME NEW r \in RetryJobs, RetryDies(r) PROVE TypeOK'
    <3>1. RetryTypeOK'
      BY <2>18, DeliveryAssumption
         DEF RetryDies, RetryRunning, FreeJob, TypeOK, RetryTypeOK, RetryJob
    <3>2. FaultTypeOK'
      BY <2>18, DeliveryAssumption DEF RetryDies, TypeOK, FaultTypeOK
    <3> QED BY <3>1, <3>2, <2>0, <2>18, KeptTypes, RowStatementTypes DEF RetryDies, Jobs
  <2>19. ASSUME NEW r \in RetryJobs, RetryRaises(r) PROVE TypeOK'
    <3>1. RetryTypeOK'
      BY <2>19, DeliveryAssumption DEF RetryRaises, FreeJob, TypeOK, RetryTypeOK, RetryJob
    <3>2. FaultTypeOK'
      BY <2>19, DeliveryAssumption DEF RetryRaises, TypeOK, FaultTypeOK
    <3> QED BY <3>1, <3>2, <2>0, <2>19, KeptTypes, RowStatementTypes DEF RetryRaises, Jobs
  <2>20. ASSUME NEW d \in Deliveries, DeleteRow(d) PROVE TypeOK'
    <3>1. RowTypeOK' /\ FaultTypeOK'
      BY <2>20, DeliveryAssumption DEF DeleteRow, TypeOK, RowTypeOK, FaultTypeOK, Row
    <3> QED BY <3>1, <2>0, <2>20, KeptTypes DEF DeleteRow
  <2>21. ASSUME NEW c \in Channels, WindowExpires(c) \/ RecoveryTimeout(c) PROVE TypeOK'
    <3>1. failures' \in [Channels -> Nat]
      BY <2>21 DEF WindowExpires, RecoveryTimeout, TypeOK, BreakerTypeOK
    <3>2. open' \in [Channels -> BOOLEAN]
      BY <2>21, Zenon DEF WindowExpires, RecoveryTimeout, TypeOK, BreakerTypeOK
    <3>3. BreakerTypeOK'
      BY <3>1, <3>2 DEF BreakerTypeOK
    <3> QED BY <3>3, <2>0, <2>21, KeptTypes DEF WindowExpires, RecoveryTimeout
  <2>22. CASE UNCHANGED vars
    BY <2>22, <2>0, KeptTypes DEF vars, rowVars, breakerVars, history, faultVars
  <2> QED
    BY <2>1, <2>2, <2>3, <2>4, <2>5, <2>6, <2>7, <2>8, <2>9, <2>10, <2>11, <2>12, <2>13,
       <2>14, <2>15, <2>16, <2>17, <2>18, <2>19, <2>20, <2>21, <2>22
    DEF Next, DeliverStep, RetryStep
<1> QED
  BY <1>1, <1>2, PTL DEF Spec

-----------------------------------------------------------------------------
(* What is recorded agrees with what the channels did. *)

LEMMA MaxAttemptsType == \A c \in Channels : MaxAttempts(c) \in Nat \ {0}
  BY DeliveryAssumption DEF MaxAttempts

Grow == \A d \in Deliveries : acked[d] <= acked'[d] /\ rejected[d] <= rejected'[d]

\* Only a send changes the history, and it only adds to it.
LEMMA HistoryGrows == TypeOK /\ [Next]_vars => Grow
<1> SUFFICES ASSUME TypeOK, [Next]_vars PROVE Grow
  OBVIOUS
<1> USE DEF TypeOK, HistoryTypeOK, Grow
<1>1. CASE UNCHANGED history
  BY <1>1 DEF history
<1>2. CASE \E s \in Signals : DeliverSend(s)
  BY <1>2 DEF DeliverSend
<1>3. CASE \E r \in RetryJobs : RetrySend(r)
  BY <1>3 DEF RetrySend
<1>4. \/ UNCHANGED history
      \/ \E s \in Signals : DeliverSend(s)
      \/ \E r \in RetryJobs : RetrySend(r)
  <2>1. ASSUME NEW s \in Signals,
               \/ DeliverStep(s) \/ DeliverDies(s)
               \/ DeliverRaises(s) \/ DeliverStatementFails(s)
        PROVE  UNCHANGED history \/ DeliverSend(s)
    BY <2>1 DEF DeliverStep, DeliverStart, DeliverSkipsMissing, DeliverFilters, DeliverPasses,
                DeliverMark, DeliverCommit, DeliverDies, DeliverRaises, DeliverStatementFails
  <2>2. ASSUME NEW r \in RetryJobs, RetryStep(r) \/ RetryDies(r) \/ RetryRaises(r)
        PROVE  UNCHANGED history \/ RetrySend(r)
    BY <2>2 DEF RetryStep, RetrySkips, RetryStart, RetryMarksSent, RetryReschedules,
                RetryGivesUp, RetryCommit, RetryDies, RetryRaises
  <2>3. ASSUME NEW d \in Deliveries, DeleteRow(d) PROVE UNCHANGED history
    BY <2>3 DEF DeleteRow
  <2>4. ASSUME NEW c \in Channels, WindowExpires(c) \/ RecoveryTimeout(c)
        PROVE  UNCHANGED history
    BY <2>4 DEF WindowExpires, RecoveryTimeout
  <2>5. CASE UNCHANGED vars
    BY <2>5 DEF vars, history
  <2> QED
    BY <2>1, <2>2, <2>3, <2>4, <2>5 DEF Next
<1> QED
  BY <1>1, <1>2, <1>3, <1>4

\* More history never takes evidence away.
LEMMA KeptEvidence ==
    ASSUME TypeOK, TypeOK', Evidence, Grow
    PROVE  /\ UNCHANGED rowVars => RowEvidence'
           /\ UNCHANGED deliver => DeliverEvidence'
           /\ UNCHANGED retry => RetryEvidence'
<1> USE DeliveryAssumption, MaxAttemptsType DEF TypeOK, HistoryTypeOK, Evidence, Grow
<1>1. UNCHANGED rowVars => RowEvidence'
  BY DEF RowEvidence, rowVars, Unlocked
<1>2. UNCHANGED deliver => DeliverEvidence'
  BY DEF DeliverEvidence, DeliverTypeOK
<1>3. UNCHANGED retry => RetryEvidence'
  BY DEF RetryEvidence, RetryTypeOK, RetryJob
<1> QED
  BY <1>1, <1>2, <1>3

\* An UPDATE that is entitled to its status leaves a row whose lock is entitled to it.
LEMMA UpdateEvidence ==
    ASSUME TypeOK, Evidence, UNCHANGED <<row, history>>,
           NEW job \in Jobs, NEW d \in Deliveries, NEW status \in Status,
           UpdateStatus(job, d, status),
           status = "sent" => acked[d] > 0,
           status = "dlq" => rejected[d] >= MaxAttempts(ChannelOf[d])
    PROVE  RowEvidence'
  BY DEF TypeOK, RowTypeOK, Evidence, RowEvidence, UpdateStatus, Unlocked, Draft, history

LEMMA CommitEvidence ==
    ASSUME TypeOK, Evidence, UNCHANGED history, NEW job \in Jobs,
           Commit(job) \/ Rollback(job)
    PROVE  RowEvidence'
  BY DeliveryAssumption
  DEF TypeOK, RowTypeOK, Evidence, RowEvidence, Commit, Rollback, Unlocked, Draft, NoDraft,
      Jobs, history

\* One step of the pipeline keeps the evidence.
LEMMA EvidenceStep == TypeOK /\ TypeOK' /\ Evidence /\ [Next]_vars => Evidence'
<1> SUFFICES ASSUME TypeOK, TypeOK', Evidence, [Next]_vars PROVE Evidence'
  OBVIOUS
<1>0. Grow /\ (Evidence' <=> RowEvidence' /\ DeliverEvidence' /\ RetryEvidence')
  BY HistoryGrows DEF Evidence
<1>1. ASSUME NEW s \in Signals, DeliverStart(s) PROVE Evidence'
  <2>1. \A t \in Signals : deliver'[t].phase = "mark" => deliver'[t] = deliver[t]
    <3>1. PICK p \in {"done", "loop"}, todo \in SUBSET Deliveries :
             deliver' = [deliver EXCEPT ![s].phase = p, ![s].tries = @ + 1, ![s].todo = todo]
      BY <1>1 DEF DeliverStart, DeliveriesOf
    <3> QED BY <3>1 DEF TypeOK, DeliverTypeOK, DeliverJob
  <2>2. DeliverEvidence'
    BY <2>1, <1>1 DEF DeliverStart, history, Evidence, DeliverEvidence
  <2> QED BY <2>2, <1>0, <1>1, KeptEvidence DEF DeliverStart
<1>2. ASSUME NEW s \in Signals, NEW d \in Deliveries,
             \/ DeliverSkipsMissing(s, d)
             \/ DeliverFilters(s, d)
             \/ DeliverPasses(s, d)
      PROVE  Evidence'
  <2>1. DeliverEvidence'
    <3>1. CASE DeliverSkipsMissing(s, d)
      BY <3>1 DEF DeliverSkipsMissing, Turn, history, Evidence, DeliverEvidence, TypeOK,
                  DeliverTypeOK, DeliverJob
    <3>2. CASE DeliverFilters(s, d)
      BY <3>2 DEF DeliverFilters, Turn, history, Evidence, DeliverEvidence, TypeOK,
                  DeliverTypeOK, DeliverJob
    <3>3. CASE DeliverPasses(s, d)
      BY <3>3 DEF DeliverPasses, Turn, history, Evidence, DeliverEvidence, TypeOK,
                  DeliverTypeOK, DeliverJob
    <3> QED BY <3>1, <3>2, <3>3, <1>2
  <2> QED BY <2>1, <1>0, <1>2, KeptEvidence
          DEF DeliverSkipsMissing, DeliverFilters, DeliverPasses
<1>3. ASSUME NEW s \in Signals, DeliverSend(s) PROVE Evidence'
  <2>1. deliver[s].cur \in Deliveries
    BY <1>3 DEF DeliverSend, TypeOK, DeliverTypeOK
  <2>2. DeliverEvidence'
    BY <2>1, <1>0, <1>3 DEF DeliverSend, Evidence, DeliverEvidence, TypeOK, DeliverTypeOK,
       DeliverJob, HistoryTypeOK, Grow
  <2> QED BY <2>2, <1>0, <1>3, KeptEvidence DEF DeliverSend
<1>4. ASSUME NEW s \in Signals, DeliverMark(s) PROVE Evidence'
  <2>1. deliver[s].cur \in Deliveries
    BY <1>4 DEF DeliverMark, TypeOK, DeliverTypeOK
  <2>2. DeliverEvidence'
    BY <1>4 DEF DeliverMark, history, Evidence, DeliverEvidence, TypeOK, DeliverTypeOK, DeliverJob
  <2>3. RowEvidence'
    <3> DEFINE status == IF deliver[s].outcome = "ok" THEN "sent" ELSE "failed"
    <3>1. /\ UNCHANGED <<row, history>>
          /\ UpdateStatus(s, deliver[s].cur, status)
          /\ deliver[s].phase = "mark"
      BY <1>4 DEF DeliverMark
    <3>2. /\ status \in Status
          /\ status = "sent" => acked[deliver[s].cur] > 0
          /\ status # "dlq"
      BY <3>1 DEF Status, Evidence, DeliverEvidence
    <3> HIDE DEF status
    <3> QED BY <3>1, <3>2, <2>1, UpdateEvidence DEF Jobs
  <2>4. RetryEvidence'
    <3>1. CASE UNCHANGED retry
      BY <3>1, <1>0, KeptEvidence
    <3>2. CASE EnqueueRetry(deliver[s].cur, 1)
      BY <3>2, <2>1, <1>4 DEF DeliverMark, EnqueueRetry, QueuedRetry, history, Evidence,
         RetryEvidence, TypeOK, RetryTypeOK, RetryJob, HistoryTypeOK
    <3> QED BY <3>1, <3>2, <1>4 DEF DeliverMark
  <2> QED BY <2>2, <2>3, <2>4, <1>0
<1>5. ASSUME NEW s \in Signals, DeliverCommit(s) PROVE Evidence'
  <2>1. DeliverEvidence'
    BY <1>5 DEF DeliverCommit, history, Evidence, DeliverEvidence, TypeOK, DeliverTypeOK, DeliverJob
  <2> QED BY <2>1, <1>0, <1>5, KeptEvidence, CommitEvidence DEF DeliverCommit, Jobs
<1>6. ASSUME NEW s \in Signals,
             DeliverDies(s) \/ DeliverRaises(s) \/ DeliverStatementFails(s)
      PROVE  Evidence'
  <2>1. /\ UNCHANGED history
        /\ Rollback(s)
        /\ \E phase \in {"queued", "done"} :
              deliver' = [deliver EXCEPT ![s] = Stopped(@, phase)]
    BY <1>6 DEF DeliverDies, DeliverRaises, DeliverStatementFails, AfterDeath
  <2>2. DeliverEvidence'
    BY <2>1 DEF Stopped, history, Evidence, DeliverEvidence, TypeOK, DeliverTypeOK
  <2>3. RowEvidence'
    BY <2>1, CommitEvidence DEF Jobs
  <2>4. RetryEvidence'
    <3>1. CASE UNCHANGED retry
      BY <3>1, <1>0, KeptEvidence
    <3>2. CASE DeliverStatementFails(s)
      <4>1. deliver[s].cur \in Deliveries /\ EnqueueRetry(deliver[s].cur, 1)
        BY <3>2 DEF DeliverStatementFails, TypeOK, DeliverTypeOK
      <4> QED BY <4>1, <2>1 DEF EnqueueRetry, QueuedRetry, history, Evidence,
                 RetryEvidence, TypeOK, RetryTypeOK, RetryJob, HistoryTypeOK
    <3> QED BY <3>1, <3>2, <1>6 DEF DeliverDies, DeliverRaises
  <2> QED BY <2>2, <2>3, <2>4, <1>0
<1>7. ASSUME NEW r \in RetryJobs, RetrySkips(r) PROVE Evidence'
  <2>1. RetryEvidence'
    BY <1>7 DEF RetrySkips, FreeJob, history, Evidence, RetryEvidence, TypeOK, RetryTypeOK, RetryJob
  <2> QED BY <2>1, <1>0, <1>7, KeptEvidence DEF RetrySkips
<1>8. ASSUME NEW r \in RetryJobs, RetryStart(r) PROVE Evidence'
  <2>1. RetryEvidence'
    BY <1>8 DEF RetryStart, history, Evidence, RetryEvidence, TypeOK, RetryTypeOK, RetryJob
  <2> QED BY <2>1, <1>0, <1>8, KeptEvidence DEF RetryStart
<1>9. ASSUME NEW r \in RetryJobs, RetrySend(r) PROVE Evidence'
  <2>1. retry[r].delivery \in Deliveries
    BY <1>9 DEF RetrySend, TypeOK, RetryTypeOK
  <2>2. RetryEvidence'
    BY <2>1, <1>0, <1>9 DEF RetrySend, Evidence, RetryEvidence, TypeOK, RetryTypeOK,
       RetryJob, HistoryTypeOK, Grow
  <2> QED BY <2>2, <1>0, <1>9, KeptEvidence DEF RetrySend
<1>10. ASSUME NEW r \in RetryJobs, RetryMarksSent(r) PROVE Evidence'
  <2>1. retry[r].delivery \in Deliveries
    BY <1>10 DEF RetryMarksSent, TypeOK, RetryTypeOK
  <2>2. RetryEvidence'
    BY <1>10 DEF RetryMarksSent, history, Evidence, RetryEvidence, TypeOK, RetryTypeOK, RetryJob
  <2>3. acked[retry[r].delivery] > 0
    BY <1>10 DEF RetryMarksSent, Evidence, RetryEvidence
  <2>4. RowEvidence'
    BY <2>1, <2>3, <1>10, UpdateEvidence DEF RetryMarksSent, Jobs, Status
  <2> QED BY <2>2, <2>4, <1>0, <1>10, KeptEvidence DEF RetryMarksSent
<1>11. ASSUME NEW r \in RetryJobs, RetryReschedules(r) PROVE Evidence'
  <2>1. retry[r].delivery \in Deliveries
    BY <1>11 DEF RetryReschedules, TypeOK, RetryTypeOK
  <2>2. rejected[retry[r].delivery] >= retry[r].attempt
    BY <1>11 DEF RetryReschedules, Evidence, RetryEvidence
  <2>3. RetryEvidence'
    BY <2>1, <2>2, <1>11 DEF RetryReschedules, QueuedRetry, history, Evidence, RetryEvidence,
       TypeOK, RetryTypeOK, RetryJob, HistoryTypeOK
  <2>4. RowEvidence'
    BY <2>1, <1>11, UpdateEvidence DEF RetryReschedules, Jobs, Status
  <2> QED BY <2>3, <2>4, <1>0, <1>11, KeptEvidence DEF RetryReschedules
<1>12. ASSUME NEW r \in RetryJobs, RetryGivesUp(r) PROVE Evidence'
  <2>1. /\ retry[r].delivery \in Deliveries
        /\ retry[r].attempt \in Nat
    BY <1>12 DEF RetryGivesUp, TypeOK, RetryTypeOK, RetryJob
  <2>2. rejected[retry[r].delivery] >= retry[r].attempt
    BY <1>12 DEF RetryGivesUp, Evidence, RetryEvidence
  <2>3. RetryEvidence'
    BY <1>12 DEF RetryGivesUp, history, Evidence, RetryEvidence, TypeOK, RetryTypeOK, RetryJob
  <2>4. rejected[retry[r].delivery] >= MaxAttempts(ChannelOf[retry[r].delivery])
    BY <2>1, <2>2, <1>12, MaxAttemptsType, DeliveryAssumption
       DEF RetryGivesUp, TypeOK, HistoryTypeOK
  <2>5. RowEvidence'
    BY <2>1, <2>4, <1>12, UpdateEvidence DEF RetryGivesUp, Jobs, Status
  <2> QED BY <2>3, <2>5, <1>0, <1>12, KeptEvidence DEF RetryGivesUp
<1>13. ASSUME NEW r \in RetryJobs, RetryCommit(r) PROVE Evidence'
  <2>1. RetryEvidence'
    BY <1>13 DEF RetryCommit, FreeJob, history, Evidence, RetryEvidence, TypeOK, RetryTypeOK, RetryJob
  <2> QED BY <2>1, <1>0, <1>13, KeptEvidence, CommitEvidence DEF RetryCommit, Jobs
<1>14. ASSUME NEW r \in RetryJobs, RetryDies(r) \/ RetryRaises(r) PROVE Evidence'
  <2>1. RetryEvidence'
    BY <1>14 DEF RetryDies, RetryRaises, RetryRunning, FreeJob, history, Evidence,
       RetryEvidence, TypeOK, RetryTypeOK, RetryJob
  <2> QED BY <2>1, <1>0, <1>14, KeptEvidence, CommitEvidence DEF RetryDies, RetryRaises, Jobs
<1>15. ASSUME NEW d \in Deliveries, DeleteRow(d) PROVE Evidence'
  <2>1. RowEvidence'
    BY <1>15 DEF DeleteRow, Unlocked, history, Evidence, RowEvidence, TypeOK, RowTypeOK, Row, Status
  <2> QED BY <2>1, <1>0, <1>15, KeptEvidence DEF DeleteRow
<1>16. ASSUME NEW c \in Channels, WindowExpires(c) \/ RecoveryTimeout(c) PROVE Evidence'
  BY <1>16, <1>0, KeptEvidence DEF WindowExpires, RecoveryTimeout
<1>17. CASE UNCHANGED vars
  BY <1>17, <1>0, KeptEvidence DEF vars, rowVars
<1> QED
  BY <1>1, <1>2, <1>3, <1>4, <1>5, <1>6, <1>7, <1>8, <1>9, <1>10, <1>11, <1>12, <1>13,
     <1>14, <1>15, <1>16, <1>17 DEF Next, DeliverStep, RetryStep

LEMMA EvidenceInvariant == Spec => []Evidence
<1>1. Init => Evidence
  BY DEF Init, Evidence, RowEvidence, DeliverEvidence, RetryEvidence, Unlocked, NoDraft, FreeJob
<1>2. TypeOK /\ TypeOK' /\ Evidence /\ [Next]_vars => Evidence'
  BY EvidenceStep
<1> QED
  BY <1>1, <1>2, TypeCorrect, PTL DEF Spec

\* A row recorded sent had a message its channel accepted, through every crash,
\* replay, rollback and race of retries with the fan-out.
THEOREM SentRowsWereAcked == Spec => []SentWasAcked
<1>1. Evidence => SentWasAcked
  BY DEF Evidence, RowEvidence, SentWasAcked
<1> QED
  BY <1>1, EvidenceInvariant, PTL

\* A row is in the dead-letter queue only after as many failed sends as its channel
\* allows retries.
THEOREM DlqRowsWereTried == Spec => []DlqOnlyAfterAllAttempts
<1>1. Evidence => DlqOnlyAfterAllAttempts
  BY DEF Evidence, RowEvidence, DlqOnlyAfterAllAttempts
<1> QED
  BY <1>1, EvidenceInvariant, PTL

-----------------------------------------------------------------------------
(* The life cycle of the rows. *)

\* Seen from outside, a step leaves rows and channels alone, is a message a channel
\* accepts, the commit of one job, or the deletion of a row.
Kinds ==
    \/ row' = row /\ acked' = acked
    \/ row' = row /\ \E d \in Deliveries : acked' = [acked EXCEPT ![d] = @ + 1]
    \/ acked' = acked /\ \E job \in Jobs : Commit(job)
    \/ \E d \in Deliveries : DeleteRow(d)

LEMMA StepKinds == TypeOK /\ [Next]_vars => Kinds
<1> SUFFICES ASSUME TypeOK, [Next]_vars PROVE Kinds
  OBVIOUS
<1> USE DEF rowVars, history, Rollback
<1>1. ASSUME NEW s \in Signals, DeliverStep(s) PROVE Kinds
  <2>1. CASE DeliverStart(s)
    BY <2>1 DEF DeliverStart, Kinds
  <2>2. ASSUME NEW d \in Deliveries,
               DeliverSkipsMissing(s, d) \/ DeliverFilters(s, d) \/ DeliverPasses(s, d)
        PROVE  Kinds
    BY <2>2 DEF DeliverSkipsMissing, DeliverFilters, DeliverPasses, Kinds
  <2>3. CASE DeliverSend(s)
    <3>1. deliver[s].cur \in Deliveries
      BY <2>3 DEF DeliverSend, TypeOK, DeliverTypeOK
    <3>. QED BY <2>3, <3>1 DEF DeliverSend, Kinds
  <2>4. CASE DeliverMark(s)
    BY <2>4 DEF DeliverMark, Kinds
  <2>5. CASE DeliverCommit(s)
    BY <2>5 DEF DeliverCommit, Jobs, Kinds
  <2>. QED BY <1>1, <2>1, <2>2, <2>3, <2>4, <2>5 DEF DeliverStep
<1>2. ASSUME NEW s \in Signals, DeliverDies(s) \/ DeliverRaises(s) \/ DeliverStatementFails(s)
      PROVE  Kinds
  BY <1>2 DEF DeliverDies, DeliverRaises, DeliverStatementFails, Kinds
<1>3. ASSUME NEW r \in RetryJobs, RetryStep(r) PROVE Kinds
  <2>1. CASE RetrySkips(r) \/ RetryStart(r)
    BY <2>1 DEF RetrySkips, RetryStart, Kinds
  <2>2. CASE RetrySend(r)
    <3>1. retry[r].delivery \in Deliveries
      BY <2>2 DEF RetrySend, TypeOK, RetryTypeOK
    <3>. QED BY <2>2, <3>1 DEF RetrySend, Kinds
  <2>3. CASE RetryMarksSent(r) \/ RetryReschedules(r) \/ RetryGivesUp(r)
    BY <2>3 DEF RetryMarksSent, RetryReschedules, RetryGivesUp, Kinds
  <2>4. CASE RetryCommit(r)
    BY <2>4 DEF RetryCommit, Jobs, Kinds
  <2>. QED BY <1>3, <2>1, <2>2, <2>3, <2>4 DEF RetryStep
<1>4. ASSUME NEW r \in RetryJobs, RetryDies(r) \/ RetryRaises(r) PROVE Kinds
  BY <1>4 DEF RetryDies, RetryRaises, Kinds
<1>5. ASSUME NEW d \in Deliveries, DeleteRow(d) PROVE Kinds
  BY <1>5 DEF Kinds
<1>6. ASSUME NEW c \in Channels, WindowExpires(c) \/ RecoveryTimeout(c) PROVE Kinds
  BY <1>6 DEF WindowExpires, RecoveryTimeout, Kinds
<1>7. CASE UNCHANGED vars
  BY <1>7 DEF vars, Kinds
<1>. QED
  BY <1>1, <1>2, <1>3, <1>4, <1>5, <1>6, <1>7 DEF Next

\* A job's commit moves each of its rows along the life cycle: between the statement
\* and the commit the row lock keeps what the statement's clause saw.
LEMMA CommitRecords ==
    ASSUME TypeOK, Evidence, NEW job \in Jobs, Commit(job), acked' = acked
    PROVE  Lifecycle!Record
<1>1. ASSUME NEW d \in Deliveries, draft[d].by = job PROVE Lifecycle!Moved(d)
  <2>1. job # Nobody
    BY DeliveryAssumption DEF Jobs
  <2>2. /\ row[d].status \in MarkableFrom(draft[d].status)
        /\ draft[d].status = "sent" => acked[d] > 0
    BY <1>1, <2>1 DEF Evidence, RowEvidence, Unlocked
  <2>3. /\ row'[d].status = draft[d].status
        /\ row'[d].attempts = row[d].attempts + 1
    BY <1>1 DEF Commit
  <2>4. draft[d].status \in Status
    BY DEF TypeOK, RowTypeOK, Draft
  <2>5. <<row[d].status, draft[d].status>> \in Lifecycle!Moves
    <3>1. CASE draft[d].status = "sent"
      BY <3>1, <2>2 DEF MarkableFrom, Lifecycle!Moves
    <3>2. CASE draft[d].status = "failed"
      BY <3>2, <2>2 DEF MarkableFrom, Lifecycle!Moves
    <3>3. CASE draft[d].status = "retrying"
      BY <3>3, <2>2 DEF MarkableFrom, Lifecycle!Moves
    <3>4. CASE draft[d].status = "dlq"
      <4>1. row[d].status \in {"pending", "sent", "failed", "retrying"}
        BY <3>4, <2>2 DEF MarkableFrom, Status
      <4>. QED BY <3>4, <4>1 DEF Lifecycle!Moves
    <3>5. CASE draft[d].status = "pending"
      BY <3>5, <2>2 DEF MarkableFrom
    <3>. QED BY <2>4, <3>1, <3>2, <3>3, <3>4, <3>5 DEF Status
  <2>. QED BY <2>2, <2>3, <2>5 DEF Lifecycle!Moved
<1>2. ASSUME NEW d \in Deliveries, draft[d].by # job PROVE row'[d] = row[d]
  BY <1>2 DEF Commit
<1>. QED BY <1>1, <1>2 DEF Lifecycle!Record

LEMMA LifecycleStep ==
    TypeOK /\ Evidence /\ [Next]_vars => [Lifecycle!Next]_<<row, acked>>
<1> SUFFICES ASSUME TypeOK, Evidence, [Next]_vars
             PROVE  [Lifecycle!Next]_<<row, acked>>
  OBVIOUS
<1>1. CASE row' = row /\ acked' = acked
  BY <1>1
<1>2. ASSUME NEW d \in Deliveries, row' = row, acked' = [acked EXCEPT ![d] = @ + 1]
      PROVE  Lifecycle!Next
  BY <1>2 DEF Lifecycle!Next, Lifecycle!Accept
<1>3. ASSUME NEW job \in Jobs, Commit(job), acked' = acked PROVE Lifecycle!Next
  BY <1>3, CommitRecords DEF Lifecycle!Next
<1>4. ASSUME NEW d \in Deliveries, DeleteRow(d) PROVE Lifecycle!Next
  BY <1>4 DEF DeleteRow, Exists, history, Lifecycle!Next, Lifecycle!Remove
<1>. QED
  BY <1>1, <1>2, <1>3, <1>4, StepKinds DEF Kinds

\* Every behaviour of the jobs is one of the life cycle: rows only make the moves the
\* WHERE clauses of the mark_* statements allow, one counted attempt each, and are
\* recorded sent only after an acceptance, through crashes, replays and rollbacks.
THEOREM DeliveryImplementsLifecycle == Spec => ImplementsLifecycle
<1>1. Init => Lifecycle!Init
  BY DEF Init, Lifecycle!Init
<1>2. TypeOK /\ Evidence /\ [Next]_vars => [Lifecycle!Next]_<<row, acked>>
  BY LifecycleStep
<1>. QED
  BY <1>1, <1>2, TypeCorrect, EvidenceInvariant, PTL
     DEF Spec, ImplementsLifecycle, Lifecycle!Spec

-----------------------------------------------------------------------------
(* Duplicates need faults: every copy a customer receives was sent by a job that   *)
(* could send, and only a fault of the system gives a row one more such job.       *)

\* The job of a signal can still send d: it has yet to load its rows, or d is on its
\* list and no message of d was accepted in this run.
FanOutMaySend(s, d) ==
    \/ deliver[s].phase = "queued" /\ SignalOf[d] = s
    \/ /\ deliver[s].phase \in {"loop", "send", "mark"}
       /\ d \in deliver[s].todo
       /\ deliver[s].phase = "mark" /\ deliver[s].cur = d => deliver[s].outcome = "bad"

\* A retry can still send its row, or hand it to the next retry of the chain.
RetryMaySend(r, d) ==
    /\ retry[r].delivery = d
    /\ \/ retry[r].phase \in {"queued", "send"}
       \/ retry[r].phase = "mark" /\ retry[r].outcome = "bad"

Senders(d) == {s \in Signals : FanOutMaySend(s, d)}
              \union {r \in RetryJobs : RetryMaySend(r, d)}

\* A job that sends or records a row has that row on its list.
WorksOnItsRows ==
    \A s \in Signals : deliver[s].phase \in {"send", "mark"} => deliver[s].cur \in deliver[s].todo

\* The inductive strengthening of DuplicatesNeedFaults.
Budget ==
    /\ WorksOnItsRows
    /\ \A d \in Deliveries :
          /\ IsFiniteSet(Senders(d))
          /\ acked[d] + Cardinality(Senders(d)) <= 1 + crashes + raises

\* What one step may do to the jobs that can send d, and to the copies of d.
Fewer(d) == Senders(d)' \subseteq Senders(d) /\ acked'[d] = acked[d]

Delivers(d) ==
    /\ \E j \in Senders(d) : Senders(d)' \subseteq Senders(d) \ {j}
    /\ acked'[d] = acked[d] + 1

HandsOver(d) ==
    /\ \E j \in Senders(d), k \in Jobs : Senders(d)' \subseteq (Senders(d) \ {j}) \union {k}
    /\ acked'[d] = acked[d]

Revives(d) ==
    /\ \E k \in Jobs : Senders(d)' \subseteq Senders(d) \union {k}
    /\ acked'[d] = acked[d]

DeliversAgain(d) == Senders(d)' \subseteq Senders(d) /\ acked'[d] = acked[d] + 1

NoFault == crashes' + raises' = crashes + raises
Fault == crashes' + raises' = crashes + raises + 1

WithinBudget(d) ==
    \/ NoFault /\ (Fewer(d) \/ Delivers(d) \/ HandsOver(d))
    \/ Fault /\ (Fewer(d) \/ Revives(d) \/ DeliversAgain(d))

\* Adding an element to a finite set adds at most one to its cardinality.
LEMMA AddOne ==
    ASSUME NEW S, NEW k, IsFiniteSet(S)
    PROVE  /\ IsFiniteSet(S \union {k})
           /\ Cardinality(S \union {k}) <= Cardinality(S) + 1
<1>1. Cardinality(S) \in Nat
  BY FS_CardinalityType
<1>2. /\ IsFiniteSet(S \union {k})
      /\ Cardinality(S \union {k}) = IF k \in S THEN Cardinality(S) ELSE Cardinality(S) + 1
  BY FS_AddElement
<1>. QED BY <1>1, <1>2

\* How the cardinality of a finite set follows one step of its elements.
LEMMA SetSteps ==
    ASSUME NEW S, NEW T, IsFiniteSet(S)
    PROVE  /\ Cardinality(S) \in Nat
           /\ IsFiniteSet(T) => Cardinality(T) \in Nat
           /\ T \subseteq S => IsFiniteSet(T) /\ Cardinality(T) <= Cardinality(S)
           /\ \A j \in S : T \subseteq S \ {j} =>
                 IsFiniteSet(T) /\ Cardinality(T) <= Cardinality(S) - 1
           /\ \A k : T \subseteq S \union {k} =>
                 IsFiniteSet(T) /\ Cardinality(T) <= Cardinality(S) + 1
           /\ \A j \in S : \A k : T \subseteq (S \ {j}) \union {k} =>
                 IsFiniteSet(T) /\ Cardinality(T) <= Cardinality(S)
<1>1. Cardinality(S) \in Nat
  BY FS_CardinalityType
<1>2. ASSUME IsFiniteSet(T) PROVE Cardinality(T) \in Nat
  BY <1>2, FS_CardinalityType
<1>3. ASSUME T \subseteq S PROVE IsFiniteSet(T) /\ Cardinality(T) <= Cardinality(S)
  BY <1>3, FS_Subset
<1>4. ASSUME NEW j \in S
      PROVE  IsFiniteSet(S \ {j}) /\ Cardinality(S \ {j}) = Cardinality(S) - 1
  BY FS_RemoveElement
<1>5. ASSUME NEW j \in S, T \subseteq S \ {j}
      PROVE  IsFiniteSet(T) /\ Cardinality(T) <= Cardinality(S) - 1
  <2>1. T \in SUBSET (S \ {j})
    BY <1>5
  <2>2. IsFiniteSet(T) /\ Cardinality(T) <= Cardinality(S \ {j})
    BY <1>4, <2>1, FS_Subset
  <2>. QED BY <1>4, <2>2
<1>6. ASSUME NEW k, T \subseteq S \union {k}
      PROVE  IsFiniteSet(T) /\ Cardinality(T) <= Cardinality(S) + 1
  <2>1. IsFiniteSet(S \union {k}) /\ Cardinality(S \union {k}) <= Cardinality(S) + 1
    BY AddOne
  <2>2. IsFiniteSet(T) /\ Cardinality(T) <= Cardinality(S \union {k})
    BY <2>1, <1>6, FS_Subset
  <2>3. Cardinality(T) \in Nat /\ Cardinality(S \union {k}) \in Nat
    BY <2>1, <2>2, FS_CardinalityType
  <2>. QED BY <2>1, <2>2, <2>3, <1>1
<1>7. ASSUME NEW j \in S, NEW k, T \subseteq (S \ {j}) \union {k}
      PROVE  IsFiniteSet(T) /\ Cardinality(T) <= Cardinality(S)
  <2> DEFINE R == S \ {j}
  <2>1. IsFiniteSet(R) /\ Cardinality(R) = Cardinality(S) - 1
    BY <1>4
  <2> HIDE DEF R
  <2>2. IsFiniteSet(R \union {k}) /\ Cardinality(R \union {k}) <= Cardinality(R) + 1
    BY <2>1, AddOne
  <2>3. T \in SUBSET (R \union {k})
    BY <1>7 DEF R
  <2>4. IsFiniteSet(T) /\ Cardinality(T) <= Cardinality(R \union {k})
    BY <2>2, <2>3, FS_Subset
  <2>5. Cardinality(T) \in Nat /\ Cardinality(R \union {k}) \in Nat
    BY <2>2, <2>4, FS_CardinalityType
  <2>. QED BY <2>1, <2>2, <2>4, <2>5, <1>1
<1>. QED BY <1>1, <1>2, <1>3, <1>5, <1>6, <1>7

\* n copies sent and s jobs that can send stay within f faults.
LEMMA WithinFaults ==
    ASSUME NEW n \in Nat, NEW s \in Nat, NEW f \in Nat,
           NEW m \in Nat, NEW t \in Nat, NEW g \in Nat,
           n + s <= 1 + f,
           \/ g = f /\ ((t <= s /\ m = n) \/ (t <= s - 1 /\ m = n + 1))
           \/ g = f + 1 /\ ((t <= s + 1 /\ m = n) \/ (t <= s /\ m = n + 1))
    PROVE  m + t <= 1 + g
  OBVIOUS

LEMMA BudgetKept ==
    ASSUME TypeOK, TypeOK', NEW d \in Deliveries, WithinBudget(d),
           IsFiniteSet(Senders(d)),
           acked[d] + Cardinality(Senders(d)) <= 1 + crashes + raises
    PROVE  /\ IsFiniteSet(Senders(d)')
           /\ acked'[d] + Cardinality(Senders(d)') <= 1 + crashes' + raises'
<1> DEFINE S == Senders(d)
           T == Senders(d)'
<1>1. /\ acked[d] \in Nat
      /\ acked'[d] \in Nat
      /\ crashes \in Nat
      /\ raises \in Nat
      /\ crashes' \in Nat
      /\ raises' \in Nat
  BY DeliveryAssumption DEF TypeOK, HistoryTypeOK, FaultTypeOK
<1>2. \/ /\ crashes' + raises' = crashes + raises
         /\ \/ T \subseteq S /\ acked'[d] = acked[d]
            \/ (\E j \in S : T \subseteq S \ {j}) /\ acked'[d] = acked[d] + 1
            \/ (\E j \in S, k \in Jobs : T \subseteq (S \ {j}) \union {k})
               /\ acked'[d] = acked[d]
      \/ /\ crashes' + raises' = crashes + raises + 1
         /\ \/ T \subseteq S /\ acked'[d] = acked[d]
            \/ (\E k \in Jobs : T \subseteq S \union {k}) /\ acked'[d] = acked[d]
            \/ T \subseteq S /\ acked'[d] = acked[d] + 1
  BY DEF WithinBudget, NoFault, Fault, Fewer, Delivers, HandsOver, Revives, DeliversAgain
<1>3. IsFiniteSet(S) /\ acked[d] + Cardinality(S) <= 1 + crashes + raises
  OBVIOUS
<1> SUFFICES IsFiniteSet(T) /\ acked'[d] + Cardinality(T) <= 1 + crashes' + raises'
  OBVIOUS
<1> HIDE DEF S, T
<1>4. IsFiniteSet(T) /\ Cardinality(T) \in Nat /\ Cardinality(S) \in Nat
  BY <1>2, <1>3, SetSteps
<1>5. \/ /\ crashes' + raises' = crashes + raises
         /\ \/ Cardinality(T) <= Cardinality(S) /\ acked'[d] = acked[d]
            \/ Cardinality(T) <= Cardinality(S) - 1 /\ acked'[d] = acked[d] + 1
      \/ /\ crashes' + raises' = crashes + raises + 1
         /\ \/ Cardinality(T) <= Cardinality(S) + 1 /\ acked'[d] = acked[d]
            \/ Cardinality(T) <= Cardinality(S) /\ acked'[d] = acked[d] + 1
  <2>1. CASE T \subseteq S
    BY <2>1, <1>2, <1>3, <1>4, SetSteps
  <2>2. (\E j \in S, k \in Jobs : T \subseteq (S \ {j}) \union {k})
            => Cardinality(T) <= Cardinality(S)
    BY <1>3, SetSteps
  <2>3. (\E k \in Jobs : T \subseteq S \union {k}) => Cardinality(T) <= Cardinality(S) + 1
    BY <1>3, SetSteps
  <2>. QED BY <2>1, <2>2, <2>3, <1>2
<1> DEFINE f == crashes + raises
           g == crashes' + raises'
<1>6. f \in Nat /\ g \in Nat
  <2>1. \A m, n \in Nat : m + n \in Nat
    OBVIOUS
  <2>. QED BY <1>1, <2>1
<1>7. acked[d] + Cardinality(S) <= 1 + f
  BY <1>1, <1>3, <1>4
<1>8. \/ /\ g = f
         /\ \/ Cardinality(T) <= Cardinality(S) /\ acked'[d] = acked[d]
            \/ Cardinality(T) <= Cardinality(S) - 1 /\ acked'[d] = acked[d] + 1
      \/ /\ g = f + 1
         /\ \/ Cardinality(T) <= Cardinality(S) + 1 /\ acked'[d] = acked[d]
            \/ Cardinality(T) <= Cardinality(S) /\ acked'[d] = acked[d] + 1
  BY <1>5
<1>9. 1 + crashes' + raises' = 1 + g
  BY <1>1
<1> HIDE DEF f, g
<1>10. acked'[d] + Cardinality(T) <= 1 + g
  BY <1>1, <1>4, <1>6, <1>7, <1>8, WithinFaults
<1>. QED BY <1>4, <1>9, <1>10


\* Steps that leave the jobs' records alone leave Senders alone.
LEMMA SendersKept ==
    ASSUME UNCHANGED <<deliver, retry>>, NEW d \in Deliveries
    PROVE  Senders(d)' = Senders(d)
  BY DEF Senders, FanOutMaySend, RetryMaySend

LEMMA FaultSteps ==
    ASSUME TypeOK, TypeOK'
    PROVE  /\ UNCHANGED <<crashes, raises>> => NoFault
           /\ crashes' = crashes + 1 /\ raises' = raises => Fault
           /\ raises' = raises + 1 /\ crashes' = crashes => Fault
<1>1. crashes \in Nat /\ raises \in Nat
  BY DeliveryAssumption DEF TypeOK, FaultTypeOK
<1>. QED BY <1>1 DEF NoFault, Fault

\* The fan-out's own steps: the rows it may send shrink, but for a retry it enqueues.
LEMMA FanOutBudget ==
    ASSUME TypeOK, TypeOK', WorksOnItsRows, NEW s \in Signals, NEW d \in Deliveries,
           DeliverStep(s)
    PROVE  WithinBudget(d)
<1> USE DEF TypeOK, DeliverTypeOK, DeliverJob, Senders, FanOutMaySend, RetryMaySend
<1>1. CASE DeliverStart(s)
  <2>1. PICK p \in {"done", "loop"}, todo \in SUBSET DeliveriesOf(s) :
           deliver' = [deliver EXCEPT ![s].phase = p, ![s].tries = @ + 1, ![s].todo = todo]
    BY <1>1 DEF DeliverStart
  <2>2. deliver[s].phase = "queued" /\ UNCHANGED <<retry, history, faultVars>>
    BY <1>1 DEF DeliverStart
  <2>3. Senders(d)' \subseteq Senders(d)
    BY <2>1, <2>2 DEF DeliveriesOf
  <2>. QED BY <2>2, <2>3, FaultSteps DEF history, faultVars, WithinBudget, Fewer
<1>2. ASSUME NEW e \in Deliveries,
             DeliverSkipsMissing(s, e) \/ DeliverFilters(s, e) \/ DeliverPasses(s, e)
      PROVE  WithinBudget(d)
  <2>1. Senders(d)' \subseteq Senders(d)
    BY <1>2 DEF DeliverSkipsMissing, DeliverFilters, DeliverPasses, Turn
  <2>. QED BY <1>2, <2>1, FaultSteps DEF DeliverSkipsMissing, DeliverFilters, DeliverPasses,
              history, faultVars, WithinBudget, Fewer
<1>3. CASE DeliverSend(s)
  <2> DEFINE e == deliver[s].cur
  <2>1. e \in Deliveries /\ e \in deliver[s].todo /\ deliver[s].phase = "send"
    BY <1>3 DEF DeliverSend, WorksOnItsRows
  <2>2. Senders(d)' \subseteq Senders(d)
    BY <1>3 DEF DeliverSend
  <2>3. CASE acked' = acked
    BY <1>3, <2>2, <2>3, FaultSteps DEF DeliverSend, WithinBudget, Fewer
  <2>4. CASE acked' = [acked EXCEPT ![e] = @ + 1] /\ d # e
    <3>1. acked'[d] = acked[d]
      BY <2>4 DEF HistoryTypeOK
    <3>. QED BY <1>3, <2>2, <3>1, FaultSteps DEF DeliverSend, WithinBudget, Fewer
  <2>5. CASE acked' = [acked EXCEPT ![e] = @ + 1] /\ d = e
    <3>1. acked'[d] = acked[d] + 1
      BY <2>5 DEF HistoryTypeOK
    <3>2. s \in Senders(d)
      BY <2>1, <2>5
    <3>3. CASE deliver' = [deliver EXCEPT ![s].phase = "mark", ![s].outcome = "ok"]
               /\ UNCHANGED raises
      <4>1. ~FanOutMaySend(s, d)'
        BY <2>1, <2>5, <3>3
      <4>2. s \notin Senders(d)'
        BY <4>1, DeliveryAssumption
      <4>3. NoFault
        BY <1>3, <3>3, FaultSteps DEF DeliverSend
      <4>4. Senders(d)' \subseteq Senders(d) \ {s}
        BY <2>2, <4>2
      <4>. HIDE DEF Senders
      <4>. QED BY <3>1, <3>2, <4>3, <4>4 DEF WithinBudget, Delivers
    <3>4. CASE raises' = raises + 1
      BY <1>3, <2>2, <3>1, <3>4, FaultSteps DEF DeliverSend, WithinBudget, DeliversAgain
    <3>5. acked' # acked
      BY <3>1 DEF HistoryTypeOK
    <3>. QED BY <1>3, <3>3, <3>4, <3>5 DEF DeliverSend
  <2>. QED BY <1>3, <2>3, <2>4, <2>5 DEF DeliverSend
<1>4. CASE DeliverMark(s)
  <2> DEFINE e == deliver[s].cur
  <2>1. /\ e \in Deliveries
        /\ e \in deliver[s].todo
        /\ deliver[s].phase = "mark"
        /\ UNCHANGED <<acked, crashes>>
    BY <1>4 DEF DeliverMark, WorksOnItsRows, history
  <2>2. \A t \in Signals : FanOutMaySend(t, d)' => FanOutMaySend(t, d) /\ (t = s => d # e)
    <3>1. deliver' = [deliver EXCEPT ![s].phase = "loop", ![s].todo = @ \ {e},
                                     ![s].cur = NoDelivery, ![s].outcome = "none"]
      BY <1>4 DEF DeliverMark
    <3>2. \A t \in Signals : t # s => deliver'[t] = deliver[t]
      BY <3>1
    <3>3. deliver'[s].phase = "loop" /\ deliver'[s].todo = deliver[s].todo \ {e}
      BY <3>1
    <3>4. FanOutMaySend(s, d)' => d # e /\ FanOutMaySend(s, d)
      BY <2>1, <3>3
    <3>. QED BY <3>2, <3>4
  <2>3. UNCHANGED raises => NoFault
    BY <2>1, FaultSteps
  <2>4. raises' = raises + 1 => Fault
    BY <2>1, FaultSteps
  <2>5. CASE UNCHANGED retry /\ (UNCHANGED raises \/ raises' = raises + 1)
    <3>1. Senders(d)' \subseteq Senders(d)
      BY <2>2, <2>5
    <3>. QED BY <2>1, <2>3, <2>4, <2>5, <3>1 DEF WithinBudget, Fewer
  <2>6. CASE NeedsRetry(deliver[s].outcome) /\ EnqueueRetry(e, 1) /\ UNCHANGED raises
    <3>1. PICK r \in RetryJobs :
             retry[r].phase = "free" /\ retry' = [retry EXCEPT ![r] = QueuedRetry(e, 1)]
      BY <2>6 DEF EnqueueRetry
    <3>2. CASE d # e
      <4>1. \A q \in RetryJobs : RetryMaySend(q, d)' => RetryMaySend(q, d)
        BY <3>1, <3>2 DEF QueuedRetry, RetryTypeOK
      <4>2. Senders(d)' \subseteq Senders(d)
        BY <2>2, <4>1
      <4>. QED BY <2>1, <2>3, <2>6, <4>2 DEF WithinBudget, Fewer
    <3>3. CASE d = e
      <4>1. s \in Senders(d)
        BY <2>1, <2>6, <3>3 DEF NeedsRetry
      <4>2. \A q \in RetryJobs : RetryMaySend(q, d)' => RetryMaySend(q, d) \/ q = r
        BY <3>1 DEF QueuedRetry, RetryTypeOK
      <4>3. Senders(d)' \subseteq (Senders(d) \ {s}) \union {r}
        BY <2>2, <3>3, <4>2, DeliveryAssumption
      <4>. QED BY <2>1, <2>3, <2>6, <4>1, <4>3 DEF WithinBudget, HandsOver, Jobs
    <3>. QED BY <3>2, <3>3
  <2>. QED BY <1>4, <2>5, <2>6 DEF DeliverMark
<1>5. CASE DeliverCommit(s)
  <2>1. Senders(d)' \subseteq Senders(d)
    BY <1>5 DEF DeliverCommit
  <2>. QED BY <1>5, <2>1, FaultSteps DEF DeliverCommit, history, faultVars, WithinBudget, Fewer
<1>. QED BY <1>1, <1>2, <1>3, <1>4, <1>5 DEF DeliverStep

\* A fan-out that stops with a fault is run again at most once for it, or leaves a
\* retry behind.
LEMMA FanOutFaultBudget ==
    ASSUME TypeOK, TypeOK', WorksOnItsRows, NEW s \in Signals, NEW d \in Deliveries,
           DeliverDies(s) \/ DeliverRaises(s) \/ DeliverStatementFails(s)
    PROVE  WithinBudget(d)
<1> USE DEF TypeOK, DeliverTypeOK, DeliverJob, Senders, FanOutMaySend, RetryMaySend
<1>1. acked' = acked
  BY DEF DeliverDies, DeliverRaises, DeliverStatementFails, history
<1>2. \A t \in Signals : t # s => deliver'[t] = deliver[t]
  BY DEF DeliverDies, DeliverRaises, DeliverStatementFails, Stopped
<1>3. CASE DeliverDies(s)
  <2>1. Fault
    BY <1>3, FaultSteps DEF DeliverDies
  <2>2. Senders(d)' \subseteq Senders(d) \union {s}
    BY <1>2, <1>3 DEF DeliverDies
  <2>. HIDE DEF Senders
  <2>. QED BY <1>1, <2>1, <2>2 DEF WithinBudget, Revives, Jobs
<1>4. deliver'[s].phase = "done" => ~FanOutMaySend(s, d)'
  OBVIOUS
<1>5. CASE DeliverRaises(s)
  <2>1. Fault
    BY <1>5, FaultSteps DEF DeliverRaises
  <2>2. Senders(d)' \subseteq Senders(d)
    BY <1>2, <1>4, <1>5 DEF DeliverRaises, Stopped
  <2>. HIDE DEF Senders
  <2>. QED BY <1>1, <2>1, <2>2 DEF WithinBudget, Fewer
<1>6. CASE DeliverStatementFails(s)
  <2>1. Fault
    BY <1>6, FaultSteps DEF DeliverStatementFails
  <2>2. PICK r \in RetryJobs :
           retry' = [retry EXCEPT ![r] = QueuedRetry(deliver[s].cur, 1)]
    BY <1>6 DEF DeliverStatementFails, EnqueueRetry
  <2>3. \A q \in RetryJobs : q # r => retry'[q] = retry[q]
    BY <2>2
  <2>4. Senders(d)' \subseteq Senders(d) \union {r}
    BY <1>2, <1>4, <1>6, <2>3 DEF DeliverStatementFails, Stopped
  <2>. HIDE DEF Senders
  <2>. QED BY <1>1, <2>1, <2>4 DEF WithinBudget, Revives, Jobs
<1>. QED BY <1>3, <1>5, <1>6

\* A retry sends at most once, and hands the row over before it finishes.
LEMMA RetryBudget ==
    ASSUME TypeOK, TypeOK', NEW r \in RetryJobs, NEW d \in Deliveries,
           RetryStep(r) \/ RetryDies(r) \/ RetryRaises(r)
    PROVE  WithinBudget(d)
<1> USE DEF TypeOK, RetryTypeOK, RetryJob, Senders, FanOutMaySend, RetryMaySend
<1>1. CASE RetrySkips(r) \/ RetryStart(r) \/ RetryMarksSent(r) \/ RetryGivesUp(r)
           \/ RetryCommit(r)
  <2>1. NoFault /\ acked' = acked
    BY <1>1, FaultSteps DEF RetrySkips, RetryStart, RetryMarksSent, RetryGivesUp, RetryCommit,
       faultVars, history
  <2>2. deliver' = deliver
    BY <1>1 DEF RetrySkips, RetryStart, RetryMarksSent, RetryGivesUp, RetryCommit
  <2>3. \A q \in RetryJobs : RetryMaySend(q, d)' => RetryMaySend(q, d)
    BY <1>1 DEF RetrySkips, RetryStart, RetryMarksSent, RetryGivesUp, RetryCommit, FreeJob
  <2>4. Senders(d)' \subseteq Senders(d)
    BY <2>2, <2>3
  <2>. HIDE DEF Senders
  <2>. QED BY <2>1, <2>4 DEF WithinBudget, Fewer
<1>2. CASE RetrySend(r)
  <2> DEFINE e == retry[r].delivery
  <2>1. NoFault /\ deliver' = deliver /\ retry[r].phase = "send" /\ e \in Deliveries
    BY <1>2, FaultSteps DEF RetrySend, faultVars
  <2>2. \A q \in RetryJobs : RetryMaySend(q, d)' => RetryMaySend(q, d)
    BY <1>2 DEF RetrySend
  <2>3. Senders(d)' \subseteq Senders(d)
    BY <2>1, <2>2
  <2>4. CASE acked' = acked
    <3>. HIDE DEF Senders
    <3>. QED BY <2>1, <2>3, <2>4 DEF WithinBudget, Fewer
  <2>5. CASE acked' = [acked EXCEPT ![e] = @ + 1] /\ d # e
    <3>1. acked'[d] = acked[d]
      BY <2>5 DEF HistoryTypeOK
    <3>. HIDE DEF Senders
    <3>. QED BY <2>1, <2>3, <3>1 DEF WithinBudget, Fewer
  <2>6. CASE /\ acked' = [acked EXCEPT ![e] = @ + 1]
             /\ retry' = [retry EXCEPT ![r].phase = "mark", ![r].outcome = "ok"]
             /\ d = e
    <3>1. acked'[d] = acked[d] + 1
      BY <2>6 DEF HistoryTypeOK
    <3>2. r \in Senders(d)
      BY <2>1, <2>6
    <3>3. ~RetryMaySend(r, d)'
      BY <2>6
    <3>4. Senders(d)' \subseteq Senders(d) \ {r}
      BY <2>3, <3>3, DeliveryAssumption
    <3>. HIDE DEF Senders
    <3>. QED BY <2>1, <3>1, <3>2, <3>4 DEF WithinBudget, Delivers
  <2>. QED BY <1>2, <2>4, <2>5, <2>6 DEF RetrySend
<1>3. CASE RetryReschedules(r)
  <2> DEFINE e == retry[r].delivery
  <2>1. /\ NoFault
        /\ acked' = acked
        /\ deliver' = deliver
        /\ retry[r].phase = "mark"
        /\ retry[r].outcome = "bad"
    BY <1>3, FaultSteps DEF RetryReschedules, faultVars, history
  <2>2. PICK q \in RetryJobs :
           /\ retry[q].phase = "free"
           /\ retry' = [retry EXCEPT ![q] = QueuedRetry(e, retry[r].attempt + 1),
                                     ![r].phase = "commit"]
    BY <1>3 DEF RetryReschedules
  <2>3. /\ q # r
        /\ \A p \in RetryJobs : p # q /\ p # r => retry'[p] = retry[p]
        /\ retry'[r].phase = "commit"
        /\ retry'[q].delivery = e
    BY <2>1, <2>2 DEF QueuedRetry
  <2>4. \A p \in RetryJobs : RetryMaySend(p, d)' =>
            \/ p = q /\ d = e
            \/ p # r /\ RetryMaySend(p, d)
    BY <2>3
  <2>5. CASE d = e
    <3>1. r \in Senders(d)
      BY <2>1, <2>5
    <3>2. Senders(d)' \subseteq (Senders(d) \ {r}) \union {q}
      BY <2>1, <2>4, DeliveryAssumption
    <3>. HIDE DEF Senders
    <3>. QED BY <2>1, <3>1, <3>2 DEF WithinBudget, HandsOver, Jobs
  <2>6. CASE d # e
    <3>1. Senders(d)' \subseteq Senders(d)
      BY <2>1, <2>4, <2>6
    <3>. HIDE DEF Senders
    <3>. QED BY <2>1, <3>1 DEF WithinBudget, Fewer
  <2>. QED BY <2>5, <2>6
<1>4. CASE RetryDies(r) \/ RetryRaises(r)
  <2>1. Fault /\ acked' = acked /\ deliver' = deliver
    BY <1>4, FaultSteps DEF RetryDies, RetryRaises, history
  <2>2. \A q \in RetryJobs : q # r => retry'[q] = retry[q]
    BY <1>4 DEF RetryDies, RetryRaises
  <2>3. Senders(d)' \subseteq Senders(d) \union {r}
    BY <2>1, <2>2
  <2>. HIDE DEF Senders
  <2>. QED BY <2>1, <2>3 DEF WithinBudget, Revives, Jobs
<1>. QED BY <1>1, <1>2, <1>3, <1>4 DEF RetryStep

LEMMA WorksOnItsRowsStep == TypeOK /\ WorksOnItsRows /\ [Next]_vars => WorksOnItsRows'
<1> SUFFICES ASSUME TypeOK, WorksOnItsRows, [Next]_vars PROVE WorksOnItsRows'
  OBVIOUS
<1> USE DEF TypeOK, DeliverTypeOK, DeliverJob, WorksOnItsRows
<1>1. CASE UNCHANGED deliver
  BY <1>1
<1>2. ASSUME NEW s \in Signals, DeliverStart(s) PROVE WorksOnItsRows'
  <2>1. deliver'[s].phase \in {"done", "loop"} /\ \A t \in Signals : t # s => deliver'[t] = deliver[t]
    BY <1>2 DEF DeliverStart
  <2>. QED BY <2>1
<1>3. ASSUME NEW s \in Signals, NEW d \in Deliveries,
             DeliverSkipsMissing(s, d) \/ DeliverFilters(s, d) \/ DeliverPasses(s, d)
      PROVE  WorksOnItsRows'
  BY <1>3 DEF DeliverSkipsMissing, DeliverFilters, DeliverPasses, Turn
<1>4. ASSUME NEW s \in Signals, DeliverSend(s) PROVE WorksOnItsRows'
  BY <1>4 DEF DeliverSend
<1>5. ASSUME NEW s \in Signals,
             \/ DeliverMark(s) \/ DeliverCommit(s) \/ DeliverDies(s)
             \/ DeliverRaises(s) \/ DeliverStatementFails(s)
      PROVE  WorksOnItsRows'
  <2>1. /\ deliver'[s].phase \in {"loop", "queued", "done"}
        /\ \A t \in Signals : t # s => deliver'[t] = deliver[t]
    BY <1>5 DEF DeliverMark, DeliverCommit, DeliverDies, DeliverRaises, DeliverStatementFails,
       Stopped, AfterDeath
  <2>. QED BY <2>1
<1>6. ASSUME NEW r \in RetryJobs, RetryStep(r) \/ RetryDies(r) \/ RetryRaises(r)
      PROVE  UNCHANGED deliver
  BY <1>6 DEF RetryStep, RetrySkips, RetryStart, RetrySend, RetryMarksSent, RetryReschedules,
              RetryGivesUp, RetryCommit, RetryDies, RetryRaises
<1>7. ASSUME NEW d \in Deliveries, DeleteRow(d) PROVE UNCHANGED deliver
  BY <1>7 DEF DeleteRow
<1>8. ASSUME NEW c \in Channels, WindowExpires(c) \/ RecoveryTimeout(c) PROVE UNCHANGED deliver
  BY <1>8 DEF WindowExpires, RecoveryTimeout
<1>9. CASE UNCHANGED vars
  BY <1>9 DEF vars
<1>. QED
  BY <1>1, <1>2, <1>3, <1>4, <1>5, <1>6, <1>7, <1>8, <1>9 DEF Next, DeliverStep

LEMMA BudgetStep == TypeOK /\ TypeOK' /\ Budget /\ [Next]_vars => Budget'
<1> SUFFICES ASSUME TypeOK, TypeOK', Budget, [Next]_vars PROVE Budget'
  OBVIOUS
<1>1. WorksOnItsRows /\ WorksOnItsRows'
  BY WorksOnItsRowsStep DEF Budget
<1>2. ASSUME NEW d \in Deliveries PROVE WithinBudget(d)
  <2>1. ASSUME NEW s \in Signals,
               \/ DeliverStep(s) \/ DeliverDies(s)
               \/ DeliverRaises(s) \/ DeliverStatementFails(s)
        PROVE  WithinBudget(d)
    BY <1>1, <2>1, FanOutBudget, FanOutFaultBudget
  <2>2. ASSUME NEW r \in RetryJobs, RetryStep(r) \/ RetryDies(r) \/ RetryRaises(r)
        PROVE  WithinBudget(d)
    BY <2>2, RetryBudget
  <2>3. CASE UNCHANGED <<deliver, retry, acked, crashes, raises>>
    BY <2>3, SendersKept, FaultSteps DEF WithinBudget, Fewer
  <2>4. ASSUME NEW e \in Deliveries, DeleteRow(e) PROVE WithinBudget(d)
    BY <2>3, <2>4 DEF DeleteRow, history
  <2>5. ASSUME NEW c \in Channels, WindowExpires(c) \/ RecoveryTimeout(c) PROVE WithinBudget(d)
    BY <2>3, <2>5 DEF WindowExpires, RecoveryTimeout, history, faultVars
  <2>6. CASE UNCHANGED vars
    BY <2>3, <2>6 DEF vars
  <2>. QED BY <2>1, <2>2, <2>4, <2>5, <2>6 DEF Next
<1>3. ASSUME NEW d \in Deliveries
      PROVE  /\ IsFiniteSet(Senders(d)')
             /\ acked'[d] + Cardinality(Senders(d)') <= 1 + crashes' + raises'
  BY <1>2, BudgetKept DEF Budget
<1>. QED BY <1>1, <1>3 DEF Budget

LEMMA BudgetInvariant == Spec => []Budget
<1>1. Init => Budget
  <2> SUFFICES ASSUME Init PROVE Budget
    OBVIOUS
  <2>1. WorksOnItsRows
    BY DEF Init, WorksOnItsRows
  <2>2. ASSUME NEW d \in Deliveries
        PROVE  IsFiniteSet(Senders(d)) /\ acked[d] + Cardinality(Senders(d)) <= 1 + crashes + raises
    <3>1. Senders(d) = {SignalOf[d]}
      BY DeliveryAssumption DEF Init, Senders, FanOutMaySend, RetryMaySend, FreeJob
    <3>2. IsFiniteSet(Senders(d)) /\ Cardinality(Senders(d)) = 1
      BY <3>1, FS_Singleton
    <3>. QED BY <3>2 DEF Init
  <2>. QED BY <2>1, <2>2 DEF Budget
<1>2. TypeOK /\ TypeOK' /\ Budget /\ [Next]_vars => Budget'
  BY BudgetStep
<1>. QED BY <1>1, <1>2, TypeCorrect, PTL DEF Spec

\* A customer gets one copy of a signal, and at most one more for each worker that
\* died with a job running and each Redis or database call that failed: retries, and
\* retries racing the fan-out, never duplicate a message by themselves.
THEOREM CopiesAreBoundedByFaults == Spec => []DuplicatesNeedFaults
<1>1. TypeOK /\ Budget => DuplicatesNeedFaults
  <2> SUFFICES ASSUME TypeOK, Budget, NEW d \in Deliveries
               PROVE  acked[d] <= 1 + crashes + raises
    BY DEF DuplicatesNeedFaults
  <2>1. IsFiniteSet(Senders(d)) /\ acked[d] + Cardinality(Senders(d)) <= 1 + crashes + raises
    BY DEF Budget
  <2>2. Cardinality(Senders(d)) \in Nat
    BY <2>1, FS_CardinalityType
  <2>3. acked[d] \in Nat /\ crashes \in Nat /\ raises \in Nat
    BY DeliveryAssumption DEF TypeOK, HistoryTypeOK, FaultTypeOK
  <2>. QED BY <2>1, <2>2, <2>3
<1>. QED BY <1>1, TypeCorrect, BudgetInvariant, PTL

-----------------------------------------------------------------------------
(* Without a crash at most one job has a row in hand, and a row that was sent is in *)
(* nobody's.                                                                        *)

\* Job may still record an outcome of d, or hand d to a retry that does.
FanOutMayMark(s, d) ==
    \/ deliver[s].phase = "queued" /\ SignalOf[d] = s
    \/ deliver[s].phase \in {"loop", "send", "mark"} /\ d \in deliver[s].todo

RetryMayMark(r, d) ==
    retry[r].delivery = d /\ retry[r].phase \in {"queued", "send", "mark"}

MayMark(job, d) ==
    \/ job \in Signals /\ FanOutMayMark(job, d)
    \/ job \in RetryJobs /\ RetryMayMark(job, d)

Unmarked(d) == \A job \in Jobs : ~MayMark(job, d)

InOneHand(d) ==
    /\ \A j, k \in Jobs : MayMark(j, d) /\ MayMark(k, d) => j = k
    /\ ~Unlocked(d) /\ draft[d].status \in {"sent", "dlq"} => Unmarked(d)
    /\ row[d].status = "sent" => Unlocked(d) /\ Unmarked(d)

\* The inductive strengthening of SentIsFinalWithoutCrashes.
OneHand == crashes = 0 => \A d \in Deliveries : InOneHand(d)

\* What one step may do to the jobs that have d in hand, and to its row.
Releases(d) == \A job \in Jobs : MayMark(job, d)' => MayMark(job, d)

Passes(d) ==
    \E j, k \in Jobs :
        /\ MayMark(j, d)
        /\ \A job \in Jobs : MayMark(job, d)' => job = k \/ (job # j /\ MayMark(job, d))

Untouched(d) ==
    /\ row'[d].status \in {row[d].status, "gone"}
    /\ draft'[d] \in {draft[d], NoDraft}

Takes(d) ==
    /\ UNCHANGED row
    /\ \E job \in Jobs :
          /\ MayMark(job, d)
          /\ draft'[d].status \in {"sent", "dlq"} => ~MayMark(job, d)' /\ Releases(d)

Settles(d) ==
    /\ ~Unlocked(d)
    /\ draft'[d] = NoDraft
    /\ row'[d].status = draft[d].status
    /\ Releases(d)

StaysInHand(d) ==
    /\ Releases(d) \/ Passes(d)
    /\ Untouched(d) \/ Takes(d) \/ Settles(d)

LEMMA InHandKept ==
    ASSUME NEW d \in Deliveries, InOneHand(d), StaysInHand(d)
    PROVE  InOneHand(d)'
<1> USE DEF InOneHand, StaysInHand, Unmarked
<1>1. (\A j, k \in Jobs : MayMark(j, d) /\ MayMark(k, d) => j = k)'
  BY DEF Releases, Passes
<1>2. CASE Untouched(d)
  <2>1. Unmarked(d) => Unmarked(d)'
    BY DEF Releases, Passes
  <2>2. Unlocked(d) => Unlocked(d)'
    BY <1>2 DEF Untouched, Unlocked, NoDraft
  <2>3. ~Unlocked(d)' => draft'[d] = draft[d]
    BY <1>2 DEF Untouched, Unlocked, NoDraft
  <2>. QED BY <1>1, <1>2, <2>1, <2>2, <2>3 DEF Untouched, Unlocked
<1>3. CASE Takes(d)
  <2>1. ~Unmarked(d) /\ row'[d].status # "sent"
    BY <1>3 DEF Takes
  <2>2. draft'[d].status \in {"sent", "dlq"} => Unmarked(d)'
    BY <1>3 DEF Takes, Releases
  <2>. QED BY <1>1, <2>1, <2>2
<1>4. CASE Settles(d)
  <2>1. Unlocked(d)'
    BY <1>4 DEF Settles, Unlocked, NoDraft
  <2>2. row'[d].status = "sent" => Unmarked(d)'
    BY <1>4 DEF Settles, Releases
  <2>. QED BY <1>1, <2>1, <2>2
<1>. QED BY <1>2, <1>3, <1>4

LEMMA MarkersKept ==
    ASSUME NEW d \in Deliveries, UNCHANGED <<deliver, retry>>
    PROVE  Releases(d)
  BY DEF Releases, MayMark, FanOutMayMark, RetryMayMark

\* A conditional UPDATE by a job that has e in hand takes e, or touches nothing; the end
\* of a transaction settles its rows, or leaves them as they were.
LEMMA StatementsInHand ==
    ASSUME TypeOK, NEW job \in Jobs, NEW d \in Deliveries
    PROVE  /\ \A e \in Deliveries, status \in Status :
                 /\ UpdateStatus(job, e, status)
                 /\ UNCHANGED row
                 /\ MayMark(job, e)
                 /\ status \in {"sent", "dlq"} /\ d = e => ~MayMark(job, d)' /\ Releases(d)
                 => Untouched(d) \/ Takes(d)
           /\ Commit(job) /\ Releases(d) => Untouched(d) \/ Settles(d)
           /\ Rollback(job) => Untouched(d)
<1> USE DEF TypeOK, RowTypeOK, Draft
<1>1. ASSUME NEW e \in Deliveries, NEW status \in Status,
             UpdateStatus(job, e, status), UNCHANGED row, MayMark(job, e),
             status \in {"sent", "dlq"} /\ d = e => ~MayMark(job, d)' /\ Releases(d)
      PROVE  Untouched(d) \/ Takes(d)
  <2>1. CASE d # e \/ draft' = draft
    BY <1>1, <2>1 DEF UpdateStatus, Untouched
  <2>2. CASE d = e /\ draft' = [draft EXCEPT ![e] = [by |-> job, status |-> status]]
    <3>1. draft'[d].status = status
      BY <2>2
    <3>. QED BY <1>1, <2>2, <3>1 DEF Takes
  <2>. QED BY <1>1, <2>1, <2>2 DEF UpdateStatus
<1>2. Commit(job) /\ Releases(d) => Untouched(d) \/ Settles(d)
  <2> SUFFICES ASSUME Commit(job), Releases(d) PROVE Untouched(d) \/ Settles(d)
    OBVIOUS
  <2>1. CASE draft[d].by = job
    <3>1. ~Unlocked(d)
      BY <2>1, DeliveryAssumption DEF Jobs, Unlocked
    <3>. QED BY <2>1, <3>1 DEF Commit, Settles
  <2>2. CASE draft[d].by # job
    BY <2>2 DEF Commit, Untouched
  <2>. QED BY <2>1, <2>2
<1>3. Rollback(job) => Untouched(d)
  BY DEF Rollback, Untouched
<1>. QED BY <1>1, <1>2, <1>3

LEMMA FanOutInHand ==
    ASSUME TypeOK, WorksOnItsRows, NEW s \in Signals, NEW d \in Deliveries,
           DeliverStep(s) \/ DeliverRaises(s) \/ DeliverStatementFails(s)
    PROVE  StaysInHand(d)
<1> USE DeliveryAssumption DEF TypeOK, DeliverTypeOK, DeliverJob, MayMark, FanOutMayMark, RetryMayMark, Jobs
<1>1. UNCHANGED rowVars => Untouched(d)
  BY DEF rowVars, Untouched
<1>2. CASE DeliverStart(s)
  <2>1. PICK p \in {"done", "loop"}, todo \in SUBSET DeliveriesOf(s) :
           deliver' = [deliver EXCEPT ![s].phase = p, ![s].tries = @ + 1, ![s].todo = todo]
    BY <1>2 DEF DeliverStart
  <2>2. deliver[s].phase = "queued" /\ UNCHANGED <<retry, rowVars>>
    BY <1>2 DEF DeliverStart
  <2>3. Releases(d)
    BY <2>1, <2>2 DEF DeliveriesOf, Releases
  <2>. QED BY <1>1, <2>2, <2>3 DEF StaysInHand
<1>3. ASSUME NEW e \in Deliveries,
             DeliverSkipsMissing(s, e) \/ DeliverFilters(s, e) \/ DeliverPasses(s, e)
      PROVE  StaysInHand(d)
  <2>1. Releases(d)
    BY <1>3 DEF DeliverSkipsMissing, DeliverFilters, DeliverPasses, Turn, Releases
  <2>. QED BY <1>1, <1>3, <2>1
           DEF DeliverSkipsMissing, DeliverFilters, DeliverPasses, StaysInHand
<1>4. CASE DeliverSend(s)
  <2>1. Releases(d)
    BY <1>4 DEF DeliverSend, Releases
  <2>. QED BY <1>1, <1>4, <2>1 DEF DeliverSend, StaysInHand
<1>5. CASE DeliverMark(s)
  <2> DEFINE e == deliver[s].cur
             status == IF deliver[s].outcome = "ok" THEN "sent" ELSE "failed"
  <2>1. /\ e \in Deliveries
        /\ e \in deliver[s].todo
        /\ deliver[s].phase = "mark"
        /\ UNCHANGED row
        /\ UpdateStatus(s, e, status)
        /\ MayMark(s, e)
    BY <1>5 DEF DeliverMark, WorksOnItsRows
  <2>2. deliver' = [deliver EXCEPT ![s].phase = "loop", ![s].todo = @ \ {e},
                                   ![s].cur = NoDelivery, ![s].outcome = "none"]
    BY <1>5 DEF DeliverMark
  <2>3. /\ \A t \in Signals : t # s => deliver'[t] = deliver[t]
        /\ deliver'[s].phase = "loop"
        /\ deliver'[s].todo = deliver[s].todo \ {e}
    BY <2>2
  <2>4. \A t \in Signals : FanOutMayMark(t, d)' => FanOutMayMark(t, d) /\ (t = s => d # e)
    BY <2>1, <2>3
  <2>5. CASE UNCHANGED retry
    <3>1. Releases(d) /\ (d = e => ~MayMark(s, d)')
      BY <2>4, <2>5 DEF Releases
    <3>. QED BY <2>1, <3>1, StatementsInHand DEF StaysInHand, Status
  <2>6. CASE NeedsRetry(deliver[s].outcome) /\ EnqueueRetry(e, 1)
    <3>1. PICK r \in RetryJobs :
             retry[r].phase = "free" /\ retry' = [retry EXCEPT ![r] = QueuedRetry(e, 1)]
      BY <2>6 DEF EnqueueRetry
    <3>2. \A q \in RetryJobs : RetryMayMark(q, d)' => RetryMayMark(q, d) \/ (q = r /\ d = e)
      BY <3>1 DEF QueuedRetry, RetryTypeOK
    <3>3. d # e => Releases(d)
      BY <2>4, <3>2 DEF Releases
    <3>4. d = e => Passes(d)
      BY <2>1, <2>4, <3>2 DEF Passes
    <3>5. status = "failed"
      BY <2>6 DEF NeedsRetry
    <3>6. Untouched(d) \/ Takes(d)
      BY <2>1, <3>5, StatementsInHand DEF Status
    <3>. QED BY <3>3, <3>4, <3>6 DEF StaysInHand
  <2>. QED BY <1>5, <2>5, <2>6 DEF DeliverMark
<1>6. CASE DeliverCommit(s)
  <2>1. Releases(d)
    BY <1>6 DEF DeliverCommit, Releases
  <2>. QED BY <1>6, <2>1, StatementsInHand DEF DeliverCommit, StaysInHand
<1>7. CASE DeliverRaises(s)
  <2>1. Releases(d)
    BY <1>7 DEF DeliverRaises, Stopped, Releases
  <2>. QED BY <1>7, <2>1, StatementsInHand DEF DeliverRaises, StaysInHand
<1>8. CASE DeliverStatementFails(s)
  <2> DEFINE e == deliver[s].cur
  <2>1. e \in Deliveries /\ MayMark(s, e)
    BY <1>8 DEF DeliverStatementFails, WorksOnItsRows
  <2>2. PICK r \in RetryJobs :
           retry[r].phase = "free" /\ retry' = [retry EXCEPT ![r] = QueuedRetry(e, 1)]
    BY <1>8 DEF DeliverStatementFails, EnqueueRetry
  <2>3. \A q \in RetryJobs : RetryMayMark(q, d)' => RetryMayMark(q, d) \/ (q = r /\ d = e)
    BY <2>2 DEF QueuedRetry, RetryTypeOK
  <2>4. \A t \in Signals : FanOutMayMark(t, d)' => FanOutMayMark(t, d) /\ t # s
    BY <1>8 DEF DeliverStatementFails, Stopped
  <2>5. d # e => Releases(d)
    BY <2>3, <2>4 DEF Releases
  <2>6. d = e => Passes(d)
    BY <2>1, <2>3, <2>4 DEF Passes
  <2>. QED BY <1>8, <2>5, <2>6, StatementsInHand DEF DeliverStatementFails, StaysInHand
<1>. QED BY <1>2, <1>3, <1>4, <1>5, <1>6, <1>7, <1>8 DEF DeliverStep

LEMMA RetryInHand ==
    ASSUME TypeOK, NEW r \in RetryJobs, NEW d \in Deliveries,
           RetryStep(r) \/ RetryRaises(r)
    PROVE  StaysInHand(d)
<1> USE DeliveryAssumption DEF TypeOK, RetryTypeOK, RetryJob, MayMark, FanOutMayMark, RetryMayMark, Jobs
<1> DEFINE e == retry[r].delivery
<1>1. CASE RetrySkips(r) \/ RetryStart(r) \/ RetrySend(r)
  <2>1. Releases(d)
    BY <1>1 DEF RetrySkips, RetryStart, RetrySend, FreeJob, Releases
  <2>2. Untouched(d)
    BY <1>1 DEF RetrySkips, RetryStart, RetrySend, rowVars, Untouched
  <2>. QED BY <2>1, <2>2 DEF StaysInHand
<1>2. CASE RetryMarksSent(r) \/ RetryGivesUp(r)
  <2>1. /\ e \in Deliveries
        /\ MayMark(r, e)
        /\ UNCHANGED <<row, deliver>>
        /\ retry' = [retry EXCEPT ![r].phase = "commit"]
        /\ UpdateStatus(r, e, "sent") \/ UpdateStatus(r, e, "dlq")
    BY <1>2 DEF RetryMarksSent, RetryGivesUp
  <2>2. Releases(d) /\ ~MayMark(r, d)'
    BY <2>1 DEF Releases
  <2>. QED BY <2>1, <2>2, StatementsInHand DEF StaysInHand, Status
<1>3. CASE RetryReschedules(r)
  <2>1. /\ e \in Deliveries
        /\ MayMark(r, e)
        /\ UNCHANGED <<row, deliver>>
        /\ UpdateStatus(r, e, "retrying")
        /\ retry[r].phase = "mark"
    BY <1>3 DEF RetryReschedules
  <2>2. PICK q \in RetryJobs :
           /\ retry[q].phase = "free"
           /\ retry' = [retry EXCEPT ![q] = QueuedRetry(e, retry[r].attempt + 1),
                                     ![r].phase = "commit"]
    BY <1>3 DEF RetryReschedules
  <2>3. /\ q # r
        /\ \A p \in RetryJobs : p # q /\ p # r => retry'[p] = retry[p]
        /\ retry'[r].phase = "commit"
        /\ retry'[q].delivery = e
    BY <2>1, <2>2 DEF QueuedRetry
  <2>4. \A p \in RetryJobs :
           RetryMayMark(p, d)' => p # r /\ ((p = q /\ d = e) \/ RetryMayMark(p, d))
    BY <2>3
  <2>5. d # e => Releases(d)
    BY <2>1, <2>4 DEF Releases
  <2>6. d = e => Passes(d)
    BY <2>1, <2>4 DEF Passes
  <2>7. Untouched(d) \/ Takes(d)
    BY <2>1, StatementsInHand DEF Status
  <2>. QED BY <2>5, <2>6, <2>7 DEF StaysInHand
<1>4. CASE RetryCommit(r)
  <2>1. Releases(d)
    BY <1>4 DEF RetryCommit, FreeJob, Releases
  <2>. QED BY <1>4, <2>1, StatementsInHand DEF RetryCommit, StaysInHand
<1>5. CASE RetryRaises(r)
  <2>1. Releases(d)
    BY <1>5 DEF RetryRaises, FreeJob, Releases
  <2>. QED BY <1>5, <2>1, StatementsInHand DEF RetryRaises, StaysInHand
<1>. QED BY <1>1, <1>2, <1>3, <1>4, <1>5 DEF RetryStep

LEMMA OneHandStep ==
    TypeOK /\ TypeOK' /\ WorksOnItsRows /\ OneHand /\ [Next]_vars => OneHand'
<1> SUFFICES ASSUME TypeOK, TypeOK', WorksOnItsRows, OneHand, [Next]_vars, crashes' = 0,
                    NEW d \in Deliveries
             PROVE  InOneHand(d)'
  BY DEF OneHand
<1>1. crashes \in Nat
  BY DeliveryAssumption DEF TypeOK, FaultTypeOK
<1>2. ~(crashes' = crashes + 1)
  BY <1>1
<1>3. ASSUME NEW s \in Signals, DeliverStep(s) \/ DeliverRaises(s) \/ DeliverStatementFails(s)
      PROVE  StaysInHand(d) /\ crashes' = crashes
  <2>1. crashes' = crashes
    BY <1>3 DEF DeliverStep, DeliverStart, DeliverSkipsMissing, DeliverFilters, DeliverPasses,
       DeliverSend, DeliverMark, DeliverCommit, DeliverRaises, DeliverStatementFails, faultVars
  <2>. QED BY <1>3, <2>1, FanOutInHand
<1>4. ASSUME NEW r \in RetryJobs, RetryStep(r) \/ RetryRaises(r)
      PROVE  StaysInHand(d) /\ crashes' = crashes
  <2>1. crashes' = crashes
    BY <1>4 DEF RetryStep, RetrySkips, RetryStart, RetrySend, RetryMarksSent, RetryReschedules,
       RetryGivesUp, RetryCommit, RetryRaises, faultVars
  <2>. QED BY <1>4, <2>1, RetryInHand
<1>5. ASSUME UNCHANGED <<deliver, retry>>, Untouched(d) PROVE StaysInHand(d)
  BY <1>5, MarkersKept DEF StaysInHand
<1>6. ASSUME NEW e \in Deliveries, DeleteRow(e) PROVE StaysInHand(d) /\ crashes' = crashes
  BY <1>5, <1>6 DEF DeleteRow, Untouched, TypeOK, RowTypeOK, Row
<1>7. ASSUME NEW c \in Channels, WindowExpires(c) \/ RecoveryTimeout(c)
      PROVE  StaysInHand(d) /\ crashes' = crashes
  BY <1>5, <1>7 DEF WindowExpires, RecoveryTimeout, rowVars, faultVars, Untouched
<1>8. ASSUME UNCHANGED vars PROVE StaysInHand(d) /\ crashes' = crashes
  BY <1>5, <1>8 DEF vars, Untouched
<1>9. StaysInHand(d) /\ crashes' = crashes
  BY <1>2, <1>3, <1>4, <1>6, <1>7, <1>8 DEF Next, DeliverDies, RetryDies
<1>. QED BY <1>9, InHandKept DEF OneHand

LEMMA OneHandInvariant == Spec => []OneHand
<1>1. Init => OneHand
  <2> SUFFICES ASSUME Init, NEW d \in Deliveries PROVE InOneHand(d)
    BY DEF OneHand
  <2>1. Unlocked(d) /\ row[d].status = "pending"
    BY DEF Init, Unlocked, NoDraft
  <2>2. \A job \in Jobs : MayMark(job, d) => job = SignalOf[d]
    BY DeliveryAssumption DEF Init, MayMark, FanOutMayMark, RetryMayMark, FreeJob
  <2>. QED BY <2>1, <2>2 DEF InOneHand
<1>2. TypeOK /\ TypeOK' /\ WorksOnItsRows /\ OneHand /\ [Next]_vars => OneHand'
  BY OneHandStep
<1>3. Budget => WorksOnItsRows
  BY DEF Budget
<1>. QED BY <1>1, <1>2, <1>3, TypeCorrect, BudgetInvariant, PTL DEF Spec

\* As long as no worker has died, a row once recorded sent stays sent: no retry chain
\* left over from a race with the fan-out re-opens it, and only its deletion removes it.
THEOREM SentRowsStaySent == Spec => SentIsFinalWithoutCrashes
<1>1. TypeOK /\ OneHand /\ [Next]_vars
        => [\A d \in Deliveries :
               row[d].status = "sent" /\ crashes = 0 => row'[d].status \in {"sent", "gone"}]_vars
  <2> SUFFICES ASSUME TypeOK, OneHand, [Next]_vars,
                      NEW d \in Deliveries, row[d].status = "sent", crashes = 0
               PROVE  row'[d].status \in {"sent", "gone"}
    OBVIOUS
  <2>1. Unlocked(d)
    BY DEF OneHand, InOneHand
  <2>2. CASE row' = row
    BY <2>2
  <2>3. ASSUME NEW job \in Jobs, Commit(job) PROVE row'[d] = row[d]
    BY <2>1, <2>3, DeliveryAssumption DEF Commit, Unlocked, Jobs
  <2>4. ASSUME NEW e \in Deliveries, DeleteRow(e) PROVE row'[d].status \in {"sent", "gone"}
    BY <2>4 DEF DeleteRow, TypeOK, RowTypeOK, Row
  <2>. QED BY <2>2, <2>3, <2>4, StepKinds DEF Kinds
<1>. QED BY <1>1, TypeCorrect, OneHandInvariant, PTL DEF Spec, SentIsFinalWithoutCrashes
=============================================================================
