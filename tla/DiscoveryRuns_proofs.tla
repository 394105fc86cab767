------------------------ MODULE DiscoveryRuns_proofs ------------------------
(***************************************************************************)
(* Proofs about DiscoveryRuns, for every set of topics, queries and        *)
(* batches and every bound on retries and faults.                          *)
(***************************************************************************)
EXTENDS DiscoveryRuns, FiniteSetTheorems, TLAPS

-----------------------------------------------------------------------------
(* Types *)

(* The rollup is one of the batch statuses that refresh_topic_run assigns. *)
LEMMA RollupType == \A b : Rollup(b) \in ActiveBatch \cup TerminalBatch
  BY DEF Rollup, ActiveBatch, TerminalBatch

(* A rollup written to a batch leaves the batch rows well typed. *)
LEMMA RefreshType ==
  ASSUME TypeOK, NEW b \in Batch, Refresh(b)
  PROVE  batch' \in [Batch -> BatchRow]
  BY RollupType DEF Refresh, TypeOK, BatchRow

(* A run that is finished with a terminal status is a run row. *)
LEMMA FinishedType ==
  ASSUME NEW row \in RunRow, NEW s \in TerminalRun
  PROVE  Finished(row, s) \in RunRow
  BY DEF Finished, RunRow

(* A message whose attempt ended is a job row. *)
LEMMA EndAttemptType ==
  ASSUME TypeOK, NEW r \in Run, EndAttempt(r)
  PROVE  job' \in [Run -> JobRow]
  BY BoundsAssumption DEF EndAttempt, TypeOK, JobRow, NoJob, Parked

(* Every step keeps the types. *)
LEMMA TypeStep == TypeOK /\ [Next]_vars => TypeOK'
<1> SUFFICES ASSUME TypeOK, [Next]_vars PROVE TypeOK'
  OBVIOUS
<1>1. ASSUME NEW b \in Batch, NEW t \in Topic, NEW route \in {"run_topic", "scheduler"},
              NEW qs \in SUBSET Query, CreateTopicRun(b, t, route, qs)
      PROVE  TypeOK'
  BY <1>1, FiniteAssumption, FS_Subset, FS_CardinalityType
  DEF CreateTopicRun, TypeOK, NewBatch, NewRun, BatchRow, RunRow, ApiRow, NoApi, ActiveBatch, ActiveRun, IntelStatus
<1>2. ASSUME NEW b \in Batch, NEW q \in Query, QueueRun(b, q)
      PROVE  TypeOK'
  BY <1>2, TopicOfAssumption
  DEF QueueRun, TypeOK, NewBatch, NewRun, BatchRow, RunRow, ApiRow, NoApi, ActiveBatch, ActiveRun, IntelStatus
<1>3. ASSUME NEW b \in Batch, NEW q \in Query, Enqueue(b, q)
      PROVE  TypeOK'
  <2>1. job' \in [Run -> JobRow]
    BY <1>3 DEF Enqueue, TypeOK, JobRow, Run
  <2>2. api' \in [Batch -> ApiRow]
    BY <1>3 DEF Enqueue, TypeOK, TakeChild, ApiRow, NoApi
  <2> QED
    BY <1>3, <2>1, <2>2 DEF Enqueue, TypeOK
<1>4. ASSUME NEW b \in Batch, NEW q \in Query, EnqueueFails(b, q)
      PROVE  TypeOK'
  BY <1>4
  DEF EnqueueFails, TypeOK, TakeChild, ApiRow
<1>5. ASSUME NEW b \in Batch, IncrementQueued(b)
      PROVE  TypeOK'
  <2>1. batch' \in [Batch -> BatchRow]
    BY <1>5 DEF IncrementQueued, TypeOK, BatchRow
  <2>2. api' \in [Batch -> ApiRow]
    BY <1>5 DEF IncrementQueued, TypeOK, ApiRow
  <2> QED
    BY <1>5, <2>1, <2>2 DEF IncrementQueued, TypeOK
<1>6. ASSUME NEW b \in Batch, MarkEnqueueFailed(b)
      PROVE  TypeOK'
  BY <1>6, FinishedType
  DEF MarkEnqueueFailed, TypeOK, TerminalRun, ApiRow
<1>7. ASSUME NEW b \in Batch, EnqueueFailedRefresh(b)
      PROVE  TypeOK'
  BY <1>7, RefreshType
  DEF EnqueueFailedRefresh, TypeOK, ApiRow, NoApi
<1>8. ASSUME NEW b \in Batch, CloseEnqueueing(b)
      PROVE  TypeOK'
  BY <1>8, RefreshType
  DEF CloseEnqueueing, TypeOK, ApiRow, NoApi
<1>9. ASSUME NEW b \in Batch, ApiRefreshRefused(b)
      PROVE  TypeOK'
  BY <1>9
  DEF ApiRefreshRefused, TypeOK, ApiRow, NoApi
<1>10. ASSUME NEW b \in Batch, AdminRefresh(b)
      PROVE  TypeOK'
  BY <1>10, RefreshType
  DEF AdminRefresh, TypeOK
<1>11. ASSUME NEW r \in Run, Deliver(r)
      PROVE  TypeOK'
  BY <1>11
  DEF Deliver, TypeOK, JobRow, RunRow
<1>12. ASSUME NEW r \in Run, Reject(r)
      PROVE  TypeOK'
  BY <1>12
  DEF Reject, TypeOK, JobRow
<1>13. ASSUME NEW r \in Run, MarkRunning(r)
      PROVE  TypeOK'
  BY <1>13
  DEF MarkRunning, TypeOK, JobRow, RunRow, ActiveRun
<1>14. ASSUME NEW r \in Run, MarkRunningRefused(r)
      PROVE  TypeOK'
  BY <1>14, EndAttemptType
  DEF MarkRunningRefused, TypeOK
<1>15. ASSUME NEW r \in Run, NEW s \in TerminalRun, Finalize(r, s)
      PROVE  TypeOK'
  BY <1>15, FinishedType
  DEF Finalize, TypeOK, JobRow
<1>16. ASSUME NEW r \in Run, WorkerRefresh(r)
      PROVE  TypeOK'
  BY <1>16, RefreshType
  DEF WorkerRefresh, TypeOK, JobRow, NoJob, Parked, Run
<1>17. ASSUME NEW r \in Run, RefreshRefused(r)
      PROVE  TypeOK'
  BY <1>17, EndAttemptType
  DEF RefreshRefused, TypeOK
<1>18. ASSUME NEW r \in Run, StartPipeline(r)
      PROVE  TypeOK'
  BY <1>18
  DEF StartPipeline, TypeOK, BatchRow, IntelStatus, JobRow, NoJob, Parked, Run
<1>19. ASSUME NEW r \in Run, FinalizeFailure(r)
      PROVE  TypeOK'
  BY <1>19, FinishedType
  DEF FinalizeFailure, TypeOK, JobRow, NoJob, Parked, TerminalRun
<1>20. ASSUME NEW r \in Run, FailureRefresh(r)
      PROVE  TypeOK'
  BY <1>20, RefreshType
  DEF FailureRefresh, TypeOK, JobRow, NoJob, Parked, Run
<1>21. ASSUME NEW rs \in SUBSET Run, RecoverStale(rs)
      PROVE  TypeOK'
  BY <1>21, FinishedType
  DEF RecoverStale, TypeOK, TerminalRun, Run
<1>22. ASSUME NEW b \in Batch, RecoveryRefresh(b)
      PROVE  TypeOK'
  BY <1>22, RefreshType
  DEF RecoveryRefresh, TypeOK
<1>23. ASSUME NEW b \in Batch, RecoveryRefreshRefused(b)
      PROVE  TypeOK'
  BY <1>23
  DEF RecoveryRefreshRefused, TypeOK
<1>24. ASSUME NEW b \in Batch, IncrementFails(b)
      PROVE  TypeOK'
  BY <1>24
  DEF IncrementFails, TypeOK, ApiRow
<1>25. ASSUME NEW b \in Batch, ApiCrash(b)
      PROVE  TypeOK'
  BY <1>25
  DEF ApiCrash, TypeOK, ApiRow, NoApi
<1>26. ASSUME NEW r \in Run, AttemptFails(r)
      PROVE  TypeOK'
  BY <1>26, EndAttemptType
  DEF AttemptFails, TypeOK
<1>27. ASSUME NEW r \in Run, WorkerCrash(r)
      PROVE  TypeOK'
  BY <1>27
  DEF WorkerCrash, TypeOK, Redelivered, Parked, JobRow
<1>28. ASSUME RecoveryCrash
      PROVE  TypeOK'
  BY <1>28
  DEF RecoveryCrash, TypeOK
<1>29. ASSUME NEW b \in Batch, NEW s \in {"processing", "ended"}, PipelineMoves(b, s)
      PROVE  TypeOK'
  BY <1>29
  DEF PipelineMoves, TypeOK, BatchRow, IntelStatus
<1>30. CASE UNCHANGED vars
  BY <1>30 DEF vars, TypeOK
<1> QED
  BY <1>1, <1>2, <1>3, <1>4, <1>5, <1>6, <1>7, <1>8, <1>9, <1>10, <1>11, <1>12, <1>13, <1>14, <1>15, <1>16, <1>17, <1>18, <1>19, <1>20, <1>21, <1>22, <1>23, <1>24, <1>25, <1>26, <1>27, <1>28, <1>29, <1>30
  DEF Next, Create, ApiStep, WorkerStep, RecoveryStep, Fault

(* The first state is well typed. *)
LEMMA TypeInit == Init => TypeOK
<1> SUFFICES ASSUME Init PROVE TypeOK
  OBVIOUS
<1>1. (CHOOSE t \in Topic : TRUE) \in Topic
  BY TopicOfAssumption
<1>2. batch \in [Batch -> BatchRow]
  BY <1>1 DEF Init, NewBatch, BatchRow, IntelStatus
<1>3. run \in [Run -> RunRow]
  BY DEF Init, NewRun, RunRow
<1>4. job \in [Run -> JobRow]
  BY DEF Init, NoJob, Parked, JobRow
<1>5. api \in [Batch -> ApiRow]
  BY DEF Init, NoApi, ApiRow
<1> QED
  BY <1>2, <1>3, <1>4, <1>5 DEF Init, TypeOK

(* Every reachable state is well typed. *)
THEOREM TypeCorrect == Spec => []TypeOK
  BY TypeInit, TypeStep, PTL DEF Spec

-----------------------------------------------------------------------------
(* How a step changes batches and runs *)

(* What a step does to them: nothing, one rollup, or one of the other        *)
(* transactions.                                                            *)
StepEffect ==
    \/ UNCHANGED <<batch, run>>
    \/ \E b \in Batch : Refresh(b) /\ UNCHANGED run
    \/ \E b \in Batch : Create(b)
    \/ \E b \in Batch : MarkEnqueueFailed(b)
    \/ \E b \in Batch : IncrementQueued(b)
    \/ \E r \in Run : MarkRunning(r)
    \/ \E r \in Run, s \in TerminalRun : Finalize(r, s)
    \/ \E r \in Run : FinalizeFailure(r)
    \/ \E r \in Run : StartPipeline(r)
    \/ \E rs \in SUBSET Run : RecoverStale(rs)
    \/ \E b \in Batch, s \in {"processing", "ended"} : PipelineMoves(b, s)

(* Every step has one of these effects. *)
LEMMA StepCases == [Next]_vars => StepEffect
<1>1. CASE UNCHANGED vars
  BY <1>1 DEF vars, StepEffect
<1>2. ASSUME NEW b \in Batch, Create(b) \/ ApiStep(b) \/ AdminRefresh(b)
      PROVE  StepEffect
  BY <1>2 DEF StepEffect, ApiStep, Enqueue, EnqueueFails, EnqueueFailedRefresh,
      CloseEnqueueing, ApiRefreshRefused, AdminRefresh
<1>3. ASSUME NEW r \in Run, WorkerStep(r)
      PROVE  StepEffect
  <2>1. r[1] \in Batch
    BY DEF Run
  <2> QED
    BY <1>3, <2>1 DEF StepEffect, WorkerStep, Deliver, Reject, MarkRunningRefused,
        WorkerRefresh, RefreshRefused, FailureRefresh
<1>4. CASE RecoveryStep
  BY <1>4 DEF StepEffect, RecoveryStep, RecoveryRefresh, RecoveryRefreshRefused
<1>5. CASE Fault
  BY <1>5 DEF StepEffect, Fault, IncrementFails, ApiCrash, AttemptFails,
      WorkerCrash, RecoveryCrash
<1> QED
  BY <1>1, <1>2, <1>3, <1>4, <1>5 DEF Next, StepEffect

(* A new batch is queued and not yet analysed, and creating it changes no    *)
(* other batch and no child of another batch.                               *)
LEMMA CreateEffect ==
  ASSUME TypeOK, NEW b \in Batch, Create(b)
  PROVE  /\ batch[b].status = "absent"
         /\ batch'[b].status = "queued" /\ batch'[b].intel = "not_started"
         /\ \A c \in Batch : c # b => batch'[c] = batch[c]
         /\ \A r \in Run : r[1] # b => run'[r] = run[r]
<1>1. ASSUME NEW t \in Topic, NEW route \in {"run_topic", "scheduler"},
             NEW qs \in SUBSET Query, CreateTopicRun(b, t, route, qs)
      PROVE  /\ batch[b].status = "absent"
             /\ batch'[b].status = "queued" /\ batch'[b].intel = "not_started"
             /\ \A c \in Batch : c # b => batch'[c] = batch[c]
             /\ \A r \in Run : r[1] # b => run'[r] = run[r]
  BY <1>1 DEF CreateTopicRun, NewBatch, TypeOK
<1>2. ASSUME NEW q \in Query, QueueRun(b, q)
      PROVE  /\ batch[b].status = "absent"
             /\ batch'[b].status = "queued" /\ batch'[b].intel = "not_started"
             /\ \A c \in Batch : c # b => batch'[c] = batch[c]
             /\ \A r \in Run : r[1] # b => run'[r] = run[r]
  BY <1>2 DEF QueueRun, NewBatch, TypeOK
<1> QED
  BY <1>1, <1>2 DEF Create

-----------------------------------------------------------------------------
(* Batches, children and messages exist together *)

(* The rows that a step adds or removes, batches and runs.                   *)
SameRuns == \A r \in Run : run'[r].status = "absent" <=> run[r].status = "absent"
SameBatches ==
    \A b \in Batch : batch'[b].status = "absent" =>
        batch[b].status = "absent" /\ batch'[b].intel = batch[b].intel

(* Without new runs, a step that only advances the processes of existing    *)
(* batches keeps every child with its batch.                                *)
LEMMA BatchesFirstKept ==
  ASSUME BatchesFirst, SameBatches, SameRuns,
         \A b \in Batch : api'[b] = api[b] \/ batch'[b].status # "absent"
  PROVE  BatchesFirst'
<1>1. \A b \in Batch, q \in Query : <<b, q>> \in Run
  BY DEF Run
<1> QED
  BY <1>1 DEF BatchesFirst, SameBatches, SameRuns

(* Without new runs, a step that only advances the messages of existing     *)
(* runs and takes children from the enqueueing process keeps every message  *)
(* with its run.                                                            *)
LEMMA RunsFirstKept ==
  ASSUME RunsFirst, SameRuns,
         \A r \in Run : job'[r] = job[r] \/ run[r].status # "absent",
         \A b \in Batch : api'[b].left \subseteq api[b].left,
         \A b \in Batch : api[b].left \subseteq Query
  PROVE  RunsFirst'
<1>1. \A b \in Batch : \A q \in api[b].left : <<b, q>> \in Run
  BY DEF Run
<1> QED
  BY <1>1 DEF RunsFirst, SameRuns

(* No step makes a message without its run, or a child without its batch.    *)
LEMMA RowsExistStep == TypeOK /\ RowsExist /\ [Next]_vars => RowsExist'
<1> SUFFICES ASSUME TypeOK, RowsExist, [Next]_vars PROVE RowsExist'
  OBVIOUS
<1> USE DEF RowsExist
<1>0. \A b \in Batch : api[b].left \subseteq Query
  BY DEF TypeOK, ApiRow
<1>1. CASE UNCHANGED <<batch, run, job, api>>
  BY <1>1 DEF BatchesFirst, RunsFirst
<1>2. ASSUME NEW b \in Batch, NEW t \in Topic, NEW route \in {"run_topic", "scheduler"},
              NEW qs \in SUBSET Query, CreateTopicRun(b, t, route, qs)
      PROVE  RowsExist'
  <2>1. BatchesFirst'
    BY <1>2
    DEF CreateTopicRun, TypeOK, NewBatch, NewRun, NoApi, BatchesFirst, Run
  <2>2. \A r \in Run : run'[r].status = "absent" => run[r].status = "absent"
    BY <1>2 DEF CreateTopicRun, NewRun
  <2>3. ASSUME NEW c \in Batch, NEW q \in api'[c].left
        PROVE  run'[<<c, q>>].status # "absent"
    <3>1. CASE c = b
      <4>1. q \in qs
        BY <1>2, <3>1 DEF CreateTopicRun, NoApi, TypeOK
      <4>2. <<c, q>> \in Run
        BY <4>1 DEF Run
      <4> QED
        BY <1>2, <3>1, <4>1, <4>2 DEF CreateTopicRun, NewRun
    <3>2. CASE c # b
      <4>1. q \in api[c].left
        BY <1>2, <3>2 DEF CreateTopicRun, TypeOK
      <4>2. <<c, q>> \in Run
        BY <1>0, <4>1 DEF Run
      <4> QED
        BY <4>1, <4>2, <2>2 DEF RunsFirst
    <3> QED
      BY <3>1, <3>2
  <2>4. RunsFirst'
    BY <1>2, <2>2, <2>3 DEF CreateTopicRun, RunsFirst
  <2> QED
    BY <2>1, <2>4
<1>3. ASSUME NEW b \in Batch, NEW q \in Query, QueueRun(b, q)
      PROVE  RowsExist'
  <2>1. BatchesFirst'
    BY <1>3
    DEF QueueRun, TypeOK, NewBatch, NewRun, NoApi, BatchesFirst, Run
  <2>2. RunsFirst'
    BY <1>3
    DEF QueueRun, TypeOK, NewBatch, NewRun, NoApi, RunsFirst, Run
  <2> QED
    BY <2>1, <2>2
<1>4. ASSUME NEW b \in Batch, NEW q \in Query, Enqueue(b, q)
      PROVE  RowsExist'
  <2>1. SameBatches
    BY <1>4 DEF Enqueue, SameBatches
  <2>2. SameRuns
    BY <1>4 DEF Enqueue, SameRuns
  <2>3. \A c \in Batch : api'[c] = api[c] \/ batch'[c].status # "absent"
    BY <1>4 DEF Enqueue, BatchesFirst, NoApi, TypeOK
  <2>4. \A c \in Batch : api'[c].left \subseteq api[c].left
    BY <1>4 DEF Enqueue, TakeChild, NoApi, TypeOK
  <2>5. \A s \in Run : job'[s] = job[s] \/ run[s].status # "absent"
    BY <1>4 DEF Enqueue, RunsFirst, TypeOK
  <2> QED
    BY <1>0, <2>1, <2>2, <2>3, <2>4, <2>5, BatchesFirstKept, RunsFirstKept
<1>5. ASSUME NEW b \in Batch, NEW q \in Query, EnqueueFails(b, q)
      PROVE  RowsExist'
  BY <1>5
  DEF EnqueueFails, BatchesFirst, RunsFirst, TypeOK, TakeChild, NoApi
<1>6. ASSUME NEW b \in Batch, IncrementQueued(b)
      PROVE  RowsExist'
  <2>1. SameBatches
    BY <1>6 DEF IncrementQueued, SameBatches, TypeOK, BatchRow
  <2>2. SameRuns
    BY <1>6 DEF IncrementQueued, SameRuns
  <2>3. \A c \in Batch : api'[c] = api[c] \/ batch'[c].status # "absent"
    BY <1>6 DEF IncrementQueued, BatchesFirst, NoApi, TypeOK, BatchRow
  <2>4. \A c \in Batch : api'[c].left \subseteq api[c].left
    BY <1>6 DEF IncrementQueued, TypeOK, ApiRow
  <2>5. \A s \in Run : job'[s] = job[s] \/ run[s].status # "absent"
    BY <1>6 DEF IncrementQueued
  <2> QED
    BY <1>0, <2>1, <2>2, <2>3, <2>4, <2>5, BatchesFirstKept, RunsFirstKept
<1>7. ASSUME NEW b \in Batch, MarkEnqueueFailed(b)
      PROVE  RowsExist'
  <2>1. SameBatches
    BY <1>7 DEF MarkEnqueueFailed, SameBatches
  <2>2. SameRuns
    BY <1>7 DEF MarkEnqueueFailed, SameRuns, Finished, TypeOK
  <2>3. \A c \in Batch : api'[c] = api[c] \/ batch'[c].status # "absent"
    BY <1>7 DEF MarkEnqueueFailed, BatchesFirst, NoApi, TypeOK
  <2>4. \A c \in Batch : api'[c].left \subseteq api[c].left
    BY <1>7 DEF MarkEnqueueFailed, TypeOK, ApiRow
  <2>5. \A s \in Run : job'[s] = job[s] \/ run[s].status # "absent"
    BY <1>7 DEF MarkEnqueueFailed
  <2> QED
    BY <1>0, <2>1, <2>2, <2>3, <2>4, <2>5, BatchesFirstKept, RunsFirstKept
<1>8. ASSUME NEW b \in Batch, EnqueueFailedRefresh(b)
      PROVE  RowsExist'
  <2>1. SameBatches
    BY <1>8, RollupType DEF EnqueueFailedRefresh, Refresh, TypeOK, ActiveBatch, TerminalBatch, SameBatches
  <2>2. SameRuns
    BY <1>8, RollupType DEF EnqueueFailedRefresh, SameRuns
  <2>3. \A c \in Batch : api'[c] = api[c] \/ batch'[c].status # "absent"
    BY <1>8, RollupType DEF EnqueueFailedRefresh, Refresh, TypeOK, ActiveBatch, TerminalBatch
  <2>4. \A c \in Batch : api'[c].left \subseteq api[c].left
    BY <1>8, RollupType DEF EnqueueFailedRefresh, TypeOK, ApiRow, NoApi
  <2>5. \A s \in Run : job'[s] = job[s] \/ run[s].status # "absent"
    BY <1>8, RollupType DEF EnqueueFailedRefresh
  <2> QED
    BY <1>0, <2>1, <2>2, <2>3, <2>4, <2>5, BatchesFirstKept, RunsFirstKept
<1>9. ASSUME NEW b \in Batch, CloseEnqueueing(b)
      PROVE  RowsExist'
  <2>1. SameBatches
    BY <1>9, RollupType DEF CloseEnqueueing, Refresh, TypeOK, ActiveBatch, TerminalBatch, SameBatches
  <2>2. SameRuns
    BY <1>9, RollupType DEF CloseEnqueueing, SameRuns
  <2>3. \A c \in Batch : api'[c] = api[c] \/ batch'[c].status # "absent"
    BY <1>9, RollupType DEF CloseEnqueueing, Refresh, TypeOK, ActiveBatch, TerminalBatch
  <2>4. \A c \in Batch : api'[c].left \subseteq api[c].left
    BY <1>9, RollupType DEF CloseEnqueueing, TypeOK, ApiRow, NoApi
  <2>5. \A s \in Run : job'[s] = job[s] \/ run[s].status # "absent"
    BY <1>9, RollupType DEF CloseEnqueueing
  <2> QED
    BY <1>0, <2>1, <2>2, <2>3, <2>4, <2>5, BatchesFirstKept, RunsFirstKept
<1>10. ASSUME NEW b \in Batch, ApiRefreshRefused(b)
      PROVE  RowsExist'
  BY <1>10
  DEF ApiRefreshRefused, BatchesFirst, RunsFirst, TypeOK, NoApi
<1>11. ASSUME NEW b \in Batch, AdminRefresh(b)
      PROVE  RowsExist'
  BY <1>11, RollupType
  DEF AdminRefresh, BatchesFirst, RunsFirst, TypeOK, Refresh, ActiveBatch, TerminalBatch
<1>12. ASSUME NEW r \in Run, Deliver(r)
      PROVE  RowsExist'
  BY <1>12
  DEF Deliver, BatchesFirst, RunsFirst, TypeOK, NoJob, Parked
<1>13. ASSUME NEW r \in Run, Reject(r)
      PROVE  RowsExist'
  BY <1>13
  DEF Reject, BatchesFirst, RunsFirst, TypeOK, NoJob, Parked
<1>14. ASSUME NEW r \in Run, MarkRunning(r)
      PROVE  RowsExist'
  BY <1>14
  DEF MarkRunning, BatchesFirst, RunsFirst, TypeOK, NoJob, Parked
<1>15. ASSUME NEW r \in Run, MarkRunningRefused(r)
      PROVE  RowsExist'
  BY <1>15
  DEF MarkRunningRefused, BatchesFirst, RunsFirst, TypeOK, EndAttempt, NoJob, Parked
<1>16. ASSUME NEW r \in Run, NEW s \in TerminalRun, Finalize(r, s)
      PROVE  RowsExist'
  <2>1. SameBatches
    BY <1>16 DEF Finalize, SameBatches
  <2>2. SameRuns
    BY <1>16 DEF Finalize, SameRuns, Finished, TypeOK, RunsFirst, NoJob, Parked, TerminalRun
  <2>3. \A c \in Batch : api'[c] = api[c] \/ batch'[c].status # "absent"
    BY <1>16 DEF Finalize
  <2>4. \A c \in Batch : api'[c].left \subseteq api[c].left
    BY <1>16 DEF Finalize
  <2>5. \A t \in Run : job'[t] = job[t] \/ run[t].status # "absent"
    BY <1>16 DEF Finalize, TypeOK, RunsFirst, NoJob, Parked
  <2> QED
    BY <1>0, <2>1, <2>2, <2>3, <2>4, <2>5, BatchesFirstKept, RunsFirstKept
<1>17. ASSUME NEW r \in Run, WorkerRefresh(r)
      PROVE  RowsExist'
  BY <1>17, RollupType
  DEF WorkerRefresh, BatchesFirst, RunsFirst, TypeOK, Refresh, NoJob, Parked, ActiveBatch, TerminalBatch
<1>18. ASSUME NEW r \in Run, RefreshRefused(r)
      PROVE  RowsExist'
  BY <1>18
  DEF RefreshRefused, BatchesFirst, RunsFirst, TypeOK, EndAttempt, NoJob, Parked
<1>19. ASSUME NEW r \in Run, StartPipeline(r)
      PROVE  RowsExist'
  <2>1. SameBatches
    BY <1>19 DEF StartPipeline, SameBatches, TypeOK, BatchRow, TerminalBatch
  <2>2. SameRuns
    BY <1>19 DEF StartPipeline, SameRuns
  <2>3. \A c \in Batch : api'[c] = api[c] \/ batch'[c].status # "absent"
    BY <1>19 DEF StartPipeline
  <2>4. \A c \in Batch : api'[c].left \subseteq api[c].left
    BY <1>19 DEF StartPipeline
  <2>5. \A s \in Run : job'[s] = job[s] \/ run[s].status # "absent"
    BY <1>19 DEF StartPipeline, TypeOK, RunsFirst, NoJob, Parked
  <2> QED
    BY <1>0, <2>1, <2>2, <2>3, <2>4, <2>5, BatchesFirstKept, RunsFirstKept
<1>20. ASSUME NEW r \in Run, FinalizeFailure(r)
      PROVE  RowsExist'
  <2>1. SameBatches
    BY <1>20 DEF FinalizeFailure, SameBatches
  <2>2. SameRuns
    BY <1>20 DEF FinalizeFailure, SameRuns, Finished, TypeOK, ActiveRun
  <2>3. \A c \in Batch : api'[c] = api[c] \/ batch'[c].status # "absent"
    BY <1>20 DEF FinalizeFailure
  <2>4. \A c \in Batch : api'[c].left \subseteq api[c].left
    BY <1>20 DEF FinalizeFailure
  <2>5. \A s \in Run : job'[s] = job[s] \/ run[s].status # "absent"
    BY <1>20 DEF FinalizeFailure, TypeOK, RunsFirst, NoJob, Parked
  <2> QED
    BY <1>0, <2>1, <2>2, <2>3, <2>4, <2>5, BatchesFirstKept, RunsFirstKept
<1>21. ASSUME NEW r \in Run, FailureRefresh(r)
      PROVE  RowsExist'
  BY <1>21, RollupType
  DEF FailureRefresh, BatchesFirst, RunsFirst, TypeOK, Refresh, NoJob, Parked, ActiveBatch, TerminalBatch
<1>22. ASSUME NEW rs \in SUBSET Run, RecoverStale(rs)
      PROVE  RowsExist'
  <2>1. SameBatches
    BY <1>22 DEF RecoverStale, SameBatches
  <2>2. SameRuns
    BY <1>22 DEF RecoverStale, SameRuns, Finished, TypeOK, ActiveRun
  <2>3. \A c \in Batch : api'[c] = api[c] \/ batch'[c].status # "absent"
    BY <1>22 DEF RecoverStale
  <2>4. \A c \in Batch : api'[c].left \subseteq api[c].left
    BY <1>22 DEF RecoverStale
  <2>5. \A s \in Run : job'[s] = job[s] \/ run[s].status # "absent"
    BY <1>22 DEF RecoverStale
  <2> QED
    BY <1>0, <2>1, <2>2, <2>3, <2>4, <2>5, BatchesFirstKept, RunsFirstKept
<1>23. ASSUME NEW b \in Batch, RecoveryRefresh(b)
      PROVE  RowsExist'
  BY <1>23, RollupType
  DEF RecoveryRefresh, BatchesFirst, RunsFirst, TypeOK, Refresh, ActiveBatch, TerminalBatch
<1>24. ASSUME NEW b \in Batch, IncrementFails(b)
      PROVE  RowsExist'
  <2>1. SameBatches
    BY <1>24 DEF IncrementFails, SameBatches
  <2>2. SameRuns
    BY <1>24 DEF IncrementFails, SameRuns
  <2>3. \A c \in Batch : api'[c] = api[c] \/ batch'[c].status # "absent"
    BY <1>24 DEF IncrementFails, BatchesFirst, NoApi, TypeOK
  <2>4. \A c \in Batch : api'[c].left \subseteq api[c].left
    BY <1>24 DEF IncrementFails, TypeOK, ApiRow
  <2>5. \A s \in Run : job'[s] = job[s] \/ run[s].status # "absent"
    BY <1>24 DEF IncrementFails
  <2> QED
    BY <1>0, <2>1, <2>2, <2>3, <2>4, <2>5, BatchesFirstKept, RunsFirstKept
<1>25. ASSUME NEW b \in Batch, ApiCrash(b)
      PROVE  RowsExist'
  BY <1>25
  DEF ApiCrash, BatchesFirst, RunsFirst, TypeOK, NoApi
<1>26. ASSUME NEW r \in Run, AttemptFails(r)
      PROVE  RowsExist'
  BY <1>26
  DEF AttemptFails, BatchesFirst, RunsFirst, TypeOK, EndAttempt, NoJob, Parked
<1>27. ASSUME NEW r \in Run, WorkerCrash(r)
      PROVE  RowsExist'
  BY <1>27
  DEF WorkerCrash, BatchesFirst, RunsFirst, TypeOK, Redelivered, NoJob, Parked
<1>28. ASSUME NEW b \in Batch, NEW s \in {"processing", "ended"}, PipelineMoves(b, s)
      PROVE  RowsExist'
  <2>1. SameBatches
    BY <1>28 DEF PipelineMoves, SameBatches, TypeOK, BatchRow, BatchesFirst, ActiveIntel
  <2>2. SameRuns
    BY <1>28 DEF PipelineMoves, SameRuns
  <2>3. \A c \in Batch : api'[c] = api[c] \/ batch'[c].status # "absent"
    BY <1>28 DEF PipelineMoves
  <2>4. \A c \in Batch : api'[c].left \subseteq api[c].left
    BY <1>28 DEF PipelineMoves
  <2>5. \A t \in Run : job'[t] = job[t] \/ run[t].status # "absent"
    BY <1>28 DEF PipelineMoves
  <2> QED
    BY <1>0, <2>1, <2>2, <2>3, <2>4, <2>5, BatchesFirstKept, RunsFirstKept
<1> QED
  BY <1>1, <1>2, <1>3, <1>4, <1>5, <1>6, <1>7, <1>8, <1>9, <1>10, <1>11, <1>12, <1>13, <1>14, <1>15, <1>16, <1>17, <1>18, <1>19, <1>20, <1>21, <1>22, <1>23, <1>24, <1>25, <1>26, <1>27, <1>28
  DEF Next, Create, ApiStep, WorkerStep, RecoveryStep, Fault, RecoveryRefreshRefused,
      RecoveryCrash, vars

(* No step removes a batch. *)
LEMMA BatchesStay ==
  ASSUME TypeOK, [Next]_vars, NEW b \in Batch, batch[b].status # "absent"
  PROVE  batch'[b].status # "absent"
<1>1. ASSUME NEW c \in Batch, Refresh(c)
      PROVE  batch'[b].status # "absent"
  BY <1>1, RollupType DEF Refresh, TypeOK, BatchRow, ActiveBatch, TerminalBatch
<1>2. ASSUME NEW c \in Batch, Create(c)
      PROVE  batch'[b].status # "absent"
  BY <1>2, CreateEffect
<1>3. CASE batch' = batch
  BY <1>3
<1>4. ASSUME NEW c \in Batch, IncrementQueued(c)
      PROVE  batch'[b].status = batch[b].status
  BY <1>4 DEF IncrementQueued, TypeOK, BatchRow
<1>5. ASSUME NEW s \in Run, StartPipeline(s)
      PROVE  batch'[b].status = batch[b].status
  BY <1>5 DEF StartPipeline, TypeOK, BatchRow
<1>6. ASSUME NEW c \in Batch, NEW i \in {"processing", "ended"}, PipelineMoves(c, i)
      PROVE  batch'[b].status = batch[b].status
  BY <1>6 DEF PipelineMoves, TypeOK, BatchRow
<1> QED
  BY <1>1, <1>2, <1>3, <1>4, <1>5, <1>6, StepCases DEF StepEffect,
      MarkEnqueueFailed, MarkRunning, Finalize, FinalizeFailure, RecoverStale

(* Stale recovery visits the batches of runs it has found. *)
LEMMA RecoveryExistsStep ==
  ASSUME TypeOK, RowsExist, RecoveryExists, [Next]_vars
  PROVE  RecoveryExists'
<1> SUFFICES ASSUME NEW b \in recovery', b \in Batch PROVE batch[b].status # "absent"
  <2>1. recovery' \subseteq Batch
    BY TypeStep DEF TypeOK
  <2> QED
    BY <2>1, BatchesStay DEF RecoveryExists
<1>1. CASE b \in recovery
  BY <1>1 DEF RecoveryExists
<1>2. CASE b \notin recovery
  <2>1. PICK rs \in SUBSET Run : RecoverStale(rs)
    BY <1>2 DEF Next, Create, ApiStep, WorkerStep, RecoveryStep, Fault, vars,
        CreateTopicRun, QueueRun, Enqueue, EnqueueFails, IncrementQueued,
        MarkEnqueueFailed, EnqueueFailedRefresh, CloseEnqueueing, ApiRefreshRefused,
        AdminRefresh, Deliver, Reject, MarkRunning, MarkRunningRefused, Finalize,
        WorkerRefresh, RefreshRefused, StartPipeline, FinalizeFailure, FailureRefresh,
        RecoveryRefresh, RecoveryRefreshRefused, RecoveryCrash, IncrementFails,
        ApiCrash, AttemptFails, WorkerCrash, PipelineMoves
  <2>2. PICK r \in rs : r[1] = b
    BY <1>2, <2>1 DEF RecoverStale
  <2>3. run[r].status # "absent" /\ r = <<b, r[2]>> /\ r[2] \in Query
    BY <2>1, <2>2 DEF RecoverStale, ActiveRun, Run
  <2> QED
    BY <2>3 DEF RowsExist, BatchesFirst
<1> QED
  BY <1>1, <1>2

-----------------------------------------------------------------------------
(* Finishes, statuses and the worker's clock *)

(* The statuses and the finishes of a run follow the worker that executes   *)
(* it: no step breaks RowsTimed.                                            *)
LEMMA RowsTimedStep == TypeOK /\ RowsExist /\ RowsTimed /\ [Next]_vars => RowsTimed'
<1> SUFFICES ASSUME TypeOK, RowsExist, RowsTimed, [Next]_vars PROVE RowsTimed'
  OBVIOUS
<1>1. CASE run' = run /\ job' = job
  BY <1>1 DEF RowsTimed
<1>2. ASSUME NEW b \in Batch, NEW t \in Topic, NEW route \in {"run_topic", "scheduler"},
              NEW qs \in SUBSET Query, CreateTopicRun(b, t, route, qs)
      PROVE  RowsTimed'
  BY <1>2
  DEF CreateTopicRun, RowsTimed, TypeOK, NewRun, TerminalRun, RowsExist, BatchesFirst, RunsFirst, NoJob, Parked, Run
<1>3. ASSUME NEW b \in Batch, NEW q \in Query, QueueRun(b, q)
      PROVE  RowsTimed'
  BY <1>3
  DEF QueueRun, RowsTimed, TypeOK, NewRun, TerminalRun, RowsExist, BatchesFirst, RunsFirst, NoJob, Parked, Run
<1>4. ASSUME NEW b \in Batch, NEW q \in Query, Enqueue(b, q)
      PROVE  RowsTimed'
  BY <1>4
  DEF Enqueue, RowsTimed, TypeOK, JobRow
<1>5. ASSUME NEW b \in Batch, MarkEnqueueFailed(b)
      PROVE  RowsTimed'
  BY <1>5
  DEF MarkEnqueueFailed, RowsTimed, TypeOK, Finished, RunRow, TerminalRun
<1>6. ASSUME NEW r \in Run, Deliver(r)
      PROVE  RowsTimed'
  BY <1>6
  DEF Deliver, RowsTimed, TypeOK, JobRow, RunRow
<1>7. ASSUME NEW r \in Run, Reject(r)
      PROVE  RowsTimed'
  BY <1>7
  DEF Reject, RowsTimed, TypeOK, JobRow, RunRow
<1>8. ASSUME NEW r \in Run, MarkRunning(r)
      PROVE  RowsTimed'
  BY <1>8
  DEF MarkRunning, RowsTimed, TypeOK, RunRow, JobRow, TerminalRun
<1>9. ASSUME NEW r \in Run, MarkRunningRefused(r)
      PROVE  RowsTimed'
  BY <1>9
  DEF MarkRunningRefused, RowsTimed, TypeOK, EndAttempt, NoJob, Parked
<1>10. ASSUME NEW r \in Run, NEW s \in TerminalRun, Finalize(r, s)
      PROVE  RowsTimed'
  BY <1>10
  DEF Finalize, RowsTimed, TypeOK, Finished, RunRow, JobRow
<1>11. ASSUME NEW r \in Run, WorkerRefresh(r)
      PROVE  RowsTimed'
  BY <1>11
  DEF WorkerRefresh, RowsTimed, TypeOK, NoJob, Parked
<1>12. ASSUME NEW r \in Run, RefreshRefused(r)
      PROVE  RowsTimed'
  BY <1>12
  DEF RefreshRefused, RowsTimed, TypeOK, EndAttempt, NoJob, Parked
<1>13. ASSUME NEW r \in Run, StartPipeline(r)
      PROVE  RowsTimed'
  BY <1>13
  DEF StartPipeline, RowsTimed, TypeOK, NoJob, Parked
<1>14. ASSUME NEW r \in Run, FinalizeFailure(r)
      PROVE  RowsTimed'
  BY <1>14
  DEF FinalizeFailure, RowsTimed, TypeOK, Finished, RunRow, JobRow, TerminalRun, NoJob, Parked
<1>15. ASSUME NEW r \in Run, FailureRefresh(r)
      PROVE  RowsTimed'
  BY <1>15
  DEF FailureRefresh, RowsTimed, TypeOK, NoJob, Parked
<1>16. ASSUME NEW rs \in SUBSET Run, RecoverStale(rs)
      PROVE  RowsTimed'
  BY <1>16
  DEF RecoverStale, RowsTimed, TypeOK, Finished, RunRow, TerminalRun
<1>17. ASSUME NEW r \in Run, AttemptFails(r)
      PROVE  RowsTimed'
  BY <1>17
  DEF AttemptFails, RowsTimed, TypeOK, EndAttempt, NoJob, Parked
<1>18. ASSUME NEW r \in Run, WorkerCrash(r)
      PROVE  RowsTimed'
  BY <1>18
  DEF WorkerCrash, RowsTimed, TypeOK, Redelivered, Parked
<1> QED
  BY <1>1, <1>2, <1>3, <1>4, <1>5, <1>6, <1>7, <1>8, <1>9, <1>10, <1>11, <1>12, <1>13, <1>14, <1>15, <1>16, <1>17, <1>18
  DEF Next, Create, ApiStep, WorkerStep, RecoveryStep, Fault, EnqueueFails,
      IncrementQueued, EnqueueFailedRefresh, CloseEnqueueing, ApiRefreshRefused,
      AdminRefresh, RecoveryRefresh, RecoveryRefreshRefused, RecoveryCrash,
      IncrementFails, ApiCrash, PipelineMoves, vars

-----------------------------------------------------------------------------
(* Settled children stay settled *)

(* A run that is settled in an existing batch stays settled. *)
LEMMA SettledRunStays ==
  ASSUME TypeOK, RowsExist, RowsTimed, [Next]_vars,
         NEW r \in Run, SettledRun(r), batch[r[1]].status # "absent"
  PROVE  SettledRun(r)'
<1>1. r[1] \in Batch /\ run[r] \in RunRow
  BY DEF Run, TypeOK
<1>2. CASE run' = run
  BY <1>2 DEF SettledRun
<1>3. ASSUME NEW b \in Batch, Create(b)
      PROVE  SettledRun(r)'
  <2>1. batch[b].status = "absent"
    BY <1>3 DEF Create, CreateTopicRun, QueueRun
  <2>2. run'[r] = run[r]
    <3>1. CASE \E t \in Topic, route \in {"run_topic", "scheduler"}, qs \in SUBSET Query :
                  CreateTopicRun(b, t, route, qs)
      BY <2>1, <3>1 DEF CreateTopicRun, TypeOK
    <3>2. CASE \E q \in Query : QueueRun(b, q)
      BY <2>1, <3>2 DEF QueueRun, TypeOK
    <3> QED
      BY <1>3, <3>1, <3>2 DEF Create
  <2> QED
    BY <2>2 DEF SettledRun
<1>4. ASSUME NEW b \in Batch, MarkEnqueueFailed(b)
      PROVE  SettledRun(r)'
  BY <1>1, <1>4 DEF MarkEnqueueFailed, SettledRun, TypeOK, Finished, TerminalRun
<1>5. ASSUME NEW s \in Run, MarkRunning(s)
      PROVE  SettledRun(r)'
  BY <1>1, <1>5 DEF MarkRunning, SettledRun, TypeOK, RowsExist, RunsFirst, RowsTimed, NoJob,
      Parked, RunRow
<1>6. ASSUME NEW s \in Run, NEW t \in TerminalRun, Finalize(s, t)
      PROVE  SettledRun(r)'
  BY <1>1, <1>6 DEF Finalize, SettledRun, TypeOK, Finished
<1>7. ASSUME NEW s \in Run, FinalizeFailure(s)
      PROVE  SettledRun(r)'
  BY <1>1, <1>7 DEF FinalizeFailure, SettledRun, TypeOK, Finished, TerminalRun
<1>8. ASSUME NEW rs \in SUBSET Run, RecoverStale(rs)
      PROVE  SettledRun(r)'
  BY <1>1, <1>8 DEF RecoverStale, SettledRun, TypeOK, Finished, TerminalRun
<1> QED
  BY <1>2, <1>3, <1>4, <1>5, <1>6, <1>7, <1>8, StepCases
  DEF StepEffect, IncrementQueued, StartPipeline, PipelineMoves

(* TerminalBatchSettled: the rollup makes a batch terminal only when every   *)
(* child is, and the children of a terminal batch stay settled.              *)
LEMMA TerminalBatchSettledStep ==
  ASSUME TypeOK, RowsExist, RowsTimed, TerminalBatchSettled, [Next]_vars
  PROVE  TerminalBatchSettled'
<1> SUFFICES ASSUME NEW b \in Batch, batch'[b].status \in TerminalBatch,
                    NEW q \in Query
             PROVE  SettledRun(<<b, q>>)'
  BY DEF TerminalBatchSettled, Settled
<1> DEFINE r == <<b, q>>
<1>1. r \in Run /\ r[1] = b /\ run[r] \in RunRow
  BY DEF Run, TypeOK
<1>2. CASE batch[b].status \in TerminalBatch
  <2>1. SettledRun(r) /\ batch[r[1]].status # "absent"
    BY <1>1, <1>2 DEF TerminalBatchSettled, Settled, TerminalBatch
  <2> QED
    BY <1>1, <2>1, SettledRunStays
<1>3. CASE batch[b].status \notin TerminalBatch
  <2>1. ASSUME NEW c \in Batch, Refresh(c), UNCHANGED run
        PROVE  SettledRun(r)'
    <3>1. c = b /\ Rollup(b) \in TerminalBatch
      BY <1>3, <2>1 DEF Refresh, TypeOK, BatchRow
    <3>2. ChildStatuses(b) \cap ActiveRun = {}
      BY <3>1 DEF Rollup, TerminalBatch
    <3>3. run[r].status \notin ActiveRun
      BY <3>2 DEF ChildStatuses, Children, ActiveRun
    <3> QED
      BY <1>1, <2>1, <3>3 DEF SettledRun, RunRow
  <2>2. ASSUME NEW c \in Batch, Create(c)
        PROVE  FALSE
    BY <1>3, <2>2, CreateEffect DEF TerminalBatch
  <2>3. CASE batch'[b].status = batch[b].status
    BY <1>3, <2>3
  <2>4. ASSUME NEW c \in Batch, IncrementQueued(c)
        PROVE  batch'[b].status = batch[b].status
    BY <2>4 DEF IncrementQueued, TypeOK, BatchRow
  <2>5. ASSUME NEW s \in Run, StartPipeline(s)
        PROVE  batch'[b].status = batch[b].status
    BY <2>5 DEF StartPipeline, TypeOK, BatchRow
  <2>6. ASSUME NEW c \in Batch, NEW i \in {"processing", "ended"}, PipelineMoves(c, i)
        PROVE  batch'[b].status = batch[b].status
    BY <2>6 DEF PipelineMoves, TypeOK, BatchRow
  <2>7. CASE batch' = batch
    BY <1>3, <2>7
  <2> QED
    BY <2>1, <2>2, <2>3, <2>4, <2>5, <2>6, <2>7, StepCases DEF StepEffect,
        MarkEnqueueFailed, MarkRunning, Finalize, FinalizeFailure, RecoverStale
<1> QED
  BY <1>2, <1>3

(* IntelligenceAfterCollection: start_pipeline reads a terminal status under *)
(* the lock of the batch, and a terminal batch is settled.                   *)
LEMMA IntelligenceStep ==
  ASSUME TypeOK, RowsExist, RowsTimed, TerminalBatchSettled,
         IntelligenceAfterCollection, [Next]_vars
  PROVE  IntelligenceAfterCollection'
<1> SUFFICES ASSUME NEW b \in Batch, batch'[b].intel # "not_started",
                    NEW q \in Query
             PROVE  SettledRun(<<b, q>>)'
  BY DEF IntelligenceAfterCollection, Settled
<1>1. <<b, q>> \in Run /\ <<b, q>>[1] = b
  BY DEF Run
<1>2. CASE batch[b].intel # "not_started"
  <2>1. SettledRun(<<b, q>>) /\ batch[b].status # "absent"
    BY <1>2 DEF IntelligenceAfterCollection, Settled, RowsExist, BatchesFirst
  <2> QED
    BY <1>1, <2>1, SettledRunStays
<1>3. CASE batch[b].intel = "not_started"
  <2>1. ASSUME NEW s \in Run, StartPipeline(s)
        PROVE  SettledRun(<<b, q>>)'
    <3>1. batch[b].status \in TerminalBatch
      BY <1>3, <2>1 DEF StartPipeline, TypeOK
    <3>2. SettledRun(<<b, q>>)
      BY <3>1 DEF TerminalBatchSettled, Settled
    <3> QED
      BY <2>1, <3>2 DEF StartPipeline, SettledRun
  <2>2. ASSUME NEW c \in Batch, Create(c) \/ Refresh(c) \/ IncrementQueued(c)
        PROVE  FALSE
    <3>1. CASE Create(c)
      BY <1>3, <3>1, CreateEffect
    <3>2. CASE Refresh(c)
      BY <1>3, <3>2 DEF Refresh, TypeOK, BatchRow
    <3>3. CASE IncrementQueued(c)
      BY <1>3, <3>3 DEF IncrementQueued, TypeOK, BatchRow
    <3> QED
      BY <2>2, <3>1, <3>2, <3>3
  <2>3. ASSUME NEW c \in Batch, NEW i \in {"processing", "ended"}, PipelineMoves(c, i)
        PROVE  FALSE
    BY <1>3, <2>3 DEF PipelineMoves, TypeOK, ActiveIntel
  <2>4. CASE batch' = batch
    BY <1>3, <2>4
  <2> QED
    BY <2>1, <2>2, <2>3, <2>4, StepCases DEF StepEffect, MarkEnqueueFailed,
        MarkRunning, Finalize, FinalizeFailure, RecoverStale
<1> QED
  BY <1>2, <1>3

(* OneInflightPerQuery: runs become active where the index allows it.        *)
LEMMA OneInflightStep ==
  ASSUME TypeOK, OneInflightPerQuery, [Next]_vars
  PROVE  OneInflightPerQuery'
<1>1. CASE run' = run
  BY <1>1 DEF OneInflightPerQuery
<1>2. CASE \A r \in Run : run'[r].status \in ActiveRun => run[r].status \in ActiveRun
  BY <1>2 DEF OneInflightPerQuery
<1>3. ASSUME NEW b \in Batch, NEW t \in Topic, NEW route \in {"run_topic", "scheduler"},
             NEW qs \in SUBSET Query, CreateTopicRun(b, t, route, qs)
      PROVE  OneInflightPerQuery'
  <2>1. SUFFICES ASSUME NEW r \in Run, NEW s \in Run, r # s, r[2] = s[2],
                        run'[r].status \in ActiveRun, run'[s].status \in ActiveRun
                 PROVE  FALSE
    BY DEF OneInflightPerQuery
  <2>2. r = <<r[1], r[2]>> /\ s = <<s[1], s[2]>>
    BY DEF Run
  <2>3. r[1] # s[1]
    BY <2>1, <2>2
  <2>4. CASE r[2] \in qs
    BY <1>3, <2>1, <2>3, <2>4 DEF CreateTopicRun
  <2>5. CASE r[2] \notin qs
    BY <1>3, <2>1, <2>5 DEF CreateTopicRun, OneInflightPerQuery
  <2> QED
    BY <2>4, <2>5
<1>4. ASSUME NEW b \in Batch, NEW q \in Query, QueueRun(b, q)
      PROVE  OneInflightPerQuery'
  <2>1. <<b, q>> \in Run
    BY DEF Run
  <2> QED
    BY <1>4, <2>1 DEF QueueRun, QueryFree, OneInflightPerQuery, TypeOK
<1>5. ASSUME NEW r \in Run, MarkRunning(r)
      PROVE  OneInflightPerQuery'
  BY <1>5 DEF MarkRunning, QueryFree, OneInflightPerQuery, TypeOK, RunRow
<1>6. CASE \/ \E b \in Batch : MarkEnqueueFailed(b)
           \/ \E r \in Run, s \in TerminalRun : Finalize(r, s)
           \/ \E r \in Run : FinalizeFailure(r)
           \/ \E rs \in SUBSET Run : RecoverStale(rs)
  <2>1. \A r \in Run : run'[r] = run[r] \/ run'[r].status \in TerminalRun
    <3>1. CASE \E b \in Batch : MarkEnqueueFailed(b)
      BY <3>1 DEF MarkEnqueueFailed, Finished, TerminalRun, TypeOK
    <3>2. CASE \E r \in Run, s \in TerminalRun : Finalize(r, s)
      BY <3>2 DEF Finalize, Finished, TypeOK
    <3>3. CASE \E r \in Run : FinalizeFailure(r)
      BY <3>3 DEF FinalizeFailure, Finished, TerminalRun, TypeOK
    <3>4. CASE \E rs \in SUBSET Run : RecoverStale(rs)
      BY <3>4 DEF RecoverStale, Finished, TerminalRun, TypeOK
    <3> QED
      BY <1>6, <3>1, <3>2, <3>3, <3>4
  <2> QED
    BY <2>1, <1>2 DEF ActiveRun, TerminalRun
<1> QED
  BY <1>1, <1>3, <1>4, <1>5, <1>6, StepCases
  DEF StepEffect, Create, IncrementQueued, StartPipeline, PipelineMoves

-----------------------------------------------------------------------------
(* The count of the enqueued children *)

(* A child that is taken leaves one child less to enqueue. *)
LEMMA TakeOne ==
  ASSUME NEW S \in SUBSET Query, NEW q \in S
  PROVE  /\ Cardinality(S) \in Nat
         /\ Cardinality(S \ {q}) = Cardinality(S) - 1
  BY FiniteAssumption, FS_Subset, FS_CardinalityType, FS_RemoveElement

(* A step that leaves the counts of a batch, and leaves its process or ends  *)
(* it, keeps the count within the requested number.                          *)
LEMMA FitsKept ==
  ASSUME NEW b \in Batch, Fits(b),
         batch'[b].queued = batch[b].queued, batch'[b].requested = batch[b].requested,
         api'[b] = api[b] \/ api'[b].step = "idle"
  PROVE  Fits(b)'
  BY DEF Fits

(* CountsFit: the process counts each child it has enqueued once.            *)
LEMMA CountsFitStep ==
  ASSUME TypeOK, CountsFit, [Next]_vars
  PROVE  CountsFit'
<1> SUFFICES ASSUME NEW b \in Batch PROVE Fits(b)'
  BY DEF CountsFit
<1>1. Fits(b) /\ api[b] \in ApiRow /\ batch[b] \in BatchRow
  BY DEF CountsFit, TypeOK
<1>2. Cardinality(api[b].left) \in Nat
  BY <1>1, FiniteAssumption, FS_Subset, FS_CardinalityType DEF ApiRow
<1>3. ASSUME NEW c \in Batch, NEW t \in Topic, NEW route \in {"run_topic", "scheduler"},
             NEW qs \in SUBSET Query, CreateTopicRun(c, t, route, qs)
      PROVE  Fits(b)'
  <2>1. CASE b = c
    <3>1. Cardinality(qs) \in Nat
      BY FiniteAssumption, FS_Subset, FS_CardinalityType
    <3>2. api'[b].left = qs /\ api'[b].step = "sending"
      BY <1>3, <2>1 DEF CreateTopicRun, NoApi, TypeOK
    <3>3. batch'[b].queued = 0 /\ batch'[b].requested = Cardinality(qs)
      BY <1>3, <2>1 DEF CreateTopicRun, NewBatch, TypeOK
    <3> QED
      BY <3>1, <3>2, <3>3 DEF Fits
  <2>2. CASE b # c
    BY <1>1, <1>3, <2>2, FitsKept DEF CreateTopicRun, TypeOK
  <2> QED
    BY <2>1, <2>2
<1>4. ASSUME NEW c \in Batch, NEW q \in Query, QueueRun(c, q)
      PROVE  Fits(b)'
  <2>1. CASE b = c
    BY <1>4, <2>1 DEF QueueRun, NoApi, TypeOK, Fits
  <2>2. CASE b # c
    BY <1>1, <1>4, <2>2, FitsKept DEF QueueRun, TypeOK
  <2> QED
    BY <2>1, <2>2
<1>5. ASSUME NEW c \in Batch, NEW q \in Query, Enqueue(c, q) \/ EnqueueFails(c, q)
      PROVE  Fits(b)'
  <2>1. CASE b # c
    BY <1>1, <1>5, <2>1, FitsKept DEF Enqueue, EnqueueFails, TypeOK
  <2>2. CASE b = c /\ Enqueue(c, q) /\ api[b].route = "run_query"
    BY <1>1, <2>2, FitsKept DEF Enqueue, NoApi, TypeOK
  <2>3. CASE b = c /\ (EnqueueFails(c, q) \/ api[b].route # "run_query")
    <3>1. Cardinality(api[b].left \ {q}) = Cardinality(api[b].left) - 1
      BY <1>1, <1>5, <2>3, TakeOne DEF Enqueue, EnqueueFails, ApiRow
    <3>2. /\ api'[b].route = api[b].route /\ api'[b].left = api[b].left \ {q}
          /\ api[b].step = "sending" /\ batch' = batch
          /\ api'[b].step = "counting" => api[b].route # "run_query"
      BY <1>5, <2>3 DEF Enqueue, EnqueueFails, TakeChild, TypeOK
    <3> QED
      BY <1>1, <1>2, <3>1, <3>2 DEF Fits, BatchRow
  <2> QED
    BY <1>5, <2>1, <2>2, <2>3
<1>6. ASSUME NEW c \in Batch, IncrementQueued(c)
      PROVE  Fits(b)'
  <2>1. CASE b # c
    BY <1>1, <1>6, <2>1, FitsKept DEF IncrementQueued, TypeOK
  <2>2. CASE b = c
    <3>1. batch'[b].queued = batch[b].queued + 1 /\ batch'[b].requested = batch[b].requested
      BY <1>6, <2>2 DEF IncrementQueued, TypeOK, BatchRow
    <3>2. /\ api[b].step = "counting" /\ api'[b].step = "sending"
          /\ api'[b].left = api[b].left /\ api'[b].route = api[b].route
      BY <1>6, <2>2 DEF IncrementQueued, TypeOK, ApiRow
    <3> QED
      BY <1>1, <1>2, <3>1, <3>2 DEF Fits, BatchRow
  <2> QED
    BY <2>1, <2>2
<1>7. ASSUME NEW c \in Batch, IncrementFails(c) \/ MarkEnqueueFailed(c)
      PROVE  Fits(b)'
  <2>1. CASE b # c
    BY <1>1, <1>7, <2>1, FitsKept DEF IncrementFails, MarkEnqueueFailed, TypeOK
  <2>2. CASE b = c
    <3>1. /\ api'[b].left = api[b].left /\ api'[b].route = api[b].route
          /\ api[b].step # "idle" /\ api'[b].step \in {"unsent", "refreshing"}
          /\ batch' = batch
      BY <1>7, <2>2 DEF IncrementFails, MarkEnqueueFailed, TypeOK, ApiRow
    <3> QED
      BY <1>1, <1>2, <3>1 DEF Fits, BatchRow
  <2> QED
    BY <2>1, <2>2
<1>8. ASSUME NEW c \in Batch, Refresh(c)
      PROVE  batch'[b].queued = batch[b].queued /\ batch'[b].requested = batch[b].requested
  BY <1>8 DEF Refresh, TypeOK, BatchRow
<1>9. ASSUME NEW c \in Batch, EnqueueFailedRefresh(c)
      PROVE  Fits(b)'
  <2>1. batch'[b].queued = batch[b].queued /\ batch'[b].requested = batch[b].requested
    BY <1>8, <1>9 DEF EnqueueFailedRefresh
  <2>2. CASE b = c /\ api[b].route # "run_query"
    <3>1. /\ api'[b].left = api[b].left /\ api'[b].route = api[b].route
          /\ api[b].step = "refreshing" /\ api'[b].step = "sending"
      BY <1>9, <2>2 DEF EnqueueFailedRefresh, TypeOK, ApiRow
    <3> QED
      BY <1>1, <1>2, <2>1, <3>1 DEF Fits, BatchRow
  <2>3. CASE ~(b = c /\ api[b].route # "run_query")
    BY <1>1, <1>9, <2>1, <2>3, FitsKept DEF EnqueueFailedRefresh, NoApi, TypeOK
  <2> QED
    BY <2>2, <2>3
<1>10. ASSUME api' = api \/ \E c \in Batch : api' = [api EXCEPT ![c] = NoApi],
              batch'[b].queued = batch[b].queued,
              batch'[b].requested = batch[b].requested
       PROVE  Fits(b)'
  BY <1>1, <1>10, FitsKept DEF NoApi, TypeOK
<1>11. ASSUME NEW c \in Batch, CloseEnqueueing(c) \/ ApiRefreshRefused(c) \/ ApiCrash(c)
                                \/ AdminRefresh(c) \/ RecoveryRefresh(c)
       PROVE  Fits(b)'
  BY <1>8, <1>10, <1>11 DEF CloseEnqueueing, ApiRefreshRefused, ApiCrash, AdminRefresh,
      RecoveryRefresh
<1>12. ASSUME NEW r \in Run, WorkerStep(r)
       PROVE  Fits(b)'
  <2>1. ASSUME StartPipeline(r)
        PROVE  batch'[b].queued = batch[b].queued /\ batch'[b].requested = batch[b].requested
    BY <2>1 DEF StartPipeline, TypeOK, BatchRow
  <2>2. r[1] \in Batch
    BY DEF Run
  <2>3. api' = api
    BY <1>12 DEF WorkerStep, Deliver, Reject, MarkRunning, MarkRunningRefused, Finalize,
        WorkerRefresh, RefreshRefused, StartPipeline, FinalizeFailure, FailureRefresh
  <2>4. batch' = batch \/ Refresh(r[1]) \/ StartPipeline(r)
    BY <1>12 DEF WorkerStep, Deliver, Reject, MarkRunning, MarkRunningRefused, Finalize,
        WorkerRefresh, RefreshRefused, FinalizeFailure, FailureRefresh
  <2> QED
    BY <1>8, <1>10, <2>1, <2>2, <2>3, <2>4
<1>13. ASSUME NEW c \in Batch, NEW i \in {"processing", "ended"}, PipelineMoves(c, i)
       PROVE  Fits(b)'
  <2>1. batch'[b].queued = batch[b].queued /\ batch'[b].requested = batch[b].requested
    BY <1>13 DEF PipelineMoves, TypeOK, BatchRow
  <2> QED
    BY <1>10, <1>13, <2>1 DEF PipelineMoves
<1>14. CASE UNCHANGED <<batch, api>>
  BY <1>10, <1>14
<1> QED
  BY <1>3, <1>4, <1>5, <1>6, <1>7, <1>9, <1>11, <1>12, <1>13, <1>14
  DEF Next, Create, ApiStep, RecoveryStep, Fault, RecoverStale, RecoveryRefreshRefused,
      AttemptFails, WorkerCrash, RecoveryCrash, vars

-----------------------------------------------------------------------------
(* The inductive invariant and what follows from it *)

(* The first state satisfies the inductive invariant. *)
LEMMA InvInit == Init => IInv
<1> SUFFICES ASSUME Init PROVE IInv
  OBVIOUS
<1>1. TypeOK
  BY TypeInit
<1>2. \A b \in Batch : batch[b].status = "absent" /\ batch[b].intel = "not_started"
  BY DEF Init, NewBatch
<1>3. \A r \in Run : run[r].status = "absent" /\ job[r] = NoJob
  BY DEF Init, NewRun
<1>4. \A b \in Batch : api[b] = NoApi
  BY DEF Init
<1>5. \A b \in Batch, q \in Query : <<b, q>> \in Run
  BY DEF Run
<1>6. RowsExist
  BY <1>2, <1>3, <1>4, <1>5 DEF RowsExist, BatchesFirst, RunsFirst, NoApi
<1>11. RecoveryExists
  BY DEF Init, RecoveryExists
<1>7. RowsTimed
  BY <1>3 DEF RowsTimed, NoJob, Parked, TerminalRun
<1>8. CountsFit
  BY <1>4 DEF CountsFit, Fits, NoApi
<1>9. TerminalBatchSettled /\ IntelligenceAfterCollection
  BY <1>2 DEF TerminalBatchSettled, IntelligenceAfterCollection, TerminalBatch
<1>10. OneInflightPerQuery
  BY <1>3 DEF OneInflightPerQuery, ActiveRun
<1> QED
  BY <1>1, <1>6, <1>7, <1>8, <1>9, <1>10, <1>11 DEF IInv

(* Every step keeps the inductive invariant. *)
LEMMA InvStep == IInv /\ [Next]_vars => IInv'
  BY TypeStep, RowsExistStep, RecoveryExistsStep, RowsTimedStep, CountsFitStep, TerminalBatchSettledStep,
     IntelligenceStep, OneInflightStep
  DEF IInv

(* The inductive invariant holds in every reachable state. *)
THEOREM InvCorrect == Spec => []IInv
  BY InvInit, InvStep, PTL DEF Spec

(* No rollup reports a batch as terminal while a child of it still has to be *)
(* collected.                                                               *)
THEOREM TerminalBatchSettledCorrect == Spec => []TerminalBatchSettled
  BY InvCorrect, PTL DEF IInv

(* Intelligence never starts on a batch that is still being collected. *)
THEOREM IntelligenceCorrect == Spec => []IntelligenceAfterCollection
  BY InvCorrect, PTL DEF IInv

(* A worker that collects for a batch under analysis was overtaken by stale  *)
(* recovery.                                                                *)
THEOREM LateCollectorCorrect == Spec => []LateCollectorWasRecovered
<1>1. IInv => LateCollectorWasRecovered
  <2> SUFFICES ASSUME IInv, NEW r \in Run, batch[r[1]].intel # "not_started",
                      job[r].phase = "collecting"
               PROVE  run[r].finishes > 0
    BY DEF LateCollectorWasRecovered
  <2>1. r[1] \in Batch /\ r[2] \in Query /\ r = <<r[1], r[2]>>
    BY DEF Run
  <2>2. SettledRun(r)
    BY <2>1 DEF IInv, IntelligenceAfterCollection, Settled
  <2> QED
    BY <2>2 DEF IInv, RowsTimed, SettledRun, TerminalRun
<1> QED
  BY <1>1, InvCorrect, PTL

(* Two workers collect the same query only if one was given up meanwhile.    *)
THEOREM OneHealthyCollectorCorrect == Spec => []OneHealthyCollectorPerQuery
<1>1. IInv => OneHealthyCollectorPerQuery
  BY DEF IInv, RowsTimed, OneInflightPerQuery, OneHealthyCollectorPerQuery, ActiveRun,
      TerminalRun
<1> QED
  BY <1>1, InvCorrect, PTL

(* The CHECK on queued_query_count never refuses a count. *)
THEOREM IncrementCorrect == Spec => []IncrementNeverRefused
<1>1. IInv => IncrementNeverRefused
  <2> SUFFICES ASSUME IInv, NEW b \in Batch, api[b].step = "counting"
               PROVE  batch[b].queued < batch[b].requested
    BY DEF IncrementNeverRefused
  <2>1. api[b] \in ApiRow /\ batch[b] \in BatchRow /\ Fits(b)
    BY DEF IInv, TypeOK, CountsFit
  <2>2. Cardinality(api[b].left) \in Nat
    BY <2>1, FiniteAssumption, FS_Subset, FS_CardinalityType DEF ApiRow
  <2> QED
    BY <2>1, <2>2 DEF Fits, BatchRow
<1> QED
  BY <1>1, InvCorrect, PTL

-----------------------------------------------------------------------------
(* Final results and the contract *)

(* A completed or partial run keeps its status in every step. *)
LEMMA ResultKept ==
  ASSUME IInv, [Next]_vars, NEW r \in Run, run[r].status \in {"completed", "partial"}
  PROVE  run'[r].status = run[r].status
<1>1. /\ TypeOK /\ RowsExist /\ RowsTimed /\ run[r] \in RunRow
      /\ run[r].status \in TerminalRun /\ run[r].status \notin ActiveRun
      /\ run[r].status \notin {"absent", "failed"} /\ r[1] \in Batch
  BY DEF IInv, TypeOK, TerminalRun, ActiveRun, Run
<1>2. ASSUME NEW b \in Batch, Create(b)
      PROVE  run'[r] = run[r]
  <2>1. r[1] # b
    <3>1. batch[b].status = "absent"
      BY <1>1, <1>2, CreateEffect
    <3>2. r = <<r[1], r[2]>> /\ r[2] \in Query
      BY DEF Run
    <3> QED
      BY <1>1, <3>1, <3>2 DEF RowsExist, BatchesFirst
  <2> QED
    BY <1>1, <1>2, <2>1, CreateEffect
<1>3. ASSUME NEW s \in Run, MarkRunning(s)
      PROVE  run'[r] = run[r]
  <2>1. r # s
    BY <1>1, <1>3 DEF MarkRunning, StartedBeforeFinished, RowsTimed, RunRow
  <2> QED
    BY <1>1, <1>3, <2>1 DEF MarkRunning, TypeOK
<1>4. ASSUME NEW s \in Run, NEW t \in TerminalRun, Finalize(s, t)
      PROVE  run'[r] = run[r]
  <2>1. r # s
    BY <1>1, <1>4 DEF Finalize, RowsTimed
  <2> QED
    BY <1>1, <1>4, <2>1 DEF Finalize, TypeOK
<1>5. ASSUME NEW b \in Batch, MarkEnqueueFailed(b)
      PROVE  run'[r] = run[r]
  BY <1>1, <1>5 DEF MarkEnqueueFailed, ActiveRun
<1>6. ASSUME NEW s \in Run, FinalizeFailure(s)
      PROVE  run'[r] = run[r]
  BY <1>1, <1>6 DEF FinalizeFailure, TypeOK
<1>7. ASSUME NEW rs \in SUBSET Run, RecoverStale(rs)
      PROVE  run'[r] = run[r]
  BY <1>1, <1>7 DEF RecoverStale
<1>8. CASE run' = run
  BY <1>8
<1> QED
  BY <1>2, <1>3, <1>4, <1>5, <1>6, <1>7, <1>8, StepCases
  DEF StepEffect, IncrementQueued, StartPipeline, PipelineMoves

(* A completed or partial result is final. *)
THEOREM SuccessIsFinalCorrect == Spec => SuccessIsFinal
<1>1. IInv /\ [Next]_vars =>
        [\A r \in Run : run[r].status \in {"completed", "partial"}
            => run'[r].status = run[r].status]_vars
  BY ResultKept
<1> QED
  BY <1>1, InvCorrect, PTL DEF Spec, SuccessIsFinal

(* A new batch has a child that still has to be collected. *)
LEMMA CreatedUnsettled ==
  ASSUME TypeOK, NEW b \in Batch, Create(b)
  PROVE  ~Settled(b)'
<1>1. ASSUME NEW t \in Topic, NEW route \in {"run_topic", "scheduler"},
             NEW qs \in SUBSET Query, CreateTopicRun(b, t, route, qs)
      PROVE  ~Settled(b)'
  <2>1. PICK q \in qs : q \in Query
    BY <1>1 DEF CreateTopicRun
  <2>2. <<b, q>> \in Run /\ run'[<<b, q>>] = NewRun
    BY <1>1, <2>1 DEF CreateTopicRun, Run
  <2> QED
    BY <2>1, <2>2 DEF Settled, SettledRun, NewRun, TerminalRun
<1>2. ASSUME NEW q \in Query, QueueRun(b, q)
      PROVE  ~Settled(b)'
  <2>1. <<b, q>> \in Run
    BY DEF Run
  <2>2. run'[<<b, q>>] = NewRun
    BY <1>2, <2>1 DEF QueueRun, TypeOK
  <2> QED
    BY <2>2 DEF Settled, SettledRun, NewRun, TerminalRun
<1> QED
  BY <1>1, <1>2 DEF Create

(* How the phase of a batch can change in a step that neither creates it nor *)
(* hands it to the pipeline.                                                *)
LEMMA PhaseMoves ==
  ASSUME IInv, [Next]_vars, NEW b \in Batch,
         batch'[b].status = "absent" <=> batch[b].status = "absent",
         batch'[b].intel = "not_started" <=> batch[b].intel = "not_started"
  PROVE  \/ ContractPhase(b)' = ContractPhase(b)
         \/ ContractPhase(b) = "collecting" /\ ContractPhase(b)' = "settled"
<1>1. CASE batch[b].status # "absent" /\ Settled(b)
  <2>1. ASSUME NEW q \in Query
        PROVE  SettledRun(<<b, q>>)'
    <3>1. <<b, q>> \in Run /\ <<b, q>>[1] = b
      BY DEF Run
    <3> QED
      BY <1>1, <3>1, SettledRunStays DEF Settled, IInv
  <2>2. Settled(b)'
    BY <2>1 DEF Settled
  <2> QED
    BY <1>1, <2>2 DEF ContractPhase
<1>2. CASE batch[b].status = "absent" \/ ~Settled(b)
  BY <1>2 DEF ContractPhase
<1> QED
  BY <1>1, <1>2

Phases == [b \in Batch |-> ContractPhase(b)]

(* Opening a batch is a step of the contract. *)
LEMMA CreateOpens ==
  ASSUME IInv, [Next]_vars, NEW b \in Batch, Create(b)
  PROVE  Contract!ContractNext
<1>1. TypeOK /\ RowsExist /\ batch[b].status = "absent"
  BY CreateEffect DEF IInv
<1>2. ContractPhase(b) = "absent" /\ ContractPhase(b)' = "collecting"
  BY <1>1, CreateEffect, CreatedUnsettled DEF ContractPhase
<1>3. ASSUME NEW c \in Batch, c # b
      PROVE  ContractPhase(c)' = ContractPhase(c)
  <2>1. batch'[c] = batch[c]
    BY <1>1, <1>3, CreateEffect
  <2>2. ASSUME NEW q \in Query
        PROVE  run'[<<c, q>>] = run[<<c, q>>]
    <3>1. <<c, q>> \in Run /\ <<c, q>>[1] # b
      BY <1>3 DEF Run
    <3> QED
      BY <1>1, <3>1, CreateEffect
  <2>3. Settled(c)' <=> Settled(c)
    BY <2>2 DEF Settled, SettledRun
  <2> QED
    BY <2>1, <2>3 DEF ContractPhase
<1>4. Phases' = [Phases EXCEPT ![b] = "collecting"]
  BY <1>2, <1>3 DEF Phases
<1>5. ASSUME NEW r \in Run
      PROVE  r \in KeptResults' <=> r \in KeptResults
  <2>1. CASE r[1] # b
    BY <1>1, <2>1, CreateEffect DEF KeptResults
  <2>2. CASE r[1] = b
    <3>1. r[2] \in Query /\ r = <<b, r[2]>>
      BY <2>2 DEF Run
    <3>2. run[r].status = "absent"
      BY <1>1, <3>1 DEF RowsExist, BatchesFirst
    <3>3. run'[r].status \in {"absent", "pending"}
      <4>1. CASE \E q \in Query : QueueRun(b, q)
        BY <1>1, <3>2, <4>1 DEF QueueRun, NewRun, TypeOK
      <4>2. ASSUME NEW t \in Topic, NEW route \in {"run_topic", "scheduler"},
                   NEW qs \in SUBSET Query, CreateTopicRun(b, t, route, qs)
            PROVE  run'[r].status \in {"absent", "pending"}
        BY <3>2, <4>2 DEF CreateTopicRun, NewRun
      <4> QED
        BY <4>1, <4>2 DEF Create
    <3> QED
      BY <3>2, <3>3 DEF KeptResults
  <2> QED
    BY <2>1, <2>2
<1>6. KeptResults' = KeptResults
  BY <1>5 DEF KeptResults
<1> QED
  BY <1>2, <1>4, <1>6 DEF Contract!ContractNext, Contract!Open, Phases

(* A batch that is not created stays absent: no process works for it. *)
LEMMA AbsentStays ==
  ASSUME TypeOK, RowsExist, RecoveryExists, [Next]_vars, NEW b \in Batch,
         batch[b].status = "absent", ~\E c \in Batch : Create(c)
  PROVE  batch'[b].status = "absent"
<1>1. api[b] = NoApi /\ batch[b].intel = "not_started" /\ b \notin recovery
  BY DEF RowsExist, BatchesFirst, RecoveryExists
<1>2. ASSUME NEW r \in Run, r[1] = b
      PROVE  job[r] = NoJob
  <2>1. r = <<b, r[2]>> /\ r[2] \in Query
    BY <1>2 DEF Run
  <2> QED
    BY <2>1 DEF RowsExist, BatchesFirst, RunsFirst
<1>3. ASSUME NEW c \in Batch, Refresh(c), c # b
      PROVE  batch'[b] = batch[b]
  BY <1>3 DEF Refresh, TypeOK
<1>4. ASSUME NEW c \in Batch, ApiStep(c)
      PROVE  batch'[b].status = "absent"
  <2>0. api[b].step = "idle"
    BY <1>1 DEF NoApi
  <2>1. c # b
    <3>1. api[c].step # "idle"
      BY <1>4 DEF ApiStep, Enqueue, EnqueueFails, IncrementQueued, MarkEnqueueFailed,
          EnqueueFailedRefresh, CloseEnqueueing, ApiRefreshRefused
    <3> QED
      BY <2>0, <3>1
  <2>2. batch' = batch \/ Refresh(c) \/ IncrementQueued(c)
    BY <1>4 DEF ApiStep, Enqueue, EnqueueFails, MarkEnqueueFailed,
        EnqueueFailedRefresh, CloseEnqueueing, ApiRefreshRefused
  <2> QED
    BY <1>3, <2>1, <2>2 DEF IncrementQueued, TypeOK
<1>5. ASSUME NEW r \in Run, WorkerStep(r)
      PROVE  batch'[b].status = "absent"
  <2>1. r[1] # b
    BY <1>2, <1>5 DEF WorkerStep, Deliver, Reject, MarkRunning, MarkRunningRefused,
        Finalize, WorkerRefresh, RefreshRefused, StartPipeline, FinalizeFailure,
        FailureRefresh, NoJob, Parked
  <2>2. batch' = batch \/ Refresh(r[1]) \/ StartPipeline(r)
    BY <1>5 DEF WorkerStep, Deliver, Reject, MarkRunning, MarkRunningRefused, Finalize,
        WorkerRefresh, RefreshRefused, FinalizeFailure, FailureRefresh
  <2>3. r[1] \in Batch
    BY DEF Run
  <2> QED
    BY <1>3, <2>1, <2>2, <2>3 DEF StartPipeline, TypeOK
<1>6. ASSUME NEW c \in Batch, AdminRefresh(c) \/ RecoveryRefresh(c)
      PROVE  batch'[b].status = "absent"
  BY <1>1, <1>3, <1>6 DEF AdminRefresh, RecoveryRefresh
<1>7. ASSUME NEW c \in Batch, NEW i \in {"processing", "ended"}, PipelineMoves(c, i)
      PROVE  batch'[b].status = "absent"
  BY <1>1, <1>7 DEF PipelineMoves, ActiveIntel, TypeOK
<1>8. CASE batch' = batch
  BY <1>8
<1> QED
  BY <1>4, <1>5, <1>6, <1>7, <1>8 DEF Next, RecoveryStep, RecoverStale,
      RecoveryRefreshRefused, Fault, IncrementFails, ApiCrash, AttemptFails,
      WorkerCrash, RecoveryCrash, vars

(* Every step is a step of the contract, or leaves its state. *)
LEMMA ContractStep ==
  ASSUME IInv, [Next]_vars
  PROVE  [Contract!ContractNext]_<<Phases, KeptResults>>
<1>1. CASE \E b \in Batch : Create(b)
  BY <1>1, CreateOpens
<1>2. ASSUME NEW r \in Run, StartPipeline(r), batch' # batch
      PROVE  Contract!ContractNext
  <2>1. r[1] \in Batch
    BY DEF Run
  <2> DEFINE b == r[1]
  <2>2. /\ batch[b].status \in TerminalBatch /\ batch[b].intel = "not_started"
        /\ batch' = [batch EXCEPT ![b].intel = "queued"] /\ run' = run
    BY <1>2 DEF StartPipeline
  <2>3. ContractPhase(b) = "settled"
    BY <2>1, <2>2 DEF ContractPhase, IInv, TerminalBatchSettled, TerminalBatch
  <2>4. ContractPhase(b)' = "analysing"
    BY <2>1, <2>2 DEF ContractPhase, IInv, TypeOK, BatchRow, TerminalBatch
  <2>5. ASSUME NEW c \in Batch, c # b
        PROVE  ContractPhase(c)' = ContractPhase(c)
    BY <2>1, <2>2, <2>5 DEF ContractPhase, IInv, TypeOK, Settled, SettledRun
  <2>6. Phases' = [Phases EXCEPT ![b] = "analysing"]
    BY <2>1, <2>4, <2>5 DEF Phases
  <2>7. KeptResults' = KeptResults
    BY <2>2 DEF KeptResults
  <2> QED
    BY <2>1, <2>3, <2>6, <2>7 DEF Contract!ContractNext, Contract!Analyse, Phases
<1>3. CASE /\ \A b \in Batch :
                 /\ batch'[b].status = "absent" <=> batch[b].status = "absent"
                 /\ batch'[b].intel = "not_started" <=> batch[b].intel = "not_started"
  <2> DEFINE bs == {b \in Batch : ContractPhase(b) = "collecting"
                                     /\ ContractPhase(b)' = "settled"}
  <2>1. \A b \in Batch : ContractPhase(b)' = IF b \in bs THEN "settled" ELSE ContractPhase(b)
    BY <1>3, PhaseMoves
  <2>2. KeptResults' = KeptResults \cup KeptResults' /\ KeptResults' \in SUBSET Run
    BY ResultKept DEF KeptResults
  <2>3. Contract!Collect(bs, KeptResults')
    BY <2>1, <2>2 DEF Contract!Collect
  <2> QED
    BY <2>2, <2>3 DEF Contract!ContractNext
<1>4. ASSUME NEW b \in Batch, ~\E c \in Batch : Create(c)
      PROVE  batch'[b].status = "absent" <=> batch[b].status = "absent"
  BY <1>4, AbsentStays, BatchesStay DEF IInv
<1>5. ASSUME NEW b \in Batch, ~\E c \in Batch : Create(c),
             ~\E r \in Run : StartPipeline(r) /\ batch' # batch
      PROVE  batch'[b].intel = "not_started" <=> batch[b].intel = "not_started"
  <2>1. ASSUME NEW c \in Batch, Refresh(c) \/ IncrementQueued(c)
        PROVE  batch'[b].intel = batch[b].intel
    BY <2>1 DEF Refresh, IncrementQueued, IInv, TypeOK, BatchRow
  <2>2. ASSUME NEW c \in Batch, NEW i \in {"processing", "ended"}, PipelineMoves(c, i)
        PROVE  batch'[b].intel = "not_started" <=> batch[b].intel = "not_started"
    BY <2>2 DEF PipelineMoves, IInv, TypeOK, BatchRow, ActiveIntel
  <2>3. CASE batch' = batch
    BY <2>3
  <2> QED
    BY <1>5, <2>1, <2>2, <2>3, StepCases DEF StepEffect,
        MarkEnqueueFailed, MarkRunning, Finalize, FinalizeFailure, RecoverStale
<1> QED
  BY <1>1, <1>2, <1>3, <1>4, <1>5

(* The topic batches implement the contract with the intelligence stages:    *)
(* a batch is analysed once, and only when no child of it will be collected, *)
(* and kept results are never taken back.                                   *)
THEOREM ContractCorrect == Spec => ContractSpec
<1>1. Init => Contract!ContractInit
  <2> SUFFICES ASSUME Init PROVE Contract!ContractInit
    OBVIOUS
  <2>1. \A b \in Batch : ContractPhase(b) = "absent"
    BY DEF Init, ContractPhase, NewBatch
  <2>2. KeptResults = {}
    BY DEF Init, KeptResults, NewRun
  <2> QED
    BY <2>1, <2>2 DEF Contract!ContractInit
<1>2. IInv /\ [Next]_vars => [Contract!ContractNext]_(Contract!contractVars)
  BY ContractStep DEF Contract!contractVars, Phases
<1> QED
  BY <1>1, <1>2, InvCorrect, PTL DEF Spec, ContractSpec, Contract!ContractSpec
=============================================================================
