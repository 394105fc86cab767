--------------------------- MODULE DiscoveryRuns ---------------------------
(***************************************************************************)
(* Topic batches (discovery_topic_runs) and their child collection runs:   *)
(* the API or scheduler process that creates and enqueues them, the        *)
(* Dramatiq worker that executes one child per message, retry exhaustion,  *)
(* stale-run recovery, the rollup of the children into the batch, and the  *)
(* hand-off of a terminal batch to intelligence (start_pipeline).          *)
(*                                                                         *)
(* One action is one database transaction or one call to the broker; two   *)
(* transactions of the same handler are two actions, because another       *)
(* process or a crash can come between them.                               *)
(*                                                                         *)
(* An operator whose name starts with Bad is its neighbour with one        *)
(* plausible bug; nothing here uses it.  README.md says which property     *)
(* each of them breaks.                                                    *)
(***************************************************************************)
EXTENDS Naturals, FiniteSets

CONSTANTS
    Topic,       \* discovery_topics rows
    Query,       \* search_queries rows
    TopicOf,     \* the topic_id of each query
    Batch,       \* identities available to discovery_topic_runs rows
    MaxRetries,  \* max_retries of the run_youtube_discovery actor
    MaxFaults    \* bound on crashes and infrastructure errors explored

ASSUME TopicOfAssumption == Query # {} /\ TopicOf \in [Query -> Topic]
ASSUME FiniteAssumption == IsFiniteSet(Query)
ASSUME BoundsAssumption == MaxRetries \in Nat /\ MaxFaults \in Nat

(* A child run is named by its batch and its query. *)
Run == Batch \X Query

VARIABLES
    batch,     \* discovery_topic_runs
    run,       \* collection_runs
    job,       \* the message of each run and the worker that holds it
    api,       \* the process that created the batch, while it enqueues
    recovery,  \* batches the current stale recovery still has to refresh
    faults     \* crashes and infrastructure errors so far

vars == <<batch, run, job, api, recovery, faults>>

-----------------------------------------------------------------------------
(* Rows *)

ActiveRun == {"pending", "running"}
TerminalRun == {"completed", "partial", "failed"}
ActiveBatch == {"queued", "running"}
TerminalBatch == {"completed", "partial", "failed"}
ActiveIntel == {"queued", "processing"}
(* The outcome of a pipeline (completed, partial, failed) is the subject of  *)
(* module DiscoveryPipeline; here it has "ended".                           *)
IntelStatus == {"not_started", "queued", "processing", "ended"}

BatchRow == [status: {"absent"} \cup ActiveBatch \cup TerminalBatch,
             topic: Topic,
             requested: Nat, queued: Nat,
             intel: IntelStatus]

(* finishes counts the writes of finished_at (0: the column is null); no    *)
(* statement ever clears the column.                                        *)
RunRow == [status: {"absent"} \cup ActiveRun \cup TerminalRun,
           finishes: Nat]

(* A message waits ("queued"), is executed ("held"), or is with the          *)
(* maintenance actor after its last attempt ("exhausted").  While the        *)
(* worker is "starting", seen is the number of finishes when it read the    *)
(* clock for started_at.                                                    *)
JobRow == [msg: {"none", "queued", "held", "exhausted"},
           tries: Nat,
           phase: {"idle", "starting", "collecting", "rejecting",
                   "refreshing", "handing_off", "closing"},
           seen: Nat]

(* left: children still to enqueue; at: the child being enqueued. *)
ApiRow == [step: {"idle", "sending", "counting", "unsent", "refreshing"},
           route: {"run_topic", "scheduler", "run_query"},
           left: SUBSET Query,
           at: SUBSET Query]

(* A message that no worker executes. *)
Parked(msg, tries) == [msg |-> msg, tries |-> tries, phase |-> "idle", seen |-> 0]

NoJob == Parked("none", 0)
NoApi == [step |-> "idle", route |-> "run_topic", left |-> {}, at |-> {}]

Children(b) == {q \in Query : run[<<b, q>>].status # "absent"}
ChildStatuses(b) == {run[<<b, q>>].status : q \in Children(b)}

-----------------------------------------------------------------------------
(* Constraints of the database *)

BadQueryFree(r) == TRUE

(* uq_discovery_query_inflight: one pending or running run per query. *)
QueryFree(r) ==
    \A s \in Run : s # r /\ s[2] = r[2] => run[s].status \notin ActiveRun

(* uq_discovery_topic_active_batch: one queued or running batch per topic. *)
TopicFree(b, t) ==
    \A c \in Batch : c # b /\ batch[c].status # "absent" /\ batch[c].topic = t
                        => batch[c].status \notin ActiveBatch

(* ck_collection_runs_timestamp_order, for a worker that writes started_at:  *)
(* it holds when the run has no finished_at or has been finished again       *)
(* since the worker read the clock.                                          *)
StartedBeforeFinished(r) ==
    run[r].finishes = 0 \/ run[r].finishes > job[r].seen

-----------------------------------------------------------------------------
(* refresh_topic_run: the rollup of the children *)

BadRollupPending(b) ==
    IF "running" \in ChildStatuses(b) THEN "running"
    ELSE IF ChildStatuses(b) \subseteq {"completed"} THEN "completed"
    ELSE "partial"

BadRollupFailed(b) ==
    IF "failed" \in ChildStatuses(b) THEN "partial"
    ELSE IF "running" \in ChildStatuses(b) THEN "running"
    ELSE IF "pending" \in ChildStatuses(b) THEN "queued" ELSE "completed"

Rollup(b) ==
    LET statuses == ChildStatuses(b)
    IN  IF statuses \cap ActiveRun # {}
        THEN IF "running" \in statuses THEN "running" ELSE "queued"
        ELSE IF statuses \subseteq {"completed"} THEN "completed"
        ELSE IF statuses = {"failed"} THEN "failed"
        ELSE "partial"

(* The index refuses a rollup that makes a second batch of the topic active. *)
RollupAllowed(b) ==
    Rollup(b) \in ActiveBatch => TopicFree(b, batch[b].topic)

Refresh(b) ==
    /\ RollupAllowed(b)
    /\ batch' = [batch EXCEPT ![b].status = Rollup(b)]

(* Every statement that finishes a run writes finished_at. *)
Finished(row, s) == [status |-> s, finishes |-> row.finishes + 1]

-----------------------------------------------------------------------------
(* Creating a batch *)

(* The conflict check of create_topic_run and queue_run, under the topic's  *)
(* row lock.                                                                *)
TopicRunnable(t) ==
    \A b \in Batch : batch[b].status # "absent" /\ batch[b].topic = t
        => batch[b].status \notin ActiveBatch /\ batch[b].intel \notin ActiveIntel

NewBatch(t, requested, queued) ==
    [status |-> "queued", topic |-> t, requested |-> requested,
     queued |-> queued, intel |-> "not_started"]

NewRun == [status |-> "pending", finishes |-> 0]

(* create_topic_run by the admin's Run Now or by the scheduler.  qs are the *)
(* queries of the topic that are enabled at that moment; an admin toggles   *)
(* them at will.                                                            *)
CreateTopicRun(b, t, route, qs) ==
    /\ batch[b].status = "absent"
    /\ TopicRunnable(t)
    /\ qs # {} /\ qs \subseteq {q \in Query : TopicOf[q] = t}
    /\ \A r \in Run : r[2] \in qs => run[r].status \notin ActiveRun
    /\ batch' = [batch EXCEPT ![b] = NewBatch(t, Cardinality(qs), 0)]
    /\ run' = [r \in Run |-> IF r[1] = b /\ r[2] \in qs THEN NewRun ELSE run[r]]
    /\ api' = [api EXCEPT ![b] = [NoApi EXCEPT !.step = "sending",
                                                !.route = route, !.left = qs]]
    /\ UNCHANGED <<job, recovery, faults>>

(* queue_run: the direct run of one query, with a batch of its own. *)
QueueRun(b, q) ==
    /\ batch[b].status = "absent"
    /\ TopicRunnable(TopicOf[q])
    /\ QueryFree(<<b, q>>)
    /\ batch' = [batch EXCEPT ![b] = NewBatch(TopicOf[q], 1, 1)]
    /\ run' = [run EXCEPT ![<<b, q>>] = NewRun]
    /\ api' = [api EXCEPT ![b] = [NoApi EXCEPT !.step = "sending",
                                                !.route = "run_query", !.left = {q}]]
    /\ UNCHANGED <<job, recovery, faults>>

-----------------------------------------------------------------------------
(* Enqueueing the children, one message each *)

TakeChild(a, q, step) ==
    [step |-> step, route |-> a.route, left |-> a.left \ {q}, at |-> {q}]

Enqueue(b, q) ==
    /\ api[b].step = "sending" /\ q \in api[b].left
    /\ job' = [job EXCEPT ![<<b, q>>].msg = "queued"]
    /\ api' = [api EXCEPT ![b] = IF @.route = "run_query" THEN NoApi
                                 ELSE TakeChild(@, q, "counting")]
    /\ UNCHANGED <<batch, run, recovery, faults>>

(* The broker refuses the message. *)
EnqueueFails(b, q) ==
    /\ api[b].step = "sending" /\ q \in api[b].left
    /\ api' = [api EXCEPT ![b] = TakeChild(@, q, "unsent")]
    /\ UNCHANGED <<batch, run, job, recovery, faults>>

(* increment_queued; CHECK (queued_query_count <= requested_query_count). *)
IncrementQueued(b) ==
    /\ api[b].step = "counting"
    /\ batch[b].queued < batch[b].requested
    /\ batch' = [batch EXCEPT ![b].queued = @ + 1]
    /\ api' = [api EXCEPT ![b] = [@ EXCEPT !.step = "sending", !.at = {}]]
    /\ UNCHANGED <<run, job, recovery, faults>>

(* The scheduler treats any exception after the send like a failed send. *)
IncrementFails(b) ==
    /\ api[b].step = "counting" /\ api[b].route = "scheduler"
    /\ faults < MaxFaults
    /\ api' = [api EXCEPT ![b].step = "unsent"]
    /\ faults' = faults + 1
    /\ UNCHANGED <<batch, run, job, recovery>>

BadMarkEnqueueFailed(b) ==
    /\ api[b].step = "unsent"
    /\ run' = [r \in Run |->
                 IF r[1] = b /\ r[2] \in api[b].at
                 THEN Finished(run[r], "failed")
                 ELSE run[r]]
    /\ api' = [api EXCEPT ![b] = [@ EXCEPT !.step = "refreshing", !.at = {}]]
    /\ UNCHANGED <<batch, job, recovery, faults>>

(* mark_enqueue_failed, first transaction: only a pending run fails. *)
MarkEnqueueFailed(b) ==
    /\ api[b].step = "unsent"
    /\ run' = [r \in Run |->
                 IF r[1] = b /\ r[2] \in api[b].at /\ run[r].status = "pending"
                 THEN Finished(run[r], "failed")
                 ELSE run[r]]
    /\ api' = [api EXCEPT ![b] = [@ EXCEPT !.step = "refreshing", !.at = {}]]
    /\ UNCHANGED <<batch, job, recovery, faults>>

(* mark_enqueue_failed, second transaction. *)
EnqueueFailedRefresh(b) ==
    /\ api[b].step = "refreshing"
    /\ Refresh(b)
    /\ api' = [api EXCEPT ![b] = IF @.route = "run_query" THEN NoApi
                                 ELSE [@ EXCEPT !.step = "sending"]]
    /\ UNCHANGED <<run, job, recovery, faults>>

(* The refresh that closes run_topic and enqueue_scheduled_discovery. *)
CloseEnqueueing(b) ==
    /\ api[b].step = "sending" /\ api[b].left = {}
    /\ Refresh(b)
    /\ api' = [api EXCEPT ![b] = NoApi]
    /\ UNCHANGED <<run, job, recovery, faults>>

(* The IntegrityError of either refresh ends the handler. *)
ApiRefreshRefused(b) ==
    /\ \/ api[b].step = "refreshing"
       \/ api[b].step = "sending" /\ api[b].left = {}
    /\ ~RollupAllowed(b)
    /\ api' = [api EXCEPT ![b] = NoApi]
    /\ UNCHANGED <<batch, run, job, recovery, faults>>

(* The process dies, or an exception it does not catch ends the handler. *)
ApiCrash(b) ==
    /\ api[b].step # "idle" /\ faults < MaxFaults
    /\ api' = [api EXCEPT ![b] = NoApi]
    /\ faults' = faults + 1
    /\ UNCHANGED <<batch, run, job, recovery>>

-----------------------------------------------------------------------------
(* run_youtube_discovery: one message, one child run *)

(* The worker takes the message, loads the query and reads the clock.       *)
Deliver(r) ==
    /\ job[r].msg = "queued"
    /\ job' = [job EXCEPT ![r] = [@ EXCEPT !.msg = "held", !.phase = "starting",
                                            !.seen = run[r].finishes]]
    /\ UNCHANGED <<batch, run, api, recovery, faults>>

(* mark_running has no condition on the status; the constraints decide.  A  *)
(* run that is collecting stages pages (_persist_page) until Finalize.      *)
MarkRunning(r) ==
    /\ job[r].phase = "starting"
    /\ StartedBeforeFinished(r) /\ QueryFree(r)
    /\ run' = [run EXCEPT ![r].status = "running"]
    /\ job' = [job EXCEPT ![r] = [@ EXCEPT !.phase = "collecting", !.seen = 0]]
    /\ UNCHANGED <<batch, api, recovery, faults>>

(* _finalize: s depends on the pages, the quota and the YouTube API.         *)
Finalize(r, s) ==
    /\ job[r].phase = "collecting"
    /\ run' = [run EXCEPT ![r] = Finished(@, s)]
    /\ job' = [job EXCEPT ![r].phase = "refreshing"]
    /\ UNCHANGED <<batch, api, recovery, faults>>

BadWorkerRefresh(r) ==
    /\ job[r].phase = "refreshing"
    /\ Refresh(r[1])
    /\ job' = [job EXCEPT ![r] = IF Rollup(r[1]) = "completed"
                                 THEN [@ EXCEPT !.phase = "handing_off"]
                                 ELSE NoJob]
    /\ UNCHANGED <<run, api, recovery, faults>>

(* refresh_batch_for_run, and the read of the status it returns. *)
WorkerRefresh(r) ==
    /\ job[r].phase = "refreshing"
    /\ Refresh(r[1])
    /\ job' = [job EXCEPT ![r] = IF Rollup(r[1]) \in TerminalBatch
                                 THEN [@ EXCEPT !.phase = "handing_off"]
                                 ELSE NoJob]
    /\ UNCHANGED <<run, api, recovery, faults>>

(* start_pipeline, first transaction, under the row lock of the batch. *)
StartPipeline(r) ==
    LET b == r[1]
    IN  /\ job[r].phase = "handing_off"
        /\ batch' = IF /\ batch[b].status \in TerminalBatch
                       /\ batch[b].intel = "not_started"
                    THEN [batch EXCEPT ![b].intel = "queued"]
                    ELSE batch
        /\ job' = [job EXCEPT ![r] = NoJob]
        /\ UNCHANGED <<run, api, recovery, faults>>

(* A permanent error, before the run starts: invalid payload, missing or    *)
(* disabled query.                                                          *)
Reject(r) ==
    /\ job[r].msg = "queued"
    /\ job' = [job EXCEPT ![r] = [@ EXCEPT !.msg = "held", !.phase = "rejecting"]]
    /\ UNCHANGED <<batch, run, api, recovery, faults>>

BadFinalizeFailure(r) ==
    /\ \/ job[r].phase = "rejecting"
       \/ job[r].phase = "idle" /\ job[r].msg = "exhausted"
    /\ run' = [run EXCEPT ![r] = Finished(@, "failed")]
    /\ job' = [job EXCEPT ![r].phase = "closing"]
    /\ UNCHANGED <<batch, api, recovery, faults>>

(* finalize_failure, first transaction, called for a permanent error or by  *)
(* the maintenance actor for an exhausted message.                          *)
FinalizeFailure(r) ==
    /\ \/ job[r].phase = "rejecting"
       \/ job[r].phase = "idle" /\ job[r].msg = "exhausted"
    /\ IF run[r].status \in ActiveRun
       THEN /\ run' = [run EXCEPT ![r] = Finished(@, "failed")]
            /\ job' = [job EXCEPT ![r].phase = "closing"]
       ELSE /\ job' = [job EXCEPT ![r] = NoJob]
            /\ UNCHANGED run
    /\ UNCHANGED <<batch, api, recovery, faults>>

(* finalize_failure, second transaction. *)
FailureRefresh(r) ==
    /\ job[r].phase = "closing"
    /\ Refresh(r[1])
    /\ job' = [job EXCEPT ![r] = NoJob]
    /\ UNCHANGED <<run, api, recovery, faults>>

(* Any other exception ends the attempt: Dramatiq retries the message, or   *)
(* hands it to finalize_youtube_discovery_retry_exhausted, which itself has *)
(* max_retries=0.                                                           *)
EndAttempt(r) ==
    job' = [job EXCEPT ![r] =
        IF @.msg = "exhausted" THEN NoJob
        ELSE IF @.tries < MaxRetries
        THEN Parked("queued", @.tries + 1)
        ELSE Parked("exhausted", 0)]

(* An IntegrityError of mark_running. *)
MarkRunningRefused(r) ==
    /\ job[r].phase = "starting"
    /\ ~(StartedBeforeFinished(r) /\ QueryFree(r))
    /\ EndAttempt(r)
    /\ UNCHANGED <<batch, run, api, recovery, faults>>

(* An IntegrityError of refresh_topic_run, in the worker. *)
RefreshRefused(r) ==
    /\ job[r].phase \in {"refreshing", "closing"}
    /\ ~RollupAllowed(r[1])
    /\ EndAttempt(r)
    /\ UNCHANGED <<batch, run, api, recovery, faults>>

(* The database or the network fails under the worker. *)
AttemptFails(r) ==
    /\ job[r].phase # "idle" /\ faults < MaxFaults
    /\ EndAttempt(r)
    /\ faults' = faults + 1
    /\ UNCHANGED <<batch, run, api, recovery>>

(* The worker dies: the broker delivers the message again.  The maintenance *)
(* message of an exhausted run is redelivered likewise.                     *)
Redelivered(j) == Parked(IF j.msg = "held" THEN "queued" ELSE j.msg, j.tries)

WorkerCrash(r) ==
    /\ job[r].phase # "idle" /\ faults < MaxFaults
    /\ job' = [job EXCEPT ![r] = Redelivered(@)]
    /\ faults' = faults + 1
    /\ UNCHANGED <<batch, run, api, recovery>>

-----------------------------------------------------------------------------
(* Maintenance and the admin *)

BadRecoverStale(rs) ==
    /\ rs # {} /\ \A r \in rs : run[r].status = "running"
    /\ run' = [r \in Run |-> IF r \in rs THEN Finished(run[r], "failed") ELSE run[r]]
    /\ recovery' = recovery \cup {r[1] : r \in rs}
    /\ UNCHANGED <<batch, job, api, faults>>

(* recover_stale, first transaction: rs are runs past their limit of time.  *)
RecoverStale(rs) ==
    /\ rs # {} /\ \A r \in rs : run[r].status \in ActiveRun
    /\ run' = [r \in Run |-> IF r \in rs THEN Finished(run[r], "failed") ELSE run[r]]
    /\ recovery' = recovery \cup {r[1] : r \in rs}
    /\ UNCHANGED <<batch, job, api, faults>>

(* recover_stale, one transaction per affected batch. *)
RecoveryRefresh(b) ==
    /\ b \in recovery
    /\ Refresh(b)
    /\ recovery' = recovery \ {b}
    /\ UNCHANGED <<run, job, api, faults>>

(* An IntegrityError ends the loop over the affected batches. *)
RecoveryRefreshRefused(b) ==
    /\ b \in recovery /\ ~RollupAllowed(b)
    /\ \E kept \in SUBSET (recovery \ {b}) : recovery' = kept
    /\ UNCHANGED <<batch, run, job, api, faults>>

RecoveryCrash ==
    /\ recovery # {} /\ faults < MaxFaults
    /\ \E kept \in SUBSET recovery : kept # recovery /\ recovery' = kept
    /\ faults' = faults + 1
    /\ UNCHANGED <<batch, run, job, api>>

(* GET /topic-runs/{id}: polled by the console while it shows the batch. *)
AdminRefresh(b) ==
    /\ batch[b].status # "absent"
    /\ Refresh(b)
    /\ UNCHANGED <<run, job, api, recovery, faults>>

(* The stages of the pipeline, seen from here: update_metrics writes         *)
(* "processing" whatever the status was.                                    *)
PipelineMoves(b, s) ==
    /\ batch[b].intel # "not_started"
    /\ batch' = [batch EXCEPT ![b].intel = s]
    /\ UNCHANGED <<run, job, api, recovery, faults>>

-----------------------------------------------------------------------------
Init ==
    /\ batch = [b \in Batch |->
                  [NewBatch(CHOOSE t \in Topic : TRUE, 0, 0)
                      EXCEPT !.status = "absent"]]
    /\ run = [r \in Run |-> [NewRun EXCEPT !.status = "absent"]]
    /\ job = [r \in Run |-> NoJob]
    /\ api = [b \in Batch |-> NoApi]
    /\ recovery = {}
    /\ faults = 0

Create(b) ==
    \/ \E t \in Topic, route \in {"run_topic", "scheduler"}, qs \in SUBSET Query :
            CreateTopicRun(b, t, route, qs)
    \/ \E q \in Query : QueueRun(b, q)

(* The steps of the processes that are running. *)
ApiStep(b) ==
    \/ \E q \in Query : Enqueue(b, q) \/ EnqueueFails(b, q)
    \/ IncrementQueued(b)
    \/ MarkEnqueueFailed(b) \/ EnqueueFailedRefresh(b)
    \/ CloseEnqueueing(b) \/ ApiRefreshRefused(b)

WorkerStep(r) ==
    \/ Deliver(r) \/ Reject(r)
    \/ MarkRunning(r) \/ MarkRunningRefused(r)
    \/ \E s \in TerminalRun : Finalize(r, s)
    \/ WorkerRefresh(r) \/ RefreshRefused(r)
    \/ StartPipeline(r)
    \/ FinalizeFailure(r) \/ FailureRefresh(r)

RecoveryStep ==
    \/ \E rs \in SUBSET Run : RecoverStale(rs)
    \/ \E b \in Batch : RecoveryRefresh(b) \/ RecoveryRefreshRefused(b)

Fault ==
    \/ \E b \in Batch : IncrementFails(b) \/ ApiCrash(b)
    \/ \E r \in Run : AttemptFails(r) \/ WorkerCrash(r)
    \/ RecoveryCrash

Next ==
    \/ \E b \in Batch : Create(b) \/ ApiStep(b) \/ AdminRefresh(b)
    \/ \E r \in Run : WorkerStep(r)
    \/ RecoveryStep
    \/ Fault
    \/ \E b \in Batch, s \in {"processing", "ended"} : PipelineMoves(b, s)

Spec == Init /\ [][Next]_vars

-----------------------------------------------------------------------------
TypeOK ==
    /\ batch \in [Batch -> BatchRow]
    /\ run \in [Run -> RunRow]
    /\ job \in [Run -> JobRow]
    /\ api \in [Batch -> ApiRow]
    /\ recovery \subseteq Batch
    /\ faults \in Nat

-----------------------------------------------------------------------------
(* Fairness: the processes that run make progress, the broker delivers, and *)
(* the scheduler keeps running the stale recovery.  Creation, the admin's   *)
(* polling and faults are free.                                             *)
Fairness ==
    /\ \A b \in Batch : WF_vars(ApiStep(b))
    /\ \A r \in Run : WF_vars(WorkerStep(r))
    /\ WF_vars(RecoveryStep)

-----------------------------------------------------------------------------
(* Safety *)

(* A child is settled when it will not be collected again, or when its row  *)
(* was finished under the worker that is still at it.                       *)
SettledRun(r) ==
    \/ run[r].status \in {"absent"} \cup TerminalRun
    \/ run[r].status = "running" /\ run[r].finishes > 0

Settled(b) == \A q \in Query : SettledRun(<<b, q>>)

(* The rollup never reports a batch as terminal while a child still has to  *)
(* be collected, whatever the interleaving of child transactions, rollups,  *)
(* redeliveries and recoveries (refresh_topic_run).                         *)
TerminalBatchSettled ==
    \A b \in Batch : batch[b].status \in TerminalBatch => Settled(b)

(* Intelligence never starts on a batch that is still being collected:      *)
(* start_pipeline trusts a status that other processes rewrite.             *)
IntelligenceAfterCollection ==
    \A b \in Batch : batch[b].intel # "not_started" => Settled(b)

(* A worker that still stages pages of a batch under analysis was overtaken *)
(* by stale recovery; a healthy worker never is that late.                  *)
LateCollectorWasRecovered ==
    \A r \in Run :
        batch[r[1]].intel # "not_started" /\ job[r].phase = "collecting"
            => run[r].finishes > 0

(* Two workers collect the same query at the same time only if stale        *)
(* recovery gave up one of them while it was collecting: no redelivery,     *)
(* retry, revival of a recovered run or new batch makes a second collector  *)
(* (uq_discovery_query_inflight speaks of rows, not of workers).            *)
OneHealthyCollectorPerQuery ==
    \A r, s \in Run :
        /\ r # s /\ r[2] = s[2]
        /\ job[r].phase = "collecting" /\ job[s].phase = "collecting"
        => run[r].status = "failed" \/ run[s].status = "failed"

(* The CHECK on queued_query_count never refuses increment_queued, so no    *)
(* enqueued child is left out of the count by it.                           *)
IncrementNeverRefused ==
    \A b \in Batch : api[b].step = "counting" => batch[b].queued < batch[b].requested

(* A completed or partial result is final: no late failure, recovery,       *)
(* enqueue failure or redelivery changes the status of such a run.          *)
SuccessIsFinal ==
    [][\A r \in Run : run[r].status \in {"completed", "partial"}
            => run'[r].status = run[r].status]_vars

(* A batch as its contract with the intelligence stages sees it.            *)
ContractPhase(b) ==
    IF batch[b].status = "absent" THEN "absent"
    ELSE IF batch[b].intel # "not_started" THEN "analysing"
    ELSE IF Settled(b) THEN "settled" ELSE "collecting"

KeptResults == {r \in Run : run[r].status \in {"completed", "partial"}}

Contract == INSTANCE TopicRunContract
    WITH phase <- [b \in Batch |-> ContractPhase(b)], kept <- KeptResults

(* The batches implement the contract: though every worker that sees a batch *)
(* terminal calls start_pipeline, and other processes rewrite its status,   *)
(* it is analysed once, after it settled, and no kept result is taken back. *)
ContractSpec == Contract!ContractSpec

-----------------------------------------------------------------------------
(* The inductive invariant *)

(* Jobs exist for children only, children for batches only, and recovery    *)
(* refreshes batches that exist.                                            *)
BatchesFirst ==
    \A b \in Batch : batch[b].status = "absent" =>
        /\ batch[b].intel = "not_started" /\ api[b] = NoApi
        /\ \A q \in Query : run[<<b, q>>].status = "absent"

RunsFirst ==
    /\ \A r \in Run : run[r].status = "absent" => job[r] = NoJob
    /\ \A b \in Batch : \A q \in api[b].left : run[<<b, q>>].status # "absent"

RowsExist == BatchesFirst /\ RunsFirst

RecoveryExists == \A b \in recovery : batch[b].status # "absent"

(* How the status of a run relates to its finishes and to its worker. *)
RowsTimed ==
    \A r \in Run :
        /\ run[r].status \in TerminalRun => run[r].finishes > 0
        /\ job[r].phase = "collecting" => run[r].status \in {"running", "failed"}
        /\ job[r].phase = "starting" /\ run[r].status \in {"completed", "partial"}
                => job[r].seen = run[r].finishes

(* What uq_discovery_query_inflight guarantees of the rows. *)
OneInflightPerQuery ==
    \A r, s \in Run :
        r # s /\ run[r].status \in ActiveRun /\ run[s].status \in ActiveRun
            => r[2] # s[2]

(* Children not yet counted fit below the requested number. *)
Fits(b) ==
    /\ api[b].step = "counting" => api[b].route # "run_query"
    /\ api[b].step # "idle" /\ api[b].route # "run_query" =>
            batch[b].queued + Cardinality(api[b].left)
                + (IF api[b].step = "counting" THEN 1 ELSE 0)
            <= batch[b].requested

CountsFit == \A b \in Batch : Fits(b)

IInv ==
    /\ TypeOK /\ RowsExist /\ RecoveryExists /\ RowsTimed /\ CountsFit
    /\ TerminalBatchSettled /\ IntelligenceAfterCollection
    /\ OneInflightPerQuery

-----------------------------------------------------------------------------
(* Liveness *)

FairSpec == Spec /\ Fairness

(* Children have ended and nobody is left who would refresh the batch: a     *)
(* fault came between the end of the last one and its rollup.                *)
Stranded(b) ==
    /\ faults > 0 /\ ChildStatuses(b) \subseteq TerminalRun
    /\ \A q \in Query : job[<<b, q>>] = NoJob
    /\ api[b] = NoApi /\ b \notin recovery

(* Without anybody who opens the batch in the console, it terminates, and so *)
(* gives its topic free: no message, retry, enqueueing or recovery leaves a  *)
(* child active, and only a fault between the end of a child and the rollup *)
(* leaves the batch so.                                                      *)
BatchTerminates ==
    \A b \in Batch :
        batch[b].status # "absent" ~> batch[b].status \in TerminalBatch \/ Stranded(b)

(* If a worker that collected still has its rollup to do when all children  *)
(* have ended, the pipeline starts unless another fault comes, whichever     *)
(* worker sees the batch terminal first and whatever recovery did meanwhile *)
(* (execute_discovery_safely; who started too early finds the batch active  *)
(* and leaves it to the others).                                             *)
LastWorkerStartsPipeline ==
    \A b \in Batch, n \in 0 .. MaxFaults :
        /\ \E q \in Query : job[<<b, q>>].phase = "refreshing"
        /\ ChildStatuses(b) \subseteq TerminalRun /\ faults = n
        ~> batch[b].intel # "not_started" \/ faults > n

(* docs/discovery-operations-console.md: when all query children terminate, *)
(* the worker starts the stages (here, when one of them collected something).*)
PipelineFollowsCollection ==
    \A b \in Batch :
        /\ ChildStatuses(b) \subseteq TerminalRun
        /\ ChildStatuses(b) \cap {"completed", "partial"} # {}
        ~> batch[b].intel # "not_started"
=============================================================================
