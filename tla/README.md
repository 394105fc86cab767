# A verification development for AI Business Radar

AI Business Radar finds business opportunities in YouTube content: an administrator
defines *topics* with search queries, workers collect videos and comments, language
models extract *signals*, signals are normalized into *opportunities*, people review,
merge and publish them, and translations, business cases, trends and scores are derived
from what is published. This directory holds TLA+ modules that model that chain, the TLC
configurations that check them on small instances, and proofs checked by TLAPS.
`PROJECT.json` maps every definition to its lines of source and lists runs, mutants,
findings, hazards and theorems.

    tlc -workers 2 -config DiscoveryRuns_batch.cfg MCDiscoveryRuns
    tlapm DiscoveryRuns_proofs.tla

Source files are named relative to `apps/api/src/ai_business_radar_api/` (api) and
`workers/src/ai_business_radar_workers/` (workers).

## 1. The system and its components

| component | state it keeps | operations | interacts with |
|---|---|---|---|
| **Topic runs** (api `services/discovery_operations.py`) | `discovery_topic_runs` (a *batch*: status, counts, intelligence status), `collection_runs` (its children, one per query), topics with `next_run_at` | create and enqueue a batch, direct query run, count messages, mark enqueue failures, roll up the children, recover stale runs, patch topics | queue, worker, scheduler, pipeline |
| **Discovery worker** (workers `actors/youtube_discovery.py`, api `services/youtube_discovery.py`) | the run it executes, `youtube_discovery_items` it stages | start, collect pages, finalize, reject, exhaust | broker, YouTube, topic runs, pipeline |
| **Scheduler** (workers `scheduler/schedules.py`) | its clock; `next_run_at` | due topics, metadata and comment sweeps, stale recovery, trends, scoring, translation reconciliation | all queues |
| **Pipeline coordinator** (workers `discovery_pipeline.py`) | the intelligence columns of the batch: status, two branch flags, counters | start, resume, one completion handler per stage, finish, fail | every stage actor, topic runs |
| **Metadata collection, stale claims** (api `services/youtube_metadata.py`, `stale_claims.py`) | staging items (claims), canonical channels, videos | claim, fetch, persist, release, recover | YouTube, scheduler, pipeline |
| **Comment collection** (api `services/youtube_comments.py`) | comments | pages per video under a quota | YouTube, pipeline |
| **Relevance, signal extraction, comment pain** (api `services/relevance_filter.py`, `signal_extraction.py`, `comment_pain_mining.py`) | `ai_extractions` (attempts), `videos.processing_status`, `signals` | start, complete, fail, reuse by input hash | AI provider, pipeline |
| **Semantic guardrail** (api `services/signal_semantics.py`, `signal_semantic_audit.py`) | the semantic status of a signal and its audit rows | judge, find duplicates, audit | extraction, normalization, reviews |
| **Opportunity normalization** (api `services/opportunity_normalization.py`) | opportunities, their links to signals, review tasks | match, create, send to review | AI provider, reviews |
| **Review workflow, activation, candidate workspace, watchlist** (api `services/review_workflow.py`, `opportunity_activation.py`, `candidate_workspace.py`, `watchlist.py`) | review tasks, opportunity status, merge history, names, watchlist items | decide, merge, publish, edit, watch | normalization, translation |
| **Radar and library queries** (api `services/radar_query.py`) | none | list, filter, sort, page | all of the above |
| **Translation** (api `services/translation_orchestration.py`, `intelligence_translation.py`, `infrastructure/queue.py`) | localizations, a deduplicating lease in Redis | trigger, reconcile, translate, supersede | AI provider, queue |
| **Consolidation** (api `services/opportunity_consolidation.py`) | versions of a business case | request, lease, generate, approve, accept | AI provider, workspace |
| **Trends and scoring** (api `services/trend_aggregation.py`, `opportunity_scoring.py`, `domain/scoring/`) | trend snapshots, scores | aggregate windows, compute and store scores | scheduler |
| taxonomy, authentication, web, scripts, external clients | small tables or none | | |

What is hard here. Everything runs in several processes: API requests, a scheduler,
and Dramatiq workers that are delivered messages *at least once*, retried a bounded
number of times and then handed to a maintenance actor. A handler is a sequence of short
transactions, broker calls and calls to a language model, so another process, a crash or
a refusal can come between any two of them. Several handlers write the same row by its
id, without a condition on what it has become. What must hold:

* topic runs: a batch is terminal exactly when nothing of it is left to collect; one
  healthy collector per query; a kept result is never lost; a batch whose children ended does
  not stay active, and its analysis starts; every topic that is due has its turn, once per period;
* pipeline: it starts once, after collection; both branches end before an outcome; an
  outcome fits what happened to the items, and stays; an active one has somebody to end it;
* staging items: one claimant, the CHECK of the table respected, counts that say what is
  staged, and every item settled in the end;
* analyses: an attempt has one worker, its result is never rewritten, the status of a
  video is what a result says, and nothing stays "running" without a worker;
* opportunities: a piece of evidence counts once, nothing is published that was not
  cleared, merges lose neither evidence nor watchers, published names differ as far as the
  code looks, no edit is lost;
* readers: pages of unchanged data are a partition, and in order whatever happens;
* derived rows: one job per lease, one provider call per case, a translation stays shown
  until its text changes and is repaired when lost, windows and scores stay in range.

PROJECT.json lists every component with its status and every hazard at its line.

## 2. Modules

| module | about |
|---|---|
| `DiscoveryRuns` | batches, children, messages, workers, recovery, rollup, hand-off |
| `TopicRunContract` | abstract: collect, settle, analyse once; results are kept |
| `TopicSchedule` | when topics are due, the scheduler's callback, pause and resume |
| `DiscoveryPipeline` | the intelligence pipeline of one batch |
| `PagedDiscovery` | a search that pages, deduplicates and stages items under a quota |
| `StagingClaims` | extends it: collections, claims, recovery, the start of the pipeline |
| `VideoAnalysis` | attempts, results and video status of the three analyses |
| `CommentCollection` | extends it: the collection that feeds comments to them |
| `SignalGuardrail` | semantic decisions, audit rows, duplicates |
| `OpportunityLifecycle` | extends it: normalization, reviews, merges, publication, edits, watchlist |
| `RadarPages` | sorting, filters and pages of the read model |
| `Localization` | triggers, lease, translation workers, reconciliation |
| `BusinessCase` | extends it: versions of a case under their own lease |
| `ScoreFormula` | windows, growth, score components as operators |
| `TrendScores` | composes the last three: snapshots and scores beside them |
| `MC...` | the instances for TLC |
| `..._proofs` | theorems |

**Atomicity.** One action is one database transaction or one call to the broker or a
service. Row locks make a transaction atomic with respect to the rows it locks; the
constraints (unique indexes and CHECKs) are guards of the writes, and a refused write is
an action of its own, with what the handler does about it. Where a transaction reads rows
it has not locked and writes them later (`start_pipeline` over the items, the upserts of
`_persist` in the translation, the last transaction of the schedule) the read and the
write are two actions.

**The broker.** A message is queued, held by a worker, or exhausted. A worker that dies
leaves its message to be delivered again; a failed attempt is retried while
`tries < MaxRetries`, then handed to the maintenance actor. When the broker delivers again
is its choice, so in `DiscoveryPipeline` a death after the last step of a handler but
before the acknowledgement is part of that step (`Over`).

**Faults** are counted and bounded by `MaxFaults` (`MaxTrouble` in `TopicSchedule`);
`FaultKinds` selects the kinds of a run. Operators called `Bad...` are neighbours with one
plausible bug. The specifications do not use them; exchanging one for its neighbour makes a
property fail, which shows that the property can fail:

| mutated operator | bug | violated |
|---|---|---|
| `Rollup` | forgets pending children; or all of them once one failed | `TerminalBatchSettled`; `IntelligenceAfterCollection` |
| `MarkEnqueueFailed` | fails a run that is no longer pending | `SuccessIsFinal` |
| `FinalizeFailure` | fails a run that has a result | `ContractSpec` |
| `QueryFree` | no unique index over runs | `OneHealthyCollectorPerQuery` |
| `RecoverStale` | recovers running children only | `BatchTerminates` |
| `WorkerRefresh` | hands off completed batches only | `LastWorkerStartsPipeline` |
| `Advanced` | advances the old `next_run_at` by one interval | `OneRunPerPeriod` |
| `Older` | takes any due rows instead of the oldest | `DueIsServed` |
| `Finished` | does not look at the flags | `OutcomeAfterStages`, `OutcomeIsFinal`, `OutcomeNeedsBothBranches` |
| `UpdateMetrics` | overwrites the failed stages instead of adding | `OutcomeFitsItems` |
| `AfterFailure` | drops the message instead of retrying | `ActiveHasWorker`, `PipelineEnds` |
| `Stage` | stages a video again that has a row | `SettledIsFinal` |
| `Progress` | adds each page to the count of the row | `CountsHonest` |
| `Claimable` | takes items that another collection has claimed | `OneClaimant` |
| `Release` | returns items whatever they have become | `SettledStaysKnown` |
| `RecoverStaleClaims` | forgets the claims of dead processes | `EveryItemSettles` |
| `VideoAfter` | leaves the video in processing after an invalid output | `NothingLeftBehind`, `RelevanceDecides` |
| `Eligible` | extracts signals of a video that is not queued | `StatusHasEvidence` |
| `NumberFree` | no unique index over attempts | `ResultsAreFinal` |
| `Status` | a collection cut by the quota is completed | `GatherHonest` |
| `Duplicate` | only an older signal counts as published before | `EvidenceCountsOnce` |
| `Judge` | writes although the audit row exists | `ApprovalStands` |
| `Cleared` | an approval with notes does not record the person | `PublishedIsCleared` |
| `MovedLinks` | a merge drops the links it should move | `EvidenceFollowsMerges` |
| `MovedWatch` | a merge copies the watchlist | `NothingStaysBehind` |
| `NameTaken` | compares with candidates only | `PublishedNamesDiffer` |
| `UpToDate` | no comparison of the stamp | `NoLostEdit` |
| `Slice` | a page begins one too late | `PagesFaithful` |
| `KeyAfterRefusal` | a refused trigger deletes the key of others | `OneTaskPerLease` |
| `Projected` | marks every current row stale, its own too | `ShownUntilEdited` |
| `Plan` | any current row will do, of whatever text | `RepairedByReconciliation` |
| `Takes` | a second delivery takes a running case | `OneCallPerCase` |
| `StillMine` | an answer is written whatever the row has become | `EndedCaseStays` |
| `Within` | the window is closed at its end | `NoSignalCountedTwice` |
| `DistributionEase` | a component without its lower bound | `ScoresInRange` |

### 2.1 Topic runs: DiscoveryRuns and TopicSchedule

| state | code |
|---|---|
| `batch` | `discovery_topic_runs`: status, requested and queued counts, intelligence status |
| `run` | `collection_runs`: status; `finishes` counts writes of `finished_at`, of which only "null or not" and "before or after `started_at`" matter |
| `job` | the message of the run and the phase of the worker that holds it |
| `api` | the handler that created the batch (`run_topic`, direct query run, or scheduler) while it enqueues the children one by one |
| `recovery` | batches a stale recovery still has to refresh |

`CreateTopicRun`, `QueueRun` → `Enqueue`/`EnqueueFails` → `IncrementQueued` →
`CloseEnqueueing` is the creating handler; `Deliver` → `MarkRunning` → `Finalize` →
`WorkerRefresh` → `StartPipeline` a worker; `Reject`, `EndAttempt`, `FinalizeFailure`,
`FailureRefresh` its failures; `RecoverStale`, `RecoveryRefresh` the maintenance actor;
`AdminRefresh` a GET of the batch by the console. The pages a run stages are part of the
phase "collecting"; `refresh_topic_run` reads the children and writes the batch under the
batch's row lock and is one step; stale recovery may take any active run (there is no
clock), which includes the runs of healthy but slow workers; what the pipeline does
afterwards is `PipelineMoves`, refined by `DiscoveryPipeline`; the resumption of a
pipeline is modelled there only.

`BatchTerminates` assumes nobody who opens the batch in the console. It says that a batch
becomes terminal or is `Stranded`: its children have ended, a fault has happened, and
neither a message, nor the handler that created it, nor a recovery is left to refresh it.
`LastWorkerStartsPipeline` is about the moment at which all children have ended and a worker
that collected still has its rollup to do; other workers may be at any step, have seen the
batch active, or have been given up. What happens when no such worker is left is a finding
(section 4).

`TopicRunContract` is what the stages rely on. The mapping calls a batch *settled* when
each child is terminal or is running again after recovery finished it; results kept are
the completed and partial runs. The weaker claim "no worker collects any more" is false,
and `LateCollectorWasRecovered` (proved) says who the exceptions are.

`TopicSchedule` leaves out what happens in a batch and has the rows of the topics instead:
status, schedule, `next_run_at`, the number of enabled queries. `StartRound` selects due
*query rows* under the limit (`get_due` joins the queries, so a topic with many of them
takes several places), `RunTopic` creates and enqueues the batch of one topic,
`ReadSchedule` and `CloseRound` are the last transaction, which loads each topic and then
writes its next run, and `RoundDies` is a callback that ends before. `Patch` is the edit
by the administrator, with the next run the code computes from the request. Time is
counted in intervals of the callback and `next` is relative to the present, so that the
state space is finite; a topic overdue for longer than `MaxLate` counts as that late.
`MCTopicSchedule` puts it beside `DiscoveryRuns` for the liveness of both: it starts with a
batch and nothing scheduled (`OneBatch`), or with a batch that is over and two topics
(`Scheduled`), with one edit (`MCFairSpec`) or two, a pause and a resumption among others
(`MCEditedSpec`).

### 2.2 DiscoveryPipeline

| state | code |
|---|---|
| `intel` | `intelligence_status`, the two `*_normalization_done` flags, whether `failed_stages` is positive |
| `item` | `processing_status` of the batch's staging items, one per video |
| `job` | up to `Cardinality(Copy)` messages per stage with their worker: the handler's program counter, the videos of the message, those of the result, what a handler has read and not used yet |

`StartPipeline` (first transaction), `Begin`, `ForceFinish` are `start_pipeline`.
`Deliver` starts an actor. The metadata stage is `Claim`, `Persist` or `FetchFails`, and
`Sweep` is the scheduled collection, which claims items of any batch. The other stages
are `RunStage`: any result the service can give, as a set of videos and whether an
element failed. The completion handlers share their steps: `Read` (the two reads that
`metadata_completed` and `comments_completed` make first), `Report` (`update_metrics`),
then `MetadataNext`, `CommentsNext`/`Mine`, `Forward`, the early end of a branch
(`Skip`), `FinishIfReady` and `Fail`. `fn` names the stage whose handler runs, because
`metadata_completed` calls `comments_completed` itself when there is nothing to collect,
and `start_pipeline` calls `metadata_completed` when all videos are known.
`FailExhausted` is the maintenance actor; `Resume` the operator's script.

Signals and comments are counted by their videos, so the limit of the normalization
request (200 signals) is not modelled; one item per video; the two reads before
`update_metrics` are one step; counters other than `failed_stages` are left out; a copy
bound delays a send until a slot is free, which the runs' bounds make rare.

### 2.3 Staging items: PagedDiscovery and StagingClaims

`item` is a row of `youtube_discovery_items` per run and video: its status and `by`, the
collection whose claim `claimed_at` is (the code stores only a time; whose claim it is
follows from who wrote it). `search` is the run and `searcher` its workers: `TakeMessage`
reads the clock, `StartSearch` is `mark_running` (or `SearchRefused`, by the CHECK on the
timestamps, when the run was finished since), then `ReceivePage`/`PageFails`/`StopForQuota`
and `PersistPage` until `FinishSearch`. A second delivery begins with counts and a set of
seen videos of its own, as the code does. `GiveUp` are the other writers of the status,
`recover_stale`, `finalize_failure` and `mark_enqueue_failed`: they fail a run that is not
over whatever it has staged, leave their `error_summary` (`given_up`), and stop no worker,
so that a later worker revives the run or writes its result over the failure. `CountsHonest`
therefore allows a failed run that has staged items only with that summary. `collector` are
the metadata collections (`StartAndClaim`, `Fetch`, `Persist`, `ReleaseClaims`), `start` the
first transaction of `start_pipeline`: what it read and what it writes, only the columns
that differ from what it read, which is how the ORM flushes and why the CHECK of the table
can refuse it (`StartRefused`). `RecoverStaleClaims` may take any claim, because the limit
of time is no bound on a slow collection; `taken` remembers from which items a claim was
taken.

### 2.4 Analyses: VideoAnalysis and CommentCollection

`extraction` is the sequence of attempts of an identity (task, source, input version):
the place is the attempt number, which `create_pending` reads (`Number`) before it inserts
(`Start`, refused by the unique index in `StartRefused`). `version` is the content of a
source, so the input hash; `Refresh` and `PersistComments` raise it. A job works through
its batch: `Begin` selects, `Look` reads one source and looks for a completed extraction,
`Reuse`, `Complete`, `CompleteFails`, `Unwritable` and `Fail` are the ways one source ends. The
three services share their shape and differ where the operators ask for `task`. `Unwritable`
is the answer that the output schema accepts and the validators of `SignalCreate` refuse:
the signal extraction does not catch that error and its message is acknowledged, so the
job is "lost" with its row open (section 4). Other errors that the handlers do
not expect are not modelled: the client library is taken to raise only what its wrapper
names.
`CommentCollection` adds the loop over videos and pages with quota and the outcome of
each video. The flag `force` is left out: neither pipeline nor schedule sets it.

### 2.5 Opportunities: SignalGuardrail and OpportunityLifecycle

What the keyword rules say of a text is the constant `Grade`. `signal` has the publication
status, the semantic status, whether a person approved it (`human`) and which statuses
have an audit row (`audited`), for which the table is unique. `Normalize` is everything up
to the model call, `Match`, `Create`, `AskReview`, `FindDuplicate` and `GiveUp` what may
follow, with the candidates read before the call (`pool`). Reviews are `Validate`,
`ApproveMatch`, `ApproveCreation`, `RejectPlace`, `Publish`, `Merge`, `RejectMerge`; claims of
a review by a person are left out. `OpenPage`/`Save` are the workspace with
`expected_updated_at`; `StartAdding`/`Add` the watchlist, which reads the opportunity
without a lock. An approved match is one step although it also reads the proposed
opportunity without a lock: the window is the same as that of `Match`. `Publish` compares the
name with a pool (`Pools`): at most `PoolSize` of the eligible opportunities, which contains
every namesake if it is not full and a word of the name is searched. Which rows a full pool
holds depends on the last activity, which is left out, so it may hold any. History variables:
`placed` (every link ever written), `late` (written on an opportunity already merged) and
`missed` (the published opportunities that a publication did not look at).

### 2.6 Pages: RadarPages

A reading of a list, statement by statement, with commits in between (`MaxChanges` bounds
them): cards with score, momentum and activity; pieces of evidence with links and notes. The
statements of a request are `ListActive`, `ReadScores`, `TurnPage` (radar and library),
`CountEvidence`, `ReadEvidence`, and `ReadFeed`; the rest are the commits of others. Python's
sorts are stable passes (`Pass`), which list the positions of a sequence by their keys and
equal keys as they stood; its comprehensions are `Where`; an ORDER BY that ends in a unique
column lists the rows by `Precedes`. All three are `Enumeration`, a finite set listed by the
pairs of an order. Python's `or` takes a zero for a missing score (`OrMinusOne`).
A lower bound of the score stands for all filters; the sorts by confidence and hype rank
like the score, those by name and first detection are left out; what decorates a card
without changing its place is left out; the opportunity whose evidence is read stays visible.
`PageSpec` starts with any store and any request; `MCOpportunityLifecycle` extends the
module and starts with a part of them.

### 2.7 Derived rows: Localization, BusinessCase, ScoreFormula, TrendScores

A text is a model value and its own hash, so the rows of a field are known by text, and
`Shown` is what the reader selects. The trigger follows the commit of the lifecycle step
(`Advance`, then `Trigger` or `TriggerLost`); `Ask` is `enqueue_unique`. A translation reads
(`Load`), asks the provider, runs its UPDATEs on the rows it sees (`Answer`) and commits its
upserts (`Save`). `BusinessCase` adds the versions of a case with their own lease
(`Request`, `Take`, `Finish`, `Approve`, `Accept`). `ScoreFormula` has the windows, growth
and components over sets of signals; the logarithms and exponentials of the code are
tables (`Saturation`, flat beyond its fourth scale unit, and `LogTable`), assumed monotone.
`TrendScores` has the rows of both services and the jobs that read, compute and write them
in separate transactions. An explicit `period_end` is left out, and so is the rest of
`score_batch` after an error.

## 3. Runs

All bounds are small sets of model values. Symmetry is used for safety only.

| run | instance | shows |
|---|---|---|
| `runs_batch` | 2 queries, 1 fault; then a second batch beside workers that were given up | rollup, counting, final results, the unique indexes; implements `TopicRunContract` |
| `batch_unstarted` | 2 queries, no retry, no fault, nothing stale | finding: nobody starts the pipeline |
| `topics_live` | 1 batch of 2 queries, 1 retry, 1 fault, until the analysis has begun; or 2 topics with periods of 1 and 2 intervals, a callback that takes one query row, 1 edit, 1 trouble | `BatchTerminates`, `LastWorkerStartsPipeline`; `DueIsServed`, `OneRunPerPeriod` |
| `schedule_resumed` | the 2 topics with 2 edits | finding: a resumed topic has no next run |
| `pipe_stages` | 2 videos, chunks of 1, 1 resumption, no fault | the outcome comes after all stages, fits the items, stays |
| `pipe_faults` | 1 video, 1 retry, crash, error or outage, 2 workers at a time | `ActiveHasWorker`, `PipelineEnds` |
| `pipe_disturbed` | 2 videos, sweep and claim recovery, dying starter, refusing broker, permanent error | `OutcomeNeedsBothBranches` |
| `staging` | 1 run over 2 videos of which one was known, 1 result per page, 2 deliveries, 2 writes of its end, 2 collections, 1 fault, 2 processes at a time | claims, counts, every item settled |
| `analysis` | 2 messages about one video, or 2 about its comment, 2 versions, 1 fault; or a collection of 2 videos | results, video status, honest outcomes |
| `opportunities` | 2 signals of 3 texts, 3 normalizations, 3 opportunities, a pool of 2, 2 administrators, in three situations; or a reader | evidence, clearance, merges, names, edits, pages |
| `derived` | 1 signal, 1 opportunity, 2 messages of each kind, 1 fault, in four situations | leases, cases, translations, windows, scores |
| `score_refused` | the same | finding: a score within the hour is refused |

**Initial situations.** `MC...` modules of several components begin in one of a few
situations, each a state the program can be in and each with a budget (`left`, `patches`,
`changes`) for what may still begin, so that one run explores each part and the products of
parts that do not interact are not multiplied. In `runs_batch` the second batch is created
only in `GivenUp`, a state the first one reaches by itself (one child was given up by stale
recovery under its worker, the others were rejected by theirs), by the scheduler and for the
query whose worker is still starting; from there a revived child reactivates the old batch
beside the new one, so every refusal of the indexes happens. That
`OneHealthyCollectorPerQuery` holds without these restrictions is proved. In `OneBatch`
(`UntilAnalysis`) the scheduler runs both queries, in one order, and a child ends completed
or failed. In `pipe_faults` and `staging` (`TwoWorkers`) a third process waits until one of
two that are at work has ended; the messages it would take are there all the same.
`Analyses`/`Collection`, `Evidence`/`Lineage`/`Curation` (guardrail; merges; administrators
who edit and publish two candidates beside a third opportunity, published or not) and
`StillPages` (all data, no change)/`MovingPages` (few data, one change),
`Triggers`/`LateSaves`/`Refreshes`/`Calculations` are the others.

**Why the bounds are enough.** Two children are what a rollup needs to have an early and a
late one; two batches what the indexes need; two videos what "some" and "all" need, with
chunks and pages of one so that stages repeat; two workers on one row every race is
about; three opportunities a chain of merges; two signals of one text a duplicate; three
cards on pages of two a tie across a boundary. One fault at a time suffices for each
recovery path. The proofs remove the bounds for the properties they cover.

CHECK_DEADLOCK is FALSE everywhere: when the budgets are spent the system rests.

**Fairness.** Weak fairness of each running handler and of the broker's delivery (`ApiStep`,
`WorkerStep`, `Handler`, `CollectorStep`, `Load`/`Answer`/`Save`): processes run and Redis
delivers. Of the pipeline it is only assumed that some worker makes progress (one weak
fairness of all `JobStep`s): its stages are finitely many, so a worker that waits has its
turn. What the scheduler does at fixed intervals is fair: stale recovery of runs and of the
claims of dead processes (a claim that is alive need not be recovered), metadata
collections, `Reconcile`, its own callback and the passing of time (`ScheduleFairness`); a
Redis key expires (`LeaseExpires`). Faults, administrators and their console
(`AdminRefresh`), the pipeline's sweeps and the operator's resumption are not fair.

## 4. Where documents and code disagree

Three disagreements are findings with a run that TLC finds violated, with the lines in
PROJECT.json:

* `batch_unstarted`: `docs/discovery-operations-console.md:28` has the chain start when all
  children are over. Only a worker that ends its child by success starts it; when the last
  child ends by a permanent error, by exhaustion or by recovery nobody does, and what the
  others staged waits for the scheduled sweeps. `LastWorkerStartsPipeline` says what holds.
* `schedule_resumed`: a topic that is paused and resumed from the console has no next run
  and is never selected again.
* `score_refused`: a score computed within the hour of another one from new evidence is
  refused by the unique reference time.

Others are visible in the models and make properties weaker than the documents:

* `docs/discovery-operations-console.md:58` has only genuinely queued or running work block
  a topic. A child is failed in one transaction and its batch refreshed in another
  (`discovery_operations.py:668`); after a crash between them the batch stays active until
  somebody opens it, since recovery selects runs and not batches. `BatchTerminates` says
  that this is the only way.
* `docs/ai-pipeline.md:67` has every answer that fails validation recorded and routed to
  review. A blank statement passes the output schema and is refused when the signals are
  built (`SignalCreate`), where nobody catches the error (`signal_extraction.py:136`): the
  extraction stays running and the video in processing. `NothingLeftBehind` names this way
  (`lost`) as the only one.
* `docs/discovery-to-intelligence-orchestration.md:48`: both branches terminate, then
  completed. The comment branch that ends early sets its flag without calling
  `finish_if_ready` (`discovery_pipeline.py:292`); when the video branch ended first the
  pipeline stays processing. `PipelineEnds` therefore says "ends, or both branches are
  done".
* The same document, line 50: an exhausted retry yields failed. `update_metrics` writes
  processing over it at the next report of the other branch, so `OutcomeIsFinal` is about
  completed and partial only.
* Line 65: failed items return to pending. `resume_pipeline` leaves their `processed_at`,
  which the CHECK of `0006_worker_runtime.sql:10` refuses, so such a batch cannot be
  resumed.
* The name of a candidate is compared with the twenty most recent opportunities that share a
  word with it (`opportunity_activation.py:360`, documented in
  `docs/candidate-opportunity-workspace.md:50`), so two published opportunities may have one
  name; `PublishedNamesDiffer` says that the later one has missed the earlier then.
* `OutcomeFitsItems` holds while each chunk is claimed and persisted by one delivery. An
  item claimed by the scheduled sweep is not pending, so it is not waited for, and after a
  crash between `_persist` and the report the second delivery finds nothing to count.
* `ActiveHasWorker` holds as long as one fault does not exhaust the retries. A starter that
  dies after its first transaction, a broker that refuses while `start_pipeline` reuses
  known metadata, a request above its limit and any error that `run_async` swallows strand
  the pipeline; these are part of `pipe_disturbed`, where no false success may follow.
* A run that recovery or exhaustion failed may have staged items, and a worker slower than
  the stale limit writes its result over the failed row; `RowsTimed` (proved) says exactly
  how far that can go.
* Queries without a topic are not run by the schedule (`legacy=[]`, `schedules.py:34`),
  against the console document, lines 34-35.
* `docs/database.md:398` announces a recomputation after a merge, which is not implemented.
* A review of a match accepts the decision `merge` only with a source that no code writes
  (`review_workflow.py:434`), so it always fails.
* `docs/trend-aggregation.md:14` has a forced run append; it updates the row of its period.
  Of two aggregations of one period the later write stays, whichever counted more
  (`trend_aggregation.py:189`); no property forbids that.
* `workers/README.md:29` has the reconciliation repair missed events; it looks at the newest
  entities up to its limit only, so `RepairedByReconciliation` is about those within the
  scan.

## 5. Proofs

Assumptions: finitely many queries, items and videos, bounds that are natural numbers, a topic
for each query, and what each module assumes of its constants by name. Nothing is assumed
of how many there are.

**DiscoveryRuns.** `IInv` is `TypeOK`, the two safety properties to be proved
(`TerminalBatchSettled`, `IntelligenceAfterCollection`) and what they rest on:

* `RowsExist`, `RecoveryExists`: messages belong to children, children to batches, so an
  absent batch has no handler that could write it;
* `RowsTimed`: a terminal run was finished at least once, a collecting worker's run is
  running or was failed under it, and a worker that starts on a completed or partial run
  has seen its last finish; so the CHECK on the timestamps refuses it. Without this part
  a redelivered message could make a finished child pending work again;
* `OneInflightPerQuery`: the unique index as an invariant;
* `CountsFit`: counted plus uncounted children never exceed the requested number.

Each action preserves `IInv` in a lemma of its own. From it follow the safety theorems,
the action property `SuccessIsFinalCorrect`, and `ContractCorrect`: Init maps to
ContractInit, and every step maps to a contract step or a stutter.

**DiscoveryPipeline.** `IInv` is `TypeOK`, `OutcomeNeedsBothBranches`, and two facts about
workers in the middle of their handler: a forced finish is for a batch that found
nothing, and a claim is of items of the batch, so that the set of found items never
changes. The proof splits a step in four parts (items, batch, messages, counters); most
steps leave three of them alone, and the lemmas about `Send`, `End`, `Goto`, `Close` say
once that a message step brings neither a new claim nor a forced finish.

The other properties of the pipeline rest on one count. `Debt(j)` is the set of branch
flags that the message or worker `j` still has to set, by itself or through a message it
will send, and `Moves(j)` is what a step of its handler may do to it: set a flag it owes,
keep the debt, or hand a part of it to the message it sends.

* *Without faults* (`Faultless`: no kind of fault is enabled) `Exact` is inductive: no two
  messages owe the same flag and none owes one that is set (`Exclusive`), nothing is owed
  once the pipeline has ended (`Quiet`), and the status agrees with the flags and the
  counter of failures (`Judged`). `OutcomeAfterStagesCorrect` and `OutcomeIsFinalCorrect`
  follow, with any number of items, chunks, sweeps, claim recoveries and resumptions.
* *With crashes, errors and outages, at most as many as the retries* (`FewFaults`) a flag may be
  owed twice, because a worker that dies after its last step is delivered again. What
  remains true is that some message owes it (`Covered`). The danger is the second delivery
  of the metadata, which may find nothing to fetch and give the pipeline up; `Survives`
  says that once a worker is past the metadata something has been processed and a debtor
  of each flag cannot do that, since it reads back what the first one stored
  (`OwnClaims`, `ReadBack`). No message has had more attempts than there were faults
  (`Tries`), so none is exhausted. `ActiveHasWorkerCorrect` follows. The hypothesis excludes what
  section 4 shows to strand a pipeline: refused sends, swallowed errors, requests above
  their limit (`AllFit`), a starter that dies; and other collectors and the operator.
* *Without faults and other collectors* (`Unshared`) `Fits` follows an item from its claim to
  the report about it: what is in processing is held by a worker that fetches it
  (`Fetching`); what a handler reports has been processed, and when it says that nothing
  more is to come, every item is settled (`Told`); the branches go on only then
  (`AfterItems`, `EndsSettled`); and a failed item is counted, or the handler that will count it
  has not reported yet (`FailuresTold`). `OutcomeFitsItemsCorrect` follows.

Each theorem names its hypothesis as an operator of the constants, so that it can be read
off which instances it covers: `pipe_stages` is one of the first and third, `pipe_faults` of
the second.

**TopicSchedule.** `ScheduleInv` is the type invariant with what relates `early`, the rest of
a topic's period, to the row the scheduler reads: before a topic is run it is early for no
longer than it is not due (`EarlyIsNotDue`); a topic the callback still has to run is not
early at all (`TodoIsDue`); one it has run is early for exactly the rest of the period that
began with the callback, and what the last transaction read of it is its schedule, unless
it was edited since (`ServedIsTimed`); and the callback reads schedules only after its last
batch (`RoundInOrder`). `OneRunPerPeriodCorrect` is about `ScheduleSpec`, which starts with
any topics that have not run yet; assumed are positive intervals, none
for "manual", and that `Never` is no time.

**OpportunityLifecycle** (with `SignalGuardrail`). `IInv` has a part per table.
`GuardInv` is `EvidenceCountsOnce` and, for every signal, `Sound`: an accepted text is
current or superseded, never under review; a signal that was judged and is current has an
accepted text or a person's approval; a validation is open only after the guardrail has
recorded what it thinks of the text; and a person approves only what the guardrail reviews.
The third of these is what makes the approval inductive: the audit row is unique for a
status, so an approval with notes is kept because the row "under review" already exists and
a later judgement writes nothing. `RowsInv` is `NothingStaysBehind` and
`PublishedNamesDiffer`; the second is inductive because a step that publishes either finds a
published opportunity of the same name in its pool, and refuses, or counts it among those it
missed, and because the name of a published row is not edited (`PublishedRow`).
`PageInv` says that a page that is fresh shows the name its row has, from which
`NoLostEditCorrect` follows. One lemma per action shows that it keeps `IInv`, takes back no
approval and overwrites no unseen name (`Kept`). The guardrail's lemmas are about one signal
that gets another row (`OneSignal`), with what the code has tested before (`Alone`). The
specification of the theorems starts without opportunities; the situations in which the
instances for TLC begin satisfy the same `IInv`, so that the theorems hold from them too.

`EvidenceFollowsMerges` needs an invariant about all merges at once, `MergeInv`. No set of
opportunities is closed under its merges and consists of merged ones only, which says
without recursion that merges do not run in a circle; and for every signal there is a set
that no merge leads out of, that contains every opportunity the signal was placed on, and
whose unmerged members are linked to it (`Keeps`). A merge of `o` into `c` preserves the first
because `c` is not merged, the second by adding `c` to the sets that contain `o`
(`MergeLineage`). `FollowsMerges` and `Successors` state the property in the same way.

**StagingClaims.** `IInv` is `OneClaimant`, `SettledStaysKnown` and `ReadStillHolds`: a row
that `start_pipeline` has read as settled is settled when it writes, and a video it found is
still there. The last part is why marking the reused items is harmless although they were
read without a lock: nothing takes a row back from processed or failed, so the only rows it
can surprise are those that were claimed or failed meanwhile, and for these either the
CHECK of the table refuses the transaction or the claim counts as taken away (`Marked`). A
collection that ends, by whatever step, releases what it holds (`EndedHolds`). Each lemma
also shows that its step keeps a settled item settled (`Kept`), from which
`SettledIsFinalCorrect` follows.

**VideoAnalysis and CommentCollection** (`CommentCollection_proofs`). `IInv` has the types,
the properties that hold by themselves and for every message that it is `Sane`: its
sources belong to its task and have been collected (`OnTask`); the number it has read is at
most the next one and the row it works on is running (`Counted`); a verdict that is applied
again was recorded, and signals are sought only in videos that were found relevant
(`Justified`). `OwnExtraction` says that no two messages work on one row; with it nobody
rewrites a result, since a handler writes only the row it works on and that row is running.
Results stay, so what justified a status stays (`JudgedStays`, `MissedStays`), and
`StatusHasEvidence` follows from `Evidence`, the same statement about single rows. That a
latest completed attempt exists, so that the verdict reused is one of the rows, is
`Largest`. The ways out of a handler (success, invalid output, exhausted retries, a retry)
share one lemma, `EndKept`; `UnwritableKept` is the way out that leaves the row to a lost
message, which keeps it (`HasOpen`). The collection of comments has an invariant of its own,
`GatherInv`, and its steps leave the analyses alone. `MaxVersion` is positive and the videos
are finitely many; the situations in which the runs of TLC begin satisfy the same invariants.

**Localization, BusinessCase and TrendScores** (`TrendScores_proofs`). `IInv` has three parts.
`LocalInv`: a message that counts against a lease has it and is alone (`Leased`, `Single`),
and what a worker marks stale belongs to a field that it also translates (`Marked`), which is
why a save under the text as it is hides nothing. `CaseInv`: a queued row is unpaid, a row
pays once and only a completed one is approved (`Paid`), what is in work is the newest
version, and every message names a version that exists. `TrendInv`: a row counts signals of
its window only and compares itself with signals of the window before (`Honest`), from the
moment a calculation reads them until it writes them. The properties over steps follow from
`ShownKept` and `EndedKept`, which each lemma shows for its action. In the specification of
the theorems nothing is derived yet; the situations in which the instance for TLC begins
satisfy the same `IInv`. Assumed: there is an opportunity, times and the lengths of windows
are natural numbers, an hour is positive.

`ScoresInRange` has two halves. The lemmas about `ScoreFormula` show for any finite evidence
that every component is a percentage and that demand, revenue and pain do not fall with
another signal: a count over more evidence is not smaller (`CountIs`, `VideosAre`,
`QualityIs`), the saturation tables are monotone (`SatIs`), a weighted sum of percentages
whose weights are 100 stays one (`Hundredths`), the white-space curve stays between its
points (`CurveIs`), the claim quality of a set of signals is at most 100 for each of them
(`QualityBound`). `ScoreInv` then says of the state that whatever a score is computed from can
be scored: rows and calculations hold a momentum that is a percentage and natural counts
(`Metered`), and ends that have passed (`Dated`). That bound on the ends is needed because the
score takes the latest row of the shortest window: `Latest` and `Smallest` show that there is
one, so that the choice yields a stored row. Assumed (`EvidenceAssumption`): the signals
are finitely many, the table of logarithms reaches as far as their counts and views, and the
traits of an opportunity are counts; of the tables only that they hold percentages and are
monotone, or integers.

**PagedDiscovery** (in `StagingClaims_proofs`, beside the claims). `CountInv` says of each
worker that it has never seen more videos than fit and fails only with nothing seen
(`Paging`), that what it has persisted is staged and that the first worker of a run has
staged nothing else (`Backed`), nor has the run been finished but by whoever gave it up
(`Unfinished`); two workers of one run are at work only after a second attempt began
(`Alone`). Collections and `start_pipeline` write items that are staged already (`Touched`),
so they do not disturb the count. The arithmetic of a page is that of finite sets: `Joined`
bounds a union, `Fewer` a subset.

**RadarPages.** `PagesInv` has the types; that the cards a request has read ascend by id
(`Ascending`), which the stable passes and the library's only one rely on; the order of a
page and that a signal stands once on it, which hold whatever commits; and, while nothing has
changed since the first statement (`quiet`), `Settled`: what the request has read so far is
what the store holds, and the pages turned are the first `offset` ids of `Listing`, the list
as one request would read it now. At the end these are all its ids and as many as the total.
`TurnHolds` is the one lemma about a page that is turned; the six requests differ in what they
have to show of their list.

Most of the proof is about the lists. `Lists(s, S, R)` says that `s` has the elements of `S`,
each once, in the order of `R`. That a finite set has such a sequence (`ListExists`) would be
an induction over its size; here it is a least counterexample, a number that is the size
of a set which has none (`Least`, `LastExists` for the element that comes last).
`PassLists` shows that a stable pass turns an order into the one that first looks at the
key (`By`), `WhereLists` that a comprehension keeps the order of what it keeps, `ConcatLists`
that a list may be put behind another whose elements come first. `RadarLists` composes two
passes and the missing cards into the order that the reader was promised (`Ahead`), and
`LibraryLists` does the same for one pass. For evidence, `EntryOnce` shows that kind and id
determine an entry, so that the ORDER BY is total, and that a signal has one entry only,
because a signal that notes refer to is listed when it is not linked, and under its oldest
note. Assumed (`PagesAssumption`): opportunities, signals and notes are
finitely many numbers, the values by which is sorted are numbers or `Null`, which is none,
and a page holds at least one row.

Only model-checked: the properties that a run finds violated, and liveness
(`BatchTerminates`, `LastWorkerStartsPipeline`, `DueIsServed`, `PipelineEnds`,
`EveryItemSettles`, `RelevanceDecides`, `RepairedByReconciliation`), since fairness and
ENABLED are out of the prover's reach. Every invariant and every property over steps that a
passing run checks is a theorem.

## 6. Not modelled

* Taxonomy (loaded from a file by one script), authentication (stateless verification),
  configuration and logging hold no state that several actors change.
* The AI provider, YouTube and Redis are environments: their outcomes are choices of the
  actions.
* The web application presents and polls; its polling is `AdminRefresh`, which no property
  needs. The operator's scripts are wrappers of the services or quality reports; the
  resumption of a pipeline and the audit are modelled as actions.
* Prompts, the keyword rules of the guardrail, the text similarity by which candidates are
  retrieved, the fields of a draft and the content of a case are data the properties do not
  tell apart.
* Creating and renaming topics, claims of reviews by persons, the collection runs of
  metadata and comments, the detail page and histories of the radar.

## 7. What is left

Claims of reviews by persons, and two batches of one topic in the pipeline at the same time.
