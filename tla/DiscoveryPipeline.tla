------------------------- MODULE DiscoveryPipeline -------------------------
(***************************************************************************)
(* The intelligence pipeline of one topic batch, from start_pipeline to    *)
(* its outcome: the stage messages and the workers that execute them, the  *)
(* completion handlers that update the batch and queue the next stage, the *)
(* two branches that must both end, retries, exhaustion and resumption.    *)
(*                                                                         *)
(* One action is one database transaction, one call to the broker, or the  *)
(* work of a stage seen from its result.  The batch is terminal throughout *)
(* (module DiscoveryRuns).                                                 *)
(*                                                                         *)
(* An operator whose name starts with Bad is its neighbour with one        *)
(* plausible bug; nothing here uses it.                                    *)
(***************************************************************************)
EXTENDS Naturals, FiniteSets

CONSTANTS
    Item,        \* identities of youtube_discovery_items, one per video
    Copy,        \* messages of one stage that may exist at the same time
    MaxRetries,  \* max_retries of the stage actors
    ChunkLimit,  \* most items of one metadata message
    VideoLimit,  \* most videos a comment or extraction request accepts
    Background,  \* {"sweep", "recovery"}: the scheduled jobs that run
    FaultKinds,  \* the kinds of fault explored
    MaxFaults,   \* bound on them
    MaxResumes   \* bound on the operator's resumptions

ASSUME ItemAssumption == IsFiniteSet(Item)
ASSUME LimitsAssumption ==
    /\ MaxRetries \in Nat /\ MaxFaults \in Nat /\ MaxResumes \in Nat
    /\ ChunkLimit \in Nat \ {0} /\ VideoLimit \in Nat \ {0}

Branch == {"video", "comment"}

(* The messages of the pipeline; "start" is a caller of start_pipeline, and *)
(* "sweep" the scheduled metadata collection, which belongs to no batch.    *)
PipelineStage == {"metadata", "comments", "relevance", "signals", "pain",
                  "norm_video", "norm_comment"}
Stage == PipelineStage \cup {"start", "sweep"}
Normalization == {"norm_video", "norm_comment"}
Job == Stage \X Copy

VARIABLES
    intel,    \* the intelligence columns of the batch
    item,     \* processing_status of its discovery items
    job,      \* messages, and the workers that hold them
    faults,   \* faults so far
    resumes   \* resumptions so far

vars == <<intel, item, job, faults, resumes>>

-----------------------------------------------------------------------------
(* Rows *)

ActiveIntel == {"queued", "processing"}
Outcome == {"completed", "partial", "failed"}

(* done: the branches whose flag is set in intelligence_metrics; failed:    *)
(* failed_stages is positive.                                               *)
IntelRow == [status: {"not_started"} \cup ActiveIntel \cup Outcome,
             done: SUBSET Branch,
             failed: BOOLEAN]

ItemStatus == {"absent", "pending", "processing", "processed", "failed"}

(* fn is the stage whose completion handler runs: metadata_completed calls  *)
(* comments_completed itself when there is nothing to collect.  input: the  *)
(* videos of the message; output: those the stage claimed, produced or read *)
(* back; more: items of the batch were still pending at that read.          *)
JobRow == [msg: {"none", "queued", "held", "exhausted"},
           tries: Nat,
           fn: Stage,
           pc: {"idle", "begin", "work", "fetch", "read", "report", "next",
                "mine", "skip", "finish", "force", "fail"},
           input: SUBSET Item,
           output: SUBSET Item,
           more: BOOLEAN,
           ok: BOOLEAN]

Parked(msg, tries, videos) ==
    [msg |-> msg, tries |-> tries, fn |-> "start", pc |-> "idle",
     input |-> videos, output |-> {}, more |-> FALSE, ok |-> TRUE]

NoJob == Parked("none", 0, {})

Found == {i \in Item : item[i] # "absent"}
Pending == {i \in Item : item[i] = "pending"}
Processed == {i \in Item : item[i] = "processed"}

(* Which branch the stages after the comments belong to; a comment          *)
(* collection without comments ends the comment branch.                     *)
BranchOf(fn) ==
    IF fn \in {"relevance", "signals", "norm_video"} THEN "video" ELSE "comment"

NextStage(fn) ==
    IF fn = "relevance" THEN "signals"
    ELSE IF fn = "signals" THEN "norm_video" ELSE "norm_comment"

-----------------------------------------------------------------------------
(* Writes of the batch *)

BadUpdateMetrics(ok, branches) ==
    intel' = [status |-> "processing", done |-> intel.done \cup branches,
              failed |-> ~ok]

(* update_metrics, under the row lock. *)
UpdateMetrics(ok, branches) ==
    intel' = [status |-> "processing", done |-> intel.done \cup branches,
              failed |-> intel.failed \/ ~ok]

BadFinished(row) ==
    [row EXCEPT !.status = IF row.failed THEN "partial" ELSE "completed"]

(* _finish_if_ready: the outcome of a pipeline that may end. *)
Finished(row) ==
    IF row.done = Branch
    THEN [row EXCEPT !.status = IF row.failed THEN "partial" ELSE "completed"]
    ELSE row

FailPipeline == intel' = [intel EXCEPT !.status = "failed"]

-----------------------------------------------------------------------------
(* Messages *)

At(j, pc) == job[j].pc = pc

Goto(j, pc) == job' = [job EXCEPT ![j] = [@ EXCEPT !.pc = pc]]

Fault(kind) ==
    /\ kind \in FaultKinds /\ faults < MaxFaults
    /\ faults' = faults + 1

Again(j) == Parked("queued", job[j].tries, job[j].input)

(* What is left of j after the last step of its handler.  A worker that     *)
(* dies before it acknowledges the message gets it again; when is the       *)
(* broker's choice, so the death can be part of the last step.  A caller of *)
(* start_pipeline has no stage message.                                     *)
Over(j, row) ==
    \/ row = NoJob /\ UNCHANGED faults
    \/ row = Again(j) /\ j[1] # "start" /\ Fault("crash")

End(j) ==
    \E row \in {NoJob, Again(j)} :
        Over(j, row) /\ job' = [job EXCEPT ![j] = row]

(* The handler needs nothing any more of what it has read. *)
Close(j, pc) ==
    job' = [job EXCEPT ![j] = [@ EXCEPT !.pc = pc, !.output = {}, !.more = FALSE,
                                        !.ok = TRUE]]

(* _queue; then says how the sender goes on. *)
Send(j, stage, videos, then) ==
    \E c \in Copy :
        /\ job[<<stage, c>>].msg = "none"
        /\ job' = [job EXCEPT ![<<stage, c>>] = Parked("queued", 0, videos),
                              ![j] = then]

SendLast(j, stage, videos) ==
    \E row \in {NoJob, Again(j)} : Over(j, row) /\ Send(j, stage, videos, row)

BadAfterFailure(j) == NoJob

(* An exception that is not permanent ends the attempt; Dramatiq retries    *)
(* the message or hands it to the maintenance actor.  A scheduled sweep is  *)
(* repeated by the scheduler, a caller of start_pipeline has ended.         *)
AfterFailure(j) ==
    IF j[1] \in {"start", "sweep"} THEN NoJob
    ELSE IF job[j].tries < MaxRetries
    THEN Parked("queued", job[j].tries + 1, job[j].input)
    ELSE Parked("exhausted", 0, {})

-----------------------------------------------------------------------------
(* start_pipeline *)

(* First transaction.  known: the videos that already have a canonical row. *)
StartPipeline(c, known) ==
    /\ intel.status = "not_started"
    /\ job[<<"start", c>>].msg = "none"
    /\ known \subseteq Found
    /\ item' = [i \in Item |-> IF i \in known THEN "processed" ELSE item[i]]
    /\ intel' = [status |-> "queued", done |-> {}, failed |-> FALSE]
    /\ job' = [job EXCEPT ![<<"start", c>>] =
                    [NoJob EXCEPT !.msg = "held", !.pc = "begin"]]
    /\ UNCHANGED <<faults, resumes>>

(* After it: nothing found, everything known, or metadata to fetch.         *)
Begin(j) ==
    /\ At(j, "begin")
    /\ \/ /\ Found = {}
          /\ Goto(j, "force")
       \/ /\ Found # {} /\ Pending = {}
          /\ job' = [job EXCEPT ![j] = [@ EXCEPT !.fn = "metadata", !.pc = "read"]]
       \/ /\ Pending # {}
          /\ Send(j, "metadata", {}, NoJob)
    /\ UNCHANGED <<intel, item, faults, resumes>>

ForceFinish(j) ==
    /\ At(j, "force")
    /\ intel' = [intel EXCEPT !.status = IF intel.failed THEN "partial" ELSE "completed"]
    /\ End(j)
    /\ UNCHANGED <<item, resumes>>

-----------------------------------------------------------------------------
(* Workers *)

(* A request larger than its schema allows is a permanent error. *)
TooLarge(j) ==
    j[1] \in {"comments", "signals"} /\ Cardinality(job[j].input) > VideoLimit

Deliver(j) ==
    /\ job[j].msg = "queued"
    /\ job' = [job EXCEPT ![j] =
                    IF TooLarge(j) THEN NoJob
                    ELSE [@ EXCEPT !.msg = "held", !.fn = j[1], !.pc = "work"]]
    /\ UNCHANGED <<intel, item, faults, resumes>>

(* The scheduler's metadata collection, of whatever is pending. *)
Sweep(c) ==
    /\ "sweep" \in Background /\ job[<<"sweep", c>>].msg = "none"
    /\ Pending # {}
    /\ job' = [job EXCEPT ![<<"sweep", c>>] =
                    [NoJob EXCEPT !.msg = "held", !.fn = "sweep", !.pc = "work"]]
    /\ UNCHANGED <<intel, item, faults, resumes>>

(* _start_and_claim, of the pending items no one else has claimed.          *)
Claim(j, claimed) ==
    /\ At(j, "work") /\ job[j].fn \in {"metadata", "sweep"}
    /\ claimed \subseteq Pending /\ Cardinality(claimed) <= ChunkLimit
    /\ claimed = {} => Pending = {}
    /\ item' = [i \in Item |-> IF i \in claimed THEN "processing" ELSE item[i]]
    /\ job' = [job EXCEPT ![j] =
                    IF claimed # {} THEN [@ EXCEPT !.pc = "fetch", !.output = claimed]
                    ELSE IF j[1] = "sweep" THEN NoJob
                    ELSE [@ EXCEPT !.pc = "read"]]
    /\ UNCHANGED <<intel, faults, resumes>>

Fetched(j, ok) ==
    IF j[1] = "sweep" THEN NoJob ELSE [job[j] EXCEPT !.pc = "read", !.ok = ok]

(* _persist: the videos YouTube returned with their channels are processed, *)
(* the others failed, whatever the items have become since the claim.       *)
Persist(j, returned) ==
    /\ At(j, "fetch") /\ returned \subseteq job[j].output
    /\ item' = [i \in Item |->
                  IF i \in returned THEN "processed"
                  ELSE IF i \in job[j].output THEN "failed" ELSE item[i]]
    /\ job' = [job EXCEPT ![j] = Fetched(j, returned = job[j].output)]
    /\ UNCHANGED <<intel, faults, resumes>>

(* The other services, seen from their result: output is the relevant       *)
(* videos, or those with signals under review; ok that no element failed.   *)
(* A video has one relevance and one extraction, but several comments.      *)
RunStage(j, output, ok) ==
    /\ At(j, "work")
    /\ job[j].fn \in PipelineStage \ {"metadata"}
    /\ output \subseteq job[j].input
    /\ job[j].fn \in Normalization \cup {"comments"} => output = {}
    /\ ~ok /\ job[j].fn # "pain" => output # job[j].input
    /\ job' = [job EXCEPT ![j] =
                    [@ EXCEPT !.pc = IF job[j].fn = "comments" THEN "read" ELSE "report",
                              !.output = output, !.ok = ok]]
    /\ UNCHANGED <<intel, item, faults, resumes>>

(* What metadata_completed and comments_completed read before they write:   *)
(* the items still pending and the canonical videos.                        *)
Read(j) ==
    /\ At(j, "read")
    /\ job' = [job EXCEPT ![j] = [@ EXCEPT !.pc = "report", !.output = Processed,
                                           !.more = (Pending # {})]]
    /\ UNCHANGED <<intel, item, faults, resumes>>

(* The update_metrics every completion handler begins with. *)
Report(j) ==
    /\ At(j, "report")
    /\ UpdateMetrics(job[j].ok,
            IF job[j].fn \in Normalization THEN {BranchOf(job[j].fn)} ELSE {})
    /\ IF job[j].fn \in Normalization THEN Close(j, "finish") ELSE Goto(j, "next")
    /\ UNCHANGED <<item, faults, resumes>>

(* metadata_completed: another chunk, no video at all, comments to collect  *)
(* for the new or comment-less videos, or none.                             *)
MetadataNext(j) ==
    /\ At(j, "next") /\ job[j].fn = "metadata"
    /\ \/ /\ job[j].more
          /\ SendLast(j, "metadata", {})
       \/ /\ ~job[j].more /\ job[j].output = {}
          /\ Goto(j, "fail") /\ UNCHANGED faults
       \/ /\ ~job[j].more /\ job[j].output # {}
          /\ \E eligible \in SUBSET Processed \ {{}} :
                SendLast(j, "comments", eligible)
       \/ /\ ~job[j].more /\ job[j].output # {}
          /\ job' = [job EXCEPT ![j] = [@ EXCEPT !.fn = "comments", !.pc = "read",
                                                 !.ok = TRUE]]
          /\ UNCHANGED faults
    /\ UNCHANGED <<intel, item, resumes>>

(* comments_completed: relevance first, then the comments, if there are any. *)
CommentsNext(j) ==
    /\ At(j, "next") /\ job[j].fn = "comments"
    /\ Send(j, "relevance", job[j].output, [job[j] EXCEPT !.pc = "mine", !.output = {}])
    /\ UNCHANGED <<intel, item, faults, resumes>>

Mine(j) ==
    /\ At(j, "mine")
    /\ \/ \E commented \in SUBSET Processed \ {{}} :
            SendLast(j, "pain", commented)
       \/ Close(j, "skip") /\ UNCHANGED faults
    /\ UNCHANGED <<intel, item, resumes>>

(* relevance_completed and extraction_completed: the next stage, or the end *)
(* of the branch.                                                           *)
Forward(j) ==
    /\ At(j, "next") /\ job[j].fn \in {"relevance", "signals", "pain"}
    /\ IF job[j].output # {}
       THEN SendLast(j, NextStage(job[j].fn), job[j].output)
       ELSE Close(j, "skip") /\ UNCHANGED faults
    /\ UNCHANGED <<intel, item, resumes>>

(* The flag of a branch that ended early.  Only comments_completed does not *)
(* try to finish the pipeline afterwards.                                   *)
Skip(j) ==
    /\ At(j, "skip")
    /\ UpdateMetrics(TRUE, {BranchOf(job[j].fn)})
    /\ IF job[j].fn = "comments" THEN End(j)
       ELSE Close(j, "finish") /\ UNCHANGED faults
    /\ UNCHANGED <<item, resumes>>

FinishIfReady(j) ==
    /\ At(j, "finish")
    /\ intel' = Finished(intel)
    /\ End(j)
    /\ UNCHANGED <<item, resumes>>

Fail(j) ==
    /\ At(j, "fail")
    /\ FailPipeline
    /\ End(j)
    /\ UNCHANGED <<item, resumes>>

(* finalize_discovery_pipeline_retry_exhausted *)
FailExhausted(j) ==
    /\ job[j].msg = "exhausted"
    /\ FailPipeline
    /\ job' = [job EXCEPT ![j] = NoJob]
    /\ UNCHANGED <<item, faults, resumes>>

-----------------------------------------------------------------------------
(* Maintenance and the operator *)

(* recover_stale_claims: claims older than the limit of time. *)
RecoverClaims(stale) ==
    /\ "recovery" \in Background
    /\ stale # {} /\ \A i \in stale : item[i] = "processing"
    /\ item' = [i \in Item |-> IF i \in stale THEN "pending" ELSE item[i]]
    /\ UNCHANGED <<intel, job, faults, resumes>>

(* resume_pipeline, first transaction.  It makes failed items pending again *)
(* but leaves their processed_at, which the CHECK on the items refuses.     *)
Resume ==
    /\ resumes < MaxResumes
    /\ intel.status \notin ActiveIntel
    /\ \A i \in Item : item[i] # "failed"
    /\ intel' = [intel EXCEPT !.status = "not_started"]
    /\ resumes' = resumes + 1
    /\ UNCHANGED <<item, job, faults>>

-----------------------------------------------------------------------------
(* Faults *)

Busy(j) == job[j].msg = "held"

(* YouTube refuses the request: the claims are released and the result is   *)
(* a failed one.                                                            *)
FetchFails(j) ==
    /\ At(j, "fetch") /\ Fault("youtube")
    /\ item' = [i \in Item |-> IF i \in job[j].output /\ item[i] = "processing"
                               THEN "pending" ELSE item[i]]
    /\ job' = [job EXCEPT ![j] = Fetched(j, FALSE)]
    /\ UNCHANGED <<intel, resumes>>

(* The worker dies and the broker delivers the message again; nobody        *)
(* repeats the sweep's claim.                                               *)
WorkerCrash(j) ==
    /\ Busy(j) /\ j[1] # "start" /\ Fault("crash")
    /\ job' = [job EXCEPT ![j] = IF j[1] = "sweep" THEN NoJob ELSE Again(j)]
    /\ UNCHANGED <<intel, item, resumes>>

(* The database fails under a stage worker, or a video to extract from is   *)
(* no longer queued (an earlier delivery was here), which is no permanent   *)
(* error; or the maintenance actor fails, which has no retries.             *)
AttemptFails(j) ==
    /\ job[j].msg \in {"held", "exhausted"} /\ j[1] # "start" /\ Fault("error")
    /\ job' = [job EXCEPT ![j] = IF @.msg = "exhausted" THEN NoJob ELSE AfterFailure(j)]
    /\ UNCHANGED <<intel, item, resumes>>

(* The caller of start_pipeline dies or loses the database after its first  *)
(* transaction; the discovery message that is delivered again fails on its  *)
(* finished run.                                                            *)
StarterDies(j) ==
    /\ Busy(j) /\ j[1] = "start" /\ Fault("starter")
    /\ job' = [job EXCEPT ![j] = NoJob]
    /\ UNCHANGED <<intel, item, resumes>>

(* Where a handler calls the broker. *)
Sending(j) ==
    \/ At(j, "begin") /\ Pending # {}
    \/ At(j, "mine")
    \/ /\ At(j, "next")
       /\ \/ job[j].fn = "comments"
          \/ job[j].more
          \/ job[j].output # {}

(* QueueUnavailableError: start_pipeline catches it around its own send     *)
(* only; everywhere else it ends the attempt.                               *)
QueueRefuses(j) ==
    /\ Sending(j) /\ Fault("queue")
    /\ job' = [job EXCEPT ![j] = IF At(j, "begin") THEN [@ EXCEPT !.pc = "fail"]
                                 ELSE AfterFailure(j)]
    /\ UNCHANGED <<intel, item, resumes>>

(* run_async swallows a permanent error: the stage ends without a report.   *)
RejectStage(j) ==
    /\ At(j, "work") /\ j[1] \in PipelineStage /\ Fault("permanent")
    /\ job' = [job EXCEPT ![j] = NoJob]
    /\ UNCHANGED <<intel, item, resumes>>

-----------------------------------------------------------------------------
Init ==
    /\ intel = [status |-> "not_started", done |-> {}, failed |-> FALSE]
    /\ item \in [Item -> {"absent", "pending"}]
    /\ job = [j \in Job |-> NoJob]
    /\ faults = 0
    /\ resumes = 0

(* What a running worker does by itself. *)
JobStep(j) ==
    \/ Begin(j) \/ ForceFinish(j) \/ Deliver(j)
    \/ \E claimed \in SUBSET Item : Claim(j, claimed)
    \/ \E returned \in SUBSET Item : Persist(j, returned)
    \/ \E output \in SUBSET Item, ok \in BOOLEAN : RunStage(j, output, ok)
    \/ Read(j) \/ Report(j)
    \/ MetadataNext(j) \/ CommentsNext(j) \/ Mine(j) \/ Forward(j)
    \/ Skip(j) \/ FinishIfReady(j) \/ Fail(j)
    \/ FailExhausted(j)

JobFault(j) ==
    \/ FetchFails(j) \/ WorkerCrash(j) \/ AttemptFails(j)
    \/ StarterDies(j) \/ QueueRefuses(j) \/ RejectStage(j)

Next ==
    \/ \E c \in Copy, known \in SUBSET Item : StartPipeline(c, known)
    \/ \E j \in Job : JobStep(j) \/ JobFault(j)
    \/ \E c \in Copy : Sweep(c)
    \/ \E stale \in SUBSET Item : RecoverClaims(stale)
    \/ Resume

Spec == Init /\ [][Next]_vars

(* The broker delivers and some worker makes progress as long as there is    *)
(* something to do; what the scheduler, the operator and the callers of      *)
(* start_pipeline begin is free.                                             *)
FairSpec == Spec /\ WF_vars(\E j \in Job : JobStep(j))

TypeOK ==
    /\ intel \in IntelRow
    /\ item \in [Item -> ItemStatus]
    /\ job \in [Job -> JobRow]
    /\ faults \in Nat /\ resumes \in Nat

-----------------------------------------------------------------------------
(* Safety *)

(* Messages and workers of the pipeline that still have something to do.    *)
Working == {j \in Job : j[1] # "sweep" /\ job[j].msg # "none"}

(* An active pipeline never waits for a branch that no message and no       *)
(* worker will end: nobody sweeps abandoned pipelines, and an active one    *)
(* blocks its topic and cannot be resumed.                                  *)
ActiveHasWorker ==
    intel.status \in ActiveIntel /\ intel.done # Branch => Working # {}

(* When the pipeline is completed or partial, no stage of either branch is  *)
(* still queued or running; at most the worker of the other branch is on    *)
(* its way to the same finish_if_ready.                                     *)
OutcomeAfterStages ==
    intel.status \in {"completed", "partial"} => \A j \in Working : At(j, "finish")

(* completed and partial speak of two branches that reported (or of a batch *)
(* that found nothing), whatever faults, duplicates and resumptions came    *)
(* before: no leftover of an earlier attempt can end the pipeline half-way. *)
OutcomeNeedsBothBranches ==
    intel.status \in {"completed", "partial"} => intel.done = Branch \/ Found = {}

(* A completed pipeline has taken up every item of its batch, chunk after   *)
(* chunk: none is left pending or with another worker, and one that failed  *)
(* makes the outcome at best partial, however the stages interleave between *)
(* _persist and the end; without one canonical video there is no success.   *)
(* It holds while no other collector takes items of the batch: neither the  *)
(* scheduled sweep nor a second delivery.                                   *)
OutcomeFitsItems ==
    /\ intel.status = "completed" => Found = Processed
    /\ intel.status = "partial" /\ Found # {} => Processed # {}

(* An outcome stays until the operator resumes the batch.                   *)
OutcomeIsFinal ==
    [][intel.status \in Outcome
            => intel'.status \in {intel.status, "not_started"}]_vars

-----------------------------------------------------------------------------
(* The inductive invariant *)

(* A forced end is for a batch that found nothing. *)
ForcedFoundNothing == \A j \in Job : At(j, "force") => Found = {}

(* A claim is of items of the batch, and stays so until it is persisted.    *)
ClaimsFound == \A j \in Job : At(j, "fetch") => job[j].output \subseteq Found

IInv == TypeOK /\ ForcedFoundNothing /\ ClaimsFound /\ OutcomeNeedsBothBranches

-----------------------------------------------------------------------------
(* Liveness *)

(* A pipeline that was started ends, or at least both its branches do.      *)
PipelineEnds ==
    intel.status \in ActiveIntel
        ~> intel.status \notin ActiveIntel \/ intel.done = Branch

=============================================================================
