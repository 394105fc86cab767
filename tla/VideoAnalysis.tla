--------------------------- MODULE VideoAnalysis ---------------------------
(***************************************************************************)
(* The three analyses of collected material by a language model: relevance  *)
(* of a video (VideoRelevanceService), business signals of a video          *)
(* (BusinessSignalExtractionService) and pain in a comment                  *)
(* (CommentPainMiningService).  Each works through a batch of sources, one  *)
(* after the other; for each it reads the source, looks for a completed     *)
(* extraction of the same input, and otherwise starts a new attempt, calls  *)
(* the model outside any transaction, and writes the result.                *)
(*                                                                         *)
(* The input of an extraction is the content of its source, here a version  *)
(* number that every refresh of the source raises.  The requests of the     *)
(* pipeline and of the schedule never force; force is left out.             *)
(***************************************************************************)
EXTENDS Naturals, Sequences, FiniteSets

CONSTANTS
    Video, Comment,  \* sources
    Job,             \* messages of the three actors
    MaxRetries,      \* max_retries of the actors
    MaxVersion,      \* bound on the versions of a source explored
    MaxFaults        \* bound on crashes and database errors explored

ASSUME SourceAssumption == Video \cap Comment = {}
ASSUME AnalysisBounds == {MaxRetries, MaxVersion, MaxFaults} \subseteq Nat /\ MaxVersion > 0

VARIABLES
    video,       \* videos.processing_status
    version,     \* the content of each source; 0: a comment not yet collected
    extraction,  \* ai_extractions: the attempts of each identity, in order
    signal,      \* signals: the extractions that created some
    job,         \* the messages and the workers that hold them
    faults

vars == <<video, version, extraction, signal, job, faults>>

Source == Video \cup Comment
Task == {"relevance", "signals", "pain"}
SourcesOf(t) == IF t = "pain" THEN Comment ELSE Video

(* The columns of uq_ai_extractions_identity_attempt; the attempt number is *)
(* the place in the sequence.                                               *)
Identity == {id \in Task \X Source \X (1..MaxVersion) : id[2] \in SourcesOf(id[1])}

VideoStatus == {"new", "processing", "queued", "ignored", "review", "failed"}
Verdict == {"none", "relevant", "irrelevant"}
ExtractionRow == [status: {"running", "completed", "invalid_output", "failed"},
                  verdict: Verdict]

Phase == {"waiting", "choosing", "numbering", "starting", "asking",
          "reusing", "failing", "lost", "done", "exhausted"}

(* ids: the sources of the request, {} when it names none; at: the identity *)
(* in hand; attempt: its number; verdict: the result that is reused.        *)
JobRow == [task: Task, ids: SUBSET Source, tries: Nat, phase: Phase,
           todo: SUBSET Source, at: Identity \cup {<<>>}, attempt: Nat,
           verdict: Verdict]

Completed(id) ==
    {n \in DOMAIN extraction[id] : extraction[id][n].status = "completed"}

(* find_completed_identity: the latest completed attempt. *)
LatestCompleted(id) ==
    CHOOSE n \in Completed(id) : \A m \in Completed(id) : m <= n

NewJob(t, ids) == [task |-> t, ids |-> ids, tries |-> 0, phase |-> "waiting",
                   todo |-> {}, at |-> <<>>, attempt |-> 0, verdict |-> "none"]

Init ==
    /\ video = [v \in Video |-> "new"]
    /\ version = [s \in Source |-> IF s \in Video THEN 1 ELSE 0]
    /\ extraction = [id \in Identity |-> <<>>]
    /\ signal = {}
    /\ \E task \in [Job -> Task], ids \in [Job -> SUBSET Source] :
         /\ \A j \in Job : ids[j] \subseteq SourcesOf(task[j])
         /\ job = [j \in Job |-> NewJob(task[j], ids[j])]
    /\ faults = 0

-----------------------------------------------------------------------------
(* Helpers *)

At(j, phase) == job[j].phase = phase
Target(j) == job[j].at[2]

(* The job leaves its source and chooses the next one. *)
Released(j) == [job[j] EXCEPT !.phase = "choosing", !.at = <<>>,
                               !.attempt = 0, !.verdict = "none"]

(* The handler raises: the message is retried, up to the limit. *)
Raised(j) ==
    [job[j] EXCEPT !.phase = IF job[j].tries < MaxRetries THEN "waiting" ELSE "exhausted",
                   !.tries = IF @ < MaxRetries THEN @ + 1 ELSE 0,
                   !.todo = {}, !.at = <<>>, !.attempt = 0, !.verdict = "none"]

(* list_existing_by_ids leaves out ignored and failed videos; without ids   *)
(* the videos whose turn it is are taken; comments are taken as they are.   *)
Selected(t, ids) ==
    CASE t = "pain" -> {c \in Comment : version[c] > 0 /\ (ids = {} \/ c \in ids)}
      [] t # "pain" /\ ids # {} -> {v \in ids : video[v] \notin {"ignored", "failed"}}
      [] t = "relevance" /\ ids = {} -> {v \in Video : video[v] = "new"}
      [] t = "signals" /\ ids = {} -> {v \in Video : video[v] = "queued"}

BadVideoAfter(status) == IF status = "invalid_output" THEN "processing" ELSE "failed"

(* What _fail makes of a video. *)
VideoAfter(status) == IF status = "invalid_output" THEN "review" ELSE "failed"

(* The status of a video after a verdict of the relevance filter. *)
StatusOf(verdict) == IF verdict = "relevant" THEN "queued" ELSE "ignored"

-----------------------------------------------------------------------------
(* The batch *)

(* analyze_batch, extract_batch and mine_batch select their sources once.   *)
Begin(j) ==
    /\ At(j, "waiting")
    /\ job' = [job EXCEPT ![j].phase = "choosing",
                          ![j].todo = Selected(job[j].task, job[j].ids)]
    /\ UNCHANGED <<video, version, extraction, signal, faults>>

BadEligible(j, s) == TRUE

(* _load_video of the signal extraction: the video is still queued. *)
Eligible(j, s) == job[j].task = "signals" => video[s] = "queued"

(* The next source is read and its input looked up.  These are two reading  *)
(* transactions, taken as one.  A completed extraction of signals or of     *)
(* pain is only counted; one of relevance is applied again.                 *)
Look(j, s) ==
    LET id == <<job[j].task, s, version[s]>>
        w == [job[j] EXCEPT !.todo = @ \ {s}]
    IN
    /\ At(j, "choosing") /\ s \in job[j].todo
    /\ Eligible(j, s)
    /\ job' = [job EXCEPT ![j] =
                 IF Completed(id) = {} THEN [w EXCEPT !.phase = "numbering", !.at = id]
                 ELSE IF w.task = "relevance"
                 THEN [w EXCEPT !.phase = "reusing", !.at = id,
                                !.verdict = extraction[id][LatestCompleted(id)].verdict]
                 ELSE w]
    /\ UNCHANGED <<video, version, extraction, signal, faults>>

(* SignalVideoNotEligibleError is caught nowhere: the rest of the batch is  *)
(* given up with it.                                                        *)
NotEligible(j, s) ==
    /\ At(j, "choosing") /\ s \in job[j].todo
    /\ ~Eligible(j, s)
    /\ job' = [job EXCEPT ![j] = Raised(j)]
    /\ UNCHANGED <<video, version, extraction, signal, faults>>

(* _set_video_status, in a transaction after the one that found the result. *)
Reuse(j) ==
    /\ At(j, "reusing")
    /\ video' = [video EXCEPT ![Target(j)] = StatusOf(job[j].verdict)]
    /\ job' = [job EXCEPT ![j] = Released(j)]
    /\ UNCHANGED <<version, extraction, signal, faults>>

EndBatch(j) ==
    /\ At(j, "choosing") /\ job[j].todo = {}
    /\ job' = [job EXCEPT ![j].phase = "done", ![j].tries = 0]
    /\ UNCHANGED <<video, version, extraction, signal, faults>>

-----------------------------------------------------------------------------
(* One extraction *)

(* create_pending reads the largest attempt number, and then inserts. *)
Number(j) ==
    /\ At(j, "numbering")
    /\ job' = [job EXCEPT ![j].phase = "starting",
                          ![j].attempt = Len(extraction[job[j].at]) + 1]
    /\ UNCHANGED <<video, version, extraction, signal, faults>>

BadNumberFree(j) == TRUE

(* uq_ai_extractions_identity_attempt *)
NumberFree(j) == job[j].attempt > Len(extraction[job[j].at])

Running == [status |-> "running", verdict |-> "none"]

Numbered(j) ==
    [n \in 1..job[j].attempt |->
       IF n = job[j].attempt THEN Running ELSE extraction[job[j].at][n]]

(* _start *)
Start(j) ==
    /\ At(j, "starting") /\ NumberFree(j)
    /\ extraction' = [extraction EXCEPT ![job[j].at] = Numbered(j)]
    /\ video' = IF job[j].task = "pain" THEN video
                ELSE [video EXCEPT ![Target(j)] = "processing"]
    /\ job' = [job EXCEPT ![j].phase = "asking"]
    /\ UNCHANGED <<version, signal, faults>>

(* Another worker has taken the number since. *)
StartRefused(j) ==
    /\ At(j, "starting") /\ ~NumberFree(j)
    /\ job' = [job EXCEPT ![j] = Raised(j)]
    /\ UNCHANGED <<video, version, extraction, signal, faults>>

VerdictsOf(t) == IF t = "relevance" THEN {"relevant", "irrelevant"} ELSE {"none"}

InHand(j) == [id |-> job[j].at, attempt |-> job[j].attempt]

Ended(j, status, verdict) ==
    [extraction EXCEPT ![job[j].at][job[j].attempt] =
       [status |-> status, verdict |-> verdict]]

(* The model has answered, outside any transaction; _complete writes the    *)
(* extraction, its signals and the status of the video in one.  The model   *)
(* may have found no signal.                                                *)
Complete(j, verdict, found) ==
    /\ At(j, "asking")
    /\ found => job[j].task # "relevance"
    /\ extraction' = Ended(j, "completed", verdict)
    /\ signal' = IF found THEN signal \cup {InHand(j)} ELSE signal
    /\ video' = CASE job[j].task = "pain" -> video
                  [] job[j].task = "signals" -> [video EXCEPT ![Target(j)] = "queued"]
                  [] job[j].task = "relevance" ->
                       [video EXCEPT ![Target(j)] = StatusOf(verdict)]
    /\ job' = [job EXCEPT ![j] = Released(j)]
    /\ UNCHANGED <<version, faults>>

(* A database error while signals are written: the extraction will be       *)
(* failed.  The relevance filter catches no such error.                     *)
CompleteFails(j) ==
    /\ At(j, "asking")
    /\ faults < MaxFaults /\ faults' = faults + 1
    /\ job' = [job EXCEPT ![j] = IF @.task = "relevance" THEN Raised(j)
                                 ELSE [@ EXCEPT !.phase = "failing"]]
    /\ UNCHANGED <<video, version, extraction, signal>>

(* An answer of the form asked for that SignalCreate refuses, because one of *)
(* the statements is blank: nothing in the signal extraction catches the     *)
(* ValidationError, and run_async acknowledges the message with              *)
(* it.  The row in hand and the other sources of the batch are given up; at  *)
(* and attempt still say which row it was.                                   *)
Unwritable(j) ==
    /\ At(j, "asking") /\ job[j].task = "signals"
    /\ job' = [job EXCEPT ![j].phase = "lost", ![j].todo = {}, ![j].tries = 0]
    /\ UNCHANGED <<video, version, extraction, signal, faults>>

(* _fail: the answer has not the form asked for, the provider failed, or    *)
(* the signals could not be written.                                        *)
Fail(j, status) ==
    /\ \/ At(j, "asking") /\ status \in {"invalid_output", "failed"}
       \/ At(j, "failing") /\ status = "failed"
    /\ extraction' = Ended(j, status, "none")
    /\ video' = IF job[j].task = "pain" THEN video
                ELSE [video EXCEPT ![Target(j)] = VideoAfter(status)]
    /\ job' = [job EXCEPT ![j] = Released(j)]
    /\ UNCHANGED <<version, signal, faults>>

-----------------------------------------------------------------------------
(* The surroundings *)

(* The worker dies; its message is delivered again. *)
Crash(j) ==
    /\ job[j].phase \notin {"waiting", "lost", "done", "exhausted"}
    /\ faults < MaxFaults /\ faults' = faults + 1
    /\ job' = [job EXCEPT ![j] = Raised(j)]
    /\ UNCHANGED <<video, version, extraction, signal>>

(* Another collection of the source brings new counts or a new text, which  *)
(* are part of the input; create_or_update_video and upsert_comment leave   *)
(* the rest of the row alone.                                               *)
Refresh(s) ==
    /\ version[s] \in 1..(MaxVersion - 1)
    /\ version' = [version EXCEPT ![s] = @ + 1]
    /\ UNCHANGED <<video, extraction, signal, job, faults>>

Handler(j) ==
    \/ Begin(j)
    \/ \E s \in Source : Look(j, s) \/ NotEligible(j, s)
    \/ Reuse(j) \/ EndBatch(j) \/ Number(j) \/ Start(j) \/ StartRefused(j)
    \/ \E verdict \in VerdictsOf(job[j].task), found \in BOOLEAN : Complete(j, verdict, found)
    \/ Unwritable(j)
    \/ \E status \in {"invalid_output", "failed"} : Fail(j, status)

AnalysisNext ==
    \/ \E j \in Job : Handler(j) \/ CompleteFails(j) \/ Crash(j)
    \/ \E s \in Source : Refresh(s)

-----------------------------------------------------------------------------
AnalysisTypeOK ==
    /\ video \in [Video -> VideoStatus]
    /\ version \in [Source -> 0..MaxVersion]
    /\ extraction \in [Identity -> Seq(ExtractionRow)]
    /\ signal \subseteq [id : Identity, attempt : Nat]
    /\ job \in [Job -> JobRow]
    /\ faults \in 0..MaxFaults

AtWork(j) == job[j].phase \in {"asking", "failing"}

(* Two workers that start on the same input never work on the same row:     *)
(* the number read before the insert may be taken by then, and the index    *)
(* lets only one of them have it.                                           *)
OwnExtraction ==
    \A j, k \in Job : j # k /\ AtWork(j) /\ AtWork(k) => InHand(j) # InHand(k)

(* The message has a row open: its worker is at it, or its answer was lost. *)
HasOpen(j) == AtWork(j) \/ At(j, "lost")

(* As long as no worker died on the way, a running extraction has its worker *)
(* and so has a video in processing, or one message opened it and lost its  *)
(* answer to SignalCreate: every other way out of a handler, also that of an *)
(* error, closes the row and gives the video another status, and no second  *)
(* worker on the same input leaves a row of its own behind.                  *)
NothingLeftBehind ==
    faults = 0 =>
      /\ \A id \in Identity : \A n \in DOMAIN extraction[id] :
           extraction[id][n].status = "running" =>
             \E j \in Job : HasOpen(j) /\ InHand(j) = [id |-> id, attempt |-> n]
      /\ \A v \in Video : video[v] = "processing" =>
           \E j \in Job : HasOpen(j) /\ job[j].task # "pain" /\ Target(j) = v

Found(t, v, rows(_)) ==
    \E id \in Identity : id[1] = t /\ id[2] = v
        /\ \E n \in DOMAIN extraction[id] : rows(extraction[id][n])

(* The status of a video is backed by a result: queued by a relevant        *)
(* verdict, ignored by an irrelevant one, review and failed by an           *)
(* extraction that ended so; and signals come from completed extractions of *)
(* videos that were found relevant, however the workers interleave and      *)
(* whichever of them die.                                                   *)
StatusHasEvidence ==
    /\ \A v \in Video :
        /\ video[v] = "queued" =>
             Found("relevance", v, LAMBDA r : r.verdict = "relevant")
        /\ video[v] = "ignored" =>
             Found("relevance", v, LAMBDA r : r.verdict = "irrelevant")
        /\ video[v] \in {"review", "failed"} =>
             \E t \in {"relevance", "signals"} :
               Found(t, v, LAMBDA r : video[v] = VideoAfter(r.status)
                                      /\ r.status \in {"invalid_output", "failed"})
    /\ \A g \in signal :
        /\ extraction[g.id][g.attempt].status = "completed"
        /\ g.id[1] = "signals" =>
             Found("relevance", g.id[2], LAMBDA r : r.verdict = "relevant")

(* A result, once recorded, is never rewritten by a later attempt, a retry  *)
(* or another worker.                                                       *)
ResultsAreFinal ==
    [][\A id \in Identity : \A n \in DOMAIN extraction[id] :
         extraction[id][n].status # "running" =>
           n \in DOMAIN extraction'[id] /\ extraction'[id][n] = extraction[id][n]]_vars

(* With a retry left for every fault, a relevance message decides each of   *)
(* its videos: none stays new, and one left in processing by a dead worker  *)
(* is taken up again.                                                       *)
RelevanceDecides ==
    \A j \in Job, v \in Video :
        At(j, "waiting") /\ job[j].task = "relevance" /\ v \in job[j].ids
          ~> video[v] \notin {"new", "processing"}
=============================================================================
