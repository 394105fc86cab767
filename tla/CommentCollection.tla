------------------------- MODULE CommentCollection -------------------------
(***************************************************************************)
(* YouTubeCommentCollectionService.collect: a collection goes through its   *)
(* videos one after the other and through the pages of each, within a       *)
(* budget of quota, and upserts the comments of every page in a             *)
(* transaction of its own.  It runs beside the analyses, which read the     *)
(* comments and decide which videos a collection takes.                     *)
(***************************************************************************)
EXTENDS VideoAnalysis

CONSTANTS
    VideoOf,       \* the video of each comment
    MaxPages,      \* max_pages_per_video
    QuotaBudget    \* max_quota_units_per_run; a page costs one unit

ASSUME CommentAssumption ==
    /\ VideoOf \in [Comment -> Video] /\ IsFiniteSet(Video)
    /\ {MaxPages, QuotaBudget} \subseteq Nat

VARIABLES
    gather   \* the collection: its loop, its metrics and its outcomes

allVars == <<vars, gather>>

Outcome == {"completed", "comments_disabled", "collection_failed", "quota_budget_reached"}

(* video: {} between two videos; pages: persisted of this video, and of all *)
(* videos in total.                                                         *)
GatherRow == [phase: {"idle", "choosing", "asking", "persisting", "over"},
              left: SUBSET Video, video: SUBSET Video, page: SUBSET Comment,
              more: BOOLEAN, asked: Nat, pages: Nat, quota: Nat, total: Nat,
              outcome: [Video -> Outcome \cup {"none"}],
              status: {"running", "completed", "partial", "failed"}]

NewGather == [phase |-> "choosing", left |-> {}, video |-> {}, page |-> {},
              more |-> FALSE, asked |-> 0, pages |-> 0, quota |-> 0, total |-> 0,
              outcome |-> [v \in Video |-> "none"], status |-> "running"]

GatherInit == Init /\ gather = [NewGather EXCEPT !.phase = "idle"]

(* _select_videos and _start_run: without ids the videos that are neither   *)
(* ignored nor failed; with ids, CanonicalVideosNotFound if one of them is. *)
StartGather(videos) ==
    /\ gather.phase = "idle"
    /\ videos \subseteq {v \in Video : video[v] \notin {"ignored", "failed"}}
    /\ gather' = [NewGather EXCEPT !.left = videos]
    /\ UNCHANGED vars

NextVideo(v) ==
    /\ gather.phase = "choosing" /\ v \in gather.left
    /\ gather' = [gather EXCEPT !.phase = "asking", !.left = @ \ {v}, !.video = {v},
                                !.asked = 0, !.pages = 0]
    /\ UNCHANGED vars

Count(outcome) == Cardinality({v \in Video : gather.outcome[v] = outcome})

(* The video in hand ends; the metrics are the numbers of each outcome.     *)
EndVideo(g, outcome) ==
    [g EXCEPT !.phase = "choosing", !.video = {}, !.page = {}, !.more = FALSE,
              !.asked = 0, !.pages = 0,
              !.outcome = [v \in Video |-> IF v \in g.video THEN outcome ELSE @[v]]]

QuotaLeft == gather.quota < QuotaBudget

(* One comment thread page is asked for and answered. *)
ReceiveComments(page, more) ==
    /\ gather.phase = "asking" /\ QuotaLeft
    /\ \A c \in page : VideoOf[c] \in gather.video
    /\ gather' = [gather EXCEPT !.phase = "persisting", !.page = page, !.more = more,
                                !.asked = @ + 1, !.quota = @ + 1]
    /\ UNCHANGED vars

(* commentsDisabled skips the video, any other error fails it; the pages    *)
(* persisted before stay.                                                   *)
CommentsRefused(outcome) ==
    /\ gather.phase = "asking" /\ QuotaLeft
    /\ outcome \in {"comments_disabled", "collection_failed"}
    /\ gather' = EndVideo([gather EXCEPT !.quota = @ + 1], outcome)
    /\ UNCHANGED vars

(* The budget is spent: the video and those after it are given up. *)
QuotaStops ==
    /\ gather.phase = "asking" /\ ~QuotaLeft
    /\ gather' = [EndVideo(gather, "quota_budget_reached") EXCEPT !.phase = "over"]
    /\ UNCHANGED vars

(* _persist_page: upserts, which give a comment a new content or the one it *)
(* has.                                                                     *)
PersistComments(changed) ==
    LET more == gather.more /\ gather.asked < MaxPages
        g == [gather EXCEPT !.total = @ + 1, !.pages = @ + 1, !.phase = "asking",
                            !.page = {}]
    IN
    /\ gather.phase = "persisting"
    /\ changed \subseteq gather.page
    /\ \A c \in gather.page : version[c] = 0 => c \in changed
    /\ \A c \in changed : version[c] < MaxVersion
    /\ version' = [s \in Source |-> IF s \in changed THEN version[s] + 1 ELSE version[s]]
    /\ gather' = IF more THEN g ELSE EndVideo(g, "completed")
    /\ UNCHANGED <<video, extraction, signal, job, faults>>

BadStatus == IF Count("collection_failed") > 0 THEN "failed" ELSE "completed"

(* _status *)
Status ==
    IF Count("quota_budget_reached") > 0
    THEN IF gather.total > 0 THEN "partial" ELSE "failed"
    ELSE IF Count("collection_failed") = 0 THEN "completed"
    ELSE IF Count("completed") + Count("comments_disabled") + gather.total > 0
    THEN "partial" ELSE "failed"

(* _finish *)
FinishGather ==
    /\ \/ gather.phase = "over"
       \/ gather.phase = "choosing" /\ gather.left = {}
    /\ gather.status = "running"
    /\ gather' = [gather EXCEPT !.phase = "over", !.status = Status]
    /\ UNCHANGED vars

(* The worker dies; the run stays running and the message begins a new one. *)
GatherDies ==
    /\ gather.phase \notin {"idle", "over"}
    /\ faults < MaxFaults /\ faults' = faults + 1
    /\ gather' = [NewGather EXCEPT !.phase = "idle"]
    /\ UNCHANGED <<video, version, extraction, signal, job>>

GatherStep ==
    \/ \E videos \in SUBSET Video : StartGather(videos)
    \/ \E v \in Video : NextVideo(v)
    \/ \E page \in SUBSET Comment, more \in BOOLEAN : ReceiveComments(page, more)
    \/ \E outcome \in Outcome : CommentsRefused(outcome)
    \/ QuotaStops
    \/ \E changed \in SUBSET Comment : PersistComments(changed)
    \/ FinishGather

Next ==
    \/ AnalysisNext /\ UNCHANGED gather
    \/ GatherStep \/ GatherDies

Spec ==
    /\ GatherInit /\ [][Next]_allVars
    /\ \A j \in Job : WF_allVars(Handler(j) /\ UNCHANGED gather)

-----------------------------------------------------------------------------
TypeOK == AnalysisTypeOK /\ gather \in GatherRow

(* What the run of a collection reports is what it has done: completed when *)
(* every video ended by itself, failed when nothing was persisted, and the  *)
(* budget is never exceeded.                                                *)
GatherHonest ==
    /\ gather.quota <= QuotaBudget
    /\ gather.status = "completed" =>
         /\ gather.left = {}
         /\ \A v \in Video : gather.outcome[v] \in {"completed", "comments_disabled", "none"}
    /\ gather.status = "failed" => gather.total = 0
    /\ gather.status = "partial" =>
         \E v \in Video : gather.outcome[v] \in {"collection_failed", "quota_budget_reached"}

=============================================================================
