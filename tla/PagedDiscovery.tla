--------------------------- MODULE PagedDiscovery ---------------------------
(***************************************************************************)
(* YouTubeDiscoveryService.discover: a collection run pages through the     *)
(* answers of a YouTube search and stages every video it sees as a pending  *)
(* item.  Each page is persisted by a transaction of its own, and the       *)
(* message of the run may be delivered again while the first worker is      *)
(* still paging, or after it died; and other processes may give the run up  *)
(* at any time, which stops nobody.                                         *)
(***************************************************************************)
EXTENDS Naturals, FiniteSets

CONSTANTS
    Run,          \* collection_runs rows of one batch
    Video,        \* YouTube videos
    Searcher,     \* workers that can execute the message of a run
    PageSize,     \* results YouTube returns at most per page
    MaxPages,     \* max_pages of the request
    MaxResults,   \* max_results of the request
    SearchCost,   \* YouTubeQuotaCost.SEARCH_LIST
    QuotaBudget,  \* max_quota_units_per_run
    MaxAttempts,  \* bound on the deliveries of a message explored
    MaxFaults     \* bound on crashes and YouTube outages explored

ASSUME PagingAssumption ==
    /\ IsFiniteSet(Video)
    /\ {PageSize, MaxPages, MaxResults, SearchCost, QuotaBudget, MaxAttempts, MaxFaults} \subseteq Nat
    /\ PageSize > 0 /\ MaxPages > 0 /\ MaxResults > 0

VARIABLES
    item,     \* youtube_discovery_items
    search,   \* collection_runs, the columns discover writes
    searcher, \* the workers
    faults    \* crashes and outages so far

searchVars == <<item, search, searcher, faults>>

(* finishes counts the writes of finished_at, as in DiscoveryRuns; given_up  *)
(* is the error_summary of whoever gave the run up.                          *)
SearchRow == [status: {"pending", "running", "completed", "partial", "failed"},
              items: Nat, requested: Nat, completed: Nat, more: BOOLEAN,
              attempts: Nat, finishes: Nat, given_up: BOOLEAN]

(* A run stages a video at most once (the unique index on both columns).    *)
Item == Run \X Video

(* by: whose claim claimed_at is; nobody's when the column is null.         *)
Nobody == "nobody"
Row(status) == [status |-> status, by |-> Nobody]

Staged(r) == {v \in Video : item[<<r, v>>].status # "absent"}

(* clock: the finishes of the run when a starting worker read its clock.    *)
SearcherRow == [phase: {"idle", "starting", "asking", "persisting", "finishing"},
                run: Run, clock: Nat, seen: SUBSET Video, page: SUBSET Video,
                requested: Nat, completed: Nat, more: BOOLEAN,
                outcome: {"completed", "partial", "failed"}]

Fresh(r) == [phase |-> "idle", run |-> r, clock |-> 0, seen |-> {}, page |-> {},
             requested |-> 0, completed |-> 0, more |-> FALSE, outcome |-> "completed"]

SearchInit ==
    /\ item = [i \in Item |-> Row("absent")]
    /\ search = [r \in Run |-> [status |-> "pending", items |-> 0, requested |-> 0,
                                completed |-> 0, more |-> FALSE, attempts |-> 0,
                                finishes |-> 0, given_up |-> FALSE]]
    /\ searcher \in {[s \in Searcher |-> Fresh(r)] : r \in Run}
    /\ faults = 0

-----------------------------------------------------------------------------
(* A message of a run that is not over: the worker loads the query and      *)
(* reads the clock.                                                          *)
TakeMessage(s, r) ==
    /\ searcher[s].phase = "idle"
    /\ search[r].status \in {"pending", "running"}
    /\ search[r].attempts < MaxAttempts
    /\ searcher' = [searcher EXCEPT ![s] = [Fresh(r) EXCEPT !.phase = "starting",
                                                            !.clock = search[r].finishes]]
    /\ UNCHANGED <<item, search, faults>>

(* ck_collection_runs_timestamp_order: the clock was read after the run was  *)
(* finished for the last time.                                               *)
TooLate(w) == search[w.run].finishes > 0 /\ search[w.run].finishes = w.clock

(* _start_run: mark_running has no condition on the status, so a run that    *)
(* was given up meanwhile runs again.                                        *)
StartSearch(s) ==
    LET r == searcher[s].run IN
    /\ searcher[s].phase = "starting" /\ ~TooLate(searcher[s])
    /\ searcher' = [searcher EXCEPT ![s] = [Fresh(r) EXCEPT !.phase = "asking"]]
    /\ search' = [search EXCEPT ![r].status = "running", ![r].attempts = @ + 1]
    /\ UNCHANGED <<item, faults>>

(* The CHECK ends the attempt. *)
SearchRefused(s) ==
    /\ searcher[s].phase = "starting" /\ TooLate(searcher[s])
    /\ searcher' = [searcher EXCEPT ![s] = Fresh(@.run)]
    /\ UNCHANGED <<item, search, faults>>

(* What was staged and counted stays. *)
GivenUp(row) == [row EXCEPT !.status = "failed", !.given_up = TRUE, !.finishes = @ + 1]

(* recover_stale, finalize_failure (a permanent error of some delivery, or   *)
(* the last attempt of the message) and mark_enqueue_failed: only a run that *)
(* is not over is given up, and its workers, if any, go on.                  *)
GiveUp(r) ==
    /\ search[r].status \in {"pending", "running"}
    /\ search' = [search EXCEPT ![r] = GivenUp(@)]
    /\ UNCHANGED <<item, searcher, faults>>

(* The results that still fit, of the next page. *)
Room(w) == LET left == MaxResults - Cardinality(w.seen)
           IN IF left < PageSize THEN left ELSE PageSize

QuotaLeft(w) == (w.requested + 1) * SearchCost <= QuotaBudget

(* What an interrupted search is worth. *)
Interrupted(w) == IF w.completed > 0 THEN "partial" ELSE "failed"

(* The budget does not cover another page. *)
StopForQuota(s) ==
    /\ searcher[s].phase = "asking"
    /\ ~QuotaLeft(searcher[s])
    /\ searcher' = [searcher EXCEPT ![s].phase = "finishing", ![s].outcome = Interrupted(searcher[s])]
    /\ UNCHANGED <<item, search, faults>>

(* YouTube answers with videos, some of them seen before, and says whether  *)
(* there is a next page; only the new ones are accepted.                    *)
ReceivePage(s, answer, more) ==
    LET w == searcher[s] IN
    /\ w.phase = "asking" /\ QuotaLeft(w)
    /\ Cardinality(answer) <= Room(w)
    /\ searcher' = [searcher EXCEPT ![s] = [w EXCEPT
                      !.phase = "persisting",
                      !.requested = w.requested + 1, !.completed = w.completed + 1, !.more = more,
                      !.page = answer \ w.seen, !.seen = w.seen \cup answer]]
    /\ UNCHANGED <<item, search, faults>>

(* YouTube refuses: what was persisted so far stays. *)
PageFails(s) ==
    LET w == searcher[s] IN
    /\ w.phase = "asking" /\ QuotaLeft(w)
    /\ searcher' = [searcher EXCEPT ![s] = [w EXCEPT
                      !.phase = "finishing", !.requested = w.requested + 1,
                      !.outcome = Interrupted(w)]]
    /\ UNCHANGED <<item, search, faults>>

BadStage(w) == [i \in Item |-> IF i \in {w.run} \X w.page THEN Row("pending") ELSE item[i]]

(* add_discovered_items: a row that exists is left alone. *)
Stage(w) ==
    [i \in Item |-> IF i \in {w.run} \X w.page /\ item[i].status = "absent"
                    THEN Row("pending") ELSE item[i]]

BadProgress(w) ==
    [search[w.run] EXCEPT !.items = @ + Cardinality(w.page), !.requested = w.requested,
                          !.completed = w.completed, !.more = w.more]

(* update_progress, whatever the status of the run has become. *)
Progress(w) ==
    [search[w.run] EXCEPT !.items = Cardinality(w.seen), !.requested = w.requested,
                          !.completed = w.completed, !.more = w.more]

(* No further page is asked for. *)
PagingOver(w) ==
    \/ Cardinality(w.seen) >= MaxResults
    \/ ~w.more
    \/ w.requested = MaxPages

(* _persist_page: the items and the progress of the run in one transaction. *)
PersistPage(s) ==
    LET w == searcher[s] IN
    /\ w.phase = "persisting"
    /\ item' = Stage(w)
    /\ search' = [search EXCEPT ![w.run] = Progress(w)]
    /\ searcher' = [searcher EXCEPT ![s].phase =
                      IF PagingOver(w) THEN "finishing" ELSE "asking"]
    /\ UNCHANGED faults

(* _finalize, whatever the status has become; its error_summary replaces the *)
(* one of whoever gave the run up.                                           *)
FinishSearch(s) ==
    LET w == searcher[s] IN
    /\ w.phase = "finishing"
    /\ search' = [search EXCEPT ![w.run] = 
                     [Progress(w) EXCEPT !.status = w.outcome, !.given_up = FALSE,
                                         !.finishes = @ + 1]]
    /\ searcher' = [searcher EXCEPT ![s] = Fresh(w.run)]
    /\ UNCHANGED <<item, faults>>

(* The worker dies or its transaction fails; its message will be delivered  *)
(* again.                                                                   *)
SearcherDies(s) ==
    /\ searcher[s].phase # "idle"
    /\ faults < MaxFaults /\ faults' = faults + 1
    /\ searcher' = [searcher EXCEPT ![s] = Fresh(@.run)]
    /\ UNCHANGED <<item, search>>

SearcherStep(s) ==
    \/ \E r \in Run : TakeMessage(s, r)
    \/ StartSearch(s) \/ SearchRefused(s)
    \/ StopForQuota(s)
    \/ \E answer \in SUBSET Video, more \in BOOLEAN : ReceivePage(s, answer, more)
    \/ PageFails(s)
    \/ PersistPage(s)
    \/ FinishSearch(s)
    \/ SearcherDies(s)

SearchNext == (\E s \in Searcher : SearcherStep(s)) \/ (\E r \in Run : GiveUp(r))

-----------------------------------------------------------------------------
(* What a run says of the items it staged *)

(* A run never claims more items than it has rows: with several deliveries  *)
(* of its message the later one counts from zero, so it may say less.       *)
(* While only one worker has executed the run, its count is exact at every  *)
(* moment, though the run be given up under that worker or before it began; *)
(* a failed run has staged nothing unless its error_summary says that it    *)
(* was given up; and a completed one has stopped for want of videos, of room *)
(* or of pages.                                                              *)
CountsHonest ==
    \A r \in Run :
      /\ search[r].items <= Cardinality(Staged(r))
      /\ search[r].attempts = 1 =>
        /\ search[r].items = Cardinality(Staged(r))
        /\ search[r].status = "failed" => Staged(r) = {} \/ search[r].given_up
        /\ search[r].status = "completed" =>
             \/ ~search[r].more
             \/ search[r].items = MaxResults
             \/ search[r].requested = MaxPages
=============================================================================
