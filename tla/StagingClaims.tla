--------------------------- MODULE StagingClaims ---------------------------
(***************************************************************************)
(* What becomes of a staged item: a metadata collection claims it, fetches  *)
(* its video and settles it (YouTubeMetadataCollectionService); a claim     *)
(* older than the limit is returned (StaleClaimRecoveryService); and the    *)
(* first transaction of start_pipeline settles the items of its batch whose *)
(* video is already known, from rows it has read without a lock.            *)
(*                                                                         *)
(* Collections are those the pipeline enqueues, those of the schedule and   *)
(* those of the API; they differ in the items they may claim, and all the   *)
(* items here are of one batch, so that each of them may claim any.         *)
(***************************************************************************)
EXTENDS PagedDiscovery

CONSTANTS
    Collector,    \* metadata collections that can be under way at once
    ClaimLimit    \* limit of a collection's request

ASSUME ClaimAssumption ==
    /\ ClaimLimit \in Nat \ {0}
    /\ {Nobody, "dead"} \cap Collector = {}

VARIABLES
    known,      \* videos rows
    collector,  \* the collections under way
    start,      \* the first transaction of start_pipeline for the batch
    taken       \* items whose claim recovery or start_pipeline took away (history)

claimVars == <<known, collector, start, taken>>
vars == <<searchVars, claimVars>>

VideoOf(i) == i[2]

(* The claim of a process that died is nobody's, and is still on the row.   *)
Dead == "dead"
ItemStatus == {"absent", "pending", "processing", "processed", "failed"}

(* The row a collection has of its own in collection_runs, written at its   *)
(* start and by _finish, is left out: only the console reads it.            *)
CollectorRow == [phase: {"idle", "fetching", "persisting", "releasing"},
                 items: SUBSET Item, answer: SUBSET Video]

NoCollection == [phase |-> "idle", items |-> {}, answer |-> {}]
NotRead == [phase |-> "waiting", read |-> [i \in Item |-> "absent"], known |-> {}]

Init ==
    /\ SearchInit
    /\ known \in SUBSET Video
    /\ collector = [c \in Collector |-> NoCollection]
    /\ start = NotRead
    /\ taken = {}

-----------------------------------------------------------------------------
(* Collections *)

BadClaimable == {i \in Item : item[i].status \in {"pending", "processing"}}

Claimable == {i \in Item : item[i].status = "pending"}

(* _start_and_claim: up to the limit of the pending items.  Which of them   *)
(* (the oldest that no other transaction has locked) is left open.  Without *)
(* an item the collection is over at once.                                  *)
StartAndClaim(c, claimed) ==
    /\ collector[c].phase = "idle"
    /\ claimed \subseteq Claimable
    /\ Cardinality(claimed) \in 1..ClaimLimit
    /\ item' = [i \in Item |-> IF i \in claimed THEN [status |-> "processing", by |-> c]
                               ELSE item[i]]
    /\ collector' = [collector EXCEPT ![c] =
                       [NoCollection EXCEPT !.phase = "fetching", !.items = claimed]]
    /\ UNCHANGED <<search, searcher, faults, known, start, taken>>

(* get_videos and get_channels: an item whose video or whose channel is     *)
(* missing from the answers cannot be settled.                              *)
Fetch(c, answer) ==
    /\ collector[c].phase = "fetching"
    /\ answer \subseteq {VideoOf(i) : i \in collector[c].items}
    /\ collector' = [collector EXCEPT ![c].phase = "persisting", ![c].answer = answer]
    /\ UNCHANGED <<searchVars, known, start, taken>>

(* One of the two requests raises: the claims will be released. *)
FetchFails(c) ==
    /\ collector[c].phase = "fetching"
    /\ faults < MaxFaults /\ faults' = faults + 1
    /\ collector' = [collector EXCEPT ![c].phase = "releasing"]
    /\ UNCHANGED <<item, search, searcher, known, start, taken>>

(* mark_processed and mark_failed: by identity, whatever the row has become *)
(* since the claim.                                                         *)
Settle(c) ==
    [i \in Item |-> IF i \notin collector[c].items THEN item[i]
                    ELSE IF VideoOf(i) \in collector[c].answer
                    THEN Row("processed") ELSE Row("failed")]

(* _persist: channels, videos and items in one transaction. *)
Persist(c) ==
    /\ collector[c].phase = "persisting"
    /\ known' = known \cup collector[c].answer
    /\ item' = Settle(c)
    /\ collector' = [collector EXCEPT ![c] = NoCollection]
    /\ UNCHANGED <<search, searcher, faults, start, taken>>

BadRelease(c) ==
    [i \in Item |-> IF i \in collector[c].items THEN Row("pending") ELSE item[i]]

(* release_claims: items still in processing, whoever has claimed them.     *)
Release(c) ==
    [i \in Item |-> IF i \in collector[c].items /\ item[i].status = "processing"
                    THEN Row("pending") ELSE item[i]]

ReleaseClaims(c) ==
    /\ collector[c].phase = "releasing"
    /\ item' = Release(c)
    /\ collector' = [collector EXCEPT ![c] = NoCollection]
    /\ UNCHANGED <<search, searcher, faults, known, start, taken>>

(* The process dies, or a transaction fails for another reason than         *)
(* YouTube: the claims stay on the rows and nobody holds them.              *)
CollectorDies(c) ==
    /\ collector[c].phase # "idle"
    /\ faults < MaxFaults /\ faults' = faults + 1
    /\ item' = [i \in Item |-> IF item[i].by = c THEN [item[i] EXCEPT !.by = Dead]
                               ELSE item[i]]
    /\ collector' = [collector EXCEPT ![c] = NoCollection]
    /\ UNCHANGED <<search, searcher, known, start, taken>>

BadRecoverStaleClaims(stale) ==
    /\ stale # {}
    /\ \A i \in stale : item[i].status = "processing" /\ item[i].by \in Collector
    /\ item' = [i \in Item |-> IF i \in stale THEN Row("pending") ELSE item[i]]
    /\ taken' = taken \cup stale
    /\ UNCHANGED <<search, searcher, faults, known, collector, start>>

(* recover_stale_claims: claims older than the limit of time.  The limit is *)
(* no bound on a collection, which may still be at work.                    *)
RecoverStaleClaims(stale) ==
    /\ stale # {}
    /\ \A i \in stale : item[i].status = "processing"
    /\ item' = [i \in Item |-> IF i \in stale THEN Row("pending") ELSE item[i]]
    /\ taken' = taken \cup stale
    /\ UNCHANGED <<search, searcher, faults, known, collector, start>>

-----------------------------------------------------------------------------
(* start_pipeline, first transaction *)

(* The batch is terminal: no run of it is still to be searched. *)
BatchOver == \A r \in Run : search[r].status \notin {"pending", "running"}

ReadItems ==
    /\ start.phase = "waiting" /\ BatchOver
    /\ start' = [phase |-> "read", read |-> [i \in Item |-> item[i].status], known |-> known]
    /\ UNCHANGED <<searchVars, known, collector, taken>>

(* The items it marks as processed: those whose video was known. *)
Reused == {i \in Item : start.read[i] # "absent" /\ VideoOf(i) \in start.known}

(* The statement for an item contains only the columns that differ from     *)
(* what was read.  claimed_at, read as null, is not written, and neither is *)
(* error_summary; ck_youtube_discovery_items_processing_result then refuses *)
(* a row that was claimed or failed meanwhile.                              *)
Refused ==
    \E i \in Reused :
        \/ start.read[i] = "pending" /\ item[i].status \in {"processing", "failed"}
        \/ start.read[i] = "processing" /\ item[i].status = "failed"

(* An item that was read as processed only gets a new processed_at; the     *)
(* claim of one that was read as claimed is written, as null.               *)
MarkReused ==
    [i \in Item |->
       IF i \notin Reused \/ start.read[i] = "processed" THEN item[i]
       ELSE IF start.read[i] = "processing" THEN Row("processed")
       ELSE [item[i] EXCEPT !.status = "processed"]]

CommitStart ==
    /\ start.phase = "read" /\ ~Refused
    /\ item' = MarkReused
    /\ taken' = taken \cup {i \in Reused : item[i].status = "processing"}
    /\ start' = [start EXCEPT !.phase = "started"]
    /\ UNCHANGED <<search, searcher, faults, known, collector>>

(* The transaction is rolled back; the message of the last run, or another  *)
(* worker of the batch, calls start_pipeline again.                         *)
StartRefused ==
    /\ start.phase = "read" /\ Refused
    /\ start' = NotRead
    /\ UNCHANGED <<searchVars, known, collector, taken>>

-----------------------------------------------------------------------------
CollectorStep(c) ==
    \/ \E claimed \in SUBSET Item : StartAndClaim(c, claimed)
    \/ \E answer \in SUBSET Video : Fetch(c, answer)
    \/ Persist(c)
    \/ ReleaseClaims(c)

Next ==
    \/ SearchNext /\ UNCHANGED claimVars
    \/ \E c \in Collector : CollectorStep(c) \/ FetchFails(c) \/ CollectorDies(c)
    \/ \E stale \in SUBSET Item : RecoverStaleClaims(stale)
    \/ ReadItems \/ CommitStart \/ StartRefused

(* The scheduler sends a metadata collection and a recovery at fixed        *)
(* intervals, for good.                                                     *)
Spec ==
    /\ Init /\ [][Next]_vars
    /\ \A c \in Collector : WF_vars(CollectorStep(c))
    /\ \A i \in Item : WF_vars(RecoverStaleClaims({i}) /\ item[i].by = Dead)

-----------------------------------------------------------------------------
TypeOK ==
    /\ item \in [Item -> [status: ItemStatus, by: Collector \cup {Nobody, Dead}]]
    /\ search \in [Run -> SearchRow]
    /\ searcher \in [Searcher -> SearcherRow]
    /\ known \subseteq Video
    /\ collector \in [Collector -> CollectorRow]
    /\ start \in [phase: {"waiting", "read", "started"},
                  read: [Item -> ItemStatus], known: SUBSET Video]
    /\ taken \subseteq Item /\ faults \in 0..MaxFaults

Holds(c, i) == collector[c].phase \in {"fetching", "persisting", "releasing"}
                 /\ i \in collector[c].items

(* Neither a search, a collection, a recovery nor start_pipeline ever writes *)
(* a row that the CHECK of the table refuses: a claim is on the items in    *)
(* processing only, and on all of them.  And an item has one claimant:      *)
(* unless its claim was taken away once, at most one collection is at work  *)
(* on it, and the row says which.                                           *)
OneClaimant ==
    \A i \in Item :
        /\ item[i].status = "processing" <=> item[i].by # Nobody
        /\ i \in taken \/ \A c \in Collector : Holds(c, i) <=> item[i].by = c

(* A processed item points to a row of videos; and once start_pipeline has  *)
(* committed, nobody fetches again an item whose video it had found:        *)
(* neither a claim that came between its read and its write nor a late      *)
(* release or recovery brings it back.                                      *)
SettledStaysKnown ==
    /\ \A i \in Item : item[i].status = "processed" => VideoOf(i) \in known
    /\ start.phase = "started" => \A i \in Reused : item[i].status \in {"processed", "failed"}

(* A settled item stays as it is, except that one whose claim was taken     *)
(* away can still be settled by the collection that lost it, and that       *)
(* start_pipeline may find the video of a failed one.                       *)
SettledIsFinal ==
    [][\A i \in Item \ taken :
         /\ item[i].status = "processed" => item'[i].status = "processed"
         /\ item[i].status = "failed" /\ item'[i] # item[i] => i \in Reused]_vars

(* Whatever dies on the way, a staged item is settled in the end. *)
EveryItemSettles ==
    \A i \in Item : item[i].status = "pending" ~> item[i].status \in {"processed", "failed"}
=============================================================================
