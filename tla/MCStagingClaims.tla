-------------------------- MODULE MCStagingClaims --------------------------
(* The instance of StagingClaims for TLC: one of two videos was known        *)
(* before.  Collections are interchangeable: of two that are idle the first  *)
(* one begins.                                                               *)
EXTENDS StagingClaims

CONSTANTS v1, v2, c1, c2

MCInit == Init /\ known = {v1}

Turn(c) == c = c2 /\ collector[c].phase = "idle" => collector[c1].phase # "idle"

(* Searches, collections and the transaction of start_pipeline that have     *)
(* begun.                                                                    *)
AtWork ==
    {s \in Searcher : searcher[s].phase # "idle"}
        \cup {c \in Collector : collector[c].phase # "idle"}
        \cup {x \in {"start"} : start.phase = "read"}

(* A run is finished, by its workers or by others, twice at most; and at     *)
(* most two processes are at work at the same time.                          *)
TwoWorkers ==
    /\ \A r \in Run : search'[r].finishes <= 2
    /\ Cardinality(AtWork) >= 2 => AtWork' \subseteq AtWork

MCNext ==
    \/ SearchNext /\ UNCHANGED claimVars
    \/ \E c \in Collector :
          Turn(c) /\ (CollectorStep(c) \/ FetchFails(c) \/ CollectorDies(c))
    \/ \E stale \in SUBSET Item : RecoverStaleClaims(stale)
    \/ ReadItems \/ CommitStart \/ StartRefused

MCSpec ==
    /\ MCInit /\ [][MCNext]_vars
    /\ \A c \in Collector : WF_vars(Turn(c) /\ CollectorStep(c))
    /\ \A i \in Item : WF_vars(RecoverStaleClaims({i}) /\ item[i].by = Dead)
=============================================================================
