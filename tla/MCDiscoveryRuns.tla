-------------------------- MODULE MCDiscoveryRuns --------------------------
(* Instances of DiscoveryRuns for TLC: one topic, whose queries are the      *)
(* model values of the configuration.                                        *)
EXTENDS DiscoveryRuns, TLC

CONSTANTS t1

OneTopic == [q \in Query |-> t1]

(* Queries and batches are interchangeable in the safety properties. *)
Interchangeable == Permutations(Query) \cup Permutations(Batch)

(* Every child of the batch has failed, the rollup has followed, and no      *)
(* fault is left.  One child was given up by stale recovery while its worker *)
(* had only read the clock; the others were rejected by theirs, which have   *)
(* the second transaction of finalize_failure to do.                         *)
GivenUp ==
    \E b \in Batch, late \in Query :
        /\ \A r \in Run : run[r] = IF r[1] = b THEN Finished(NewRun, "failed")
                                   ELSE [NewRun EXCEPT !.status = "absent"]
        /\ batch[b] = [NewBatch(t1, Cardinality(Query), Cardinality(Query))
                          EXCEPT !.status = "failed"]
        /\ \A q \in Query :
              job[<<b, q>>] = [Parked("held", 0) EXCEPT
                                 !.phase = IF q = late THEN "starting" ELSE "closing"]
        /\ api[b] = NoApi
    /\ recovery = {} /\ faults = MaxFaults

Started == {b \in Batch : batch[b].status # "absent"}

(* The second batch is created there, by the scheduler; its one child is of *)
(* the query whose worker has only read the clock.  From then on the         *)
(* analysis of a batch goes from queued to its end.                          *)
SecondBatchThere ==
    /\ Cardinality(Started') > Cardinality(Started) /\ Started # {} =>
          /\ GivenUp
          /\ \A b \in Started' \ Started :
                /\ api'[b].route = "scheduler"
                /\ \E late \in Query : /\ api'[b].left = {late}
                                       /\ \E r \in Run : r[2] = late /\ job[r].phase = "starting"
    /\ Cardinality(Started) > 1 => \A b \in Batch : batch'[b].intel # "processing"

(* The scheduler runs all queries of the topic (its children end in every    *)
(* way a child of another route does), in one order; a child ends completed *)
(* or failed; the analysis only begins.                                      *)
UntilAnalysis ==
    /\ \A b \in Batch : batch'[b].intel \in {"not_started", "queued"}
    /\ \A b \in Started' \ Started : api'[b].route = "scheduler" /\ api'[b].left = Query
    /\ \A b \in Batch : api[b].left = Query =>
          api'[b].left \in {{}, Query, Query \ {CHOOSE q \in Query : TRUE}}
    /\ \A r \in Run : run'[r].status # "partial"

(* No run takes so long that it is stale. *)
Punctual == UNCHANGED recovery
=============================================================================
