-------------------------- MODULE MCTopicSchedule --------------------------
(* Liveness of the topics, in two situations: the batch of a topic           *)
(* (DiscoveryRuns) while nothing is scheduled, and two topics that the       *)
(* scheduler runs (TopicSchedule) when that batch is over.                   *)
EXTENDS MCDiscoveryRuns, TopicSchedule

CONSTANTS ta, tb

MCInterval == "6h" :> 1 @@ "12h" :> 2

Unscheduled == [t \in ScheduledTopic |-> NewTopic("paused", "manual", 0)]

OneBatch ==
    /\ Init
    /\ topic = Unscheduled /\ patches = 0 /\ ScheduleInit

(* Both topics run by schedule, each callback takes one query, and edits     *)
(* edits of the administrator are left.                                      *)
Scheduled(edits) ==
    /\ batch = [b \in Batch |-> [NewBatch(t1, Cardinality(Query), Cardinality(Query))
                                    EXCEPT !.status = "failed"]]
    /\ run = [r \in Run |-> Finished(NewRun, "failed")]
    /\ job = [r \in Run |-> NoJob]
    /\ api = [b \in Batch |-> NoApi]
    /\ recovery = {} /\ faults = MaxFaults
    /\ topic = (ta :> NewTopic("active", "6h", 2) @@ tb :> NewTopic("active", "12h", 1))
    /\ patches = edits /\ ScheduleInit

MCNext ==
    \/ Next /\ UNCHANGED scheduleVars
    \/ topic # Unscheduled /\ ScheduleStep /\ UNCHANGED vars

MCFairSpec ==
    /\ OneBatch \/ Scheduled(1)
    /\ [][MCNext]_<<vars, scheduleVars>>
    /\ Fairness /\ ScheduleFairness

MCEditedSpec == Scheduled(2) /\ [][MCNext]_<<vars, scheduleVars>>
=============================================================================
