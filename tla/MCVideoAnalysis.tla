-------------------------- MODULE MCVideoAnalysis --------------------------
(* Instances of CommentCollection, and with it VideoAnalysis, for TLC: two   *)
(* videos with a comment each.                                               *)
EXTENDS CommentCollection

CONSTANTS v1, v2, k1, k2, j1, j2

EachItsVideo == [c \in Comment |-> IF c = k1 THEN v1 ELSE v2]

(* Two messages about the first video and its comment, and no collection.    *)
(* Exchanging the messages changes nothing, so only one order of the tasks   *)
(* is taken; messages about the comment and about the video share nothing.   *)
(* The second video was found irrelevant before.  What no message reads does *)
(* not change any more.                                                      *)
Analyses ==
    /\ video = [v \in Video |-> IF v = v2 THEN "ignored" ELSE "new"]
    /\ extraction = [id \in Identity |->
                       IF id = <<"relevance", v2, MaxVersion>>
                       THEN <<[status |-> "completed", verdict |-> "irrelevant"]>>
                       ELSE <<>>]
    /\ signal = {} /\ faults = 0
    /\ \E task \in [Job -> Task], named \in [Job -> BOOLEAN] :
         /\ task[j1] = "relevance" \/ task[j2] # "relevance"
         /\ task[j1] = "pain" <=> task[j2] = "pain"
         /\ task[j1] = "pain" => named[j1] /\ named[j2]
         /\ task[j1] = task[j2] /\ named[j2] => named[j1]
         /\ job = [j \in Job |->
                     NewJob(task[j],
                            IF named[j] THEN SourcesOf(task[j]) \cap {v1, k1} ELSE {})]
         /\ version = [s \in Source |->
                         IF s = k2 THEN 0
                         ELSE IF \E j \in Job : s \in SourcesOf(task[j]) \ {v2} THEN 1
                         ELSE MaxVersion]
    /\ gather = [NewGather EXCEPT !.phase = "over", !.status = "completed"]

(* A collection of both videos, when the messages are done.                  *)
Collection ==
    /\ video = [v \in Video |-> "new"]
    /\ version = [s \in Source |-> IF s \in Video THEN 1 ELSE 0]
    /\ extraction = [id \in Identity |-> <<>>]
    /\ signal = {} /\ faults = 0
    /\ job = [j \in Job |-> [NewJob("relevance", {}) EXCEPT !.phase = "done"]]
    /\ gather = [NewGather EXCEPT !.phase = "idle"]

(* One run for both: a behaviour begins in one of the two situations.        *)
MCSpec ==
    /\ Analyses \/ Collection
    /\ [][Next]_allVars
    /\ \A j \in Job : WF_allVars(Handler(j) /\ UNCHANGED gather)
=============================================================================
