--------------------------- MODULE TopicSchedule ---------------------------
(* When the scheduler runs the topics: the administrator edits schedules    *)
(* while a callback of the scheduler (enqueue_scheduled_discovery) creates   *)
(* the batches of the topics that are due, one transaction per topic, and    *)
(* advances next_run_at of all of them in a last one.  A batch is only busy  *)
(* or over here; what happens in it is the subject of DiscoveryRuns.         *)
(*                                                                           *)
(* The unit of time is the interval of the callback.  next_run_at is kept    *)
(* relative to the present: zero or less is due, Never stands for NULL.      *)
EXTENDS Integers, FiniteSets, FiniteSetsExt

CONSTANTS
    ScheduledTopic,  \* topics, each with a schedule
    Interval,        \* [schedule other than manual -> units]
    Never,
    RowLimit,        \* youtube_discovery_schedule_batch_size, counts queries
    MaxQueries,      \* bound: enabled queries of a topic
    MaxLate,         \* bound: a topic overdue for longer counts as so much
    MaxAge,          \* bound: units a callback may last
    MaxTrouble       \* bound: callbacks that die or never start

ASSUME ScheduleAssumption ==
    /\ \A s \in DOMAIN Interval : Interval[s] \in Nat \ {0}
    /\ "manual" \notin DOMAIN Interval /\ Never \notin Int
    /\ RowLimit \in Nat \ {0} /\ MaxQueries \in Nat
    /\ MaxLate \in Nat /\ MaxAge \in Nat /\ MaxTrouble \in Nat

VARIABLES
    topic,   \* [ScheduledTopic -> row, and how many units its next batch is early]
    round,   \* the callback
    seen,    \* the callback of this unit has begun
    patches,   \* bound: edits left
    trouble

scheduleVars == <<topic, round, seen, patches, trouble>>

Schedule == DOMAIN Interval \cup {"manual"}
TopicStatus == {"active", "paused", "archived"}

TopicRow ==
    [status: TopicStatus, schedule: Schedule, next: Int \cup {Never},
     enabled: 0 .. MaxQueries, busy: BOOLEAN, early: Nat]

NoRound == [phase |-> "idle", age |-> 0, chosen |-> {}, todo |-> {}, read |-> {}]

-----------------------------------------------------------------------------
(* Schedules *)

NextRun(schedule, age) == IF schedule = "manual" THEN Never ELSE Interval[schedule] - age

(* create and duplicate: a paused topic has no next run. *)
NewTopic(status, schedule, enabled) ==
    [status |-> status, schedule |-> schedule, enabled |-> enabled, busy |-> FALSE,
     next |-> IF status = "active" THEN NextRun(schedule, 0) ELSE Never, early |-> 0]

Set(old, new) == IF new = "unset" THEN old ELSE new

(* The request's schedule counts, not the topic's: an activation without    *)
(* one gives no next run.                                                   *)
NextAfter(row, status, schedule) ==
    IF status \in {"paused", "archived"} THEN Never
    ELSE IF status = "active" \/ schedule # "unset"
         THEN NextRun(IF schedule = "unset" THEN "manual" ELSE schedule, 0)
         ELSE row.next

Patch(t, status, schedule) ==
    /\ patches > 0 /\ <<status, schedule>> # <<"unset", "unset">>
    /\ patches' = patches - 1
    /\ topic' = [topic EXCEPT ![t] =
                   [topic[t] EXCEPT !.status = Set(@, status), !.schedule = Set(@, schedule),
                                    !.next = NextAfter(topic[t], status, schedule), !.early = 0]]
    /\ UNCHANGED <<round, seen, trouble>>

(* add_query and patch_query *)
PatchQuery(t, n) ==
    /\ patches > 0 /\ patches' = patches - 1
    /\ topic' = [topic EXCEPT ![t].enabled = n]
    /\ UNCHANGED <<round, seen, trouble>>

-----------------------------------------------------------------------------
(* The callback *)

IsDue(t) ==
    /\ topic[t].status = "active" /\ topic[t].schedule # "manual"
    /\ topic[t].next # Never /\ topic[t].next <= 0

DueRows == {r \in ScheduledTopic \X (1 .. MaxQueries) : IsDue(r[1]) /\ r[2] <= topic[r[1]].enabled}

(* The first RowLimit enabled queries, ordered by next_run_at of their topic. *)
BadOlder(r, q) == TRUE
Older(r, q) == topic[r[1]].next <= topic[q[1]].next
FirstRows ==
    {rows \in kSubset(Min({RowLimit, Cardinality(DueRows)}), DueRows) :
        \A r \in rows, q \in DueRows \ rows : Older(r, q)}

StartRound ==
    /\ round = NoRound /\ ~seen /\ DueRows # {}
    /\ seen' = TRUE
    /\ \E rows \in FirstRows :
          LET chosen == {r[1] : r \in rows}
          IN round' = [NoRound EXCEPT !.phase = "running", !.chosen = chosen, !.todo = chosen]
    /\ UNCHANGED <<topic, patches, trouble>>

(* create_topic_run raises DiscoveryConflict. *)
Runnable(t) == topic[t].status # "archived" /\ ~topic[t].busy /\ topic[t].enabled > 0

(* What is left, so long after the callback began, of a period that began   *)
(* with it.                                                                  *)
Rest(schedule, age) ==
    IF schedule = "manual" THEN 0 ELSE Max({0, Interval[schedule] - age})

(* The batch may be over at once, when no message could be sent.  A topic    *)
(* in conflict is passed over.                                               *)
RunTopic(t, busy) ==
    /\ t \in round.todo
    /\ round' = [round EXCEPT !.todo = @ \ {t}]
    /\ topic' = IF Runnable(t)
                THEN [topic EXCEPT ![t].busy = busy,
                                   ![t].early = Rest(topic[t].schedule, round.age)]
                ELSE topic
    /\ UNCHANGED <<seen, patches, trouble>>

(* The last transaction loads a topic and then updates it, one after the    *)
(* other; an edit in between keeps its columns and loses its next run.       *)
ReadSchedule(t) ==
    /\ round.phase = "running" /\ round.todo = {} /\ t \in round.chosen \ {r[1] : r \in round.read}
    /\ round' = [round EXCEPT !.read = @ \cup {<<t, topic[t].schedule>>}]
    /\ UNCHANGED <<topic, seen, patches, trouble>>

BadAdvanced(t, schedule) ==
    IF schedule = "manual" \/ topic[t].next = Never THEN NextRun(schedule, round.age)
    ELSE topic[t].next + Interval[schedule]
Advanced(t, schedule) == NextRun(schedule, round.age)

CloseRound ==
    /\ round.phase = "running" /\ round.todo = {} /\ {r[1] : r \in round.read} = round.chosen
    /\ topic' = [t \in ScheduledTopic |->
                   IF t \in round.chosen
                   THEN LET schedule == CHOOSE s \in Schedule : <<t, s>> \in round.read
                        IN [topic[t] EXCEPT !.next = Advanced(t, schedule)]
                   ELSE topic[t]]
    /\ round' = NoRound
    /\ UNCHANGED <<seen, patches, trouble>>

(* The process dies, or an error of the database ends the callback: nothing *)
(* is advanced, whatever was created.                                        *)
RoundDies ==
    /\ round.phase = "running" /\ trouble < MaxTrouble
    /\ trouble' = trouble + 1
    /\ topic' = [t \in ScheduledTopic |-> IF t \in round.chosen THEN [topic[t] EXCEPT !.early = 0]
                                 ELSE topic[t]]
    /\ round' = NoRound
    /\ UNCHANGED <<seen, patches>>

-----------------------------------------------------------------------------
(* Time and batches *)

(* A callback that is still running when the next one is due takes its      *)
(* place (max_instances); one that never starts counts as trouble.           *)
Pass ==
    /\ \E t \in ScheduledTopic : topic[t].next # Never
    /\ IF round = NoRound THEN seen \/ DueRows = {} ELSE round.age < MaxAge
    /\ topic' = [t \in ScheduledTopic |->
                   [topic[t] EXCEPT !.next = IF @ = Never THEN @ ELSE Max({-MaxLate, @ - 1}),
                                    !.early = Max({0, @ - 1})]]
    /\ round' = IF round = NoRound THEN round ELSE [round EXCEPT !.age = @ + 1]
    /\ seen' = (round # NoRound)
    /\ UNCHANGED <<patches, trouble>>

SchedulerDown ==
    /\ round = NoRound /\ ~seen /\ trouble < MaxTrouble
    /\ seen' = TRUE /\ trouble' = trouble + 1
    /\ UNCHANGED <<topic, round, patches>>

(* run_topic and queue_run; then the batch or its analysis ends. *)
RunNow(t) ==
    /\ Runnable(t) /\ patches > 0 /\ patches' = patches - 1
    /\ topic' = [topic EXCEPT ![t].busy = TRUE]
    /\ UNCHANGED <<round, seen, trouble>>

BatchEnds(t) ==
    /\ topic[t].busy
    /\ topic' = [topic EXCEPT ![t].busy = FALSE]
    /\ UNCHANGED <<round, seen, patches, trouble>>

-----------------------------------------------------------------------------

RoundStep ==
    \/ StartRound
    \/ \E t \in ScheduledTopic : ReadSchedule(t) \/ \E busy \in BOOLEAN : RunTopic(t, busy)
    \/ CloseRound

ScheduleStep ==
    \/ RoundStep \/ RoundDies \/ SchedulerDown \/ Pass
    \/ \E t \in ScheduledTopic :
          \/ RunNow(t) \/ BatchEnds(t)
          \/ \E n \in 0 .. MaxQueries : PatchQuery(t, n)
          \/ \E status \in TopicStatus \cup {"unset"}, schedule \in Schedule \cup {"unset"} :
                Patch(t, status, schedule)

(* Nothing has run yet. *)
ScheduleInit ==
    /\ topic \in [ScheduledTopic -> {NewTopic(status, schedule, enabled) :
                                        status \in {"active", "paused"},
                                        schedule \in Schedule, enabled \in 0 .. MaxQueries}]
    /\ round = NoRound /\ seen = FALSE /\ trouble = 0
    /\ patches \in Nat

ScheduleSpec == ScheduleInit /\ [][ScheduleStep]_scheduleVars

(* The callback is called every interval and time goes on. *)
ScheduleFairness == WF_scheduleVars(RoundStep) /\ WF_scheduleVars(Pass)

RoundRow ==
    [phase: {"idle", "running"}, age: Nat, chosen: SUBSET ScheduledTopic,
     todo: SUBSET ScheduledTopic, read: SUBSET (ScheduledTopic \X Schedule)]

ScheduleTypeOK ==
    /\ topic \in [ScheduledTopic -> TopicRow] /\ round \in RoundRow
    /\ seen \in BOOLEAN /\ patches \in Nat /\ trouble \in Nat

-----------------------------------------------------------------------------
(* Properties *)

(* Unless the administrator changed the topic or a callback died, the       *)
(* scheduler never runs a topic twice within its period: a topic long       *)
(* overdue is run once and not in a burst, and a slow callback does not      *)
(* let the next one find the same topic due.                                 *)
OneRunPerPeriod == \A t \in round.todo : topic[t].early = 0

(* The strengthening of it that every step preserves.  Before a topic is run *)
(* it is early for no longer than it is not due; between its batch and the   *)
(* end of the callback exactly the rest of its period, which the end will    *)
(* make its next run, unless an edit meanwhile made it new.                  *)
Served == round.chosen \ round.todo

EarlyIsNotDue ==
    \A t \in ScheduledTopic \ Served :
        topic[t].next # Never => topic[t].early = 0 \/ topic[t].early <= topic[t].next

TodoIsDue == \A t \in round.todo : topic[t].early = 0

ServedIsTimed ==
    \A t \in Served :
        \/ topic[t].early = 0
        \/ /\ topic[t].early = Rest(topic[t].schedule, round.age)
           /\ \A s \in Schedule : <<t, s>> \in round.read => s = topic[t].schedule

RoundInOrder ==
    /\ round.todo \subseteq round.chosen
    /\ \A r \in round.read : r[1] \in Served
    /\ round.todo # {} => round.read = {}

ScheduleInv ==
    ScheduleTypeOK /\ RoundInOrder /\ EarlyIsNotDue /\ TodoIsDue /\ ServedIsTimed

Waiting(t) == IsDue(t) /\ topic[t].enabled > 0

(* Every topic that is due has its turn at last (unless it is changed),     *)
(* though a callback takes a few queries only and other topics fall due      *)
(* again and again.                                                          *)
DueIsServed ==
    \A t \in ScheduledTopic :
        Waiting(t) ~> ~Waiting(t) \/ t \in round.chosen \ round.todo

(* docs/discovery-operations-console.md: pausing prevents future scheduled   *)
(* runs, a tick polls due active topics, and manual topics are the ones that *)
(* have no next run.  So a paused topic with a schedule that is set active   *)
(* again has a time at which it runs.                                        *)
ResumedTopicHasNextRun ==
    [][\A t \in ScheduledTopic :
         /\ topic[t].status = "paused" /\ topic'[t].status = "active"
         /\ topic'[t].schedule # "manual"
         => topic'[t].next # Never]_scheduleVars
=============================================================================
