---------------------------- MODULE Localization ----------------------------
(* The stored translations of signals and opportunities: the triggers and   *)
(* the scheduled reconciliation that ask for them under a Redis lease, the  *)
(* workers that fetch them from the provider outside any transaction, and   *)
(* the reader that shows one only while it fits the canonical text.         *)
(*                                                                          *)
(* A text is a model value and stands for its own hash.  One locale and one *)
(* translation version; the rows of a field are therefore known by its text.*)
EXTENDS Naturals, FiniteSets, Sequences, SequencesExt

CONSTANTS
    Target,        \* signals and opportunities with texts
    Opportunity,   \* the opportunities among them
    Field,         \* the translated fields of an entity
    Text, NoText,  \* canonical texts; the empty value of an optional field
    Task,          \* identities of translation messages
    ScanLimit,     \* targets one reconciliation looks at
    MaxTries,      \* dramatiq retries of a failed message
    MaxFaults      \* bound: faults of a behaviour

ASSUME LocalizationAssumption ==
    /\ Opportunity \subseteq Target /\ Opportunity # {}
    /\ NoText \notin Text
    /\ ScanLimit \in Nat \ {0} /\ MaxTries \in Nat /\ MaxFaults \in Nat

VARIABLES
    entity,   \* [Target -> status and texts of the canonical row]
    recent,   \* the targets, most recently updated first
    row,      \* [Target -> [Field -> [Text -> status of the projection]]]
    lease,    \* the targets whose deduplication key is in Redis
    due,      \* the targets whose lifecycle step has committed, trigger to come
    task,     \* [Task -> message and worker]
    faults,
    left      \* [kind of environment step -> how many are left]

textVars == <<entity, recent>>
localVars == <<row, lease, due, task>>

-----------------------------------------------------------------------------
(* State *)

EntityRow == [status : {"candidate", "review", "open", "active", "closed"},
              text : [Field -> Text \cup {NoText}]]

TaskRow ==
    [phase : {"none", "queued", "calling", "saving"},
     target : Target, tries : Nat, force : BOOLEAN,
     covered : BOOLEAN,      \* enqueued under a lease that has not expired
     read : [Field -> Text \cup {NoText}],
     pending : SUBSET Field,
     superseded : SUBSET (Field \X Text)]

NoTask == [phase |-> "none", target |-> CHOOSE t \in Target : TRUE, tries |-> 0,
           force |-> FALSE, covered |-> FALSE, read |-> [f \in Field |-> NoText],
           pending |-> {}, superseded |-> {}]

Message(t, force, covered) ==
    [NoTask EXCEPT !.phase = "queued", !.target = t, !.force = force, !.covered = covered]

(* An opportunity counts while its activation review is open or it is       *)
(* active, a signal while it is in review or active.                        *)
Eligible(t) == entity[t].status \in {"review", "open", "active"}

Canonical(t) == {f \in Field : entity[t].text[f] # NoText}

Shown(t, f) == f \in Canonical(t) /\ row[t][f][entity[t].text[f]] = "current"

Complete(t) == \A f \in Canonical(t) : Shown(t, f)

(* One scan: the eligible signals and opportunities, newest first, taken in *)
(* turn and cut at the limit.                                               *)
Scan ==
    LET signals == SelectSeq(recent, LAMBDA t : Eligible(t) /\ t \notin Opportunity)
        opportunities == SelectSeq(recent, LAMBDA t : Eligible(t) /\ t \in Opportunity)
        place(t) == IF t \in Opportunity
                    THEN LET i == CHOOSE i \in DOMAIN opportunities : opportunities[i] = t
                         IN i + (IF i < Len(signals) THEN i ELSE Len(signals))
                    ELSE LET i == CHOOSE i \in DOMAIN signals : signals[i] = t
                         IN i + (IF i - 1 < Len(opportunities) THEN i - 1
                                 ELSE Len(opportunities))
    IN {t \in Target : Eligible(t) /\ place(t) <= ScanLimit}

Idle(c) == task[c].phase = "none"
Free(c) == c = CHOOSE d \in Task : Idle(d)

-----------------------------------------------------------------------------
(* The life of the entities: other components write these rows. *)

Touch(t) == <<t>> \o SelectSeq(recent, LAMBDA s : s # t)

Following(status) ==
    CASE status = "candidate" -> {"open"}
      [] status \in {"review", "open"} -> {"active", "closed"}
      [] OTHER -> {"closed"}

(* A lifecycle step commits; the trigger comes after the commit. *)
Advance(t, status) ==
    /\ left.advance > 0
    /\ status \in Following(entity[t].status)
    /\ entity[t].status # "closed"
    /\ entity' = [entity EXCEPT ![t].status = status]
    /\ recent' = IF status = "open" THEN recent ELSE Touch(t)
    /\ due' = IF status = "closed" THEN due ELSE due \cup {t}
    /\ left' = [left EXCEPT !.advance = @ - 1]
    /\ UNCHANGED <<row, lease, task, faults>>

(* CandidateWorkspaceService.edit: no trigger follows it. *)
Edit(t, f, text) ==
    /\ left.edit > 0
    /\ t \in Opportunity /\ entity[t].status \in {"candidate", "open"}
    /\ text # entity[t].text[f]
    /\ entity' = [entity EXCEPT ![t].text[f] = text]
    /\ recent' = Touch(t)
    /\ left' = [left EXCEPT !.edit = @ - 1]
    /\ UNCHANGED <<localVars, faults>>

-----------------------------------------------------------------------------
(* Asking for a translation *)

Required(t) == Eligible(t) /\ ~Complete(t) /\ t \notin lease

(* enqueue_unique: the key is set first, then the message is sent. *)
Ask(t) ==
    IF Required(t)
    THEN \E c \in Task : /\ Idle(c) /\ Free(c)
                         /\ task' = [task EXCEPT ![c] = Message(t, FALSE, TRUE)]
                         /\ lease' = lease \cup {t}
    ELSE UNCHANGED <<task, lease>>

Trigger(t) ==
    /\ t \in due
    /\ Ask(t)
    /\ due' = due \ {t}
    /\ UNCHANGED <<textVars, row, faults, left>>

(* Redis refuses the message: the key is deleted only by the caller who     *)
(* has just set it, so a key found set stays.                               *)
BadKeyAfterRefusal(t) == lease \ {t}
KeyAfterRefusal(t) == lease

(* The trigger does not get through: Redis is down or refuses the message   *)
(* (the error is swallowed), or the process dies before, or between key and *)
(* message.                                                                 *)
TriggerLost(t) ==
    /\ t \in due /\ faults < MaxFaults
    /\ due' = due \ {t}
    /\ \/ lease' = KeyAfterRefusal(t)
       \/ Required(t) /\ lease' = lease \cup {t}
    /\ faults' = faults + 1
    /\ UNCHANGED <<textVars, row, task, left>>

Reconcile(t) ==
    /\ t \in Scan /\ Required(t)
    /\ Ask(t)
    /\ UNCHANGED <<textVars, row, due, faults, left>>

(* The admin's or the operator's own request, which knows no lease. *)
AskDirectly(t, force) ==
    /\ left.direct > 0
    /\ \E c \in Task : Idle(c) /\ Free(c) /\ task' = [task EXCEPT ![c] = Message(t, force, FALSE)]
    /\ left' = [left EXCEPT !.direct = @ - 1]
    /\ UNCHANGED <<textVars, row, lease, due, faults>>

(* The key lives for 900 seconds, whatever became of the message. *)
LeaseExpires(t) ==
    /\ t \in lease
    /\ lease' = lease \ {t}
    /\ task' = [c \in Task |-> IF task[c].target = t
                               THEN [task[c] EXCEPT !.covered = FALSE] ELSE task[c]]
    /\ UNCHANGED <<textVars, row, due, faults, left>>

-----------------------------------------------------------------------------
(* translate_entity *)

(* _load_canonical looks again at a signal, not at an opportunity. *)
Readable(t) ==
    IF t \in Opportunity \/ Eligible(t) THEN entity[t].text ELSE [f \in Field |-> NoText]

BadPlan(text, t, force) ==
    {f \in Field : text[f] # NoText /\ (force \/ \A x \in Text : row[t][f][x] # "current")}
Plan(text, t, force) ==
    {f \in Field : text[f] # NoText /\ (force \/ row[t][f][text[f]] # "current")}

Load(c) ==
    /\ task[c].phase = "queued"
    /\ LET t == task[c].target
           text == Readable(t)
           pending == Plan(text, t, task[c].force)
       IN task' = [task EXCEPT ![c] =
                     IF pending = {} THEN NoTask
                     ELSE [task[c] EXCEPT !.phase = "calling", !.read = text, !.pending = pending]]
    /\ UNCHANGED <<textVars, row, lease, due, faults, left>>

(* The rows of the other texts that _persist sees and will mark stale. *)
Superseded(t, text, pending) ==
    {p \in pending \X Text : p[2] # text[p[1]] /\ row[t][p[1]][p[2]] = "current"}

(* The provider has answered every field; the UPDATEs of _persist have run. *)
Answer(c) ==
    /\ task[c].phase = "calling"
    /\ task' = [task EXCEPT ![c].phase = "saving",
                            ![c].superseded = Superseded(task[c].target, task[c].read, task[c].pending)]
    /\ UNCHANGED <<textVars, row, lease, due, faults, left>>

BadProjected(j) ==
    [f \in Field |-> [x \in Text |->
        IF f \in j.pending /\ row[j.target][f][x] = "current" THEN "stale"
        ELSE IF f \in j.pending /\ x = j.read[f] THEN "current"
        ELSE row[j.target][f][x]]]
Projected(j) ==
    [f \in Field |-> [x \in Text |->
        IF f \in j.pending /\ x = j.read[f] THEN "current"
        ELSE IF <<f, x>> \in j.superseded THEN "stale"
        ELSE row[j.target][f][x]]]

(* The upserts and the commit. *)
Save(c) ==
    /\ task[c].phase = "saving"
    /\ row' = [row EXCEPT ![task[c].target] = Projected(task[c])]
    /\ task' = [task EXCEPT ![c] = NoTask]
    /\ UNCHANGED <<textVars, lease, due, faults, left>>

(* A provider error, an invalid answer or a dead worker: the message is     *)
(* delivered again until its retries are used up.                           *)
TaskFails(c) ==
    /\ task[c].phase \in {"calling", "saving"} /\ faults < MaxFaults
    /\ LET j == task[c]
           again == [Message(j.target, j.force, j.covered) EXCEPT !.tries = j.tries + 1]
       IN task' = [task EXCEPT ![c] = IF j.tries < MaxTries THEN again ELSE NoTask]
    /\ faults' = faults + 1
    /\ UNCHANGED <<textVars, row, lease, due, left>>

-----------------------------------------------------------------------------
LocalizationStep ==
    \/ \E t \in Target :
          \/ \E s \in {"open", "active", "closed"} : Advance(t, s)
          \/ \E f \in Field, x \in Text \cup {NoText} : Edit(t, f, x)
          \/ Trigger(t) \/ TriggerLost(t) \/ Reconcile(t) \/ LeaseExpires(t)
          \/ \E force \in BOOLEAN : AskDirectly(t, force)
    \/ \E c \in Task : Load(c) \/ Answer(c) \/ Save(c) \/ TaskFails(c)

-----------------------------------------------------------------------------
(* Properties *)

LocalizationTypeOK ==
    /\ entity \in [Target -> EntityRow]
    /\ recent \in [1 .. Cardinality(Target) -> Target]
    /\ row \in [Target -> [Field -> [Text -> {"none", "current", "stale"}]]]
    /\ lease \subseteq Target /\ due \subseteq Target
    /\ task \in [Task -> TaskRow]
    /\ faults \in Nat

(* "A Redis SET NX lease ... suppresses simultaneous active jobs for 15      *)
(* minutes": of the messages that triggers and reconciliation sent for a     *)
(* target, at most one was sent under the lease that is still running,       *)
(* whatever was lost, refused or delivered again in between.                 *)
OneTaskPerLease ==
    \A t \in Target : Cardinality({c \in Task : task[c].target = t /\ task[c].covered}) <= 1

(* A reader who saw a translation keeps seeing it until the canonical text   *)
(* is edited, unless a worker that read an older text saves after the edit:  *)
(* no failure, second delivery, forced or concurrent translation of the text *)
(* as it is takes it away.                                                   *)
ShownUntilEdited ==
    [][\A t \in Target, f \in Field :
          Shown(t, f) /\ entity'[t].text[f] = entity[t].text[f] /\ ~Shown(t, f)'
             => \E c \in Task : /\ task[c].phase = "saving" /\ task'[c].phase = "none"
                                /\ task[c].target = t /\ task[c].read[f] # entity[t].text[f]]_<<entity, row>>

(* "Reconciliation repairs missed best-effort enqueue events": a target that *)
(* stays eligible and within the scan is translated for good, in spite of    *)
(* lost triggers, keys without a message, exhausted retries and workers that *)
(* save an older text.                                                       *)
RepairedByReconciliation ==
    \A t \in Target : <>[](t \in Scan) => <>[]Complete(t)
=============================================================================
