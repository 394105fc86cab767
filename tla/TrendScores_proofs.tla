------------------------- MODULE TrendScores_proofs -------------------------
(***************************************************************************)
(* Proofs about what derives from an opportunity, for any number of targets,*)
(* texts, messages, cases, calculations and faults: one message per lease,  *)
(* one provider call per case, what has ended stays, what a reader saw      *)
(* stays until the text is edited, no signal is counted twice, and every    *)
(* score is a percentage.                                                   *)
(***************************************************************************)
EXTENDS TrendScores, FiniteSetTheorems, WellFoundedInduction, NaturalsInduction, TLAPS

(* Translations *)

LocalTypeOK ==
    /\ entity \in [Target -> EntityRow]
    /\ row \in [Target -> [Field -> [Text -> {"none", "current", "stale"}]]]
    /\ lease \subseteq Target /\ due \subseteq Target
    /\ task \in [Task -> TaskRow]

(* A message that counts against a lease has it, and no other one does. *)
Leased == \A c \in Task : task[c].covered => task[c].target \in lease

Single ==
    \A c, d \in Task :
        task[c].covered /\ task[d].covered /\ task[c].target = task[d].target => c = d

(* What a worker marks stale belongs to a field that it also translates. *)
Marked(j) == j.phase = "saving" => \A p \in j.superseded : p[1] \in j.pending

LocalInv == LocalTypeOK /\ Leased /\ Single /\ \A c \in Task : Marked(task[c])

(* ShownUntilEdited without its box. *)
ShownKept ==
    \A t \in Target, f \in Field :
        Shown(t, f) /\ entity'[t].text[f] = entity[t].text[f] /\ ~Shown(t, f)'
          => \E c \in Task : /\ task[c].phase = "saving" /\ task'[c].phase = "none"
                             /\ task[c].target = t /\ task[c].read[f] # entity[t].text[f]

(* Business cases *)

Paid(c) ==
    /\ c.calls <= 1
    /\ c.status = "queued" => c.calls = 0
    /\ c.approved => c.status = "completed"

CaseInv ==
    /\ evidence \in [Opportunity -> SUBSET Signal]
    /\ cases \in [Opportunity -> Seq(CaseRow)]
    /\ delivery \in [Delivery -> DeliveryRow]
    /\ \A o \in Opportunity :
          /\ Len(cases[o]) <= MaxCases
          /\ \A v \in Version(o) : Paid(cases[o][v])
          /\ InWork(o) \subseteq {Len(cases[o])}
    /\ \A d \in Delivery : delivery[d].phase # "none" => delivery[d].version \in Version(delivery[d].opp)

(* EndedCaseStays without its box. *)
EndedKept ==
    \A o \in Opportunity : \A v \in Version(o) :
        cases[o][v].status \in {"completed", "failed"}
          => /\ cases'[o][v].status = cases[o][v].status
             /\ cases'[o][v].input = cases[o][v].input
             /\ cases'[o][v].approved => cases[o][v].status = "completed"

(* Trends *)

(* A row counts signals of its window only, and compares itself with those  *)
(* of the window before.                                                    *)
Honest(r) ==
    /\ r.from \in Int /\ r.to \in Int
    /\ r.counted \subseteq Within(Signal, r.from, r.to)
    /\ r.before \subseteq Within(Signal, r.from - (r.to - r.from), r.from)

Aggregating(k) == calc[k].phase \in {"counted", "insert", "update"}

AggregationOK(j) ==
    /\ j = [phase |-> j.phase, opp |-> j.opp, window |-> j.window, trend |-> j.trend]
    /\ Honest(j.trend)

TrendInv ==
    /\ now \in Nat
    /\ snapshot = [o \in Opportunity |-> snapshot[o]]
    /\ \A o \in Opportunity : \A r \in snapshot[o] : Honest(r)
    /\ calc = [k \in Calculation |-> calc[k]]
    /\ \A k \in Calculation : Aggregating(k) => AggregationOK(calc[k])

IInv == LocalInv /\ CaseInv /\ TrendInv

Kept == IInv' /\ ShownKept /\ EndedKept

-----------------------------------------------------------------------------
(* Translations: one step *)

LEMMA NoTaskType == NoTask \in TaskRow /\ ~NoTask.covered /\ NoTask.phase = "none"
  <1>1. (CHOOSE t \in Target : TRUE) \in Target
    BY LocalizationAssumption
  <1> QED BY <1>1 DEF NoTask, TaskRow

LEMMA MessageType ==
    ASSUME NEW t \in Target, NEW force \in BOOLEAN, NEW covered \in BOOLEAN
    PROVE  LET j == Message(t, force, covered)
           IN j \in TaskRow /\ j.phase = "queued" /\ j.target = t /\ j.covered = covered
  <1>1. NoTask \in TaskRow
    BY NoTaskType
  <1> QED BY <1>1 DEF Message, TaskRow

(* While the rows of translations stay, only an edit takes one from sight. *)
LEMMA RowsStay ==
    ASSUME UNCHANGED row
    PROVE  ShownKept
  BY DEF ShownKept, Shown, Canonical

LEMMA CasesStay ==
    ASSUME CaseInv, UNCHANGED caseVars
    PROVE  CaseInv' /\ EndedKept
  <1>1. CaseInv'
    BY DEF CaseInv, caseVars, Version, InWork, Paid
  <1>2. EndedKept
    BY DEF CaseInv, Paid, EndedKept, caseVars, Version
  <1> QED BY <1>1, <1>2

LEMMA TrendsStay ==
    ASSUME TrendInv, UNCHANGED <<now, snapshot, calc>>
    PROVE  TrendInv'
  BY DEF TrendInv, Aggregating

LEMMA LocalStays ==
    ASSUME LocalInv, UNCHANGED <<entity, row, lease, due, task>>
    PROVE  LocalInv'
  BY DEF LocalInv, LocalTypeOK, Leased, Single

(* Steps of the entities leave the messages alone. *)
LEMMA EntityStep ==
    ASSUME LocalInv, entity' \in [Target -> EntityRow], due' \subseteq Target,
           UNCHANGED <<row, lease, task>>
    PROVE  LocalInv' /\ ShownKept
  <1>1. LocalInv'
    BY DEF LocalInv, LocalTypeOK, Leased, Single
  <1> QED BY <1>1, RowsStay

(* One message changes; when it counts against a lease, it is the only one. *)
LEMMA OneTask ==
    ASSUME LocalInv, NEW c \in Task, NEW j \in TaskRow, task' = [task EXCEPT ![c] = j],
           UNCHANGED entity, due' \subseteq Target,
           row' \in [Target -> [Field -> [Text -> {"none", "current", "stale"}]]],
           lease \subseteq lease', lease' \subseteq Target, Marked(j),
           j.covered => /\ j.target \in lease'
                        /\ \A d \in Task \ {c} : task[d].covered => task[d].target # j.target
    PROVE  LocalInv'
  <1>1. /\ task' \in [Task -> TaskRow] /\ task'[c] = j
        /\ \A d \in Task \ {c} : task'[d] = task[d]
    BY DEF LocalInv, LocalTypeOK
  <1>2. LocalTypeOK'
    BY <1>1 DEF LocalInv, LocalTypeOK
  <1>3. Leased'
    BY <1>1 DEF LocalInv, Leased
  <1>4. Single'
    BY <1>1 DEF LocalInv, Single
  <1>5. \A d \in Task : Marked(task'[d])
    BY <1>1 DEF LocalInv
  <1> QED BY <1>2, <1>3, <1>4, <1>5 DEF LocalInv

(* A message that goes on about its target, under the lease it had. *)
LEMMA SameTarget ==
    ASSUME LocalInv, NEW c \in Task, NEW j \in TaskRow, task' = [task EXCEPT ![c] = j],
           UNCHANGED <<entity, row, lease, due>>, Marked(j),
           j.covered => task[c].covered /\ j.target = task[c].target
    PROVE  LocalInv' /\ ShownKept
  <1>1. j.covered => /\ j.target \in lease
                     /\ \A d \in Task \ {c} : task[d].covered => task[d].target # j.target
    BY DEF LocalInv, Leased, Single
  <1>2. /\ lease \subseteq lease' /\ lease' \subseteq Target /\ due' \subseteq Target
        /\ row' \in [Target -> [Field -> [Text -> {"none", "current", "stale"}]]]
    BY DEF LocalInv, LocalTypeOK
  <1>3. j.covered => /\ j.target \in lease'
                     /\ \A d \in Task \ {c} : task[d].covered => task[d].target # j.target
    BY <1>1
  <1>4. LocalInv'
    BY <1>2, <1>3, OneTask
  <1> QED BY <1>4, RowsStay

-----------------------------------------------------------------------------
(* Translations: the actions *)

LEMMA AdvanceHolds ==
    ASSUME LocalInv, NEW t \in Target, NEW s \in {"open", "active", "closed"}, Advance(t, s)
    PROVE  LocalInv' /\ ShownKept
  <1>1. entity' \in [Target -> EntityRow]
    BY DEF Advance, LocalInv, LocalTypeOK, EntityRow
  <1>2. due' \subseteq Target /\ UNCHANGED <<row, lease, task>>
    BY DEF Advance, LocalInv, LocalTypeOK
  <1> QED BY <1>1, <1>2, EntityStep

LEMMA TextType ==
    ASSUME LocalInv, NEW t \in Target, NEW f \in Field, NEW x \in Text \cup {NoText}
    PROVE  [entity EXCEPT ![t].text[f] = x] \in [Target -> EntityRow]
  BY DEF LocalInv, LocalTypeOK, EntityRow

LEMMA EditHolds ==
    ASSUME LocalInv, NEW t \in Target, NEW f \in Field, NEW x \in Text \cup {NoText}, Edit(t, f, x)
    PROVE  LocalInv' /\ ShownKept
  <1>1. entity' \in [Target -> EntityRow]
    BY TextType DEF Edit
  <1>2. due' \subseteq Target /\ UNCHANGED <<row, lease, task>>
    BY DEF Edit, localVars, LocalInv, LocalTypeOK
  <1> QED BY <1>1, <1>2, EntityStep

(* A message is sent under a lease only when nobody holds the lease. *)
LEMMA AskHolds ==
    ASSUME LocalInv, NEW t \in Target, Ask(t), due' \subseteq Target, UNCHANGED <<entity, row>>
    PROVE  LocalInv' /\ ShownKept
  <1>1. CASE Required(t)
    <2>1. PICK c \in Task : /\ task' = [task EXCEPT ![c] = Message(t, FALSE, TRUE)]
                            /\ lease' = lease \cup {t}
      BY <1>1 DEF Ask
    <2> DEFINE j == Message(t, FALSE, TRUE)
    <2>2. j \in TaskRow /\ j.phase = "queued" /\ j.target = t
      BY MessageType
    <2>3. \A d \in Task : task[d].covered => task[d].target # t
      BY <1>1 DEF Required, LocalInv, Leased
    <2>4. /\ lease \subseteq lease' /\ lease' \subseteq Target
          /\ row' \in [Target -> [Field -> [Text -> {"none", "current", "stale"}]]]
      BY <2>1 DEF LocalInv, LocalTypeOK
    <2>5. Marked(j)
      BY <2>2 DEF Marked
    <2>6. j.target \in lease' /\ \A d \in Task \ {c} : task[d].covered => task[d].target # j.target
      BY <2>1, <2>2, <2>3
    <2>7. task' = [task EXCEPT ![c] = j]
      BY <2>1
    <2> HIDE DEF j
    <2>8. LocalInv'
      BY <2>2, <2>4, <2>5, <2>6, <2>7, OneTask
    <2> QED BY <2>8, RowsStay
  <1>2. CASE ~Required(t)
    <2>1. UNCHANGED <<task, lease>>
      BY <1>2 DEF Ask
    <2>2. entity' \in [Target -> EntityRow]
      BY DEF LocalInv, LocalTypeOK
    <2> QED BY <2>1, <2>2, EntityStep
  <1> QED BY <1>1, <1>2

LEMMA TriggerHolds ==
    ASSUME LocalInv, NEW t \in Target, Trigger(t)
    PROVE  LocalInv' /\ ShownKept
  <1>1. Ask(t) /\ due' \subseteq Target /\ UNCHANGED <<entity, row>>
    BY DEF Trigger, textVars, LocalInv, LocalTypeOK
  <1> QED BY <1>1, AskHolds

LEMMA ReconcileHolds ==
    ASSUME LocalInv, NEW t \in Target, Reconcile(t)
    PROVE  LocalInv' /\ ShownKept
  <1>1. Ask(t) /\ due' \subseteq Target /\ UNCHANGED <<entity, row>>
    BY DEF Reconcile, textVars, LocalInv, LocalTypeOK
  <1> QED BY <1>1, AskHolds

(* A key without a message is a lease that nothing counts against. *)
LEMMA TriggerLostHolds ==
    ASSUME LocalInv, NEW t \in Target, TriggerLost(t)
    PROVE  LocalInv' /\ ShownKept
  <1>1. /\ lease \subseteq lease' /\ lease' \subseteq Target /\ due' \subseteq Target
        /\ UNCHANGED <<entity, row, task>>
    BY DEF TriggerLost, KeyAfterRefusal, textVars, LocalInv, LocalTypeOK
  <1>2. LocalInv'
    BY <1>1 DEF LocalInv, LocalTypeOK, Leased, Single
  <1> QED BY <1>1, <1>2, RowsStay

LEMMA AskDirectlyHolds ==
    ASSUME LocalInv, NEW t \in Target, NEW force \in BOOLEAN, AskDirectly(t, force)
    PROVE  LocalInv' /\ ShownKept
  <1>1. PICK c \in Task : task' = [task EXCEPT ![c] = Message(t, force, FALSE)]
    BY DEF AskDirectly
  <1> DEFINE j == Message(t, force, FALSE)
  <1>2. j \in TaskRow /\ j.phase = "queued" /\ ~j.covered
    BY MessageType
  <1>3. Marked(j)
    BY <1>2 DEF Marked
  <1>4. task' = [task EXCEPT ![c] = j] /\ UNCHANGED <<entity, row, lease, due>>
    BY <1>1 DEF AskDirectly, textVars
  <1> HIDE DEF j
  <1> QED BY <1>2, <1>3, <1>4, SameTarget

(* When the key runs out, nothing counts against it any more. *)
LEMMA LeaseExpiresHolds ==
    ASSUME LocalInv, NEW t \in Target, LeaseExpires(t)
    PROVE  LocalInv' /\ ShownKept
  <1>1. /\ UNCHANGED <<entity, row, due>> /\ lease' = lease \ {t}
        /\ task' = [c \in Task |-> IF task[c].target = t
                                   THEN [task[c] EXCEPT !.covered = FALSE] ELSE task[c]]
    BY DEF LeaseExpires, textVars
  <1>2. ASSUME NEW c \in Task
        PROVE  /\ task'[c] \in TaskRow
               /\ task'[c].target = task[c].target /\ task'[c].phase = task[c].phase
               /\ task'[c].superseded = task[c].superseded /\ task'[c].pending = task[c].pending
               /\ task'[c].covered => task[c].covered /\ task[c].target # t
    <2>1. task[c] \in TaskRow
      BY DEF LocalInv, LocalTypeOK
    <2>2. CASE task[c].target = t
      <3>1. task'[c] = [task[c] EXCEPT !.covered = FALSE]
        BY <1>1, <2>2
      <3> QED BY <3>1, <2>1 DEF TaskRow
    <2>3. CASE task[c].target # t
      <3>1. task'[c] = task[c]
        BY <1>1, <2>3
      <3> QED BY <3>1, <2>1, <2>3
    <2> QED BY <2>2, <2>3
  <1>3. LocalTypeOK'
    <2>1. task' \in [Task -> TaskRow]
      BY <1>1, <1>2
    <2> QED BY <1>1, <2>1 DEF LocalInv, LocalTypeOK
  <1>4. Leased' /\ Single'
    BY <1>1, <1>2 DEF LocalInv, Leased, Single
  <1>5. \A c \in Task : Marked(task'[c])
    BY <1>2 DEF LocalInv, Marked
  <1>6. LocalInv'
    BY <1>3, <1>4, <1>5 DEF LocalInv
  <1> QED BY <1>1, <1>6, RowsStay

LEMMA LoadHolds ==
    ASSUME LocalInv, NEW c \in Task, Load(c)
    PROVE  LocalInv' /\ ShownKept
  <1> DEFINE t == task[c].target
             text == Readable(t)
             pending == Plan(text, t, task[c].force)
             going == [task[c] EXCEPT !.phase = "calling", !.read = text, !.pending = pending]
             j == IF pending = {} THEN NoTask ELSE going
  <1>1. task' = [task EXCEPT ![c] = j] /\ UNCHANGED <<entity, row, lease, due>>
    BY DEF Load, textVars
  <1>2. task[c] \in TaskRow /\ t \in Target
    BY DEF LocalInv, LocalTypeOK, TaskRow
  <1>3. text \in [Field -> Text \cup {NoText}]
    BY <1>2 DEF Readable, LocalInv, LocalTypeOK, EntityRow
  <1>4. pending \in SUBSET Field
    BY DEF Plan
  <1>5. /\ going \in TaskRow /\ going.phase = "calling"
        /\ going.covered = task[c].covered /\ going.target = task[c].target
    BY <1>2, <1>3, <1>4 DEF TaskRow
  <1>6. /\ j \in TaskRow /\ j.phase # "saving"
        /\ j.covered => task[c].covered /\ j.target = task[c].target
    BY <1>5, NoTaskType
  <1>7. Marked(j)
    BY <1>6 DEF Marked
  <1> HIDE DEF j
  <1> QED BY <1>1, <1>6, <1>7, SameTarget

LEMMA AnswerHolds ==
    ASSUME LocalInv, NEW c \in Task, Answer(c)
    PROVE  LocalInv' /\ ShownKept
  <1> DEFINE old == Superseded(task[c].target, task[c].read, task[c].pending)
             j == [task[c] EXCEPT !.phase = "saving", !.superseded = old]
  <1>1. task' = [task EXCEPT ![c] = j] /\ UNCHANGED <<entity, row, lease, due>>
    BY DEF Answer, textVars, LocalInv, LocalTypeOK
  <1>2. task[c] \in TaskRow
    BY DEF LocalInv, LocalTypeOK
  <1>3. old \subseteq task[c].pending \X Text
    BY DEF Superseded
  <1>4. old \in SUBSET (Field \X Text)
    BY <1>2, <1>3 DEF TaskRow
  <1> HIDE DEF old
  <1>5. /\ j \in TaskRow /\ j.covered = task[c].covered /\ j.target = task[c].target
        /\ j.superseded = old /\ j.pending = task[c].pending
    BY <1>2, <1>4 DEF TaskRow
  <1>6. Marked(j)
    BY <1>3, <1>5 DEF Marked
  <1> HIDE DEF j
  <1> QED BY <1>1, <1>5, <1>6, SameTarget

(* What is shown and disappears was overtaken: the worker has read another   *)
(* text of the field.                                                       *)
LEMMA SaveHolds ==
    ASSUME LocalInv, NEW c \in Task, Save(c)
    PROVE  LocalInv' /\ ShownKept
  <1> DEFINE u == task[c].target
  <1>1. /\ task[c].phase = "saving" /\ UNCHANGED <<entity, lease, due>>
        /\ row' = [row EXCEPT ![u] = Projected(task[c])]
        /\ task' = [task EXCEPT ![c] = NoTask]
    BY DEF Save, textVars
  <1>2. task[c] \in TaskRow /\ u \in Target
    BY DEF LocalInv, LocalTypeOK, TaskRow
  <1>3. Projected(task[c]) \in [Field -> [Text -> {"none", "current", "stale"}]]
    <2>1. \A f \in Field, x \in Text : row[u][f][x] \in {"none", "current", "stale"}
      BY <1>2 DEF LocalInv, LocalTypeOK
    <2> QED BY <2>1 DEF Projected
  <1>4. row' \in [Target -> [Field -> [Text -> {"none", "current", "stale"}]]]
    BY <1>1, <1>2, <1>3 DEF LocalInv, LocalTypeOK
  <1>5. Marked(NoTask)
    BY NoTaskType DEF Marked
  <1>6. LocalInv'
    <2>1. lease \subseteq lease' /\ lease' \subseteq Target /\ due' \subseteq Target
      BY <1>1 DEF LocalInv, LocalTypeOK
    <2>2. UNCHANGED entity
      BY <1>1
    <2> QED BY <1>1, <1>4, <1>5, <2>1, <2>2, NoTaskType, OneTask
  <1>7. ASSUME NEW t \in Target, NEW f \in Field, Shown(t, f),
               entity'[t].text[f] = entity[t].text[f], ~Shown(t, f)'
        PROVE  t = u /\ task[c].read[f] # entity[t].text[f]
    <2> DEFINE x == entity[t].text[f]
    <2>1. x \in Text /\ row[t][f][x] = "current"
      BY <1>7 DEF Shown, Canonical, LocalInv, LocalTypeOK, EntityRow
    <2>2. row'[t][f][x] # "current"
      BY <1>1, <1>7, <2>1 DEF Shown, Canonical
    <2>3. t = u
      BY <1>1, <1>2, <2>1, <2>2 DEF LocalInv, LocalTypeOK
    <2>4. row'[t][f][x] = Projected(task[c])[f][x]
      BY <1>1, <1>2, <2>3 DEF LocalInv, LocalTypeOK
    <2>5. Projected(task[c])[f][x] = IF f \in task[c].pending /\ x = task[c].read[f] THEN "current"
                                     ELSE IF <<f, x>> \in task[c].superseded THEN "stale"
                                     ELSE row[u][f][x]
      BY <2>1 DEF Projected
    <2>6. <<f, x>> \in task[c].superseded /\ ~(f \in task[c].pending /\ x = task[c].read[f])
      BY <2>1, <2>2, <2>3, <2>4, <2>5
    <2>7. f \in task[c].pending
      BY <1>1, <2>6 DEF LocalInv, Marked
    <2> QED BY <2>3, <2>6, <2>7
  <1>8. task'[c].phase = "none"
    BY <1>1, NoTaskType DEF LocalInv, LocalTypeOK
  <1>9. ShownKept
    BY <1>1, <1>7, <1>8 DEF ShownKept
  <1> QED BY <1>6, <1>9

LEMMA TaskFailsHolds ==
    ASSUME LocalInv, NEW c \in Task, TaskFails(c)
    PROVE  LocalInv' /\ ShownKept
  <1> DEFINE old == task[c]
             message == Message(old.target, old.force, old.covered)
             again == [message EXCEPT !.tries = old.tries + 1]
             j == IF old.tries < MaxTries THEN again ELSE NoTask
  <1>1. task' = [task EXCEPT ![c] = j] /\ UNCHANGED <<entity, row, lease, due>>
    BY DEF TaskFails, textVars
  <1>2. old \in TaskRow
    BY DEF LocalInv, LocalTypeOK
  <1>3. old.target \in Target /\ old.force \in BOOLEAN /\ old.covered \in BOOLEAN /\ old.tries \in Nat
    BY <1>2 DEF TaskRow
  <1>4. /\ message \in TaskRow /\ message.phase = "queued" /\ message.target = old.target
        /\ message.covered = old.covered
    BY <1>3, MessageType
  <1> HIDE DEF message
  <1>5. /\ again \in TaskRow /\ again.phase = "queued" /\ again.target = old.target
        /\ again.covered = old.covered
    BY <1>3, <1>4 DEF TaskRow
  <1> HIDE DEF again
  <1>6. /\ j \in TaskRow /\ j.phase # "saving"
        /\ j.covered => task[c].covered /\ j.target = task[c].target
    BY <1>5, NoTaskType
  <1>7. Marked(j)
    BY <1>6 DEF Marked
  <1> HIDE DEF j
  <1> QED BY <1>1, <1>6, <1>7, SameTarget

LEMMA LocalizationHolds ==
    ASSUME IInv, LocalizationStep, UNCHANGED <<caseVars, trendVars>>
    PROVE  Kept
  <1>1. LocalInv' /\ ShownKept
    BY AdvanceHolds, EditHolds, TriggerHolds, TriggerLostHolds, ReconcileHolds, LeaseExpiresHolds,
       AskDirectlyHolds, LoadHolds, AnswerHolds, SaveHolds, TaskFailsHolds
       DEF IInv, LocalizationStep
  <1>2. CaseInv' /\ EndedKept
    BY CasesStay DEF IInv
  <1>3. TrendInv'
    BY TrendsStay DEF IInv, trendVars
  <1> QED BY <1>1, <1>2, <1>3 DEF IInv, Kept

-----------------------------------------------------------------------------
(* Business cases: one row *)

LEMMA RowsOf ==
    ASSUME CaseInv, NEW o \in Opportunity
    PROVE  /\ cases[o] \in Seq(CaseRow) /\ Len(cases[o]) \in Nat
           /\ Version(o) = 1 .. Len(cases[o])
           /\ \A v \in Version(o) : cases[o][v] \in CaseRow
  BY DEF CaseInv, Version

LEMMA BundleType ==
    ASSUME LocalInv, CaseInv, NEW o \in Opportunity
    PROVE  Bundle(o) \in CaseInput
  BY LocalizationAssumption DEF Bundle, CaseInput, LocalInv, LocalTypeOK, EntityRow, CaseInv

(* A row that is in work, or stays out of it, is written; the messages go on *)
(* about versions that exist.                                               *)
LEMMA OneRow ==
    ASSUME CaseInv, NEW o \in Opportunity, NEW v \in Version(o), NEW c \in CaseRow,
           cases' = [cases EXCEPT ![o][v] = c], Paid(c),
           c.status \in {"queued", "running"} => cases[o][v].status \in {"queued", "running"},
           UNCHANGED evidence, delivery' \in [Delivery -> DeliveryRow],
           \A d \in Delivery : delivery'[d].phase # "none" =>
               /\ delivery[d].phase # "none"
               /\ delivery'[d].opp = delivery[d].opp
               /\ delivery'[d].version = delivery[d].version
    PROVE  CaseInv'
  <1>1. /\ cases[o] \in Seq(CaseRow) /\ Version(o) = 1 .. Len(cases[o])
        /\ Len(cases[o]) \in Nat
    BY RowsOf
  <1> DEFINE rows == [cases[o] EXCEPT ![v] = c]
  <1>2. /\ rows \in Seq(CaseRow) /\ Len(rows) = Len(cases[o]) /\ DOMAIN rows = DOMAIN cases[o]
        /\ rows[v] = c /\ \A u \in DOMAIN rows : u # v => rows[u] = cases[o][u]
    BY <1>1 DEF Version
  <1> HIDE DEF rows
  <1>3. /\ cases' \in [Opportunity -> Seq(CaseRow)] /\ cases'[o] = rows
        /\ \A p \in Opportunity \ {o} : cases'[p] = cases[p]
    BY <1>2 DEF CaseInv, rows
  <1>4. ASSUME NEW p \in Opportunity
        PROVE  /\ Len(cases'[p]) = Len(cases[p]) /\ Version(p)' = Version(p)
               /\ \A u \in Version(p) : Paid(cases'[p][u])
               /\ \A u \in Version(p) : cases'[p][u].status \in {"queued", "running"} =>
                                           cases[p][u].status \in {"queued", "running"}
    <2>1. CASE p = o
      BY <2>1, <1>2, <1>3 DEF CaseInv, Version
    <2>2. CASE p # o
      BY <2>2, <1>3 DEF CaseInv, Version
    <2> QED BY <2>1, <2>2
  <1>5. ASSUME NEW p \in Opportunity
        PROVE  /\ Len(cases'[p]) <= MaxCases
               /\ \A u \in Version(p)' : Paid(cases'[p][u])
               /\ InWork(p)' \subseteq {Len(cases'[p])}
    BY <1>4 DEF CaseInv, InWork
  <1>6. ASSUME NEW d \in Delivery, delivery'[d].phase # "none"
        PROVE  delivery'[d].version \in DOMAIN cases'[delivery'[d].opp]
    <2>1. delivery[d].opp \in Opportunity
      BY DEF CaseInv, DeliveryRow
    <2> QED BY <1>4, <1>6, <2>1 DEF CaseInv, Version
  <1> QED BY <1>3, <1>5, <1>6 DEF CaseInv, Version

(* And when it has ended, it stays as it is but for its approval. *)
LEMMA OneRowEnded ==
    ASSUME CaseInv, NEW o \in Opportunity, NEW v \in Version(o), NEW c,
           cases' = [cases EXCEPT ![o][v] = c],
           cases[o][v].status \in {"completed", "failed"} =>
               /\ c.status = cases[o][v].status /\ c.input = cases[o][v].input
               /\ c.approved => cases[o][v].status = "completed"
    PROVE  EndedKept
  <1>1. ASSUME NEW p \in Opportunity, NEW u \in Version(p)
        PROVE  cases'[p][u] = IF p = o /\ u = v THEN c ELSE cases[p][u]
    BY RowsOf DEF CaseInv, Version
  <1> QED BY <1>1 DEF EndedKept, CaseInv, Paid

-----------------------------------------------------------------------------
(* Business cases: the actions *)

LEMMA NoDeliveryType == NoDelivery \in DeliveryRow /\ NoDelivery.phase = "none"
  <1>1. (CHOOSE o \in Opportunity : TRUE) \in Opportunity
    BY LocalizationAssumption
  <1>2. 1 \in 1 .. MaxCases
    BY BusinessCaseAssumption
  <1> QED BY <1>1, <1>2 DEF NoDelivery, DeliveryRow

LEMMA EvidenceChangesHolds ==
    ASSUME CaseInv, NEW o \in Opportunity, NEW s \in Signal, EvidenceChanges(o, s)
    PROVE  CaseInv' /\ EndedKept
  <1>1. UNCHANGED <<cases, delivery>>
    BY DEF EvidenceChanges
  <1>2. evidence' \in [Opportunity -> SUBSET Signal]
    BY DEF EvidenceChanges, CaseInv
  <1>3. CaseInv'
    BY <1>1, <1>2 DEF CaseInv, Version, InWork
  <1> QED BY <1>1, <1>3 DEF EndedKept, CaseInv, Paid

LEMMA WorkExpiresHolds ==
    ASSUME CaseInv, NEW o \in Opportunity, WorkExpires(o)
    PROVE  CaseInv' /\ EndedKept
  <1>1. PICK v \in InWork(o) : cases' = [cases EXCEPT ![o][v].expired = TRUE]
    BY DEF WorkExpires
  <1>2. v \in Version(o) /\ cases[o][v].status \in {"queued", "running"}
    BY DEF InWork
  <1> DEFINE c == [cases[o][v] EXCEPT !.expired = TRUE]
  <1>3. cases' = [cases EXCEPT ![o][v] = c]
    BY <1>1, <1>2, RowsOf DEF CaseInv, Version
  <1>4. cases[o][v] \in CaseRow /\ Paid(cases[o][v])
    BY <1>2, RowsOf DEF CaseInv
  <1>5. /\ c \in CaseRow /\ c.calls = cases[o][v].calls /\ c.approved = cases[o][v].approved
        /\ c.status = cases[o][v].status
    BY <1>4 DEF CaseRow
  <1>6. Paid(c)
    BY <1>4, <1>5 DEF Paid
  <1>7. /\ UNCHANGED <<evidence, delivery>> /\ delivery' \in [Delivery -> DeliveryRow]
    BY DEF WorkExpires, CaseInv
  <1> HIDE DEF c
  <1>8. CaseInv'
    BY <1>2, <1>3, <1>5, <1>6, <1>7, OneRow
  <1>9. EndedKept
    BY <1>2, <1>3, <1>5, OneRowEnded
  <1> QED BY <1>8, <1>9

(* Who asks again closes what has expired; the new row is the only one in    *)
(* work then.                                                               *)
LEMMA AfterRequestHolds ==
    ASSUME LocalInv, CaseInv, NEW o \in Opportunity, evidence[o] # {},
           Len(AfterRequest(o)) <= MaxCases
    PROVE  LET rows == AfterRequest(o)
           IN /\ rows \in Seq(CaseRow) /\ Len(rows) >= Len(cases[o]) /\ Len(rows) \in 1 .. MaxCases
              /\ \A v \in DOMAIN rows : Paid(rows[v])
              /\ \A v \in DOMAIN rows : rows[v].status \in {"queued", "running"} => v = Len(rows)
              /\ \A v \in Version(o) : cases[o][v].status \in {"completed", "failed"} =>
                     rows[v] = cases[o][v]
  <1> DEFINE rows == AfterRequest(o)
             closed == WithoutExpired(o)
  <1>1. /\ cases[o] \in Seq(CaseRow) /\ Version(o) = 1 .. Len(cases[o])
        /\ Len(cases[o]) \in Nat
        /\ \A v \in Version(o) : cases[o][v] \in CaseRow /\ Paid(cases[o][v])
    BY RowsOf DEF CaseInv
  <1>2. CASE InWork(o) \ Expired(o) # {}
    <2>1. rows = cases[o]
      BY <1>2 DEF AfterRequest
    <2>2. Len(cases[o]) # 0
      BY <1>1, <1>2 DEF InWork
    <2>3. \A v \in Version(o) : cases[o][v].status \in {"queued", "running"} => v = Len(cases[o])
      BY DEF CaseInv, InWork
    <2>4. Len(cases[o]) <= MaxCases
      BY DEF CaseInv
    <2> QED BY <1>1, <2>1, <2>2, <2>3, <2>4, BusinessCaseAssumption DEF Version
  <1>3. CASE InWork(o) \ Expired(o) = {}
    <2>1. rows = closed \o <<NewCase(o)>>
      BY <1>3 DEF AfterRequest
    <2>2. ASSUME NEW v \in Version(o)
          PROVE  /\ closed[v] \in CaseRow /\ Paid(closed[v])
                 /\ closed[v].status \notin {"queued", "running"}
                 /\ cases[o][v].status \in {"completed", "failed"} => closed[v] = cases[o][v]
      <3>1. CASE v \in Expired(o)
        <4>1. closed[v] = [cases[o][v] EXCEPT !.status = "failed"]
          BY <3>1 DEF WithoutExpired
        <4>2. cases[o][v].status \in {"queued", "running"}
          BY <3>1 DEF Expired, InWork
        <4> HIDE DEF closed
        <4>3. /\ closed[v] \in CaseRow /\ closed[v].status = "failed"
              /\ closed[v].calls = cases[o][v].calls /\ closed[v].approved = cases[o][v].approved
          BY <1>1, <4>1 DEF CaseRow
        <4>4. cases[o][v].approved = FALSE
          BY <1>1, <4>2 DEF Paid, CaseRow
        <4> QED BY <1>1, <4>2, <4>3, <4>4 DEF Paid
      <3>2. CASE v \notin Expired(o)
        <4>1. closed[v] = cases[o][v]
          BY <3>2 DEF WithoutExpired
        <4>2. v \notin InWork(o)
          BY <3>2, <1>3
        <4> QED BY <1>1, <4>1, <4>2 DEF InWork
      <3> QED BY <3>1, <3>2
    <2>3. DOMAIN closed = 1 .. Len(cases[o])
      BY <1>1 DEF WithoutExpired
    <2> HIDE DEF closed
    <2>4. closed = [v \in 1 .. Len(cases[o]) |-> closed[v]]
      BY <2>3 DEF closed, WithoutExpired
    <2>5. closed \in Seq(CaseRow) /\ Len(closed) = Len(cases[o])
      BY <1>1, <2>2, <2>4
    <2>6. NewCase(o) \in CaseRow /\ Paid(NewCase(o))
      BY BundleType DEF NewCase, CaseRow, Paid
    <2> DEFINE new == NewCase(o)
    <2> HIDE DEF new
    <2>7. /\ rows \in Seq(CaseRow) /\ Len(rows) = Len(cases[o]) + 1
          /\ \A v \in 1 .. Len(cases[o]) : rows[v] = closed[v]
          /\ rows[Len(rows)] = new
      BY <1>1, <2>1, <2>5, <2>6 DEF new
    <2>8. Len(rows) \in 1 .. MaxCases
      BY <1>1, <2>7, BusinessCaseAssumption
    <2> HIDE DEF rows
    <2>9. \A v \in DOMAIN rows : v \in 1 .. Len(cases[o]) \/ v = Len(rows)
      BY <1>1, <2>7
    <2> QED BY <1>1, <2>2, <2>6, <2>7, <2>8, <2>9 DEF new, rows
  <1> QED BY <1>2, <1>3

LEMMA RequestHolds ==
    ASSUME LocalInv, CaseInv, NEW o \in Opportunity, Request(o)
    PROVE  CaseInv' /\ EndedKept
  <1> DEFINE rows == AfterRequest(o)
  <1>1. evidence[o] # {} /\ Len(rows) <= MaxCases /\ cases' = [cases EXCEPT ![o] = rows]
        /\ UNCHANGED evidence
    BY DEF Request
  <1>2. /\ rows \in Seq(CaseRow) /\ Len(rows) >= Len(cases[o]) /\ Len(rows) \in 1 .. MaxCases
        /\ \A v \in DOMAIN rows : Paid(rows[v])
        /\ \A v \in DOMAIN rows : rows[v].status \in {"queued", "running"} => v = Len(rows)
        /\ \A v \in Version(o) : cases[o][v].status \in {"completed", "failed"} =>
               rows[v] = cases[o][v]
    BY <1>1, AfterRequestHolds
  <1>3. \/ UNCHANGED delivery
        \/ \E d \in Delivery : delivery' = [delivery EXCEPT ![d] =
               [phase |-> "queued", opp |-> o, version |-> Len(rows)]]
    BY DEF Request
  <1> HIDE DEF rows
  <1>4. /\ cases' \in [Opportunity -> Seq(CaseRow)] /\ cases'[o] = rows
        /\ \A p \in Opportunity \ {o} : cases'[p] = cases[p]
    BY <1>1, <1>2 DEF CaseInv
  <1>5. ASSUME NEW p \in Opportunity
        PROVE  /\ Len(cases'[p]) <= MaxCases
               /\ \A v \in Version(p)' : Paid(cases'[p][v])
               /\ InWork(p)' \subseteq {Len(cases'[p])}
               /\ Version(p) \subseteq Version(p)'
    <2>1. CASE p = o
      <3>1. Version(p) = 1 .. Len(cases[o]) /\ Version(p)' = 1 .. Len(rows)
            /\ Len(cases[o]) \in Nat /\ Len(rows) \in Nat
        BY <2>1, <1>2, <1>4, RowsOf DEF Version
      <3>2. Version(p) \subseteq Version(p)'
        BY <1>2, <3>1
      <3> QED BY <2>1, <1>2, <1>4, <3>1, <3>2 DEF Version, InWork
    <2>2. CASE p # o
      BY <2>2, <1>4 DEF CaseInv, Version, InWork
    <2> QED BY <2>1, <2>2
  <1>6. delivery' \in [Delivery -> DeliveryRow]
    <2>1. [phase |-> "queued", opp |-> o, version |-> Len(rows)] \in DeliveryRow
      BY <1>2 DEF DeliveryRow
    <2> QED BY <1>3, <2>1 DEF CaseInv
  <1>7. ASSUME NEW d \in Delivery, delivery'[d].phase # "none"
        PROVE  delivery'[d].version \in DOMAIN cases'[delivery'[d].opp]
    <2>1. CASE delivery'[d] = delivery[d]
      <3>1. delivery[d].opp \in Opportunity /\ delivery[d].version \in Version(delivery[d].opp)
        BY <1>7, <2>1 DEF CaseInv, DeliveryRow
      <3> QED BY <1>5, <2>1, <3>1 DEF Version
    <2>2. CASE delivery'[d] # delivery[d]
      <3>1. delivery'[d].opp = o /\ delivery'[d].version = Len(rows)
        BY <1>3, <2>2 DEF CaseInv
      <3>2. Len(rows) \in DOMAIN rows
        BY <1>2
      <3> QED BY <1>4, <3>1, <3>2
    <2> QED BY <2>1, <2>2
  <1>8. CaseInv'
    BY <1>1, <1>4, <1>5, <1>6, <1>7 DEF CaseInv, Version
  <1>9. EndedKept
    BY <1>2, <1>4 DEF EndedKept, CaseInv, Paid
  <1> QED BY <1>8, <1>9

(* What a message is about. *)
LEMMA DeliveryOf ==
    ASSUME CaseInv, NEW d \in Delivery, delivery[d].phase # "none"
    PROVE  /\ delivery[d] \in DeliveryRow /\ delivery[d].opp \in Opportunity
           /\ delivery[d].version \in Version(delivery[d].opp)
           /\ Of(d) \in CaseRow /\ Paid(Of(d))
  <1>1. /\ delivery[d] \in DeliveryRow /\ delivery[d].opp \in Opportunity
        /\ delivery[d].version \in Version(delivery[d].opp)
    BY DEF CaseInv, DeliveryRow
  <1>2. Of(d) \in CaseRow
    BY <1>1, RowsOf DEF Of
  <1> QED BY <1>1, <1>2 DEF CaseInv, Of

(* The row when its worker has begun. *)
Begun(r) == [r EXCEPT !.status = "running", !.expired = FALSE, !.calls = @ + 1]

LEMMA BegunType ==
    ASSUME NEW r \in CaseRow
    PROVE  /\ Begun(r) \in CaseRow /\ Begun(r).status = "running"
           /\ Begun(r).calls = r.calls + 1 /\ Begun(r).approved = r.approved
  <1> DEFINE taken == [[r EXCEPT !.status = "running"] EXCEPT !.expired = FALSE]
  <1>1. taken.calls = r.calls
    BY DEF CaseRow
  <1>2. Begun(r) = [taken EXCEPT !.calls = r.calls + 1]
    BY <1>1 DEF Begun
  <1>3. Begun(r) = [status |-> "running", input |-> r.input, approved |-> r.approved,
                    expired |-> FALSE, calls |-> r.calls + 1]
    BY <1>2 DEF CaseRow
  <1>4. /\ r.input \in CaseInput /\ r.approved \in BOOLEAN /\ r.calls \in Nat
        /\ r.calls + 1 \in Nat
    BY DEF CaseRow
  <1>5. Begun(r) \in CaseRow
    BY <1>3, <1>4 DEF CaseRow
  <1> QED BY <1>3, <1>5

LEMMA TakeHolds ==
    ASSUME CaseInv, NEW d \in Delivery, Take(d)
    PROVE  CaseInv' /\ EndedKept
  <1> DEFINE o == delivery[d].opp
             v == delivery[d].version
             c == Begun(Of(d))
  <1>1. /\ delivery[d].phase = "queued" /\ Of(d).status = "queued"
        /\ delivery' = [delivery EXCEPT ![d].phase = "calling"] /\ UNCHANGED evidence
    BY DEF Take, Takes
  <1>2. /\ delivery[d] \in DeliveryRow /\ o \in Opportunity /\ v \in Version(o)
        /\ Of(d) \in CaseRow /\ Paid(Of(d))
    BY <1>1, DeliveryOf
  <1>3. cases' = [cases EXCEPT ![o][v] = c]
    BY DEF Take, Write, Begun
  <1>4. /\ c \in CaseRow /\ c.status = "running" /\ c.calls = Of(d).calls + 1
        /\ c.approved = Of(d).approved
    BY <1>2, BegunType
  <1>5. Of(d).calls = 0 /\ Of(d).approved = FALSE
    BY <1>1, <1>2 DEF Paid, CaseRow
  <1>6. Paid(c)
    BY <1>4, <1>5 DEF Paid
  <1>7. /\ delivery' \in [Delivery -> DeliveryRow]
        /\ \A e \in Delivery : delivery'[e].phase # "none" =>
               /\ delivery[e].phase # "none"
               /\ delivery'[e].opp = delivery[e].opp /\ delivery'[e].version = delivery[e].version
    BY <1>1 DEF CaseInv, DeliveryRow
  <1>8. cases[o][v].status = "queued"
    BY <1>1 DEF Of
  <1> HIDE DEF c, o, v
  <1>9. CaseInv'
    BY <1>1, <1>2, <1>3, <1>4, <1>6, <1>7, <1>8, OneRow
  <1>10. EndedKept
    BY <1>2, <1>3, <1>8, OneRowEnded
  <1> QED BY <1>9, <1>10

(* Steps that leave the rows alone and drop or return a message. *)
LEMMA OnlyMessage ==
    ASSUME CaseInv, UNCHANGED <<evidence, cases>>, delivery' \in [Delivery -> DeliveryRow],
           \A d \in Delivery : delivery'[d].phase # "none" =>
               /\ delivery[d].phase # "none"
               /\ delivery'[d].opp = delivery[d].opp
               /\ delivery'[d].version = delivery[d].version
    PROVE  CaseInv' /\ EndedKept
  <1>1. CaseInv'
    BY DEF CaseInv, Version, InWork
  <1> QED BY <1>1 DEF EndedKept, CaseInv, Paid

LEMMA MessageEnds ==
    ASSUME CaseInv, NEW d \in Delivery, delivery' = [delivery EXCEPT ![d] = NoDelivery]
    PROVE  /\ delivery' \in [Delivery -> DeliveryRow]
           /\ \A e \in Delivery : delivery'[e].phase # "none" =>
                  /\ delivery[e].phase # "none"
                  /\ delivery'[e].opp = delivery[e].opp /\ delivery'[e].version = delivery[e].version
  BY NoDeliveryType DEF CaseInv

LEMMA AlreadyTakenHolds ==
    ASSUME CaseInv, NEW d \in Delivery, AlreadyTaken(d)
    PROVE  CaseInv' /\ EndedKept
  <1>1. delivery' = [delivery EXCEPT ![d] = NoDelivery] /\ UNCHANGED <<evidence, cases>>
    BY DEF AlreadyTaken
  <1> QED BY <1>1, MessageEnds, OnlyMessage

LEMMA ConsolidatorDiesHolds ==
    ASSUME CaseInv, NEW d \in Delivery, ConsolidatorDies(d)
    PROVE  CaseInv' /\ EndedKept
  <1>1. /\ delivery[d].phase = "calling" /\ delivery' = [delivery EXCEPT ![d].phase = "queued"]
        /\ UNCHANGED <<evidence, cases>>
    BY DEF ConsolidatorDies
  <1>2. /\ delivery' \in [Delivery -> DeliveryRow]
        /\ \A e \in Delivery : delivery'[e].phase # "none" =>
               /\ delivery[e].phase # "none"
               /\ delivery'[e].opp = delivery[e].opp /\ delivery'[e].version = delivery[e].version
    BY <1>1 DEF CaseInv, DeliveryRow
  <1> QED BY <1>1, <1>2, OnlyMessage

(* An answer is written only while the row is still running. *)
LEMMA FinishHolds ==
    ASSUME CaseInv, NEW d \in Delivery, NEW status \in {"completed", "failed"}, Finish(d, status)
    PROVE  CaseInv' /\ EndedKept
  <1> DEFINE o == delivery[d].opp
             v == delivery[d].version
             c == [Of(d) EXCEPT !.status = status]
  <1>1. /\ delivery[d].phase = "calling" /\ UNCHANGED evidence
        /\ delivery' = [delivery EXCEPT ![d] = NoDelivery]
    BY DEF Finish
  <1>2. CASE ~StillMine(d)
    <2>1. UNCHANGED cases
      BY <1>2 DEF Finish
    <2> QED BY <1>1, <2>1, MessageEnds, OnlyMessage
  <1>3. CASE StillMine(d)
    <2>1. /\ o \in Opportunity /\ v \in Version(o) /\ Of(d) \in CaseRow /\ Paid(Of(d))
      BY <1>1, DeliveryOf
    <2>2. cases' = [cases EXCEPT ![o][v] = c]
      BY <1>3 DEF Finish, Write
    <2>3. Of(d).status = "running" /\ cases[o][v] = Of(d)
      BY <1>3 DEF StillMine, Of
    <2>4. /\ c \in CaseRow /\ c.status = status /\ c.calls = Of(d).calls
          /\ c.approved = Of(d).approved
      BY <2>1 DEF CaseRow
    <2>5. Of(d).approved = FALSE
      BY <2>1, <2>3 DEF Paid, CaseRow
    <2>6. Paid(c)
      BY <2>1, <2>4, <2>5 DEF Paid
    <2>7. /\ delivery' \in [Delivery -> DeliveryRow]
          /\ \A e \in Delivery : delivery'[e].phase # "none" =>
                 /\ delivery[e].phase # "none"
                 /\ delivery'[e].opp = delivery[e].opp
                 /\ delivery'[e].version = delivery[e].version
      BY <1>1, MessageEnds
    <2> HIDE DEF c, o, v
    <2>8. CaseInv'
      BY <1>1, <2>1, <2>2, <2>3, <2>4, <2>6, <2>7, OneRow
    <2>9. EndedKept
      BY <2>1, <2>2, <2>3, OneRowEnded
    <2> QED BY <2>8, <2>9
  <1> QED BY <1>2, <1>3

LEMMA ApproveHolds ==
    ASSUME CaseInv, NEW o \in Opportunity, NEW v \in Version(o), Approve(o, v)
    PROVE  CaseInv' /\ EndedKept
  <1> DEFINE c == [cases[o][v] EXCEPT !.approved = TRUE]
  <1>1. cases[o][v].status = "completed" /\ UNCHANGED <<evidence, delivery>>
    BY DEF Approve, Matching
  <1>2. cases[o][v] \in CaseRow /\ Paid(cases[o][v])
    BY RowsOf DEF CaseInv
  <1>3. cases' = [cases EXCEPT ![o][v] = c]
    BY RowsOf DEF Approve, CaseInv, Version
  <1>4. /\ c \in CaseRow /\ c.status = "completed" /\ c.calls = cases[o][v].calls
        /\ c.input = cases[o][v].input
    BY <1>1, <1>2 DEF CaseRow
  <1>5. Paid(c)
    BY <1>2, <1>4 DEF Paid
  <1>6. delivery' \in [Delivery -> DeliveryRow]
    BY <1>1 DEF CaseInv
  <1> HIDE DEF c
  <1>7. CaseInv'
    BY <1>1, <1>3, <1>4, <1>5, <1>6, OneRow
  <1>8. EndedKept
    BY <1>1, <1>3, <1>4, OneRowEnded
  <1> QED BY <1>7, <1>8

LEMMA AcceptHolds ==
    ASSUME IInv, NEW o \in Opportunity, NEW v \in Version(o), NEW f \in Field, NEW x \in Text,
           Accept(o, v, f, x)
    PROVE  LocalInv' /\ ShownKept /\ CaseInv' /\ EndedKept
  <1>1. o \in Target
    BY LocalizationAssumption
  <1>2. entity' \in [Target -> EntityRow]
    BY <1>1, TextType DEF Accept, IInv
  <1>3. due' \subseteq Target /\ UNCHANGED <<row, lease, task>> /\ UNCHANGED caseVars
    BY <1>1 DEF Accept, IInv, LocalInv, LocalTypeOK
  <1> QED BY <1>2, <1>3, EntityStep, CasesStay DEF IInv

LEMMA CasesHold ==
    ASSUME IInv, CaseStep, UNCHANGED trendVars
    PROVE  Kept
  <1>1. TrendInv'
    BY TrendsStay DEF IInv, trendVars
  <1>2. ASSUME CaseInv' /\ EndedKept, UNCHANGED <<textVars, localVars>>
        PROVE  Kept
    <2>1. LocalInv' /\ ShownKept
      BY <1>2, LocalStays, RowsStay DEF textVars, localVars, IInv
    <2> QED BY <1>1, <1>2, <2>1 DEF IInv, Kept
  <1>3. ASSUME NEW o \in Opportunity, Request(o) PROVE Kept
    BY <1>2, <1>3, RequestHolds DEF IInv, Request
  <1>4. ASSUME NEW o \in Opportunity, WorkExpires(o) PROVE Kept
    BY <1>2, <1>4, WorkExpiresHolds DEF IInv, WorkExpires
  <1>5. ASSUME NEW o \in Opportunity, NEW s \in Signal, EvidenceChanges(o, s) PROVE Kept
    BY <1>2, <1>5, EvidenceChangesHolds DEF IInv, EvidenceChanges
  <1>6. ASSUME NEW o \in Opportunity, NEW v \in Version(o), Approve(o, v) PROVE Kept
    BY <1>2, <1>6, ApproveHolds DEF IInv, Approve
  <1>7. ASSUME NEW o \in Opportunity, NEW v \in Version(o), NEW f \in Field, NEW x \in Text,
               Accept(o, v, f, x)
        PROVE  Kept
    BY <1>1, <1>7, AcceptHolds DEF IInv, Kept
  <1>8. ASSUME NEW d \in Delivery, Take(d) PROVE Kept
    BY <1>2, <1>8, TakeHolds DEF IInv, Take
  <1>9. ASSUME NEW d \in Delivery, AlreadyTaken(d) PROVE Kept
    BY <1>2, <1>9, AlreadyTakenHolds DEF IInv, AlreadyTaken
  <1>10. ASSUME NEW d \in Delivery, ConsolidatorDies(d) PROVE Kept
    BY <1>2, <1>10, ConsolidatorDiesHolds DEF IInv, ConsolidatorDies
  <1>11. ASSUME NEW d \in Delivery, NEW status \in {"completed", "failed"}, Finish(d, status)
         PROVE  Kept
    BY <1>2, <1>11, FinishHolds DEF IInv, Finish
  <1> QED BY <1>3, <1>4, <1>5, <1>6, <1>7, <1>8, <1>9, <1>10, <1>11 DEF CaseStep

-----------------------------------------------------------------------------
(* Trends: the windows *)

LEMMA FloorType ==
    ASSUME NEW t \in Nat
    PROVE  Floor(t) \in Int
  BY TrendAssumption DEF Floor

LEMMA BoundariesType ==
    ASSUME NEW w \in Window, NEW t \in Nat
    PROVE  /\ Boundaries(w, t)[1] \in Int /\ Boundaries(w, t)[2] \in Int
  BY FloorType, TrendAssumption DEF Boundaries, Window

(* What is read for a window is counted in it. *)
LEMMA TrendHonest ==
    ASSUME NEW E \in SUBSET Signal, NEW from \in Int, NEW to \in Int
    PROVE  Honest(TrendOf(E, from, to))
  <1>1. /\ TrendOf(E, from, to).from = from /\ TrendOf(E, from, to).to = to
        /\ TrendOf(E, from, to).counted = Within(E, from, to)
        /\ TrendOf(E, from, to).before = Within(E, from - (to - from), from)
    BY DEF TrendOf, Period
  <1>2. \A a, b \in Int : Within(E, a, b) \subseteq Within(Signal, a, b)
    BY DEF Within
  <1> QED BY <1>1, <1>2 DEF Honest

(* Windows that do not overlap have no signal in common. *)
LEMMA Apart ==
    ASSUME NEW a \in Int, NEW b \in Int, NEW c \in Int, NEW d \in Int, b <= c
    PROVE  Within(Signal, a, b) \cap Within(Signal, c, d) = {}
  BY TrendAssumption DEF Within

LEMMA CountedOnce ==
    ASSUME TrendInv
    PROVE  NoSignalCountedTwice
  <1> SUFFICES ASSUME NEW o \in Opportunity, NEW r \in snapshot[o], NEW q \in snapshot[o]
               PROVE  /\ r.counted \cap r.before = {}
                      /\ r.to <= q.from => r.counted \cap q.counted = {}
    BY DEF NoSignalCountedTwice
  <1>1. Honest(r) /\ Honest(q)
    BY DEF TrendInv
  <1>2. r.from \in Int /\ r.to \in Int /\ q.from \in Int /\ q.to \in Int
    BY <1>1 DEF Honest
  <1>3. /\ r.counted \subseteq Within(Signal, r.from, r.to)
        /\ r.before \subseteq Within(Signal, r.from - (r.to - r.from), r.from)
        /\ q.counted \subseteq Within(Signal, q.from, q.to)
    BY <1>1 DEF Honest
  <1>4. Within(Signal, r.from - (r.to - r.from), r.from) \cap Within(Signal, r.from, r.to) = {}
    <2>1. r.from - (r.to - r.from) \in Int /\ r.from <= r.from
      BY <1>2
    <2> QED BY <1>2, <2>1, Apart
  <1>5. r.to <= q.from => Within(Signal, r.from, r.to) \cap Within(Signal, q.from, q.to) = {}
    BY <1>2, Apart
  <1> QED BY <1>3, <1>4, <1>5

-----------------------------------------------------------------------------
(* Trends: the actions *)

LEMMA OneJob ==
    ASSUME TrendInv, NEW k \in Calculation, NEW j, calc' = [calc EXCEPT ![k] = j],
           UNCHANGED <<now, snapshot>>,
           j.phase \in {"counted", "insert", "update"} => AggregationOK(j)
    PROVE  TrendInv'
  <1>1. calc' = [i \in Calculation |-> IF i = k THEN j ELSE calc[i]]
    BY DEF TrendInv
  <1>2. calc' = [i \in Calculation |-> calc'[i]]
    BY <1>1
  <1>3. ASSUME NEW i \in Calculation, calc'[i].phase \in {"counted", "insert", "update"}
        PROVE  AggregationOK(calc'[i])
    BY <1>1, <1>3 DEF TrendInv, Aggregating
  <1> QED BY <1>2, <1>3 DEF TrendInv, Aggregating

LEMMA AggregateHolds ==
    ASSUME CaseInv, TrendInv, NEW k \in Calculation, NEW o \in Opportunity, NEW w \in Window,
           NEW force \in BOOLEAN, Aggregate(k, o, w, force)
    PROVE  TrendInv'
  <1> DEFINE p == Boundaries(w, now)
             trend == TrendOf(evidence[o], p[1], p[2])
             j == [phase |-> "counted", opp |-> o, window |-> w, trend |-> trend]
  <1>1. calc' = [calc EXCEPT ![k] = j] /\ UNCHANGED <<now, snapshot>>
    BY DEF Aggregate
  <1>2. Honest(trend)
    <2>1. evidence[o] \in SUBSET Signal
      BY DEF CaseInv
    <2>2. p[1] \in Int /\ p[2] \in Int
      BY BoundariesType DEF TrendInv
    <2> HIDE DEF p
    <2> QED BY <2>1, <2>2, TrendHonest
  <1> HIDE DEF trend
  <1>3. AggregationOK(j)
    BY <1>2 DEF AggregationOK
  <1> HIDE DEF j
  <1> QED BY <1>1, <1>3, OneJob

LEMMA LookForSnapshotHolds ==
    ASSUME TrendInv, NEW k \in Calculation, LookForSnapshot(k)
    PROVE  TrendInv'
  <1> DEFINE phase == IF SamePeriod(calc[k]) = {} THEN "insert" ELSE "update"
             old == calc[k]
             j == [phase |-> phase, opp |-> old.opp, window |-> old.window, trend |-> old.trend]
  <1>1. /\ calc[k].phase = "counted" /\ calc' = [calc EXCEPT ![k].phase = phase]
        /\ UNCHANGED <<now, snapshot>>
    BY DEF LookForSnapshot
  <1>2. AggregationOK(old)
    BY <1>1 DEF TrendInv, Aggregating
  <1> HIDE DEF phase
  <1>3. [old EXCEPT !.phase = phase] = j
    <2>1. old = [phase |-> old.phase, opp |-> old.opp, window |-> old.window, trend |-> old.trend]
      BY <1>2 DEF AggregationOK
    <2> QED BY <2>1
  <1>4. calc' = [calc EXCEPT ![k] = j]
    BY <1>1, <1>3 DEF TrendInv
  <1>5. AggregationOK(j)
    BY <1>2 DEF AggregationOK
  <1> HIDE DEF j
  <1> QED BY <1>1, <1>4, <1>5, OneJob

LEMMA WriteSnapshotHolds ==
    ASSUME TrendInv, NEW k \in Calculation, WriteSnapshot(k)
    PROVE  TrendInv'
  <1> DEFINE j == calc[k]
             rows == IF j.phase = "insert" /\ SamePeriod(j) # {} THEN snapshot[j.opp]
                     ELSE (snapshot[j.opp] \ SamePeriod(j)) \cup {RowOf(j)}
  <1>1. /\ j.phase \in {"insert", "update"} /\ snapshot' = [snapshot EXCEPT ![j.opp] = rows]
        /\ calc' = [calc EXCEPT ![k] = NoCalc] /\ UNCHANGED now
    BY DEF WriteSnapshot
  <1>2. Honest(j.trend)
    BY <1>1 DEF TrendInv, Aggregating, AggregationOK
  <1>3. Honest(RowOf(j))
    <2>1. /\ RowOf(j).from = j.trend.from /\ RowOf(j).to = j.trend.to
          /\ RowOf(j).counted = j.trend.counted /\ RowOf(j).before = j.trend.before
      BY DEF RowOf
    <2> QED BY <1>2, <2>1 DEF Honest
  <1>4. rows \subseteq snapshot[j.opp] \cup {RowOf(j)}
    OBVIOUS
  <1> HIDE DEF rows
  <1>5. snapshot' = [o \in Opportunity |-> IF o = j.opp THEN rows ELSE snapshot[o]]
    BY <1>1 DEF TrendInv
  <1> HIDE DEF j
  <1>6. \A o \in Opportunity : \A r \in snapshot'[o] : Honest(r)
    BY <1>3, <1>4, <1>5 DEF TrendInv
  <1>7. calc' = [i \in Calculation |-> IF i = k THEN NoCalc ELSE calc[i]]
    BY <1>1 DEF TrendInv
  <1>8. ASSUME NEW i \in Calculation, calc'[i].phase \in {"counted", "insert", "update"}
        PROVE  AggregationOK(calc'[i])
    <2>1. i # k
      BY <1>7, <1>8 DEF NoCalc
    <2> QED BY <1>7, <1>8, <2>1 DEF TrendInv, Aggregating
  <1>9. calc' = [i \in Calculation |-> calc'[i]] /\ snapshot' = [o \in Opportunity |-> snapshot'[o]]
    BY <1>5, <1>7
  <1> QED BY <1>1, <1>6, <1>8, <1>9 DEF TrendInv, Aggregating

LEMMA StartScoreHolds ==
    ASSUME TrendInv, NEW k \in Calculation, NEW o \in Opportunity, NEW force \in BOOLEAN,
           StartScore(k, o, force)
    PROVE  TrendInv'
  <1>1. PICK input : calc' = [calc EXCEPT ![k] = [phase |-> "scored", opp |-> o, input |-> input]]
    BY DEF StartScore
  <1> DEFINE j == [phase |-> "scored", opp |-> o, input |-> input]
  <1>2. j.phase = "scored" /\ calc' = [calc EXCEPT ![k] = j]
    BY <1>1
  <1>3. UNCHANGED <<now, snapshot>>
    BY DEF StartScore
  <1> HIDE DEF j
  <1> QED BY <1>2, <1>3, OneJob

LEMMA SaveScoreHolds ==
    ASSUME TrendInv, NEW k \in Calculation, SaveScore(k)
    PROVE  TrendInv'
  <1>1. calc' = [calc EXCEPT ![k] = NoCalc] /\ UNCHANGED <<now, snapshot>>
    BY DEF SaveScore
  <1>2. NoCalc.phase = "none"
    BY DEF NoCalc
  <1> QED BY <1>1, <1>2, OneJob

LEMMA TickHolds ==
    ASSUME TrendInv, Tick
    PROVE  TrendInv'
  BY DEF TrendInv, Tick, Aggregating

LEMMA TrendsHold ==
    ASSUME IInv, TrendStep
    PROVE  Kept
  <1>1. TrendInv'
    BY AggregateHolds, LookForSnapshotHolds, WriteSnapshotHolds, StartScoreHolds, SaveScoreHolds,
       TickHolds DEF IInv, TrendStep
  <1>2. UNCHANGED <<textVars, localVars, caseVars>>
    BY DEF TrendStep, Tick, Aggregate, LookForSnapshot, WriteSnapshot, StartScore, SaveScore
  <1>3. LocalInv' /\ ShownKept
    BY <1>2, LocalStays, RowsStay DEF IInv, textVars, localVars
  <1>4. CaseInv' /\ EndedKept
    BY <1>2, CasesStay DEF IInv
  <1> QED BY <1>1, <1>3, <1>4 DEF IInv, Kept

-----------------------------------------------------------------------------
(* The theorems *)

LEMMA InitHolds == Init => IInv
  <1> SUFFICES ASSUME Init PROVE IInv
    OBVIOUS
  <1>1. LocalInv
    <2>1. LocalTypeOK
      BY NoTaskType DEF Init, LocalTypeOK
    <2>2. \A c \in Task : task[c] = NoTask
      BY DEF Init
    <2> QED BY <2>1, <2>2, NoTaskType DEF LocalInv, Leased, Single, Marked
  <1>2. CaseInv
    <2>1. \A o \in Opportunity : cases[o] = <<>> /\ Version(o) = {} /\ Len(cases[o]) = 0
      BY DEF Init, Version
    <2>2. \A d \in Delivery : delivery[d] = NoDelivery
      BY DEF Init
    <2>3. /\ evidence \in [Opportunity -> SUBSET Signal] /\ cases \in [Opportunity -> Seq(CaseRow)]
          /\ delivery \in [Delivery -> DeliveryRow]
      BY NoDeliveryType DEF Init
    <2>4. 0 <= MaxCases
      BY BusinessCaseAssumption
    <2> QED BY <2>1, <2>2, <2>3, <2>4, NoDeliveryType DEF CaseInv, InWork
  <1>3. TrendInv
    <2>1. \A o \in Opportunity : snapshot[o] = {}
      BY DEF Init
    <2>2. \A k \in Calculation : calc[k] = NoCalc
      BY DEF Init
    <2>3. NoCalc.phase = "none"
      BY DEF NoCalc
    <2>4. now \in Nat
      BY TrendAssumption DEF Init
    <2>5. /\ snapshot = [o \in Opportunity |-> snapshot[o]]
          /\ calc = [k \in Calculation |-> calc[k]]
      BY <2>1, <2>2 DEF Init
    <2> QED BY <2>1, <2>2, <2>3, <2>4, <2>5 DEF TrendInv, Aggregating
  <1> QED BY <1>1, <1>2, <1>3 DEF IInv

LEMMA NextKept == IInv /\ [Next]_vars => Kept
  <1> SUFFICES ASSUME IInv, [Next]_vars PROVE Kept
    OBVIOUS
  <1>1. CASE UNCHANGED vars
    <2>1. LocalInv' /\ ShownKept
      BY <1>1, LocalStays, RowsStay DEF IInv, vars, textVars, localVars
    <2>2. CaseInv' /\ EndedKept
      BY <1>1, CasesStay DEF IInv, vars
    <2>3. TrendInv'
      BY <1>1, TrendsStay DEF IInv, vars, trendVars
    <2> QED BY <2>1, <2>2, <2>3 DEF IInv, Kept
  <1> QED BY <1>1, LocalizationHolds, CasesHold, TrendsHold DEF Next

(* The invariant holds in every reachable state, for any number of targets, *)
(* messages, cases and calculations.                                        *)
THEOREM InvCorrect == Spec => []IInv
  <1>1. IInv /\ [Next]_vars => IInv'
    BY NextKept DEF Kept
  <1> QED BY <1>1, InitHolds, PTL DEF Spec

(* Of the messages about a target at most one was sent under the lease that  *)
(* is still running, whatever was lost or delivered again.                  *)
THEOREM OneTaskPerLeaseCorrect == Spec => []OneTaskPerLease
  <1>1. IInv => OneTaskPerLease
    <2> SUFFICES ASSUME IInv, NEW t \in Target
                 PROVE  Cardinality({c \in Task : task[c].target = t /\ task[c].covered}) <= 1
      BY DEF OneTaskPerLease
    <2> DEFINE S == {c \in Task : task[c].target = t /\ task[c].covered}
    <2>1. CASE S = {}
      BY <2>1, FS_EmptySet
    <2>2. ASSUME NEW c \in S PROVE Cardinality(S) <= 1
      <3>1. S = {c}
        BY DEF IInv, LocalInv, Single
      <3>2. Cardinality({c}) = 1
        BY FS_Singleton
      <3> HIDE DEF S
      <3> QED BY <3>1, <3>2
    <2> QED BY <2>1, <2>2
  <1> QED BY <1>1, InvCorrect, PTL

(* No translation that fits the canonical text is taken from the readers     *)
(* but by a worker that has read another text of the field.                 *)
THEOREM ShownUntilEditedCorrect == Spec => ShownUntilEdited
  <1>1. IInv /\ [Next]_vars => [ShownKept]_<<entity, row>>
    BY NextKept DEF Kept
  <1>2. ShownUntilEdited <=> [][ShownKept]_<<entity, row>>
    BY DEF ShownUntilEdited, ShownKept
  <1> QED BY <1>1, <1>2, InvCorrect, PTL DEF Spec

(* A row of a business case pays for one call at most, and the newest       *)
(* version is the only one in work.                                         *)
THEOREM OneCallPerCaseCorrect == Spec => []OneCallPerCase
  <1>1. IInv => OneCallPerCase
    BY DEF IInv, CaseInv, Paid, OneCallPerCase
  <1> QED BY <1>1, InvCorrect, PTL

(* No late worker, second delivery or expired lease changes a case that has  *)
(* ended, and only a completed one is approved.                             *)
THEOREM EndedCaseStaysCorrect == Spec => EndedCaseStays
  <1>1. IInv /\ [Next]_vars => [EndedKept]_cases
    BY NextKept DEF Kept
  <1>2. EndedCaseStays <=> [][EndedKept]_cases
    BY DEF EndedCaseStays, EndedKept
  <1> QED BY <1>1, <1>2, InvCorrect, PTL DEF Spec

(* No signal is counted in two windows that do not overlap, nor in a window  *)
(* and in the one it is compared with, however aggregations interleave.     *)
THEOREM NoSignalCountedTwiceCorrect == Spec => []NoSignalCountedTwice
  <1>1. IInv => NoSignalCountedTwice
    BY CountedOnce DEF IInv
  <1> QED BY <1>1, InvCorrect, PTL

-----------------------------------------------------------------------------
(* The formula: counts, and what they saturate to *)

(* Of more evidence no count is smaller. *)
LEMMA Parts ==
    ASSUME NEW S, IsFiniteSet(S), NEW T, T \subseteq S
    PROVE  /\ IsFiniteSet(T) /\ Cardinality(T) \in Nat /\ Cardinality(S) \in Nat
           /\ Cardinality(T) <= Cardinality(S)
  <1>1. T \in SUBSET S
    OBVIOUS
  <1> QED BY <1>1, FS_Subset, FS_CardinalityType

LEMMA CountIs ==
    ASSUME NEW F, IsFiniteSet(F), NEW E, E \subseteq F, NEW kinds
    PROVE  /\ CountOf(E, kinds) \in Nat /\ CountOf(F, kinds) \in Nat
           /\ CountOf(E, kinds) <= CountOf(F, kinds)
  <1>1. /\ {s \in E : Trait[s].kind \in kinds} \subseteq {s \in F : Trait[s].kind \in kinds}
        /\ {s \in F : Trait[s].kind \in kinds} \subseteq F
    OBVIOUS
  <1> QED BY <1>1, Parts DEF CountOf

LEMMA VideosAre ==
    ASSUME NEW F, IsFiniteSet(F), NEW E, E \subseteq F
    PROVE  /\ IsFiniteSet(VideosOf(F)) /\ VideosOf(E) \subseteq VideosOf(F)
           /\ Cardinality(VideosOf(E)) \in Nat /\ Cardinality(VideosOf(F)) \in Nat
           /\ Cardinality(VideosOf(E)) <= Cardinality(VideosOf(F))
  <1> DEFINE f == [s \in F |-> Trait[s].video]
  <1>1. f \in Surjection(F, VideosOf(F))
    BY DEF Surjection, VideosOf
  <1>2. IsFiniteSet(VideosOf(F))
    BY <1>1, FS_Surjection
  <1>3. VideosOf(E) \subseteq VideosOf(F)
    BY DEF VideosOf
  <1> QED BY <1>2, <1>3, Parts

(* Two percentages, the second of which is not smaller. *)
Rising(x, y) == x \in Int /\ y \in Int /\ 0 <= x /\ x <= y /\ y <= 100

LEMMA TableIs ==
    ASSUME NEW scale \in Scale, NEW m \in 0 .. Most, NEW n \in 0 .. Most, m <= n
    PROVE  Rising(Saturation[scale][m], Saturation[scale][n])
  <1>1. Saturation[scale][m] \in 0 .. 100 /\ Saturation[scale][n] \in 0 .. 100
    BY FormulaAssumption
  <1>2. Saturation[scale][m] <= Saturation[scale][n]
    BY FormulaAssumption
  <1> QED BY <1>1, <1>2 DEF Rising

LEMMA SatIs ==
    ASSUME NEW scale \in Scale, NEW m \in Nat, NEW n \in Nat, m <= n
    PROVE  Rising(Sat(scale, m), Sat(scale, n))
  <1>1. /\ Least(100 * m, Most) \in 0 .. Most /\ Least(100 * n, Most) \in 0 .. Most
        /\ Least(100 * m, Most) <= Least(100 * n, Most)
    BY DEF Least, Most
  <1> QED BY <1>1, TableIs DEF Sat

LEMMA CountSat ==
    ASSUME NEW F, IsFiniteSet(F), NEW E, E \subseteq F, NEW kinds, NEW scale \in Scale
    PROVE  Rising(Sat(scale, CountOf(E, kinds)), Sat(scale, CountOf(F, kinds)))
  <1>1. /\ CountOf(E, kinds) \in Nat /\ CountOf(F, kinds) \in Nat
        /\ CountOf(E, kinds) <= CountOf(F, kinds)
    BY CountIs
  <1> QED BY <1>1, SatIs

LEMMA Halves ==
    ASSUME NEW x \in Int, NEW y \in Int, 0 <= x, x <= y, y <= 200
    PROVE  Rising(x \div 2, y \div 2)
  BY DEF Rising

LEMMA Hundredths ==
    ASSUME NEW x \in Int, NEW y \in Int, 0 <= x, x <= y, y <= 10000
    PROVE  Rising(x \div 100, y \div 100)
  BY DEF Rising

LEMMA DiversityIs ==
    ASSUME NEW F, IsFiniteSet(F), NEW E, E \subseteq F
    PROVE  Rising(Diversity(E), Diversity(F))
  <1> DEFINE m == Cardinality(VideosOf(E))
             n == Cardinality(VideosOf(F))
  <1>1. m \in Nat /\ n \in Nat /\ m <= n
    BY VideosAre
  <1>2. "3" \in Scale /\ "4" \in Scale
    BY DEF Scale
  <1> HIDE DEF m, n
  <1>3. Rising(Sat("4", m), Sat("4", n)) /\ Rising(Sat("3", m), Sat("3", n))
    BY <1>1, <1>2, SatIs
  <1> DEFINE x == Sat("4", m) + Sat("3", m)
             y == Sat("4", n) + Sat("3", n)
  <1>4. x \in Int /\ y \in Int /\ 0 <= x /\ x <= y /\ y <= 200
    BY <1>3 DEF Rising
  <1>5. Diversity(E) = x \div 2 /\ Diversity(F) = y \div 2
    BY DEF Diversity, m, n
  <1> HIDE DEF x, y
  <1> QED BY <1>4, <1>5, Halves DEF Diversity, m, n

LEMMA DemandIs ==
    ASSUME NEW F, IsFiniteSet(F), NEW E, E \subseteq F
    PROVE  /\ Rising(DemandEvidence(E), DemandEvidence(F))
  <1> DEFINE a(X) == Sat("2", CountOf(X, {"purchase_intent"}))
             b(X) == Sat("3", CountOf(X, {"demand"}))
             c(X) == Sat("3", CountOf(X, {"adoption"}))
             d(X) == Sat("3", CountOf(X, {"feature_request"}))
             e(X) == Sat("4", CountOf(X, {"workflow", "complaint"}))
  <1>1. "2" \in Scale /\ "3" \in Scale /\ "4" \in Scale
    BY DEF Scale
  <1>2. Rising(a(E), a(F))
    BY <1>1, CountSat
  <1>3. Rising(b(E), b(F))
    BY <1>1, CountSat
  <1>4. Rising(c(E), c(F))
    BY <1>1, CountSat
  <1>5. Rising(d(E), d(F))
    BY <1>1, CountSat
  <1>6. Rising(e(E), e(F))
    BY <1>1, CountSat
  <1>7. Rising(Diversity(E), Diversity(F))
    BY DiversityIs
  <1> DEFINE sum(X) == 30 * a(X) + 25 * b(X) + 15 * c(X) + 10 * d(X) + 10 * e(X) + 10 * Diversity(X)
  <1>8. DemandEvidence(E) = sum(E) \div 100 /\ DemandEvidence(F) = sum(F) \div 100
    BY DEF DemandEvidence
  <1> HIDE DEF a, b, c, d, e
  <1>9. sum(E) \in Int /\ sum(F) \in Int /\ 0 <= sum(E) /\ sum(E) <= sum(F) /\ sum(F) <= 10000
    BY <1>2, <1>3, <1>4, <1>5, <1>6, <1>7 DEF Rising
  <1> HIDE DEF sum
  <1> QED BY <1>8, <1>9, Hundredths

(* Commercial evidence: what is claimed better counts more, and every       *)
(* signal counts.                                                           *)
LEMMA QualityIs ==
    ASSUME NEW F, IsFiniteSet(F), NEW E, E \subseteq F, NEW kinds
    PROVE  Quality(E, kinds) \in Nat /\ Quality(F, kinds) \in Nat
           /\ Quality(E, kinds) <= Quality(F, kinds)
  <1> DEFINE n(X, claims) ==
                Cardinality({s \in X : Trait[s].kind \in kinds /\ Trait[s].claim \in claims})
  <1>1. ASSUME NEW claims
        PROVE  n(E, claims) \in Nat /\ n(F, claims) \in Nat /\ n(E, claims) <= n(F, claims)
    <2> DEFINE of(X) == {s \in X : Trait[s].kind \in kinds /\ Trait[s].claim \in claims}
    <2>1. of(E) \subseteq of(F) /\ of(F) \subseteq F
      OBVIOUS
    <2>2. n(E, claims) = Cardinality(of(E)) /\ n(F, claims) = Cardinality(of(F))
      OBVIOUS
    <2> HIDE DEF of, n
    <2>3. IsFiniteSet(of(F))
      BY <2>1, Parts
    <2> QED BY <2>1, <2>2, <2>3, Parts
  <1>2. \A X : Quality(X, kinds) = 100 * n(X, {"fact"}) + 40 * n(X, {"creator_claim"})
                                     + 20 * n(X, {"inferred", "unknown"})
                                     + 10 * n(X, {"opinion"}) + 5 * n(X, {"speculation"})
    BY DEF Quality
  <1> HIDE DEF n
  <1> QED BY <1>1, <1>2

LEMMA CommercialIs ==
    ASSUME NEW F, IsFiniteSet(F), NEW E, E \subseteq F
    PROVE  Commercial(E) \in Nat /\ Commercial(F) \in Nat /\ Commercial(E) <= Commercial(F)
  <1> DEFINE sum(X) == 100 * Quality(X, {"revenue"}) + 70 * Quality(X, {"pricing"})
                         + 60 * Quality(X, {"customer"}) + 50 * Quality(X, {"adoption"})
  <1>1. sum(E) \in Nat /\ sum(F) \in Nat /\ sum(E) <= sum(F)
    <2>1. \A kinds : Quality(E, kinds) \in Nat /\ Quality(F, kinds) \in Nat
                     /\ Quality(E, kinds) <= Quality(F, kinds)
      BY QualityIs
    <2> QED BY <2>1
  <1>2. Commercial(E) = sum(E) \div 100 /\ Commercial(F) = sum(F) \div 100
    BY DEF Commercial
  <1> HIDE DEF sum
  <1> QED BY <1>1, <1>2

LEMMA RevenueIs ==
    ASSUME NEW F, IsFiniteSet(F), NEW E, E \subseteq F
    PROVE  Rising(RevenueEvidence(E), RevenueEvidence(F))
  <1> DEFINE a(X) == Saturation["3"][Least(Commercial(X), Most)]
             b(X) == Sat("2", Cardinality({s \in X : Trait[s].quantified}))
             sum(X) == 70 * a(X) + 15 * b(X) + 15 * Diversity(X)
  <1>1. "2" \in Scale /\ "3" \in Scale
    BY DEF Scale
  <1>2. Rising(a(E), a(F))
    <2>1. /\ Least(Commercial(E), Most) \in 0 .. Most /\ Least(Commercial(F), Most) \in 0 .. Most
          /\ Least(Commercial(E), Most) <= Least(Commercial(F), Most)
      BY CommercialIs DEF Least, Most
    <2> QED BY <1>1, <2>1, TableIs
  <1>3. Rising(b(E), b(F))
    <2>1. /\ {s \in E : Trait[s].quantified} \subseteq {s \in F : Trait[s].quantified}
          /\ {s \in F : Trait[s].quantified} \subseteq F
      OBVIOUS
    <2>2. IsFiniteSet({s \in F : Trait[s].quantified})
      BY <2>1, Parts
    <2>3. /\ Cardinality({s \in E : Trait[s].quantified}) \in Nat
          /\ Cardinality({s \in F : Trait[s].quantified}) \in Nat
          /\ Cardinality({s \in E : Trait[s].quantified}) <= Cardinality({s \in F : Trait[s].quantified})
      BY <2>1, <2>2, Parts
    <2> QED BY <1>1, <2>3, SatIs
  <1>4. Rising(Diversity(E), Diversity(F))
    BY DiversityIs
  <1>5. RevenueEvidence(E) = sum(E) \div 100 /\ RevenueEvidence(F) = sum(F) \div 100
    BY DEF RevenueEvidence
  <1> HIDE DEF a, b
  <1>6. sum(E) \in Int /\ sum(F) \in Int /\ 0 <= sum(E) /\ sum(E) <= sum(F) /\ sum(F) <= 10000
    BY <1>2, <1>3, <1>4 DEF Rising
  <1> HIDE DEF sum
  <1> QED BY <1>5, <1>6, Hundredths

LEMMA PainIs ==
    ASSUME NEW F, IsFiniteSet(F), NEW E, E \subseteq F
    PROVE  Rising(PainSeverity(E), PainSeverity(F))
  <1> DEFINE a(X) == Sat("4", CountOf(X, {"pain"}))
             b(X) == Sat("4", CountOf(X, {"workflow"}))
             c(X) == Sat("3", Cardinality({s \in X : Trait[s].priced}))
             d(X) == Sat("3", CountOf(X, {"complaint"}))
             e(X) == Sat("2", CountOf(X, {"purchase_intent"}))
             p(X) == IF CountOf(X, {"pain"}) > 0 THEN e(X) ELSE 0
             sum(X) == 30 * a(X) + 20 * b(X) + 20 * c(X) + 15 * d(X) + 15 * p(X)
  <1>1. "2" \in Scale /\ "3" \in Scale /\ "4" \in Scale
    BY DEF Scale
  <1>2. Rising(a(E), a(F))
    BY <1>1, CountSat
  <1>3. Rising(b(E), b(F))
    BY <1>1, CountSat
  <1>4. Rising(c(E), c(F))
    <2>1. /\ {s \in E : Trait[s].priced} \subseteq {s \in F : Trait[s].priced}
          /\ {s \in F : Trait[s].priced} \subseteq F
      OBVIOUS
    <2>2. IsFiniteSet({s \in F : Trait[s].priced})
      BY <2>1, Parts
    <2>3. /\ Cardinality({s \in E : Trait[s].priced}) \in Nat
          /\ Cardinality({s \in F : Trait[s].priced}) \in Nat
          /\ Cardinality({s \in E : Trait[s].priced}) <= Cardinality({s \in F : Trait[s].priced})
      BY <2>1, <2>2, Parts
    <2> QED BY <1>1, <2>3, SatIs
  <1>5. Rising(d(E), d(F))
    BY <1>1, CountSat
  <1>6. Rising(e(E), e(F))
    BY <1>1, CountSat
  <1>7. /\ CountOf(E, {"pain"}) \in Nat /\ CountOf(F, {"pain"}) \in Nat
        /\ CountOf(E, {"pain"}) <= CountOf(F, {"pain"})
    BY CountIs
  <1>8. PainSeverity(E) = sum(E) \div 100 /\ PainSeverity(F) = sum(F) \div 100
    BY DEF PainSeverity
  <1> HIDE DEF a, b, c, d, e
  <1>9. Rising(p(E), p(F))
    BY <1>6, <1>7 DEF Rising
  <1> HIDE DEF p
  <1>10. sum(E) \in Int /\ sum(F) \in Int /\ 0 <= sum(E) /\ sum(E) <= sum(F) /\ sum(F) <= 10000
    BY <1>2, <1>3, <1>4, <1>5, <1>9 DEF Rising
  <1> HIDE DEF sum
  <1> QED BY <1>8, <1>10, Hundredths

-----------------------------------------------------------------------------
(* The formula: the other columns *)

Percent(x) == x \in Int /\ 0 <= x /\ x <= 100

LEMMA ClampIs ==
    ASSUME NEW n \in Int
    PROVE  Percent(Clamp(n))
  BY DEF Clamp, Percent

(* The curve is linear between its points, and every percentage lies        *)
(* between two.                                                             *)
LEMMA CurveIs ==
    ASSUME NEW x \in Int, 0 <= x, x <= 100
    PROVE  Percent(Interpolate(x, WhiteSpaceCurve))
  <1> DEFINE points == WhiteSpaceCurve
             at(i) == x <= points[i + 1][1] /\ \A k \in 1 .. i - 1 : x > points[k + 1][1]
             i == CHOOSE j \in 1 .. Len(points) - 1 : at(j)
  <1>1. /\ Len(points) = 5
        /\ points[1] = <<0, 55>> /\ points[2] = <<25, 85>> /\ points[3] = <<45, 100>>
        /\ points[4] = <<70, 65>> /\ points[5] = <<100, 20>>
    BY DEF WhiteSpaceCurve
  <1>2. /\ points[1][1] = 0 /\ points[2][1] = 25 /\ points[3][1] = 45 /\ points[4][1] = 70
        /\ points[5][1] = 100
        /\ points[1][2] = 55 /\ points[2][2] = 85 /\ points[3][2] = 100 /\ points[4][2] = 65
        /\ points[5][2] = 20
    BY <1>1
  <1>3. Interpolate(x, points) =
          points[i][2] + ((x - points[i][1]) * (points[i + 1][2] - points[i][2]))
                            \div (points[i + 1][1] - points[i][1])
    BY DEF Interpolate
  <1> HIDE DEF points
  <1>4. \E j \in 1 .. 4 : at(j)
    <2>1. CASE x <= 25
      <3>1. at(1)
        BY <1>2, <2>1
      <3> QED BY <3>1
    <2>2. CASE 25 < x /\ x <= 45
      <3>1. at(2)
        BY <1>2, <2>2
      <3> QED BY <3>1
    <2>3. CASE 45 < x /\ x <= 70
      <3>1. at(3)
        BY <1>2, <2>3
      <3> QED BY <3>1
    <2>4. CASE 70 < x
      <3>1. at(4)
        BY <1>2, <2>4
      <3> QED BY <3>1
    <2> QED BY <2>1, <2>2, <2>3, <2>4
  <1>5. i \in 1 .. 4 /\ at(i)
    <2>1. \E j \in 1 .. Len(points) - 1 : at(j)
      BY <1>1, <1>4
    <2> HIDE DEF at
    <2>2. i \in 1 .. Len(points) - 1 /\ at(i)
      BY <2>1, Zenon
    <2> QED BY <1>1, <2>2
  <1>6. x <= points[i + 1][1] /\ \A k \in 1 .. i - 1 : x > points[k + 1][1]
    BY <1>5
  <1> HIDE DEF i, at
  <1>7. CASE i = 1
    <2>1. Interpolate(x, points) = 55 + ((x - 0) * (85 - 55)) \div (25 - 0) /\ x <= 25
      BY <1>2, <1>3, <1>6, <1>7
    <2> QED BY <2>1 DEF points, Percent
  <1>8. CASE i = 2
    <2>1. Interpolate(x, points) = 85 + ((x - 25) * (100 - 85)) \div (45 - 25) /\ 25 < x /\ x <= 45
      <3>1. x > points[1 + 1][1]
        BY <1>6, <1>8
      <3>2. i = 2 /\ i + 1 = 3 /\ x <= points[i + 1][1]
        BY <1>6, <1>8
      <3>3. Interpolate(x, points) =
              points[2][2] + ((x - points[2][1]) * (points[3][2] - points[2][2]))
                                \div (points[3][1] - points[2][1])
        BY <1>3, <3>2
      <3>4. Interpolate(x, points) = 85 + ((x - 25) * (100 - 85)) \div (45 - 25)
        BY <1>2, <3>3
      <3>5. 25 < x /\ x <= 45
        BY <1>2, <3>1, <3>2
      <3> QED BY <3>4, <3>5
    <2>2. ((x - 25) * (100 - 85)) \div (45 - 25) \in 0 .. 15
      <3> DEFINE y == (x - 25) * (100 - 85)
      <3>1. y \in Int /\ 0 <= y /\ y <= 300
        BY <2>1
      <3> HIDE DEF y
      <3>2. y \div (45 - 25) \in 0 .. 15
        BY <3>1
      <3> QED BY <3>2 DEF y
    <2> QED BY <2>1, <2>2 DEF points, Percent
  <1>9. CASE i = 3
    <2>1. Interpolate(x, points) = 100 + ((x - 45) * (65 - 100)) \div (70 - 45) /\ 45 < x /\ x <= 70
      BY <1>2, <1>3, <1>6, <1>9
    <2> QED BY <2>1 DEF points, Percent
  <1>10. CASE i = 4
    <2>1. Interpolate(x, points) = 65 + ((x - 70) * (20 - 65)) \div (100 - 70) /\ 70 < x /\ x <= 100
      BY <1>2, <1>3, <1>6, <1>10
    <2> QED BY <2>1 DEF points, Percent
  <1> QED BY <1>5, <1>7, <1>8, <1>9, <1>10

LEMMA ContextIs ==
    ASSUME NEW c \in ContextRow
    PROVE  Percent(BuildFeasibility(c)) /\ Percent(DistributionEase(c))
  <1>1. c.helpful \in Nat /\ c.hindering \in Nat /\ c.models \in Nat /\ c.channels \in Nat
    BY DEF ContextRow
  <1> DEFINE f == 50 + Least(30, 10 * c.helpful) - Least(40, 20 * c.hindering)
                    - (IF c.regulated THEN 10 ELSE 0)
             d == 50 + (IF c.small THEN 15 ELSE 0) - (IF c.enterprise THEN 15 ELSE 0)
                    - (IF c.government THEN 25 ELSE 0) + 10 * c.models + Least(20, 5 * c.channels)
  <1>2. f \in Int /\ d \in Int
    BY <1>1 DEF Least
  <1>3. /\ BuildFeasibility(c) = IF ~c.technical THEN 50 ELSE Clamp(f)
        /\ DistributionEase(c) = IF ~c.commercial THEN 50 ELSE Clamp(d)
    BY DEF BuildFeasibility, DistributionEase
  <1> HIDE DEF f, d
  <1>4. Percent(Clamp(f)) /\ Percent(Clamp(d)) /\ Percent(50)
    BY <1>2, ClampIs DEF Percent
  <1> QED BY <1>3, <1>4

LEMMA FreshnessIs ==
    ASSUME NEW E, NEW at
    PROVE  Percent(Freshness(E, at))
  <1>1. Freshness(E, at) \in {0, 10, 20, 40, 70, 100}
    BY DEF Freshness
  <1> QED BY <1>1 DEF Percent

(* The qualities weigh at most 100 a signal, and a signal has one.          *)
LEMMA Together ==
    ASSUME NEW F, IsFiniteSet(F), NEW A, NEW B, A \subseteq F, B \subseteq F, A \cap B = {}
    PROVE  /\ A \cup B \subseteq F
           /\ Cardinality(A) \in Nat /\ Cardinality(B) \in Nat
           /\ Cardinality(A \cup B) = Cardinality(A) + Cardinality(B)
           /\ Cardinality(A \cup B) <= Cardinality(F) /\ Cardinality(F) \in Nat
  <1>1. IsFiniteSet(A) /\ IsFiniteSet(B)
    BY Parts
  <1>2. Cardinality(A \cup B) = Cardinality(A) + Cardinality(B) - Cardinality(A \cap B)
    BY <1>1, FS_Union
  <1>3. Cardinality({}) = 0
    BY FS_EmptySet
  <1>4. Cardinality(A) \in Nat /\ Cardinality(B) \in Nat
    BY Parts
  <1>5. A \cup B \subseteq F
    OBVIOUS
  <1>6. Cardinality(A \cup B) <= Cardinality(F) /\ Cardinality(F) \in Nat
    BY <1>5, Parts
  <1> QED BY <1>2, <1>3, <1>4, <1>5, <1>6

LEMMA Share ==
    ASSUME NEW x \in Int, NEW n \in Nat, n # 0, 0 <= x, x <= 100 * n
    PROVE  Percent(x \div n)
  BY DEF Percent

LEMMA QualityBound ==
    ASSUME NEW F, IsFiniteSet(F), NEW kinds
    PROVE  Quality(F, kinds) \in Nat /\ Quality(F, kinds) <= 100 * Cardinality(F)
  <1> DEFINE of(claims) == {s \in F : Trait[s].kind \in kinds /\ Trait[s].claim \in claims}
             a == of({"fact"})
             b == of({"creator_claim"})
             c == of({"inferred", "unknown"})
             d == of({"opinion"})
             e == of({"speculation"})
  <1>1. Quality(F, kinds) = 100 * Cardinality(a) + 40 * Cardinality(b) + 20 * Cardinality(c)
                              + 10 * Cardinality(d) + 5 * Cardinality(e)
    BY DEF Quality
  <1>2. /\ a \subseteq F /\ b \subseteq F /\ c \subseteq F /\ d \subseteq F /\ e \subseteq F
        /\ a \cap b = {} /\ (a \cup b) \cap c = {} /\ (a \cup b \cup c) \cap d = {}
        /\ (a \cup b \cup c \cup d) \cap e = {}
    OBVIOUS
  <1> DEFINE ab == a \cup b
             abc == ab \cup c
             abcd == abc \cup d
  <1>3. ab \cap c = {} /\ abc \cap d = {} /\ abcd \cap e = {}
    BY <1>2
  <1>4. a \subseteq F /\ b \subseteq F /\ c \subseteq F /\ d \subseteq F /\ e \subseteq F
        /\ a \cap b = {}
    BY <1>2
  <1> HIDE DEF a, b, c, d, e
  <1>5. /\ Cardinality(a) \in Nat /\ Cardinality(b) \in Nat /\ ab \subseteq F
        /\ Cardinality(ab) = Cardinality(a) + Cardinality(b)
    BY <1>4, Together
  <1> HIDE DEF ab
  <1>6. /\ Cardinality(c) \in Nat /\ abc \subseteq F
        /\ Cardinality(abc) = Cardinality(ab) + Cardinality(c)
    BY <1>3, <1>4, <1>5, Together
  <1> HIDE DEF abc
  <1>7. /\ Cardinality(d) \in Nat /\ abcd \subseteq F
        /\ Cardinality(abcd) = Cardinality(abc) + Cardinality(d)
    <2>1. abc \subseteq F /\ d \subseteq F /\ abc \cap d = {}
      BY <1>3, <1>4, <1>6
    <2> HIDE DEF abcd
    <2>2. /\ abc \cup d \subseteq F /\ Cardinality(d) \in Nat
          /\ Cardinality(abc \cup d) = Cardinality(abc) + Cardinality(d)
      BY <2>1, Together
    <2> QED BY <2>2 DEF abcd
  <1> HIDE DEF abcd
  <1>8. /\ Cardinality(e) \in Nat /\ Cardinality(F) \in Nat
        /\ Cardinality(abcd) + Cardinality(e) <= Cardinality(F)
    <2>1. Cardinality(abcd \cup e) = Cardinality(abcd) + Cardinality(e)
          /\ Cardinality(abcd \cup e) <= Cardinality(F)
          /\ Cardinality(e) \in Nat /\ Cardinality(F) \in Nat
      BY <1>3, <1>4, <1>7, Together
    <2> QED BY <2>1
  <1> QED BY <1>1, <1>5, <1>6, <1>7, <1>8

LEMMA ConfidenceIs ==
    ASSUME NEW E, IsFiniteSet(E), NEW at
    PROVE  Percent(Confidence(E, at))
  <1> DEFINE a == Sat("8", Cardinality(E))
             b == SourceDiversity(E)
             c == Freshness(E, at)
             d == ClaimQuality(E)
             e == Agreement(E)
             sum == 25 * a + 25 * b + 20 * c + 15 * d + 15 * e
  <1>1. Cardinality(E) \in Nat /\ (E # {} => Cardinality(E) # 0)
    BY Parts, FS_EmptySet
  <1>2. Percent(a)
    BY <1>1, SatIs DEF Scale, Rising, Percent
  <1>3. Percent(b)
    <2>1. Diversity(E) \in Int /\ 0 <= Diversity(E) /\ Diversity(E) <= 100
      BY DiversityIs DEF Rising
    <2> QED BY <2>1 DEF SourceDiversity, Least, Percent
  <1>4. Percent(c)
    BY FreshnessIs
  <1>5. Percent(d)
    <2>1. CASE E = {}
      BY <2>1 DEF ClaimQuality, Percent
    <2>2. CASE E # {}
      <3> DEFINE q == Quality(E, {Trait[s].kind : s \in E})
                 n == Cardinality(E)
      <3>1. q \in Nat /\ q <= 100 * n /\ n \in Nat /\ n # 0
        BY <1>1, <2>2, QualityBound
      <3>2. d = q \div n
        BY <2>2 DEF ClaimQuality
      <3> HIDE DEF q, n, d
      <3> QED BY <3>1, <3>2, Share
    <2> QED BY <2>1, <2>2
  <1>6. Percent(e)
    <2>1. CASE \A s \in E : ~Trait[s].contradicting
      BY <2>1 DEF Agreement, Percent
    <2>2. CASE ~ \A s \in E : ~Trait[s].contradicting
      <3> DEFINE q == Cardinality({s \in E : ~Trait[s].contradicting})
                 n == Cardinality(E)
      <3>1. q \in Nat /\ q <= n /\ n \in Nat /\ n # 0
        <4>1. {s \in E : ~Trait[s].contradicting} \subseteq E /\ E # {}
          BY <2>2
        <4> QED BY <1>1, <4>1, Parts
      <3>2. e = (100 * q) \div n
        BY <2>2 DEF Agreement
      <3> HIDE DEF q, n, e
      <3>3. 100 * q \in Int /\ 0 <= 100 * q /\ 100 * q <= 100 * n
        BY <3>1
      <3> QED BY <3>1, <3>2, <3>3, Share
    <2> QED BY <2>1, <2>2
  <1>7. Confidence(E, at) = sum \div 100
    BY DEF Confidence
  <1> HIDE DEF a, b, c, d, e
  <1>8. sum \in Int /\ 0 <= sum /\ sum <= 10000
    BY <1>2, <1>3, <1>4, <1>5, <1>6 DEF Percent
  <1> HIDE DEF sum
  <1> QED BY <1>7, <1>8, Hundredths DEF Rising, Percent

(* The logarithms of every count of a window are in the table.              *)
LEMMA PeriodIs ==
    ASSUME NEW E \in SUBSET Signal, NEW from, NEW to
    PROVE  /\ HasLog(Cardinality(Period(E, from, to).counted)) /\ HasLog(Period(E, from, to).new)
           /\ HasLog(Period(E, from, to).videos) /\ HasLog(Period(E, from, to).views)
  <1> DEFINE counted == Within(E, from, to)
             videos == VideosOf(counted)
             new == {v \in videos : from <= VideoTrait[v].seen /\ VideoTrait[v].seen < to}
  <1>1. /\ Period(E, from, to).counted = counted /\ Period(E, from, to).new = Cardinality(new)
        /\ Period(E, from, to).videos = Cardinality(videos)
        /\ Period(E, from, to).views = Views(videos)
    BY DEF Period
  <1>2. counted \in SUBSET Signal
    BY DEF Within
  <1>3. videos \in SUBSET VideosOf(Signal)
    BY <1>2 DEF VideosOf
  <1>4. new \in SUBSET VideosOf(Signal)
    BY <1>3
  <1> HIDE DEF counted, videos, new
  <1> QED BY <1>1, <1>2, <1>3, <1>4, EvidenceAssumption

LEMMA GrowthIs ==
    ASSUME NEW m, NEW n, HasLog(m), HasLog(n)
    PROVE  Percent(Growth(m, n))
  <1>1. LogTable[m + 1] \in Int /\ LogTable[n + 1] \in Int
    BY FormulaAssumption DEF HasLog
  <1>2. 50 + LogTable[m + 1] - LogTable[n + 1] \in Int
    BY <1>1
  <1> QED BY <1>2, ClampIs DEF Growth

(* What the score reads of a trend. *)
Metered(trend) == Percent(trend.momentum) /\ trend.videos \in Nat /\ trend.views \in Nat

LEMMA TrendIs ==
    ASSUME NEW E \in SUBSET Signal, NEW from, NEW to
    PROVE  Metered(TrendOf(E, from, to))
  <1> DEFINE p == Period(E, from, to)
             q == Period(E, from - (to - from), from)
             history == \E s \in E : Trait[s].at < from
             a == Growth(Cardinality(p.counted), Cardinality(q.counted))
             b == Growth(p.new, q.new)
             c == Growth(p.videos, q.videos)
             d == IF p.captured /\ q.captured THEN Growth(p.views, q.views) ELSE 50
             sum == 35 * a + 30 * b + 20 * c + 15 * d
  <1>1. /\ TrendOf(E, from, to).momentum = Momentum(p, q, history)
        /\ TrendOf(E, from, to).videos = p.videos /\ TrendOf(E, from, to).views = p.views
    BY DEF TrendOf
  <1>2. /\ HasLog(Cardinality(p.counted)) /\ HasLog(p.new) /\ HasLog(p.videos) /\ HasLog(p.views)
        /\ HasLog(Cardinality(q.counted)) /\ HasLog(q.new) /\ HasLog(q.videos) /\ HasLog(q.views)
    BY PeriodIs
  <1> HIDE DEF p, q, history
  <1>3. Percent(a) /\ Percent(b) /\ Percent(c) /\ Percent(Growth(p.views, q.views))
    BY <1>2, GrowthIs
  <1>4. Percent(d)
    BY <1>3 DEF Percent
  <1>5. Momentum(p, q, history) = IF ~history THEN 50 ELSE sum \div 100
    BY DEF Momentum
  <1> HIDE DEF a, b, c, d
  <1>6. sum \in Int /\ 0 <= sum /\ sum <= 10000
    BY <1>3, <1>4 DEF Percent
  <1> HIDE DEF sum
  <1>7. Percent(sum \div 100)
    BY <1>6, Hundredths DEF Rising, Percent
  <1>8. Percent(Momentum(p, q, history))
    BY <1>5, <1>7 DEF Percent
  <1> QED BY <1>1, <1>2, <1>8 DEF Metered, HasLog

(* What the CHECKs on the columns of a score demand. *)
Graded(value) == \A part \in DOMAIN value : value[part] \in 0 .. 100

LEMMA ScoreIs ==
    ASSUME NEW c \in ContextRow, NEW E, IsFiniteSet(E), NEW trend, Metered(trend), NEW at
    PROVE  Graded(ScoreOf(c, E, trend, at))
  <1> DEFINE velocity == trend.momentum
             demand == DemandEvidence(E)
             revenue == RevenueEvidence(E)
             pain == PainSeverity(E)
             attention == (40 * velocity + 30 * Sat("5", trend.videos)
                             + 30 * Sat("views", trend.views)) \div 100
             commercial == (40 * demand + 30 * revenue + 30 * pain) \div 100
             white == WhiteSpace(E)
             feasibility == BuildFeasibility(c)
             distribution == DistributionEase(c)
             sum == 20 * velocity + 20 * demand + 15 * revenue + 15 * pain + 10 * white
                      + 10 * feasibility + 10 * distribution
             opportunity == sum \div 100
             confidence == Confidence(E, at)
             hype == Clamp(50 + (60 * (attention - commercial)) \div 100)
             value == [velocity |-> velocity, demand |-> demand, revenue |-> revenue, pain |-> pain,
                       whiteSpace |-> white, feasibility |-> feasibility,
                       distribution |-> distribution, opportunity |-> opportunity,
                       confidence |-> confidence, hype |-> hype]
  <1>1. ScoreOf(c, E, trend, at) = value
    BY DEF ScoreOf
  <1>2. Percent(velocity)
    BY DEF Metered
  <1>3. Percent(demand) /\ Percent(revenue) /\ Percent(pain)
    BY DemandIs, RevenueIs, PainIs DEF Rising, Percent
  <1>4. Percent(feasibility) /\ Percent(distribution)
    BY ContextIs
  <1>5. Percent(confidence)
    BY ConfidenceIs
  <1>6. Percent(white)
    <2> DEFINE x == Sat("5", CountOf(E, {"competition", "product_launch"}))
    <2>1. "5" \in Scale
      BY DEF Scale
    <2>2. x \in Int /\ 0 <= x /\ x <= 100
      BY <2>1, CountSat DEF Rising
    <2>3. white = Interpolate(x, WhiteSpaceCurve)
      BY DEF WhiteSpace
    <2> HIDE DEF x, white
    <2> QED BY <2>2, <2>3, CurveIs
  <1>7. attention \in Int /\ commercial \in Int
    <2> DEFINE v == Sat("5", trend.videos)
               w == Sat("views", trend.views)
               top == 40 * velocity + 30 * v + 30 * w
               base == 40 * demand + 30 * revenue + 30 * pain
    <2>1. "5" \in Scale /\ "views" \in Scale /\ trend.videos \in Nat /\ trend.views \in Nat
      BY DEF Scale, Metered
    <2>2. Percent(v) /\ Percent(w)
      BY <2>1, SatIs DEF Rising, Percent
    <2>3. attention = top \div 100 /\ commercial = base \div 100
      OBVIOUS
    <2> HIDE DEF v, w, velocity, demand, revenue, pain, attention, commercial
    <2>4. top \in Int /\ base \in Int
      BY <1>2, <1>3, <2>2 DEF Percent
    <2> HIDE DEF top, base
    <2> QED BY <2>3, <2>4
  <1>8. Percent(hype)
    <2>1. 50 + (60 * (attention - commercial)) \div 100 \in Int
      <3> HIDE DEF attention, commercial
      <3> QED BY <1>7
    <2> QED BY <2>1, ClampIs
  <1> HIDE DEF velocity, demand, revenue, pain, white, feasibility, distribution, confidence, hype
  <1>9. Percent(opportunity)
    <2>1. sum \in Int /\ 0 <= sum /\ sum <= 10000
      BY <1>2, <1>3, <1>4, <1>6 DEF Percent
    <2> HIDE DEF sum
    <2> QED BY <2>1, Hundredths DEF Rising, Percent
  <1> HIDE DEF opportunity
  <1>10. Graded(value)
    BY <1>2, <1>3, <1>4, <1>5, <1>6, <1>8, <1>9 DEF Graded, Percent
  <1> QED BY <1>1, <1>10

-----------------------------------------------------------------------------
(* Scores: what a job has read and stored can be scored *)

(* A trend row is of a window, which has ended. *)
Dated(window, trend) ==
    window \in Window /\ trend.to \in Int /\ trend.to <= MaxTime /\ Metered(trend)

Scorable(j) == j.opp \in Opportunity /\ j.input.signals \in SUBSET Signal /\ Metered(j.input.trend)

ScoreInv ==
    /\ now \in 0 .. MaxTime
    /\ \A o \in Opportunity : \A r \in snapshot[o] : Dated(r.window, r)
    /\ score = [o \in Opportunity |-> score[o]]
    /\ \A o \in Opportunity : \A r \in score[o] : Graded(r.value)
    /\ \A k \in Calculation :
          /\ Aggregating(k) => Dated(calc[k].window, calc[k].trend)
          /\ calc[k].phase = "scored" => Scorable(calc[k])

LEMMA Smallest ==
    ASSUME NEW S \in SUBSET Nat, S # {}
    PROVE  \E n \in S : \A m \in S : n <= m
  <1>1. IsWellFoundedOn(OpToRel(<, Nat), Nat)
    BY NatLessThanWellFounded
  <1>2. PICK x \in S : \A y \in S : ~(<<y, x>> \in OpToRel(<, Nat))
    BY <1>1, WFMin
  <1>3. ASSUME NEW y \in S PROVE x <= y
    <2>1. ~(y < x)
      BY <1>2 DEF OpToRel
    <2> QED BY <2>1
  <1> QED BY <1>3

(* Of the rows that a set of ends bounds there is a latest. *)
LEMMA Latest ==
    ASSUME NEW T \in SUBSET Int, T # {}, \A t \in T : t <= MaxTime
    PROVE  \E t \in T : \A u \in T : u <= t
  <1> DEFINE D == {MaxTime - t : t \in T}
  <1>1. MaxTime \in Nat
    BY TrendAssumption
  <1>2. D \in SUBSET Nat /\ D # {}
    <2>1. ASSUME NEW t \in T PROVE MaxTime - t \in Nat
      <3>1. t \in Int /\ t <= MaxTime
        OBVIOUS
      <3> QED BY <1>1, <3>1
    <2> QED BY <2>1
  <1>3. PICK d \in D : \A c \in D : d <= c
    <2> HIDE DEF D
    <2> QED BY <1>2, Smallest
  <1>4. PICK t \in T : d = MaxTime - t
    BY <1>3
  <1>5. ASSUME NEW u \in T PROVE u <= t
    <2>1. MaxTime - t <= MaxTime - u /\ t \in Int /\ u \in Int
      BY <1>3, <1>4, <1>5
    <2> QED BY <1>1, <2>1
  <1> QED BY <1>4, <1>5

(* There is a shortest window with a row, and a latest row of it: the score  *)
(* reads a stored row whenever there is one.                                *)
LEMMA SelectedIs ==
    ASSUME ScoreInv, NEW o \in Opportunity
    PROVE  Metered(SelectedTrend(o))
  <1>1. CASE snapshot[o] = {}
    <2>1. SelectedTrend(o) = NoTrend
      BY <1>1 DEF SelectedTrend
    <2> QED BY <2>1 DEF NoTrend, Metered, Percent
  <1>2. CASE snapshot[o] # {}
    <2> DEFINE first(i) ==
                  /\ \E r \in snapshot[o] : r.window = WindowOrder[i]
                  /\ \A r \in snapshot[o] : \A k \in 1 .. i - 1 : r.window # WindowOrder[k]
               I == {i \in DOMAIN WindowOrder : \E r \in snapshot[o] : r.window = WindowOrder[i]}
               w == WindowOrder[CHOOSE i \in DOMAIN WindowOrder : first(i)]
               latest(r) == r.window = w /\ \A q \in snapshot[o] : q.window = w => q.to <= r.to
    <2>1. \A r \in snapshot[o] : Dated(r.window, r)
      BY DEF ScoreInv
    <2>2. DOMAIN WindowOrder \subseteq Nat /\ \A i \in DOMAIN WindowOrder : 1 .. i - 1 \subseteq DOMAIN WindowOrder
      <3>1. WindowOrder \in Seq(DOMAIN WindowLength)
        BY TrendAssumption
      <3>2. DOMAIN WindowOrder = 1 .. Len(WindowOrder) /\ Len(WindowOrder) \in Nat
        BY <3>1
      <3> QED BY <3>2
    <2>3. I \in SUBSET Nat /\ I # {}
      <3>1. PICK r \in snapshot[o] : TRUE
        BY <1>2
      <3>2. r.window \in DOMAIN WindowLength
        BY <2>1 DEF Dated, Window
      <3> QED BY <2>2, <3>2, TrendAssumption
    <2>4. PICK i \in I : \A m \in I : i <= m
      <3> HIDE DEF I
      <3> QED BY <2>3, Smallest
    <2>5. first(i)
      <3>1. ASSUME NEW r \in snapshot[o], NEW k \in 1 .. i - 1, r.window = WindowOrder[k]
            PROVE  FALSE
        <4>1. k \in I
          BY <2>2, <3>1
        <4>2. i <= k /\ i \in Nat
          BY <2>3, <2>4, <4>1
        <4> QED BY <4>2
      <3> QED BY <3>1
    <2>6. \E j \in DOMAIN WindowOrder : first(j)
      BY <2>5
    <2> HIDE DEF first
    <2>7. first(CHOOSE j \in DOMAIN WindowOrder : first(j))
      BY <2>6
    <2>8. \E r \in snapshot[o] : r.window = w
      BY <2>7 DEF first
    <2> DEFINE ofw == {r \in snapshot[o] : r.window = w}
               T == {r.to : r \in ofw}
    <2> HIDE DEF w
    <2>9. T \in SUBSET Int /\ T # {} /\ \A t \in T : t <= MaxTime
      BY <2>1, <2>8 DEF Dated
    <2>10. PICK t \in T : \A u \in T : u <= t
      <3> HIDE DEF T
      <3> QED BY <2>9, Latest
    <2>11. \E r \in snapshot[o] : latest(r)
      BY <2>10
    <2>12. SelectedTrend(o) = CHOOSE r \in snapshot[o] : latest(r)
      BY <1>2 DEF SelectedTrend, w, first
    <2> HIDE DEF latest
    <2>13. SelectedTrend(o) \in snapshot[o]
      BY <2>11, <2>12
    <2> QED BY <2>1, <2>13 DEF Dated
  <1> QED BY <1>1, <1>2

-----------------------------------------------------------------------------
(* Scores: the actions *)

LEMMA JobHolds ==
    ASSUME TrendInv, ScoreInv, NEW k \in Calculation, NEW j, calc' = [calc EXCEPT ![k] = j],
           UNCHANGED <<now, snapshot, score>>,
           j.phase \in {"counted", "insert", "update"} => Dated(j.window, j.trend),
           j.phase = "scored" => Scorable(j)
    PROVE  ScoreInv'
  <1>1. calc' = [i \in Calculation |-> IF i = k THEN j ELSE calc[i]]
    BY DEF TrendInv
  <1>2. ASSUME NEW i \in Calculation
        PROVE  /\ Aggregating(i)' => Dated(calc'[i].window, calc'[i].trend)
               /\ calc'[i].phase = "scored" => Scorable(calc'[i])
    <2>1. CASE i = k
      <3>1. calc'[i] = j
        BY <1>1, <2>1
      <3> QED BY <3>1 DEF Aggregating
    <2>2. CASE i # k
      <3>1. calc'[i] = calc[i]
        BY <1>1, <2>2
      <3> QED BY <3>1 DEF Aggregating, ScoreInv
    <2> QED BY <2>1, <2>2
  <1>3. UNCHANGED <<now, snapshot, score>>
    OBVIOUS
  <1> QED BY <1>2, <1>3 DEF ScoreInv

LEMMA AggregateScored ==
    ASSUME CaseInv, TrendInv, ScoreInv, NEW k \in Calculation, NEW o \in Opportunity,
           NEW w \in Window, NEW force \in BOOLEAN, Aggregate(k, o, w, force)
    PROVE  ScoreInv'
  <1> DEFINE p == Boundaries(w, now)
             trend == TrendOf(evidence[o], p[1], p[2])
             j == [phase |-> "counted", opp |-> o, window |-> w, trend |-> trend]
  <1>1. calc' = [calc EXCEPT ![k] = j] /\ UNCHANGED <<now, snapshot, score>>
    BY DEF Aggregate
  <1>2. Dated(w, trend)
    <2>1. evidence[o] \in SUBSET Signal
      BY DEF CaseInv
    <2>2. p[2] \in Int /\ p[2] <= MaxTime
      <3>1. now \in Int /\ 0 <= now /\ now <= MaxTime /\ Hour \in Nat /\ Hour # 0 /\ MaxTime \in Nat
        BY TrendAssumption DEF ScoreInv
      <3>2. Floor(now) \in Int /\ Floor(now) <= now
        <4>1. now % Hour \in Nat
          BY <3>1
        <4> QED BY <3>1, <4>1 DEF Floor
      <3>3. p[2] = Floor(now)
        BY DEF Boundaries
      <3> QED BY <3>1, <3>2, <3>3
    <2> HIDE DEF p
    <2>3. Metered(trend)
      BY <2>1, TrendIs
    <2>4. trend.to = p[2]
      BY DEF TrendOf
    <2> HIDE DEF trend
    <2> QED BY <2>2, <2>3, <2>4 DEF Dated
  <1> HIDE DEF trend
  <1>3. /\ j.phase \in {"counted", "insert", "update"} => Dated(j.window, j.trend)
        /\ j.phase # "scored"
    BY <1>2
  <1> HIDE DEF j
  <1> QED BY <1>1, <1>3, JobHolds

LEMMA LookForSnapshotScored ==
    ASSUME TrendInv, ScoreInv, NEW k \in Calculation, LookForSnapshot(k)
    PROVE  ScoreInv'
  <1> DEFINE phase == IF SamePeriod(calc[k]) = {} THEN "insert" ELSE "update"
             old == calc[k]
             j == [phase |-> phase, opp |-> old.opp, window |-> old.window, trend |-> old.trend]
  <1>1. /\ calc[k].phase = "counted" /\ calc' = [calc EXCEPT ![k].phase = phase]
        /\ UNCHANGED <<now, snapshot, score>> /\ phase # "scored"
    BY DEF LookForSnapshot
  <1>2. AggregationOK(old) /\ Dated(old.window, old.trend)
    BY <1>1 DEF TrendInv, ScoreInv, Aggregating
  <1> HIDE DEF phase
  <1>3. [old EXCEPT !.phase = phase] = j
    <2>1. old = [phase |-> old.phase, opp |-> old.opp, window |-> old.window, trend |-> old.trend]
      BY <1>2 DEF AggregationOK
    <2> QED BY <2>1
  <1>4. calc' = [calc EXCEPT ![k] = j]
    BY <1>1, <1>3 DEF TrendInv
  <1>5. Dated(j.window, j.trend) /\ j.phase # "scored"
    BY <1>1, <1>2
  <1> HIDE DEF j
  <1> QED BY <1>1, <1>4, <1>5, JobHolds

LEMMA WriteSnapshotScored ==
    ASSUME TrendInv, ScoreInv, NEW k \in Calculation, WriteSnapshot(k)
    PROVE  ScoreInv'
  <1> DEFINE j == calc[k]
             rows == IF j.phase = "insert" /\ SamePeriod(j) # {} THEN snapshot[j.opp]
                     ELSE (snapshot[j.opp] \ SamePeriod(j)) \cup {RowOf(j)}
  <1>1. /\ j.phase \in {"insert", "update"} /\ snapshot' = [snapshot EXCEPT ![j.opp] = rows]
        /\ calc' = [calc EXCEPT ![k] = NoCalc] /\ UNCHANGED <<now, score>>
    BY DEF WriteSnapshot
  <1>2. Dated(j.window, j.trend)
    BY <1>1 DEF ScoreInv, Aggregating
  <1>3. Dated(RowOf(j).window, RowOf(j))
    <2>1. /\ RowOf(j).window = j.window /\ RowOf(j).to = j.trend.to
          /\ RowOf(j).momentum = j.trend.momentum
          /\ RowOf(j).videos = j.trend.videos /\ RowOf(j).views = j.trend.views
      BY DEF RowOf
    <2> QED BY <1>2, <2>1 DEF Dated, Metered
  <1>4. rows \subseteq snapshot[j.opp] \cup {RowOf(j)}
    OBVIOUS
  <1> HIDE DEF rows
  <1>5. snapshot' = [o \in Opportunity |-> IF o = j.opp THEN rows ELSE snapshot[o]]
    BY <1>1 DEF TrendInv
  <1> HIDE DEF j
  <1>6. \A o \in Opportunity : \A r \in snapshot'[o] : Dated(r.window, r)
    BY <1>3, <1>4, <1>5 DEF ScoreInv
  <1>7. calc' = [i \in Calculation |-> IF i = k THEN NoCalc ELSE calc[i]] /\ NoCalc.phase = "none"
    BY <1>1 DEF TrendInv, NoCalc
  <1>8. ASSUME NEW i \in Calculation
        PROVE  /\ Aggregating(i)' => Dated(calc'[i].window, calc'[i].trend)
               /\ calc'[i].phase = "scored" => Scorable(calc'[i])
    <2>1. CASE i = k
      BY <1>7, <2>1 DEF Aggregating
    <2>2. CASE i # k
      <3>1. calc'[i] = calc[i]
        BY <1>7, <2>2
      <3> QED BY <3>1 DEF Aggregating, ScoreInv
    <2> QED BY <2>1, <2>2
  <1> QED BY <1>1, <1>6, <1>8 DEF ScoreInv

LEMMA StartScoreScored ==
    ASSUME CaseInv, TrendInv, ScoreInv, NEW k \in Calculation, NEW o \in Opportunity,
           NEW force \in BOOLEAN, StartScore(k, o, force)
    PROVE  ScoreInv'
  <1> DEFINE input == [at |-> IF force THEN now ELSE Floor(now), signals |-> evidence[o],
                       trend |-> SelectedTrend(o)]
             j == [phase |-> "scored", opp |-> o, input |-> input]
  <1>1. calc' = [calc EXCEPT ![k] = j] /\ UNCHANGED <<now, snapshot, score>>
    BY DEF StartScore
  <1>2. Scorable(j) /\ j.phase = "scored"
    <2>1. evidence[o] \in SUBSET Signal
      BY DEF CaseInv
    <2>2. Metered(SelectedTrend(o))
      BY SelectedIs
    <2> QED BY <2>1, <2>2 DEF Scorable
  <1> HIDE DEF j
  <1> QED BY <1>1, <1>2, JobHolds

LEMMA SaveScoreScored ==
    ASSUME TrendInv, ScoreInv, NEW k \in Calculation, SaveScore(k)
    PROVE  ScoreInv'
  <1> DEFINE j == calc[k]
             new == ScoreRow(j.opp, j.input)
             rows == IF ScoreRefused(j) THEN score[j.opp] ELSE score[j.opp] \cup {new}
  <1>1. /\ j.phase = "scored" /\ calc' = [calc EXCEPT ![k] = NoCalc] /\ UNCHANGED <<now, snapshot>>
        /\ score' = IF ScoreRefused(j) THEN score
                    ELSE [score EXCEPT ![j.opp] = @ \cup {new}]
    BY DEF SaveScore
  <1>2. Scorable(j) /\ score = [o \in Opportunity |-> score[o]]
    BY <1>1 DEF ScoreInv
  <1>3. Graded(new.value)
    <2>1. IsFiniteSet(j.input.signals) /\ ContextOf[j.opp] \in ContextRow
      BY <1>2, FS_Subset, EvidenceAssumption DEF Scorable
    <2>2. new.value = ScoreOf(ContextOf[j.opp], j.input.signals, j.input.trend, j.input.at)
      BY DEF ScoreRow
    <2> HIDE DEF new, j
    <2> QED BY <1>2, <2>1, <2>2, ScoreIs DEF Scorable
  <1> HIDE DEF new
  <1>4. score' = [o \in Opportunity |-> IF o = j.opp THEN rows ELSE score[o]]
    BY <1>1, <1>2 DEF Scorable
  <1>5. rows \subseteq score[j.opp] \cup {new}
    OBVIOUS
  <1> HIDE DEF rows, j
  <1>6. \A o \in Opportunity : \A r \in score'[o] : Graded(r.value)
    BY <1>3, <1>4, <1>5 DEF ScoreInv
  <1>7. calc' = [i \in Calculation |-> IF i = k THEN NoCalc ELSE calc[i]] /\ NoCalc.phase = "none"
    BY <1>1 DEF TrendInv, NoCalc
  <1>8. ASSUME NEW i \in Calculation
        PROVE  /\ Aggregating(i)' => Dated(calc'[i].window, calc'[i].trend)
               /\ calc'[i].phase = "scored" => Scorable(calc'[i])
    <2>1. CASE i = k
      BY <1>7, <2>1 DEF Aggregating
    <2>2. CASE i # k
      <3>1. calc'[i] = calc[i]
        BY <1>7, <2>2
      <3> QED BY <3>1 DEF Aggregating, ScoreInv
    <2> QED BY <2>1, <2>2
  <1>9. score' = [o \in Opportunity |-> score'[o]]
    BY <1>4
  <1> QED BY <1>1, <1>6, <1>8, <1>9 DEF ScoreInv

LEMMA ScoresHold ==
    ASSUME IInv, ScoreInv, [Next]_vars
    PROVE  ScoreInv'
  <1>1. CASE UNCHANGED trendVars
    BY <1>1 DEF ScoreInv, trendVars, Aggregating
  <1>2. CASE Tick
    <2>1. now' \in 0 .. MaxTime /\ UNCHANGED <<snapshot, score, calc>>
      BY <1>2, TrendAssumption DEF Tick, ScoreInv
    <2> QED BY <2>1 DEF ScoreInv, Aggregating
  <1>3. ASSUME NEW k \in Calculation,
               \/ LookForSnapshot(k) \/ WriteSnapshot(k) \/ SaveScore(k)
               \/ \E o \in Opportunity, force \in BOOLEAN :
                     StartScore(k, o, force) \/ \E w \in Window : Aggregate(k, o, w, force)
        PROVE  ScoreInv'
    BY <1>3, LookForSnapshotScored, WriteSnapshotScored, SaveScoreScored, StartScoreScored,
       AggregateScored DEF IInv
  <1> QED BY <1>1, <1>2, <1>3 DEF Next, TrendStep, vars

LEMMA InitScored == Init => ScoreInv
  <1> SUFFICES ASSUME Init PROVE ScoreInv
    OBVIOUS
  <1>1. /\ now \in 0 .. MaxTime
        /\ \A o \in Opportunity : snapshot[o] = {} /\ score[o] = {}
        /\ score = [o \in Opportunity |-> score[o]]
        /\ \A k \in Calculation : calc[k].phase = "none"
    BY DEF Init, NoCalc
  <1> QED BY <1>1 DEF ScoreInv, Aggregating

(* Every score row that is stored holds percentages only, whichever trend    *)
(* row and evidence it was computed from, and one more signal never lowers   *)
(* what the evidence says of demand, revenue and pain.                      *)
THEOREM ScoresInRangeCorrect == Spec => []ScoresInRange
  <1>1. IInv /\ ScoreInv => ScoresInRange
    <2> SUFFICES ASSUME IInv, ScoreInv PROVE ScoresInRange
      OBVIOUS
    <2>1. \A o \in Opportunity : \A r \in score[o] : \A part \in DOMAIN r.value : r.value[part] \in 0 .. 100
      BY DEF ScoreInv, Graded
    <2>2. ASSUME NEW o \in Opportunity, NEW s \in Signal
          PROVE  LET more == evidence[o] \cup {s}
                 IN /\ DemandEvidence(evidence[o]) <= DemandEvidence(more)
                    /\ RevenueEvidence(evidence[o]) <= RevenueEvidence(more)
                    /\ PainSeverity(evidence[o]) <= PainSeverity(more)
      <3> DEFINE E == evidence[o]
                 F == E \cup {s}
      <3>1. E \subseteq F /\ F \in SUBSET Signal
        BY DEF IInv, CaseInv
      <3>2. IsFiniteSet(F)
        BY <3>1, FS_Subset, EvidenceAssumption
      <3> HIDE DEF E, F
      <3>3. /\ DemandEvidence(E) <= DemandEvidence(F) /\ RevenueEvidence(E) <= RevenueEvidence(F)
            /\ PainSeverity(E) <= PainSeverity(F)
        BY <3>1, <3>2, DemandIs, RevenueIs, PainIs DEF Rising
      <3> QED BY <3>3 DEF E, F
    <2> QED BY <2>1, <2>2 DEF ScoresInRange
  <1>2. ScoreInv /\ IInv /\ [Next]_vars => ScoreInv'
    BY ScoresHold
  <1> QED BY <1>1, <1>2, InitScored, InvCorrect, PTL DEF Spec
=============================================================================
