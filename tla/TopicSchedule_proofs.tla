----------------------- MODULE TopicSchedule_proofs ------------------------
(***************************************************************************)
(* Proofs about TopicSchedule, for any number of topics, schedules and     *)
(* queries: its types, and that the scheduler runs no topic twice within   *)
(* its period.                                                             *)
(***************************************************************************)
EXTENDS TopicSchedule, TLAPS

LEMMA MaxOfTwo ==
    ASSUME NEW a \in Int, NEW b \in Int
    PROVE  Max({a, b}) = IF a >= b THEN a ELSE b
  <1>1. \E x \in {a, b} : \A y \in {a, b} : x >= y
    OBVIOUS
  <1>2. Max({a, b}) \in {a, b} /\ \A y \in {a, b} : Max({a, b}) >= y
    BY <1>1, Zenon DEF Max
  <1> QED BY <1>2

LEMMA RestIs ==
    ASSUME NEW schedule \in Schedule, NEW age \in Nat
    PROVE  /\ Rest(schedule, age) \in Nat
           /\ schedule # "manual" =>
                 /\ schedule \in DOMAIN Interval /\ Interval[schedule] \in Nat \ {0}
                 /\ Rest(schedule, age) = IF 0 >= Interval[schedule] - age THEN 0
                                          ELSE Interval[schedule] - age
  <1>2. CASE schedule = "manual"
    BY <1>2 DEF Rest
  <1>3. CASE schedule # "manual"
    <2>1. schedule \in DOMAIN Interval /\ Interval[schedule] \in Nat \ {0}
      BY <1>3, ScheduleAssumption DEF Schedule
    <2>2. Interval[schedule] - age \in Int
      BY <2>1
    <2>3. Rest(schedule, age) = Max({0, Interval[schedule] - age})
      BY <1>3 DEF Rest
    <2> QED BY <2>1, <2>2, <2>3, MaxOfTwo
  <1> QED BY <1>2, <1>3

LEMMA NextRunType ==
    ASSUME NEW schedule \in Schedule, NEW age \in Nat
    PROVE  NextRun(schedule, age) \in Int \cup {Never}
  BY ScheduleAssumption DEF NextRun, Schedule

-----------------------------------------------------------------------------
(* Edits and batches: one topic changes, the callback does not *)

LEMMA EditStep ==
    ASSUME ScheduleInv, NEW t \in ScheduledTopic, NEW row \in TopicRow,
           topic' = [topic EXCEPT ![t] = row], UNCHANGED round,
           seen' \in BOOLEAN, patches' \in Nat, trouble' \in Nat,
           \/ row.early = 0
           \/ /\ row.next = topic[t].next /\ row.early = topic[t].early
              /\ row.schedule = topic[t].schedule
    PROVE  ScheduleInv'
  <1>1. topic'[t] = row /\ \A u \in ScheduledTopic \ {t} : topic'[u] = topic[u]
    BY DEF ScheduleInv, ScheduleTypeOK
  <1>2. ScheduleTypeOK'
    BY DEF ScheduleInv, ScheduleTypeOK
  <1>3. RoundInOrder' /\ Served' = Served
    BY DEF ScheduleInv, RoundInOrder, Served
  <1>4. EarlyIsNotDue'
    BY <1>1, <1>3 DEF ScheduleInv, EarlyIsNotDue
  <1>5. TodoIsDue'
    BY <1>1 DEF ScheduleInv, TodoIsDue
  <1>6. ServedIsTimed'
    <2>1. ASSUME NEW u \in Served
          PROVE  \/ topic'[u].early = 0
                 \/ topic'[u].early = topic[u].early /\ topic'[u].schedule = topic[u].schedule
      BY <1>1 DEF ScheduleInv, ScheduleTypeOK, RoundRow, Served
    <2> QED BY <1>3, <2>1 DEF ScheduleInv, ServedIsTimed
  <1> QED BY <1>2, <1>3, <1>4, <1>5, <1>6 DEF ScheduleInv

LEMMA PatchStep ==
    ASSUME ScheduleInv, NEW t \in ScheduledTopic,
           NEW status \in TopicStatus \cup {"unset"}, NEW schedule \in Schedule \cup {"unset"},
           Patch(t, status, schedule)
    PROVE  ScheduleInv'
  <1> DEFINE row == [topic[t] EXCEPT !.status = Set(topic[t].status, status),
                                     !.schedule = Set(topic[t].schedule, schedule),
                                     !.next = NextAfter(topic[t], status, schedule), !.early = 0]
  <1>1. topic[t] \in TopicRow
    BY DEF ScheduleInv, ScheduleTypeOK
  <1>2. NextAfter(topic[t], status, schedule) \in Int \cup {Never}
    <2>1. "manual" \in Schedule /\ topic[t].next \in Int \cup {Never}
      BY <1>1 DEF Schedule, TopicRow
    <2>2. (IF schedule = "unset" THEN "manual" ELSE schedule) \in Schedule
      BY <2>1
    <2> QED BY <2>1, <2>2, NextRunType DEF NextAfter
  <1>3. Set(topic[t].status, status) \in TopicStatus /\ Set(topic[t].schedule, schedule) \in Schedule
    BY <1>1 DEF Set, TopicRow
  <1>4. row \in TopicRow /\ row.early = 0
    BY <1>1, <1>2, <1>3 DEF TopicRow
  <1>5. topic' = [topic EXCEPT ![t] = row]
    BY DEF Patch
  <1>6. UNCHANGED round /\ seen' \in BOOLEAN /\ patches' \in Nat /\ trouble' \in Nat
    BY DEF Patch, ScheduleInv, ScheduleTypeOK
  <1> HIDE DEF row
  <1> QED BY <1>4, <1>5, <1>6, EditStep

LEMMA OtherEditStep ==
    ASSUME ScheduleInv, NEW t \in ScheduledTopic,
           RunNow(t) \/ BatchEnds(t) \/ \E n \in 0 .. MaxQueries : PatchQuery(t, n)
    PROVE  ScheduleInv'
  <1>1. topic[t] \in TopicRow
    BY DEF ScheduleInv, ScheduleTypeOK
  <1>2. UNCHANGED round /\ seen' \in BOOLEAN /\ patches' \in Nat /\ trouble' \in Nat
    BY DEF RunNow, BatchEnds, PatchQuery, ScheduleInv, ScheduleTypeOK
  <1>3. PICK row : /\ topic' = [topic EXCEPT ![t] = row]
                   /\ \/ \E busy \in BOOLEAN : row = [topic[t] EXCEPT !.busy = busy]
                      \/ \E n \in 0 .. MaxQueries : row = [topic[t] EXCEPT !.enabled = n]
    BY DEF RunNow, BatchEnds, PatchQuery
  <1>4. /\ row \in TopicRow /\ row.next = topic[t].next /\ row.early = topic[t].early
        /\ row.schedule = topic[t].schedule
    BY <1>1, <1>3 DEF TopicRow
  <1> QED BY <1>2, <1>3, <1>4, EditStep

-----------------------------------------------------------------------------
(* The callback *)

LEMMA StartRoundStep ==
    ASSUME ScheduleInv, StartRound
    PROVE  ScheduleInv'
  <1>1. PICK rows \in FirstRows :
            LET chosen == {r[1] : r \in rows}
            IN round' = [NoRound EXCEPT !.phase = "running", !.chosen = chosen, !.todo = chosen]
    BY DEF StartRound
  <1> DEFINE chosen == {r[1] : r \in rows}
  <1>2. rows \subseteq DueRows
    BY DEF FirstRows, kSubset
  <1>3. \A t \in chosen : t \in ScheduledTopic /\ IsDue(t)
    BY <1>2 DEF DueRows
  <1> HIDE DEF chosen
  <1>4. /\ round' = [phase |-> "running", age |-> 0, chosen |-> chosen, todo |-> chosen, read |-> {}]
        /\ UNCHANGED <<topic, patches, trouble>> /\ seen' = TRUE /\ round = NoRound
    BY <1>1 DEF StartRound, NoRound, chosen
  <1>5. ScheduleTypeOK'
    BY <1>3, <1>4 DEF ScheduleInv, ScheduleTypeOK, RoundRow
  <1>6. Served = {} /\ Served' = {}
    BY <1>4 DEF Served, NoRound
  <1>7. RoundInOrder' /\ ServedIsTimed'
    BY <1>4, <1>6 DEF RoundInOrder, ServedIsTimed
  <1>8. EarlyIsNotDue'
    BY <1>4, <1>6 DEF ScheduleInv, EarlyIsNotDue
  <1>9. TodoIsDue'
    <2> SUFFICES ASSUME NEW t \in chosen PROVE topic[t].early = 0
      BY <1>4 DEF TodoIsDue
    <2>1. t \in ScheduledTopic /\ topic[t] \in TopicRow /\ topic[t].next # Never /\ topic[t].next <= 0
      BY <1>3 DEF IsDue, ScheduleInv, ScheduleTypeOK
    <2>2. topic[t].early = 0 \/ topic[t].early <= topic[t].next
      BY <1>6, <2>1 DEF ScheduleInv, EarlyIsNotDue
    <2>3. topic[t].early \in Nat /\ topic[t].next \in Int
      BY <2>1 DEF TopicRow
    <2> QED BY <2>1, <2>2, <2>3
  <1> QED BY <1>5, <1>7, <1>8, <1>9 DEF ScheduleInv

LEMMA RunTopicStep ==
    ASSUME ScheduleInv, NEW t \in ScheduledTopic, NEW busy \in BOOLEAN, RunTopic(t, busy)
    PROVE  ScheduleInv'
  <1> DEFINE early == IF Runnable(t) THEN Rest(topic[t].schedule, round.age) ELSE topic[t].early
  <1>1. round \in RoundRow /\ topic[t] \in TopicRow /\ t \in round.todo
    BY DEF RunTopic, ScheduleInv, ScheduleTypeOK
  <1>2. /\ round'.phase = round.phase /\ round'.age = round.age /\ round'.chosen = round.chosen
        /\ round'.todo = round.todo \ {t} /\ round'.read = round.read /\ round' \in RoundRow
    BY <1>1 DEF RunTopic, RoundRow
  <1>3. /\ topic' \in [ScheduledTopic -> TopicRow]
        /\ topic'[t].early = early /\ topic'[t].schedule = topic[t].schedule
        /\ topic'[t].next = topic[t].next
        /\ \A u \in ScheduledTopic \ {t} : topic'[u] = topic[u]
    <2>1. topic[t].schedule \in Schedule
      BY <1>1 DEF TopicRow
    <2>2. Rest(topic[t].schedule, round.age) \in Nat
      BY <1>1, <2>1, RestIs DEF RoundRow
    <2>3. topic \in [ScheduledTopic -> TopicRow]
      BY DEF ScheduleInv, ScheduleTypeOK
    <2>4. CASE Runnable(t)
      <3> DEFINE row == [topic[t] EXCEPT !.busy = busy, !.early = Rest(topic[t].schedule, round.age)]
      <3>1. /\ row \in TopicRow /\ row.early = early /\ row.schedule = topic[t].schedule
            /\ row.next = topic[t].next
        BY <1>1, <2>2, <2>4 DEF TopicRow
      <3>2. topic' = [topic EXCEPT ![t] = row]
        BY <2>3, <2>4 DEF RunTopic
      <3> HIDE DEF row, early
      <3> QED BY <2>3, <3>1, <3>2
    <2>5. CASE ~Runnable(t)
      BY <2>3, <2>5 DEF RunTopic
    <2> QED BY <2>4, <2>5
  <1> HIDE DEF early
  <1>4. round.read = {} /\ t \in round.chosen
    BY <1>1 DEF ScheduleInv, RoundInOrder
  <1>5. Served' = Served \cup {t}
    BY <1>1, <1>2, <1>4 DEF Served
  <1>6. ScheduleTypeOK'
    BY <1>2, <1>3 DEF RunTopic, ScheduleInv, ScheduleTypeOK
  <1>7. RoundInOrder'
    BY <1>2, <1>4 DEF ScheduleInv, RoundInOrder
  <1>8. EarlyIsNotDue' /\ TodoIsDue'
    BY <1>2, <1>3, <1>5 DEF ScheduleInv, EarlyIsNotDue, TodoIsDue, ScheduleTypeOK, RoundRow
  <1>9. early = 0 \/ early = Rest(topic[t].schedule, round.age)
    BY <1>1 DEF early, ScheduleInv, TodoIsDue
  <1>10. ServedIsTimed'
    <2> SUFFICES ASSUME NEW u \in Served'
                 PROVE  \/ topic'[u].early = 0
                        \/ /\ topic'[u].early = Rest(topic'[u].schedule, round'.age)
                           /\ \A s \in Schedule : <<u, s>> \in round'.read => s = topic'[u].schedule
      BY DEF ServedIsTimed
    <2>1. CASE u = t
      BY <1>2, <1>3, <1>4, <1>9, <2>1
    <2>2. CASE u # t
      <3>1. u \in Served /\ topic'[u] = topic[u]
        BY <1>1, <1>3, <1>5, <2>2 DEF Served, RoundRow
      <3> QED BY <1>2, <3>1 DEF ScheduleInv, ServedIsTimed
    <2> QED BY <2>1, <2>2
  <1> QED BY <1>6, <1>7, <1>8, <1>10 DEF ScheduleInv

LEMMA ReadScheduleStep ==
    ASSUME ScheduleInv, NEW t \in ScheduledTopic, ReadSchedule(t)
    PROVE  ScheduleInv'
  <1>1. round \in RoundRow /\ topic[t].schedule \in Schedule /\ t \in round.chosen /\ round.todo = {}
    BY DEF ReadSchedule, ScheduleInv, ScheduleTypeOK, TopicRow
  <1>2. /\ round'.phase = round.phase /\ round'.age = round.age /\ round'.chosen = round.chosen
        /\ round'.todo = round.todo /\ round'.read = round.read \cup {<<t, topic[t].schedule>>}
        /\ round' \in RoundRow
    BY <1>1 DEF ReadSchedule, RoundRow
  <1>3. UNCHANGED <<topic, seen, patches, trouble>> /\ Served' = Served /\ t \in Served
    BY <1>1, <1>2 DEF ReadSchedule, Served
  <1>4. ScheduleTypeOK' /\ EarlyIsNotDue' /\ TodoIsDue'
    BY <1>2, <1>3 DEF ScheduleInv, ScheduleTypeOK, EarlyIsNotDue, TodoIsDue
  <1>5. RoundInOrder'
    BY <1>1, <1>2, <1>3 DEF ScheduleInv, RoundInOrder
  <1>6. \A s \in Schedule, u \in ScheduledTopic : <<u, s>> \in round'.read => <<u, s>> \in round.read
                                                                \/ s = topic[u].schedule
    BY <1>2
  <1>7. ServedIsTimed'
    BY <1>2, <1>3, <1>6 DEF ScheduleInv, ServedIsTimed, Rest, Served, ScheduleTypeOK, RoundRow
  <1> QED BY <1>4, <1>5, <1>7 DEF ScheduleInv

(* The end of a callback, on a topic it served. *)
LEMMA AdvancedStep ==
    ASSUME ScheduleInv, CloseRound, NEW t \in round.chosen
    PROVE  \E schedule \in Schedule :
              /\ <<t, schedule>> \in round.read
              /\ topic'[t] = [topic[t] EXCEPT !.next = NextRun(schedule, round.age)]
  <1> DEFINE schedule == CHOOSE s \in Schedule : <<t, s>> \in round.read
  <1>1. round \in RoundRow /\ t \in ScheduledTopic
    BY DEF ScheduleInv, ScheduleTypeOK, RoundRow
  <1>2. t \in {r[1] : r \in round.read}
    BY DEF CloseRound
  <1>3. PICK r \in round.read : r[1] = t
    BY <1>2
  <1>4. r = <<t, r[2]>> /\ r[2] \in Schedule
    BY <1>1, <1>3 DEF RoundRow
  <1>5. \E s \in Schedule : <<t, s>> \in round.read
    BY <1>3, <1>4
  <1>6. schedule \in Schedule /\ <<t, schedule>> \in round.read
    BY <1>5
  <1>7. topic'[t] = [topic[t] EXCEPT !.next = NextRun(schedule, round.age)]
    BY <1>1 DEF CloseRound, Advanced
  <1> HIDE DEF schedule
  <1> QED BY <1>6, <1>7

LEMMA CloseRoundStep ==
    ASSUME ScheduleInv, CloseRound
    PROVE  ScheduleInv'
  <1>1. /\ round \in RoundRow /\ topic \in [ScheduledTopic -> TopicRow] /\ round.age \in Nat
        /\ Served = round.chosen /\ round.chosen \subseteq ScheduledTopic
    BY DEF CloseRound, ScheduleInv, ScheduleTypeOK, RoundRow, Served
  <1>2. ASSUME NEW t \in round.chosen
        PROVE  /\ topic'[t] \in TopicRow
               /\ topic'[t].next # Never =>
                     topic'[t].early = 0 \/ topic'[t].early <= topic'[t].next
    <2>1. PICK schedule \in Schedule :
              /\ <<t, schedule>> \in round.read
              /\ topic'[t] = [topic[t] EXCEPT !.next = NextRun(schedule, round.age)]
      BY AdvancedStep
    <2>2. NextRun(schedule, round.age) \in Int \cup {Never} /\ topic[t] \in TopicRow
      BY <1>1, NextRunType
    <2>3. /\ topic'[t] \in TopicRow /\ topic'[t].next = NextRun(schedule, round.age)
          /\ topic'[t].early = topic[t].early
      BY <2>1, <2>2 DEF TopicRow
    <2>4. CASE topic[t].early = Rest(schedule, round.age) /\ schedule # "manual"
      <3>1. NextRun(schedule, round.age) = Interval[schedule] - round.age
        BY <2>4 DEF NextRun
      <3>2. /\ Interval[schedule] \in Nat
            /\ topic[t].early = IF 0 >= Interval[schedule] - round.age THEN 0
                                ELSE Interval[schedule] - round.age
        BY <1>1, <2>4, RestIs
      <3> QED BY <1>1, <2>3, <3>1, <3>2
    <2>5. CASE schedule = "manual"
      BY <2>3, <2>5 DEF NextRun
    <2>6. CASE topic[t].early = 0
      BY <2>3, <2>6
    <2>7. topic[t].early = 0 \/ topic[t].early = Rest(schedule, round.age)
      BY <1>1, <2>1 DEF ScheduleInv, ServedIsTimed
    <2> QED BY <2>3, <2>4, <2>5, <2>6, <2>7
  <1>3. \A t \in ScheduledTopic \ round.chosen : topic'[t] = topic[t]
    BY DEF CloseRound
  <1>4. topic' = [t \in ScheduledTopic |-> topic'[t]]
    BY DEF CloseRound
  <1>5. topic' \in [ScheduledTopic -> TopicRow]
    BY <1>1, <1>2, <1>3, <1>4
  <1>6. round' = NoRound /\ UNCHANGED <<seen, patches, trouble>>
    BY DEF CloseRound
  <1>7. ScheduleTypeOK'
    BY <1>5, <1>6 DEF ScheduleInv, ScheduleTypeOK, NoRound, RoundRow
  <1>8. Served' = {} /\ RoundInOrder' /\ TodoIsDue' /\ ServedIsTimed'
    BY <1>6 DEF Served, RoundInOrder, TodoIsDue, ServedIsTimed, NoRound
  <1>9. EarlyIsNotDue'
    <2> SUFFICES ASSUME NEW t \in ScheduledTopic, topic'[t].next # Never
                 PROVE  topic'[t].early = 0 \/ topic'[t].early <= topic'[t].next
      BY DEF EarlyIsNotDue
    <2>1. CASE t \in round.chosen
      BY <1>2, <2>1
    <2>2. CASE t \notin round.chosen
      BY <1>1, <1>3, <2>2 DEF ScheduleInv, EarlyIsNotDue
    <2> QED BY <2>1, <2>2
  <1> QED BY <1>7, <1>8, <1>9 DEF ScheduleInv

LEMMA RoundDiesStep ==
    ASSUME ScheduleInv, RoundDies
    PROVE  ScheduleInv'
  <1>1. /\ topic \in [ScheduledTopic -> TopicRow] /\ round' = NoRound /\ UNCHANGED <<seen, patches>>
        /\ trouble' \in Nat
    BY DEF RoundDies, ScheduleInv, ScheduleTypeOK
  <1>2. ASSUME NEW t \in ScheduledTopic
        PROVE  /\ topic'[t] \in TopicRow
               /\ topic'[t].early = 0 \/ (t \notin Served /\ topic'[t] = topic[t])
    <2>1. topic[t] \in TopicRow
      BY <1>1
    <2>2. CASE t \in round.chosen
      BY <2>1, <2>2 DEF RoundDies, TopicRow
    <2>3. CASE t \notin round.chosen
      BY <2>1, <2>3 DEF RoundDies, Served
    <2> QED BY <2>2, <2>3
  <1>3. topic' = [t \in ScheduledTopic |-> topic'[t]]
    BY DEF RoundDies
  <1>4. ScheduleTypeOK'
    BY <1>1, <1>2, <1>3 DEF ScheduleInv, ScheduleTypeOK, NoRound, RoundRow
  <1>5. Served' = {} /\ RoundInOrder' /\ TodoIsDue' /\ ServedIsTimed'
    BY <1>1 DEF Served, RoundInOrder, TodoIsDue, ServedIsTimed, NoRound
  <1>6. EarlyIsNotDue'
    BY <1>2 DEF ScheduleInv, EarlyIsNotDue
  <1> QED BY <1>4, <1>5, <1>6 DEF ScheduleInv

-----------------------------------------------------------------------------
(* Time *)

LEMMA PassStep ==
    ASSUME ScheduleInv, Pass
    PROVE  ScheduleInv'
  <1>1. /\ topic \in [ScheduledTopic -> TopicRow] /\ round \in RoundRow /\ seen' \in BOOLEAN
        /\ UNCHANGED <<patches, trouble>> /\ MaxLate \in Nat
    BY ScheduleAssumption DEF Pass, ScheduleInv, ScheduleTypeOK
  <1>2. ASSUME NEW t \in ScheduledTopic
        PROVE  /\ topic'[t] \in TopicRow /\ topic'[t].schedule = topic[t].schedule
               /\ topic'[t].early = IF 0 >= topic[t].early - 1 THEN 0 ELSE topic[t].early - 1
               /\ topic'[t].next # Never => topic[t].next # Never /\ topic[t].next \in Int
                                            /\ topic'[t].next >= topic[t].next - 1
                                            /\ topic'[t].next \in Int
    <2> DEFINE late == Max({-MaxLate, topic[t].next - 1})
               next == IF topic[t].next = Never THEN Never ELSE late
               early == Max({0, topic[t].early - 1})
    <2>1. topic[t] \in TopicRow /\ topic[t].early \in Nat
      BY <1>1 DEF TopicRow
    <2>2. early = IF 0 >= topic[t].early - 1 THEN 0 ELSE topic[t].early - 1
      BY <2>1, MaxOfTwo
    <2>3. topic[t].next # Never => /\ topic[t].next \in Int
                                   /\ late \in Int /\ late >= topic[t].next - 1
      <3>1. ASSUME topic[t].next # Never
            PROVE  topic[t].next \in Int
        BY <2>1, <3>1 DEF TopicRow
      <3>2. ASSUME topic[t].next # Never
            PROVE  late = IF -MaxLate >= topic[t].next - 1 THEN -MaxLate ELSE topic[t].next - 1
        BY <1>1, <3>1, <3>2, MaxOfTwo
      <3> QED BY <1>1, <3>1, <3>2
    <2>4. topic'[t] = [topic[t] EXCEPT !.next = next, !.early = early]
      BY DEF Pass
    <2> HIDE DEF late, early
    <2>5. next \in Int \cup {Never} /\ early \in Nat
      BY <2>1, <2>2, <2>3
    <2> HIDE DEF next
    <2>6. /\ topic'[t] \in TopicRow /\ topic'[t].schedule = topic[t].schedule
          /\ topic'[t].next = next /\ topic'[t].early = early
      BY <2>1, <2>4, <2>5 DEF TopicRow
    <2> QED BY <2>2, <2>3, <2>6 DEF next
  <1>3. topic' = [t \in ScheduledTopic |-> topic'[t]]
    BY DEF Pass
  <1>4. /\ round' \in RoundRow /\ round'.chosen = round.chosen /\ round'.todo = round.todo
        /\ round'.read = round.read /\ round'.phase = round.phase
        /\ round # NoRound => round'.age = round.age + 1
    <2>1. CASE round = NoRound
      BY <1>1, <2>1 DEF Pass
    <2>2. CASE round # NoRound
      <3>1. round' = [round EXCEPT !.age = round.age + 1]
        BY <2>2 DEF Pass
      <3> QED BY <1>1, <3>1 DEF RoundRow
    <2> QED BY <2>1, <2>2
  <1>5. ScheduleTypeOK'
    BY <1>1, <1>2, <1>3, <1>4 DEF ScheduleInv, ScheduleTypeOK
  <1>6. Served' = Served /\ RoundInOrder'
    BY <1>4 DEF Served, ScheduleInv, RoundInOrder
  <1>7. EarlyIsNotDue'
    <2> SUFFICES ASSUME NEW t \in ScheduledTopic \ Served, topic'[t].next # Never
                 PROVE  topic'[t].early = 0 \/ topic'[t].early <= topic'[t].next
      BY <1>6 DEF EarlyIsNotDue
    <2>1. topic[t].early = 0 \/ topic[t].early <= topic[t].next
      BY <1>2 DEF ScheduleInv, EarlyIsNotDue
    <2>2. topic[t].early \in Nat
      BY <1>1 DEF TopicRow
    <2> QED BY <1>2, <2>1, <2>2
  <1>8. TodoIsDue'
    BY <1>1, <1>2, <1>4 DEF ScheduleInv, TodoIsDue, RoundRow
  <1>9. ServedIsTimed'
    <2> SUFFICES ASSUME NEW t \in Served
                 PROVE  \/ topic'[t].early = 0
                        \/ /\ topic'[t].early = Rest(topic'[t].schedule, round'.age)
                           /\ \A s \in Schedule : <<t, s>> \in round'.read => s = topic'[t].schedule
      BY <1>6 DEF ServedIsTimed
    <2>1. t \in ScheduledTopic /\ round # NoRound
      BY <1>1 DEF Served, NoRound, RoundRow
    <2>2. CASE topic[t].early = 0
      BY <1>2, <2>1, <2>2
    <2>3. CASE /\ topic[t].early = Rest(topic[t].schedule, round.age)
               /\ \A s \in Schedule : <<t, s>> \in round.read => s = topic[t].schedule
               /\ topic[t].schedule # "manual"
      <3>1. topic[t].schedule \in Schedule /\ round.age \in Nat
        BY <1>1, <2>1 DEF TopicRow, RoundRow
      <3> DEFINE left == Interval[topic[t].schedule] - round.age
      <3>2. left \in Int /\ Rest(topic[t].schedule, round.age) = IF 0 >= left THEN 0 ELSE left
        BY <1>1, <2>3, <3>1, RestIs
      <3>3. Interval[topic[t].schedule] - round'.age = left - 1
        BY <1>1, <1>4, <2>1, <2>3, <3>1, RestIs
      <3>4. Rest(topic'[t].schedule, round'.age) = Max({0, left - 1})
        BY <1>2, <2>1, <2>3, <3>3 DEF Rest
      <3> HIDE DEF left
      <3>5. Max({0, left - 1}) = IF 0 >= left - 1 THEN 0 ELSE left - 1
        BY <3>2, MaxOfTwo
      <3>6. topic'[t].early = Rest(topic'[t].schedule, round'.age)
        BY <1>2, <2>1, <2>3, <3>2, <3>4, <3>5
      <3> QED BY <1>2, <1>4, <2>1, <2>3, <3>6
    <2>4. CASE topic[t].early = Rest(topic[t].schedule, round.age) /\ topic[t].schedule = "manual"
      BY <1>2, <2>1, <2>4 DEF Rest
    <2> QED BY <2>2, <2>3, <2>4 DEF ScheduleInv, ServedIsTimed
  <1> QED BY <1>5, <1>6, <1>7, <1>8, <1>9 DEF ScheduleInv

-----------------------------------------------------------------------------
(* The theorems *)

LEMMA ScheduleInvInit ==
    ASSUME ScheduleInit
    PROVE  ScheduleInv
  <1>1. ASSUME NEW t \in ScheduledTopic
        PROVE  topic[t] \in TopicRow /\ topic[t].early = 0
    <2>1. PICK status \in {"active", "paused"}, schedule \in Schedule, enabled \in 0 .. MaxQueries :
              topic[t] = NewTopic(status, schedule, enabled)
      BY DEF ScheduleInit
    <2>2. NextRun(schedule, 0) \in Int \cup {Never}
      BY NextRunType
    <2> QED BY <2>1, <2>2 DEF NewTopic, TopicRow, TopicStatus
  <1>2. ScheduleTypeOK
    <2>1. topic = [t \in ScheduledTopic |-> topic[t]]
      BY DEF ScheduleInit
    <2>2. topic \in [ScheduledTopic -> TopicRow]
      BY <1>1, <2>1
    <2>3. round \in RoundRow
      BY DEF ScheduleInit, NoRound, RoundRow
    <2>4. seen \in BOOLEAN
      BY DEF ScheduleInit
    <2>5. patches \in Nat /\ trouble = 0
      BY DEF ScheduleInit
    <2> QED BY <2>2, <2>3, <2>4, <2>5 DEF ScheduleTypeOK
  <1>3. RoundInOrder /\ EarlyIsNotDue /\ TodoIsDue /\ ServedIsTimed
    BY <1>1 DEF ScheduleInit, NoRound, RoundInOrder, EarlyIsNotDue, TodoIsDue, ServedIsTimed, Served
  <1> QED BY <1>2, <1>3 DEF ScheduleInv

LEMMA ScheduleInvStep ==
    ASSUME ScheduleInv, [ScheduleStep]_scheduleVars
    PROVE  ScheduleInv'
  <1>1. CASE StartRound
    BY <1>1, StartRoundStep
  <1>2. CASE \E t \in ScheduledTopic : ReadSchedule(t)
    BY <1>2, ReadScheduleStep
  <1>3. CASE \E t \in ScheduledTopic, busy \in BOOLEAN : RunTopic(t, busy)
    BY <1>3, RunTopicStep
  <1>4. CASE CloseRound
    BY <1>4, CloseRoundStep
  <1>5. CASE RoundDies
    BY <1>5, RoundDiesStep
  <1>6. CASE Pass
    BY <1>6, PassStep
  <1>7. CASE \E t \in ScheduledTopic : RunNow(t) \/ BatchEnds(t) \/ \E n \in 0 .. MaxQueries : PatchQuery(t, n)
    BY <1>7, OtherEditStep
  <1>8. CASE \E t \in ScheduledTopic, status \in TopicStatus \cup {"unset"}, schedule \in Schedule \cup {"unset"} :
                Patch(t, status, schedule)
    BY <1>8, PatchStep
  <1>9. CASE SchedulerDown \/ UNCHANGED scheduleVars
    <2>1. UNCHANGED <<topic, round, patches>> /\ seen' \in BOOLEAN /\ trouble' \in Nat
      <3>1. CASE SchedulerDown
        BY <3>1 DEF SchedulerDown, ScheduleInv, ScheduleTypeOK
      <3>2. CASE UNCHANGED scheduleVars
        BY <3>2 DEF scheduleVars, ScheduleInv, ScheduleTypeOK
      <3> QED BY <1>9, <3>1, <3>2
    <2> QED BY <2>1 DEF ScheduleInv, ScheduleTypeOK, RoundInOrder, EarlyIsNotDue, TodoIsDue,
                        ServedIsTimed, Served
  <1> QED BY <1>1, <1>2, <1>3, <1>4, <1>5, <1>6, <1>7, <1>8, <1>9 DEF ScheduleStep, RoundStep

(* The inductive invariant: how early a topic is never exceeds how long it   *)
(* is not due, and while the callback that served it lasts it is the rest of *)
(* the period that the end of the callback makes its next run.               *)
THEOREM ScheduleInvCorrect == ScheduleSpec => []ScheduleInv
  <1>1. ScheduleInit => ScheduleInv
    BY ScheduleInvInit
  <1>2. ScheduleInv /\ [ScheduleStep]_scheduleVars => ScheduleInv'
    BY ScheduleInvStep
  <1> QED BY <1>1, <1>2, PTL DEF ScheduleSpec

(* Whatever the administrator edits during a callback, however long it lasts *)
(* and whichever topics it leaves out, no topic is run again within its      *)
(* period (enqueue_scheduled_discovery).                                     *)
THEOREM OneRunPerPeriodCorrect == ScheduleSpec => []OneRunPerPeriod
  <1>1. ScheduleInv => OneRunPerPeriod
    BY DEF ScheduleInv, TodoIsDue, OneRunPerPeriod
  <1> QED BY <1>1, ScheduleInvCorrect, PTL
=============================================================================
