-------------------- MODULE OpportunityLifecycle_proofs --------------------
(***************************************************************************)
(* Proofs about OpportunityLifecycle, for any number of signals, texts,     *)
(* opportunities, names, administrators and users: what the guardrail       *)
(* promises, that merges leave nothing behind, that published names differ  *)
(* and that no edit is lost.                                                *)
(***************************************************************************)
EXTENDS OpportunityLifecycle, TLAPS

-----------------------------------------------------------------------------
(* The guardrail: what is true of one signal's row and its review *)

Sound(row, open) ==
    LET grade == Grade[row.text] IN
    /\ grade = "accept" => row.semantic \in {"current", "superseded"}
    /\ row.semantic = "current" /\ row.audited # {} => grade = "accept" \/ row.human
    /\ open = Pending => SemanticOf(grade) \in row.audited
    /\ row.human => grade = "review" /\ "under_review" \in row.audited

GuardInv ==
    /\ signal \in [Signal -> SignalRow]
    /\ validation \in [Signal -> {Closed, Pending}]
    /\ \A s \in Signal : Sound(signal[s], validation[s])
    /\ EvidenceCountsOnce

(* A step that changes one signal keeps the invariant when the new row is   *)
(* sound and, if the signal is published and accepted from now on, no other *)
(* one with its text is.                                                    *)
Alone(s) ==
    \/ GradeOf(s) # "accept"
    \/ Effective(s)
    \/ \A t \in Signal \ {s} : signal[t].text = signal[s].text => ~Effective(t)

LEMMA OneSignal ==
    ASSUME GuardInv, NEW s \in Signal, NEW row \in SignalRow, NEW open \in {Closed, Pending},
           signal' = [signal EXCEPT ![s] = row],
           validation' = [validation EXCEPT ![s] = open],
           row.text = signal[s].text, Sound(row, open),
           row.status = "active" /\ row.semantic = "current" => Alone(s)
    PROVE  GuardInv'
  <1>1. /\ signal' \in [Signal -> SignalRow]
        /\ validation' \in [Signal -> {Closed, Pending}]
    BY DEF GuardInv
  <1>2. signal'[s] = row /\ \A t \in Signal \ {s} : signal'[t] = signal[t]
    BY DEF GuardInv
  <1>3. validation'[s] = open /\ \A t \in Signal \ {s} : validation'[t] = validation[t]
    BY DEF GuardInv
  <1>4. ASSUME NEW t \in Signal PROVE Sound(signal'[t], validation'[t])
    <2>1. CASE t = s
      BY <2>1, <1>2, <1>3
    <2>2. CASE t # s
      <3>1. signal'[t] = signal[t] /\ validation'[t] = validation[t]
        BY <2>2, <1>2, <1>3
      <3> QED BY <3>1 DEF GuardInv
    <2> QED BY <2>1, <2>2
  <1>5. ASSUME NEW t \in Signal, NEW u \in Signal, t # u,
               signal'[t].text = signal'[u].text, Effective(t)', Effective(u)'
        PROVE  Grade[signal'[t].text] # "accept"
    <2>1. CASE t # s /\ u # s
      BY <1>5, <1>2, <2>1 DEF GuardInv, EvidenceCountsOnce, GradeOf, Effective, Current
    <2>2. CASE t = s
      <3>1. u # s /\ signal'[u] = signal[u] /\ signal'[t] = row
        BY <1>5, <1>2, <2>2
      <3>2. Effective(u) /\ signal[u].text = signal[s].text
        BY <1>5, <3>1 DEF Effective, Current
      <3>3. Alone(s)
        BY <1>5, <3>1 DEF Effective, Current
      <3> QED BY <3>1, <3>2, <3>3, <2>2 DEF Alone, GuardInv, EvidenceCountsOnce, GradeOf
    <2>3. CASE u = s
      <3>1. t # s /\ signal'[t] = signal[t] /\ signal'[u] = row
        BY <1>5, <1>2, <2>3
      <3>2. Effective(t) /\ signal[t].text = signal[s].text
        BY <1>5, <3>1 DEF Effective, Current
      <3>3. Alone(s)
        BY <1>5, <3>1 DEF Effective, Current
      <3> QED BY <3>1, <3>2, <3>3, <2>3 DEF Alone, GuardInv, EvidenceCountsOnce, GradeOf
    <2> QED BY <2>1, <2>2, <2>3
  <1>6. EvidenceCountsOnce'
    BY <1>5 DEF EvidenceCountsOnce, GradeOf
  <1> QED BY <1>1, <1>4, <1>6 DEF GuardInv

LEMMA GuardUnchanged ==
    ASSUME GuardInv, UNCHANGED guardVars
    PROVE  GuardInv'
  BY DEF guardVars, GuardInv, EvidenceCountsOnce, GradeOf, Effective, Current

(* The row Judge leaves. *)
Judged(s, status, human) ==
    IF status \in signal[s].audited THEN signal[s]
    ELSE [signal[s] EXCEPT !.semantic = status, !.human = human,
                           !.audited = @ \cup {status}]

LEMMA JudgedRow ==
    ASSUME GuardInv, NEW s \in Signal, NEW status \in Semantic, NEW human \in BOOLEAN
    PROVE  /\ Judge(s, status, human) = [signal EXCEPT ![s] = Judged(s, status, human)]
           /\ Judged(s, status, human) \in SignalRow
           /\ Judged(s, status, human).text = signal[s].text
           /\ Judged(s, status, human).status = signal[s].status
           /\ status \in Judged(s, status, human).audited
           /\ signal[s].audited \subseteq Judged(s, status, human).audited
           /\ status \in signal[s].audited => Judged(s, status, human) = signal[s]
           /\ status \notin signal[s].audited =>
                /\ Judged(s, status, human).semantic = status
                /\ Judged(s, status, human).human = human
  <1>1. signal[s] \in SignalRow /\ signal = [t \in Signal |-> signal[t]]
    BY DEF GuardInv
  <1>2. CASE status \in signal[s].audited
    BY <1>1, <1>2 DEF Judge, Judged
  <1>3. CASE status \notin signal[s].audited
    <2>1. Judge(s, status, human) = [signal EXCEPT ![s] = Judged(s, status, human)]
      BY <1>1, <1>3 DEF Judge, Judged, SignalRow
    <2> QED BY <2>1, <1>1, <1>3 DEF Judged, SignalRow
  <1> QED BY <1>2, <1>3

LEMMA Grades ==
    ASSUME GuardInv, NEW s \in Signal
    PROVE  /\ GradeOf(s) \in {"accept", "review", "reject"}
           /\ GradeOf(s) = Grade[signal[s].text]
           /\ SemanticOf(GradeOf(s)) \in Semantic
           /\ SemanticOf(GradeOf(s)) = "current" <=> GradeOf(s) = "accept"
           /\ SemanticOf(GradeOf(s)) = "under_review" <=> GradeOf(s) = "review"
           /\ SemanticOf(GradeOf(s)) # "superseded"
  <1>1. GradeOf(s) \in {"accept", "review", "reject"}
    BY GuardrailAssumption DEF GuardInv, GradeOf, SignalRow
  <1> QED BY <1>1 DEF GradeOf, SemanticOf, Semantic

LEMMA ReconsiderStep ==
    ASSUME GuardInv, NEW s \in Signal, Reconsider(s)
    PROVE  GuardInv'
  <1>1. CASE ~Unsettled(s)
    BY <1>1, GuardUnchanged DEF Reconsider, guardVars
  <1>2. CASE Unsettled(s)
    <2> DEFINE verdict == Verdict(s)
               row == Judged(s, verdict, FALSE)
               open == IF Asks(s, verdict) THEN Pending ELSE validation[s]
    <2>1. /\ verdict \in Semantic
          /\ verdict \in {"superseded", SemanticOf(GradeOf(s))}
          /\ verdict = "superseded" => GradeOf(s) = "accept"
      BY Grades DEF Verdict, Semantic
    <2>2. signal' = Judge(s, verdict, FALSE) /\ validation' = OpenedBy(s, verdict)
      BY <1>2 DEF Reconsider
    <2>3. open \in {Closed, Pending} /\ validation' = [validation EXCEPT ![s] = open]
      BY <2>2 DEF OpenedBy, GuardInv
    <2> HIDE DEF verdict
    <2>4. /\ signal' = [signal EXCEPT ![s] = row] /\ row \in SignalRow
          /\ row.text = signal[s].text /\ row.status = signal[s].status
          /\ verdict \in row.audited /\ signal[s].audited \subseteq row.audited
          /\ verdict \in signal[s].audited => row = signal[s]
          /\ verdict \notin signal[s].audited => row.semantic = verdict /\ row.human = FALSE
      BY <2>1, <2>2, JudgedRow
    <2> HIDE DEF row
    <2>5. Sound(signal[s], validation[s])
      BY DEF GuardInv
    <2>6. Sound(row, open)
      <3>1. open = Pending => SemanticOf(GradeOf(s)) \in row.audited
        <4>1. CASE Asks(s, verdict)
          BY <4>1, <2>1, <2>4 DEF Asks
        <4>2. CASE ~Asks(s, verdict)
          BY <4>2, <2>5, <2>4, Grades DEF Sound
        <4> QED BY <4>1, <4>2
      <3>2. GradeOf(s) = Grade[row.text]
        BY <2>4, Grades
      <3>3. CASE verdict \in signal[s].audited
        BY <3>1, <3>2, <3>3, <2>4, <2>5 DEF Sound
      <3>4. CASE verdict \notin signal[s].audited
        <4>1. row.semantic = verdict /\ row.human = FALSE
          BY <3>4, <2>4
        <4> HIDE DEF open
        <4> QED BY <4>1, <3>1, <3>2, <2>1, Grades DEF Sound
      <3> QED BY <3>3, <3>4
    <2>7. row.status = "active" /\ row.semantic = "current" => Alone(s)
      BY <2>4, <1>2 DEF Alone, Effective, Unsettled
    <2> HIDE DEF open
    <2> QED BY <2>3, <2>4, <2>6, <2>7, OneSignal
  <1> QED BY <1>1, <1>2

LEMMA ActivatedStep ==
    ASSUME GuardInv, NEW s \in Signal, MayFinish(s), ~Duplicate(s), Activated(s)
    PROVE  GuardInv'
  <1> DEFINE row == [signal[s] EXCEPT !.status = "active"]
  <1>1. /\ row \in SignalRow /\ row.text = signal[s].text /\ row.semantic = signal[s].semantic
        /\ row.human = signal[s].human /\ row.audited = signal[s].audited
    BY DEF GuardInv, SignalRow
  <1>2. signal' = [signal EXCEPT ![s] = row]
    BY DEF Activated, GuardInv
  <1>3. validation' = [validation EXCEPT ![s] = validation[s]] /\ validation[s] \in {Closed, Pending}
    BY DEF Activated, GuardInv
  <1>4. Sound(row, validation[s])
    BY <1>1 DEF GuardInv, Sound
  <1>5. Alone(s)
    <2>1. CASE signal[s].status = "active"
      BY <2>1 DEF Alone, Effective, MayFinish
    <2>2. CASE signal[s].status # "active"
      <3>1. ASSUME NEW t \in Signal \ {s}, signal[t].text = signal[s].text, Effective(t),
                   GradeOf(s) = "accept"
            PROVE  FALSE
        BY <3>1, <2>2 DEF Duplicate, GradeOf
      <3> QED BY <3>1 DEF Alone
    <2> QED BY <2>1, <2>2
  <1> HIDE DEF row
  <1> QED BY <1>1, <1>2, <1>3, <1>4, <1>5, OneSignal

LEMMA SupersededStep ==
    ASSUME GuardInv, NEW s \in Signal, Duplicate(s), MayFinish(s),
           signal' = Judge(s, "superseded", FALSE), UNCHANGED validation
    PROVE  GuardInv' /\ ~signal[s].human
  <1> DEFINE row == Judged(s, "superseded", FALSE)
  <1>1. "superseded" \in Semantic
    BY DEF Semantic
  <1>2. /\ signal' = [signal EXCEPT ![s] = row] /\ row \in SignalRow
        /\ row.text = signal[s].text /\ row.status = signal[s].status
        /\ signal[s].audited \subseteq row.audited
        /\ row = signal[s] \/ (row.semantic = "superseded" /\ row.human = FALSE)
    BY <1>1, JudgedRow
  <1> HIDE DEF row
  <1>3. GradeOf(s) = "accept"
    BY DEF Duplicate, GradeOf
  <1>4. Sound(signal[s], validation[s]) /\ validation[s] \in {Closed, Pending}
    BY DEF GuardInv
  <1>5. Grade[row.text] = GradeOf(s)
    BY <1>2, Grades
  <1>6. Sound(row, validation[s])
    BY <1>2, <1>3, <1>4, <1>5 DEF Sound
  <1>7. row.status = "active" /\ row.semantic = "current" => Alone(s)
    BY <1>2 DEF Alone, Effective, Current
  <1>8. validation' = [validation EXCEPT ![s] = validation[s]]
    BY DEF GuardInv
  <1>9. ~signal[s].human
    BY <1>3, <1>4, Grades DEF Sound
  <1> QED BY <1>2, <1>4, <1>6, <1>7, <1>8, <1>9, OneSignal

(* What an approval writes.  A doubtful signal is only approved in a        *)
(* validation, which is open after the guardrail has said "review".         *)
LEMMA ApprovedStep ==
    ASSUME GuardInv, NEW s \in Signal, NEW open \in {Closed, Pending}, ~Blocked(s),
           Doubtful(s) => validation[s] = Pending,
           open = Closed \/ open = validation[s],
           signal' = [Cleared(s) EXCEPT ![s].status = "active"],
           validation' = [validation EXCEPT ![s] = open]
    PROVE  /\ GuardInv'
           /\ signal[s].human /\ Current(s) => signal'[s].human /\ signal'[s].semantic = "current"
           /\ \A t \in Signal \ {s} : signal'[t] = signal[t]
  <1> DEFINE status == IF Doubtful(s) THEN "current" ELSE SemanticOf(GradeOf(s))
             human == IF Doubtful(s) THEN TRUE ELSE FALSE
             judged == Judged(s, status, human)
             row == [judged EXCEPT !.status = "active"]
  <1>1. status \in Semantic /\ human \in BOOLEAN
    BY Grades DEF Semantic
  <1>2. Cleared(s) = Judge(s, status, human)
    BY DEF Cleared
  <1> HIDE DEF status, human
  <1>3. /\ Cleared(s) = [signal EXCEPT ![s] = judged] /\ judged \in SignalRow
        /\ judged.text = signal[s].text
        /\ status \in judged.audited /\ signal[s].audited \subseteq judged.audited
        /\ status \in signal[s].audited => judged = signal[s]
        /\ status \notin signal[s].audited =>
             judged.semantic = status /\ judged.human = human
    BY <1>1, <1>2, JudgedRow
  <1> HIDE DEF judged
  <1>4. /\ row \in SignalRow /\ row.text = signal[s].text /\ row.status = "active"
        /\ row.semantic = judged.semantic /\ row.human = judged.human
        /\ row.audited = judged.audited
    BY <1>3 DEF SignalRow
  <1>5. signal' = [signal EXCEPT ![s] = row]
    BY <1>3 DEF GuardInv
  <1> HIDE DEF row
  <1>6. Sound(signal[s], validation[s]) /\ GradeOf(s) = Grade[row.text] /\ signal[s] \in SignalRow
    BY <1>4, Grades DEF GuardInv
  <1>7. GradeOf(s) \in {"accept", "review"}
    BY Grades DEF Blocked
  <1>8. CASE Doubtful(s)
    <2>1. status = "current" /\ human = TRUE /\ GradeOf(s) = "review" /\ "under_review" \in signal[s].audited
      BY <1>6, <1>8, Grades DEF status, human, Doubtful, Sound
    <2>2. Sound(row, open)
      BY <2>1, <1>3, <1>4, <1>6, <1>8, Grades DEF Sound
    <2>3. Alone(s)
      BY <2>1 DEF Alone
    <2>4. ~signal[s].human
      BY <1>8 DEF Doubtful
    <2>5. GuardInv'
      BY <2>2, <2>3, <1>4, <1>5, OneSignal
    <2> QED BY <2>4, <2>5, <1>5 DEF GuardInv
  <1>9. CASE ~Doubtful(s)
    <2>1. /\ status = SemanticOf(GradeOf(s)) /\ human = FALSE
          /\ GradeOf(s) = "review" => signal[s].human
      BY <1>9 DEF status, human, Doubtful
    <2>2. GradeOf(s) = "review" => status \in signal[s].audited
      BY <2>1, <1>6, Grades DEF Sound
    <2>3. Sound(row, open)
      <3>1. CASE GradeOf(s) = "review"
        BY <3>1, <2>1, <2>2, <1>3, <1>4, <1>6, Grades DEF Sound
      <3>2. CASE GradeOf(s) = "accept"
        BY <3>2, <2>1, <1>3, <1>4, <1>6, <1>9, Grades DEF Sound
      <3> QED BY <3>1, <3>2, <1>7
    <2>4. Alone(s)
      <3>1. CASE GradeOf(s) = "review"
        BY <3>1 DEF Alone
      <3>2. CASE GradeOf(s) = "accept"
        <4>1. Current(s)
          BY <3>2, <1>6, Grades DEF Sound, Blocked, Current
        <4>2. CASE signal[s].status = "active"
          BY <4>1, <4>2 DEF Alone, Effective
        <4>3. CASE signal[s].status # "active"
          BY <3>2, <4>3 DEF Alone, Blocked, Duplicate, GradeOf
        <4> QED BY <4>2, <4>3
      <3> QED BY <3>1, <3>2, <1>7
    <2>5. signal[s].human => signal'[s].human /\ signal'[s].semantic = signal[s].semantic
      BY <2>2, <1>3, <1>4, <1>5, <1>6 DEF Sound, GuardInv
    <2>6. GuardInv'
      BY <2>3, <2>4, <1>4, <1>5, OneSignal
    <2> QED BY <2>5, <2>6, <1>5 DEF GuardInv, Current
  <1> QED BY <1>8, <1>9

-----------------------------------------------------------------------------
(* Opportunities, links and watchlists *)

RowsInv ==
    /\ opp \in [Opp -> OppRow]
    /\ link \subseteq Opp \X Signal /\ placed \subseteq Opp \X Signal
    /\ watch \subseteq User \X Opp
    /\ late \subseteq (Opp \X Signal) \cup (User \X Opp)
    /\ NothingStaysBehind
    /\ PublishedNamesDiffer

LEMMA RowsUnchanged ==
    ASSUME RowsInv, UNCHANGED <<opp, link, placed, watch, late>>
    PROVE  RowsInv'
  BY DEF RowsInv, NothingStaysBehind, PublishedNamesDiffer

LEMMA LinkedKept ==
    ASSUME RowsInv, NEW o \in Opp, NEW s \in Signal, Linked(o, s), UNCHANGED <<opp, watch>>
    PROVE  RowsInv'
  <1>1. /\ link' \subseteq Opp \X Signal /\ placed' \subseteq Opp \X Signal
        /\ late' \subseteq (Opp \X Signal) \cup (User \X Opp)
    BY DEF RowsInv, Linked
  <1>2. /\ link' = link \cup {<<o, s>>} /\ late \subseteq late'
        /\ opp[o].status = "merged" => <<o, s>> \in late'
    BY DEF Linked
  <1>3. NothingStaysBehind'
    BY <1>2 DEF RowsInv, NothingStaysBehind
  <1>4. PublishedNamesDiffer'
    BY DEF RowsInv, PublishedNamesDiffer
  <1> QED BY <1>1, <1>3, <1>4 DEF RowsInv

(* One opportunity gets another row.  When it is published, its name is free *)
(* but for those it has missed.                                              *)
LEMMA OneOpportunity ==
    ASSUME opp \in [Opp -> OppRow], PublishedNamesDiffer, NEW o \in Opp, NEW row \in OppRow,
           opp' = [opp EXCEPT ![o] = row],
           row.status = "active" =>
              /\ row.name \notin Generic
              /\ \A p \in Opp \ {o} : opp[p].status = "active" /\ opp[p].name = row.name =>
                    o \in opp[p].missed \/ p \in row.missed
    PROVE  opp' \in [Opp -> OppRow] /\ PublishedNamesDiffer'
  <1>1. opp' \in [Opp -> OppRow]
    OBVIOUS
  <1>2. opp'[o] = row /\ \A p \in Opp \ {o} : opp'[p] = opp[p]
    OBVIOUS
  <1>3. ASSUME NEW p \in Opp, opp'[p].status = "active"
        PROVE  /\ opp'[p].name \notin Generic
               /\ \A q \in Opp \ {p} :
                    opp'[q].status = "active" /\ opp'[q].name = opp'[p].name =>
                        p \in opp'[q].missed \/ q \in opp'[p].missed
    <2>1. CASE p = o
      BY <1>2, <1>3, <2>1
    <2>2. CASE p # o
      <3>1. opp'[p] = opp[p] /\ opp[p].status = "active"
        BY <1>2, <1>3, <2>2
      <3>2. ASSUME NEW q \in Opp \ {p}, opp'[q].status = "active", opp'[q].name = opp[p].name
            PROVE  p \in opp'[q].missed \/ q \in opp[p].missed
        BY <3>1, <3>2, <1>2, <2>2 DEF PublishedNamesDiffer
      <3> QED BY <3>1, <3>2 DEF PublishedNamesDiffer
    <2> QED BY <2>1, <2>2
  <1> QED BY <1>1, <1>3 DEF PublishedNamesDiffer

LEMMA CandidateRow ==
    ASSUME NEW n \in Name
    PROVE  /\ Candidate(n) \in OppRow
           /\ Candidate(n).status = "candidate" /\ Candidate(n).name = n
           /\ NoOpp \in OppRow /\ NoOpp.status = "absent"
  BY DEF Candidate, NoOpp, OppRow

LEMMA CreatedRow ==
    ASSUME RowsInv, NEW n \in Name, NEW s \in Signal, Created(n, s)
    PROVE  \E o \in Opp : /\ opp[o].status = "absent"
                          /\ opp' = [opp EXCEPT ![o] = Candidate(n)]
                          /\ Linked(o, s)
  <1> DEFINE o == CHOOSE p \in Unused : TRUE
  <1>1. o \in Unused
    BY DEF Created
  <1>2. opp' = [opp EXCEPT ![o] = Candidate(n)] /\ Linked(o, s)
    BY DEF Created
  <1> QED BY <1>1, <1>2 DEF Unused

LEMMA CreatedKept ==
    ASSUME RowsInv, NEW n \in Name, NEW s \in Signal, Created(n, s), UNCHANGED watch
    PROVE  RowsInv'
  <1>1. PICK o \in Opp : /\ opp[o].status = "absent"
                         /\ opp' = [opp EXCEPT ![o] = Candidate(n)]
                         /\ Linked(o, s)
    BY CreatedRow
  <1>2. opp' \in [Opp -> OppRow] /\ PublishedNamesDiffer'
    BY <1>1, CandidateRow, OneOpportunity DEF RowsInv
  <1>3. /\ link' = link \cup {<<o, s>>} /\ placed' = placed \cup {<<o, s>>} /\ late' = late
    BY <1>1 DEF Linked
  <1>4. \A p \in Opp : opp'[p].status = "merged" => p # o /\ opp[p].status = "merged"
    BY <1>1, CandidateRow DEF RowsInv
  <1>5. NothingStaysBehind'
    BY <1>3, <1>4 DEF NothingStaysBehind, RowsInv
  <1> QED BY <1>2, <1>3, <1>5 DEF RowsInv

LEMMA SameLinks ==
    ASSUME RowsInv, NEW o \in Opp, NEW row \in OppRow, row.status # "merged",
           opp' = [opp EXCEPT ![o] = row], UNCHANGED <<link, watch, late>>
    PROVE  NothingStaysBehind'
  <1>1. \A p \in Opp : opp'[p].status = "merged" => opp[p].status = "merged"
    BY DEF RowsInv
  <1> QED BY <1>1 DEF RowsInv, NothingStaysBehind

(* What a publication makes of its row. *)
LEMMA PublishedRow ==
    ASSUME RowsInv, NEW o \in Opp, NEW status \in {"active", "rejected"}, Publish(o, status)
    PROVE  \E row \in OppRow :
              /\ opp' = [opp EXCEPT ![o] = row] /\ row.status = status
              /\ row.name = opp[o].name /\ row.into = opp[o].into
              /\ status = "active" =>
                    /\ row.name \notin Generic
                    /\ \A p \in Opp \ {o} :
                          opp[p].status = "active" /\ opp[p].name = row.name => p \in row.missed
  <1>1. opp[o] \in OppRow
    BY DEF RowsInv
  <1>2. CASE status = "rejected"
    <2> DEFINE row == [opp[o] EXCEPT !.status = status]
    <2>1. row \in OppRow /\ row.status = status /\ row.name = opp[o].name /\ row.into = opp[o].into
      BY <1>1 DEF OppRow
    <2>2. opp' = [opp EXCEPT ![o] = row]
      BY <1>2 DEF Publish
    <2> HIDE DEF row
    <2> QED BY <1>2, <2>1, <2>2
  <1>3. CASE status = "active"
    <2>1. PICK searched \in BOOLEAN : \E pool \in Pools(o, searched) :
             /\ Ready(o, pool)
             /\ opp' = [opp EXCEPT ![o].status = status, ![o].missed = Missed(pool, searched)]
      BY <1>3 DEF Publish
    <2>2. PICK pool \in Pools(o, searched) :
             /\ Ready(o, pool)
             /\ opp' = [opp EXCEPT ![o].status = status, ![o].missed = Missed(pool, searched)]
      BY <2>1
    <2> DEFINE missed == Missed(pool, searched)
               row == [opp[o] EXCEPT !.status = status, !.missed = missed]
    <2>3. missed \in SUBSET Opp
      BY DEF Missed, Eligible
    <2>4. \A p \in Opp \ {o} :
             opp[p].status = "active" /\ opp[p].name = opp[o].name => p \in missed
      <3>1. ASSUME NEW p \in Opp \ {o}, opp[p].status = "active", opp[p].name = opp[o].name
            PROVE  p \in missed
        <4>1. p \in Namesakes(o) /\ p \in Eligible
          BY <3>1 DEF Namesakes, Eligible
        <4>2. p \notin pool
          BY <4>1, <2>2 DEF Ready, NameTaken
        <4>3. ~(searched /\ Cardinality(pool) < PoolSize)
          BY <4>1, <4>2 DEF Pools
        <4> QED BY <3>1, <4>1, <4>2, <4>3 DEF Missed
      <3> QED BY <3>1
    <2> HIDE DEF missed
    <2>5. /\ row \in OppRow /\ row.status = status /\ row.name = opp[o].name
          /\ row.into = opp[o].into /\ row.missed = missed
      BY <1>1, <2>3 DEF OppRow
    <2>6. opp' = [opp EXCEPT ![o] = row]
      BY <2>2 DEF missed
    <2>7. opp[o].name \notin Generic
      BY <2>2 DEF Ready
    <2> HIDE DEF row
    <2> QED BY <2>4, <2>5, <2>6, <2>7
  <1> QED BY <1>2, <1>3

LEMMA PublishKept ==
    ASSUME RowsInv, NEW o \in Opp, NEW status \in {"active", "rejected"}, Publish(o, status)
    PROVE  RowsInv'
  <1>1. PICK row \in OppRow :
          /\ opp' = [opp EXCEPT ![o] = row] /\ row.status = status
          /\ status = "active" =>
                /\ row.name \notin Generic
                /\ \A p \in Opp \ {o} :
                      opp[p].status = "active" /\ opp[p].name = row.name => p \in row.missed
    BY PublishedRow
  <1>2. UNCHANGED <<link, watch, late, placed>>
    BY DEF Publish
  <1>3. opp' \in [Opp -> OppRow] /\ PublishedNamesDiffer'
    BY <1>1, OneOpportunity DEF RowsInv
  <1>4. NothingStaysBehind'
    BY <1>1, <1>2, SameLinks
  <1> QED BY <1>2, <1>3, <1>4 DEF RowsInv

LEMMA MergeKept ==
    ASSUME RowsInv, NEW o \in Opp, NEW c \in Opp, Merge(o, c)
    PROVE  RowsInv'
  <1> DEFINE row == [opp[o] EXCEPT !.status = "merged", !.into = c]
  <1>1. row \in OppRow /\ row.status = "merged"
    <2>1. opp[o] \in OppRow
      BY DEF RowsInv
    <2> QED BY <2>1 DEF OppRow
  <1>2. opp' = [opp EXCEPT ![o] = row] /\ UNCHANGED <<late, placed>>
    BY DEF Merge, RowsInv
  <1> HIDE DEF row
  <1>3. opp' \in [Opp -> OppRow] /\ PublishedNamesDiffer'
    BY <1>1, <1>2, OneOpportunity DEF RowsInv
  <1>4. o # c /\ opp[c].status # "merged"
    BY DEF Merge, CanBeCanonical
  <1>5. /\ link' = MovedLinks(o, c) /\ watch' = MovedWatch(o, c)
    BY DEF Merge
  <1>6. link' \subseteq Opp \X Signal /\ watch' \subseteq User \X Opp
    <2>1. ASSUME NEW l \in link' PROVE l \in Opp \X Signal
      <3>1. l \in link \/ \E s \in Signal : l = <<c, s>>
        BY <1>5, <2>1 DEF MovedLinks
      <3> QED BY <3>1 DEF RowsInv
    <2>2. ASSUME NEW w \in watch' PROVE w \in User \X Opp
      <3>1. w \in watch \/ \E u \in User : w = <<u, c>>
        BY <1>5, <2>2 DEF MovedWatch
      <3> QED BY <3>1 DEF RowsInv
    <2> QED BY <2>1, <2>2
  <1>7. ASSUME NEW p \in Opp, opp'[p].status = "merged"
        PROVE  /\ \A s \in Signal : <<p, s>> \in link' => <<p, s>> \in late'
               /\ \A u \in User : <<u, p>> \in watch' => <<u, p>> \in late'
    <2>1. p # c
      BY <1>2, <1>4, <1>7 DEF RowsInv
    <2>2. CASE p = o
      BY <2>1, <2>2, <1>5 DEF MovedLinks, MovedWatch
    <2>3. CASE p # o
      <3>1. opp[p].status = "merged"
        BY <2>3, <1>2, <1>7 DEF RowsInv
      <3>2. /\ \A s \in Signal : <<p, s>> \in link' => <<p, s>> \in link
            /\ \A u \in User : <<u, p>> \in watch' => <<u, p>> \in watch
        BY <2>1, <2>3, <1>5 DEF MovedLinks, MovedWatch
      <3> QED BY <3>1, <3>2, <1>2 DEF RowsInv, NothingStaysBehind
    <2> QED BY <2>2, <2>3
  <1>8. NothingStaysBehind'
    BY <1>7 DEF NothingStaysBehind
  <1> QED BY <1>2, <1>3, <1>6, <1>8 DEF RowsInv

LEMMA SavedRow ==
    ASSUME RowsInv, page \in [Admin -> PageRow], NEW a \in Admin, NEW n \in Name, Save(a, n)
    PROVE  /\ page[a].on \in Opp /\ opp[page[a].on].status = "candidate" /\ page[a].fresh
           /\ [opp[page[a].on] EXCEPT !.name = n] \in OppRow
           /\ opp' = [opp EXCEPT ![page[a].on] = [opp[page[a].on] EXCEPT !.name = n]]
           /\ page' = [Touched({page[a].on}) EXCEPT ![a] = NoPage]
           /\ UNCHANGED <<link, watch, late, placed>>
  <1>1. page[a].on \in Opp
    BY DEF Save, PageRow
  <1>2. [opp[page[a].on] EXCEPT !.name = n] \in OppRow
    BY <1>1 DEF RowsInv, OppRow
  <1>3. opp' = [opp EXCEPT ![page[a].on] = [opp[page[a].on] EXCEPT !.name = n]]
    BY <1>1 DEF Save, RowsInv
  <1> QED BY <1>1, <1>2, <1>3 DEF Save, UpToDate

LEMMA SaveKept ==
    ASSUME RowsInv, page \in [Admin -> PageRow], NEW a \in Admin, NEW n \in Name, Save(a, n)
    PROVE  RowsInv'
  <1> DEFINE o == page[a].on
             row == [opp[o] EXCEPT !.name = n]
  <1>1. /\ o \in Opp /\ row \in OppRow /\ opp[o].status = "candidate"
        /\ opp' = [opp EXCEPT ![o] = row]
        /\ UNCHANGED <<link, watch, late, placed>>
    BY SavedRow
  <1>2. row.status = "candidate"
    BY <1>1 DEF RowsInv, OppRow
  <1> HIDE DEF o, row
  <1>3. opp' \in [Opp -> OppRow] /\ PublishedNamesDiffer'
    BY <1>1, <1>2, OneOpportunity DEF RowsInv
  <1>4. NothingStaysBehind'
    BY <1>1, <1>2, SameLinks
  <1> QED BY <1>1, <1>3, <1>4 DEF RowsInv

LEMMA AddKept ==
    ASSUME RowsInv, NEW u \in User, NEW o \in Opp, Add(u, o)
    PROVE  RowsInv'
  <1>1. /\ watch' = watch \cup {<<u, o>>} /\ late \subseteq late'
        /\ late' \subseteq late \cup {<<u, o>>}
        /\ opp[o].status = "merged" => <<u, o>> \in late'
        /\ UNCHANGED <<opp, link, placed>>
    BY DEF Add
  <1>2. NothingStaysBehind'
    BY <1>1 DEF RowsInv, NothingStaysBehind
  <1>3. PublishedNamesDiffer'
    BY <1>1 DEF RowsInv, PublishedNamesDiffer
  <1> QED BY <1>1, <1>2, <1>3 DEF RowsInv

LEMMA RemoveKept ==
    ASSUME RowsInv, NEW u \in User, NEW o \in Opp, Remove(u, o)
    PROVE  RowsInv'
  <1>1. watch' \subseteq watch /\ UNCHANGED <<opp, link, late, placed>>
    BY DEF Remove
  <1>2. NothingStaysBehind'
    BY <1>1 DEF RowsInv, NothingStaysBehind
  <1>3. PublishedNamesDiffer'
    BY <1>1 DEF RowsInv, PublishedNamesDiffer
  <1> QED BY <1>1, <1>2, <1>3 DEF RowsInv

-----------------------------------------------------------------------------
(* Pages: one that is fresh shows the name the row has *)

PageInv ==
    /\ page \in [Admin -> PageRow]
    /\ \A a \in Admin : page[a].on # None =>
          /\ opp[page[a].on].status # "absent"
          /\ page[a].fresh => page[a].saw = opp[page[a].on].name

LEMMA TouchedType ==
    ASSUME page \in [Admin -> PageRow], NEW os \in SUBSET Opp
    PROVE  /\ Touched(os) \in [Admin -> PageRow]
           /\ \A a \in Admin : /\ Touched(os)[a].on = page[a].on
                               /\ Touched(os)[a].saw = page[a].saw
                               /\ Touched(os)[a].fresh => page[a].fresh /\ page[a].on \notin os
  BY DEF Touched, PageRow

(* Names and presence do not change, and no page is opened. *)
NamesStay ==
    \A o \in Opp : opp[o].status # "absent" =>
        opp'[o].status # "absent" /\ opp'[o].name = opp[o].name

LEMMA PagesStay ==
    ASSUME PageInv, RowsInv, RowsInv', NamesStay,
           NEW os \in SUBSET Opp, page' \in {page, Touched(os)}
    PROVE  PageInv'
  <1>1. /\ page' \in [Admin -> PageRow]
        /\ \A a \in Admin : /\ page'[a].on = page[a].on /\ page'[a].saw = page[a].saw
                            /\ page'[a].fresh => page[a].fresh
    BY TouchedType DEF PageInv
  <1>2. ASSUME NEW a \in Admin, page'[a].on # None
        PROVE  /\ opp'[page'[a].on].status # "absent"
               /\ page'[a].fresh => page'[a].saw = opp'[page'[a].on].name
    <2>1. page[a].on \in Opp
      BY <1>1, <1>2 DEF PageInv, PageRow
    <2> QED BY <2>1, <1>1, <1>2 DEF PageInv, NamesStay
  <1> QED BY <1>1, <1>2 DEF PageInv

LEMMA OpenPageKept ==
    ASSUME PageInv, RowsInv, NEW a \in Admin, NEW o \in Opp, OpenPage(a, o)
    PROVE  PageInv'
  <1> DEFINE row == [on |-> o, saw |-> opp[o].name, fresh |-> TRUE]
  <1>1. row \in PageRow
    BY DEF RowsInv, OppRow, PageRow
  <1>2. page' = [page EXCEPT ![a] = row] /\ opp' = opp /\ opp[o].status = "candidate"
    BY DEF OpenPage, rows
  <1> QED BY <1>1, <1>2 DEF PageInv

LEMMA SavePages ==
    ASSUME PageInv, RowsInv, NEW a \in Admin, NEW n \in Name, Save(a, n)
    PROVE  PageInv'
  <1> DEFINE o == page[a].on
             row == [opp[o] EXCEPT !.name = n]
  <1>1. /\ o \in Opp /\ row \in OppRow /\ opp[o].status = "candidate"
        /\ opp' = [opp EXCEPT ![o] = row]
        /\ page' = [Touched({o}) EXCEPT ![a] = NoPage]
    BY SavedRow DEF PageInv
  <1>2. row.status = "candidate"
    BY <1>1 DEF RowsInv, OppRow
  <1> HIDE DEF o, row
  <1>3. NoPage \in PageRow /\ NoPage.on = None
    BY DEF NoPage, PageRow
  <1>4. /\ Touched({o}) \in [Admin -> PageRow]
        /\ \A b \in Admin : /\ Touched({o})[b].on = page[b].on
                            /\ Touched({o})[b].saw = page[b].saw
                            /\ Touched({o})[b].fresh => page[b].fresh /\ page[b].on # o
    BY <1>1, TouchedType DEF PageInv
  <1>5. page' \in [Admin -> PageRow] /\ page'[a] = NoPage
        /\ \A b \in Admin \ {a} : page'[b] = Touched({o})[b]
    BY <1>1, <1>3, <1>4
  <1>6. ASSUME NEW b \in Admin, page'[b].on # None
        PROVE  /\ opp'[page'[b].on].status # "absent"
               /\ page'[b].fresh => page'[b].saw = opp'[page'[b].on].name
    <2>1. b # a
      BY <1>3, <1>5, <1>6
    <2>2. /\ page'[b].on = page[b].on /\ page'[b].saw = page[b].saw
          /\ page'[b].fresh => page[b].fresh /\ page[b].on # o
      BY <2>1, <1>4, <1>5
    <2>3. page[b].on \in Opp
      BY <2>2, <1>6 DEF PageInv, PageRow
    <2> QED BY <2>2, <2>3, <1>1, <1>2, <1>6 DEF PageInv, RowsInv
  <1> QED BY <1>5, <1>6 DEF PageInv

-----------------------------------------------------------------------------
(* What is left: the types of the requests under way *)

RestInv ==
    /\ place \in [Signal -> PlaceRow]
    /\ publish \in [Opp -> {Closed, Pending}]
    /\ merge \in [Opp -> {Closed, Pending}]
    /\ job \in [Job -> JobRow]
    /\ \A j \in Job : job[j] # NoJob => job[j].signal \in Signal
    /\ adding \subseteq User \X Opp
    /\ left \in [{"calls", "edits", "adds"} -> 0..MaxLeft]

LEMMA SpentType ==
    ASSUME RestInv, NEW what \in {"calls", "edits", "adds"}, Spent(what)
    PROVE  left' \in [{"calls", "edits", "adds"} -> 0..MaxLeft]
  <1>1. /\ left[what] \in 0..MaxLeft /\ left[what] > 0 /\ MaxLeft \in Nat
        /\ left' = [left EXCEPT ![what] = left[what] - 1]
    BY LifecycleAssumption DEF RestInv, Spent
  <1>2. left[what] - 1 \in 0..MaxLeft
    BY <1>1
  <1> QED BY <1>1, <1>2 DEF RestInv

LEMMA RestUnchanged ==
    ASSUME RestInv, UNCHANGED <<reviews, job, adding, left>>
    PROVE  RestInv'
  BY DEF RestInv, reviews

LEMMA PagesUnchanged ==
    ASSUME PageInv, RowsInv, UNCHANGED <<page, opp>>
    PROVE  PageInv'
  BY DEF PageInv

(* The two facts about a step: an approval stays, and only a save, by one   *)
(* who has seen it, changes a name.                                         *)
ApprovalsStay ==
    \A s \in Signal : signal[s].human /\ Current(s)
        => signal'[s].human /\ signal'[s].semantic = "current"

SeenEdits ==
    \A o \in Opp : opp[o].status # "absent" /\ opp'[o].name # opp[o].name =>
        \E a \in Admin : page[a].on = o /\ page'[a] = NoPage /\ page[a].saw = opp[o].name

IInv == GuardInv /\ RowsInv /\ PageInv /\ RestInv

Kept == IInv' /\ ApprovalsStay /\ SeenEdits

LEMMA NamesSeen ==
    ASSUME NamesStay
    PROVE  SeenEdits
  BY DEF NamesStay, SeenEdits

LEMMA SameSignals ==
    ASSUME UNCHANGED guardVars
    PROVE  ApprovalsStay
  BY DEF guardVars, ApprovalsStay, Current

LEMMA ReconsiderStays ==
    ASSUME GuardInv, NEW s \in Signal, Reconsider(s)
    PROVE  ApprovalsStay
  <1>1. ASSUME NEW t \in Signal, signal[t].human, Current(t)
        PROVE  signal'[t] = signal[t]
    <2>1. ~Unsettled(s) \/ t # s
      BY <1>1 DEF Unsettled
    <2> QED BY <2>1 DEF Reconsider, Judge, GuardInv
  <1> QED BY <1>1 DEF ApprovalsStay, Current

LEMMA ActivatedStays ==
    ASSUME GuardInv, NEW s \in Signal, Activated(s)
    PROVE  ApprovalsStay
  BY DEF GuardInv, Activated, ApprovalsStay, Current, SignalRow

-----------------------------------------------------------------------------
(* One lemma for each action *)

LEMMA AuditKept ==
    ASSUME IInv, NEW s \in Signal, Audit(s)
    PROVE  Kept
  <1>1. Reconsider(s) /\ UNCHANGED <<rows, reviews, requests>>
    BY DEF Audit, AuditSignal
  <1>2. GuardInv' /\ ApprovalsStay
    BY <1>1, ReconsiderStep, ReconsiderStays DEF IInv
  <1>3. RowsInv' /\ PageInv' /\ RestInv'
    BY <1>1, RowsUnchanged, PagesUnchanged, RestUnchanged DEF IInv, rows, requests
  <1>4. SeenEdits
    BY <1>1 DEF rows, SeenEdits
  <1> QED BY <1>2, <1>3, <1>4 DEF Kept, IInv

LEMMA NormalizeKept ==
    ASSUME IInv, NEW j \in Job, NEW s \in Signal, Normalize(j, s)
    PROVE  Kept
  <1>1. /\ Reconsider(s) /\ UNCHANGED <<rows, reviews, page, adding>>
        /\ Spent("calls")
    BY DEF Normalize
  <1>2. GuardInv' /\ ApprovalsStay
    BY <1>1, ReconsiderStep, ReconsiderStays DEF IInv
  <1>3. RowsInv' /\ PageInv'
    BY <1>1, RowsUnchanged, PagesUnchanged DEF IInv, rows
  <1>4. RestInv'
    <2>1. left' \in [{"calls", "edits", "adds"} -> 0..MaxLeft]
      BY <1>1, SpentType DEF IInv
    <2>2. [signal |-> s, pool |-> Eligible] \in JobRow
      BY DEF JobRow, Eligible
    <2>3. /\ job' \in [Job -> JobRow]
          /\ \A i \in Job : job'[i] # NoJob => job'[i].signal \in Signal
      BY <2>2 DEF Normalize, IInv, RestInv
    <2> QED BY <2>1, <2>3, <1>1 DEF RestInv, IInv, reviews
  <1>5. SeenEdits
    BY <1>1 DEF rows, SeenEdits
  <1> QED BY <1>2, <1>3, <1>4, <1>5 DEF Kept, IInv

(* A normalization that ends leaves no job behind. *)
LEMMA JobEnds ==
    ASSUME RestInv, NEW j \in Job, job' = [job EXCEPT ![j] = NoJob],
           UNCHANGED <<reviews, adding, left>>
    PROVE  RestInv'
  <1>1. NoJob \in JobRow
    BY DEF NoJob, JobRow
  <1> QED BY <1>1 DEF RestInv, reviews

LEMMA GiveUpKept ==
    ASSUME IInv, NEW j \in Job, GiveUp(j)
    PROVE  Kept
  <1>1. /\ job' = [job EXCEPT ![j] = NoJob]
        /\ UNCHANGED <<guardVars, rows, reviews, page, adding, left>>
    BY DEF GiveUp
  <1>2. GuardInv' /\ ApprovalsStay
    BY <1>1, GuardUnchanged, SameSignals DEF IInv
  <1>3. RowsInv' /\ PageInv' /\ RestInv'
    BY <1>1, RowsUnchanged, PagesUnchanged, JobEnds DEF IInv, rows
  <1>4. SeenEdits
    BY <1>1 DEF rows, SeenEdits
  <1> QED BY <1>2, <1>3, <1>4 DEF Kept, IInv

LEMMA FindDuplicateKept ==
    ASSUME IInv, NEW j \in Job, FindDuplicate(j)
    PROVE  Kept
  <1> DEFINE s == job[j].signal
  <1>1. /\ s \in Signal /\ MayFinish(s) /\ Duplicate(s)
        /\ signal' = Judge(s, "superseded", FALSE)
        /\ job' = [job EXCEPT ![j] = NoJob]
        /\ UNCHANGED <<validation, rows, reviews, page, adding, left>>
    BY DEF FindDuplicate, IInv, RestInv
  <1> HIDE DEF s
  <1>2. GuardInv' /\ ~signal[s].human
    BY <1>1, SupersededStep DEF IInv
  <1>3. ApprovalsStay
    <2>1. \A t \in Signal \ {s} : signal'[t] = signal[t]
      BY <1>1 DEF Judge, IInv, GuardInv
    <2> QED BY <2>1, <1>2 DEF ApprovalsStay, Current
  <1>4. RowsInv' /\ PageInv' /\ RestInv'
    BY <1>1, RowsUnchanged, PagesUnchanged, JobEnds DEF IInv, rows
  <1>5. SeenEdits
    BY <1>1 DEF rows, SeenEdits
  <1> QED BY <1>2, <1>3, <1>4, <1>5 DEF Kept, IInv

LEMMA MatchKept ==
    ASSUME IInv, NEW j \in Job, NEW o \in Opp, Match(j, o)
    PROVE  Kept
  <1> DEFINE s == job[j].signal
  <1>1. /\ s \in Signal /\ MayFinish(s) /\ ~Duplicate(s) /\ Activated(s) /\ Linked(o, s)
        /\ job' = [job EXCEPT ![j] = NoJob] /\ page' \in {page, Touched({o})}
        /\ UNCHANGED <<adding, left, watch, publish, merge, opp, place>>
    BY DEF Match, Answered, IInv, RestInv
  <1> HIDE DEF s
  <1>2. GuardInv' /\ ApprovalsStay
    BY <1>1, ActivatedStep, ActivatedStays DEF IInv
  <1>3. RowsInv'
    BY <1>1, LinkedKept DEF IInv
  <1>4. NamesStay
    BY <1>1 DEF NamesStay
  <1>5. PageInv'
    BY <1>1, <1>3, <1>4, PagesStay DEF IInv
  <1>6. RestInv'
    BY <1>1, JobEnds DEF IInv, reviews
  <1> QED BY <1>2, <1>3, <1>4, <1>5, <1>6, NamesSeen DEF Kept, IInv

LEMMA CreatedNames ==
    ASSUME RowsInv, NEW n \in Name, NEW s \in Signal, Created(n, s)
    PROVE  NamesStay
  <1>1. PICK o \in Opp : /\ opp[o].status = "absent"
                         /\ opp' = [opp EXCEPT ![o] = Candidate(n)]
    BY CreatedRow
  <1> QED BY <1>1 DEF NamesStay, RowsInv

LEMMA CreateKept ==
    ASSUME IInv, NEW j \in Job, NEW n \in Name, Create(j, n)
    PROVE  Kept
  <1> DEFINE s == job[j].signal
  <1>1. /\ s \in Signal /\ MayFinish(s) /\ ~Duplicate(s) /\ Activated(s) /\ Created(n, s)
        /\ job' = [job EXCEPT ![j] = NoJob]
        /\ UNCHANGED <<adding, left, watch, publish, merge, page, place>>
    BY DEF Create, Answered, IInv, RestInv
  <1> HIDE DEF s
  <1>2. GuardInv' /\ ApprovalsStay
    BY <1>1, ActivatedStep, ActivatedStays DEF IInv
  <1>3. RowsInv' /\ NamesStay
    BY <1>1, CreatedKept, CreatedNames DEF IInv
  <1>4. PageInv'
    BY <1>1, <1>3, PagesStay DEF IInv
  <1>5. RestInv'
    BY <1>1, JobEnds DEF IInv, reviews
  <1> QED BY <1>2, <1>3, <1>4, <1>5, NamesSeen DEF Kept, IInv

LEMMA AskReviewKept ==
    ASSUME IInv, NEW j \in Job, NEW proposal \in Opp \cup {Creation}, AskReview(j, proposal)
    PROVE  Kept
  <1>1. /\ job[j].signal \in Signal /\ job' = [job EXCEPT ![j] = NoJob]
        /\ UNCHANGED <<adding, left, watch, publish, merge, guardVars, opp, link, placed,
                       late, page>>
    BY DEF AskReview, Answered, IInv, RestInv
  <1>2. GuardInv' /\ ApprovalsStay
    BY <1>1, GuardUnchanged, SameSignals DEF IInv
  <1>3. RowsInv' /\ PageInv'
    BY <1>1, RowsUnchanged, PagesUnchanged DEF IInv
  <1>4. place' \in [Signal -> PlaceRow]
    BY <1>1 DEF AskReview, IInv, RestInv, PlaceRow
  <1>5. NoJob \in JobRow
    BY DEF NoJob, JobRow
  <1>6. RestInv'
    BY <1>1, <1>4, <1>5 DEF RestInv, IInv
  <1>7. SeenEdits
    BY <1>1 DEF SeenEdits
  <1> QED BY <1>2, <1>3, <1>6, <1>7 DEF Kept, IInv

LEMMA ValidateKept ==
    ASSUME IInv, NEW s \in Signal, NEW decision \in {"active", "rejected", "ignored"},
           Validate(s, decision)
    PROVE  Kept
  <1>1. /\ validation[s] = Pending /\ validation' = [validation EXCEPT ![s] = Closed]
        /\ UNCHANGED <<rows, reviews, requests>>
    BY DEF Validate
  <1>2. Closed \in {Closed, Pending} /\ Pending # Closed
    BY DEF Closed, Pending
  <1>3. GuardInv' /\ ApprovalsStay
    <2>1. CASE ~Blocked(s) /\ signal' = [Cleared(s) EXCEPT ![s].status = "active"]
      BY <1>1, <1>2, <2>1, ApprovedStep DEF IInv, ApprovalsStay, Current
    <2>2. CASE /\ decision \in {"rejected", "ignored"}
               /\ signal' = [signal EXCEPT ![s].status = decision]
      <3> DEFINE row == [signal[s] EXCEPT !.status = decision]
      <3>1. /\ row \in SignalRow /\ row.text = signal[s].text
            /\ row.semantic = signal[s].semantic /\ row.human = signal[s].human
            /\ row.audited = signal[s].audited /\ row.status # "active"
        BY <2>2 DEF IInv, GuardInv, SignalRow
      <3>2. signal' = [signal EXCEPT ![s] = row]
        BY <2>2 DEF IInv, GuardInv
      <3> HIDE DEF row
      <3>3. Sound(row, Closed)
        BY <1>2, <3>1 DEF IInv, GuardInv, Sound
      <3>4. GuardInv'
        BY <1>1, <1>2, <3>1, <3>2, <3>3, OneSignal DEF IInv
      <3>5. ApprovalsStay
        BY <3>1, <3>2 DEF IInv, GuardInv, ApprovalsStay, Current
      <3> QED BY <3>4, <3>5
    <2> QED BY <2>1, <2>2 DEF Validate
  <1>4. RowsInv' /\ PageInv' /\ RestInv'
    BY <1>1, RowsUnchanged, PagesUnchanged, RestUnchanged DEF IInv, rows, requests
  <1>5. SeenEdits
    BY <1>1 DEF rows, SeenEdits
  <1> QED BY <1>3, <1>4, <1>5 DEF Kept, IInv

(* An approval of a place: nothing is doubtful, and the validation stays as *)
(* it is.                                                                   *)
LEMMA PlaceApproved ==
    ASSUME IInv, NEW s \in Signal, ~Blocked(s), ~Doubtful(s),
           signal' = [Cleared(s) EXCEPT ![s].status = "active"], UNCHANGED validation
    PROVE  GuardInv' /\ ApprovalsStay
  <1>1. validation[s] \in {Closed, Pending} /\ validation' = [validation EXCEPT ![s] = validation[s]]
    BY DEF IInv, GuardInv
  <1>2. /\ GuardInv'
        /\ signal[s].human /\ Current(s) => signal'[s].human /\ signal'[s].semantic = "current"
        /\ \A t \in Signal \ {s} : signal'[t] = signal[t]
    BY <1>1, ApprovedStep DEF IInv
  <1> QED BY <1>2 DEF ApprovalsStay, Current

LEMMA PlaceCloses ==
    ASSUME RestInv, NEW s \in Signal, place' = [place EXCEPT ![s] = Closed],
           UNCHANGED <<publish, merge, job, adding, left>>
    PROVE  RestInv'
  BY DEF RestInv, PlaceRow

LEMMA ApproveMatchKept ==
    ASSUME IInv, NEW s \in Signal, ApproveMatch(s)
    PROVE  Kept
  <1> DEFINE o == place[s]
  <1>1. /\ o \in Opp /\ ~Blocked(s) /\ ~Doubtful(s) /\ Linked(o, s)
        /\ signal' = [Cleared(s) EXCEPT ![s].status = "active"]
        /\ place' = [place EXCEPT ![s] = Closed] /\ page' \in {page, Touched({o})}
        /\ UNCHANGED <<validation, opp, watch, publish, merge, job, adding, left>>
    BY DEF ApproveMatch, Eligible
  <1> HIDE DEF o
  <1>2. GuardInv' /\ ApprovalsStay
    BY <1>1, PlaceApproved
  <1>3. RowsInv'
    BY <1>1, LinkedKept DEF IInv
  <1>4. NamesStay
    BY <1>1 DEF NamesStay
  <1>5. PageInv'
    BY <1>1, <1>3, <1>4, PagesStay DEF IInv
  <1>6. RestInv'
    BY <1>1, PlaceCloses DEF IInv
  <1> QED BY <1>2, <1>3, <1>4, <1>5, <1>6, NamesSeen DEF Kept, IInv

LEMMA ApproveCreationKept ==
    ASSUME IInv, NEW s \in Signal, NEW n \in Name, ApproveCreation(s, n)
    PROVE  Kept
  <1>1. /\ ~Blocked(s) /\ ~Doubtful(s) /\ Created(n, s)
        /\ signal' = [Cleared(s) EXCEPT ![s].status = "active"]
        /\ place' = [place EXCEPT ![s] = Closed]
        /\ UNCHANGED <<validation, watch, publish, merge, job, page, adding, left>>
    BY DEF ApproveCreation, requests
  <1>2. GuardInv' /\ ApprovalsStay
    BY <1>1, PlaceApproved
  <1>3. RowsInv' /\ NamesStay
    BY <1>1, CreatedKept, CreatedNames DEF IInv
  <1>4. PageInv'
    BY <1>1, <1>3, PagesStay DEF IInv
  <1>5. RestInv'
    BY <1>1, PlaceCloses DEF IInv
  <1> QED BY <1>2, <1>3, <1>4, <1>5, NamesSeen DEF Kept, IInv

LEMMA RejectPlaceKept ==
    ASSUME IInv, NEW s \in Signal, RejectPlace(s)
    PROVE  Kept
  <1>1. /\ place' = [place EXCEPT ![s] = Closed]
        /\ UNCHANGED <<guardVars, rows, publish, merge, job, page, adding, left>>
    BY DEF RejectPlace, requests
  <1>2. GuardInv' /\ ApprovalsStay
    BY <1>1, GuardUnchanged, SameSignals DEF IInv
  <1>3. RowsInv' /\ PageInv' /\ RestInv'
    BY <1>1, RowsUnchanged, PagesUnchanged, PlaceCloses DEF IInv, rows
  <1>4. SeenEdits
    BY <1>1 DEF rows, SeenEdits
  <1> QED BY <1>2, <1>3, <1>4 DEF Kept, IInv

LEMMA SubmitStep ==
    ASSUME IInv, NEW o \in Opp, Submit(o)
    PROVE  Kept
  <1>1. /\ publish' = [publish EXCEPT ![o] = Pending]
        /\ UNCHANGED <<guardVars, rows, place, merge, job, page, adding, left>>
    BY DEF Submit, requests
  <1>2. GuardInv' /\ ApprovalsStay
    BY <1>1, GuardUnchanged, SameSignals DEF IInv
  <1>3. RowsInv' /\ PageInv'
    BY <1>1, RowsUnchanged, PagesUnchanged DEF IInv, rows
  <1>4. RestInv'
    BY <1>1 DEF IInv, RestInv
  <1>5. SeenEdits
    BY <1>1 DEF rows, SeenEdits
  <1> QED BY <1>2, <1>3, <1>4, <1>5 DEF Kept, IInv

LEMMA PublishStep ==
    ASSUME IInv, NEW o \in Opp, NEW status \in {"active", "rejected"}, Publish(o, status)
    PROVE  Kept
  <1>1. /\ publish' = [publish EXCEPT ![o] = Closed] /\ page' = Touched({o})
        /\ UNCHANGED <<guardVars, place, merge, job, adding, left>>
    BY DEF Publish
  <1>2. GuardInv' /\ ApprovalsStay
    BY <1>1, GuardUnchanged, SameSignals DEF IInv
  <1>3. RowsInv'
    BY PublishKept DEF IInv
  <1>4. NamesStay
    <2>1. PICK row \in OppRow :
             opp' = [opp EXCEPT ![o] = row] /\ row.status = status /\ row.name = opp[o].name
      BY PublishedRow DEF IInv
    <2> QED BY <2>1 DEF NamesStay, IInv, RowsInv
  <1>5. PageInv'
    BY <1>1, <1>3, <1>4, PagesStay DEF IInv
  <1>6. RestInv'
    BY <1>1 DEF IInv, RestInv
  <1> QED BY <1>2, <1>3, <1>4, <1>5, <1>6, NamesSeen DEF Kept, IInv

LEMMA MergeStep ==
    ASSUME IInv, NEW o \in Opp, NEW c \in Opp, Merge(o, c)
    PROVE  Kept
  <1>1. /\ opp' = [opp EXCEPT ![o].status = "merged", ![o].into = c]
        /\ merge' = [merge EXCEPT ![o] = Closed] /\ page' = Touched({o, c})
        /\ UNCHANGED <<guardVars, place, publish, job, adding, left>>
    BY DEF Merge
  <1>2. GuardInv' /\ ApprovalsStay
    BY <1>1, GuardUnchanged, SameSignals DEF IInv
  <1>3. RowsInv'
    BY MergeKept DEF IInv
  <1>4. NamesStay
    BY <1>1 DEF NamesStay, IInv, RowsInv, OppRow
  <1>5. PageInv'
    BY <1>1, <1>3, <1>4, PagesStay DEF IInv
  <1>6. RestInv'
    BY <1>1 DEF IInv, RestInv
  <1> QED BY <1>2, <1>3, <1>4, <1>5, <1>6, NamesSeen DEF Kept, IInv

LEMMA RejectMergeStep ==
    ASSUME IInv, NEW o \in Opp, RejectMerge(o)
    PROVE  Kept
  <1>1. /\ merge' = [merge EXCEPT ![o] = Closed]
        /\ UNCHANGED <<guardVars, rows, place, publish, job, page, adding, left>>
    BY DEF RejectMerge, requests
  <1>2. GuardInv' /\ ApprovalsStay
    BY <1>1, GuardUnchanged, SameSignals DEF IInv
  <1>3. RowsInv' /\ PageInv'
    BY <1>1, RowsUnchanged, PagesUnchanged DEF IInv, rows
  <1>4. RestInv'
    BY <1>1 DEF IInv, RestInv
  <1>5. SeenEdits
    BY <1>1 DEF rows, SeenEdits
  <1> QED BY <1>2, <1>3, <1>4, <1>5 DEF Kept, IInv

LEMMA OpenPageStep ==
    ASSUME IInv, NEW a \in Admin, NEW o \in Opp, OpenPage(a, o)
    PROVE  Kept
  <1>1. UNCHANGED <<guardVars, rows, reviews, job, adding, left>>
    BY DEF OpenPage
  <1>2. GuardInv' /\ ApprovalsStay
    BY <1>1, GuardUnchanged, SameSignals DEF IInv
  <1>3. RowsInv' /\ RestInv'
    BY <1>1, RowsUnchanged, RestUnchanged DEF IInv, rows
  <1>4. PageInv'
    BY OpenPageKept DEF IInv
  <1>5. SeenEdits
    BY <1>1 DEF rows, SeenEdits
  <1> QED BY <1>2, <1>3, <1>4, <1>5 DEF Kept, IInv

LEMMA SaveStep ==
    ASSUME IInv, NEW a \in Admin, NEW n \in Name, Save(a, n)
    PROVE  Kept
  <1>1. Spent("edits") /\ UNCHANGED <<guardVars, reviews, job, adding>>
    BY DEF Save
  <1>2. GuardInv' /\ ApprovalsStay
    BY <1>1, GuardUnchanged, SameSignals DEF IInv
  <1>3. RowsInv' /\ PageInv'
    BY SaveKept, SavePages DEF IInv, PageInv
  <1>4. RestInv'
    BY <1>1, SpentType DEF IInv, RestInv, reviews
  <1>5. SeenEdits
    <2>1. /\ page[a].on \in Opp /\ page[a].fresh
          /\ opp' = [opp EXCEPT ![page[a].on] = [opp[page[a].on] EXCEPT !.name = n]]
          /\ page' = [Touched({page[a].on}) EXCEPT ![a] = NoPage]
      BY SavedRow DEF IInv, PageInv
    <2>2. ASSUME NEW o \in Opp, opp'[o].name # opp[o].name
          PROVE  page[a].on = o
      BY <2>1, <2>2 DEF IInv, RowsInv
    <2>3. page'[a] = NoPage
      BY <2>1 DEF Touched
    <2>4. page[a].saw = opp[page[a].on].name
      BY <2>1, LifecycleAssumption DEF IInv, PageInv
    <2> QED BY <2>2, <2>3, <2>4 DEF SeenEdits
  <1> QED BY <1>2, <1>3, <1>4, <1>5 DEF Kept, IInv

LEMMA StartAddingStep ==
    ASSUME IInv, NEW u \in User, NEW o \in Opp, StartAdding(u, o)
    PROVE  Kept
  <1>1. /\ Spent("adds") /\ adding' = adding \cup {<<u, o>>}
        /\ UNCHANGED <<guardVars, rows, reviews, job, page>>
    BY DEF StartAdding
  <1>2. GuardInv' /\ ApprovalsStay
    BY <1>1, GuardUnchanged, SameSignals DEF IInv
  <1>3. RowsInv' /\ PageInv'
    BY <1>1, RowsUnchanged, PagesUnchanged DEF IInv, rows
  <1>4. RestInv'
    <2>1. adding' \subseteq User \X Opp
      BY <1>1 DEF IInv, RestInv
    <2>2. left' \in [{"calls", "edits", "adds"} -> 0..MaxLeft]
      BY <1>1, SpentType DEF IInv
    <2> QED BY <1>1, <2>1, <2>2 DEF IInv, RestInv, reviews
  <1>5. SeenEdits
    BY <1>1 DEF rows, SeenEdits
  <1> QED BY <1>2, <1>3, <1>4, <1>5 DEF Kept, IInv

LEMMA AddStep ==
    ASSUME IInv, NEW u \in User, NEW o \in Opp, Add(u, o)
    PROVE  Kept
  <1>1. /\ adding' \subseteq adding
        /\ UNCHANGED <<guardVars, opp, reviews, job, page, left>>
    BY DEF Add
  <1>2. GuardInv' /\ ApprovalsStay
    BY <1>1, GuardUnchanged, SameSignals DEF IInv
  <1>3. RowsInv' /\ PageInv'
    BY <1>1, AddKept, PagesUnchanged DEF IInv
  <1>4. RestInv'
    BY <1>1 DEF IInv, RestInv, reviews
  <1>5. SeenEdits
    BY <1>1 DEF SeenEdits
  <1> QED BY <1>2, <1>3, <1>4, <1>5 DEF Kept, IInv

LEMMA RemoveStep ==
    ASSUME IInv, NEW u \in User, NEW o \in Opp, Remove(u, o)
    PROVE  Kept
  <1>1. UNCHANGED <<guardVars, opp, reviews, job, page, adding, left>>
    BY DEF Remove, requests
  <1>2. GuardInv' /\ ApprovalsStay
    BY <1>1, GuardUnchanged, SameSignals DEF IInv
  <1>3. RowsInv' /\ PageInv' /\ RestInv'
    BY <1>1, RemoveKept, PagesUnchanged, RestUnchanged DEF IInv
  <1>4. SeenEdits
    BY <1>1 DEF SeenEdits
  <1> QED BY <1>2, <1>3, <1>4 DEF Kept, IInv

LEMMA NextKept ==
    ASSUME IInv, Next
    PROVE  Kept
  <1>1. CASE \E s \in Signal :
               \/ Audit(s) \/ ApproveMatch(s) \/ RejectPlace(s)
               \/ \E n \in Name : ApproveCreation(s, n)
               \/ \E decision \in {"active", "rejected", "ignored"} : Validate(s, decision)
    BY <1>1, AuditKept, ApproveMatchKept, RejectPlaceKept, ApproveCreationKept, ValidateKept
  <1>2. CASE \E j \in Job :
               \/ GiveUp(j) \/ FindDuplicate(j)
               \/ \E s \in Signal : Normalize(j, s)
               \/ \E n \in Name : Create(j, n)
               \/ \E o \in Opp : Match(j, o)
               \/ \E proposal \in Opp \cup {Creation} : AskReview(j, proposal)
    BY <1>2, GiveUpKept, FindDuplicateKept, NormalizeKept, CreateKept, MatchKept, AskReviewKept
  <1>3. CASE \E o \in Opp :
               \/ Submit(o) \/ RejectMerge(o)
               \/ \E status \in {"active", "rejected"} : Publish(o, status)
               \/ \E c \in Opp : Merge(o, c)
               \/ \E a \in Admin : OpenPage(a, o)
               \/ \E u \in User : StartAdding(u, o) \/ Add(u, o) \/ Remove(u, o)
    BY <1>3, SubmitStep, RejectMergeStep, PublishStep, MergeStep, OpenPageStep,
       StartAddingStep, AddStep, RemoveStep
  <1>4. CASE \E a \in Admin, n \in Name : Save(a, n)
    BY <1>4, SaveStep
  <1> QED BY <1>1, <1>2, <1>3, <1>4 DEF Next

LEMMA StutterKept ==
    ASSUME IInv, UNCHANGED vars
    PROVE  Kept
  <1>1. UNCHANGED <<guardVars, rows, reviews, job, page, adding, left>>
    BY DEF vars, requests
  <1>2. GuardInv' /\ ApprovalsStay
    BY <1>1, GuardUnchanged, SameSignals DEF IInv
  <1>3. RowsInv' /\ PageInv' /\ RestInv'
    BY <1>1, RowsUnchanged, PagesUnchanged, RestUnchanged DEF IInv, rows
  <1>4. SeenEdits
    BY <1>1 DEF rows, SeenEdits
  <1> QED BY <1>2, <1>3, <1>4 DEF Kept, IInv

-----------------------------------------------------------------------------
(* Merges and evidence.  No merges run in a circle, and the opportunities   *)
(* that a signal was ever linked to lie in a set that no merge leads out of *)
(* and whose unmerged members all have it.                                  *)

Keeps(H, s) ==
    /\ FollowsMerges(H)
    /\ \A o \in Opp : <<o, s>> \in placed \ late => o \in H
    /\ \A o \in H : opp[o].status # "merged" => <<o, s>> \in link

MergeInv ==
    /\ \A o \in Opp : opp[o].status = "merged" => opp[o].into \in Opp
    /\ \A S \in SUBSET Opp : S # {} /\ FollowsMerges(S) => \E o \in S : opp[o].status # "merged"
    /\ \A s \in Signal : \E H \in SUBSET Opp : Keeps(H, s)

(* Every step but a merge: no opportunity becomes merged, and a link that   *)
(* is not late is one of an opportunity that can show it.                   *)
NoMerge ==
    /\ \A o \in Opp : opp'[o].status = "merged" <=> opp[o].status = "merged"
    /\ \A o \in Opp : opp[o].status = "merged" => opp'[o].into = opp[o].into
    /\ link \subseteq link'
    /\ \A o \in Opp, s \in Signal :
          <<o, s>> \in placed' \ late' =>
             <<o, s>> \in placed \ late \/ (opp[o].status # "merged" /\ <<o, s>> \in link')

LEMMA NoMergeKept ==
    ASSUME MergeInv, NoMerge
    PROVE  MergeInv'
  <1>1. \A o \in Opp : opp'[o].status = "merged" => opp'[o].into \in Opp
    BY DEF MergeInv, NoMerge
  <1>2. ASSUME NEW S \in SUBSET Opp
        PROVE  FollowsMerges(S)' <=> FollowsMerges(S)
    BY DEF FollowsMerges, NoMerge
  <1>3. ASSUME NEW S \in SUBSET Opp, S # {}, FollowsMerges(S)'
        PROVE  \E o \in S : opp'[o].status # "merged"
    BY <1>2, <1>3 DEF MergeInv, NoMerge
  <1>4. ASSUME NEW s \in Signal
        PROVE  \E H \in SUBSET Opp : Keeps(H, s)'
    <2>1. PICK H \in SUBSET Opp : Keeps(H, s)
      BY DEF MergeInv
    <2> DEFINE G == H \cup {o \in Opp : opp[o].status # "merged" /\ <<o, s>> \in link'}
    <2>2. G \in SUBSET Opp
      OBVIOUS
    <2>3. \A o \in G : opp'[o].status = "merged" => opp'[o].into \in G
      BY <2>1 DEF Keeps, FollowsMerges, NoMerge
    <2>4. \A o \in Opp : <<o, s>> \in placed' \ late' => o \in G
      BY <2>1 DEF Keeps, NoMerge
    <2>5. \A o \in G : opp'[o].status # "merged" => <<o, s>> \in link'
      BY <2>1 DEF Keeps, NoMerge
    <2> HIDE DEF G
    <2> QED BY <2>2, <2>3, <2>4, <2>5 DEF Keeps, FollowsMerges
  <1> QED BY <1>1, <1>3, <1>4 DEF MergeInv

LEMMA MergeLineage ==
    ASSUME RowsInv, MergeInv, NEW o \in Opp, NEW c \in Opp, Merge(o, c)
    PROVE  MergeInv'
  <1>1. /\ opp'[o].status = "merged" /\ opp'[o].into = c /\ UNCHANGED <<placed, late>>
        /\ \A p \in Opp \ {o} : opp'[p] = opp[p]
    BY DEF Merge, RowsInv, OppRow
  <1>2. opp[o].status # "merged" /\ opp[c].status # "merged" /\ o # c
    BY DEF Merge, CanBeCanonical
  <1>3. /\ \A p \in Opp \ {o}, s \in Signal : <<p, s>> \in link => <<p, s>> \in link'
        /\ \A s \in Signal : <<o, s>> \in link => <<c, s>> \in link'
    BY DEF Merge, MovedLinks
  <1>4. \A p \in Opp : opp'[p].status = "merged" => opp'[p].into \in Opp
    BY <1>1 DEF MergeInv
  <1>5. ASSUME NEW S \in SUBSET Opp, S # {}, FollowsMerges(S)'
        PROVE  \E p \in S : opp'[p].status # "merged"
    <2>1. CASE o \in S
      <3>1. c \in S
        BY <1>1, <1>5, <2>1 DEF FollowsMerges
      <3> QED BY <1>1, <1>2, <3>1
    <2>2. CASE o \notin S
      <3>1. \A p \in S : opp'[p] = opp[p]
        BY <1>1, <2>2
      <3>2. FollowsMerges(S)
        BY <1>5, <3>1 DEF FollowsMerges
      <3> QED BY <1>5, <3>1, <3>2 DEF MergeInv
    <2> QED BY <2>1, <2>2
  <1>6. ASSUME NEW s \in Signal
        PROVE  \E H \in SUBSET Opp : Keeps(H, s)'
    <2>1. PICK H \in SUBSET Opp : Keeps(H, s)
      BY DEF MergeInv
    <2> DEFINE G == H \cup {p \in {c} : o \in H}
    <2>2. G \in SUBSET Opp
      OBVIOUS
    <2>3. \A p \in G : opp'[p].status = "merged" => opp'[p].into \in G
      BY <1>1, <1>2, <2>1 DEF Keeps, FollowsMerges
    <2>4. \A p \in Opp : <<p, s>> \in placed' \ late' => p \in G
      BY <1>1, <2>1 DEF Keeps
    <2>5. \A p \in G : opp'[p].status # "merged" => <<p, s>> \in link'
      BY <1>1, <1>2, <1>3, <2>1 DEF Keeps
    <2> HIDE DEF G
    <2> QED BY <2>2, <2>3, <2>4, <2>5 DEF Keeps, FollowsMerges
  <1> QED BY <1>4, <1>5, <1>6 DEF MergeInv

LEMMA LinkedNoMerge ==
    ASSUME NEW o \in Opp, NEW s \in Signal, Linked(o, s),
           \A p \in Opp : opp'[p].status = "merged" <=> opp[p].status = "merged",
           \A p \in Opp : opp[p].status = "merged" => opp'[p].into = opp[p].into
    PROVE  NoMerge
  <1>1. link' = link \cup {<<o, s>>} /\ placed' = placed \cup {<<o, s>>} /\ late \subseteq late'
    BY DEF Linked
  <1>2. opp[o].status = "merged" => <<o, s>> \in late'
    BY DEF Linked
  <1>3. ASSUME NEW p \in Opp, NEW t \in Signal, <<p, t>> \in placed' \ late'
        PROVE  <<p, t>> \in placed \ late \/ (opp[p].status # "merged" /\ <<p, t>> \in link')
    BY <1>1, <1>2, <1>3
  <1> QED BY <1>1, <1>3 DEF NoMerge

LEMMA RowsNoMerge ==
    ASSUME UNCHANGED <<opp, link, placed>>, late \subseteq late'
    PROVE  NoMerge
  BY DEF NoMerge

(* One row changes; it is not merged, neither before nor after. *)
LEMMA OneNoMerge ==
    ASSUME RowsInv, NEW o \in Opp, NEW row, opp' = [opp EXCEPT ![o] = row],
           opp[o].status # "merged", row.status # "merged"
    PROVE  /\ \A p \in Opp : opp'[p].status = "merged" <=> opp[p].status = "merged"
           /\ \A p \in Opp : opp[p].status = "merged" => opp'[p].into = opp[p].into
  BY DEF RowsInv

LEMMA CreatedNoMerge ==
    ASSUME RowsInv, NEW n \in Name, NEW s \in Signal, Created(n, s)
    PROVE  NoMerge
  <1>1. PICK o \in Opp : /\ opp[o].status = "absent"
                         /\ opp' = [opp EXCEPT ![o] = Candidate(n)]
                         /\ Linked(o, s)
    BY CreatedRow
  <1>2. Candidate(n).status # "merged" /\ opp[o].status # "merged"
    BY <1>1, CandidateRow
  <1>3. /\ \A p \in Opp : opp'[p].status = "merged" <=> opp[p].status = "merged"
        /\ \A p \in Opp : opp[p].status = "merged" => opp'[p].into = opp[p].into
    BY <1>1, <1>2, OneNoMerge
  <1> QED BY <1>1, <1>3, LinkedNoMerge

LEMMA PublishNoMerge ==
    ASSUME RowsInv, NEW o \in Opp, NEW status \in {"active", "rejected"}, Publish(o, status)
    PROVE  NoMerge
  <1>1. PICK row \in OppRow : opp' = [opp EXCEPT ![o] = row] /\ row.status = status
    BY PublishedRow
  <1>2. UNCHANGED <<link, placed, late>> /\ opp[o].status # "merged"
    BY DEF Publish
  <1> QED BY <1>1, <1>2, OneNoMerge DEF NoMerge

LEMMA SaveNoMerge ==
    ASSUME RowsInv, PageInv, NEW a \in Admin, NEW n \in Name, Save(a, n)
    PROVE  NoMerge
  <1> DEFINE o == page[a].on
             row == [opp[o] EXCEPT !.name = n]
  <1>1. o \in Opp
    BY DEF Save, PageInv, PageRow
  <1>2. opp' = [opp EXCEPT ![o] = row] /\ opp[o].status # "merged" /\ row.status # "merged"
    BY <1>1 DEF Save, RowsInv, OppRow
  <1>3. UNCHANGED <<link, placed, late>>
    BY DEF Save
  <1> HIDE DEF row, o
  <1> QED BY <1>1, <1>2, <1>3, OneNoMerge DEF NoMerge

LEMMA MatchNoMerge ==
    ASSUME NEW o \in Opp, NEW s \in Signal, Linked(o, s), UNCHANGED opp
    PROVE  NoMerge
  BY LinkedNoMerge

LEMMA LineageStep ==
    ASSUME IInv, MergeInv, [Next]_vars
    PROVE  MergeInv'
  <1>1. RowsInv /\ PageInv /\ RestInv
    BY DEF IInv
  <1>2. ASSUME NEW o \in Opp, NEW c \in Opp, Merge(o, c)
        PROVE  MergeInv'
    BY <1>1, <1>2, MergeLineage
  <1>3. ASSUME NEW j \in Job, NEW n \in Name, Create(j, n)
        PROVE  MergeInv'
    <2>1. job[j].signal \in Signal /\ Created(n, job[j].signal)
      BY <1>1, <1>3 DEF Create, Answered, RestInv
    <2> QED BY <1>1, <2>1, CreatedNoMerge, NoMergeKept
  <1>4. ASSUME NEW s \in Signal, NEW n \in Name, ApproveCreation(s, n)
        PROVE  MergeInv'
    BY <1>1, <1>4, CreatedNoMerge, NoMergeKept DEF ApproveCreation
  <1>5. ASSUME NEW j \in Job, NEW o \in Opp, Match(j, o)
        PROVE  MergeInv'
    <2>1. job[j].signal \in Signal /\ Linked(o, job[j].signal) /\ UNCHANGED opp
      BY <1>1, <1>5 DEF Match, Answered, RestInv
    <2> QED BY <2>1, MatchNoMerge, NoMergeKept
  <1>6. ASSUME NEW s \in Signal, ApproveMatch(s)
        PROVE  MergeInv'
    <2>1. place[s] \in Opp /\ Linked(place[s], s) /\ UNCHANGED opp
      BY <1>6 DEF ApproveMatch, Eligible
    <2> QED BY <2>1, MatchNoMerge, NoMergeKept
  <1>7. ASSUME NEW o \in Opp, NEW status \in {"active", "rejected"}, Publish(o, status)
        PROVE  MergeInv'
    BY <1>1, <1>7, PublishNoMerge, NoMergeKept
  <1>8. ASSUME NEW a \in Admin, NEW n \in Name, Save(a, n)
        PROVE  MergeInv'
    BY <1>1, <1>8, SaveNoMerge, NoMergeKept
  <1>9. ASSUME UNCHANGED <<opp, link, placed>>, late \subseteq late'
        PROVE  MergeInv'
    BY <1>9, RowsNoMerge, NoMergeKept
  <1>10. ASSUME NEW s \in Signal,
                \/ Audit(s) \/ RejectPlace(s)
                \/ \E decision \in {"active", "rejected", "ignored"} : Validate(s, decision)
         PROVE  MergeInv'
    BY <1>9, <1>10 DEF Audit, RejectPlace, Validate, rows
  <1>11. ASSUME NEW j \in Job,
                \/ GiveUp(j) \/ FindDuplicate(j)
                \/ \E s \in Signal : Normalize(j, s)
                \/ \E proposal \in Opp \cup {Creation} : AskReview(j, proposal)
         PROVE  MergeInv'
    <2>1. UNCHANGED <<opp, link, placed, late>>
      BY <1>11 DEF GiveUp, FindDuplicate, Normalize, AskReview, rows
    <2> QED BY <1>9, <2>1
  <1>12. ASSUME NEW o \in Opp,
                \/ Submit(o) \/ RejectMerge(o)
                \/ \E a \in Admin : OpenPage(a, o)
                \/ \E u \in User : StartAdding(u, o) \/ Add(u, o) \/ Remove(u, o)
         PROVE  MergeInv'
    <2>1. UNCHANGED <<opp, link, placed>> /\ late \subseteq late'
      BY <1>12 DEF Submit, RejectMerge, OpenPage, StartAdding, Add, Remove, rows
    <2> QED BY <1>9, <2>1
  <1>13. CASE UNCHANGED vars
    BY <1>9, <1>13 DEF vars, rows
  <1>14. CASE Next
    <2>1. ASSUME NEW s \in Signal,
                 \/ Audit(s) \/ ApproveMatch(s) \/ RejectPlace(s)
                 \/ \E n \in Name : ApproveCreation(s, n)
                 \/ \E decision \in {"active", "rejected", "ignored"} : Validate(s, decision)
          PROVE  MergeInv'
      BY <2>1, <1>4, <1>6, <1>10
    <2>2. ASSUME NEW j \in Job,
                 \/ GiveUp(j) \/ FindDuplicate(j)
                 \/ \E s \in Signal : Normalize(j, s)
                 \/ \E n \in Name : Create(j, n)
                 \/ \E o \in Opp : Match(j, o)
                 \/ \E proposal \in Opp \cup {Creation} : AskReview(j, proposal)
          PROVE  MergeInv'
      BY <2>2, <1>3, <1>5, <1>11
    <2>3. ASSUME NEW o \in Opp,
                 \/ Submit(o) \/ RejectMerge(o)
                 \/ \E status \in {"active", "rejected"} : Publish(o, status)
                 \/ \E c \in Opp : Merge(o, c)
                 \/ \E a \in Admin : OpenPage(a, o)
                 \/ \E u \in User : StartAdding(u, o) \/ Add(u, o) \/ Remove(u, o)
          PROVE  MergeInv'
      BY <2>3, <1>2, <1>7, <1>12
    <2> QED BY <1>14, <1>8, <2>1, <2>2, <2>3 DEF Next
  <1> QED BY <1>13, <1>14

LEMMA LineageEnds ==
    ASSUME MergeInv
    PROVE  EvidenceFollowsMerges
  <1> SUFFICES ASSUME NEW o \in Opp
               PROVE  \E c \in Successors(o) :
                         /\ opp[c].status # "merged"
                         /\ \A s \in Signal : <<o, s>> \in placed \ late => <<c, s>> \in link
    BY DEF EvidenceFollowsMerges
  <1>1. o \in Successors(o) /\ Successors(o) \in SUBSET Opp
    BY DEF Successors
  <1>2. FollowsMerges(Successors(o))
    BY DEF MergeInv, FollowsMerges, Successors
  <1>3. PICK c \in Successors(o) : opp[c].status # "merged"
    BY <1>1, <1>2 DEF MergeInv
  <1>4. ASSUME NEW s \in Signal, <<o, s>> \in placed \ late
        PROVE  <<c, s>> \in link
    <2>1. PICK H \in SUBSET Opp : Keeps(H, s)
      BY DEF MergeInv
    <2>2. o \in H /\ FollowsMerges(H)
      BY <1>4, <2>1 DEF Keeps
    <2>3. c \in H
      BY <1>3, <2>2 DEF Successors
    <2> QED BY <1>3, <2>1, <2>3 DEF Keeps
  <1> QED BY <1>3, <1>4

-----------------------------------------------------------------------------
(* The beginning, and the theorems *)

LEMMA InitRows ==
    ASSUME NEW t \in Text, NEW st \in {"review", "active"}
    PROVE  /\ Guarded(t) \in SignalRow /\ Historical(t, st) \in SignalRow
           /\ Sound(Historical(t, st), Closed) /\ Historical(t, st).semantic = "current"
           /\ Guarded(t).status = "review"
           /\ Sound(Guarded(t), Closed) /\ Sound(Guarded(t), Pending)
  <1>1. Grade[t] \in {"accept", "review", "reject"} /\ Closed # Pending
    BY GuardrailAssumption DEF Closed, Pending
  <1>2. SemanticOf(Grade[t]) \in Semantic /\ (Grade[t] = "accept" <=> SemanticOf(Grade[t]) = "current")
    BY <1>1 DEF SemanticOf, Semantic
  <1>3. Guarded(t) \in SignalRow /\ Guarded(t).status = "review"
    BY <1>2 DEF Guarded, SignalRow
  <1>4. Historical(t, st) \in SignalRow /\ Historical(t, st).semantic = "current"
    BY DEF Historical, SignalRow, Semantic
  <1>5. Sound(Historical(t, st), Closed)
    BY <1>1 DEF Historical, Sound
  <1>6. Sound(Guarded(t), Closed) /\ Sound(Guarded(t), Pending)
    BY <1>2 DEF Guarded, Sound
  <1> QED BY <1>3, <1>4, <1>5, <1>6

LEMMA InitGuard ==
    ASSUME GuardInit
    PROVE  GuardInv
  <1>1. /\ signal \in [Signal -> {Guarded(t) : t \in Text}
                             \cup {Historical(t, st) : t \in Text, st \in {"review", "active"}}]
        /\ validation = [s \in Signal |-> IF Current(s) THEN Closed ELSE Pending]
    BY DEF GuardInit
  <1>2. ASSUME NEW s \in Signal
        PROVE  signal[s] \in SignalRow /\ Sound(signal[s], validation[s])
    <2>1. CASE \E t \in Text : signal[s] = Guarded(t)
      BY <1>1, <2>1, InitRows
    <2>2. CASE \E t \in Text, st \in {"review", "active"} : signal[s] = Historical(t, st)
      BY <1>1, <2>2, InitRows DEF Current
    <2> QED BY <1>1, <2>1, <2>2
  <1>3. EvidenceCountsOnce
    BY DEF GuardInit, EvidenceCountsOnce
  <1>4. signal \in [Signal -> SignalRow]
    BY <1>1, <1>2
  <1>5. validation \in [Signal -> {Closed, Pending}]
    BY <1>1
  <1> QED BY <1>2, <1>3, <1>4, <1>5 DEF GuardInv

LEMMA InitHolds ==
    ASSUME Init
    PROVE  IInv
  <1>1. GuardInv
    BY InitGuard DEF Init
  <1>2. RowsInv
    <2>1. NoOpp \in OppRow /\ NoOpp.status = "absent"
      BY DEF NoOpp, OppRow
    <2> QED BY <2>1 DEF Init, RowsInv, NothingStaysBehind, PublishedNamesDiffer
  <1>3. PageInv
    <2>1. NoPage \in PageRow /\ NoPage.on = None
      BY DEF NoPage, PageRow
    <2> QED BY <2>1 DEF Init, PageInv
  <1>4. RestInv
    <2>1. NoJob \in JobRow
      BY DEF NoJob, JobRow
    <2> QED BY <2>1 DEF Init, RestInv, PlaceRow
  <1> QED BY <1>1, <1>2, <1>3, <1>4 DEF IInv

(* The inductive invariant. *)
THEOREM InvCorrect == Spec => []IInv
  <1>1. IInv /\ [Next]_vars => IInv'
    BY NextKept, StutterKept DEF Kept
  <1> QED BY <1>1, InitHolds, PTL DEF Spec

(* Every variable keeps its type. *)
THEOREM TypeCorrect == Spec => []TypeOK
  <1>1. IInv => TypeOK
    BY DEF IInv, GuardInv, RowsInv, PageInv, RestInv, TypeOK
  <1> QED BY <1>1, InvCorrect, PTL

(* One piece of evidence counts once: signal_semantics.py keeps at most one *)
(* published and current signal of a text that it accepts, for any number   *)
(* of normalizations, reviews and audits.                                   *)
THEOREM EvidenceCountsOnceCorrect == Spec => []EvidenceCountsOnce
  <1>1. IInv => EvidenceCountsOnce
    BY DEF IInv, GuardInv
  <1> QED BY <1>1, InvCorrect, PTL

(* A judged signal is published only when the guardrail accepts it or a     *)
(* person has approved it with notes, whichever review or forced            *)
(* normalization publishes it.                                              *)
THEOREM PublishedIsClearedCorrect == Spec => []PublishedIsCleared
  <1>1. IInv => PublishedIsCleared
    BY DEF IInv, GuardInv, Sound, PublishedIsCleared, Effective, Current, GradeOf
  <1> QED BY <1>1, InvCorrect, PTL

(* After a merge nothing stays on the opportunity that was merged, except   *)
(* what is written on it later.                                             *)
THEOREM NothingStaysBehindCorrect == Spec => []NothingStaysBehind
  <1>1. IInv => NothingStaysBehind
    BY DEF IInv, RowsInv
  <1> QED BY <1>1, InvCorrect, PTL

(* However merges are chained and whatever is linked meanwhile, the lineage *)
(* of an opportunity ends in one that is not merged and has every signal    *)
(* that was linked to it in time (_merge, _creates_cycle, _load_canonical).  *)
THEOREM EvidenceFollowsMergesCorrect == Spec => []EvidenceFollowsMerges
  <1>1. Init => MergeInv
    <2> SUFFICES ASSUME Init PROVE MergeInv
      OBVIOUS
    <2>1. /\ \A o \in Opp : opp[o].status # "merged"
          /\ placed = {}
      BY DEF Init, NoOpp
    <2>2. \A s \in Signal : Keeps({}, s)
      BY <2>1 DEF Keeps, FollowsMerges
    <2> QED BY <2>1, <2>2 DEF MergeInv
  <1>2. IInv /\ MergeInv /\ [Next]_vars => MergeInv'
    BY LineageStep
  <1>3. MergeInv => EvidenceFollowsMerges
    BY LineageEnds
  <1> QED BY <1>1, <1>2, <1>3, InvCorrect, PTL DEF Spec

(* Of two published opportunities with one name the later one missed the     *)
(* earlier one, because its pool was full or its name not searched; and no  *)
(* published name fails the scope check, however edits, activations and     *)
(* merges interleave.                                                       *)
THEOREM PublishedNamesDifferCorrect == Spec => []PublishedNamesDiffer
  <1>1. IInv => PublishedNamesDiffer
    BY DEF IInv, RowsInv
  <1> QED BY <1>1, InvCorrect, PTL

(* The guardrail never takes back what a person has approved against it.    *)
THEOREM ApprovalStandsCorrect == Spec => ApprovalStands
  <1>1. IInv /\ [Next]_vars => [ApprovalsStay]_signal
    BY NextKept, StutterKept DEF Kept
  <1>2. [ApprovalsStay]_signal
          => [\A s \in Signal : signal[s].human /\ Current(s)
                 => signal'[s].human /\ signal'[s].semantic = "current"]_signal
    BY DEF ApprovalsStay
  <1> QED BY <1>1, <1>2, InvCorrect, PTL DEF Spec, ApprovalStands

(* Only a save changes the name of an opportunity, and its author has seen  *)
(* the name that it replaces: the stamp candidate_workspace.py compares is  *)
(* enough, whoever else edits, publishes or merges.                         *)
THEOREM NoLostEditCorrect == Spec => NoLostEdit
  <1>1. IInv /\ [Next]_vars => [SeenEdits]_opp
    BY NextKept, StutterKept DEF Kept
  <1>2. [SeenEdits]_opp
          => [\A o \in Opp : opp[o].status # "absent" /\ opp'[o].name # opp[o].name =>
                 \E a \in Admin : page[a].on = o /\ page'[a] = NoPage
                                  /\ page[a].saw = opp[o].name]_opp
    BY DEF SeenEdits
  <1> QED BY <1>1, <1>2, InvCorrect, PTL DEF Spec, NoLostEdit
=============================================================================
