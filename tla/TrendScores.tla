---------------------------- MODULE TrendScores ----------------------------
(* Trend aggregation and scoring of the opportunities: every job reads in   *)
(* one transaction, computes outside, and writes in another, in which the   *)
(* row is looked up again and then updated or inserted under unique keys.   *)
EXTENDS BusinessCase, ScoreFormula

CONSTANTS
    ContextOf,     \* [Opportunity -> its traits for the formula]
    WindowOrder,   \* the windows, shortest first
    WindowLength,  \* [window -> ticks]
    MaxTime,       \* bound: the last tick
    Calculation    \* identities of aggregation and scoring jobs

ASSUME TrendAssumption ==
    /\ \A s \in Signal : Trait[s].at \in Nat
    /\ Hour \in Nat \ {0} /\ MaxTime \in Nat
    /\ \A w \in DOMAIN WindowLength : WindowLength[w] \in Nat
    /\ WindowOrder \in Seq(DOMAIN WindowLength)
    /\ \A w \in DOMAIN WindowLength : \E i \in DOMAIN WindowOrder : WindowOrder[i] = w

(* The table of logarithms reaches as far as the evidence and its views can. *)
ASSUME EvidenceAssumption ==
    /\ IsFiniteSet(Signal)
    /\ \A S \in SUBSET Signal : HasLog(Cardinality(S))
    /\ \A V \in SUBSET VideosOf(Signal) : HasLog(Cardinality(V)) /\ HasLog(Views(V))
    /\ ContextOf \in [Opportunity -> ContextRow]

VARIABLES
    now,
    snapshot,  \* [Opportunity -> its trend rows]
    score,     \* [Opportunity -> its score rows]
    calc       \* [Calculation -> job]

trendVars == <<now, snapshot, score, calc>>
vars == <<textVars, localVars, caseVars, trendVars, faults, left>>

Window == DOMAIN WindowLength
NoCalc == [phase |-> "none"]

-----------------------------------------------------------------------------
(* aggregate *)

Boundaries(w, t) == <<Floor(t) - WindowLength[w], Floor(t)>>
Row(o, w, p) == {r \in snapshot[o] : r.window = w /\ r.from = p[1] /\ r.to = p[2]}

(* The snapshot of the running hour is reused unless forced; otherwise the  *)
(* evidence of the window and of the one before it is read.                 *)
Aggregate(k, o, w, force) ==
    /\ calc[k] = NoCalc /\ left.calc > 0 /\ Consolidable(o)
    /\ LET p == Boundaries(w, now)
       IN /\ force \/ Row(o, w, p) = {}
          /\ calc' = [calc EXCEPT ![k] =
                [phase |-> "counted", opp |-> o, window |-> w,
                 trend |-> TrendOf(evidence[o], p[1], p[2])]]
    /\ left' = [left EXCEPT !.calc = @ - 1]
    /\ UNCHANGED <<textVars, localVars, caseVars, now, snapshot, score, faults>>

RowOf(j) ==
    LET trend == j.trend
    IN [window |-> j.window, from |-> trend.from, to |-> trend.to, counted |-> trend.counted,
        before |-> trend.before, videos |-> trend.videos, views |-> trend.views,
        momentum |-> trend.momentum]
SamePeriod(j) == Row(j.opp, j.window, <<j.trend.from, j.trend.to>>)

LookForSnapshot(k) ==
    /\ calc[k].phase = "counted"
    /\ calc' = [calc EXCEPT ![k].phase = IF SamePeriod(calc[k]) = {} THEN "insert" ELSE "update"]
    /\ UNCHANGED <<textVars, localVars, caseVars, now, snapshot, score, faults, left>>

(* An update replaces the metrics of the row, whichever evidence they count; *)
(* an insert is refused when another job has been quicker.                   *)
WriteSnapshot(k) ==
    /\ calc[k].phase \in {"insert", "update"}
    /\ LET j == calc[k]
       IN snapshot' = [snapshot EXCEPT ![j.opp] =
                          IF j.phase = "insert" /\ SamePeriod(j) # {} THEN @
                          ELSE (@ \ SamePeriod(j)) \cup {RowOf(j)}]
    /\ calc' = [calc EXCEPT ![k] = NoCalc]
    /\ UNCHANGED <<textVars, localVars, caseVars, now, score, faults, left>>

-----------------------------------------------------------------------------
(* score *)

NoTrend == [window |-> WindowOrder[1], from |-> 0, to |-> 0, counted |-> {}, before |-> {},
            videos |-> 0, views |-> 0, momentum |-> 50]

(* _select_trend: the latest row of the shortest window that has any. *)
SelectedTrend(o) ==
    IF snapshot[o] = {} THEN NoTrend
    ELSE LET w == WindowOrder[CHOOSE i \in DOMAIN WindowOrder :
                      /\ \E r \in snapshot[o] : r.window = WindowOrder[i]
                      /\ \A r \in snapshot[o] : \A k \in 1 .. i - 1 : r.window # WindowOrder[k]]
         IN CHOOSE r \in snapshot[o] :
               r.window = w /\ \A q \in snapshot[o] : q.window = w => q.to <= r.to

(* The reference time is the hour, or the moment when forced. *)
StartScore(k, o, force) ==
    /\ calc[k] = NoCalc /\ left.calc > 0 /\ Consolidable(o)
    /\ LET at == IF force THEN now ELSE Floor(now)
           input == [at |-> at, signals |-> evidence[o], trend |-> SelectedTrend(o)]
       IN /\ \A r \in score[o] : r.input # input
          /\ calc' = [calc EXCEPT ![k] = [phase |-> "scored", opp |-> o, input |-> input]]
    /\ left' = [left EXCEPT !.calc = @ - 1]
    /\ UNCHANGED <<textVars, localVars, caseVars, now, snapshot, score, faults>>

ScoreRow(o, input) ==
    [input |-> input, value |-> ScoreOf(ContextOf[o], input.signals, input.trend, input.at)]

(* Unique by input hash, which is looked up, and by reference time, which   *)
(* is not.                                                                  *)
ScoreRefused(j) == \E r \in score[j.opp] : r.input.at = j.input.at /\ r.input # j.input

SaveScore(k) ==
    /\ calc[k].phase = "scored"
    /\ LET j == calc[k]
       IN score' = IF ScoreRefused(j) THEN score
                   ELSE [score EXCEPT ![j.opp] = @ \cup {ScoreRow(j.opp, j.input)}]
    /\ calc' = [calc EXCEPT ![k] = NoCalc]
    /\ UNCHANGED <<textVars, localVars, caseVars, now, snapshot, faults, left>>

Tick ==
    /\ now < MaxTime
    /\ now' = now + 1
    /\ UNCHANGED <<textVars, localVars, caseVars, snapshot, score, calc, faults, left>>

TrendStep ==
    \/ Tick
    \/ \E k \in Calculation :
          \/ LookForSnapshot(k) \/ WriteSnapshot(k) \/ SaveScore(k)
          \/ \E o \in Opportunity, force \in BOOLEAN :
                StartScore(k, o, force) \/ \E w \in Window : Aggregate(k, o, w, force)

-----------------------------------------------------------------------------
(* The composition: what derives from an opportunity *)

(* Opportunities with their evidence, of which nothing is derived yet. *)
Init ==
    /\ entity \in [Target -> EntityRow]
    /\ recent \in [1 .. Cardinality(Target) -> Target]
    /\ \A t \in Target : \E i \in DOMAIN recent : recent[i] = t
    /\ row = [t \in Target |-> [f \in Field |-> [x \in Text |-> "none"]]]
    /\ lease = {} /\ due \subseteq Target
    /\ task = [c \in Task |-> NoTask]
    /\ evidence \in [Opportunity -> SUBSET Signal]
    /\ cases = [o \in Opportunity |-> <<>>]
    /\ delivery = [d \in Delivery |-> NoDelivery]
    /\ now \in 0 .. MaxTime
    /\ snapshot = [o \in Opportunity |-> {}] /\ score = [o \in Opportunity |-> {}]
    /\ calc = [k \in Calculation |-> NoCalc]
    /\ faults \in 0 .. MaxFaults
    /\ left \in [{"advance", "edit", "direct", "evidence", "calc"} -> Nat]

Next ==
    \/ LocalizationStep /\ UNCHANGED <<caseVars, trendVars>>
    \/ CaseStep /\ UNCHANGED trendVars
    \/ TrendStep

Spec == Init /\ [][Next]_vars

(* Workers go on, keys run out by the clock, and the scheduler scans every  *)
(* twenty minutes.                                                          *)
Fairness ==
    /\ \A t \in Target :
          /\ WF_vars(Reconcile(t) /\ UNCHANGED <<caseVars, trendVars>>)
          /\ WF_vars(LeaseExpires(t) /\ UNCHANGED <<caseVars, trendVars>>)
    /\ \A c \in Task :
          WF_vars((Load(c) \/ Answer(c) \/ Save(c)) /\ UNCHANGED <<caseVars, trendVars>>)

TypeOK ==
    /\ LocalizationTypeOK /\ CaseTypeOK
    /\ now \in 0 .. MaxTime
    /\ \A k \in Calculation :
          calc[k].phase \in {"none", "counted", "insert", "update", "scored"}

-----------------------------------------------------------------------------
(* Properties *)

(* The windows are half-open and adjoin: of two stored snapshots whose      *)
(* windows do not overlap none counts a signal of the other, and what a     *)
(* snapshot compares itself with is not counted in it, so a signal at a     *)
(* boundary makes no growth of its own.                                     *)
NoSignalCountedTwice ==
    \A o \in Opportunity : \A r, q \in snapshot[o] :
        /\ r.counted \cap r.before = {}
        /\ r.to <= q.from => r.counted \cap q.counted = {}

(* Every score the formula can yield, from every trend row and evidence, is  *)
(* a percentage before round_score clamps it, so that the clamp hides no    *)
(* score that is out of range and the CHECKs of the columns hold.  And      *)
(* "purchase intent when pain exists", "saturation": one more signal never  *)
(* lowers what the evidence says of demand, revenue and pain.               *)
ScoresInRange ==
    \A o \in Opportunity :
        /\ \A r \in score[o] : \A part \in DOMAIN r.value : r.value[part] \in 0 .. 100
        /\ \A s \in Signal :
             LET more == evidence[o] \cup {s}
             IN /\ DemandEvidence(evidence[o]) <= DemandEvidence(more)
                /\ RevenueEvidence(evidence[o]) <= RevenueEvidence(more)
                /\ PainSeverity(evidence[o]) <= PainSeverity(more)

(* docs/scoring.md: what the row identity (opportunity, version, input      *)
(* hash) does not reuse is appended to the history.                         *)
NewInputIsAppended == \A k \in Calculation : calc[k].phase = "scored" => ~ScoreRefused(calc[k])
=============================================================================
