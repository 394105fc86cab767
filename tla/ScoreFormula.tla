---------------------------- MODULE ScoreFormula ----------------------------
(* The pure part of trend-v001 and score-v001: what an opportunity's        *)
(* evidence yields in a half-open window, and as components and scores.     *)
(* Time is counted in ticks; scores and growths are whole percents, so the  *)
(* quanta of the code (hundredths of a percent) are abstracted.  round_score *)
(* also clamps each column to a percentage; here the columns are as they are *)
(* before.                                                                   *)
EXTENDS Integers, FiniteSets, Sequences, FiniteSetsExt

CONSTANTS
    Trait,       \* [Signal -> type, claim status, effective time, video, ...]
    VideoTrait,  \* [video -> first seen, whether and with how many views captured]
    Hour, Day,
    Saturation,  \* [scale -> [hundredths -> 100 * (1 - exp(-n / scale))]]
    LogTable     \* [n + 1 -> 50 * log2(n + 1), rounded]

Scale == {"2", "3", "4", "5", "8", "views"}
Most == 400

ASSUME FormulaAssumption ==
    /\ Saturation \in [Scale -> [0 .. Most -> 0 .. 100]]
    /\ \A s \in Scale : \A m, n \in 0 .. Most : m <= n => Saturation[s][m] <= Saturation[s][n]
    /\ \A i \in DOMAIN LogTable : LogTable[i] \in Int

HasLog(n) == n \in Nat /\ n + 1 \in DOMAIN LogTable

-----------------------------------------------------------------------------
(* Windows *)

Floor(t) == t - (t % Hour)

BadWithin(signals, from, to) == {s \in signals : from <= Trait[s].at /\ Trait[s].at <= to}
Within(signals, from, to) == {s \in signals : from <= Trait[s].at /\ Trait[s].at < to}

VideosOf(signals) == {Trait[s].video : s \in signals}

Sum(f(_), S) == FoldSet(LAMBDA x, total : total + f(x), 0, S)

Views(videos) == Sum(LAMBDA v : VideoTrait[v].views, {v \in videos : VideoTrait[v].captured})

(* _period_metrics; every video is of a channel of its own. *)
Period(signals, from, to) ==
    LET counted == Within(signals, from, to)
        videos == VideosOf(counted)
    IN [counted |-> counted,
        new |-> Cardinality({v \in videos : from <= VideoTrait[v].seen /\ VideoTrait[v].seen < to}),
        videos |-> Cardinality(videos),
        captured |-> \A v \in videos : VideoTrait[v].captured,
        views |-> Views(videos)]

Clamp(n) == IF n < 0 THEN 0 ELSE IF n > 100 THEN 100 ELSE n

Growth(current, previous) ==
    Clamp(50 + LogTable[current + 1] - LogTable[previous + 1])

(* _combine_metrics: 50 without history. *)
Momentum(current, previous, history) ==
    IF ~history THEN 50
    ELSE (35 * Growth(Cardinality(current.counted), Cardinality(previous.counted))
            + 30 * Growth(current.new, previous.new)
            + 20 * Growth(current.videos, previous.videos)
            + 15 * (IF current.captured /\ previous.captured
                    THEN Growth(current.views, previous.views) ELSE 50)) \div 100

TrendOf(E, from, to) ==
    LET current == Period(E, from, to)
        previous == Period(E, from - (to - from), from)
        history == \E s \in E : Trait[s].at < from
    IN [from |-> from, to |-> to, counted |-> current.counted,
        before |-> previous.counted, videos |-> current.videos, views |-> current.views,
        momentum |-> Momentum(current, previous, history)]

-----------------------------------------------------------------------------
(* The components of score-v001 *)

Least(a, b) == IF a < b THEN a ELSE b

(* count_score; beyond Most the table is flat. *)
Sat(scale, n) == Saturation[scale][Least(100 * n, Most)]

CountOf(signals, kinds) == Cardinality({s \in signals : Trait[s].kind \in kinds})

Diversity(signals) ==
    LET n == Cardinality(VideosOf(signals)) IN (Sat("4", n) + Sat("3", n)) \div 2

DemandEvidence(E) ==
    (30 * Sat("2", CountOf(E, {"purchase_intent"})) + 25 * Sat("3", CountOf(E, {"demand"}))
       + 15 * Sat("3", CountOf(E, {"adoption"})) + 10 * Sat("3", CountOf(E, {"feature_request"}))
       + 10 * Sat("4", CountOf(E, {"workflow", "complaint"})) + 10 * Diversity(E)) \div 100

(* The claim quality of the signals of a kind, in hundredths. *)
Quality(E, kinds) ==
    LET n(claims) == Cardinality({s \in E : Trait[s].kind \in kinds /\ Trait[s].claim \in claims})
    IN 100 * n({"fact"}) + 40 * n({"creator_claim"}) + 20 * n({"inferred", "unknown"})
         + 10 * n({"opinion"}) + 5 * n({"speculation"})

Commercial(E) ==
    (100 * Quality(E, {"revenue"}) + 70 * Quality(E, {"pricing"})
       + 60 * Quality(E, {"customer"}) + 50 * Quality(E, {"adoption"})) \div 100

RevenueEvidence(E) ==
    (70 * Saturation["3"][Least(Commercial(E), Most)]
       + 15 * Sat("2", Cardinality({s \in E : Trait[s].quantified}))
       + 15 * Diversity(E)) \div 100

(* Purchase intent counts only where there is pain. *)
PainSeverity(E) ==
    (30 * Sat("4", CountOf(E, {"pain"})) + 20 * Sat("4", CountOf(E, {"workflow"}))
       + 20 * Sat("3", Cardinality({s \in E : Trait[s].priced}))
       + 15 * Sat("3", CountOf(E, {"complaint"}))
       + 15 * (IF CountOf(E, {"pain"}) > 0 THEN Sat("2", CountOf(E, {"purchase_intent"})) ELSE 0))
    \div 100

WhiteSpaceCurve == <<<<0, 55>>, <<25, 85>>, <<45, 100>>, <<70, 65>>, <<100, 20>>>>

Interpolate(x, points) ==
    LET i == CHOOSE i \in 1 .. Len(points) - 1 :
                x <= points[i + 1][1] /\ \A k \in 1 .. i - 1 : x > points[k + 1][1]
        a == points[i]
        b == points[i + 1]
    IN a[2] + ((x - a[1]) * (b[2] - a[2])) \div (b[1] - a[1])

WhiteSpace(E) == Interpolate(Sat("5", CountOf(E, {"competition", "product_launch"})), WhiteSpaceCurve)

(* What the tokens of the taxonomy say of an opportunity. *)
ContextRow ==
    [technical: BOOLEAN, helpful: Nat, hindering: Nat, regulated: BOOLEAN, commercial: BOOLEAN,
     small: BOOLEAN, enterprise: BOOLEAN, government: BOOLEAN, models: Nat, channels: Nat]

(* Tokens of technology, industry and business model; neutral without any. *)
BuildFeasibility(c) ==
    IF ~c.technical THEN 50
    ELSE Clamp(50 + Least(30, 10 * c.helpful) - Least(40, 20 * c.hindering)
                 - (IF c.regulated THEN 10 ELSE 0))

(* Tokens of customer, business model and channels; neutral without any. *)
BadDistributionEase(c) ==
    IF ~c.commercial THEN 50
    ELSE 50 + (IF c.small THEN 15 ELSE 0) - (IF c.enterprise THEN 15 ELSE 0)
           - (IF c.government THEN 25 ELSE 0) + 10 * c.models + Least(20, 5 * c.channels)
DistributionEase(c) ==
    IF ~c.commercial THEN 50
    ELSE Clamp(50 + (IF c.small THEN 15 ELSE 0) - (IF c.enterprise THEN 15 ELSE 0)
                 - (IF c.government THEN 25 ELSE 0) + 10 * c.models + Least(20, 5 * c.channels))

Freshness(E, at) ==
    IF E = {} THEN 0
    ELSE LET age == at - (CHOOSE t \in {Trait[s].at : s \in E} : \A s \in E : Trait[s].at <= t)
         IN CASE age <= 7 * Day -> 100 [] age <= 30 * Day -> 70 [] age <= 90 * Day -> 40
              [] age <= 180 * Day -> 20 [] OTHER -> 10

ClaimQuality(E) ==
    IF E = {} THEN 0 ELSE Quality(E, {Trait[s].kind : s \in E}) \div Cardinality(E)

(* Ten more where comments agree with videos. *)
SourceDiversity(E) ==
    IF {Trait[s].source : s \in E} = {"comment", "video"}
    THEN Least(100, Diversity(E) + 10) ELSE Diversity(E)

(* Neutral where nothing contradicts. *)
Agreement(E) ==
    IF \A s \in E : ~Trait[s].contradicting THEN 50
    ELSE (100 * Cardinality({s \in E : ~Trait[s].contradicting})) \div Cardinality(E)

Confidence(E, at) ==
    (25 * Sat("8", Cardinality(E)) + 25 * SourceDiversity(E) + 20 * Freshness(E, at)
       + 15 * ClaimQuality(E) + 15 * Agreement(E)) \div 100

(* score_opportunity: the columns of a score row. *)
ScoreOf(c, E, trend, at) ==
    LET velocity == trend.momentum
        demand == DemandEvidence(E)
        revenue == RevenueEvidence(E)
        pain == PainSeverity(E)
        attention == (40 * velocity + 30 * Sat("5", trend.videos)
                        + 30 * Sat("views", trend.views)) \div 100
        commercial == (40 * demand + 30 * revenue + 30 * pain) \div 100
    IN [velocity |-> velocity, demand |-> demand, revenue |-> revenue, pain |-> pain,
        whiteSpace |-> WhiteSpace(E), feasibility |-> BuildFeasibility(c),
        distribution |-> DistributionEase(c),
        opportunity |-> (20 * velocity + 20 * demand + 15 * revenue + 15 * pain
                           + 10 * WhiteSpace(E) + 10 * BuildFeasibility(c)
                           + 10 * DistributionEase(c)) \div 100,
        confidence |-> Confidence(E, at),
        hype |-> Clamp(50 + (60 * (attention - commercial)) \div 100)]
=============================================================================
