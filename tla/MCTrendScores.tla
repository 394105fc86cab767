--------------------------- MODULE MCTrendScores ---------------------------
(* A signal and an opportunity with what derives from them, from four       *)
(* situations that leave the other parts alone.                             *)
EXTENDS TrendScores

CONSTANTS s1, o1, x1, x2, g1, g2, g3, v1, v2

(* Times: g1 lies in the window before, g2 at the boundary, g3 in the hour. *)
MCTrait ==
    LET trait == [kind |-> "pain", claim |-> "fact", at |-> 0, source |-> "video", video |-> v1,
                  contradicting |-> FALSE, priced |-> FALSE, quantified |-> FALSE]
    IN (g1 :> trait)
         @@ (g2 :> [trait EXCEPT !.kind = "purchase_intent", !.at = 2, !.source = "comment",
                                 !.claim = "creator_claim"])
         @@ (g3 :> [trait EXCEPT !.kind = "revenue", !.at = 3, !.video = v2,
                                 !.contradicting = TRUE, !.priced = TRUE, !.quantified = TRUE])

MCVideoTrait == (v1 :> [seen |-> 0, captured |-> TRUE, views |-> 1])
                  @@ (v2 :> [seen |-> 2, captured |-> TRUE, views |-> 3])

MCContextOf == o1 :> [technical |-> TRUE, helpful |-> 4, hindering |-> 0, regulated |-> FALSE,
                      commercial |-> TRUE, small |-> TRUE, enterprise |-> FALSE,
                      government |-> FALSE, models |-> 2, channels |-> 5]

MCWindowOrder == <<"7d", "30d">>
MCWindowLength == "7d" :> 2 @@ "30d" :> 4

(* 100 * (1 - exp(-y)), y = n / (100 s), by the cubic of exp(y); n in tens. *)
Rise(s, n) ==
    LET x == n \div 10  z == 10 * s
        p == 6 * z * z * x + 3 * z * x * x + x * x * x
    IN (100 * p) \div (6 * z * z * z + p)

MCSaturation ==
    [k \in Scale |-> [n \in 0 .. Most |->
        Rise(CASE k = "2" -> 2 [] k = "3" -> 3 [] k = "4" -> 4 [] k = "5" -> 5
               [] k = "8" -> 8 [] k = "views" -> 1, n)]]

MCLogTable == <<0, 50, 79, 100, 116, 129>>

-----------------------------------------------------------------------------
Start(signalStatus, status, ev, rows) ==
    /\ entity = (s1 :> [status |-> signalStatus, text |-> [f \in Field |-> x1]])
                  @@ (o1 :> [status |-> status, text |-> [f \in Field |-> x1]])
    /\ recent = <<o1, s1>>
    /\ row = [t \in Target |-> [f \in Field |-> [x \in Text |-> "none"]]]
    /\ lease = {}
    /\ task = [c \in Task |-> NoTask]
    /\ evidence = o1 :> ev
    /\ cases = o1 :> rows
    /\ delivery = [d \in Delivery |-> NoDelivery]
    /\ snapshot = o1 :> {} /\ score = o1 :> {}
    /\ calc = [k \in Calculation |-> NoCalc]

Left(advances, edits, requests, changes, calcs) ==
    [advance |-> advances, edit |-> edits, direct |-> requests,
     evidence |-> changes, calc |-> calcs]

(* Lifecycle steps and their triggers, some of which are lost. *)
Triggers ==
    /\ Start("review", "candidate", {}, <<>>)
    /\ due = {s1} /\ faults = 0 /\ now = MaxTime
    /\ left = Left(2, 0, 0, 0, 0)

(* Concurrent translations of texts that change. *)
LateSaves ==
    /\ Start("closed", "open", {}, <<>>)
    /\ due = {} /\ now = MaxTime
    /\ \/ faults = MaxFaults /\ left = Left(0, 2, 1, 0, 0)
       \/ faults = 0 /\ left = Left(0, 1, 1, 0, 0)

(* Business cases of evidence or context that changes.                      *)
Refreshes ==
    /\ Start("closed", "candidate", {g1}, <<>>)
    /\ due = {} /\ faults = 0 /\ now = MaxTime
    /\ left \in {Left(0, 1, 0, 0, 0), Left(0, 0, 0, 1, 0)}

(* Aggregation and scoring, where no more cases are requested. *)
Calculations ==
    /\ \E ev \in {{g1, g2}, Signal} :
          Start("closed", "candidate", ev,
                [v \in 1 .. MaxCases |-> [status |-> "failed", approved |-> FALSE, calls |-> 1,
                    expired |-> FALSE,
                    input |-> [signals |-> ev, context |-> [f \in Field |-> x1]]]])
    /\ due = {} /\ faults = MaxFaults /\ now = 2
    /\ left = Left(0, 0, 0, 1, 2)

MCInit == Triggers \/ LateSaves \/ Refreshes \/ Calculations
MCSpec == MCInit /\ [][Next]_vars
MCFairSpec == MCSpec /\ Fairness
=============================================================================
