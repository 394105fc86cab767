-------------------------- MODULE SignalGuardrail --------------------------
(***************************************************************************)
(* The semantic guardrail of a signal (services/signal_semantics.py) and    *)
(* the repair an operator runs over published signals                       *)
(* (services/signal_semantic_audit.py).                                     *)
(*                                                                         *)
(* evaluate is a function of the signal's text and type, which nothing      *)
(* rewrites; what it says of a text is the constant Grade.  Two signals of  *)
(* one text are exact duplicates: same source, same fields, and of two      *)
(* completed extractions.                                                   *)
(***************************************************************************)
EXTENDS FiniteSets, Integers

CONSTANTS
    Signal,
    Text,
    Grade       \* what evaluate decides of a text

ASSUME GuardrailAssumption ==
    /\ Grade \in [Text -> {"accept", "review", "reject"}]
    /\ Signal \subseteq Nat \* by age: created_at, then the id

VARIABLES
    signal,     \* signals rows, with the statuses their audit rows record
    validation  \* signal_validation reviews

guardVars == <<signal, validation>>

(* Values of a review that is not open, and of one that is. *)
Closed == "closed"
Pending == "pending"

Semantic == {"current", "under_review", "invalid_semantic", "superseded"}
SemanticOf(grade) == CASE grade = "accept" -> "current"
                       [] grade = "review" -> "under_review"
                       [] grade = "reject" -> "invalid_semantic"

SignalRow == [text: Text, status: {"review", "active", "rejected", "ignored"},
              semantic: Semantic, human: BOOLEAN, audited: SUBSET Semantic]

GradeOf(s) == Grade[signal[s].text]
Current(s) == signal[s].semantic = "current"
Effective(s) == signal[s].status = "active" /\ Current(s)

BadDuplicate(s) ==
    \E t \in Signal \ {s} :
        signal[t].text = signal[s].text /\ Effective(t) /\ t < s /\ GradeOf(t) = "accept"

(* exact_current_duplicate: a published signal says the same.  Of two that  *)
(* are both published the older one stays; one that a person has approved   *)
(* against the guardrail is never the one to stay.                          *)
Duplicate(s) ==
    \E t \in Signal \ {s} :
        /\ signal[t].text = signal[s].text
        /\ Effective(t)
        /\ signal[s].status # "active" \/ t < s
        /\ GradeOf(t) = "accept"

BadJudge(s, status, human) ==
    [signal EXCEPT ![s].semantic = status, ![s].human = human,
                   ![s].audited = @ \cup {status}]

(* persist_decision: the audit row is unique for a signal, its text and the *)
(* status; when there is one already, nothing is written.                   *)
Judge(s, status, human) ==
    IF status \in signal[s].audited THEN signal
    ELSE [signal EXCEPT ![s].semantic = status, ![s].human = human,
                        ![s].audited = @ \cup {status}]

(* ... and a decision against the signal opens a review, if none is open.   *)
Asks(s, status) ==
    /\ status \in {"under_review", "invalid_semantic"} \ signal[s].audited
    /\ validation[s] = Closed

OpenedBy(s, status) ==
    IF Asks(s, status) THEN [validation EXCEPT ![s] = Pending] ELSE validation

(* The decision of the first transaction of normalize and of the audit, on  *)
(* a signal that is current and that no person has approved.                *)
Verdict(s) == IF GradeOf(s) = "accept" /\ Duplicate(s) THEN "superseded"
              ELSE SemanticOf(GradeOf(s))

Unsettled(s) == Current(s) /\ ~signal[s].human

Reconsider(s) ==
    /\ signal' = IF Unsettled(s) THEN Judge(s, Verdict(s), FALSE) ELSE signal
    /\ validation' = IF Unsettled(s) THEN OpenedBy(s, Verdict(s)) ELSE validation

(* audit --apply, one of the rows it has locked at a time: the published    *)
(* signals of the four types at risk, which every text here is one of.      *)
AuditSignal(s) ==
    /\ signal[s].status = "active" /\ Unsettled(s)
    /\ Reconsider(s)

(* A signal as guard_created leaves it in the extraction's transaction, and *)
(* one of the time before the guardrail, current by default.                *)
Guarded(t) ==
    [text |-> t, status |-> "review", semantic |-> SemanticOf(Grade[t]),
     human |-> FALSE, audited |-> {SemanticOf(Grade[t])}]

Historical(t, status) ==
    [text |-> t, status |-> status, semantic |-> "current", human |-> FALSE, audited |-> {}]

GuardInit ==
    /\ signal \in [Signal -> {Guarded(t) : t \in Text}
                             \cup {Historical(t, st) : t \in Text, st \in {"review", "active"}}]
    /\ \A s, t \in Signal : s # t /\ signal[s].text = signal[t].text
                              => ~(Effective(s) /\ Effective(t))
    /\ validation = [s \in Signal |-> IF Current(s) THEN Closed ELSE Pending]

-----------------------------------------------------------------------------
(* What the guardrail promises *)

(* One piece of evidence counts once: of the signals with one text that the *)
(* guardrail accepts, at most one is published and current, whatever        *)
(* normalizations, reviews and audits run side by side.                     *)
EvidenceCountsOnce ==
    \A s, t \in Signal :
        s # t /\ signal[s].text = signal[t].text /\ Effective(s) /\ Effective(t)
            => GradeOf(s) # "accept"

(* A signal that has been judged is published only when the guardrail       *)
(* accepts it or a person has approved it with notes; no review of another  *)
(* kind and no forced normalization gets around it.                         *)
PublishedIsCleared ==
    \A s \in Signal :
        Effective(s) /\ signal[s].audited # {} => GradeOf(s) = "accept" \/ signal[s].human

(* What a person has approved stays approved: the guardrail, which still    *)
(* says "review", never takes the approval back.                            *)
ApprovalStands ==
    [][\A s \in Signal : signal[s].human /\ Current(s)
            => signal'[s].human /\ signal'[s].semantic = "current"]_signal
=============================================================================
