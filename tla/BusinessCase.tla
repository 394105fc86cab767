---------------------------- MODULE BusinessCase ----------------------------
(* Opportunity consolidation: an administrator asks for a business case of  *)
(* the evidence and the context as they are; a worker generates it in one   *)
(* provider call between two transactions; the case may be approved for the *)
(* readers, and its proposals accepted into the canonical texts, only while *)
(* its input is still what the opportunity looks like.                      *)
EXTENDS Localization

CONSTANTS
    Signal,    \* evidence that may be linked to an opportunity
    Delivery,  \* identities of consolidation messages
    MaxCases   \* bound: versions of a case

ASSUME BusinessCaseAssumption == MaxCases \in Nat \ {0}

VARIABLES
    evidence,  \* [Opportunity -> its linked signals that are active and current]
    cases,     \* [Opportunity -> its consolidations, by version]
    delivery   \* [Delivery -> message and worker]

caseVars == <<evidence, cases, delivery>>

-----------------------------------------------------------------------------
(* State *)

CaseInput == [signals : SUBSET Signal, context : [Field -> Text \cup {NoText}]]

CaseRow == [status : {"queued", "running", "completed", "failed"},
            input : CaseInput, approved : BOOLEAN,
            expired : BOOLEAN,   \* queued or running for thirty minutes
            calls : Nat]         \* history: provider calls for this row

DeliveryRow == [phase : {"none", "queued", "calling"}, opp : Opportunity, version : 1 .. MaxCases]
NoDelivery == [phase |-> "none", opp |-> CHOOSE o \in Opportunity : TRUE, version |-> 1]

(* bundle: what the input hash covers. *)
Bundle(o) == [signals |-> evidence[o], context |-> entity[o].text]

NewCase(o) == [status |-> "queued", input |-> Bundle(o), approved |-> FALSE,
               expired |-> FALSE, calls |-> 0]

Version(o) == DOMAIN cases[o]
InWork(o) == {v \in Version(o) : cases[o][v].status \in {"queued", "running"}}

(* _current_locked, and the matching cases of current and request. *)
Matching(o) == {v \in Version(o) : /\ cases[o][v].status = "completed"
                                   /\ cases[o][v].input = Bundle(o)}

Consolidable(o) == entity[o].status \in {"candidate", "open", "active"}

-----------------------------------------------------------------------------
(* The evidence is linked, settled and superseded by other components. *)
EvidenceChanges(o, s) ==
    /\ left.evidence > 0
    /\ evidence' = [evidence EXCEPT ![o] = IF s \in @ THEN @ \ {s} ELSE @ \cup {s}]
    /\ left' = [left EXCEPT !.evidence = @ - 1]
    /\ UNCHANGED <<textVars, localVars, cases, delivery, faults>>

(* Thirty minutes since the row was queued, or since it was started. *)
WorkExpires(o) ==
    \E v \in InWork(o) :
        /\ ~cases[o][v].expired
        /\ cases' = [cases EXCEPT ![o][v].expired = TRUE]
        /\ UNCHANGED <<textVars, localVars, evidence, delivery, faults, left>>

-----------------------------------------------------------------------------
(* request *)

Expired(o) == {v \in InWork(o) : cases[o][v].expired}

(* lease_expired; the CHECK of the table knows no status "expired". *)
WithoutExpired(o) ==
    [v \in Version(o) |-> IF v \in Expired(o) THEN [cases[o][v] EXCEPT !.status = "failed"]
                          ELSE cases[o][v]]

AfterRequest(o) ==
    IF InWork(o) \ Expired(o) # {} THEN cases[o] ELSE WithoutExpired(o) \o <<NewCase(o)>>

(* Without a matching case the newest row is the one in work, which is sent *)
(* again while it is queued, or a new one.  The queue may refuse: the row   *)
(* stays for the next request.                                              *)
Request(o) ==
    /\ Consolidable(o) /\ evidence[o] # {} /\ Matching(o) = {}
    /\ LET rows == AfterRequest(o)
       IN /\ Len(rows) <= MaxCases
          /\ cases' = [cases EXCEPT ![o] = rows]
          /\ \/ /\ rows[Len(rows)].status = "queued"
                /\ \E d \in Delivery :
                      /\ delivery[d].phase = "none"
                      /\ delivery' = [delivery EXCEPT ![d] =
                                        [phase |-> "queued", opp |-> o, version |-> Len(rows)]]
                /\ UNCHANGED faults
             \/ /\ rows[Len(rows)].status = "queued" /\ faults < MaxFaults
                /\ faults' = faults + 1 /\ UNCHANGED delivery
             \/ /\ rows[Len(rows)].status # "queued"
                /\ UNCHANGED <<delivery, faults>>
    /\ UNCHANGED <<textVars, localVars, evidence, left>>

-----------------------------------------------------------------------------
(* execute *)

Of(d) == cases[delivery[d].opp][delivery[d].version]
Write(d, c) == cases' = [cases EXCEPT ![delivery[d].opp][delivery[d].version] = c]

BadTakes(d) == Of(d).status \in {"queued", "running"}
Takes(d) == Of(d).status = "queued"

Take(d) ==
    /\ delivery[d].phase = "queued" /\ Takes(d)
    /\ Write(d, [Of(d) EXCEPT !.status = "running", !.expired = FALSE, !.calls = @ + 1])
    /\ delivery' = [delivery EXCEPT ![d].phase = "calling"]
    /\ UNCHANGED <<textVars, localVars, evidence, faults, left>>

(* A second delivery, or one that the lease has overtaken. *)
AlreadyTaken(d) ==
    /\ delivery[d].phase = "queued" /\ ~Takes(d)
    /\ delivery' = [delivery EXCEPT ![d] = NoDelivery]
    /\ UNCHANGED <<textVars, localVars, evidence, cases, faults, left>>

BadStillMine(d) == TRUE
StillMine(d) == Of(d).status = "running"

(* The provider's answer passes the grounding rules, or not, or there is    *)
(* none in time.                                                            *)
Finish(d, status) ==
    /\ delivery[d].phase = "calling"
    /\ IF StillMine(d) THEN Write(d, [Of(d) EXCEPT !.status = status]) ELSE UNCHANGED cases
    /\ delivery' = [delivery EXCEPT ![d] = NoDelivery]
    /\ UNCHANGED <<textVars, localVars, evidence, faults, left>>

(* The worker dies, or the second transaction fails: delivered again. *)
ConsolidatorDies(d) ==
    /\ delivery[d].phase = "calling" /\ faults < MaxFaults
    /\ delivery' = [delivery EXCEPT ![d].phase = "queued"]
    /\ faults' = faults + 1
    /\ UNCHANGED <<textVars, localVars, evidence, cases, left>>

-----------------------------------------------------------------------------
(* approve, accept *)

Approve(o, v) ==
    /\ Consolidable(o) /\ v \in Matching(o) /\ ~cases[o][v].approved
    /\ cases' = [cases EXCEPT ![o][v].approved = TRUE]
    /\ UNCHANGED <<textVars, localVars, evidence, delivery, faults, left>>

(* One proposal, as it is or as the administrator edited it, becomes the    *)
(* canonical text; the trigger of its translation follows the commit.       *)
Accept(o, v, f, text) ==
    /\ left.edit > 0
    /\ entity[o].status \in {"candidate", "open"}
    /\ v \in Matching(o)
    /\ text # entity[o].text[f]
    /\ entity' = [entity EXCEPT ![o].text[f] = text]
    /\ recent' = Touch(o)
    /\ due' = due \cup {o}
    /\ left' = [left EXCEPT !.edit = @ - 1]
    /\ UNCHANGED <<row, lease, task, caseVars, faults>>

-----------------------------------------------------------------------------
CaseStep ==
    \/ \E o \in Opportunity :
          \/ Request(o) \/ WorkExpires(o)
          \/ \E s \in Signal : EvidenceChanges(o, s)
          \/ \E v \in Version(o) :
                \/ Approve(o, v)
                \/ \E f \in Field, x \in Text : Accept(o, v, f, x)
    \/ \E d \in Delivery :
          \/ Take(d) \/ AlreadyTaken(d) \/ ConsolidatorDies(d)
          \/ \E status \in {"completed", "failed"} : Finish(d, status)

-----------------------------------------------------------------------------
(* Properties *)

CaseTypeOK ==
    /\ evidence \in [Opportunity -> SUBSET Signal]
    /\ \A o \in Opportunity :
          /\ Len(cases[o]) <= MaxCases
          /\ \A v \in Version(o) : cases[o][v] \in CaseRow
    /\ delivery \in [Delivery -> DeliveryRow]

(* "Duplicate delivery cannot re-call a completed or running attempt": each *)
(* row pays for one provider call at most, whatever is sent or delivered    *)
(* twice and whoever dies.  And the partial unique index on queued and      *)
(* running rows never refuses a request: what is in work is the newest      *)
(* version, and no expired lease, late worker or second delivery leaves an  *)
(* older one behind at work.                                                *)
OneCallPerCase ==
    \A o \in Opportunity :
        /\ \A v \in Version(o) : cases[o][v].calls <= 1
        /\ InWork(o) \subseteq {Len(cases[o])}

(* "Completed/failed payloads are protected": a worker that answers after   *)
(* its lease was given up does not bring its row back, and no row is        *)
(* approved that did not complete.                                          *)
EndedCaseStays ==
    [][\A o \in Opportunity : \A v \in Version(o) :
          cases[o][v].status \in {"completed", "failed"}
             => /\ cases'[o][v].status = cases[o][v].status
                /\ cases'[o][v].input = cases[o][v].input
                /\ cases'[o][v].approved => cases[o][v].status = "completed"]_cases
=============================================================================
