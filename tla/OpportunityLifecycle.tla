----------------------- MODULE OpportunityLifecycle -----------------------
(***************************************************************************)
(* How signals become opportunities and opportunities are published:        *)
(* normalization (services/opportunity_normalization.py), the reviews an    *)
(* administrator decides (services/review_workflow.py), the activation      *)
(* review (services/opportunity_activation.py), the curation of candidates  *)
(* (services/candidate_workspace.py) and the watchlist                      *)
(* (services/watchlist.py).                                                 *)
(*                                                                         *)
(* A transaction that holds the row locks of what it reads is one action.   *)
(* A normalization reads its candidates and writes its result in different  *)
(* transactions, around the AI call; adding to a watchlist reads the        *)
(* opportunity without a lock; an editor saves a page read earlier.         *)
(*                                                                         *)
(* hype_review and quality_review have no effect and nothing creates them.  *)
(* A refused request writes nothing and is no step.  Who has claimed a      *)
(* review (claim_task, and defer, which gives it back) only narrows who may *)
(* decide it: a review is open or closed here.                              *)
(***************************************************************************)
EXTENDS SignalGuardrail

CONSTANTS
    Opp,
    Name,       \* names and slugs
    Generic,    \* names the scope check fails
    Admin,      \* administrators at work in the candidate workspace
    User,
    Job,        \* normalizations that can be under way at once
    PoolSize,   \* opportunities a candidate is compared with (20)
    MaxLeft,    \* bound on the normalizations, edits and additions to come
    None

ASSUME LifecycleAssumption ==
    /\ Generic \subseteq Name
    /\ None \notin Opp \cup Name
    /\ MaxLeft \in Nat /\ PoolSize \in Nat

VARIABLES
    opp,      \* opportunities rows; into is the merge history's canonical
    link,     \* opportunity_signal_links, all of them supporting
    place,    \* the open opportunity_match or opportunity_creation of a signal
    publish,  \* open opportunity_activation reviews
    merge,    \* open opportunity_merge reviews
    job,      \* normalizations under way
    page,     \* the candidate an administrator has open in the workspace
    adding,   \* additions that have read their opportunity
    watch,    \* watchlist items
    late,     \* links and items written on an opportunity already merged (history)
    placed,   \* every link ever written (history)
    left      \* what may still begin: bounds, no part of the program

rows == <<opp, link, watch, late, placed>>
reviews == <<place, publish, merge>>
requests == <<job, page, adding, left>>
vars == <<guardVars, rows, reviews, requests>>

(* missed is history: the published opportunities that were not looked at    *)
(* when this one was published.                                             *)
OppRow == [status: {"absent", "candidate", "active", "rejected", "merged"},
           slug: Name \cup {None}, name: Name \cup {None}, into: Opp \cup {None},
           missed: SUBSET Opp]

NoOpp == [status |-> "absent", slug |-> None, name |-> None, into |-> None, missed |-> {}]
Candidate(n) == [NoOpp EXCEPT !.status = "candidate", !.slug = n, !.name = n]

(* The open review of a signal's place: the opportunity that has been       *)
(* proposed, or "creation".  The name the model gave is read from its       *)
(* extraction when the review is decided.                                   *)
Creation == "creation"
PlaceRow == Opp \cup {Closed, Creation}

JobRow == [signal: Signal \cup {0}, pool: SUBSET Opp]
NoJob == [signal |-> 0, pool |-> {}]

PageRow == [on: Opp \cup {None}, saw: Name \cup {None}, fresh: BOOLEAN]
NoPage == [on |-> None, saw |-> None, fresh |-> FALSE]

(* Status "review" and "archived" are read in many places; nothing writes   *)
(* them.                                                                    *)
Eligible == {o \in Opp : opp[o].status \in {"candidate", "active"}}
SlugTaken(n) == \E o \in Opp : opp[o].status # "absent" /\ opp[o].slug = n
Unused == {o \in Opp : opp[o].status = "absent"}

(* updated_at moves: every page read before is stale. *)
Touched(os) == [a \in Admin |-> IF page[a].on \in os
                                THEN [page[a] EXCEPT !.fresh = FALSE] ELSE page[a]]

(* link_signal: the pair is unique and a second insertion does nothing.     *)
Linked(o, s) ==
    /\ link' = link \cup {<<o, s>>}
    /\ placed' = placed \cup {<<o, s>>}
    /\ late' = IF opp[o].status = "merged" THEN late \cup {<<o, s>>} ELSE late

(* An opportunity made from a signal: the slug is its name's, and unique.   *)
Created(n, s) ==
    LET o == CHOOSE p \in Unused : TRUE IN
    /\ ~SlugTaken(n)
    /\ Unused # {}
    /\ opp' = [opp EXCEPT ![o] = Candidate(n)]
    /\ Linked(o, s)

Spent(what) == left[what] > 0 /\ left' = [left EXCEPT ![what] = @ - 1]

-----------------------------------------------------------------------------
(* Normalization *)

(* Up to the AI call: the guardrail once more, then, if the signal may go   *)
(* on, the opportunities that resemble it.  The reading that finds an       *)
(* earlier outcome or a reusable extraction ends the request; force skips   *)
(* it, and the pipeline and the API both use or allow force.  The second    *)
(* transaction repeats the test of the first one, so that both are one step.*)
Normalize(j, s) ==
    /\ job[j] = NoJob /\ Spent("calls")
    /\ Reconsider(s)
    /\ job' = IF signal'[s].semantic = "current"
              THEN [job EXCEPT ![j] = [signal |-> s, pool |-> Eligible]] ELSE job
    /\ UNCHANGED <<rows, reviews, page, adding>>

(* The provider refuses, the output is invalid (a match outside the         *)
(* candidates included), the worker dies, or an earlier outcome is reused.  *)
GiveUp(j) ==
    /\ job[j] # NoJob
    /\ job' = [job EXCEPT ![j] = NoJob]
    /\ UNCHANGED <<guardVars, rows, reviews, page, adding, left>>

(* _complete reads the signal again under its lock. *)
MayFinish(s) == Current(s) /\ signal[s].status \notin {"rejected", "ignored"}

(* The answer of a normalization that may write, with the locks held.       *)
Answered(j) ==
    /\ job[j] # NoJob
    /\ MayFinish(job[j].signal)
    /\ ~Duplicate(job[j].signal)
    /\ job' = [job EXCEPT ![j] = NoJob]
    /\ UNCHANGED <<adding, left, watch, publish, merge>>

Activated(s) ==
    /\ signal' = [signal EXCEPT ![s].status = "active"]
    /\ UNCHANGED validation

(* The same evidence has been published meanwhile. *)
FindDuplicate(j) ==
    /\ job[j] # NoJob
    /\ MayFinish(job[j].signal)
    /\ Duplicate(job[j].signal)
    /\ signal' = Judge(job[j].signal, "superseded", FALSE)
    /\ job' = [job EXCEPT ![j] = NoJob]
    /\ UNCHANGED <<validation, rows, reviews, page, adding, left>>

(* MATCH with enough confidence: the opportunity chosen before the call is  *)
(* not read again.  Its updated_at moves when the signal is the latest.     *)
Match(j, o) ==
    /\ Answered(j)
    /\ o \in job[j].pool
    /\ Linked(o, job[j].signal)
    /\ Activated(job[j].signal)
    /\ page' \in {page, Touched({o})}
    /\ UNCHANGED <<opp, place>>

(* CREATE with enough confidence and a free slug. *)
Create(j, n) ==
    /\ Answered(j)
    /\ Created(n, job[j].signal)
    /\ Activated(job[j].signal)
    /\ UNCHANGED <<place, page>>

(* Anything else asks for a review, unless one of the signal is open: a     *)
(* match or a creation of too little confidence, a slug that is taken, or   *)
(* the action REVIEW with what the model put in its other fields.           *)
AskReview(j, proposal) ==
    LET s == job[j].signal IN
    /\ Answered(j)
    /\ proposal \in job[j].pool \cup {Creation}
    /\ place' = IF place[s] = Closed /\ validation[s] = Closed
                THEN [place EXCEPT ![s] = proposal] ELSE place
    /\ UNCHANGED <<guardVars, opp, link, placed, late, page>>

-----------------------------------------------------------------------------
(* Reviews *)

(* What an approval does to the signal first: the guardrail blocks it, or   *)
(* lets it pass, or a validation with notes takes the place of the          *)
(* guardrail's own decision.                                                *)
Blocked(s) ==
    \/ signal[s].semantic \in {"invalid_semantic", "superseded"}
    \/ GradeOf(s) = "reject"
    \/ Duplicate(s)

Doubtful(s) == GradeOf(s) = "review" /\ ~signal[s].human

BadCleared(s) ==
    IF Doubtful(s) THEN Judge(s, "current", FALSE)
    ELSE Judge(s, SemanticOf(GradeOf(s)), FALSE)

Cleared(s) ==
    IF Doubtful(s) THEN Judge(s, "current", TRUE)
    ELSE Judge(s, SemanticOf(GradeOf(s)), FALSE)

(* signal_validation: approve, reject or ignore. *)
Validate(s, decision) ==
    /\ validation[s] = Pending
    /\ \/ /\ decision = "active"
          /\ ~Blocked(s)
          /\ signal' = [Cleared(s) EXCEPT ![s].status = "active"]
       \/ /\ decision \in {"rejected", "ignored"}
          /\ signal' = [signal EXCEPT ![s].status = decision]
    /\ validation' = [validation EXCEPT ![s] = Closed]
    /\ UNCHANGED <<rows, reviews, requests>>

(* opportunity_match, approve: the proposal has to be one of the candidates *)
(* persisted with the review, and still eligible.                           *)
ApproveMatch(s) ==
    LET o == place[s] IN
    /\ o \in Eligible
    /\ ~Blocked(s) /\ ~Doubtful(s)
    /\ signal' = [Cleared(s) EXCEPT ![s].status = "active"]
    /\ Linked(o, s)
    /\ place' = [place EXCEPT ![s] = Closed]
    /\ page' \in {page, Touched({o})}
    /\ UNCHANGED <<validation, opp, watch, publish, merge, job, adding, left>>

(* create_new, or approve of a creation: with the name the model has given. *)
ApproveCreation(s, n) ==
    /\ place[s] # Closed
    /\ ~Blocked(s) /\ ~Doubtful(s)
    /\ Created(n, s)
    /\ signal' = [Cleared(s) EXCEPT ![s].status = "active"]
    /\ place' = [place EXCEPT ![s] = Closed]
    /\ UNCHANGED <<validation, watch, publish, merge, requests>>

(* reject: the signal stays in review for another matching.  merge is never *)
(* accepted: no normalization writes the source it asks for.                *)
RejectPlace(s) ==
    /\ place[s] # Closed
    /\ place' = [place EXCEPT ![s] = Closed]
    /\ UNCHANGED <<guardVars, rows, publish, merge, requests>>

Supported(o) == \E s \in Signal : <<o, s>> \in link /\ Effective(s)

(* create_review: an open one is returned as it is. *)
Submit(o) ==
    /\ opp[o].status = "candidate" /\ Supported(o)
    /\ publish[o] = Closed
    /\ publish' = [publish EXCEPT ![o] = Pending]
    /\ UNCHANGED <<guardVars, rows, place, merge, requests>>

Namesakes(o) == {p \in Eligible \ {o} : opp[p].name = opp[o].name}

(* _duplicate_pool: of the eligible opportunities with a word in common the  *)
(* most recent ones.  Words have three letters or more, and only the first   *)
(* thirty of the texts count: a namesake is sure to be found if a word of    *)
(* the name is searched and the pool is not full.  Last activity is left     *)
(* out, so a full pool may be any.                                           *)
Pools(o, searched) ==
    {pool \in SUBSET Eligible :
        /\ Cardinality(pool) <= PoolSize
        /\ searched /\ Cardinality(pool) < PoolSize => Namesakes(o) \subseteq pool}

Missed(pool, searched) ==
    IF searched /\ Cardinality(pool) < PoolSize THEN {}
    ELSE {p \in Eligible \ pool : opp[p].status = "active"}

BadNameTaken(o, pool) == \E p \in Namesakes(o) \cap pool : opp[p].status = "candidate"

(* duplicate_risk: an opportunity of the pool has the very same name. *)
NameTaken(o, pool) == Namesakes(o) \cap pool # {}

(* The hard checks again, in the transaction of the decision.  The number   *)
(* of commercial fields and the other words of a duplicate only refuse more. *)
Ready(o, pool) == Supported(o) /\ opp[o].name \notin Generic /\ ~NameTaken(o, pool)

Publish(o, status) ==
    /\ publish[o] = Pending
    /\ opp[o].status = "candidate"
    /\ \/ /\ status = "rejected"
          /\ opp' = [opp EXCEPT ![o].status = status]
       \/ /\ status = "active"
          /\ \E searched \in BOOLEAN : \E pool \in Pools(o, searched) :
                /\ Ready(o, pool)
                /\ opp' = [opp EXCEPT ![o].status = status, ![o].missed = Missed(pool, searched)]
    /\ publish' = [publish EXCEPT ![o] = Closed]
    /\ page' = Touched({o})
    /\ UNCHANGED <<guardVars, link, watch, late, placed, place, merge, job, adding, left>>

(* opportunity_merge, merge, with both rows locked.  The lineage check can  *)
(* only fail when canonical itself is merged, which is refused before.      *)
CanBeCanonical(c) == opp[c].status \in {"candidate", "active"}

BadMovedLinks(o, c) == {l \in link : l[1] # o}
MovedLinks(o, c) ==
    {l \in link : l[1] # o} \cup {<<c, s>> : s \in {t \in Signal : <<o, t>> \in link}}

BadMovedWatch(o, c) ==
    watch \cup {<<u, c>> : u \in {v \in User : <<v, o>> \in watch}}

MovedWatch(o, c) ==
    {w \in watch : w[2] # o} \cup {<<u, c>> : u \in {v \in User : <<v, o>> \in watch}}

Merge(o, c) ==
    /\ merge[o] = Pending
    /\ o # c
    /\ opp[o].status \in {"candidate", "active", "rejected"}
    /\ CanBeCanonical(c)
    /\ opp' = [opp EXCEPT ![o].status = "merged", ![o].into = c]
    /\ link' = MovedLinks(o, c)
    /\ watch' = MovedWatch(o, c)
    /\ merge' = [merge EXCEPT ![o] = Closed]
    /\ page' = Touched({o, c})
    /\ UNCHANGED <<guardVars, late, placed, place, publish, job, adding, left>>

RejectMerge(o) ==
    /\ merge[o] = Pending
    /\ merge' = [merge EXCEPT ![o] = Closed]
    /\ UNCHANGED <<guardVars, rows, place, publish, requests>>

-----------------------------------------------------------------------------
(* The workspace and the watchlist *)

OpenPage(a, o) ==
    /\ opp[o].status = "candidate" /\ left["edits"] > 0
    /\ page' = [page EXCEPT ![a] = [on |-> o, saw |-> opp[o].name, fresh |-> TRUE]]
    /\ UNCHANGED <<guardVars, rows, reviews, job, adding, left>>

BadUpToDate(a) == TRUE

(* expected_updated_at is the row's. *)
UpToDate(a) == page[a].fresh

(* edit: the status and the stamp are compared under the row lock.  The     *)
(* slug stays.  Of the fields only the name matters here.                   *)
Save(a, n) ==
    LET o == page[a].on IN
    /\ o # None /\ Spent("edits")
    /\ opp[o].status = "candidate" /\ UpToDate(a)
    /\ n # opp[o].name
    /\ opp' = [opp EXCEPT ![o].name = n]
    /\ page' = [Touched({o}) EXCEPT ![a] = NoPage]
    /\ UNCHANGED <<guardVars, link, watch, late, placed, reviews, job, adding>>

(* add: the opportunity has to be active when it is read ... *)
StartAdding(u, o) ==
    /\ opp[o].status = "active" /\ <<u, o>> \notin watch \cup adding
    /\ Spent("adds")
    /\ adding' = adding \cup {<<u, o>>}
    /\ UNCHANGED <<guardVars, rows, reviews, job, page>>

(* ... and the insertion waits for whoever has locked its row. *)
Add(u, o) ==
    /\ <<u, o>> \in adding
    /\ adding' = adding \ {<<u, o>>}
    /\ watch' = watch \cup {<<u, o>>}
    /\ late' = IF opp[o].status = "merged" THEN late \cup {<<u, o>>} ELSE late
    /\ UNCHANGED <<guardVars, opp, link, placed, reviews, job, page, left>>

Remove(u, o) ==
    /\ <<u, o>> \in watch
    /\ watch' = watch \ {<<u, o>>}
    /\ UNCHANGED <<guardVars, opp, link, late, placed, reviews, requests>>

Audit(s) == AuditSignal(s) /\ UNCHANGED <<rows, reviews, requests>>

(* Signals as the extraction and the past have left them, and merges that   *)
(* will be proposed.                                                        *)
Init ==
    /\ GuardInit
    /\ opp = [o \in Opp |-> NoOpp]
    /\ link = {} /\ placed = {} /\ late = {} /\ watch = {} /\ adding = {}
    /\ place = [s \in Signal |-> Closed]
    /\ publish = [o \in Opp |-> Closed]
    /\ merge \in [Opp -> {Closed, Pending}]
    /\ job = [j \in Job |-> NoJob]
    /\ page = [a \in Admin |-> NoPage]
    /\ left \in [{"calls", "edits", "adds"} -> 0..MaxLeft]

Next ==
    \/ \E s \in Signal :
          \/ Audit(s) \/ ApproveMatch(s) \/ RejectPlace(s)
          \/ \E n \in Name : ApproveCreation(s, n)
          \/ \E decision \in {"active", "rejected", "ignored"} : Validate(s, decision)
    \/ \E j \in Job :
          \/ GiveUp(j) \/ FindDuplicate(j)
          \/ \E s \in Signal : Normalize(j, s)
          \/ \E n \in Name : Create(j, n)
          \/ \E o \in Opp : Match(j, o)
          \/ \E proposal \in Opp \cup {Creation} : AskReview(j, proposal)
    \/ \E o \in Opp :
          \/ Submit(o) \/ RejectMerge(o)
          \/ \E status \in {"active", "rejected"} : Publish(o, status)
          \/ \E c \in Opp : Merge(o, c)
          \/ \E a \in Admin : OpenPage(a, o)
          \/ \E u \in User : StartAdding(u, o) \/ Add(u, o) \/ Remove(u, o)
    \/ \E a \in Admin, n \in Name : Save(a, n)

Spec == Init /\ [][Next]_vars

-----------------------------------------------------------------------------
(* Properties *)

TypeOK ==
    /\ signal \in [Signal -> SignalRow]
    /\ validation \in [Signal -> {Closed, Pending}]
    /\ opp \in [Opp -> OppRow]
    /\ link \subseteq Opp \X Signal /\ placed \subseteq Opp \X Signal
    /\ place \in [Signal -> PlaceRow]
    /\ publish \in [Opp -> {Closed, Pending}]
    /\ merge \in [Opp -> {Closed, Pending}]
    /\ job \in [Job -> JobRow]
    /\ page \in [Admin -> PageRow]
    /\ adding \subseteq User \X Opp /\ watch \subseteq User \X Opp
    /\ late \subseteq (Opp \X Signal) \cup (User \X Opp)
    /\ left \in [{"calls", "edits", "adds"} -> 0..MaxLeft]

(* A set of opportunities that no merge leads out of, and where merges lead  *)
(* from an opportunity, itself included.                                     *)
FollowsMerges(S) == \A o \in S : opp[o].status = "merged" => opp[o].into \in S

Successors(o) == {c \in Opp : \A S \in SUBSET Opp : o \in S /\ FollowsMerges(S) => c \in S}

(* A merge loses no evidence: the lineage of an opportunity ends in one     *)
(* that is not merged, without running in a circle, and a signal once       *)
(* linked to the opportunity is linked to that one, unless the link was     *)
(* written on an opportunity that had been merged already.                  *)
EvidenceFollowsMerges ==
    \A o \in Opp : \E c \in Successors(o) :
        /\ opp[c].status # "merged"
        /\ \A s \in Signal : <<o, s>> \in placed \ late => <<c, s>> \in link

(* Nothing stays behind on a merged opportunity, except what a match or an  *)
(* addition that had read it before wrote after the merge.                  *)
NothingStaysBehind ==
    \A o \in Opp : opp[o].status = "merged" =>
        /\ \A s \in Signal : <<o, s>> \in link => <<o, s>> \in late
        /\ \A u \in User : <<u, o>> \in watch => <<u, o>> \in late

(* Two published opportunities have one name only if the later one was       *)
(* published without a look at the earlier one, because its pool was full or *)
(* no word of the name was searched: no edit between the submission and the *)
(* decision, resubmission or merge makes another pair.  And no published     *)
(* name is one that the scope check fails.                                   *)
PublishedNamesDiffer ==
    \A o \in Opp : opp[o].status = "active" =>
        /\ opp[o].name \notin Generic
        /\ \A p \in Opp \ {o} : opp[p].status = "active" /\ opp[p].name = opp[o].name =>
              o \in opp[p].missed \/ p \in opp[o].missed

(* A save overwrites only what its author has seen. *)
NoLostEdit ==
    [][\A o \in Opp : opp[o].status # "absent" /\ opp'[o].name # opp[o].name =>
           \E a \in Admin : page[a].on = o /\ page'[a] = NoPage /\ page[a].saw = opp[o].name]_opp
=============================================================================
