---------------------- MODULE MCOpportunityLifecycle ----------------------
(* Two signals and three opportunities from three situations, and a reader  *)
(* (RadarPages) whose pages are a situation of their own.                    *)
EXTENDS OpportunityLifecycle, RadarPages, TLC

CONSTANTS o1, o2, o3, n1, n2, n3, sound, plain, doubtful, wrong

MCGrade == (sound :> "accept") @@ (plain :> "accept") @@ (doubtful :> "review")
           @@ (wrong :> "reject")

MCNotedAt == (11 :> Null) @@ (12 :> 1)

Quiet ==
    /\ watch = {} /\ late = {} /\ adding = {} /\ placed = link
    /\ place = [s \in Signal |-> Closed]
    /\ publish = [o \in Opp |-> Closed]
    /\ job = [j \in Job |-> NoJob]
    /\ page = [a \in Admin |-> NoPage]

Left(calls, edits, adds) == [calls |-> calls, edits |-> edits, adds |-> adds]

(* Signals as the extraction and the past leave them, and one candidate.    *)
Evidence ==
    /\ GuardInit
    /\ \A s \in Signal : signal[s].text # plain
    /\ opp = [o \in Opp |-> IF o = o1 THEN Candidate(n1) ELSE NoOpp]
    /\ link = {}
    /\ merge = [o \in Opp |-> Closed]
    /\ left = Left(3, 0, 0)

Published ==
    /\ signal = [s \in Signal |-> [Guarded(IF s = 1 THEN sound ELSE plain)
                                   EXCEPT !.status = "active"]]
    /\ validation = [s \in Signal |-> Closed]

(* Three opportunities of which merges have been proposed.                  *)
Lineage ==
    /\ Published
    /\ opp = (o1 :> [Candidate(n1) EXCEPT !.status = "active"])
            @@ (o2 :> Candidate(n2)) @@ (o3 :> [Candidate(n3) EXCEPT !.status = "rejected"])
    /\ link = {<<o1, 1>>, <<o2, 2>>}
    /\ merge = [o \in Opp |-> Pending]
    /\ left = Left(1, 0, 1)

(* Two administrators at work on two candidates, alone or beside a published *)
(* opportunity, with which they are more than the pool holds.               *)
Curation ==
    /\ Published
    /\ \E third \in {NoOpp, [Candidate(n2) EXCEPT !.status = "active", !.slug = n3]} :
          opp = (o1 :> Candidate(n1)) @@ (o2 :> Candidate(n2))
                @@ (o3 :> third)
    /\ link = {<<o1, 1>>, <<o2, 2>>}
    /\ merge = [o \in Opp |-> Closed]
    /\ left = Left(0, 2, 0)

(* Nothing else happens while pages are read. *)
Idle ==
    /\ Published
    /\ opp = [o \in Opp |-> NoOpp]
    /\ link = {}
    /\ merge = [o \in Opp |-> Closed]
    /\ left = Left(0, 0, 0)

NoReader ==
    /\ card = [c \in Card |-> NoCard] /\ piece = [p \in Piece |-> NoPiece]
    /\ changes = 0
    /\ \E req \in Request : req.list = "feed" /\ reader = [Opened(req) EXCEPT !.phase = "over"]

(* Every data the columns of a request can have, while nothing changes ...   *)
StillPages ==
    /\ card \in [Card -> {c \in CardRow : c.shown}]
    /\ \E req \in Request :
          /\ req.list \in {"radar", "library"} /\ req.floor # 0
          /\ \A c \in Card : IF req.sort = "momentum" THEN card[c].activity = c % 2
                              ELSE card[c].momentum = Null
          /\ reader = Opened(req)
    /\ piece = [p \in Piece |-> NoPiece]
    /\ changes = 0

(* ... and a few while one thing does. *)
MovingPages ==
    /\ \E req \in Request : req.floor # 0 /\ reader = Opened(req)
    /\ changes = MaxChanges
    /\ IF reader.req.list \in {"radar", "library"}
       THEN /\ card = [c \in Card |-> [shown |-> TRUE, score |-> IF c = 2 THEN Null ELSE 1,
                                        momentum |-> IF c = 3 THEN Null ELSE 0,
                                        activity |-> c % 2]]
            /\ piece = [p \in Piece |-> NoPiece]
       ELSE /\ card = [c \in Card |-> NoCard]
            /\ piece \in [Piece -> PieceRow]
            /\ piece[1].notes \cap piece[2].notes = {}

MCInit ==
    \/ (Evidence \/ Lineage \/ Curation) /\ Quiet /\ NoReader
    \/ Idle /\ Quiet /\ (StillPages \/ MovingPages)

MCNext ==
    \/ Next /\ UNCHANGED pageVars
    \/ PageStep /\ UNCHANGED vars

MCSpec == MCInit /\ [][MCNext]_<<vars, pageVars>>
=============================================================================
