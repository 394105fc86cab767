----------------------------- MODULE RadarPages -----------------------------
(* The pages a reader turns (services/radar_query.py with                    *)
(* repositories/radar_queries.py): the radar, the library, the evidence of   *)
(* an opportunity and the feed of signals.  A page is one request of several *)
(* statements, each of which sees what has been committed by then; the web   *)
(* client asks for the next page as long as the answer promises one.         *)
(*                                                                           *)
(* Of the filters a lower bound on the score stands for all; confidence and  *)
(* hype risk are columns of the score's row and rank like it.  What a card   *)
(* shows besides (evidence counts, watch flag, taxonomy, translations) does  *)
(* not decide where it stands.                                               *)
EXTENDS Sequences, FiniteSetsExt, Integers

CONSTANTS
    Card,      \* opportunities, by id
    Piece,     \* signals, by created_at (the newest is the largest) and id
    Note,      \* opportunity_evidence rows, by id
    NotedAt,   \* their own observed_at
    PageSize,
    Level,     \* values of scores, momentum and times
    Null,
    MaxChanges \* bound: commits of others while the reader reads

ASSUME PagesAssumption ==
    /\ Card \subseteq Nat /\ IsFiniteSet(Card)
    /\ Piece \subseteq Nat /\ IsFiniteSet(Piece)
    /\ Note \subseteq Nat /\ IsFiniteSet(Note)
    /\ PageSize \in Nat \ {0} /\ MaxChanges \in Nat
    /\ Level \subseteq Nat /\ Null \notin Int
    /\ NotedAt \in [Note -> Level \cup {Null}]

VARIABLES
    card,      \* published or not, latest score, latest momentum, last_activity_at
    piece,     \* of the opportunity shown: linked, effective, observed_at, notes
    reader,
    changes

pageVars == <<card, piece, reader, changes>>

Maybe == Level \cup {Null}
CardRow == [shown: BOOLEAN, score: Maybe, momentum: Maybe, activity: Level]
PieceRow == [effective: BOOLEAN, linked: BOOLEAN, notes: SUBSET Note, at: Maybe]

(* floor is score_min; "radar" may sort upwards as well. *)
Request ==
    [list: {"radar"}, sort: {"score", "confidence", "momentum", "recent"}, desc: BOOLEAN,
     floor: Maybe]
    \cup [list: {"library"}, sort: {"score", "momentum", "recent"}, desc: {TRUE}, floor: Maybe]
    \cup [list: {"evidence", "feed"}, sort: {"observed"}, desc: {TRUE}, floor: {Null}]

NoCard == [shown |-> FALSE, score |-> Null, momentum |-> Null, activity |-> 0]
NoPiece == [effective |-> FALSE, linked |-> FALSE, notes |-> {}, at |-> Null]

(* cards: what the statements of this request have read; page: its answer;  *)
(* turned: the ids of the pages so far; quiet: nothing changed since the     *)
(* first statement (history).                                                *)
Opened(request) ==
    [req |-> request, phase |-> "start", offset |-> 0, cards |-> <<>>, page |-> <<>>,
     turned |-> <<>>, total |-> 0, quiet |-> TRUE]

-----------------------------------------------------------------------------
(* Sorting *)

(* A finite set listed by the pairs of a strict order on it. *)
Enumeration(S, order) ==
    CHOOSE s \in [1 .. Cardinality(S) -> S] :
        \A i, j \in 1 .. Cardinality(S) : i < j => <<s[i], s[j]>> \in order

Upwards(S) == {p \in S \X S : p[1] < p[2]}

(* What stands at some positions of a list, the positions listed by order.  *)
Arrange(seq, positions, order) ==
    LET p == Enumeration(positions, order)
    IN [k \in 1 .. Cardinality(positions) |-> seq[p[k]]]

(* A comprehension with an if: those positions as they stand. *)
Where(seq, positions) == Arrange(seq, positions, Upwards(positions))

(* list.sort with the key of each element: stable, upwards or with reverse. *)
Pass(seq, key, desc) ==
    Arrange(seq, DOMAIN seq,
            {p \in (DOMAIN seq) \X (DOMAIN seq) :
                IF key[p[1]] = key[p[2]] THEN p[1] < p[2]
                ELSE (key[p[1]] < key[p[2]]) # desc})

ValueOf(c, sort) ==
    CASE sort = "momentum" -> c.momentum
      [] sort = "recent" -> c.activity
      [] OTHER -> c.score

(* value or Decimal("-1"): a zero counts as missing. *)
OrMinusOne(v) == IF v \in {Null, 0} THEN -1 ELSE v

(* What decides between equal values, before the id does. *)
TieKey(c, sort) == IF sort = "momentum" THEN OrMinusOne(c.score) ELSE c.activity

(* _sort, given the cards by id: what is missing comes last either way.     *)
RadarOrder(cards, req) ==
    LET lacking == {k \in DOMAIN cards : ValueOf(cards[k], req.sort) = Null}
        present == Where(cards, DOMAIN cards \ lacking)
        missing == Where(cards, lacking)
        tied == Pass(present, [k \in DOMAIN present |-> TieKey(present[k], req.sort)], TRUE)
        sorted == Pass(tied, [k \in DOMAIN tied |-> ValueOf(tied[k], req.sort)], req.desc)
    IN sorted \o Pass(missing, [k \in DOMAIN missing |-> missing[k].activity], TRUE)

(* The library's only pass; a momentum of zero is not missing. *)
LibraryKey(c, sort) ==
    CASE sort = "momentum" -> IF c.momentum = Null THEN -1 ELSE c.momentum
      [] sort = "recent" -> c.activity
      [] OTHER -> OrMinusOne(c.score)

LibraryOrder(cards, req) ==
    Pass(cards, [k \in DOMAIN cards |-> LibraryKey(cards[k], req.sort)], TRUE)

Scored(cards) == Where(cards, {k \in DOMAIN cards : cards[k].score # Null})

(* _filter *)
Filtered(cards, floor) ==
    IF floor = Null THEN cards
    ELSE Where(cards, {k \in DOMAIN cards : cards[k].score # Null /\ cards[k].score >= floor})

(* The default sort leaves out what has no score, before it counts. *)
Arranged(cards, req) ==
    LET kept == Filtered(cards, req.floor) IN
    IF req.list = "library" THEN LibraryOrder(kept, req)
    ELSE IF req.sort = "score" THEN Scored(RadarOrder(kept, req))
    ELSE RadarOrder(kept, req)

BadSlice(seq, offset) == SubSeq(seq, offset + 2, Min({Len(seq), offset + 1 + PageSize}))
Slice(seq, offset) == SubSeq(seq, offset + 1, Min({Len(seq), offset + PageSize}))

-----------------------------------------------------------------------------
(* Evidence and signals *)

Entry(kind, id, p) == [kind |-> kind, id |-> id, signal |-> p,
                       at |-> IF p = Null THEN NotedAt[id] ELSE piece[p].at]

(* Notes that refer to no signal stand for themselves. *)
Alone == Note \ UNION {piece[p].notes : p \in Piece}

Oldest(notes) == CHOOSE n \in notes : \A m \in notes : n <= m

(* evidence: linked signals, then signals that notes refer to and that are  *)
(* not linked (DISTINCT ON the signal), then the notes that stand alone.     *)
Entries ==
    LET effective == {p \in Piece : piece[p].effective}
        linked == {p \in effective : piece[p].linked}
        noted == {p \in effective \ linked : piece[p].notes # {}}
    IN {Entry("linked_signal", p, p) : p \in linked}
       \cup {Entry("explicit_signal", Oldest(piece[p].notes), p) : p \in noted}
       \cup {Entry("explicit", n, Null) : n \in Alone}

KindRank == [explicit |-> 1, explicit_signal |-> 2, linked_signal |-> 3]

(* observed_at downwards with NULL last, then what makes the order total.   *)
Newer(x, y) == y.at = Null \/ (x.at # Null /\ x.at > y.at)

Precedes(x, y, rank) ==
    IF x.at # y.at THEN Newer(x, y)
    ELSE \/ rank[x] < rank[y]
         \/ rank[x] = rank[y] /\ x.id < y.id

ByObserved(entries, rank) ==
    Enumeration(entries, {p \in entries \X entries : Precedes(p[1], p[2], rank)})

EvidenceRows == ByObserved(Entries, [e \in Entries |-> KindRank[e.kind]])

(* active_signals: effective ones, whatever they are linked to. *)
FeedEntries == {Entry("linked_signal", p, p) : p \in {q \in Piece : piece[q].effective}}

FeedRows == ByObserved(FeedEntries, [e \in FeedEntries |-> -e.id])

-----------------------------------------------------------------------------
(* A request, statement by statement *)

Reading(list, phase) == reader.req.list \in list /\ reader.phase = phase

Turn(page, total, more) ==
    reader' = [reader EXCEPT !.page = page, !.total = total, !.cards = <<>>,
                             !.turned = @ \o [k \in DOMAIN page |-> page[k].id],
                             !.offset = @ + PageSize,
                             !.phase = IF more THEN "start" ELSE "over"]

(* list_active_opportunities: the rows stay as this statement read them. *)
ListActive ==
    /\ Reading({"radar", "library"}, "start")
    /\ LET ids == Enumeration({c \in Card : card[c].shown}, Upwards(Card))
       IN reader' = [reader EXCEPT
                       !.cards = [k \in DOMAIN ids |->
                                    [id |-> ids[k], score |-> Null, momentum |-> Null,
                                     activity |-> card[ids[k]].activity]],
                       !.phase = "scores"]
    /\ UNCHANGED <<card, piece, changes>>

(* latest_scores *)
ReadScores ==
    /\ Reading({"radar", "library"}, "scores")
    /\ reader' = [reader EXCEPT
                    !.cards = [k \in DOMAIN @ |->
                                 [id |-> @[k].id, score |-> card[@[k].id].score,
                                  momentum |-> Null, activity |-> @[k].activity]],
                    !.phase = "trends"]
    /\ UNCHANGED <<card, piece, changes>>

(* latest_trends, and the answer; the client goes on while there is more.   *)
TurnPage ==
    /\ Reading({"radar", "library"}, "trends")
    /\ LET cards == [k \in DOMAIN reader.cards |->
                       LET c == reader.cards[k] IN [c EXCEPT !.momentum = card[c.id].momentum]]
           all == Arranged(cards, reader.req)
       IN Turn(Slice(all, reader.offset), Len(all), reader.offset + PageSize < Len(all))
    /\ UNCHANGED <<card, piece, changes>>

(* get_visible_opportunity, and the count. *)
CountEvidence ==
    /\ Reading({"evidence"}, "start")
    /\ reader' = [reader EXCEPT !.total = Cardinality(Entries), !.phase = "rows"]
    /\ UNCHANGED <<card, piece, changes>>

ReadEvidence ==
    /\ Reading({"evidence"}, "rows")
    /\ LET page == Slice(EvidenceRows, reader.offset)
       IN Turn(page, reader.total, reader.offset + Len(page) < reader.total)
    /\ UNCHANGED <<card, piece, changes>>

(* signals: no total; a page that is full may be followed by an empty one.  *)
ReadFeed ==
    /\ Reading({"feed"}, "start")
    /\ LET page == Slice(FeedRows, reader.offset)
       IN Turn(page, Len(FeedRows), Len(page) = PageSize)
    /\ UNCHANGED <<card, piece, changes>>

-----------------------------------------------------------------------------
(* Meanwhile *)

Changed ==
    /\ changes > 0 /\ changes' = changes - 1
    /\ reader.phase # "over"
    /\ reader' = [reader EXCEPT !.quiet = @ /\ reader.phase = "start" /\ reader.turned = <<>>]

(* A score, a trend or activity; published by a review, merged by another.  *)
CardChanges(c) ==
    /\ reader.req.list \in {"radar", "library"} /\ Changed
    /\ \E v \in Level :
          card' \in {[card EXCEPT ![c].score = v], [card EXCEPT ![c].momentum = v],
                     [card EXCEPT ![c].activity = v], [card EXCEPT ![c].shown = ~@]}
    /\ UNCHANGED piece

(* A match, a merge into the opportunity or out of it, the guardrail.       *)
PieceChanges(p) ==
    /\ reader.req.list \in {"evidence", "feed"} /\ Changed
    /\ piece' \in {[piece EXCEPT ![p].effective = ~@], [piece EXCEPT ![p].linked = ~@]}
    /\ UNCHANGED card

(* The store as it is when a reader opens a list; a note refers to one      *)
(* signal at most.                                                          *)
PageInit ==
    /\ card \in [Card -> CardRow]
    /\ piece \in [Piece -> PieceRow]
    /\ \A p, q \in Piece : p # q => piece[p].notes \cap piece[q].notes = {}
    /\ changes \in 0 .. MaxChanges
    /\ \E request \in Request : reader = Opened(request)

PageStep ==
    \/ ListActive \/ ReadScores \/ TurnPage
    \/ CountEvidence \/ ReadEvidence \/ ReadFeed
    \/ \E c \in Card : CardChanges(c)
    \/ \E p \in Piece : PieceChanges(p)

PageSpec == PageInit /\ [][PageStep]_pageVars

-----------------------------------------------------------------------------
(* Properties *)

(* What the request keeps of the data. *)
Wanted ==
    CASE reader.req.list \in {"radar", "library"} ->
            {c \in Card :
                /\ card[c].shown
                /\ card[c].score = Null => reader.req.floor = Null
                                           /\ <<reader.req.list, reader.req.sort>> # <<"radar", "score">>
                /\ card[c].score # Null /\ reader.req.floor # Null
                      => card[c].score >= reader.req.floor}
      [] reader.req.list = "evidence" ->
            {e.id : e \in Entries}
      [] reader.req.list = "feed" -> {p \in Piece : piece[p].effective}

(* docs/evidence-chain-source-traceability.md and docs/opportunity-library.md: *)
(* paging is stable over unchanged data.  The pages of one reading show each  *)
(* thing the request keeps, none twice, and the total is their number,        *)
(* whatever ties and missing values there are.                                *)
Partition ==
    reader.phase = "over" /\ reader.quiet =>
        /\ {reader.turned[k] : k \in DOMAIN reader.turned} = Wanted
        /\ Len(reader.turned) = reader.total

(* The order a page is in, without saying how it is reached. *)
Ahead(x, y) ==
    LET vx == ValueOf(x, reader.req.sort)  vy == ValueOf(y, reader.req.sort)
        second(c) == IF vx = Null THEN c.activity ELSE TieKey(c, reader.req.sort)
    IN IF reader.req.list = "library"
       THEN \/ LibraryKey(x, reader.req.sort) > LibraryKey(y, reader.req.sort)
            \/ LibraryKey(x, reader.req.sort) = LibraryKey(y, reader.req.sort) /\ x.id < y.id
       ELSE \/ vx # Null /\ vy = Null
            \/ vx # Null /\ vy # Null /\ vx # vy /\ ((vx > vy) = reader.req.desc)
            \/ vx = vy /\ second(x) > second(y)
            \/ vx = vy /\ second(x) = second(y) /\ x.id < y.id

(* docs/radar-page.md: no page is sorted again by the client.  Every page,   *)
(* also one whose statements saw different data, is in the order asked for   *)
(* by the numbers it shows; what lacks the number comes last in either       *)
(* direction.                                                                *)
InOrder ==
    reader.req.list \in {"radar", "library"} =>
        \A i, j \in DOMAIN reader.page : i < j => Ahead(reader.page[i], reader.page[j])

(* docs/tasks/TASK-044E.md: deduplication is by record: on a page of         *)
(* evidence a signal stands once, however it is linked and referred to and   *)
(* whatever commits in between.                                              *)
SignalStandsOnce ==
    reader.req.list = "evidence" =>
        \A i, j \in DOMAIN reader.page :
            i # j /\ reader.page[i].signal = reader.page[j].signal => reader.page[i].signal = Null

(* What a reader may rely on when turning pages. *)
PagesFaithful == Partition /\ InOrder /\ SignalStandsOnce
=============================================================================
