------------------------ MODULE StagingClaims_proofs ------------------------
(***************************************************************************)
(* Proofs about StagingClaims, for any number of runs, videos, collections  *)
(* and faults: who owns an item, and that a settled item stays settled and  *)
(* known; and what a run of PagedDiscovery, which StagingClaims includes,   *)
(* says of the items it staged.                                             *)
(***************************************************************************)
EXTENDS StagingClaims, FiniteSetTheorems, TLAPS

(* A row is settled for good, except for the loss of a claim. *)
Done == {"processed", "failed"}

ItemRow == [status: ItemStatus, by: Collector \cup {Nobody, Dead}]

Types ==
    /\ item \in [Item -> ItemRow]
    /\ collector \in [Collector -> CollectorRow]
    /\ known \subseteq Video
    /\ start.phase \in {"waiting", "read", "started"}
    /\ start.read \in [Item -> ItemStatus]

(* What start_pipeline has read and not yet written: a row it saw settled   *)
(* is settled, and a video it found is still there.                         *)
ReadStillHolds ==
    /\ start.known \subseteq known
    /\ start.phase # "waiting" =>
         \A i \in Item : start.read[i] \in Done => item[i].status \in Done

IInv == Types /\ OneClaimant /\ SettledStaysKnown /\ ReadStillHolds

(* The action property, without its box. *)
SettledKept ==
    \A i \in Item \ taken :
        /\ item[i].status = "processed" => item'[i].status = "processed"
        /\ item[i].status = "failed" /\ item'[i] # item[i] => i \in Reused

Kept == IInv' /\ SettledKept

LEMMA RowFields ==
    ASSUME NEW status \in ItemStatus
    PROVE  /\ Row(status) \in ItemRow
           /\ Row(status).status = status /\ Row(status).by = Nobody
  BY DEF Row, ItemRow

LEMMA Names ==
    /\ Nobody \notin Collector /\ Dead \notin Collector /\ Dead # Nobody
    /\ \A s \in Done : s \in ItemStatus /\ s # "processing"
    /\ {"absent", "pending", "processing", "processed", "failed"} \subseteq ItemStatus
  BY ClaimAssumption DEF Nobody, Dead, Done, ItemStatus

(* Nobody but start_pipeline writes what it has read; videos stay.          *)
LEMMA ReadKept ==
    ASSUME SettledStaysKnown, ReadStillHolds, start' = start, known \subseteq known',
           \A i \in Item : item[i].status \in Done => item'[i].status \in Done,
           \A i \in Item : item'[i].status = "processed" => VideoOf(i) \in known'
    PROVE  SettledStaysKnown' /\ ReadStillHolds'
  <1>1. ReadStillHolds'
    BY DEF ReadStillHolds
  <1>2. Reused' = Reused /\ Reused \subseteq Item
    BY DEF Reused
  <1>3. start.phase = "started" => \A i \in Reused : item'[i].status \in Done
    BY <1>2 DEF SettledStaysKnown, Done
  <1>4. SettledStaysKnown'
    BY <1>2, <1>3 DEF SettledStaysKnown, Done
  <1> QED BY <1>1, <1>4

-----------------------------------------------------------------------------
(* The search *)

LEMMA SearchItems ==
    ASSUME SearchNext
    PROVE  item' = item \/ \E s \in Searcher : item' = Stage(searcher[s])
  <1>1. ASSUME NEW s \in Searcher, SearcherStep(s)
        PROVE  item' = item \/ item' = Stage(searcher[s])
    BY <1>1 DEF SearcherStep, TakeMessage, StartSearch, SearchRefused, StopForQuota, ReceivePage,
                PageFails, PersistPage, FinishSearch, SearcherDies
  <1>2. ASSUME NEW r \in Run, GiveUp(r)
        PROVE  item' = item
    BY <1>2 DEF GiveUp
  <1> QED BY <1>1, <1>2 DEF SearchNext

LEMMA SearchKept ==
    ASSUME IInv, SearchNext, UNCHANGED claimVars
    PROVE  Kept
  <1>1. /\ known' = known /\ collector' = collector /\ start' = start /\ taken' = taken
    BY DEF claimVars
  <1>2. ASSUME NEW i \in Item
        PROVE  item'[i] = item[i] \/ (item[i].status = "absent" /\ item'[i] = Row("pending"))
    BY SearchItems DEF Stage
  <1>3. Row("pending") \in ItemRow /\ Row("pending").status = "pending" /\ Row("pending").by = Nobody
    BY RowFields, Names
  <1>4. item' \in [Item -> ItemRow]
    <2>1. CASE item' = item
      BY <2>1 DEF IInv, Types
    <2>2. CASE \E s \in Searcher : item' = Stage(searcher[s])
      BY <2>2, <1>3 DEF Stage, IInv, Types
    <2> QED BY <2>1, <2>2, SearchItems
  <1>5. OneClaimant'
    <2>1. ASSUME NEW i \in Item
          PROVE  /\ item'[i].by = item[i].by
                 /\ item'[i].status = "processing" <=> item[i].status = "processing"
      <3>1. CASE item'[i] = item[i]
        BY <3>1
      <3>2. CASE item[i].status = "absent" /\ item'[i] = Row("pending")
        <4>1. item[i].by = Nobody
          BY <3>2 DEF IInv, OneClaimant
        <4> QED BY <4>1, <3>2, <1>3
      <3> QED BY <3>1, <3>2, <1>2
    <2> QED BY <2>1, <1>1 DEF IInv, OneClaimant, Holds
  <1>6. SettledStaysKnown' /\ ReadStillHolds'
    <2>1. \A i \in Item : item[i].status \in Done => item'[i].status \in Done
      BY <1>2 DEF Done
    <2>2. \A i \in Item : item'[i].status = "processed" => VideoOf(i) \in known'
      BY <1>1, <1>2, <1>3 DEF IInv, SettledStaysKnown
    <2> QED BY <2>1, <2>2, <1>1, ReadKept DEF IInv
  <1>7. SettledKept
    BY <1>2 DEF SettledKept
  <1> QED BY <1>1, <1>4, <1>5, <1>6, <1>7 DEF Kept, IInv, Types

-----------------------------------------------------------------------------
(* Collections *)

(* Nothing is written on the items. *)
LEMMA ItemsAlone ==
    ASSUME IInv, UNCHANGED <<item, known, start, taken>>,
           collector' \in [Collector -> CollectorRow],
           \A c \in Collector, i \in Item : Holds(c, i)' <=> Holds(c, i)
    PROVE  Kept
  <1>1. OneClaimant'
    BY DEF IInv, OneClaimant
  <1>2. SettledStaysKnown' /\ ReadStillHolds'
    BY ReadKept DEF IInv, SettledStaysKnown
  <1> QED BY <1>1, <1>2 DEF Kept, IInv, Types, SettledKept

LEMMA FetchKept ==
    ASSUME IInv, NEW c \in Collector, NEW answer \in SUBSET Video, Fetch(c, answer)
    PROVE  Kept
  <1>1. /\ UNCHANGED <<item, known, start, taken>> /\ collector[c].phase = "fetching"
        /\ collector' = [collector EXCEPT ![c].phase = "persisting", ![c].answer = answer]
    BY DEF Fetch, searchVars
  <1>2. collector' \in [Collector -> CollectorRow]
    BY <1>1 DEF IInv, Types, CollectorRow
  <1>3. \A d \in Collector, i \in Item : Holds(d, i)' <=> Holds(d, i)
    BY <1>1 DEF Holds, IInv, Types, CollectorRow
  <1> QED BY <1>1, <1>2, <1>3, ItemsAlone

LEMMA FetchFailsKept ==
    ASSUME IInv, NEW c \in Collector, FetchFails(c)
    PROVE  Kept
  <1>1. /\ UNCHANGED <<item, known, start, taken>> /\ collector[c].phase = "fetching"
        /\ collector' = [collector EXCEPT ![c].phase = "releasing"]
    BY DEF FetchFails
  <1>2. collector' \in [Collector -> CollectorRow]
    BY <1>1 DEF IInv, Types, CollectorRow
  <1>3. \A d \in Collector, i \in Item : Holds(d, i)' <=> Holds(d, i)
    BY <1>1 DEF Holds, IInv, Types, CollectorRow
  <1> QED BY <1>1, <1>2, <1>3, ItemsAlone

LEMMA ClaimKept ==
    ASSUME IInv, NEW c \in Collector, NEW claimed \in SUBSET Item, StartAndClaim(c, claimed)
    PROVE  Kept
  <1> DEFINE claim == [status |-> "processing", by |-> c]
             busy == [NoCollection EXCEPT !.phase = "fetching", !.items = claimed]
  <1>1. /\ collector[c].phase = "idle" /\ UNCHANGED <<known, start, taken>>
        /\ \A i \in claimed : item[i].status = "pending"
        /\ item' = [i \in Item |-> IF i \in claimed THEN claim ELSE item[i]]
        /\ collector' = [collector EXCEPT ![c] = busy]
    BY DEF StartAndClaim, Claimable
  <1>2. claim \in ItemRow /\ claim.status = "processing" /\ claim.by = c
    BY Names DEF ItemRow
  <1>3. busy \in CollectorRow /\ busy.phase = "fetching" /\ busy.items = claimed
    BY DEF NoCollection, CollectorRow
  <1> HIDE DEF claim, busy
  <1>4. /\ item' \in [Item -> ItemRow]
        /\ \A i \in Item : IF i \in claimed THEN item'[i] = claim ELSE item'[i] = item[i]
    BY <1>1, <1>2 DEF IInv, Types
  <1>5. /\ collector' \in [Collector -> CollectorRow] /\ collector'[c] = busy
        /\ \A d \in Collector \ {c} : collector'[d] = collector[d]
    BY <1>1, <1>3 DEF IInv, Types
  <1>6. \A i \in Item : Holds(c, i)' <=> i \in claimed
    BY <1>3, <1>5 DEF Holds
  <1>7. \A d \in Collector \ {c}, i \in Item : Holds(d, i)' <=> Holds(d, i)
    BY <1>5 DEF Holds
  <1>8. \A i \in Item : ~Holds(c, i)
    BY <1>1 DEF Holds
  <1>9. ASSUME NEW i \in Item
        PROVE  /\ item'[i].status = "processing" <=> item'[i].by # Nobody
               /\ i \in taken' \/ \A d \in Collector : Holds(d, i)' <=> item'[i].by = d
    <2>1. CASE i \in claimed
      <3>1. item[i].by = Nobody
        BY <1>1, <2>1 DEF IInv, OneClaimant
      <3>2. i \in taken \/ \A d \in Collector : ~Holds(d, i)
        BY <3>1, Names DEF IInv, OneClaimant
      <3> QED BY <2>1, <3>2, <1>1, <1>2, <1>4, <1>6, <1>7, Names
    <2>2. CASE i \notin claimed
      BY <2>2, <1>1, <1>4, <1>6, <1>7, <1>8 DEF IInv, OneClaimant
    <2> QED BY <2>1, <2>2
  <1>10. OneClaimant'
    BY <1>9 DEF OneClaimant
  <1>11. SettledStaysKnown' /\ ReadStillHolds'
    <2>1. \A i \in Item : item[i].status \in Done => item'[i].status \in Done
      BY <1>1, <1>4 DEF Done
    <2>2. \A i \in Item : item'[i].status = "processed" => VideoOf(i) \in known'
      BY <1>1, <1>2, <1>4 DEF IInv, SettledStaysKnown
    <2> QED BY <2>1, <2>2, <1>1, ReadKept DEF IInv
  <1>12. SettledKept
    BY <1>1, <1>4 DEF SettledKept
  <1> QED BY <1>1, <1>4, <1>5, <1>10, <1>11, <1>12 DEF Kept, IInv, Types

(* The collection c lets go of its items; the others are as they were.      *)
Ended(c) ==
    /\ collector' = [collector EXCEPT ![c] = NoCollection]
    /\ collector[c].phase # "idle"

LEMMA EndedHolds ==
    ASSUME IInv, NEW c \in Collector, Ended(c)
    PROVE  /\ collector' \in [Collector -> CollectorRow]
           /\ \A i \in Item : ~Holds(c, i)'
           /\ \A d \in Collector \ {c}, i \in Item : Holds(d, i)' <=> Holds(d, i)
  <1>1. NoCollection \in CollectorRow /\ NoCollection.phase = "idle"
    BY DEF NoCollection, CollectorRow
  <1>2. /\ collector' \in [Collector -> CollectorRow] /\ collector'[c] = NoCollection
        /\ \A d \in Collector \ {c} : collector'[d] = collector[d]
    BY <1>1 DEF Ended, IInv, Types
  <1> QED BY <1>1, <1>2 DEF Holds

LEMMA PersistKept ==
    ASSUME IInv, NEW c \in Collector, Persist(c)
    PROVE  Kept
  <1>1. /\ collector[c].phase = "persisting" /\ item' = Settle(c) /\ Ended(c)
        /\ known' = known \cup collector[c].answer /\ UNCHANGED <<start, taken>>
    BY DEF Persist, Ended
  <1>2. /\ collector' \in [Collector -> CollectorRow]
        /\ \A i \in Item : ~Holds(c, i)'
        /\ \A d \in Collector \ {c}, i \in Item : Holds(d, i)' <=> Holds(d, i)
    BY <1>1, EndedHolds
  <1>3. \A i \in Item : Holds(c, i) <=> i \in collector[c].items
    BY <1>1 DEF Holds
  <1>4. collector[c].answer \subseteq Video
    BY DEF IInv, Types, CollectorRow
  <1>5. /\ Row("processed") \in ItemRow /\ Row("processed").status = "processed"
        /\ Row("processed").by = Nobody
        /\ Row("failed") \in ItemRow /\ Row("failed").status = "failed"
        /\ Row("failed").by = Nobody
    BY RowFields, Names
  <1>6. ASSUME NEW i \in Item
        PROVE  /\ i \notin collector[c].items => item'[i] = item[i]
               /\ i \in collector[c].items =>
                    \/ item'[i] = Row("processed") /\ VideoOf(i) \in known'
                    \/ item'[i] = Row("failed")
    BY <1>1 DEF Settle
  <1>7. item' \in [Item -> ItemRow]
    BY <1>1, <1>5 DEF Settle, IInv, Types
  <1>8. ASSUME NEW i \in Item
        PROVE  /\ item'[i].status = "processing" <=> item'[i].by # Nobody
               /\ i \in taken' \/ \A d \in Collector : Holds(d, i)' <=> item'[i].by = d
    <2>1. CASE i \in collector[c].items
      <3>1. item'[i].by = Nobody /\ item'[i].status # "processing"
        BY <1>5, <1>6, <2>1
      <3>2. i \in taken \/ \A d \in Collector \ {c} : ~Holds(d, i)
        BY <1>3, <2>1 DEF IInv, OneClaimant
      <3> QED BY <3>1, <3>2, <1>1, <1>2, Names
    <2>2. CASE i \notin collector[c].items
      BY <2>2, <1>1, <1>2, <1>3, <1>6 DEF IInv, OneClaimant
    <2> QED BY <2>1, <2>2
  <1>9. OneClaimant'
    BY <1>8 DEF OneClaimant
  <1>10. SettledStaysKnown' /\ ReadStillHolds'
    <2>1. \A i \in Item : item[i].status \in Done => item'[i].status \in Done
      BY <1>5, <1>6 DEF Done
    <2>2. \A i \in Item : item'[i].status = "processed" => VideoOf(i) \in known'
      BY <1>1, <1>5, <1>6 DEF IInv, SettledStaysKnown
    <2> QED BY <2>1, <2>2, <1>1, ReadKept DEF IInv
  <1>11. SettledKept
    <2>1. ASSUME NEW i \in Item \ taken, item[i].status \in Done
          PROVE  item'[i] = item[i]
      <3>1. item[i].by # c
        BY <2>1, Names DEF IInv, OneClaimant, Done
      <3> QED BY <3>1, <1>3, <1>6 DEF IInv, OneClaimant
    <2> QED BY <2>1 DEF SettledKept, Done
  <1> QED BY <1>1, <1>2, <1>4, <1>7, <1>9, <1>10, <1>11 DEF Kept, IInv, Types

LEMMA ReleaseKept ==
    ASSUME IInv, NEW c \in Collector, ReleaseClaims(c)
    PROVE  Kept
  <1>1. /\ collector[c].phase = "releasing" /\ item' = Release(c) /\ Ended(c)
        /\ UNCHANGED <<known, start, taken>>
    BY DEF ReleaseClaims, Ended
  <1>2. /\ collector' \in [Collector -> CollectorRow]
        /\ \A i \in Item : ~Holds(c, i)'
        /\ \A d \in Collector \ {c}, i \in Item : Holds(d, i)' <=> Holds(d, i)
    BY <1>1, EndedHolds
  <1>3. \A i \in Item : Holds(c, i) <=> i \in collector[c].items
    BY <1>1 DEF Holds
  <1>4. Row("pending") \in ItemRow /\ Row("pending").status = "pending" /\ Row("pending").by = Nobody
    BY RowFields, Names
  <1>5. ASSUME NEW i \in Item
        PROVE  \/ item'[i] = item[i] /\ ~(i \in collector[c].items /\ item[i].status = "processing")
               \/ /\ item'[i] = Row("pending")
                  /\ i \in collector[c].items /\ item[i].status = "processing"
    BY <1>1 DEF Release
  <1>6. item' \in [Item -> ItemRow]
    BY <1>1, <1>4 DEF Release, IInv, Types
  <1>7. ASSUME NEW i \in Item
        PROVE  /\ item'[i].status = "processing" <=> item'[i].by # Nobody
               /\ i \in taken' \/ \A d \in Collector : Holds(d, i)' <=> item'[i].by = d
    <2>1. CASE i \in collector[c].items
      <3>1. i \in taken \/ (item[i].by = c /\ \A d \in Collector \ {c} : ~Holds(d, i))
        BY <1>3, <2>1 DEF IInv, OneClaimant
      <3>2. item'[i].status = "processing" <=> item'[i].by # Nobody
        BY <1>4, <1>5 DEF IInv, OneClaimant
      <3>3. i \in taken \/ item'[i].by = Nobody
        BY <3>1, <2>1, <1>4, <1>5, Names DEF IInv, OneClaimant
      <3> QED BY <3>1, <3>2, <3>3, <1>1, <1>2, Names
    <2>2. CASE i \notin collector[c].items
      BY <2>2, <1>1, <1>2, <1>3, <1>5 DEF IInv, OneClaimant
    <2> QED BY <2>1, <2>2
  <1>8. OneClaimant'
    BY <1>7 DEF OneClaimant
  <1>9. SettledStaysKnown' /\ ReadStillHolds'
    <2>1. \A i \in Item : item[i].status \in Done => item'[i].status \in Done
      BY <1>5 DEF Done
    <2>2. \A i \in Item : item'[i].status = "processed" => VideoOf(i) \in known'
      BY <1>1, <1>4, <1>5 DEF IInv, SettledStaysKnown
    <2> QED BY <2>1, <2>2, <1>1, ReadKept DEF IInv
  <1>10. SettledKept
    BY <1>5 DEF SettledKept
  <1> QED BY <1>1, <1>2, <1>6, <1>8, <1>9, <1>10 DEF Kept, IInv, Types

LEMMA DiesKept ==
    ASSUME IInv, NEW c \in Collector, CollectorDies(c)
    PROVE  Kept
  <1>1. /\ item' = [i \in Item |-> IF item[i].by = c THEN [item[i] EXCEPT !.by = Dead]
                                   ELSE item[i]]
        /\ Ended(c) /\ UNCHANGED <<known, start, taken>>
    BY DEF CollectorDies, Ended
  <1>2. /\ collector' \in [Collector -> CollectorRow]
        /\ \A i \in Item : ~Holds(c, i)'
        /\ \A d \in Collector \ {c}, i \in Item : Holds(d, i)' <=> Holds(d, i)
    BY <1>1, EndedHolds
  <1>3. ASSUME NEW i \in Item
        PROVE  /\ item'[i] \in ItemRow /\ item'[i].status = item[i].status
               /\ item[i].by # c => item'[i] = item[i]
               /\ item[i].by = c => item'[i].by = Dead
    BY <1>1 DEF IInv, Types, ItemRow
  <1>4. item' \in [Item -> ItemRow]
    BY <1>1, <1>3
  <1>5. ASSUME NEW i \in Item
        PROVE  /\ item'[i].status = "processing" <=> item'[i].by # Nobody
               /\ i \in taken' \/ \A d \in Collector : Holds(d, i)' <=> item'[i].by = d
    <2>1. CASE item[i].by = c
      BY <2>1, <1>1, <1>2, <1>3, Names DEF IInv, OneClaimant
    <2>2. CASE item[i].by # c
      BY <2>2, <1>1, <1>2, <1>3 DEF IInv, OneClaimant
    <2> QED BY <2>1, <2>2
  <1>6. OneClaimant'
    BY <1>5 DEF OneClaimant
  <1>7. SettledStaysKnown' /\ ReadStillHolds'
    <2>1. \A i \in Item : item'[i].status = "processed" => VideoOf(i) \in known'
      BY <1>1, <1>3 DEF IInv, SettledStaysKnown
    <2> QED BY <2>1, <1>1, <1>3, ReadKept DEF IInv
  <1>8. SettledKept
    <2>1. ASSUME NEW i \in Item, item[i].status \in Done
          PROVE  item'[i] = item[i]
      BY <2>1, <1>3, Names DEF IInv, OneClaimant
    <2> QED BY <2>1 DEF SettledKept, Done
  <1> QED BY <1>1, <1>2, <1>4, <1>6, <1>7, <1>8 DEF Kept, IInv, Types

LEMMA RecoverKept ==
    ASSUME IInv, NEW stale \in SUBSET Item, RecoverStaleClaims(stale)
    PROVE  Kept
  <1>1. /\ \A i \in stale : item[i].status = "processing"
        /\ item' = [i \in Item |-> IF i \in stale THEN Row("pending") ELSE item[i]]
        /\ taken' = taken \cup stale /\ UNCHANGED <<known, collector, start>>
    BY DEF RecoverStaleClaims
  <1>2. Row("pending") \in ItemRow /\ Row("pending").status = "pending" /\ Row("pending").by = Nobody
    BY RowFields, Names
  <1>3. item' \in [Item -> ItemRow]
    BY <1>1, <1>2 DEF IInv, Types
  <1>4. \A d \in Collector, i \in Item : Holds(d, i)' <=> Holds(d, i)
    BY <1>1 DEF Holds
  <1>5. OneClaimant'
    BY <1>1, <1>2, <1>4 DEF IInv, OneClaimant
  <1>6. SettledStaysKnown' /\ ReadStillHolds'
    <2>1. \A i \in Item : item[i].status \in Done => item'[i].status \in Done
      BY <1>1 DEF Done
    <2>2. \A i \in Item : item'[i].status = "processed" => VideoOf(i) \in known'
      BY <1>1, <1>2 DEF IInv, SettledStaysKnown
    <2> QED BY <2>1, <2>2, <1>1, ReadKept DEF IInv
  <1>7. SettledKept
    BY <1>1 DEF SettledKept
  <1> QED BY <1>1, <1>3, <1>5, <1>6, <1>7 DEF Kept, IInv, Types

-----------------------------------------------------------------------------
(* start_pipeline *)

LEMMA ReadItemsKept ==
    ASSUME IInv, ReadItems
    PROVE  Kept
  <1>1. /\ start' = [phase |-> "read", read |-> [i \in Item |-> item[i].status],
                     known |-> known]
        /\ UNCHANGED <<item, known, collector, taken>>
    BY DEF ReadItems, searchVars
  <1>2. OneClaimant'
    BY <1>1 DEF IInv, OneClaimant, Holds
  <1>3. SettledStaysKnown'
    BY <1>1 DEF IInv, SettledStaysKnown
  <1>4. ReadStillHolds'
    BY <1>1 DEF ReadStillHolds
  <1>5. start'.read \in [Item -> ItemStatus] /\ start'.phase = "read"
    BY <1>1 DEF IInv, Types, ItemRow
  <1> QED BY <1>1, <1>2, <1>3, <1>4, <1>5 DEF Kept, IInv, Types, SettledKept

LEMMA StartRefusedKept ==
    ASSUME IInv, StartRefused
    PROVE  Kept
  <1>1. start' = NotRead /\ UNCHANGED <<item, known, collector, taken>>
    BY DEF StartRefused, searchVars
  <1>2. OneClaimant'
    BY <1>1 DEF IInv, OneClaimant, Holds
  <1>3. SettledStaysKnown'
    BY <1>1 DEF IInv, SettledStaysKnown, NotRead
  <1>4. ReadStillHolds'
    BY <1>1 DEF ReadStillHolds, NotRead
  <1>5. start'.read \in [Item -> ItemStatus] /\ start'.phase = "waiting"
    BY <1>1, Names DEF NotRead
  <1> QED BY <1>1, <1>2, <1>3, <1>4, <1>5 DEF Kept, IInv, Types, SettledKept

(* What start_pipeline makes of a row: nothing, or a processed one whose     *)
(* claim, if there was one, is taken away.                                   *)
LEMMA Marked ==
    ASSUME IInv, start.phase = "read", ~Refused, NEW i \in Item
    PROVE  /\ i \notin Reused => MarkReused[i] = item[i]
           /\ i \in Reused =>
                \/ MarkReused[i] = item[i] /\ item[i].status \in Done
                \/ /\ MarkReused[i] \in ItemRow /\ MarkReused[i].status = "processed"
                   /\ MarkReused[i].by = Nobody
  <1>1. i \notin Reused => MarkReused[i] = item[i]
    BY DEF MarkReused
  <1>2. ASSUME i \in Reused
        PROVE  \/ MarkReused[i] = item[i] /\ item[i].status \in Done
               \/ /\ MarkReused[i] \in ItemRow /\ MarkReused[i].status = "processed"
                  /\ MarkReused[i].by = Nobody
    <2>1. CASE start.read[i] = "processed"
      BY <1>2, <2>1 DEF MarkReused, IInv, ReadStillHolds, Done
    <2>2. CASE start.read[i] = "processing"
      BY <1>2, <2>2, RowFields, Names DEF MarkReused
    <2>3. CASE start.read[i] \notin {"processed", "processing"}
      <3>1. MarkReused[i] = [item[i] EXCEPT !.status = "processed"]
        BY <1>2, <2>3 DEF MarkReused
      <3>2. item[i] \in ItemRow
        BY DEF IInv, Types
      <3>3. item[i].status # "processing"
        <4>1. CASE start.read[i] = "pending"
          BY <1>2, <4>1 DEF Refused
        <4>2. CASE start.read[i] = "failed"
          BY <4>2, Names DEF IInv, ReadStillHolds, Done
        <4>3. CASE start.read[i] \notin {"pending", "failed"}
          BY <1>2, <2>3, <4>3 DEF Reused, IInv, Types, ItemStatus
        <4> QED BY <4>1, <4>2, <4>3
      <3>4. item[i].by = Nobody
        BY <3>3 DEF IInv, OneClaimant
      <3> QED BY <3>1, <3>2, <3>4, Names DEF ItemRow
    <2> QED BY <2>1, <2>2, <2>3
  <1> QED BY <1>1, <1>2

LEMMA CommitKept ==
    ASSUME IInv, CommitStart
    PROVE  Kept
  <1>1. /\ start.phase = "read" /\ ~Refused /\ item' = MarkReused
        /\ taken' = taken \cup {i \in Reused : item[i].status = "processing"}
        /\ start' = [start EXCEPT !.phase = "started"]
        /\ UNCHANGED <<known, collector>>
    BY DEF CommitStart
  <1>2. ASSUME NEW i \in Item
        PROVE  /\ i \notin Reused => item'[i] = item[i]
               /\ i \in Reused =>
                    \/ item'[i] = item[i] /\ item[i].status \in Done
                    \/ /\ item'[i] \in ItemRow /\ item'[i].status = "processed"
                       /\ item'[i].by = Nobody
    BY <1>1, Marked
  <1>3. item' \in [Item -> ItemRow]
    <2>1. \A i \in Item : item'[i] \in ItemRow
      BY <1>2 DEF IInv, Types
    <2>2. item' = [i \in Item |-> item'[i]]
      BY <1>1 DEF MarkReused
    <2> QED BY <2>1, <2>2
  <1>4. \A d \in Collector, i \in Item : Holds(d, i)' <=> Holds(d, i)
    BY <1>1 DEF Holds
  <1>5. ASSUME NEW i \in Item
        PROVE  /\ item'[i].status = "processing" <=> item'[i].by # Nobody
               /\ i \in taken' \/ \A d \in Collector : Holds(d, i)' <=> item'[i].by = d
    <2>1. CASE item'[i] = item[i]
      BY <2>1, <1>1, <1>4 DEF IInv, OneClaimant
    <2>2. CASE item'[i] # item[i]
      <3>1. i \in Reused /\ item'[i].status = "processed" /\ item'[i].by = Nobody
        BY <2>2, <1>2
      <3>2. CASE item[i].status = "processing"
        BY <3>1, <3>2, <1>1
      <3>3. CASE item[i].status # "processing"
        BY <3>1, <3>3, <1>1, <1>4 DEF IInv, OneClaimant
      <3> QED BY <3>2, <3>3
    <2> QED BY <2>1, <2>2
  <1>6. OneClaimant'
    BY <1>5 DEF OneClaimant
  <1>7. /\ start'.phase = "started" /\ start'.read = start.read
        /\ start'.known = start.known
    BY <1>1
  <1>8. Reused' = Reused
    BY <1>7 DEF Reused
  <1>9. SettledStaysKnown'
    <2>1. ASSUME NEW i \in Item, item'[i].status = "processed"
          PROVE  VideoOf(i) \in known'
      <3>1. CASE i \in Reused
        BY <3>1, <1>1 DEF Reused, IInv, ReadStillHolds
      <3>2. CASE i \notin Reused
        BY <3>2, <2>1, <1>1, <1>2 DEF IInv, SettledStaysKnown
      <3> QED BY <3>1, <3>2
    <2>2. \A i \in Reused : item'[i].status \in Done
      BY <1>2 DEF Reused, Done
    <2> QED BY <2>1, <2>2, <1>8 DEF SettledStaysKnown, Done
  <1>10. ReadStillHolds'
    BY <1>1, <1>2, <1>7 DEF IInv, ReadStillHolds, Done
  <1>11. SettledKept
    BY <1>2 DEF SettledKept
  <1> QED BY <1>1, <1>3, <1>6, <1>7, <1>9, <1>10, <1>11 DEF Kept, IInv, Types

-----------------------------------------------------------------------------
(* The theorems *)

LEMMA NextKept ==
    ASSUME IInv, Next
    PROVE  Kept
  <1>1. CASE SearchNext /\ UNCHANGED claimVars
    BY <1>1, SearchKept
  <1>2. ASSUME NEW c \in Collector, CollectorStep(c) \/ FetchFails(c) \/ CollectorDies(c)
        PROVE  Kept
    <2>1. ASSUME NEW claimed \in SUBSET Item, StartAndClaim(c, claimed)
          PROVE  Kept
      BY <2>1, ClaimKept
    <2>2. ASSUME NEW answer \in SUBSET Video, Fetch(c, answer)
          PROVE  Kept
      BY <2>2, FetchKept
    <2>3. CASE Persist(c)
      BY <2>3, PersistKept
    <2>4. CASE ReleaseClaims(c)
      BY <2>4, ReleaseKept
    <2>5. CASE FetchFails(c)
      BY <2>5, FetchFailsKept
    <2>6. CASE CollectorDies(c)
      BY <2>6, DiesKept
    <2> QED BY <1>2, <2>1, <2>2, <2>3, <2>4, <2>5, <2>6 DEF CollectorStep
  <1>3. ASSUME NEW stale \in SUBSET Item, RecoverStaleClaims(stale)
        PROVE  Kept
    BY <1>3, RecoverKept
  <1>4. CASE ReadItems
    BY <1>4, ReadItemsKept
  <1>5. CASE CommitStart
    BY <1>5, CommitKept
  <1>6. CASE StartRefused
    BY <1>6, StartRefusedKept
  <1> QED BY <1>1, <1>2, <1>3, <1>4, <1>5, <1>6 DEF Next

LEMMA StepKept ==
    ASSUME IInv, [Next]_vars
    PROVE  Kept
  <1>1. CASE UNCHANGED vars
    <2>1. /\ UNCHANGED <<item, known, collector, start, taken>>
      BY <1>1 DEF vars, searchVars, claimVars
    <2>2. \A c \in Collector, i \in Item : Holds(c, i)' <=> Holds(c, i)
      BY <2>1 DEF Holds
    <2>3. collector' \in [Collector -> CollectorRow]
      BY <2>1 DEF IInv, Types
    <2> QED BY <2>1, <2>2, <2>3, ItemsAlone
  <1> QED BY <1>1, NextKept

LEMMA InitHolds ==
    ASSUME Init
    PROVE  IInv
  <1>1. /\ item = [i \in Item |-> Row("absent")] /\ known \in SUBSET Video
        /\ collector = [c \in Collector |-> NoCollection]
        /\ start = NotRead /\ taken = {}
    BY DEF Init, SearchInit
  <1>2. Row("absent") \in ItemRow /\ Row("absent").status = "absent" /\ Row("absent").by = Nobody
    BY RowFields, Names
  <1>3. NoCollection \in CollectorRow /\ NoCollection.phase = "idle"
    BY DEF NoCollection, CollectorRow
  <1>4. /\ start.phase = "waiting" /\ start.read \in [Item -> ItemStatus]
        /\ start.known = {}
    BY <1>1, Names DEF NotRead
  <1>5. Types
    BY <1>1, <1>2, <1>3, <1>4 DEF Types
  <1>6. OneClaimant
    BY <1>1, <1>2, <1>3, Names DEF OneClaimant, Holds
  <1>7. SettledStaysKnown
    BY <1>1, <1>2, <1>4 DEF SettledStaysKnown
  <1>8. ReadStillHolds
    BY <1>4 DEF ReadStillHolds
  <1> QED BY <1>5, <1>6, <1>7, <1>8 DEF IInv

(* Claims are where the table's CHECK wants them, an item whose claim was    *)
(* never taken away has one claimant, a settled item stays known, and what  *)
(* start_pipeline has read stays true until it writes.                      *)
THEOREM InvCorrect == Spec => []IInv
  <1>1. IInv /\ [Next]_vars => IInv'
    BY StepKept DEF Kept
  <1> QED BY <1>1, InitHolds, PTL DEF Spec

(* Neither a search, a collection, a recovery nor start_pipeline writes a    *)
(* row that the CHECK of youtube_discovery_items refuses, and two           *)
(* collections are never at work on one item unless a claim was taken away. *)
THEOREM OneClaimantCorrect == Spec => []OneClaimant
  <1>1. IInv => OneClaimant
    BY DEF IInv
  <1> QED BY <1>1, InvCorrect, PTL

(* A processed item has a row of videos, and the items start_pipeline        *)
(* settled are not fetched again, whatever was claimed, released or         *)
(* recovered between its read and its write.                                *)
THEOREM SettledStaysKnownCorrect == Spec => []SettledStaysKnown
  <1>1. IInv => SettledStaysKnown
    BY DEF IInv
  <1> QED BY <1>1, InvCorrect, PTL

(* A collection, a release, a recovery or start_pipeline changes a settled   *)
(* item only after its claim was taken away, or when start_pipeline finds   *)
(* the video of a failed one.                                               *)
THEOREM SettledIsFinalCorrect == Spec => SettledIsFinal
  <1>1. IInv /\ [Next]_vars => [SettledKept]_vars
    BY StepKept DEF Kept
  <1>2. SettledIsFinal <=> [][SettledKept]_vars
    BY DEF SettledIsFinal, SettledKept
  <1> QED BY <1>1, <1>2, InvCorrect, PTL DEF Spec

-----------------------------------------------------------------------------
(* What a run says of the items it staged. *)

(* A worker that has begun the run. *)
Active(w) == w.phase \notin {"idle", "starting"}

(* A run that a worker has begun, as long as that worker has not finished   *)
(* it: others may have given it up.                                          *)
Unfinished(row) ==
    \/ row.status = "running"
    \/ row.status = "failed" /\ row.given_up

(* What the worker has persisted of the videos it has seen. *)
Persisted(w) == IF w.phase = "persisting" THEN w.seen \ w.page ELSE w.seen

(* A worker never sees more than it may, fails only with empty hands, and   *)
(* is content only when there is no more to ask for.                        *)
Paging(w) ==
    /\ Cardinality(w.seen) <= MaxResults
    /\ w.completed = 0 => w.seen = {}
    /\ w.phase = "persisting" => w.page \subseteq w.seen
    /\ w.phase \in {"asking", "persisting"} => w.outcome = "completed"
    /\ w.phase = "finishing" =>
         /\ w.outcome = "failed" => w.seen = {}
         /\ w.outcome = "completed" => PagingOver(w)

(* What CountsHonest says of a run, and that one not yet begun has nothing. *)
RunHonest(r) ==
    /\ search[r].items <= Cardinality(Staged(r))
    /\ search[r].attempts = 0 => Staged(r) = {} /\ search[r].items = 0
    /\ search[r].attempts = 1 =>
         /\ search[r].items = Cardinality(Staged(r))
         /\ search[r].status = "failed" => Staged(r) = {} \/ search[r].given_up
         /\ search[r].status = "completed" =>
              \/ ~search[r].more
              \/ search[r].items = MaxResults
              \/ search[r].requested = MaxPages

(* A worker's videos are staged; the first one has staged nothing else, and  *)
(* while it is at work nobody else ends the run but by giving it up.        *)
Backed(w) ==
    /\ Persisted(w) \subseteq Staged(w.run)
    /\ search[w.run].attempts >= 1
    /\ search[w.run].attempts = 1 => /\ Unfinished(search[w.run])
                                     /\ Staged(w.run) = Persisted(w)

Alone ==
    \A s, t \in Searcher :
        s # t /\ Active(searcher[s]) /\ Active(searcher[t]) /\ searcher[s].run = searcher[t].run
          => search[searcher[s].run].attempts >= 2

SearchInv ==
    /\ search \in [Run -> SearchRow] /\ searcher \in [Searcher -> SearcherRow]
    /\ \A s \in Searcher : Paging(searcher[s]) /\ (Active(searcher[s]) => Backed(searcher[s]))
    /\ Alone
    /\ \A r \in Run : RunHonest(r)

(* Collections and start_pipeline touch staged items only. *)
Touched ==
    /\ \A c \in Collector : \A i \in collector[c].items : item[i].status # "absent"
    /\ \A i \in Item : start.read[i] # "absent" => item[i].status # "absent"

CountInv == IInv /\ SearchInv /\ Touched

-----------------------------------------------------------------------------
(* Sets of videos *)

LEMMA Counted ==
    ASSUME NEW S \in SUBSET Video
    PROVE  IsFiniteSet(S) /\ Cardinality(S) \in Nat
  BY PagingAssumption, FS_Subset, FS_CardinalityType

LEMMA Fewer ==
    ASSUME NEW T \in SUBSET Video, NEW S \in SUBSET T
    PROVE  Cardinality(S) <= Cardinality(T)
  BY Counted, FS_Subset

LEMMA Joined ==
    ASSUME NEW S \in SUBSET Video, NEW T \in SUBSET Video
    PROVE  Cardinality(S \cup T) <= Cardinality(S) + Cardinality(T)
  <1>1. Cardinality(S \cup T) = Cardinality(S) + Cardinality(T) - Cardinality(S \cap T)
    BY Counted, FS_Union
  <1>2. Cardinality(S) \in Nat /\ Cardinality(T) \in Nat /\ Cardinality(S \cap T) \in Nat
    BY Counted
  <1> QED BY <1>1, <1>2

LEMMA Empty == Cardinality({}) = 0
  BY FS_EmptySet

LEMMA FreshType ==
    ASSUME NEW r \in Run
    PROVE  /\ Fresh(r) \in SearcherRow /\ Fresh(r).phase = "idle" /\ Fresh(r).run = r
           /\ Paging(Fresh(r))
  <1>1. Fresh(r) \in SearcherRow
    BY DEF Fresh, SearcherRow
  <1>2. 0 <= MaxResults
    BY PagingAssumption
  <1>3. Paging(Fresh(r))
    BY <1>2, Empty DEF Fresh, Paging
  <1> QED BY <1>1, <1>3 DEF Fresh

-----------------------------------------------------------------------------
(* Collections and start_pipeline *)

LEMMA ItemsStay ==
    ASSUME SearchInv, UNCHANGED <<search, searcher>>,
           \A i \in Item : item'[i].status = "absent" <=> item[i].status = "absent"
    PROVE  SearchInv'
  <1>1. \A r \in Run : Staged(r)' = Staged(r)
    BY DEF Staged, Item
  <1>2. \A r \in Run : RunHonest(r)'
    BY <1>1 DEF SearchInv, RunHonest
  <1>3. \A s \in Searcher : searcher[s].run \in Run
    BY DEF SearchInv, SearcherRow
  <1>4. \A s \in Searcher : Active(searcher'[s]) => Backed(searcher[s])'
    BY <1>1, <1>3 DEF SearchInv, Backed
  <1> QED BY <1>2, <1>4 DEF SearchInv, Alone, Backed

LEMMA ClaimsHold ==
    ASSUME CountInv, Next, UNCHANGED <<search, searcher>>, ~ (SearchNext /\ UNCHANGED claimVars)
    PROVE  SearchInv' /\ Touched'
  <1> USE Names
  <1>1. Row("pending").status = "pending" /\ Row("processed").status = "processed"
        /\ Row("failed").status = "failed"
    BY RowFields
  <1>2. /\ \A i \in Item : item'[i].status = "absent" <=> item[i].status = "absent"
        /\ \A c \in Collector : \A i \in collector'[c].items :
              i \in Item /\ item[i].status # "absent"
        /\ \A i \in Item : start'.read[i] # "absent" => item[i].status # "absent"
    <2> DEFINE Good == /\ \A i \in Item : item'[i].status = "absent" <=> item[i].status = "absent"
                       /\ \A c \in Collector : \A i \in collector'[c].items :
                             i \in Item /\ item[i].status # "absent"
                       /\ \A i \in Item : start'.read[i] # "absent" => item[i].status # "absent"
    <2>1. /\ item \in [Item -> ItemRow] /\ collector \in [Collector -> CollectorRow]
          /\ \A c \in Collector : collector[c].items \subseteq Item
          /\ Touched
      BY DEF CountInv, IInv, Types, CollectorRow
    <2>3. ASSUME NEW c \in Collector, NEW claimed \in SUBSET Item, StartAndClaim(c, claimed)
          PROVE  Good
      <3>1. /\ \A i \in claimed : item[i].status = "pending"
            /\ item' = [i \in Item |-> IF i \in claimed THEN [status |-> "processing", by |-> c]
                                       ELSE item[i]]
            /\ collector' = [collector EXCEPT ![c] =
                               [NoCollection EXCEPT !.phase = "fetching", !.items = claimed]]
            /\ start' = start
        BY <2>3 DEF StartAndClaim, Claimable
      <3>2. \A i \in Item : item'[i].status = "absent" <=> item[i].status = "absent"
        BY <3>1
      <3>3. \A d \in Collector : collector'[d].items = claimed \/ collector'[d] = collector[d]
        BY <2>1, <3>1 DEF NoCollection
      <3> QED BY <2>1, <3>1, <3>2, <3>3 DEF Touched
    <2>4. ASSUME NEW c \in Collector, NEW answer \in SUBSET Video, Fetch(c, answer)
          PROVE  Good
      <3>1. /\ UNCHANGED <<item, start>>
            /\ collector' = [collector EXCEPT ![c].phase = "persisting", ![c].answer = answer]
        BY <2>4 DEF Fetch, searchVars
      <3>2. \A d \in Collector : collector'[d].items = collector[d].items
        BY <2>1, <3>1 DEF CollectorRow
      <3> QED BY <2>1, <3>1, <3>2 DEF Touched
    <2>5. ASSUME NEW c \in Collector, FetchFails(c)
          PROVE  Good
      <3>1. UNCHANGED <<item, start>> /\ collector' = [collector EXCEPT ![c].phase = "releasing"]
        BY <2>5 DEF FetchFails
      <3>2. \A d \in Collector : collector'[d].items = collector[d].items
        BY <2>1, <3>1 DEF CollectorRow
      <3> QED BY <2>1, <3>1, <3>2 DEF Touched
    <2>6. ASSUME NEW c \in Collector, Persist(c) \/ ReleaseClaims(c) \/ CollectorDies(c)
          PROVE  Good
      <3>1. start' = start /\ collector' = [collector EXCEPT ![c] = NoCollection]
        BY <2>6 DEF Persist, ReleaseClaims, CollectorDies
      <3>2. \A d \in Collector : collector'[d].items = {} \/ collector'[d] = collector[d]
        BY <2>1, <3>1 DEF NoCollection
      <3>3. \A i \in Item : item'[i].status = "absent" <=> item[i].status = "absent"
        <4>1. CASE Persist(c)
          BY <4>1, <2>1, <1>1 DEF Persist, Settle, Touched
        <4>2. CASE ReleaseClaims(c)
          BY <4>2, <1>1 DEF ReleaseClaims, Release
        <4>3. CASE CollectorDies(c)
          <5>1. \A i \in Item : item'[i] = item[i] \/ item'[i] = [item[i] EXCEPT !.by = Dead]
            BY <4>3 DEF CollectorDies
          <5> QED BY <2>1, <5>1 DEF ItemRow
        <4> QED BY <2>6, <4>1, <4>2, <4>3
      <3> QED BY <2>1, <3>1, <3>2, <3>3 DEF Touched
    <2>7. ASSUME NEW stale \in SUBSET Item, RecoverStaleClaims(stale)
          PROVE  Good
      <3>1. \A i \in Item : item'[i].status = "absent" <=> item[i].status = "absent"
        BY <2>7, <1>1 DEF RecoverStaleClaims
      <3> QED BY <2>1, <2>7, <3>1 DEF RecoverStaleClaims, Touched
    <2>8. CASE ReadItems
      BY <2>1, <2>8 DEF ReadItems, searchVars, Touched
    <2>9. CASE CommitStart
      <3>1. /\ start.phase = "read" /\ ~Refused /\ item' = MarkReused
            /\ start' = [start EXCEPT !.phase = "started"] /\ UNCHANGED collector
        BY <2>9 DEF CommitStart
      <3>2. ASSUME NEW i \in Item
            PROVE  item'[i].status = "absent" <=> item[i].status = "absent"
        <4>1. CASE i \notin Reused
          BY <3>1, <4>1, Marked DEF CountInv
        <4>2. CASE i \in Reused
          <5>1. item[i].status # "absent"
            BY <2>1, <4>2 DEF Touched, Reused
          <5>2. item'[i] = item[i] \/ item'[i].status = "processed"
            BY <3>1, <4>2, Marked DEF CountInv
          <5> QED BY <5>1, <5>2
        <4> QED BY <4>1, <4>2
      <3>3. start'.read = start.read
        BY <3>1
      <3> QED BY <2>1, <3>1, <3>2, <3>3 DEF Touched
    <2>10. CASE StartRefused
      BY <2>1, <2>10 DEF StartRefused, NotRead, searchVars, Touched
    <2> HIDE DEF Good
    <2>11. Good
      BY <2>3, <2>4, <2>5, <2>6, <2>7, <2>8, <2>9, <2>10 DEF Next, CollectorStep, Good
    <2> QED BY <2>11 DEF Good
  <1>3. SearchInv'
    BY <1>2, ItemsStay DEF CountInv
  <1>4. Touched'
    BY <1>2 DEF Touched
  <1> QED BY <1>3, <1>4

-----------------------------------------------------------------------------
(* The search *)

LEMMA WorkerOf ==
    ASSUME SearchInv, NEW s \in Searcher
    PROVE  /\ searcher[s] \in SearcherRow /\ searcher[s].run \in Run
           /\ searcher[s].seen \in SUBSET Video /\ searcher[s].page \in SUBSET Video
           /\ searcher[s].completed \in Nat /\ searcher[s].requested \in Nat
           /\ searcher[s].more \in BOOLEAN
           /\ Paging(searcher[s]) /\ (Active(searcher[s]) => Backed(searcher[s]))
  BY DEF SearchInv, SearcherRow

(* Only the worker itself changes: it stops, or goes on with its run having  *)
(* persisted neither more nor less.                                         *)
LEMMA WorkerAlone ==
    ASSUME SearchInv, NEW s \in Searcher, NEW w \in SearcherRow,
           searcher' = [searcher EXCEPT ![s] = w], UNCHANGED <<item, search>>, Paging(w),
           Active(w) => /\ Active(searcher[s]) /\ w.run = searcher[s].run
                        /\ Persisted(w) = Persisted(searcher[s])
    PROVE  SearchInv'
  <1>1. /\ searcher' \in [Searcher -> SearcherRow] /\ searcher'[s] = w
        /\ \A t \in Searcher \ {s} : searcher'[t] = searcher[t]
    BY DEF SearchInv
  <1>2. \A r : Staged(r)' = Staged(r)
    BY DEF Staged
  <1>3. ASSUME NEW t \in Searcher
        PROVE  Paging(searcher'[t]) /\ (Active(searcher'[t]) => Backed(searcher[t])')
    <2>1. CASE t = s
      BY <2>1, <1>1, <1>2 DEF SearchInv, Backed
    <2>2. CASE t # s
      BY <2>2, <1>1, <1>2 DEF SearchInv, Backed
    <2> QED BY <2>1, <2>2
  <1>4. Alone'
    BY <1>1 DEF SearchInv, Alone
  <1>5. \A r \in Run : RunHonest(r)'
    BY <1>2 DEF SearchInv, RunHonest
  <1>6. (\A t \in Searcher : Paging(searcher[t]) /\ (Active(searcher[t]) => Backed(searcher[t])))'
    BY <1>3
  <1>7. search' \in [Run -> SearchRow]
    BY DEF SearchInv
  <1> QED BY <1>1, <1>4, <1>5, <1>6, <1>7 DEF SearchInv

LEMMA TakeMessageHolds ==
    ASSUME SearchInv, NEW s \in Searcher, NEW r \in Run, TakeMessage(s, r)
    PROVE  SearchInv'
  <1> DEFINE w == [Fresh(r) EXCEPT !.phase = "starting", !.clock = search[r].finishes]
  <1>1. searcher' = [searcher EXCEPT ![s] = w] /\ UNCHANGED <<item, search>>
    BY DEF TakeMessage
  <1>2. search[r].finishes \in Nat
    BY DEF SearchInv, SearchRow
  <1>3. /\ w \in SearcherRow /\ w.phase = "starting" /\ w.seen = {} /\ w.completed = 0
    BY <1>2, FreshType DEF Fresh, SearcherRow
  <1>4. Paging(w)
    <2>1. 0 <= MaxResults
      BY PagingAssumption
    <2> QED BY <1>3, <2>1, Empty DEF Paging
  <1> HIDE DEF w
  <1> QED BY <1>1, <1>3, <1>4, WorkerAlone DEF Active

LEMMA SearchRefusedHolds ==
    ASSUME SearchInv, NEW s \in Searcher, SearchRefused(s)
    PROVE  SearchInv'
  <1> DEFINE w == Fresh(searcher[s].run)
  <1>1. searcher' = [searcher EXCEPT ![s] = w] /\ UNCHANGED <<item, search>>
    BY DEF SearchRefused
  <1>2. w \in SearcherRow /\ w.phase = "idle" /\ Paging(w)
    BY FreshType, WorkerOf
  <1> HIDE DEF w
  <1> QED BY <1>1, <1>2, WorkerAlone DEF Active

(* Whoever gives a run up leaves its items, its counts and its workers.      *)
LEMMA GiveUpHolds ==
    ASSUME SearchInv, NEW r \in Run, GiveUp(r)
    PROVE  SearchInv'
  <1> DEFINE row == GivenUp(search[r])
  <1>1. search' = [search EXCEPT ![r] = row] /\ UNCHANGED <<item, searcher>>
    BY DEF GiveUp
  <1>2. search[r] \in SearchRow /\ search[r].finishes \in Nat
    BY DEF SearchInv, SearchRow
  <1>3. /\ row \in SearchRow /\ row.status = "failed" /\ row.given_up
        /\ row.items = search[r].items /\ row.attempts = search[r].attempts
    <2>1. PICK n \in Nat : n = search[r].finishes + 1
      BY <1>2
    <2>2. row = [search[r] EXCEPT !.status = "failed", !.given_up = TRUE, !.finishes = n]
      BY <2>1 DEF GivenUp
    <2> QED BY <1>2, <2>1, <2>2 DEF SearchRow
  <1> HIDE DEF row
  <1>4. /\ search' \in [Run -> SearchRow] /\ search'[r] = row
        /\ \A q \in Run \ {r} : search'[q] = search[q]
    BY <1>1, <1>3 DEF SearchInv
  <1>5. \A q : Staged(q)' = Staged(q)
    BY <1>1 DEF Staged
  <1>6. \A q \in Run : search'[q].attempts = search[q].attempts
    BY <1>3, <1>4
  <1>7. ASSUME NEW t \in Searcher
        PROVE  Paging(searcher'[t]) /\ (Active(searcher'[t]) => Backed(searcher[t])')
    <2>1. searcher[t].run \in Run /\ Paging(searcher[t]) /\ (Active(searcher[t]) => Backed(searcher[t]))
      BY WorkerOf
    <2>2. CASE searcher[t].run = r
      BY <2>1, <2>2, <1>1, <1>3, <1>4, <1>5 DEF Backed, Unfinished
    <2>3. CASE searcher[t].run # r
      BY <2>1, <2>3, <1>1, <1>4, <1>5 DEF Backed
    <2> QED BY <2>2, <2>3
  <1>8. (\A t \in Searcher : Paging(searcher[t]) /\ (Active(searcher[t]) => Backed(searcher[t])))'
    BY <1>7
  <1>9. Alone'
    <2>1. \A t \in Searcher : searcher[t].run \in Run
      BY WorkerOf
    <2> QED BY <2>1, <1>1, <1>6 DEF SearchInv, Alone
  <1>10. ASSUME NEW q \in Run
         PROVE  RunHonest(q)'
    <2>1. CASE q = r
      BY <2>1, <1>3, <1>4, <1>5 DEF SearchInv, RunHonest
    <2>2. CASE q # r
      BY <2>2, <1>4, <1>5 DEF SearchInv, RunHonest
    <2> QED BY <2>1, <2>2
  <1>11. searcher' \in [Searcher -> SearcherRow]
    BY <1>1 DEF SearchInv
  <1> QED BY <1>4, <1>8, <1>9, <1>10, <1>11 DEF SearchInv

LEMMA StartSearchHolds ==
    ASSUME SearchInv, NEW s \in Searcher, StartSearch(s)
    PROVE  SearchInv'
  <1>0. PICK r \in Run : r = searcher[s].run
    BY WorkerOf
  <1> DEFINE w == [Fresh(r) EXCEPT !.phase = "asking"]
  <1>1. /\ searcher[s].phase = "starting" /\ UNCHANGED item
        /\ searcher' = [searcher EXCEPT ![s] = w]
    BY <1>0 DEF StartSearch
  <1>2. PICK n \in Nat : n = search[r].attempts
    BY DEF SearchInv, SearchRow
  <1>3. PICK m \in Nat : m = n + 1
    OBVIOUS
  <1>4. PICK begun \in SearchRow :
           /\ search' = [search EXCEPT ![r] = begun]
           /\ begun.attempts = n + 1 /\ begun.status = "running" /\ begun.items = search[r].items
    <2> DEFINE row == [search[r] EXCEPT !.status = "running", !.attempts = m]
    <2>1. search[r] \in SearchRow
      BY DEF SearchInv
    <2>2. search' = [search EXCEPT ![r] = row]
      <3>1. search' = [search EXCEPT ![r].status = "running", ![r].attempts = @ + 1]
        BY <1>0 DEF StartSearch
      <3> QED BY <1>2, <1>3, <2>1, <3>1 DEF SearchInv, SearchRow
    <2>3. /\ row \in SearchRow /\ row.attempts = m /\ row.status = "running"
          /\ row.items = search[r].items
      BY <2>1 DEF SearchRow
    <2> QED BY <1>3, <2>2, <2>3
  <1>5. /\ w \in SearcherRow /\ w.phase = "asking" /\ w.run = r /\ w.seen = {}
        /\ w.completed = 0 /\ w.outcome = "completed"
    BY FreshType DEF Fresh, SearcherRow
  <1>6. Paging(w)
    <2>1. 0 <= MaxResults
      BY PagingAssumption
    <2> QED BY <1>5, <2>1, Empty DEF Paging
  <1> HIDE DEF w
  <1>7. /\ searcher' \in [Searcher -> SearcherRow] /\ searcher'[s] = w
        /\ \A t \in Searcher \ {s} : searcher'[t] = searcher[t]
        /\ search' \in [Run -> SearchRow] /\ search'[r] = begun
        /\ \A q \in Run \ {r} : search'[q] = search[q]
    BY <1>1, <1>4, <1>5 DEF SearchInv
  <1>8. \A q : Staged(q)' = Staged(q)
    BY <1>1 DEF Staged
  <1>9. ASSUME NEW t \in Searcher \ {s}, Active(searcher[t])
        PROVE  Backed(searcher[t])'
    <2>1. Backed(searcher[t]) /\ searcher[t].run \in Run
      BY <1>9, WorkerOf
    <2>2. CASE searcher[t].run = r
      BY <2>1, <2>2, <1>2, <1>4, <1>7, <1>8 DEF Backed, Unfinished
    <2>3. CASE searcher[t].run # r
      BY <2>1, <2>3, <1>7, <1>8 DEF Backed
    <2> QED BY <2>2, <2>3
  <1>10. Backed(searcher[s])'
    <2>1. Persisted(w) = {}
      BY <1>5 DEF Persisted
    <2>2. n + 1 = 1 => Staged(r) = {}
      BY <1>2 DEF SearchInv, RunHonest
    <2>3. n + 1 >= 1
      OBVIOUS
    <2>4. Unfinished(begun)
      BY <1>4 DEF Unfinished
    <2>5. searcher'[s] = w /\ w.run = r /\ search'[r] = begun /\ begun.attempts = n + 1
      BY <1>4, <1>5, <1>7
    <2>6. Staged(r)' = Staged(r) /\ Persisted(w)' = Persisted(w)
      BY <1>8 DEF Persisted
    <2>7. n + 1 = 1 => Staged(r) = Persisted(w)
      BY <2>1, <2>2
    <2> QED BY <2>1, <2>3, <2>4, <2>5, <2>6, <2>7 DEF Backed
  <1>11. (\A t \in Searcher : Paging(searcher[t]) /\ (Active(searcher[t]) => Backed(searcher[t])))'
    BY <1>6, <1>7, <1>9, <1>10 DEF SearchInv
  <1>12. ASSUME NEW t \in Searcher, NEW u \in Searcher, t # u,
                Active(searcher'[t]), Active(searcher'[u]), searcher'[t].run = searcher'[u].run
         PROVE  search'[searcher'[t].run].attempts >= 2
    <2>1. CASE t # s /\ u # s
      <3>1. searcher[t].run \in Run /\ search[searcher[t].run].attempts >= 2
        BY <2>1, <1>7, <1>12, WorkerOf DEF SearchInv, Alone
      <3> QED BY <2>1, <3>1, <1>2, <1>4, <1>7
    <2>2. CASE t = s
      <3>1. Active(searcher[u]) /\ searcher[u].run = r
        BY <2>2, <1>5, <1>7, <1>12
      <3>2. n >= 1
        BY <3>1, <1>2, WorkerOf DEF Backed
      <3> QED BY <2>2, <3>2, <1>2, <1>4, <1>5, <1>7
    <2>3. CASE u = s
      <3>1. Active(searcher[t]) /\ searcher[t].run = r
        BY <2>3, <1>5, <1>7, <1>12
      <3>2. n >= 1
        BY <3>1, <1>2, WorkerOf DEF Backed
      <3> QED BY <2>3, <3>1, <3>2, <1>2, <1>4, <1>5, <1>7, <1>12
    <2> QED BY <2>1, <2>2, <2>3
  <1>13. ASSUME NEW q \in Run
         PROVE  RunHonest(q)'
    <2>1. CASE q = r
      <3>1. n + 1 = 1 => Staged(r) = {} /\ search[r].items = 0
        BY <1>2 DEF SearchInv, RunHonest
      <3>2. search[r].items <= Cardinality(Staged(r))
        BY DEF SearchInv, RunHonest
      <3>3. n + 1 # 0
        OBVIOUS
      <3>4. n + 1 = 1 => begun.items = Cardinality(Staged(r))
        BY <3>1, <1>4, Empty
      <3> QED BY <2>1, <3>2, <3>3, <3>4, <1>4, <1>7, <1>8 DEF RunHonest
    <2>2. CASE q # r
      BY <2>2, <1>7, <1>8 DEF SearchInv, RunHonest
    <2> QED BY <2>1, <2>2
  <1>14. Alone'
    BY <1>12 DEF Alone
  <1> QED BY <1>7, <1>11, <1>13, <1>14 DEF SearchInv

(* An interrupted search that completed no page has seen no video. *)
LEMMA InterruptedPaging ==
    ASSUME NEW w \in SearcherRow, Paging(w), NEW u \in SearcherRow,
           u.phase = "finishing", u.outcome = Interrupted(w), u.seen = w.seen,
           u.completed = w.completed
    PROVE  Paging(u)
  <1>1. w.completed \in Nat
    BY DEF SearcherRow
  <1>2. Interrupted(w) = "failed" => w.seen = {}
    BY <1>1 DEF Interrupted, Paging
  <1>3. Interrupted(w) # "completed"
    BY DEF Interrupted
  <1> QED BY <1>2, <1>3 DEF Paging

LEMMA StopForQuotaHolds ==
    ASSUME SearchInv, NEW s \in Searcher, StopForQuota(s)
    PROVE  SearchInv'
  <1> DEFINE w == searcher[s]
             u == [w EXCEPT !.phase = "finishing", !.outcome = Interrupted(w)]
  <1>1. w \in SearcherRow /\ Paging(w)
    BY WorkerOf
  <1>2. w.phase = "asking" /\ UNCHANGED <<item, search>>
    BY DEF StopForQuota
  <1>3. searcher' = [searcher EXCEPT ![s] = u]
    BY DEF StopForQuota, SearchInv
  <1>4. Interrupted(w) \in {"completed", "partial", "failed"}
    BY DEF Interrupted
  <1>5. /\ u \in SearcherRow /\ u.phase = "finishing" /\ u.outcome = Interrupted(w)
        /\ u.seen = w.seen /\ u.completed = w.completed /\ u.run = w.run
    BY <1>1, <1>4 DEF SearcherRow
  <1>6. Paging(u)
    BY <1>1, <1>5, InterruptedPaging
  <1> HIDE DEF u
  <1>7. Active(w) /\ Persisted(u) = Persisted(w)
    BY <1>2, <1>5 DEF Active, Persisted
  <1> QED BY <1>2, <1>3, <1>5, <1>6, <1>7, WorkerAlone

LEMMA PageFailsHolds ==
    ASSUME SearchInv, NEW s \in Searcher, PageFails(s)
    PROVE  SearchInv'
  <1> DEFINE w == searcher[s]
  <1>1. w \in SearcherRow /\ Paging(w) /\ w.requested \in Nat
    BY WorkerOf
  <1>2. w.phase = "asking" /\ UNCHANGED <<item, search>>
    BY DEF PageFails
  <1>3. PICK n \in Nat : n = w.requested + 1
    BY <1>1
  <1> DEFINE u == [w EXCEPT !.phase = "finishing", !.requested = n, !.outcome = Interrupted(w)]
  <1>4. searcher' = [searcher EXCEPT ![s] = u]
    BY <1>3 DEF PageFails
  <1>5. Interrupted(w) \in {"completed", "partial", "failed"}
    BY DEF Interrupted
  <1>6. /\ u \in SearcherRow /\ u.phase = "finishing" /\ u.outcome = Interrupted(w)
        /\ u.seen = w.seen /\ u.completed = w.completed /\ u.run = w.run
    BY <1>1, <1>5 DEF SearcherRow
  <1>7. Paging(u)
    BY <1>1, <1>6, InterruptedPaging
  <1> HIDE DEF u
  <1>8. Active(w) /\ Persisted(u) = Persisted(w)
    BY <1>2, <1>6 DEF Active, Persisted
  <1> QED BY <1>2, <1>4, <1>6, <1>7, <1>8, WorkerAlone

LEMMA SearcherDiesHolds ==
    ASSUME SearchInv, NEW s \in Searcher, SearcherDies(s)
    PROVE  SearchInv'
  <1> DEFINE w == Fresh(searcher[s].run)
  <1>1. searcher' = [searcher EXCEPT ![s] = w] /\ UNCHANGED <<item, search>>
    BY DEF SearcherDies
  <1>2. w \in SearcherRow /\ w.phase = "idle" /\ Paging(w)
    BY FreshType, WorkerOf
  <1> HIDE DEF w
  <1> QED BY <1>1, <1>2, WorkerAlone DEF Active

(* YouTube is asked for no more results than fit. *)
LEMMA ReceivePageHolds ==
    ASSUME SearchInv, NEW s \in Searcher, NEW answer \in SUBSET Video, NEW more \in BOOLEAN,
           ReceivePage(s, answer, more)
    PROVE  SearchInv'
  <1> DEFINE w == searcher[s]
             u == [phase |-> "persisting", run |-> w.run, clock |-> w.clock, seen |-> w.seen \cup answer,
                   page |-> answer \ w.seen, requested |-> w.requested + 1,
                   completed |-> w.completed + 1, more |-> more, outcome |-> w.outcome]
  <1>1. /\ w \in SearcherRow /\ Paging(w) /\ w.requested \in Nat /\ w.completed \in Nat
        /\ w.seen \in SUBSET Video /\ w.run \in Run
    BY WorkerOf
  <1>2. w.phase = "asking" /\ Cardinality(answer) <= Room(w) /\ UNCHANGED <<item, search>>
    BY DEF ReceivePage
  <1>3. searcher' = [searcher EXCEPT ![s] = u]
    <2>1. PICK n : n = w.requested + 1
      OBVIOUS
    <2>2. PICK m : m = w.completed + 1
      OBVIOUS
    <2>3. PICK page : page = answer \ w.seen
      OBVIOUS
    <2>4. PICK seen : seen = w.seen \cup answer
      OBVIOUS
    <2>5. PICK a : a = [w EXCEPT !.phase = "persisting", !.requested = n, !.completed = m]
      OBVIOUS
    <2>6. a = [phase |-> "persisting", run |-> w.run, clock |-> w.clock, seen |-> w.seen, page |-> w.page,
               requested |-> n, completed |-> m, more |-> w.more, outcome |-> w.outcome]
      BY <1>1, <2>5 DEF SearcherRow
    <2>7. [a EXCEPT !.more = more, !.page = page, !.seen = seen]
            = [phase |-> "persisting", run |-> w.run, clock |-> w.clock, seen |-> seen, page |-> page,
               requested |-> n, completed |-> m, more |-> more, outcome |-> w.outcome]
      <3>1. PICK b : b = [a EXCEPT !.more = more]
        OBVIOUS
      <3>2. b = [phase |-> "persisting", run |-> w.run, clock |-> w.clock, seen |-> w.seen, page |-> w.page,
                 requested |-> n, completed |-> m, more |-> more, outcome |-> w.outcome]
        BY <2>6, <3>1
      <3>3. PICK c : c = [b EXCEPT !.page = page]
        OBVIOUS
      <3>4. c = [phase |-> "persisting", run |-> w.run, clock |-> w.clock, seen |-> w.seen, page |-> page,
                 requested |-> n, completed |-> m, more |-> more, outcome |-> w.outcome]
        BY <3>2, <3>3
      <3>5. [c EXCEPT !.seen = seen]
              = [phase |-> "persisting", run |-> w.run, clock |-> w.clock, seen |-> seen, page |-> page,
                 requested |-> n, completed |-> m, more |-> more, outcome |-> w.outcome]
        BY <3>4
      <3>6. [a EXCEPT !.more = more, !.page = page, !.seen = seen] = [c EXCEPT !.seen = seen]
        BY <3>1, <3>3
      <3> QED BY <3>5, <3>6
    <2>8. searcher' = [searcher EXCEPT ![s] =
                         [[w EXCEPT !.phase = "persisting", !.requested = n, !.completed = m]
                            EXCEPT !.more = more, !.page = page, !.seen = seen]]
      BY <2>1, <2>2, <2>3, <2>4 DEF ReceivePage
    <2> QED BY <2>1, <2>2, <2>3, <2>4, <2>5, <2>7, <2>8
  <1>4. u \in SearcherRow
    BY <1>1 DEF SearcherRow
  <1>5. Cardinality(w.seen \cup answer) <= MaxResults
    <2>1. Cardinality(answer) <= MaxResults - Cardinality(w.seen)
      <3>1. Cardinality(answer) \in Nat /\ Cardinality(w.seen) \in Nat
            /\ MaxResults \in Nat /\ PageSize \in Nat
        BY <1>1, Counted, PagingAssumption
      <3> QED BY <3>1, <1>2 DEF Room
    <2>2. Cardinality(w.seen \cup answer) <= Cardinality(w.seen) + Cardinality(answer)
      BY <1>1, Joined
    <2>3. Cardinality(answer) \in Nat /\ Cardinality(w.seen) \in Nat /\ MaxResults \in Nat
          /\ Cardinality(w.seen \cup answer) \in Nat
      BY <1>1, Counted, PagingAssumption
    <2> QED BY <2>1, <2>2, <2>3
  <1>6. Paging(u)
    <2>1. w.outcome = "completed"
      BY <1>1, <1>2 DEF Paging
    <2>2. w.completed + 1 # 0
      BY <1>1
    <2>3. answer \ w.seen \subseteq w.seen \cup answer
      OBVIOUS
    <2> QED BY <1>5, <2>1, <2>2, <2>3 DEF Paging
  <1>7. Active(w) /\ u.run = w.run /\ Persisted(u) = Persisted(w)
    <2>1. (w.seen \cup answer) \ (answer \ w.seen) = w.seen
      OBVIOUS
    <2> QED BY <1>2, <2>1 DEF Active, Persisted
  <1> HIDE DEF u
  <1> QED BY <1>2, <1>3, <1>4, <1>6, <1>7, WorkerAlone

-----------------------------------------------------------------------------
(* A page becomes rows, and the run says how many it has seen. *)

LEMMA PersistPageHolds ==
    ASSUME IInv, SearchInv, NEW s \in Searcher, PersistPage(s)
    PROVE  SearchInv'
  <1>1. PICK w : w = searcher[s]
    OBVIOUS
  <1>2. PICK r : r = w.run
    OBVIOUS
  <1>3. /\ w \in SearcherRow /\ Paging(w) /\ w.requested \in Nat /\ w.completed \in Nat
        /\ w.seen \in SUBSET Video /\ w.page \in SUBSET Video /\ r \in Run /\ w.more \in BOOLEAN
        /\ (Active(w) => Backed(w))
    BY <1>1, <1>2, WorkerOf
  <1>4. PICK phase \in {"finishing", "asking"} :
           /\ phase = IF PagingOver(w) THEN "finishing" ELSE "asking"
           /\ phase = "finishing" => PagingOver(w)
    OBVIOUS
  <1>5. PICK u : u = [w EXCEPT !.phase = phase]
    OBVIOUS
  <1>6. PICK told : told = Progress(w)
    OBVIOUS
  <1>7. /\ w.phase = "persisting" /\ item' = Stage(w)
        /\ search' = [search EXCEPT ![r] = told]
        /\ searcher' = [searcher EXCEPT ![s].phase = phase]
    BY <1>1, <1>2, <1>4, <1>6 DEF PersistPage
  <1>8. searcher' = [searcher EXCEPT ![s] = u]
    BY <1>1, <1>5, <1>7 DEF SearchInv
  <1>9. /\ u \in SearcherRow /\ u.phase = phase /\ u.seen = w.seen /\ u.completed = w.completed
        /\ u.run = r /\ u.outcome = w.outcome /\ u.more = w.more /\ u.requested = w.requested
    BY <1>3, <1>4, <1>2, <1>5 DEF SearcherRow
  <1>10. Paging(u)
    <2>1. PagingOver(u) <=> PagingOver(w)
      BY <1>9 DEF PagingOver
    <2>2. w.outcome = "completed"
      BY <1>3, <1>7 DEF Paging
    <2> QED BY <1>3, <1>4, <1>9, <2>1, <2>2 DEF Paging
  <1>11. /\ told \in SearchRow /\ told.items = Cardinality(w.seen)
         /\ told.attempts = search[r].attempts /\ told.status = search[r].status
         /\ told.given_up = search[r].given_up
    <2>1. search[r] \in SearchRow /\ Cardinality(w.seen) \in Nat
      BY <1>3, Counted DEF SearchInv
    <2> QED BY <1>3, <1>2, <1>6, <2>1 DEF Progress, SearchRow
  <1>12. /\ searcher' \in [Searcher -> SearcherRow] /\ searcher'[s] = u
         /\ \A t \in Searcher \ {s} : searcher'[t] = searcher[t]
         /\ search' \in [Run -> SearchRow] /\ search'[r] = told
         /\ \A q \in Run \ {r} : search'[q] = search[q]
    BY <1>3, <1>7, <1>8, <1>9, <1>11 DEF SearchInv
  <1>13. Staged(r)' = Staged(r) \cup w.page /\ \A q \in Run \ {r} : Staged(q)' = Staged(q)
    <2>1. ASSUME NEW q \in Run, NEW v \in Video
          PROVE  item'[<<q, v>>].status # "absent" <=>
                    item[<<q, v>>].status # "absent" \/ (q = r /\ v \in w.page)
      <3>1. <<q, v>> \in Item
        BY DEF Item
      <3>2. <<q, v>> \in {r} \X w.page <=> q = r /\ v \in w.page
        OBVIOUS
      <3>3. Row("pending").status = "pending"
        BY RowFields, Names
      <3>4. item'[<<q, v>>] = IF <<q, v>> \in {r} \X w.page /\ item[<<q, v>>].status = "absent"
                              THEN Row("pending") ELSE item[<<q, v>>]
        BY <1>7, <1>2, <3>1 DEF Stage
      <3> QED BY <3>2, <3>3, <3>4
    <2> QED BY <1>3, <2>1 DEF Staged
  <1>14. Persisted(w) = w.seen \ w.page /\ Persisted(u) = w.seen /\ w.page \subseteq w.seen
    BY <1>3, <1>7, <1>4, <1>9 DEF Persisted, Paging
  <1>15. /\ Active(w) /\ Persisted(w) \subseteq Staged(r) /\ search[r].attempts >= 1
         /\ search[r].attempts = 1 => Unfinished(search[r]) /\ Staged(r) = Persisted(w)
    BY <1>3, <1>7, <1>2 DEF Active, Backed
  <1>16. Backed(searcher[s])'
    <2>1. w.seen \subseteq Staged(r) \cup w.page
      BY <1>14, <1>15
    <2>2. search[r].attempts = 1 => Staged(r) \cup w.page = w.seen /\ Unfinished(search[r])
      BY <1>14, <1>15
    <2> QED BY <1>9, <1>11, <1>12, <1>13, <1>14, <1>15, <2>1, <2>2 DEF Backed, Unfinished
  <1>17. ASSUME NEW t \in Searcher \ {s}, Active(searcher[t])
         PROVE  Backed(searcher[t])'
    <2>1. Backed(searcher[t]) /\ searcher[t].run \in Run
      BY <1>17, WorkerOf
    <2>2. CASE searcher[t].run = r
      <3>1. search[r].attempts >= 2
        BY <2>2, <1>15, <1>17, <1>1, <1>2 DEF SearchInv, Alone
      <3>2. search[r].attempts \in Nat
        BY <1>3 DEF SearchInv, SearchRow
      <3> QED BY <2>1, <2>2, <3>1, <3>2, <1>11, <1>12, <1>13 DEF Backed, Persisted
    <2>3. CASE searcher[t].run # r
      BY <2>1, <2>3, <1>12, <1>13 DEF Backed, Persisted
    <2> QED BY <2>2, <2>3
  <1>18. (\A t \in Searcher : Paging(searcher[t]) /\ (Active(searcher[t]) => Backed(searcher[t])))'
    BY <1>10, <1>12, <1>16, <1>17 DEF SearchInv
  <1>19. Alone'
    <2>1. \A t \in Searcher : /\ searcher'[t].run = searcher[t].run
                              /\ Active(searcher'[t]) => Active(searcher[t])
      BY <1>9, <1>12, <1>15, <1>1, <1>2
    <2>2. \A q \in Run : search'[q].attempts = search[q].attempts
      BY <1>11, <1>12
    <2>3. \A t \in Searcher : searcher[t].run \in Run
      BY WorkerOf
    <2> QED BY <2>1, <2>2, <2>3 DEF SearchInv, Alone
  <1>20. ASSUME NEW q \in Run
         PROVE  RunHonest(q)'
    <2>1. CASE q = r
      <3>1. w.seen \subseteq Staged(r) \cup w.page /\ Staged(r) \cup w.page \in SUBSET Video
        BY <1>3, <1>14, <1>15 DEF Staged
      <3>2. Cardinality(w.seen) <= Cardinality(Staged(r) \cup w.page)
        BY <3>1, Fewer
      <3>3. search[r].attempts >= 1 /\ search[r].attempts \in Nat
        BY <1>3, <1>15 DEF SearchInv, SearchRow
      <3>4. search[r].attempts = 1 => Staged(r) \cup w.page = w.seen /\ Unfinished(search[r])
        BY <1>14, <1>15
      <3>5. search[r].attempts = 1 => /\ told.status \notin {"completed"}
                                      /\ told.status = "failed" => told.given_up
        BY <3>4, <1>11 DEF Unfinished
      <3>6. search'[r] = told /\ Staged(r)' = Staged(r) \cup w.page
        BY <1>12, <1>13
      <3>7. told.items <= Cardinality(Staged(r) \cup w.page)
        BY <3>2, <1>11
      <3>8. told.attempts # 0
        BY <3>3, <1>11
      <3>9. told.attempts = 1 => /\ told.items = Cardinality(Staged(r) \cup w.page)
                                 /\ told.status # "completed"
                                 /\ told.status = "failed" => told.given_up
        BY <3>4, <3>5, <1>11
      <3> QED BY <2>1, <3>6, <3>7, <3>8, <3>9, Zenon DEF RunHonest
    <2>2. CASE q # r
      BY <2>2, <1>12, <1>13 DEF SearchInv, RunHonest
    <2> QED BY <2>1, <2>2
  <1> QED BY <1>12, <1>18, <1>19, <1>20 DEF SearchInv

LEMMA FinishSearchHolds ==
    ASSUME SearchInv, NEW s \in Searcher, FinishSearch(s)
    PROVE  SearchInv'
  <1> DEFINE w == searcher[s]
             r == w.run
             told == [Progress(w) EXCEPT !.status = w.outcome, !.given_up = FALSE,
                                         !.finishes = @ + 1]
             u == Fresh(r)
  <1>1. /\ w \in SearcherRow /\ Paging(w) /\ w.requested \in Nat /\ w.completed \in Nat
        /\ w.seen \in SUBSET Video /\ r \in Run /\ w.more \in BOOLEAN
        /\ (Active(w) => Backed(w))
    BY WorkerOf
  <1>2. /\ w.phase = "finishing" /\ UNCHANGED item
        /\ search' = [search EXCEPT ![r] = told] /\ searcher' = [searcher EXCEPT ![s] = u]
    BY DEF FinishSearch
  <1>3. u \in SearcherRow /\ ~Active(u) /\ Paging(u)
    BY <1>1, FreshType DEF Active
  <1> HIDE DEF u
  <1>4. /\ told \in SearchRow /\ told.items = Cardinality(w.seen) /\ told.status = w.outcome
        /\ told.attempts = search[r].attempts /\ told.requested = w.requested
        /\ told.more = w.more
    <2>1. search[r] \in SearchRow /\ Cardinality(w.seen) \in Nat
      BY <1>1, Counted DEF SearchInv
    <2>2. /\ Progress(w) \in SearchRow /\ Progress(w).items = Cardinality(w.seen)
          /\ Progress(w).attempts = search[r].attempts /\ Progress(w).requested = w.requested
          /\ Progress(w).more = w.more
      BY <1>1, <2>1 DEF Progress, SearchRow
    <2>3. w.outcome \in {"completed", "partial", "failed"}
      BY <1>1 DEF SearcherRow
    <2>4. PICK n \in Nat : n = Progress(w).finishes + 1
      BY <2>2 DEF SearchRow
    <2>5. told = [Progress(w) EXCEPT !.status = w.outcome, !.given_up = FALSE, !.finishes = n]
      BY <2>4
    <2> QED BY <2>2, <2>3, <2>4, <2>5 DEF SearchRow
  <1> HIDE DEF told
  <1>5. /\ searcher' \in [Searcher -> SearcherRow] /\ searcher'[s] = u
        /\ \A t \in Searcher \ {s} : searcher'[t] = searcher[t]
        /\ search' \in [Run -> SearchRow] /\ search'[r] = told
        /\ \A q \in Run \ {r} : search'[q] = search[q]
    BY <1>1, <1>2, <1>3, <1>4 DEF SearchInv
  <1>6. \A q : Staged(q)' = Staged(q)
    BY <1>2 DEF Staged
  <1>7. Active(w) /\ Backed(w) /\ Persisted(w) = w.seen
    BY <1>1, <1>2 DEF Active, Persisted
  <1>8. search[r].attempts \in Nat
    BY <1>1 DEF SearchInv, SearchRow
  <1>9. ASSUME NEW t \in Searcher \ {s}, Active(searcher[t])
        PROVE  Backed(searcher[t])'
    <2>1. Backed(searcher[t]) /\ searcher[t].run \in Run
      BY <1>9, WorkerOf
    <2>2. CASE searcher[t].run = r
      <3>1. search[r].attempts >= 2
        BY <2>2, <1>7, <1>9 DEF SearchInv, Alone
      <3> QED BY <2>1, <2>2, <3>1, <1>4, <1>5, <1>6, <1>8 DEF Backed, Persisted
    <2>3. CASE searcher[t].run # r
      BY <2>1, <2>3, <1>5, <1>6 DEF Backed, Persisted
    <2> QED BY <2>2, <2>3
  <1>10. (\A t \in Searcher : Paging(searcher[t]) /\ (Active(searcher[t]) => Backed(searcher[t])))'
    BY <1>3, <1>5, <1>9 DEF SearchInv
  <1>11. Alone'
    <2>1. \A q \in Run : search'[q].attempts = search[q].attempts
      BY <1>4, <1>5
    <2>2. \A t \in Searcher : searcher[t].run \in Run
      BY WorkerOf
    <2> QED BY <1>3, <1>5, <2>1, <2>2 DEF SearchInv, Alone
  <1>12. ASSUME NEW q \in Run
         PROVE  RunHonest(q)'
    <2>1. CASE q = r
      <3>1. w.seen \subseteq Staged(r) /\ Staged(r) \in SUBSET Video
        BY <1>7 DEF Backed, Staged
      <3>2. Cardinality(w.seen) <= Cardinality(Staged(r))
        BY <3>1, Fewer
      <3>3. search[r].attempts >= 1 /\ (search[r].attempts = 1 => Staged(r) = w.seen)
        BY <1>7 DEF Backed
      <3>4. w.outcome = "failed" => w.seen = {}
        BY <1>1, <1>2 DEF Paging
      <3>5. w.outcome = "completed" => \/ ~w.more
                                       \/ Cardinality(w.seen) = MaxResults
                                       \/ w.requested = MaxPages
        <4>1. Cardinality(w.seen) <= MaxResults /\ Cardinality(w.seen) \in Nat /\ MaxResults \in Nat
          BY <1>1, Counted, PagingAssumption DEF Paging
        <4> QED BY <1>1, <1>2, <4>1 DEF Paging, PagingOver
      <3> QED BY <2>1, <3>2, <3>3, <3>4, <3>5, <1>4, <1>5, <1>6, <1>8 DEF RunHonest
    <2>2. CASE q # r
      BY <2>2, <1>5, <1>6 DEF SearchInv, RunHonest
    <2> QED BY <2>1, <2>2
  <1> QED BY <1>5, <1>10, <1>11, <1>12 DEF SearchInv

-----------------------------------------------------------------------------
(* The theorem *)

LEMMA CountNextKept ==
    ASSUME CountInv, [Next]_vars
    PROVE  CountInv'
  <1>1. IInv'
    BY StepKept DEF CountInv, Kept
  <1>2. CASE UNCHANGED vars
    <2>1. UNCHANGED <<item, search, searcher, collector, start>>
      BY <1>2 DEF vars, searchVars, claimVars
    <2>2. SearchInv'
      BY <2>1, ItemsStay DEF CountInv
    <2>3. Touched'
      BY <2>1 DEF CountInv, Touched
    <2> QED BY <1>1, <2>2, <2>3 DEF CountInv
  <1>3. CASE SearchNext /\ UNCHANGED claimVars
    <2>1. SearchInv'
      <3>1. ASSUME NEW s \in Searcher, SearcherStep(s)
            PROVE  SearchInv'
        BY <3>1, TakeMessageHolds, StartSearchHolds, SearchRefusedHolds, StopForQuotaHolds,
           ReceivePageHolds, PageFailsHolds, PersistPageHolds, FinishSearchHolds,
           SearcherDiesHolds DEF CountInv, SearcherStep
      <3>2. ASSUME NEW r \in Run, GiveUp(r)
            PROVE  SearchInv'
        BY <3>2, GiveUpHolds DEF CountInv
      <3> QED BY <1>3, <3>1, <3>2 DEF SearchNext
    <2>2. \A i \in Item : item[i].status # "absent" => item'[i].status # "absent"
      <3>1. Row("pending").status = "pending"
        BY RowFields, Names
      <3> QED BY <1>3, <3>1, SearchItems DEF Stage
    <2>3. \A c \in Collector : collector[c].items \subseteq Item
      BY DEF CountInv, IInv, Types, CollectorRow
    <2>4. Touched'
      BY <1>3, <2>2, <2>3 DEF CountInv, Touched, claimVars
    <2> QED BY <1>1, <2>1, <2>4 DEF CountInv
  <1>4. CASE Next /\ ~ (SearchNext /\ UNCHANGED claimVars)
    <2>1. UNCHANGED <<search, searcher>>
      BY <1>4 DEF Next, CollectorStep, StartAndClaim, Fetch, Persist, ReleaseClaims, FetchFails,
                  CollectorDies, RecoverStaleClaims, ReadItems, CommitStart, StartRefused, searchVars
    <2> QED BY <1>1, <1>4, <2>1, ClaimsHold DEF CountInv
  <1> QED BY <1>2, <1>3, <1>4 DEF Next

LEMMA CountInitHolds ==
    ASSUME Init
    PROVE  CountInv
  <1>1. IInv
    BY InitHolds
  <1>2. /\ search = [r \in Run |-> [status |-> "pending", items |-> 0, requested |-> 0,
                                    completed |-> 0, more |-> FALSE, attempts |-> 0,
                                    finishes |-> 0, given_up |-> FALSE]]
        /\ \A i \in Item : item[i].status = "absent"
    BY RowFields, Names DEF Init, SearchInit
  <1>3. PICK r \in Run : searcher = [s \in Searcher |-> Fresh(r)]
    BY DEF Init, SearchInit
  <1>4. \A s \in Searcher : searcher[s] \in SearcherRow /\ ~Active(searcher[s]) /\ Paging(searcher[s])
    BY <1>3, FreshType DEF Active
  <1>5. \A q \in Run : Staged(q) = {}
    BY <1>2 DEF Staged, Item
  <1>6. search \in [Run -> SearchRow]
    BY <1>2 DEF SearchRow
  <1>7. \A q \in Run : RunHonest(q)
    <2> SUFFICES ASSUME NEW q \in Run PROVE RunHonest(q)
      OBVIOUS
    <2>1. /\ search[q].status = "pending" /\ search[q].items = 0 /\ search[q].attempts = 0
          /\ search[q].requested = 0 /\ search[q].completed = 0
      BY <1>2
    <2>2. Staged(q) = {} /\ Cardinality(Staged(q)) = 0
      BY <1>5, Empty
    <2> QED BY <2>1, <2>2 DEF RunHonest
  <1>8. SearchInv
    BY <1>3, <1>4, <1>6, <1>7 DEF SearchInv, Alone
  <1>9. Touched
    BY DEF Init, NoCollection, NotRead, Touched
  <1> QED BY <1>1, <1>8, <1>9 DEF CountInv

(* A run never claims more items than it has rows; while one worker only    *)
(* has executed it, its count is exact, also when stale recovery or another *)
(* process gives the run up under it, a failed run that nobody gave up has  *)
(* staged nothing, and a completed one has stopped for want of videos, of    *)
(* room or of pages.                                                         *)
THEOREM CountsHonestCorrect == Spec => []CountsHonest
  <1>1. CountInv /\ [Next]_vars => CountInv'
    BY CountNextKept
  <1>2. CountInv => CountsHonest
    BY DEF CountInv, SearchInv, RunHonest, CountsHonest
  <1> QED BY <1>1, <1>2, CountInitHolds, PTL DEF Spec
=============================================================================
