---------------------- MODULE CommentCollection_proofs ----------------------
(***************************************************************************)
(* Proofs about VideoAnalysis beside a CommentCollection, for any number of *)
(* videos, comments, messages, versions, retries and faults: recorded       *)
(* results are final, nothing is left behind without a fault, and the       *)
(* status of a video is backed by a result.                                 *)
(***************************************************************************)
EXTENDS CommentCollection, SequenceTheorems, FiniteSetTheorems, WellFoundedInduction, TLAPS

(* The attempts recorded of an identity. *)
Rows == Seq(ExtractionRow)

Busy == {"numbering", "starting", "asking", "reusing", "failing"}

(* Some relevance extraction of the video has the verdict. *)
Judged(v, verdict) ==
    \E id \in Identity : /\ id[1] = "relevance" /\ id[2] = v
                         /\ \E n \in DOMAIN extraction[id] : extraction[id][n].verdict = verdict

(* Some extraction about the video ended in that way. *)
Missed(v, status) ==
    \E id \in Identity : /\ id[1] \in {"relevance", "signals"} /\ id[2] = v
                         /\ \E n \in DOMAIN extraction[id] : extraction[id][n].status = status

(* A verdict is that of a completed extraction, which for relevance has one. *)
RowsSane ==
    \A id \in Identity : \A n \in DOMAIN extraction[id] :
        LET row == extraction[id][n] IN
        /\ row.verdict # "none" => row.status = "completed"
        /\ id[1] = "relevance" /\ row.status = "completed" => row.verdict # "none"

(* What a message is about: sources of its task that have been collected.   *)
OnTask(j) ==
    /\ job[j].ids \subseteq SourcesOf(job[j].task)
    /\ \A s \in job[j].todo : s \in SourcesOf(job[j].task) /\ version[s] > 0
    /\ job[j].phase \in Busy => job[j].at \in Identity /\ job[j].at[1] = job[j].task

(* The number it has read is at most the next one; the row it works on is    *)
(* running.                                                                 *)
Counted(j) ==
    /\ At(j, "starting") => job[j].attempt \in 1..(Len(extraction[job[j].at]) + 1)
    /\ AtWork(j) => /\ job[j].attempt \in DOMAIN extraction[job[j].at]
                    /\ extraction[job[j].at][job[j].attempt].status = "running"

(* A result that is applied again was recorded, and signals are sought in    *)
(* videos that were found relevant.                                         *)
Justified(j) ==
    /\ At(j, "reusing") => /\ job[j].task = "relevance" /\ job[j].verdict # "none"
                           /\ Judged(job[j].at[2], job[j].verdict)
    /\ job[j].task = "signals" /\ job[j].phase \in Busy => Judged(job[j].at[2], "relevant")

Sane(j) == OnTask(j) /\ Counted(j) /\ Justified(j)

Collected == \A v \in Video : version[v] > 0

Evidence ==
    /\ \A v \in Video :
        /\ video[v] = "queued" => Judged(v, "relevant")
        /\ video[v] = "ignored" => Judged(v, "irrelevant")
        /\ video[v] = "review" => Missed(v, "invalid_output")
        /\ video[v] = "failed" => Missed(v, "failed")
    /\ \A g \in signal :
        /\ g.attempt \in DOMAIN extraction[g.id]
        /\ extraction[g.id][g.attempt].status = "completed"
        /\ g.id[1] = "signals" => Judged(g.id[2], "relevant")

IInv ==
    /\ AnalysisTypeOK /\ Collected /\ RowsSane
    /\ \A j \in Job : Sane(j)
    /\ OwnExtraction /\ NothingLeftBehind /\ Evidence

(* The action property, without its box. *)
ResultsKept ==
    \A id \in Identity : \A n \in DOMAIN extraction[id] :
        extraction[id][n].status # "running" =>
            n \in DOMAIN extraction'[id] /\ extraction'[id][n] = extraction[id][n]

Kept == IInv' /\ ResultsKept

-----------------------------------------------------------------------------
(* Attempts *)

LEMMA RowsOf ==
    ASSUME AnalysisTypeOK, NEW id \in Identity
    PROVE  /\ Len(extraction[id]) \in Nat
           /\ DOMAIN extraction[id] = 1..Len(extraction[id])
           /\ extraction[id] \in [1..Len(extraction[id]) -> ExtractionRow]
           /\ \A n \in DOMAIN extraction[id] : extraction[id][n] \in ExtractionRow
  <1>1. extraction[id] \in Seq(ExtractionRow)
    BY DEF AnalysisTypeOK
  <1>2. /\ Len(extraction[id]) \in Nat
        /\ DOMAIN extraction[id] = 1..Len(extraction[id])
        /\ extraction[id] \in [1..Len(extraction[id]) -> ExtractionRow]
    BY <1>1, LenProperties
  <1> QED BY <1>2

(* A function on 1..n is a sequence of length n. *)
LEMMA OfLength ==
    ASSUME NEW n \in Nat, NEW f \in [1..n -> ExtractionRow]
    PROVE  f \in Seq(ExtractionRow) /\ Len(f) = n /\ DOMAIN f = 1..n
  <1>1. f \in Seq(ExtractionRow)
    BY SeqDef
  <1>2. Len(f) \in Nat /\ DOMAIN f = 1..Len(f) /\ DOMAIN f = 1..n
    BY <1>1, LenProperties
  <1>3. Len(f) = n
    BY <1>2
  <1> QED BY <1>1, <1>2, <1>3

(* A nonempty set of numbers up to some bound has a largest one. *)
LEMMA Largest ==
    ASSUME NEW k \in Nat, NEW T \in SUBSET (1..k), T # {}
    PROVE  \E n \in T : \A m \in T : m <= n
  <1> DEFINE D == {d \in Nat : k - d \in T}
  <1>1. D \subseteq Nat /\ D # {}
    <2>1. PICK n \in T : TRUE
      OBVIOUS
    <2>2. k - n \in Nat /\ k - (k - n) = n
      BY <2>1
    <2> QED BY <2>1, <2>2
  <1>2. PICK d \in D : \A e \in D : ~(<<e, d>> \in OpToRel(<, Nat))
    BY <1>1, NatLessThanWellFounded, WFMin
  <1>3. \A e \in D : ~(e < d)
    BY <1>1, <1>2 DEF OpToRel
  <1>4. ASSUME NEW m \in T
        PROVE  m <= k - d
    <2>1. k - m \in Nat /\ k - (k - m) = m
      OBVIOUS
    <2>2. k - m \in D
      BY <2>1
    <2> QED BY <2>1, <2>2, <1>1, <1>3
  <1> QED BY <1>4

(* A job that is at work closes the row it works on. *)
LEMMA Closed ==
    ASSUME IInv, NEW j \in Job, AtWork(j), NEW row \in ExtractionRow,
           extraction' = [extraction EXCEPT ![job[j].at][job[j].attempt] = row]
    PROVE  /\ extraction' \in [Identity -> Rows]
           /\ job[j].at \in Identity
           /\ \A id \in Identity : DOMAIN extraction'[id] = DOMAIN extraction[id]
           /\ \A id \in Identity : Len(extraction'[id]) = Len(extraction[id])
           /\ \A id \in Identity : \A n \in DOMAIN extraction[id] :
                extraction'[id][n] = IF id = job[j].at /\ n = job[j].attempt THEN row
                                     ELSE extraction[id][n]
  <1> DEFINE at == job[j].at
             s == extraction[at]
             t == [s EXCEPT ![job[j].attempt] = row]
  <1>1. at \in Identity /\ job[j].attempt \in DOMAIN s
    BY DEF IInv, Sane, OnTask, Counted, AtWork, Busy
  <1>2. Len(s) \in Nat /\ DOMAIN s = 1..Len(s) /\ s \in [1..Len(s) -> ExtractionRow]
    BY <1>1, RowsOf DEF IInv
  <1>3. t \in [1..Len(s) -> ExtractionRow]
    BY <1>1, <1>2
  <1>4. t \in Rows /\ Len(t) = Len(s) /\ DOMAIN t = DOMAIN s
    BY <1>2, <1>3, OfLength DEF Rows
  <1>5. \A n \in DOMAIN s : t[n] = IF n = job[j].attempt THEN row ELSE s[n]
    BY <1>2
  <1>6. extraction \in [Identity -> Rows]
    BY DEF IInv, AnalysisTypeOK, Rows
  <1>7. extraction' = [extraction EXCEPT ![at] = t]
    OBVIOUS
  <1> HIDE DEF t
  <1>8. /\ extraction'[at] = t /\ extraction' \in [Identity -> Rows]
        /\ \A id \in Identity : id # at => extraction'[id] = extraction[id]
    BY <1>1, <1>4, <1>6, <1>7
  <1> QED BY <1>1, <1>4, <1>5, <1>8

(* A job that starts adds the row it will work on. *)
LEMMA Opened ==
    ASSUME IInv, NEW j \in Job, Start(j)
    PROVE  /\ extraction' \in [Identity -> Rows]
           /\ job[j].at \in Identity
           /\ job[j].attempt = Len(extraction[job[j].at]) + 1
           /\ Len(extraction'[job[j].at]) = job[j].attempt
           /\ \A id \in Identity : id # job[j].at => extraction'[id] = extraction[id]
           /\ DOMAIN extraction'[job[j].at] = DOMAIN extraction[job[j].at] \cup {job[j].attempt}
           /\ extraction'[job[j].at][job[j].attempt] = Running
           /\ job[j].attempt \notin DOMAIN extraction[job[j].at]
           /\ \A n \in DOMAIN extraction[job[j].at] :
                extraction'[job[j].at][n] = extraction[job[j].at][n]
  <1> DEFINE at == job[j].at
             s == extraction[at]
             k == job[j].attempt
             t == [n \in 1..k |-> IF n = k THEN Running ELSE s[n]]
  <1>1. at \in Identity /\ k \in 1..(Len(s) + 1) /\ k > Len(s)
    BY DEF IInv, Sane, OnTask, Counted, Start, At, Busy, NumberFree
  <1>2. Len(s) \in Nat /\ DOMAIN s = 1..Len(s) /\ s \in [1..Len(s) -> ExtractionRow]
    BY <1>1, RowsOf DEF IInv
  <1>3. k = Len(s) + 1 /\ k \in Nat /\ 1..k = DOMAIN s \cup {k} /\ k \notin DOMAIN s
    BY <1>1, <1>2
  <1>4. Running \in ExtractionRow
    BY DEF Running, ExtractionRow, Verdict
  <1>5. t \in [1..k -> ExtractionRow]
    BY <1>2, <1>3, <1>4
  <1>6. t \in Rows /\ Len(t) = k /\ DOMAIN t = 1..k
    BY <1>3, <1>5, OfLength DEF Rows
  <1>7. t[k] = Running /\ \A n \in DOMAIN s : t[n] = s[n]
    BY <1>2, <1>3
  <1>8. extraction \in [Identity -> Rows]
    BY DEF IInv, AnalysisTypeOK, Rows
  <1>9. extraction' = [extraction EXCEPT ![at] = t]
    BY DEF Start, Numbered
  <1> HIDE DEF t
  <1>10. /\ extraction'[at] = t /\ extraction' \in [Identity -> Rows]
         /\ \A id \in Identity : id # at => extraction'[id] = extraction[id]
    BY <1>1, <1>6, <1>8, <1>9
  <1> QED BY <1>1, <1>3, <1>6, <1>7, <1>10

(* The latest completed attempt is one of them. *)
LEMMA LatestIsCompleted ==
    ASSUME AnalysisTypeOK, NEW id \in Identity, Completed(id) # {}
    PROVE  LatestCompleted(id) \in Completed(id)
  <1>1. Len(extraction[id]) \in Nat /\ Completed(id) \in SUBSET (1..Len(extraction[id]))
    BY RowsOf DEF Completed
  <1>2. \E n \in Completed(id) : \A m \in Completed(id) : m <= n
    BY <1>1, Largest
  <1> QED BY <1>2 DEF LatestCompleted

-----------------------------------------------------------------------------
(* Evidence *)

LEMMA EvidenceSuffices ==
    ASSUME Evidence
    PROVE  StatusHasEvidence
  <1>1. ASSUME NEW v \in Video
        PROVE  /\ video[v] = "queued" => Found("relevance", v, LAMBDA r : r.verdict = "relevant")
               /\ video[v] = "ignored" =>
                    Found("relevance", v, LAMBDA r : r.verdict = "irrelevant")
    BY DEF Evidence, Judged, Found
  <1>2. ASSUME NEW v \in Video, video[v] \in {"review", "failed"}
        PROVE  \E t \in {"relevance", "signals"} :
                 Found(t, v, LAMBDA r : video[v] = VideoAfter(r.status)
                                        /\ r.status \in {"invalid_output", "failed"})
    <2>1. PICK status \in {"invalid_output", "failed"} :
            Missed(v, status) /\ video[v] = VideoAfter(status)
      BY <1>2 DEF Evidence, VideoAfter
    <2>2. PICK id \in Identity :
            /\ id[1] \in {"relevance", "signals"} /\ id[2] = v
            /\ \E n \in DOMAIN extraction[id] : extraction[id][n].status = status
      BY <2>1 DEF Missed
    <2> QED BY <2>1, <2>2 DEF Found
  <1>3. ASSUME NEW g \in signal
        PROVE  /\ extraction[g.id][g.attempt].status = "completed"
               /\ g.id[1] = "signals" =>
                    Found("relevance", g.id[2], LAMBDA r : r.verdict = "relevant")
    BY DEF Evidence, Judged, Found
  <1> QED BY <1>1, <1>2, <1>3 DEF StatusHasEvidence

(* What was found stays found. *)
LEMMA JudgedStays ==
    ASSUME RowsSane, ResultsKept, NEW v, NEW verdict, verdict # "none", Judged(v, verdict)
    PROVE  Judged(v, verdict)'
  <1>1. PICK id \in Identity :
          /\ id[1] = "relevance" /\ id[2] = v
          /\ \E n \in DOMAIN extraction[id] : extraction[id][n].verdict = verdict
    BY DEF Judged
  <1> PICK n \in DOMAIN extraction[id] : extraction[id][n].verdict = verdict
    BY <1>1
  <1>2. extraction[id][n].status # "running"
    BY DEF RowsSane
  <1>3. n \in DOMAIN extraction'[id] /\ extraction'[id][n] = extraction[id][n]
    BY <1>2 DEF ResultsKept
  <1> QED BY <1>1, <1>3 DEF Judged

LEMMA MissedStays ==
    ASSUME ResultsKept, NEW v, NEW status, status # "running", Missed(v, status)
    PROVE  Missed(v, status)'
  <1>1. PICK id \in Identity :
          /\ id[1] \in {"relevance", "signals"} /\ id[2] = v
          /\ \E n \in DOMAIN extraction[id] : extraction[id][n].status = status
    BY DEF Missed
  <1> PICK n \in DOMAIN extraction[id] : extraction[id][n].status = status
    BY <1>1
  <1>2. n \in DOMAIN extraction'[id] /\ extraction'[id][n] = extraction[id][n]
    BY <1>1 DEF ResultsKept
  <1> QED BY <1>1, <1>2 DEF Missed

(* Evidence, after a step that changes at most one video, with a result to  *)
(* show for it, and adds at most signals that have one.                     *)
LEMMA EvidenceStays ==
    ASSUME Evidence, RowsSane, ResultsKept,
           \A v \in Video : \/ video'[v] = video[v]
                            \/ video'[v] \in {"new", "processing"}
                            \/ video'[v] = "queued" /\ Judged(v, "relevant")'
                            \/ video'[v] = "ignored" /\ Judged(v, "irrelevant")'
                            \/ video'[v] = "review" /\ Missed(v, "invalid_output")'
                            \/ video'[v] = "failed" /\ Missed(v, "failed")',
           \A g \in signal' \ signal : 
                            /\ g.attempt \in DOMAIN extraction'[g.id]
                            /\ extraction'[g.id][g.attempt].status = "completed"
                            /\ g.id[1] = "signals" => Judged(g.id[2], "relevant")',
           signal \subseteq [id : Identity, attempt : Nat]
    PROVE  Evidence'
  <1>1. ASSUME NEW v \in Video
        PROVE  /\ video'[v] = "queued" => Judged(v, "relevant")'
               /\ video'[v] = "ignored" => Judged(v, "irrelevant")'
               /\ video'[v] = "review" => Missed(v, "invalid_output")'
               /\ video'[v] = "failed" => Missed(v, "failed")'
    <2>1. CASE video'[v] = video[v]
      BY <2>1, JudgedStays, MissedStays DEF Evidence
    <2>2. CASE video'[v] # video[v]
      BY <2>2
    <2> QED BY <2>1, <2>2
  <1>2. ASSUME NEW g \in signal
        PROVE  /\ g.attempt \in DOMAIN extraction'[g.id]
               /\ extraction'[g.id][g.attempt].status = "completed"
               /\ g.id[1] = "signals" => Judged(g.id[2], "relevant")'
    <2>1. g.id \in Identity
      OBVIOUS
    <2>2. /\ g.attempt \in DOMAIN extraction[g.id]
          /\ extraction[g.id][g.attempt].status = "completed"
          /\ g.id[1] = "signals" => Judged(g.id[2], "relevant")
      BY DEF Evidence
    <2> QED BY <2>1, <2>2, JudgedStays DEF ResultsKept
  <1> QED BY <1>1, <1>2 DEF Evidence

-----------------------------------------------------------------------------
(* Messages *)

LEMMA JobFields ==
    ASSUME IInv, NEW j \in Job
    PROVE  /\ job[j] \in JobRow /\ job[j].task \in Task /\ job[j].ids \subseteq Source
           /\ job[j].todo \subseteq Source /\ job[j].tries \in Nat /\ job[j].attempt \in Nat
           /\ job[j].phase \in Phase /\ job[j].verdict \in Verdict
           /\ job[j].at \in Identity \cup {<<>>}
  <1>1. job[j] \in JobRow
    BY DEF IInv, AnalysisTypeOK
  <1> QED BY <1>1 DEF JobRow

LEMMA TargetOf ==
    ASSUME IInv, NEW j \in Job, job[j].phase \in Busy
    PROVE  /\ job[j].at \in Identity /\ job[j].at[1] = job[j].task
           /\ Target(j) \in SourcesOf(job[j].task)
           /\ job[j].task # "pain" => Target(j) \in Video
  <1>1. job[j].at \in Identity /\ job[j].at[1] = job[j].task
    BY DEF IInv, Sane, OnTask
  <1> QED BY <1>1 DEF Identity, Target, SourcesOf

LEMMA LetGo ==
    ASSUME IInv, NEW j \in Job
    PROVE  /\ Released(j) \in JobRow /\ Raised(j) \in JobRow
           /\ Released(j).phase \notin Busy /\ Raised(j).phase \notin Busy
           /\ Released(j).task = job[j].task /\ Raised(j).task = job[j].task
           /\ Released(j).ids = job[j].ids /\ Raised(j).ids = job[j].ids
           /\ Released(j).todo = job[j].todo /\ Raised(j).todo = {}
  <1>1. /\ job[j] \in JobRow /\ job[j].tries \in Nat
    BY JobFields
  <1>2. {"choosing", "waiting", "exhausted"} \subseteq Phase /\ "none" \in Verdict
    BY DEF Phase, Verdict
  <1>3. Released(j) \in JobRow
    BY <1>1, <1>2 DEF JobRow, Released
  <1>4. Raised(j) \in JobRow
    <2> DEFINE phase == IF job[j].tries < MaxRetries THEN "waiting" ELSE "exhausted"
               tries == IF job[j].tries < MaxRetries THEN job[j].tries + 1 ELSE 0
    <2>1. phase \in Phase /\ tries \in Nat
      BY <1>1, <1>2, AnalysisBounds
    <2>2. Raised(j) = [job[j] EXCEPT !.phase = phase, !.tries = tries, !.todo = {},
                                     !.at = <<>>, !.attempt = 0, !.verdict = "none"]
      BY DEF Raised
    <2> HIDE DEF phase, tries
    <2>3. [job[j] EXCEPT !.phase = phase, !.tries = tries, !.todo = {},
                         !.at = <<>>, !.attempt = 0, !.verdict = "none"] \in JobRow
      BY <1>1, <1>2, <2>1 DEF JobRow
    <2> QED BY <2>2, <2>3
  <1>5. /\ Released(j).phase = "choosing" /\ Raised(j).phase \in {"waiting", "exhausted"}
        /\ Released(j).task = job[j].task /\ Raised(j).task = job[j].task
        /\ Released(j).ids = job[j].ids /\ Raised(j).ids = job[j].ids
        /\ Released(j).todo = job[j].todo /\ Raised(j).todo = {}
    BY <1>1 DEF JobRow, Released, Raised
  <1> QED BY <1>3, <1>4, <1>5 DEF Busy

(* Sources are not uncollected. *)
Grows == \A s \in Source : version[s] > 0 => version'[s] > 0

(* A message that has nothing in hand. *)
LEMMA IdleSane ==
    ASSUME IInv, Grows, NEW j \in Job,
           job'[j].phase \notin Busy, job'[j].task = job[j].task, job'[j].ids = job[j].ids,
           job'[j].todo \subseteq job[j].todo
    PROVE  Sane(j)'
  <1>1. job[j].todo \subseteq Source
    BY JobFields
  <1>2. OnTask(j)'
    BY <1>1 DEF OnTask, IInv, Sane, Grows
  <1>3. Counted(j)' /\ Justified(j)'
    BY DEF Counted, Justified, At, AtWork, Busy
  <1> QED BY <1>2, <1>3 DEF Sane

(* A message that is as it was, with the row it works on. *)
LEMMA OtherSane ==
    ASSUME IInv, ResultsKept, Grows, NEW k \in Job, job'[k] = job[k],
           \A id \in Identity : /\ Len(extraction'[id]) \in Nat
                                /\ Len(extraction'[id]) >= Len(extraction[id]),
           AtWork(k) =>
             /\ job[k].attempt \in DOMAIN extraction'[job[k].at]
             /\ extraction'[job[k].at][job[k].attempt] = extraction[job[k].at][job[k].attempt]
    PROVE  Sane(k)'
  <1>1. job[k].todo \subseteq Source /\ job[k].attempt \in Nat /\ job[k].verdict \in Verdict
    BY JobFields
  <1>2. OnTask(k)'
    BY <1>1 DEF OnTask, IInv, Sane, Grows
  <1>3. Counted(k)'
    <2>1. ASSUME At(k, "starting")
          PROVE  job[k].attempt \in 1..(Len(extraction'[job[k].at]) + 1)
      <3>1. job[k].at \in Identity /\ job[k].attempt \in 1..(Len(extraction[job[k].at]) + 1)
        BY <2>1 DEF IInv, Sane, OnTask, Counted, At, Busy
      <3>2. Len(extraction[job[k].at]) \in Nat
        BY <3>1, RowsOf DEF IInv
      <3> QED BY <3>1, <3>2
    <2>2. AtWork(k) => /\ job[k].attempt \in DOMAIN extraction'[job[k].at]
                       /\ extraction'[job[k].at][job[k].attempt].status = "running"
      BY DEF IInv, Sane, Counted
    <2> QED BY <2>1, <2>2 DEF Counted, At, AtWork
  <1>4. Justified(k)'
    <2>1. At(k, "reusing") => Judged(job[k].at[2], job[k].verdict)'
      BY JudgedStays DEF IInv, Sane, Justified
    <2>2. job[k].task = "signals" /\ job[k].phase \in Busy => Judged(job[k].at[2], "relevant")'
      BY JudgedStays DEF IInv, Sane, Justified
    <2> QED BY <2>1, <2>2 DEF Justified, At, IInv, Sane
  <1> QED BY <1>2, <1>3, <1>4 DEF Sane

-----------------------------------------------------------------------------
(* Steps that write nothing but a message *)

LEMMA JobAlone ==
    ASSUME IInv, NEW j \in Job, NEW w \in JobRow,
           job' = [job EXCEPT ![j] = w],
           UNCHANGED <<video, version, extraction, signal>>,
           faults' \in 0..MaxFaults, faults' = 0 => faults = 0,
           Sane(j)',
           AtWork(j)' => AtWork(j) /\ InHand(j)' = InHand(j) /\ w.task = job[j].task,
           faults' = 0 /\ HasOpen(j) =>
               HasOpen(j)' /\ InHand(j)' = InHand(j) /\ w.task = job[j].task
    PROVE  Kept
  <1>1. /\ job' \in [Job -> JobRow] /\ job'[j] = w
        /\ \A k \in Job \ {j} : job'[k] = job[k]
    BY DEF IInv, AnalysisTypeOK
  <1>2. AnalysisTypeOK' /\ Collected' /\ RowsSane' /\ ResultsKept
    BY <1>1 DEF IInv, AnalysisTypeOK, Collected, RowsSane, ResultsKept
  <1>3. Evidence'
    BY DEF IInv, Evidence, Judged, Missed
  <1>4. ASSUME NEW k \in Job
        PROVE  Sane(k)'
    <2>1. CASE k = j
      BY <2>1
    <2>2. CASE k # j
      <3>1. \A id \in Identity : /\ Len(extraction'[id]) \in Nat
                                 /\ Len(extraction'[id]) >= Len(extraction[id])
        BY RowsOf DEF IInv
      <3>2. AtWork(k) =>
             /\ job[k].attempt \in DOMAIN extraction'[job[k].at]
             /\ extraction'[job[k].at][job[k].attempt] = extraction[job[k].at][job[k].attempt]
        BY DEF IInv, Sane, Counted
      <3>3. Grows
        BY DEF Grows
      <3> QED BY <2>2, <1>1, <1>2, <3>1, <3>2, <3>3, OtherSane
    <2> QED BY <2>1, <2>2
  <1>5. \A k \in Job \ {j} : /\ (AtWork(k)' <=> AtWork(k)) /\ (HasOpen(k)' <=> HasOpen(k))
                             /\ InHand(k)' = InHand(k)
    BY <1>1 DEF AtWork, HasOpen, At, InHand
  <1>6. OwnExtraction'
    BY <1>5 DEF IInv, OwnExtraction
  <1>7. NothingLeftBehind'
    <2>1. SUFFICES ASSUME faults' = 0
                   PROVE  NothingLeftBehind'
      BY DEF NothingLeftBehind
    <2>2. faults = 0
      BY <2>1
    <2>3. \A k \in Job : HasOpen(k) =>
              HasOpen(k)' /\ InHand(k)' = InHand(k) /\ job'[k].task = job[k].task
      BY <2>1, <1>1, <1>5
    <2>4. \A k \in Job : HasOpen(k) => Target(k)' = Target(k)
      BY <2>3 DEF InHand, Target
    <2>5. ASSUME NEW id \in Identity, NEW n \in DOMAIN extraction[id],
                 extraction[id][n].status = "running"
          PROVE  \E k \in Job : HasOpen(k)' /\ InHand(k)' = [id |-> id, attempt |-> n]
      BY <2>2, <2>3, <2>5 DEF IInv, NothingLeftBehind
    <2>6. ASSUME NEW v \in Video, video[v] = "processing"
          PROVE  \E k \in Job : HasOpen(k)' /\ job'[k].task # "pain" /\ Target(k)' = v
      BY <2>2, <2>3, <2>4, <2>6 DEF IInv, NothingLeftBehind
    <2> QED BY <2>5, <2>6 DEF NothingLeftBehind
  <1> QED BY <1>2, <1>3, <1>4, <1>6, <1>7 DEF Kept, IInv

LEMMA BeginKept ==
    ASSUME IInv, NEW j \in Job, Begin(j)
    PROVE  Kept
  <1> DEFINE todo == Selected(job[j].task, job[j].ids)
             w == [job[j] EXCEPT !.phase = "choosing", !.todo = todo]
  <1>1. /\ job' = [job EXCEPT ![j] = w] /\ UNCHANGED <<video, version, extraction, signal, faults>>
        /\ job[j].phase = "waiting"
    BY DEF Begin, At
  <1>2. job[j].ids \subseteq SourcesOf(job[j].task) /\ job[j].task \in Task
    BY JobFields DEF IInv, Sane, OnTask
  <1>3. todo \subseteq SourcesOf(job[j].task) /\ \A s \in todo : version[s] > 0
    BY <1>2 DEF Selected, Task, SourcesOf, IInv, Collected
  <1> HIDE DEF todo
  <1>4. w \in JobRow /\ w.phase = "choosing" /\ w.todo = todo /\ w.task = job[j].task
        /\ w.ids = job[j].ids
    BY <1>2, <1>3, JobFields DEF JobRow, Phase, SourcesOf, Source
  <1> HIDE DEF w
  <1>5. job'[j] = w
    BY <1>1 DEF IInv, AnalysisTypeOK
  <1>6. Sane(j)'
    BY <1>1, <1>2, <1>3, <1>4, <1>5 DEF Sane, OnTask, Counted, Justified, At, AtWork, Busy
  <1>7. ~AtWork(j)' /\ ~HasOpen(j)
    BY <1>1, <1>4, <1>5 DEF HasOpen, AtWork, At
  <1>8. faults' \in 0..MaxFaults
    BY <1>1 DEF IInv, AnalysisTypeOK
  <1> QED BY <1>1, <1>4, <1>6, <1>7, <1>8, JobAlone

LEMMA LookKept ==
    ASSUME IInv, NEW j \in Job, NEW s \in Source, Look(j, s)
    PROVE  Kept
  <1> DEFINE id == <<job[j].task, s, version[s]>>
             rest == job[j].todo \ {s}
             found == extraction[id][LatestCompleted(id)].verdict
             skip == [job[j] EXCEPT !.todo = rest]
             fresh == [skip EXCEPT !.phase = "numbering", !.at = id]
             reuse == [skip EXCEPT !.phase = "reusing", !.at = id, !.verdict = found]
             w == IF Completed(id) = {} THEN fresh
                  ELSE IF skip.task = "relevance" THEN reuse ELSE skip
  <1>1. /\ job' = [job EXCEPT ![j] = w] /\ UNCHANGED <<video, version, extraction, signal, faults>>
        /\ job[j].phase = "choosing" /\ s \in job[j].todo /\ Eligible(j, s)
    BY DEF Look, At
  <1>2. /\ job[j].task \in Task /\ s \in SourcesOf(job[j].task)
        /\ version[s] \in 1..MaxVersion
    BY <1>1, JobFields, AnalysisBounds DEF IInv, Sane, OnTask, AnalysisTypeOK
  <1>3. id \in Identity /\ id[1] = job[j].task /\ id[2] = s
    BY <1>2 DEF Identity
  <1>4. rest \subseteq Source /\ rest \subseteq job[j].todo
    BY JobFields
  <1>5. Completed(id) # {} /\ job[j].task = "relevance" =>
            found \in Verdict /\ found # "none" /\ Judged(s, found)
    <2>1. SUFFICES ASSUME Completed(id) # {}, job[j].task = "relevance"
                   PROVE  found \in Verdict /\ found # "none" /\ Judged(s, found)
      OBVIOUS
    <2>2. LatestCompleted(id) \in Completed(id)
      BY <2>1, <1>3, LatestIsCompleted DEF IInv
    <2>3. /\ LatestCompleted(id) \in DOMAIN extraction[id]
          /\ extraction[id][LatestCompleted(id)].status = "completed"
      BY <2>2 DEF Completed
    <2>4. extraction[id][LatestCompleted(id)] \in ExtractionRow
      BY <2>3, <1>3, RowsOf DEF IInv
    <2>5. found \in Verdict
      BY <2>4 DEF ExtractionRow
    <2>6. found # "none"
      BY <2>1, <2>3, <1>3 DEF IInv, RowsSane
    <2>7. Judged(s, found)
      BY <2>1, <2>3, <1>3 DEF Judged
    <2> QED BY <2>5, <2>6, <2>7
  <1>6. job[j].task = "signals" => Judged(s, "relevant")
    BY <1>1, <1>2 DEF Eligible, SourcesOf, IInv, Evidence
  <1> HIDE DEF id, rest, found
  <1>7. /\ skip \in JobRow /\ skip.phase = "choosing" /\ skip.todo = rest
        /\ skip.task = job[j].task /\ skip.ids = job[j].ids
    BY <1>1, <1>4, JobFields DEF JobRow
  <1> HIDE DEF skip
  <1>8. /\ fresh \in JobRow /\ fresh.phase = "numbering" /\ fresh.at = id /\ fresh.todo = rest
        /\ fresh.task = job[j].task /\ fresh.ids = job[j].ids
    BY <1>3, <1>7 DEF JobRow, Phase
  <1>9. job[j].task = "relevance" /\ Completed(id) # {} =>
        /\ reuse \in JobRow /\ reuse.phase = "reusing" /\ reuse.at = id /\ reuse.todo = rest
        /\ reuse.task = job[j].task /\ reuse.ids = job[j].ids /\ reuse.verdict = found
    BY <1>3, <1>5, <1>7 DEF JobRow, Phase
  <1> HIDE DEF fresh, reuse
  <1>10. /\ w \in JobRow /\ w.phase \in {"numbering", "reusing", "choosing"}
         /\ w.todo = rest /\ w.task = job[j].task /\ w.ids = job[j].ids
         /\ w.phase \in Busy => w.at = id
         /\ w.phase = "reusing" => /\ w.task = "relevance" /\ w.verdict = found
                                   /\ Completed(id) # {}
    BY <1>7, <1>8, <1>9 DEF Busy
  <1> HIDE DEF w
  <1>11. job'[j] = w
    BY <1>1 DEF IInv, AnalysisTypeOK
  <1>12. OnTask(j)'
    BY <1>1, <1>3, <1>4, <1>10, <1>11 DEF IInv, Sane, OnTask
  <1>13. ~AtWork(j)' /\ ~HasOpen(j) /\ Counted(j)'
    BY <1>1, <1>10, <1>11 DEF HasOpen, AtWork, Counted, At
  <1>14. \A v, x : Judged(v, x)' <=> Judged(v, x)
    BY <1>1 DEF Judged
  <1>16. Justified(j)'
    <2>1. ASSUME w.phase = "reusing"
          PROVE  w.task = "relevance" /\ w.verdict # "none" /\ Judged(w.at[2], w.verdict)
      BY <2>1, <1>3, <1>5, <1>10 DEF Busy
    <2>2. ASSUME w.task = "signals", w.phase \in Busy
          PROVE  Judged(w.at[2], "relevant")
      BY <2>2, <1>3, <1>6, <1>10
    <2>3. /\ job'[j].phase = "reusing" =>
               /\ job'[j].task = "relevance" /\ job'[j].verdict # "none"
               /\ Judged(job'[j].at[2], job'[j].verdict)
          /\ job'[j].task = "signals" /\ job'[j].phase \in Busy =>
               Judged(job'[j].at[2], "relevant")
      BY <2>1, <2>2, <1>11
    <2> QED BY <2>3, <1>14 DEF Justified, At
  <1>17. Sane(j)'
    BY <1>12, <1>13, <1>16 DEF Sane
  <1>18. faults' \in 0..MaxFaults
    BY <1>1 DEF IInv, AnalysisTypeOK
  <1> QED BY <1>1, <1>10, <1>13, <1>17, <1>18, JobAlone

(* The message is put back or given up, with nothing in hand. *)
LEMMA RaisedKept ==
    ASSUME IInv, NEW j \in Job, job' = [job EXCEPT ![j] = Raised(j)],
           UNCHANGED <<video, version, extraction, signal>>,
           faults' \in 0..MaxFaults, faults' = 0 => faults = 0 /\ ~HasOpen(j)
    PROVE  Kept
  <1>1. /\ Raised(j) \in JobRow /\ Raised(j).phase \notin Busy
        /\ Raised(j).task = job[j].task /\ Raised(j).ids = job[j].ids /\ Raised(j).todo = {}
    BY LetGo
  <1>2. job'[j] = Raised(j)
    BY DEF IInv, AnalysisTypeOK
  <1>3. Grows
    BY DEF Grows
  <1>4. Sane(j)'
    BY <1>1, <1>2, <1>3, IdleSane
  <1>5. ~AtWork(j)'
    BY <1>1, <1>2 DEF AtWork, Busy
  <1> QED BY <1>1, <1>4, <1>5, JobAlone

LEMMA NotEligibleKept ==
    ASSUME IInv, NEW j \in Job, NEW s \in Source, NotEligible(j, s)
    PROVE  Kept
  BY RaisedKept DEF NotEligible, At, HasOpen, AtWork, IInv, AnalysisTypeOK

LEMMA StartRefusedKept ==
    ASSUME IInv, NEW j \in Job, StartRefused(j)
    PROVE  Kept
  BY RaisedKept DEF StartRefused, At, HasOpen, AtWork, IInv, AnalysisTypeOK

LEMMA CrashKept ==
    ASSUME IInv, NEW j \in Job, Crash(j)
    PROVE  Kept
  <1>1. faults' \in 0..MaxFaults /\ faults' # 0
    BY AnalysisBounds DEF Crash, IInv, AnalysisTypeOK
  <1> QED BY <1>1, RaisedKept DEF Crash

LEMMA EndBatchKept ==
    ASSUME IInv, NEW j \in Job, EndBatch(j)
    PROVE  Kept
  <1> DEFINE w == [job[j] EXCEPT !.phase = "done", !.tries = 0]
  <1>1. /\ job' = [job EXCEPT ![j] = w] /\ UNCHANGED <<video, version, extraction, signal, faults>>
        /\ job[j].phase = "choosing"
    BY DEF EndBatch, At
  <1>2. w \in JobRow /\ w.phase = "done" /\ w.task = job[j].task /\ w.ids = job[j].ids
        /\ w.todo = job[j].todo
    BY JobFields DEF JobRow, Phase
  <1> HIDE DEF w
  <1>3. job'[j] = w
    BY <1>1 DEF IInv, AnalysisTypeOK
  <1>4. Grows
    BY <1>1 DEF Grows
  <1>5. Sane(j)'
    BY <1>2, <1>3, <1>4, IdleSane DEF Busy
  <1>6. ~AtWork(j)' /\ ~HasOpen(j)
    BY <1>1, <1>2, <1>3 DEF HasOpen, AtWork, At
  <1>7. faults' \in 0..MaxFaults
    BY <1>1 DEF IInv, AnalysisTypeOK
  <1> QED BY <1>1, <1>2, <1>5, <1>6, <1>7, JobAlone

(* The row stays open, and the message says that it was its own. *)
LEMMA UnwritableKept ==
    ASSUME IInv, NEW j \in Job, Unwritable(j)
    PROVE  Kept
  <1> DEFINE w == [job[j] EXCEPT !.phase = "lost", !.todo = {}, !.tries = 0]
  <1>1. /\ job' = [job EXCEPT ![j] = w] /\ UNCHANGED <<video, version, extraction, signal, faults>>
        /\ job[j].phase = "asking"
    BY DEF Unwritable, At
  <1>2. w \in JobRow /\ w.phase = "lost" /\ w.task = job[j].task /\ w.ids = job[j].ids
        /\ w.todo = {} /\ w.at = job[j].at /\ w.attempt = job[j].attempt
    BY JobFields DEF JobRow, Phase
  <1> HIDE DEF w
  <1>3. job'[j] = w
    BY <1>1 DEF IInv, AnalysisTypeOK
  <1>4. Grows
    BY <1>1 DEF Grows
  <1>5. Sane(j)'
    BY <1>2, <1>3, <1>4, IdleSane DEF Busy
  <1>6. ~AtWork(j)' /\ HasOpen(j)' /\ InHand(j)' = InHand(j)
    BY <1>2, <1>3 DEF AtWork, HasOpen, At, InHand
  <1>7. faults' \in 0..MaxFaults
    BY <1>1 DEF IInv, AnalysisTypeOK
  <1> QED BY <1>1, <1>2, <1>5, <1>6, <1>7, JobAlone

LEMMA NumberKept ==
    ASSUME IInv, NEW j \in Job, Number(j)
    PROVE  Kept
  <1> DEFINE n == Len(extraction[job[j].at]) + 1
             w == [job[j] EXCEPT !.phase = "starting", !.attempt = n]
  <1>1. /\ job' = [job EXCEPT ![j] = w] /\ UNCHANGED <<video, version, extraction, signal, faults>>
        /\ job[j].phase = "numbering"
    BY DEF Number, At
  <1>2. job[j].at \in Identity
    BY <1>1, TargetOf DEF Busy
  <1>3. n \in Nat /\ n \in 1..(Len(extraction[job[j].at]) + 1)
    BY <1>2, RowsOf DEF IInv
  <1> HIDE DEF n
  <1>4. w \in JobRow /\ w.phase = "starting" /\ w.task = job[j].task /\ w.ids = job[j].ids
        /\ w.todo = job[j].todo /\ w.at = job[j].at /\ w.attempt = n
    BY <1>3, JobFields DEF JobRow, Phase
  <1> HIDE DEF w
  <1>5. job'[j] = w
    BY <1>1 DEF IInv, AnalysisTypeOK
  <1>6. OnTask(j)'
    BY <1>1, <1>4, <1>5 DEF IInv, Sane, OnTask, Busy
  <1>7. ~AtWork(j)' /\ ~HasOpen(j) /\ Counted(j)'
    BY <1>1, <1>3, <1>4, <1>5 DEF HasOpen, AtWork, Counted, At
  <1>8. \A v, x : Judged(v, x)' <=> Judged(v, x)
    BY <1>1 DEF Judged
  <1>9. Justified(j)'
    BY <1>1, <1>4, <1>5, <1>8 DEF Justified, At, Busy, IInv, Sane
  <1>10. Sane(j)'
    BY <1>6, <1>7, <1>9 DEF Sane
  <1>11. faults' \in 0..MaxFaults
    BY <1>1 DEF IInv, AnalysisTypeOK
  <1> QED BY <1>1, <1>4, <1>7, <1>10, <1>11, JobAlone

LEMMA CompleteFailsKept ==
    ASSUME IInv, NEW j \in Job, CompleteFails(j)
    PROVE  Kept
  <1> DEFINE w == [job[j] EXCEPT !.phase = "failing"]
  <1>1. /\ UNCHANGED <<video, version, extraction, signal>> /\ job[j].phase = "asking"
        /\ job' = [job EXCEPT ![j] = IF job[j].task = "relevance" THEN Raised(j) ELSE w]
    BY DEF CompleteFails, At
  <1>2. faults' \in 0..MaxFaults /\ faults' # 0
    BY AnalysisBounds DEF CompleteFails, IInv, AnalysisTypeOK
  <1>3. CASE job[j].task = "relevance"
    BY <1>1, <1>2, <1>3, RaisedKept
  <1>4. CASE job[j].task # "relevance"
    <2>1. w \in JobRow /\ w.phase = "failing" /\ w.task = job[j].task /\ w.ids = job[j].ids
          /\ w.todo = job[j].todo /\ w.at = job[j].at /\ w.attempt = job[j].attempt
      BY JobFields DEF JobRow, Phase
    <2> HIDE DEF w
    <2>2. job' = [job EXCEPT ![j] = w] /\ job'[j] = w
      BY <1>1, <1>4 DEF IInv, AnalysisTypeOK
    <2>3. OnTask(j)'
      BY <1>1, <2>1, <2>2 DEF IInv, Sane, OnTask, Busy
    <2>4. Counted(j)'
      BY <1>1, <2>1, <2>2 DEF AtWork, Counted, At, IInv, Sane
    <2>5. \A v, x : Judged(v, x)' <=> Judged(v, x)
      BY <1>1 DEF Judged
    <2>6. Justified(j)'
      BY <1>1, <2>1, <2>2, <2>5 DEF Justified, At, Busy, IInv, Sane
    <2>7. Sane(j)'
      BY <2>3, <2>4, <2>6 DEF Sane
    <2>8. AtWork(j) /\ AtWork(j)' /\ InHand(j)' = InHand(j)
      BY <1>1, <2>1, <2>2 DEF AtWork, InHand
    <2> QED BY <1>1, <1>2, <2>1, <2>2, <2>7, <2>8, JobAlone
  <1> QED BY <1>3, <1>4

-----------------------------------------------------------------------------
(* Steps that write a result *)

(* The video is as it was, or there is a result that says what it is.       *)
Backed(v) ==
    \/ video'[v] = video[v]
    \/ video'[v] = "queued" /\ Judged(v, "relevant")'
    \/ video'[v] = "ignored" /\ Judged(v, "irrelevant")'
    \/ video'[v] = "review" /\ Missed(v, "invalid_output")'
    \/ video'[v] = "failed" /\ Missed(v, "failed")'

(* Rows stay as they are, but for the one in hand, which is closed. *)
ClosesAtMost(j) ==
    /\ extraction' \in [Identity -> Rows]
    /\ \A id \in Identity : /\ DOMAIN extraction'[id] = DOMAIN extraction[id]
                            /\ Len(extraction'[id]) = Len(extraction[id])
    /\ \A id \in Identity : \A n \in DOMAIN extraction[id] :
         \/ extraction'[id][n] = extraction[id][n]
         \/ AtWork(j) /\ id = job[j].at /\ n = job[j].attempt
    /\ AtWork(j) => extraction'[job[j].at][job[j].attempt].status # "running"

LEMMA EndKept ==
    ASSUME IInv, NEW j \in Job, job[j].phase \in {"reusing", "asking", "failing"},
           job' = [job EXCEPT ![j] = Released(j)],
           UNCHANGED <<version, faults>>,
           ClosesAtMost(j), RowsSane',
           video' \in [Video -> VideoStatus],
           \A v \in Video : Backed(v),
           \A v \in Video : job[j].task = "pain" \/ v # Target(j) => video'[v] = video[v],
           job[j].task # "pain" => video'[Target(j)] # "processing",
           signal' \subseteq [id : Identity, attempt : Nat],
           \A g \in signal' \ signal :
                /\ g.attempt \in DOMAIN extraction'[g.id]
                /\ extraction'[g.id][g.attempt].status = "completed"
                /\ g.id[1] = "signals" => Judged(g.id[2], "relevant")'
    PROVE  Kept
  <1>1. /\ Released(j) \in JobRow /\ Released(j).phase \notin Busy
        /\ Released(j).task = job[j].task /\ Released(j).ids = job[j].ids
        /\ Released(j).todo = job[j].todo
    BY LetGo
  <1>2. /\ job' \in [Job -> JobRow] /\ job'[j] = Released(j)
        /\ \A k \in Job \ {j} : job'[k] = job[k]
    BY <1>1 DEF IInv, AnalysisTypeOK
  <1>3. AnalysisTypeOK' /\ Collected'
    <2>1. extraction' \in [Identity -> Seq(ExtractionRow)]
      BY DEF ClosesAtMost, Rows
    <2>2. version' \in [Source -> 0..MaxVersion] /\ faults' \in 0..MaxFaults
      BY DEF IInv, AnalysisTypeOK
    <2>3. Collected'
      BY DEF IInv, Collected
    <2> QED BY <1>2, <2>1, <2>2, <2>3 DEF AnalysisTypeOK
  <1>4. AtWork(j) => /\ job[j].at \in Identity /\ job[j].attempt \in DOMAIN extraction[job[j].at]
                     /\ extraction[job[j].at][job[j].attempt].status = "running"
    BY DEF IInv, Sane, OnTask, Counted, AtWork, Busy
  <1>5. ResultsKept
    BY <1>4 DEF ResultsKept, ClosesAtMost
  <1>6. Evidence'
    <2>1. \A v \in Video : \/ video'[v] = video[v]
                           \/ video'[v] \in {"new", "processing"}
                           \/ video'[v] = "queued" /\ Judged(v, "relevant")'
                           \/ video'[v] = "ignored" /\ Judged(v, "irrelevant")'
                           \/ video'[v] = "review" /\ Missed(v, "invalid_output")'
                           \/ video'[v] = "failed" /\ Missed(v, "failed")'
      BY DEF Backed
    <2>2. Evidence /\ RowsSane /\ signal \subseteq [id : Identity, attempt : Nat]
      BY DEF IInv, AnalysisTypeOK
    <2> QED BY <1>5, <2>1, <2>2, EvidenceStays
  <1>7. Grows
    BY DEF Grows
  <1>8. \A k \in Job \ {j} : /\ AtWork(k)' <=> AtWork(k)
                             /\ HasOpen(k)' <=> HasOpen(k)
                             /\ InHand(k)' = InHand(k) /\ Target(k)' = Target(k)
    BY <1>2 DEF AtWork, HasOpen, At, InHand, Target
  <1>9. ~AtWork(j)'
    BY <1>1, <1>2 DEF AtWork, Busy
  <1>10. ASSUME NEW k \in Job
         PROVE  Sane(k)'
    <2>1. CASE k = j
      BY <2>1, <1>1, <1>2, <1>7, IdleSane
    <2>2. CASE k # j
      <3>1. \A id \in Identity : /\ Len(extraction'[id]) \in Nat
                                 /\ Len(extraction'[id]) >= Len(extraction[id])
        BY RowsOf DEF IInv, ClosesAtMost
      <3>2. ASSUME AtWork(k)
            PROVE  /\ job[k].attempt \in DOMAIN extraction'[job[k].at]
                   /\ extraction'[job[k].at][job[k].attempt] = extraction[job[k].at][job[k].attempt]
        <4>1. job[k].at \in Identity /\ job[k].attempt \in DOMAIN extraction[job[k].at]
          BY <3>2 DEF IInv, Sane, OnTask, Counted, AtWork, Busy
        <4>2. AtWork(j) => ~(job[k].at = job[j].at /\ job[k].attempt = job[j].attempt)
          BY <2>2, <3>2 DEF IInv, OwnExtraction, InHand
        <4> QED BY <4>1, <4>2 DEF ClosesAtMost
      <3> QED BY <2>2, <1>2, <1>5, <1>7, <3>1, <3>2, OtherSane
    <2> QED BY <2>1, <2>2
  <1>11. OwnExtraction'
    BY <1>8, <1>9 DEF IInv, OwnExtraction
  <1>12. NothingLeftBehind'
    <2>1. SUFFICES ASSUME faults' = 0
                   PROVE  NothingLeftBehind'
      BY DEF NothingLeftBehind
    <2>2. faults = 0
      BY <2>1
    <2>3. ASSUME NEW id \in Identity, NEW n \in DOMAIN extraction'[id],
                 extraction'[id][n].status = "running"
          PROVE  \E k \in Job : HasOpen(k)' /\ InHand(k)' = [id |-> id, attempt |-> n]
      <3>1. n \in DOMAIN extraction[id] /\ extraction'[id][n] = extraction[id][n]
            /\ ~(AtWork(j) /\ id = job[j].at /\ n = job[j].attempt)
        BY <2>3 DEF ClosesAtMost
      <3>2. PICK k \in Job : HasOpen(k) /\ InHand(k) = [id |-> id, attempt |-> n]
        BY <2>2, <2>3, <3>1 DEF IInv, NothingLeftBehind
      <3>3. k # j
        BY <3>1, <3>2 DEF InHand, HasOpen, At, AtWork
      <3> QED BY <3>2, <3>3, <1>8
    <2>4. ASSUME NEW v \in Video, video'[v] = "processing"
          PROVE  \E k \in Job : HasOpen(k)' /\ job'[k].task # "pain" /\ Target(k)' = v
      <3>1. video[v] = "processing" /\ (job[j].task = "pain" \/ v # Target(j))
        BY <2>4
      <3>2. PICK k \in Job : HasOpen(k) /\ job[k].task # "pain" /\ Target(k) = v
        BY <2>2, <3>1 DEF IInv, NothingLeftBehind
      <3>3. k # j
        BY <3>1, <3>2
      <3> QED BY <3>2, <3>3, <1>2, <1>8
    <2> QED BY <2>3, <2>4 DEF NothingLeftBehind
  <1> QED BY <1>3, <1>5, <1>6, <1>10, <1>11, <1>12 DEF Kept, IInv

LEMMA ReuseKept ==
    ASSUME IInv, NEW j \in Job, Reuse(j)
    PROVE  Kept
  <1> PICK v : v = Target(j)
    OBVIOUS
  <1>1. /\ job[j].phase = "reusing"
        /\ video' = [video EXCEPT ![v] = StatusOf(job[j].verdict)]
        /\ job' = [job EXCEPT ![j] = Released(j)]
        /\ UNCHANGED <<version, extraction, signal, faults>>
    BY DEF Reuse, At
  <1>2. /\ job[j].task = "relevance" /\ job[j].verdict # "none"
        /\ Judged(v, job[j].verdict) /\ job[j].verdict \in Verdict
    BY <1>1, JobFields DEF IInv, Sane, Justified, At, Target
  <1>3. v \in Video
    BY <1>1, <1>2, TargetOf DEF Busy
  <1>4. \A u, x : Judged(u, x)' <=> Judged(u, x)
    BY <1>1 DEF Judged
  <1>5. video \in [Video -> VideoStatus]
    BY DEF IInv, AnalysisTypeOK
  <1>6. /\ video'[v] \in VideoStatus
        /\ \/ video'[v] = "queued" /\ Judged(v, "relevant")'
           \/ video'[v] = "ignored" /\ Judged(v, "irrelevant")'
    <2>1. CASE job[j].verdict = "relevant"
      BY <2>1, <1>1, <1>2, <1>3, <1>4, <1>5 DEF StatusOf, VideoStatus
    <2>2. CASE job[j].verdict = "irrelevant"
      BY <2>2, <1>1, <1>2, <1>3, <1>4, <1>5 DEF StatusOf, VideoStatus
    <2> QED BY <2>1, <2>2, <1>2 DEF Verdict
  <1>7. /\ video' \in [Video -> VideoStatus] /\ video'[v] # "processing"
        /\ \A u \in Video : u # v => video'[u] = video[u]
    BY <1>1, <1>3, <1>5, <1>6 DEF VideoStatus
  <1>8. \A u \in Video : Backed(u)
    BY <1>6, <1>7 DEF Backed
  <1>9. ClosesAtMost(j) /\ RowsSane'
    BY <1>1 DEF ClosesAtMost, IInv, AnalysisTypeOK, Rows, AtWork, RowsSane
  <1>10. signal' \subseteq [id : Identity, attempt : Nat]
    BY <1>1 DEF IInv, AnalysisTypeOK
  <1>11. /\ \A u \in Video : job[j].task = "pain" \/ u # Target(j) => video'[u] = video[u]
         /\ job[j].task # "pain" => video'[Target(j)] # "processing"
    BY <1>2, <1>7
  <1>12. signal' \ signal = {}
    BY <1>1
  <1> QED BY <1>1, <1>7, <1>8, <1>9, <1>10, <1>11, <1>12, EndKept

(* What Complete and Fail have in common: the row in hand is closed.        *)
LEMMA ClosedSane ==
    ASSUME IInv, NEW j \in Job, AtWork(j), NEW row \in ExtractionRow,
           row.status # "running",
           row.verdict # "none" => row.status = "completed",
           job[j].task = "relevance" /\ row.status = "completed" => row.verdict # "none",
           extraction' = [extraction EXCEPT ![job[j].at][job[j].attempt] = row]
    PROVE  /\ ClosesAtMost(j) /\ RowsSane'
           /\ job[j].at \in Identity /\ job[j].at[1] = job[j].task /\ job[j].at[2] = Target(j)
           /\ job[j].attempt \in DOMAIN extraction'[job[j].at]
           /\ extraction'[job[j].at][job[j].attempt] = row
  <1>1. /\ extraction' \in [Identity -> Rows]
        /\ \A id \in Identity : DOMAIN extraction'[id] = DOMAIN extraction[id]
        /\ \A id \in Identity : Len(extraction'[id]) = Len(extraction[id])
        /\ \A id \in Identity : \A n \in DOMAIN extraction[id] :
             extraction'[id][n] = IF id = job[j].at /\ n = job[j].attempt THEN row
                                  ELSE extraction[id][n]
    BY Closed
  <1>2. /\ job[j].at \in Identity /\ job[j].at[1] = job[j].task
        /\ job[j].attempt \in DOMAIN extraction[job[j].at]
    BY DEF IInv, Sane, OnTask, Counted, AtWork, Busy
  <1>3. ClosesAtMost(j)
    BY <1>1, <1>2 DEF ClosesAtMost
  <1>4. RowsSane'
    <2>1. ASSUME NEW id \in Identity, NEW n \in DOMAIN extraction'[id]
          PROVE  /\ extraction'[id][n].verdict # "none" => extraction'[id][n].status = "completed"
                 /\ id[1] = "relevance" /\ extraction'[id][n].status = "completed" =>
                      extraction'[id][n].verdict # "none"
      <3>1. n \in DOMAIN extraction[id]
        BY <1>1
      <3>2. CASE id = job[j].at /\ n = job[j].attempt
        BY <3>1, <3>2, <1>1, <1>2
      <3>3. CASE ~(id = job[j].at /\ n = job[j].attempt)
        <4>1. extraction'[id][n] = extraction[id][n]
          BY <3>1, <3>3, <1>1
        <4> QED BY <3>1, <4>1 DEF IInv, RowsSane
      <3> QED BY <3>2, <3>3
    <2> QED BY <2>1 DEF RowsSane
  <1> QED BY <1>1, <1>2, <1>3, <1>4 DEF Target

LEMMA CompleteKept ==
    ASSUME IInv, NEW j \in Job, NEW verdict \in VerdictsOf(job[j].task), NEW found \in BOOLEAN,
           Complete(j, verdict, found)
    PROVE  Kept
  <1> PICK v, at, n : v = Target(j) /\ at = job[j].at /\ n = job[j].attempt
    OBVIOUS
  <1> DEFINE row == [status |-> "completed", verdict |-> verdict]
             status == IF job[j].task = "signals" THEN "queued" ELSE StatusOf(verdict)
  <1>1. /\ job[j].phase = "asking" /\ AtWork(j)
        /\ job' = [job EXCEPT ![j] = Released(j)] /\ UNCHANGED <<version, faults>>
        /\ extraction' = [extraction EXCEPT ![job[j].at][job[j].attempt] = row]
        /\ signal' \ signal \subseteq {InHand(j)} /\ signal' \subseteq signal \cup {InHand(j)}
        /\ job[j].task = "relevance" => signal' = signal
    BY DEF Complete, At, AtWork, Ended
  <1>2. row \in ExtractionRow /\ row.status = "completed" /\ row.verdict = verdict
    BY DEF VerdictsOf, ExtractionRow, Verdict
  <1>3. verdict # "none" <=> job[j].task = "relevance"
    BY DEF VerdictsOf
  <1> HIDE DEF row
  <1>4. /\ ClosesAtMost(j) /\ RowsSane'
        /\ at \in Identity /\ at[1] = job[j].task /\ at[2] = v
        /\ n \in DOMAIN extraction'[at] /\ extraction'[at][n] = row
    BY <1>1, <1>2, <1>3, ClosedSane
  <1>5. job[j].task \in Task /\ job[j].attempt \in Nat
    BY JobFields
  <1>6. video \in [Video -> VideoStatus] /\ signal \subseteq [id : Identity, attempt : Nat]
    BY DEF IInv, AnalysisTypeOK
  <1>7. job[j].task # "pain" => v \in Video /\ video' = [video EXCEPT ![v] = status]
    BY <1>1, <1>5, TargetOf DEF Complete, Task, Busy
  <1>8. job[j].task = "pain" => video' = video
    BY DEF Complete
  <1>9. ResultsKept
    BY <1>1, <1>4 DEF ClosesAtMost, ResultsKept, IInv, Sane, Counted
  <1>10. job[j].task = "signals" => Judged(v, "relevant")'
    <2>1. job[j].task = "signals" => Judged(v, "relevant")
      BY <1>1 DEF IInv, Sane, Justified, Busy, Target
    <2> QED BY <2>1, <1>9, JudgedStays DEF IInv
  <1>11. job[j].task = "relevance" => Judged(v, verdict)'
    BY <1>2, <1>4 DEF Judged
  <1>12. job[j].task # "pain" =>
            \/ status = "queued" /\ Judged(v, "relevant")'
            \/ status = "ignored" /\ Judged(v, "irrelevant")'
    <2>1. CASE job[j].task = "signals"
      BY <2>1, <1>10
    <2>2. CASE job[j].task = "relevance"
      <3>1. verdict \in {"relevant", "irrelevant"}
        BY <2>2 DEF VerdictsOf
      <3>2. CASE verdict = "relevant"
        BY <2>2, <3>2, <1>11 DEF StatusOf
      <3>3. CASE verdict = "irrelevant"
        BY <2>2, <3>3, <1>11 DEF StatusOf
      <3> QED BY <3>1, <3>2, <3>3
    <2> QED BY <2>1, <2>2, <1>5 DEF Task
  <1> HIDE DEF status
  <1>13. /\ video' \in [Video -> VideoStatus]
         /\ job[j].task # "pain" => video'[v] = status
         /\ \A u \in Video : job[j].task = "pain" \/ u # v => video'[u] = video[u]
    BY <1>6, <1>7, <1>8, <1>12 DEF VideoStatus
  <1>14. \A u \in Video : Backed(u)
    BY <1>12, <1>13 DEF Backed
  <1>15. signal' \subseteq [id : Identity, attempt : Nat]
    BY <1>1, <1>4, <1>5, <1>6 DEF InHand
  <1>16. ASSUME NEW g \in signal' \ signal
         PROVE  /\ g.attempt \in DOMAIN extraction'[g.id]
                /\ extraction'[g.id][g.attempt].status = "completed"
                /\ g.id[1] = "signals" => Judged(g.id[2], "relevant")'
    <2>1. g.id = at /\ g.attempt = n
      BY <1>1 DEF InHand
    <2> QED BY <2>1, <1>2, <1>4, <1>10
  <1>17. /\ \A u \in Video : job[j].task = "pain" \/ u # Target(j) => video'[u] = video[u]
         /\ job[j].task # "pain" => video'[Target(j)] # "processing"
    BY <1>12, <1>13
  <1> QED BY <1>1, <1>4, <1>13, <1>14, <1>15, <1>16, <1>17, EndKept

LEMMA FailKept ==
    ASSUME IInv, NEW j \in Job, NEW status \in {"invalid_output", "failed"}, Fail(j, status)
    PROVE  Kept
  <1> PICK v, at, n : v = Target(j) /\ at = job[j].at /\ n = job[j].attempt
    OBVIOUS
  <1> DEFINE row == [status |-> status, verdict |-> "none"]
  <1>1. /\ job[j].phase \in {"asking", "failing"} /\ AtWork(j)
        /\ job' = [job EXCEPT ![j] = Released(j)] /\ UNCHANGED <<version, faults, signal>>
        /\ extraction' = [extraction EXCEPT ![job[j].at][job[j].attempt] = row]
    BY DEF Fail, At, AtWork, Ended
  <1>2. row \in ExtractionRow /\ row.status = status /\ row.verdict = "none"
    BY DEF ExtractionRow, Verdict
  <1> HIDE DEF row
  <1>3. /\ ClosesAtMost(j) /\ RowsSane'
        /\ at \in Identity /\ at[1] = job[j].task /\ at[2] = v
        /\ n \in DOMAIN extraction'[at] /\ extraction'[at][n] = row
    BY <1>1, <1>2, ClosedSane
  <1>4. job[j].task \in Task
    BY JobFields
  <1>5. video \in [Video -> VideoStatus] /\ signal \subseteq [id : Identity, attempt : Nat]
    BY DEF IInv, AnalysisTypeOK
  <1>6. job[j].task # "pain" => v \in Video /\ video' = [video EXCEPT ![v] = VideoAfter(status)]
    BY <1>1, TargetOf DEF Fail, Busy
  <1>7. job[j].task = "pain" => video' = video
    BY DEF Fail
  <1>8. job[j].task # "pain" => Missed(v, status)'
    BY <1>2, <1>3, <1>4 DEF Missed, Task
  <1>9. \/ VideoAfter(status) = "review" /\ status = "invalid_output"
        \/ VideoAfter(status) = "failed" /\ status = "failed"
    BY DEF VideoAfter
  <1>10. /\ video' \in [Video -> VideoStatus]
         /\ job[j].task # "pain" => video'[v] = VideoAfter(status)
         /\ \A u \in Video : job[j].task = "pain" \/ u # v => video'[u] = video[u]
    BY <1>5, <1>6, <1>7, <1>9 DEF VideoStatus
  <1>11. \A u \in Video : Backed(u)
    BY <1>8, <1>9, <1>10 DEF Backed
  <1>12. /\ \A u \in Video : job[j].task = "pain" \/ u # Target(j) => video'[u] = video[u]
         /\ job[j].task # "pain" => video'[Target(j)] # "processing"
    BY <1>9, <1>10
  <1>13. signal' \subseteq [id : Identity, attempt : Nat] /\ signal' \ signal = {}
    BY <1>1, <1>5
  <1> QED BY <1>1, <1>3, <1>10, <1>11, <1>12, <1>13, EndKept

LEMMA StartKept ==
    ASSUME IInv, NEW j \in Job, Start(j)
    PROVE  Kept
  <1> PICK v, at, a : v = Target(j) /\ at = job[j].at /\ a = job[j].attempt
    OBVIOUS
  <1> DEFINE w == [job[j] EXCEPT !.phase = "asking"]
  <1>1. /\ job[j].phase = "starting" /\ job' = [job EXCEPT ![j] = w]
        /\ UNCHANGED <<version, signal, faults>>
        /\ video' = IF job[j].task = "pain" THEN video ELSE [video EXCEPT ![v] = "processing"]
    BY DEF Start, At
  <1>2. /\ extraction' \in [Identity -> Rows] /\ at \in Identity
        /\ a = Len(extraction[at]) + 1 /\ Len(extraction'[at]) = a
        /\ \A id \in Identity : id # at => extraction'[id] = extraction[id]
        /\ DOMAIN extraction'[at] = DOMAIN extraction[at] \cup {a}
        /\ extraction'[at][a] = Running
        /\ a \notin DOMAIN extraction[at]
        /\ \A n \in DOMAIN extraction[at] : extraction'[at][n] = extraction[at][n]
    BY Opened
  <1>3. Running.status = "running" /\ Running.verdict = "none"
    BY DEF Running
  <1>4. /\ w \in JobRow /\ w.phase = "asking" /\ w.task = job[j].task /\ w.ids = job[j].ids
        /\ w.todo = job[j].todo /\ w.at = at /\ w.attempt = a
    BY JobFields DEF JobRow, Phase
  <1> HIDE DEF w
  <1>5. /\ job' \in [Job -> JobRow] /\ job'[j] = w
        /\ \A k \in Job \ {j} : job'[k] = job[k]
    BY <1>1, <1>4 DEF IInv, AnalysisTypeOK
  <1>6. job[j].task # "pain" => v \in Video
    BY <1>1, TargetOf DEF Busy
  <1>7. /\ video' \in [Video -> VideoStatus]
        /\ \A u \in Video : video'[u] = video[u]
                            \/ (video'[u] = "processing" /\ u = v /\ job[j].task # "pain")
    BY <1>1, <1>6 DEF IInv, AnalysisTypeOK, VideoStatus
  <1>8. AnalysisTypeOK' /\ Collected'
    <2>1. extraction' \in [Identity -> Seq(ExtractionRow)]
      BY <1>2 DEF Rows
    <2>2. /\ version' \in [Source -> 0..MaxVersion] /\ faults' \in 0..MaxFaults
          /\ signal' \subseteq [id : Identity, attempt : Nat]
      BY <1>1 DEF IInv, AnalysisTypeOK
    <2>3. Collected'
      BY <1>1 DEF IInv, Collected
    <2> QED BY <1>5, <1>7, <2>1, <2>2, <2>3 DEF AnalysisTypeOK
  <1>9. ResultsKept
    BY <1>2 DEF ResultsKept
  <1>10. RowsSane'
    <2>1. ASSUME NEW id \in Identity, NEW n \in DOMAIN extraction'[id]
          PROVE  \/ n \in DOMAIN extraction[id] /\ extraction'[id][n] = extraction[id][n]
                 \/ extraction'[id][n] = Running
      BY <1>2
    <2> QED BY <2>1, <1>3 DEF RowsSane, IInv
  <1>11. Evidence'
    <2>1. \A u \in Video : \/ video'[u] = video[u]
                           \/ video'[u] \in {"new", "processing"}
      BY <1>7
    <2>2. Evidence /\ RowsSane /\ signal \subseteq [id : Identity, attempt : Nat]
      BY DEF IInv, AnalysisTypeOK
    <2>3. signal' \ signal = {}
      BY <1>1
    <2> QED BY <1>9, <2>1, <2>2, <2>3, EvidenceStays
  <1>12. Grows
    BY <1>1 DEF Grows
  <1>13. Sane(j)'
    <2>1. OnTask(j)'
      BY <1>1, <1>4, <1>5, <1>12 DEF IInv, Sane, OnTask, Busy
    <2>2. Counted(j)'
      BY <1>2, <1>3, <1>4, <1>5 DEF Counted, At, AtWork
    <2>3. job[j].task = "signals" => Judged(at[2], "relevant")
      BY <1>1 DEF IInv, Sane, Justified, Busy
    <2>4. job[j].task = "signals" => Judged(at[2], "relevant")'
      BY <2>3, <1>9, JudgedStays DEF IInv
    <2>5. Justified(j)'
      BY <2>4, <1>4, <1>5 DEF Justified, At
    <2> QED BY <2>1, <2>2, <2>5 DEF Sane
  <1>14. ASSUME NEW k \in Job, k # j
         PROVE  /\ Sane(k)' /\ (AtWork(k)' <=> AtWork(k)) /\ (HasOpen(k)' <=> HasOpen(k))
                /\ InHand(k)' = InHand(k)
                /\ Target(k)' = Target(k)
                /\ AtWork(k) => ~(job[k].at = at /\ job[k].attempt = a)
    <2>1. job'[k] = job[k]
      BY <1>5, <1>14
    <2>2. AtWork(k) => job[k].at \in Identity /\ job[k].attempt \in DOMAIN extraction[job[k].at]
      BY DEF IInv, Sane, OnTask, Counted, AtWork, Busy
    <2>3. \A id \in Identity : /\ Len(extraction'[id]) \in Nat
                               /\ Len(extraction'[id]) >= Len(extraction[id])
      <3>1. ASSUME NEW id \in Identity
            PROVE  /\ Len(extraction'[id]) \in Nat
                   /\ Len(extraction'[id]) >= Len(extraction[id])
        <4>1. Len(extraction[id]) \in Nat
          BY RowsOf DEF IInv
        <4>2. CASE id = at
          BY <4>1, <4>2, <1>2
        <4>3. CASE id # at
          BY <4>1, <4>3, <1>2
        <4> QED BY <4>2, <4>3
      <3> QED BY <3>1
    <2>4. AtWork(k) =>
             /\ job[k].attempt \in DOMAIN extraction'[job[k].at]
             /\ extraction'[job[k].at][job[k].attempt] = extraction[job[k].at][job[k].attempt]
      BY <2>2, <1>2
    <2>5. Sane(k)'
      BY <2>1, <2>3, <2>4, <1>9, <1>12, OtherSane
    <2> QED BY <2>1, <2>2, <2>5, <1>2 DEF AtWork, HasOpen, At, InHand, Target
  <1>15. AtWork(j)' /\ HasOpen(j)' /\ InHand(j)' = [id |-> at, attempt |-> a] /\ Target(j)' = v
    BY <1>4, <1>5 DEF AtWork, HasOpen, InHand, Target
  <1>16. \A k \in Job \ {j} : AtWork(k) => InHand(k) # [id |-> at, attempt |-> a]
    BY <1>14 DEF InHand
  <1>17. OwnExtraction'
    BY <1>14, <1>15, <1>16 DEF IInv, OwnExtraction
  <1>18. NothingLeftBehind'
    <2>1. SUFFICES ASSUME faults' = 0
                   PROVE  NothingLeftBehind'
      BY DEF NothingLeftBehind
    <2>2. faults = 0 /\ ~HasOpen(j)
      BY <2>1, <1>1 DEF HasOpen, AtWork, At
    <2>3. ASSUME NEW id \in Identity, NEW n \in DOMAIN extraction'[id],
                 extraction'[id][n].status = "running"
          PROVE  \E k \in Job : HasOpen(k)' /\ InHand(k)' = [id |-> id, attempt |-> n]
      <3>1. CASE id = at /\ n = a
        BY <3>1, <1>15
      <3>2. CASE ~(id = at /\ n = a)
        <4>1. n \in DOMAIN extraction[id] /\ extraction'[id][n] = extraction[id][n]
          BY <3>2, <1>2
        <4>2. PICK k \in Job : HasOpen(k) /\ InHand(k) = [id |-> id, attempt |-> n]
          BY <2>2, <2>3, <4>1 DEF IInv, NothingLeftBehind
        <4> QED BY <2>2, <4>2, <1>14
      <3> QED BY <3>1, <3>2
    <2>4. ASSUME NEW u \in Video, video'[u] = "processing"
          PROVE  \E k \in Job : HasOpen(k)' /\ job'[k].task # "pain" /\ Target(k)' = u
      <3>1. CASE u = v /\ job[j].task # "pain"
        BY <3>1, <1>4, <1>5, <1>15
      <3>2. CASE ~(u = v /\ job[j].task # "pain")
        <4>1. video[u] = "processing"
          BY <3>2, <2>4, <1>7
        <4>2. PICK k \in Job : HasOpen(k) /\ job[k].task # "pain" /\ Target(k) = u
          BY <2>2, <4>1 DEF IInv, NothingLeftBehind
        <4> QED BY <2>2, <4>2, <1>5, <1>14
      <3> QED BY <3>1, <3>2
    <2> QED BY <2>3, <2>4 DEF NothingLeftBehind
  <1> QED BY <1>8, <1>9, <1>10, <1>11, <1>13, <1>14, <1>17, <1>18 DEF Kept, IInv

-----------------------------------------------------------------------------
(* The sources and the collection *)

(* New contents disturb nothing that was recorded. *)
LEMMA ContentsKept ==
    ASSUME IInv, UNCHANGED <<video, extraction, signal, job>>,
           version' \in [Source -> 0..MaxVersion], Grows,
           faults' \in 0..MaxFaults, faults' = 0 => faults = 0
    PROVE  Kept
  <1>1. AnalysisTypeOK' /\ RowsSane' /\ ResultsKept
    BY DEF IInv, AnalysisTypeOK, RowsSane, ResultsKept
  <1>2. Collected'
    BY DEF IInv, Collected, Grows, Source
  <1>3. Evidence'
    BY DEF IInv, Evidence, Judged, Missed
  <1>4. ASSUME NEW k \in Job
        PROVE  Sane(k)'
    <2>1. \A id \in Identity : /\ Len(extraction'[id]) \in Nat
                               /\ Len(extraction'[id]) >= Len(extraction[id])
      BY RowsOf DEF IInv
    <2>2. AtWork(k) =>
           /\ job[k].attempt \in DOMAIN extraction'[job[k].at]
           /\ extraction'[job[k].at][job[k].attempt] = extraction[job[k].at][job[k].attempt]
      BY DEF IInv, Sane, Counted
    <2> QED BY <2>1, <2>2, <1>1, OtherSane
  <1>5. \A k \in Job : /\ (AtWork(k)' <=> AtWork(k)) /\ (HasOpen(k)' <=> HasOpen(k))
                       /\ InHand(k)' = InHand(k) /\ Target(k)' = Target(k)
    BY DEF AtWork, HasOpen, At, InHand, Target
  <1>6. OwnExtraction'
    BY <1>5 DEF IInv, OwnExtraction
  <1>7. NothingLeftBehind'
    BY <1>5 DEF IInv, NothingLeftBehind
  <1> QED BY <1>1, <1>2, <1>3, <1>4, <1>6, <1>7 DEF Kept, IInv

LEMMA RefreshKept ==
    ASSUME IInv, NEW s \in Source, Refresh(s)
    PROVE  Kept
  <1>1. /\ version[s] \in 1..(MaxVersion - 1) /\ version' = [version EXCEPT ![s] = @ + 1]
        /\ UNCHANGED <<video, extraction, signal, job, faults>>
    BY DEF Refresh
  <1>2. version \in [Source -> 0..MaxVersion] /\ faults \in 0..MaxFaults
    BY DEF IInv, AnalysisTypeOK
  <1>3. version' \in [Source -> 0..MaxVersion] /\ Grows
    BY <1>1, <1>2, AnalysisBounds DEF Grows
  <1> QED BY <1>1, <1>2, <1>3, ContentsKept

LEMMA PersistCommentsKept ==
    ASSUME IInv, NEW changed \in SUBSET Comment, PersistComments(changed)
    PROVE  Kept
  <1>1. /\ \A c \in changed : version[c] < MaxVersion
        /\ version' = [s \in Source |-> IF s \in changed THEN version[s] + 1 ELSE version[s]]
        /\ UNCHANGED <<video, extraction, signal, job, faults>>
    BY DEF PersistComments
  <1>2. version \in [Source -> 0..MaxVersion] /\ faults \in 0..MaxFaults
    BY DEF IInv, AnalysisTypeOK
  <1>3. version' \in [Source -> 0..MaxVersion] /\ Grows
    BY <1>1, <1>2, AnalysisBounds DEF Grows
  <1> QED BY <1>1, <1>2, <1>3, ContentsKept

LEMMA StillKept ==
    ASSUME IInv, UNCHANGED vars
    PROVE  Kept
  <1>1. UNCHANGED <<video, version, extraction, signal, job, faults>>
    BY DEF vars
  <1>2. /\ version' \in [Source -> 0..MaxVersion] /\ faults' \in 0..MaxFaults /\ Grows
    BY <1>1 DEF IInv, AnalysisTypeOK, Grows
  <1> QED BY <1>1, <1>2, ContentsKept

LEMMA GatherKept ==
    ASSUME IInv, GatherStep \/ GatherDies
    PROVE  Kept
  <1>1. CASE GatherDies
    <2>1. UNCHANGED <<video, version, extraction, signal, job>> /\ faults' = faults + 1
          /\ faults < MaxFaults
      BY <1>1 DEF GatherDies
    <2>2. /\ version' \in [Source -> 0..MaxVersion] /\ faults' \in 0..MaxFaults /\ Grows
          /\ faults' # 0
      BY <2>1, AnalysisBounds DEF IInv, AnalysisTypeOK, Grows
    <2> QED BY <2>1, <2>2, ContentsKept
  <1>2. CASE \E changed \in SUBSET Comment : PersistComments(changed)
    BY <1>2, PersistCommentsKept
  <1>3. CASE \/ \E videos \in SUBSET Video : StartGather(videos)
             \/ \E v \in Video : NextVideo(v)
             \/ \E page \in SUBSET Comment, more \in BOOLEAN : ReceiveComments(page, more)
             \/ \E outcome \in Outcome : CommentsRefused(outcome)
             \/ QuotaStops
             \/ FinishGather
    <2>1. UNCHANGED vars
      BY <1>3 DEF StartGather, NextVideo, ReceiveComments, CommentsRefused, QuotaStops,
                  FinishGather
    <2> QED BY <2>1, StillKept
  <1> QED BY <1>1, <1>2, <1>3 DEF GatherStep

-----------------------------------------------------------------------------
(* The theorems *)

LEMMA NextKept ==
    ASSUME IInv, [Next]_allVars
    PROVE  Kept
  <1>1. ASSUME NEW j \in Job, Handler(j)
        PROVE  Kept
    <2>1. ASSUME NEW s \in Source, Look(j, s) \/ NotEligible(j, s)
          PROVE  Kept
      BY <2>1, LookKept, NotEligibleKept
    <2>2. CASE Begin(j)
      BY <2>2, BeginKept
    <2>3. CASE Reuse(j)
      BY <2>3, ReuseKept
    <2>4. CASE EndBatch(j)
      BY <2>4, EndBatchKept
    <2>5. CASE Number(j)
      BY <2>5, NumberKept
    <2>6. CASE Start(j)
      BY <2>6, StartKept
    <2>7. CASE StartRefused(j)
      BY <2>7, StartRefusedKept
    <2>8. ASSUME NEW verdict \in VerdictsOf(job[j].task), NEW found \in BOOLEAN,
                 Complete(j, verdict, found)
          PROVE  Kept
      BY <2>8, CompleteKept
    <2>9. ASSUME NEW status \in {"invalid_output", "failed"}, Fail(j, status)
          PROVE  Kept
      BY <2>9, FailKept
    <2>10. CASE Unwritable(j)
      BY <2>10, UnwritableKept
    <2> QED BY <1>1, <2>10, <2>1, <2>2, <2>3, <2>4, <2>5, <2>6, <2>7, <2>8, <2>9 DEF Handler
  <1>2. CASE AnalysisNext
    BY <1>1, <1>2, CompleteFailsKept, CrashKept, RefreshKept DEF AnalysisNext
  <1>3. CASE GatherStep \/ GatherDies
    BY <1>3, GatherKept
  <1>4. CASE UNCHANGED allVars
    BY <1>4, StillKept DEF allVars
  <1> QED BY <1>2, <1>3, <1>4 DEF Next

LEMMA InitHolds ==
    ASSUME GatherInit
    PROVE  IInv
  <1>1. /\ video = [v \in Video |-> "new"]
        /\ version = [s \in Source |-> IF s \in Video THEN 1 ELSE 0]
        /\ extraction = [id \in Identity |-> <<>>] /\ signal = {} /\ faults = 0
    BY DEF GatherInit, Init
  <1>2. PICK task \in [Job -> Task], ids \in [Job -> SUBSET Source] :
          /\ \A j \in Job : ids[j] \subseteq SourcesOf(task[j])
          /\ job = [j \in Job |-> NewJob(task[j], ids[j])]
    BY DEF GatherInit, Init
  <1>3. ASSUME NEW j \in Job
        PROVE  /\ job[j] \in JobRow /\ job[j].phase = "waiting"
               /\ job[j].todo = {} /\ job[j].ids \subseteq SourcesOf(job[j].task)
    BY <1>2 DEF NewJob, JobRow, Phase, Verdict
  <1>4. <<>> \in Seq(ExtractionRow) /\ DOMAIN <<>> = {}
    BY EmptySeq, LenProperties
  <1>5. AnalysisTypeOK
    <2>1. job \in [Job -> JobRow]
      BY <1>2, <1>3
    <2>2. video \in [Video -> VideoStatus] /\ version \in [Source -> 0..MaxVersion]
          /\ faults \in 0..MaxFaults
      BY <1>1, AnalysisBounds DEF VideoStatus, Source
    <2>3. extraction \in [Identity -> Seq(ExtractionRow)]
          /\ signal \subseteq [id : Identity, attempt : Nat]
      BY <1>1, <1>4
    <2> QED BY <2>1, <2>2, <2>3 DEF AnalysisTypeOK
  <1>6. \A id \in Identity : DOMAIN extraction[id] = {}
    BY <1>1, <1>4
  <1>7. Collected /\ RowsSane
    BY <1>1, <1>6 DEF Collected, RowsSane, Source
  <1>8. \A j \in Job : Sane(j) /\ ~AtWork(j)
    BY <1>3 DEF Sane, OnTask, Counted, Justified, At, AtWork, Busy
  <1>9. OwnExtraction /\ NothingLeftBehind /\ Evidence
    BY <1>1, <1>6, <1>8 DEF OwnExtraction, NothingLeftBehind, Evidence
  <1> QED BY <1>5, <1>7, <1>8, <1>9 DEF IInv

(* A collection: its row has its type, its end says what happened, and it    *)
(* gives a video up for want of quota only when it is over.                 *)
GatherInv ==
    /\ gather \in GatherRow /\ gather.quota <= QuotaBudget
    /\ gather.status # "running" => gather.phase = "over"
    /\ gather.phase \in {"asking", "persisting"} => gather.video # {}
    /\ gather.phase = "over" /\ gather.status = "running" =>
         \E v \in Video : gather.outcome[v] = "quota_budget_reached"
    /\ GatherHonest

LEMMA Counts ==
    ASSUME gather \in GatherRow, NEW outcome
    PROVE  /\ Count(outcome) \in Nat
           /\ Count(outcome) = 0 <=> \A v \in Video : gather.outcome[v] # outcome
  <1> DEFINE S == {v \in Video : gather.outcome[v] = outcome}
  <1>1. IsFiniteSet(S)
    BY CommentAssumption, FS_Subset
  <1>2. Cardinality(S) \in Nat /\ (Cardinality(S) = 0 <=> S = {})
    BY <1>1, FS_CardinalityType, FS_EmptySet
  <1> QED BY <1>2 DEF Count

LEMMA EndVideoRow ==
    ASSUME NEW g \in GatherRow, NEW outcome \in Outcome
    PROVE  LET e == EndVideo(g, outcome) IN
           /\ e \in GatherRow /\ e.phase = "choosing" /\ e.video = {}
           /\ e.left = g.left /\ e.quota = g.quota /\ e.total = g.total /\ e.status = g.status
           /\ \A v \in Video : e.outcome[v] = IF v \in g.video THEN outcome ELSE g.outcome[v]
  <1> DEFINE f == [v \in Video |-> IF v \in g.video THEN outcome ELSE g.outcome[v]]
             e == [g EXCEPT !.phase = "choosing", !.video = {}, !.page = {}, !.more = FALSE,
                            !.asked = 0, !.pages = 0, !.outcome = f]
  <1>1. f \in [Video -> Outcome \cup {"none"}]
    BY DEF GatherRow
  <1>2. \A v \in Video : f[v] = IF v \in g.video THEN outcome ELSE g.outcome[v]
    OBVIOUS
  <1>3. EndVideo(g, outcome) = e
    BY DEF EndVideo
  <1> HIDE DEF f
  <1>4. /\ e \in GatherRow /\ e.phase = "choosing" /\ e.video = {} /\ e.outcome = f
        /\ e.left = g.left /\ e.quota = g.quota /\ e.total = g.total /\ e.status = g.status
    BY <1>1 DEF GatherRow
  <1> HIDE DEF e
  <1> QED BY <1>2, <1>3, <1>4

(* A collection that has not done anything. *)
LEMMA FreshGather ==
    ASSUME gather' \in {NewGather, [NewGather EXCEPT !.phase = "idle"]}
                        \cup {[NewGather EXCEPT !.left = videos] : videos \in SUBSET Video}
    PROVE  GatherInv'
  <1>1. NewGather.outcome \in [Video -> Outcome \cup {"none"}]
    BY DEF NewGather
  <1>2. /\ NewGather \in GatherRow /\ NewGather.quota = 0 /\ NewGather.status = "running"
        /\ NewGather.phase = "choosing"
    BY <1>1 DEF NewGather, GatherRow
  <1>3. /\ gather' \in GatherRow /\ gather'.quota = 0 /\ gather'.status = "running"
        /\ gather'.phase \in {"idle", "choosing"}
    <2>1. CASE gather' = NewGather
      BY <2>1, <1>2
    <2>2. CASE gather' = [NewGather EXCEPT !.phase = "idle"]
      BY <2>2, <1>2 DEF GatherRow
    <2>3. ASSUME NEW videos \in SUBSET Video, gather' = [NewGather EXCEPT !.left = videos]
          PROVE  /\ gather' \in GatherRow /\ gather'.quota = 0 /\ gather'.status = "running"
                 /\ gather'.phase \in {"idle", "choosing"}
      BY <2>3, <1>2 DEF GatherRow
    <2> QED BY <2>1, <2>2, <2>3
  <1> QED BY <1>3, CommentAssumption DEF GatherInv, GatherHonest

LEMMA GatherBegins ==
    ASSUME GatherInit
    PROVE  GatherInv
  <1>1. gather = [NewGather EXCEPT !.phase = "idle"]
    BY DEF GatherInit
  <1>2. NewGather.outcome \in [Video -> Outcome \cup {"none"}]
    BY DEF NewGather
  <1>3. /\ gather \in GatherRow /\ gather.quota = 0 /\ gather.status = "running"
        /\ gather.phase = "idle"
    BY <1>1, <1>2 DEF NewGather, GatherRow
  <1> QED BY <1>3, CommentAssumption DEF GatherInv, GatherHonest

LEMMA GatherStepKept ==
    ASSUME GatherInv, [Next]_allVars
    PROVE  GatherInv'
  <1>1. gather \in GatherRow
    BY DEF GatherInv
  <1>2. ASSUME NEW videos \in SUBSET Video, StartGather(videos)
        PROVE  GatherInv'
    BY <1>2, FreshGather DEF StartGather
  <1>3. ASSUME NEW v \in Video, NextVideo(v)
        PROVE  GatherInv'
    BY <1>3 DEF NextVideo, GatherInv, GatherHonest, GatherRow
  <1>4. ASSUME NEW page \in SUBSET Comment, NEW more \in BOOLEAN, ReceiveComments(page, more)
        PROVE  GatherInv'
    <2> DEFINE asked == gather.asked + 1
               quota == gather.quota + 1
               g == [gather EXCEPT !.phase = "persisting", !.page = page, !.more = more,
                                   !.asked = asked, !.quota = quota]
    <2>1. gather.phase = "asking" /\ gather.quota < QuotaBudget /\ gather' = g
      BY <1>4 DEF ReceiveComments, QuotaLeft
    <2>2. asked \in Nat /\ quota \in Nat /\ quota <= QuotaBudget
      BY <2>1, <1>1, CommentAssumption DEF GatherRow
    <2> HIDE DEF asked, quota
    <2>3. /\ g \in GatherRow /\ g.phase = "persisting" /\ g.quota = quota
          /\ g.video = gather.video /\ g.status = gather.status
      BY <1>1, <2>2 DEF GatherRow
    <2> HIDE DEF g
    <2>4. gather.status = "running" /\ gather.video # {}
      BY <2>1 DEF GatherInv
    <2> QED BY <2>1, <2>2, <2>3, <2>4 DEF GatherInv, GatherHonest
  <1>5. ASSUME NEW outcome \in Outcome, CommentsRefused(outcome)
        PROVE  GatherInv'
    <2> DEFINE g == [gather EXCEPT !.quota = @ + 1]
    <2>1. /\ gather.phase = "asking" /\ gather.quota < QuotaBudget
          /\ gather' = EndVideo(g, outcome)
      BY <1>5 DEF CommentsRefused, QuotaLeft
    <2>2. /\ g \in GatherRow /\ g.quota = gather.quota + 1 /\ g.status = gather.status
          /\ gather.quota \in Nat
      BY <1>1 DEF GatherRow
    <2> HIDE DEF g
    <2>3. /\ gather' \in GatherRow /\ gather'.phase = "choosing" /\ gather'.quota = g.quota
          /\ gather'.status = g.status
      BY <2>1, <2>2, EndVideoRow
    <2>4. gather.status = "running"
      BY <2>1 DEF GatherInv
    <2> QED BY <2>1, <2>2, <2>3, <2>4, CommentAssumption DEF GatherInv, GatherHonest
  <1>6. CASE QuotaStops
    <2> DEFINE e == EndVideo(gather, "quota_budget_reached")
    <2>1. gather.phase = "asking" /\ gather' = [e EXCEPT !.phase = "over"]
      BY <1>6 DEF QuotaStops
    <2>2. /\ e \in GatherRow /\ e.quota = gather.quota /\ e.status = gather.status
          /\ \A v \in Video : e.outcome[v] = IF v \in gather.video THEN "quota_budget_reached"
                                             ELSE gather.outcome[v]
      BY <1>1, EndVideoRow DEF Outcome
    <2> HIDE DEF e
    <2>3. /\ gather' \in GatherRow /\ gather'.phase = "over" /\ gather'.quota = gather.quota
          /\ gather'.status = gather.status /\ gather'.outcome = e.outcome
      BY <2>1, <2>2 DEF GatherRow
    <2>4. gather.video # {} /\ gather.video \subseteq Video /\ gather.status = "running"
      BY <2>1, <1>1 DEF GatherInv, GatherRow
    <2>5. \E v \in Video : gather'.outcome[v] = "quota_budget_reached"
      BY <2>2, <2>3, <2>4
    <2> QED BY <2>3, <2>4, <2>5 DEF GatherInv, GatherHonest
  <1>7. ASSUME NEW changed \in SUBSET Comment, PersistComments(changed)
        PROVE  GatherInv'
    <2> DEFINE g == [gather EXCEPT !.total = @ + 1, !.pages = @ + 1, !.phase = "asking",
                                   !.page = {}]
    <2>1. /\ gather.phase = "persisting"
          /\ gather' = g \/ gather' = EndVideo(g, "completed")
      BY <1>7 DEF PersistComments
    <2>2. /\ g \in GatherRow /\ g.quota = gather.quota /\ g.status = gather.status
          /\ g.phase = "asking" /\ g.video = gather.video
      <3> DEFINE total == gather.total + 1
                 pages == gather.pages + 1
      <3>1. total \in Nat /\ pages \in Nat
        BY <1>1 DEF GatherRow
      <3>2. g = [gather EXCEPT !.total = total, !.pages = pages, !.phase = "asking", !.page = {}]
        OBVIOUS
      <3> HIDE DEF total, pages, g
      <3> QED BY <1>1, <3>1, <3>2 DEF GatherRow
    <2> HIDE DEF g
    <2>3. LET e == EndVideo(g, "completed") IN
          /\ e \in GatherRow /\ e.phase = "choosing" /\ e.quota = g.quota /\ e.status = g.status
      BY <2>2, EndVideoRow DEF Outcome
    <2>4. gather.status = "running" /\ gather.video # {} /\ gather.quota <= QuotaBudget
      BY <2>1 DEF GatherInv
    <2>5. CASE gather' = g
      BY <2>2, <2>4, <2>5 DEF GatherInv, GatherHonest
    <2>6. CASE gather' = EndVideo(g, "completed")
      BY <2>2, <2>3, <2>4, <2>6 DEF GatherInv, GatherHonest
    <2> QED BY <2>1, <2>5, <2>6
  <1>8. CASE FinishGather
    <2>1. /\ gather.phase = "over" \/ (gather.phase = "choosing" /\ gather.left = {})
          /\ gather.status = "running"
          /\ gather' = [gather EXCEPT !.phase = "over", !.status = Status]
      BY <1>8 DEF FinishGather
    <2>2. Status \in {"completed", "partial", "failed"}
      BY DEF Status
    <2>3. /\ gather' \in GatherRow /\ gather'.phase = "over" /\ gather'.quota = gather.quota
          /\ gather'.status = Status /\ gather'.outcome = gather.outcome
          /\ gather'.left = gather.left /\ gather'.total = gather.total
      BY <1>1, <2>1, <2>2 DEF GatherRow
    <2>4. /\ gather.total \in Nat
          /\ \A v \in Video : gather.outcome[v] \in Outcome \cup {"none"}
      BY <1>1 DEF GatherRow
    <2>5. /\ Count("quota_budget_reached") \in Nat
          /\ Count("collection_failed") \in Nat /\ Count("completed") \in Nat
          /\ Count("comments_disabled") \in Nat
          /\ Count("quota_budget_reached") = 0 <=>
               \A v \in Video : gather.outcome[v] # "quota_budget_reached"
          /\ Count("collection_failed") = 0 <=>
               \A v \in Video : gather.outcome[v] # "collection_failed"
      BY <1>1, Counts
    <2>6. Status = "completed" =>
            /\ gather.left = {}
            /\ \A v \in Video : gather.outcome[v] \in {"completed", "comments_disabled", "none"}
      <3>1. SUFFICES ASSUME Status = "completed"
                     PROVE  /\ gather.left = {}
                            /\ \A v \in Video :
                                 gather.outcome[v] \in {"completed", "comments_disabled", "none"}
        OBVIOUS
      <3>2. Count("quota_budget_reached") = 0 /\ Count("collection_failed") = 0
        BY <3>1, <2>5 DEF Status
      <3>3. gather.phase # "over"
        BY <3>2, <2>1, <2>5 DEF GatherInv
      <3> QED BY <3>2, <3>3, <2>1, <2>4, <2>5 DEF Outcome
    <2>7. Status = "failed" => gather.total = 0
      BY <2>4, <2>5 DEF Status
    <2>8. Status = "partial" =>
            \E v \in Video : gather.outcome[v] \in {"collection_failed", "quota_budget_reached"}
      BY <2>5 DEF Status
    <2>9. GatherHonest'
      BY <2>3, <2>6, <2>7, <2>8 DEF GatherHonest, GatherInv
    <2> QED BY <2>2, <2>3, <2>9 DEF GatherInv
  <1>9. CASE GatherDies
    BY <1>9, FreshGather DEF GatherDies
  <1>10. CASE UNCHANGED gather
    BY <1>10 DEF GatherInv, GatherHonest
  <1> QED BY <1>2, <1>3, <1>4, <1>5, <1>6, <1>7, <1>8, <1>9, <1>10 DEF Next, GatherStep, allVars

(* The invariant of the analyses holds in every reachable state, beside any  *)
(* collection of comments.                                                  *)
THEOREM InvCorrect == Spec => []IInv
  <1>1. IInv /\ [Next]_allVars => IInv'
    BY NextKept DEF Kept
  <1> QED BY <1>1, InitHolds, PTL DEF Spec

(* The rows, the messages and the collection always have their types.        *)
THEOREM TypeCorrect == Spec => []TypeOK
  <1>1. GatherInit => GatherInv
    BY GatherBegins
  <1>2. IInv /\ GatherInv => TypeOK
    BY DEF IInv, GatherInv, TypeOK
  <1> QED BY <1>1, <1>2, GatherStepKept, InvCorrect, PTL DEF Spec

(* As long as no process died, a running extraction and a video in           *)
(* processing have a worker or are those of a message whose answer          *)
(* SignalCreate refused: every other way out of a handler closes what it     *)
(* opened.                                                                   *)
THEOREM NothingLeftBehindCorrect == Spec => []NothingLeftBehind
  <1>1. IInv => NothingLeftBehind
    BY DEF IInv
  <1> QED BY <1>1, InvCorrect, PTL

(* The status of a video is backed by a recorded result, and signals come    *)
(* from completed extractions of videos that were found relevant, however   *)
(* the workers interleave and whichever of them die.                        *)
THEOREM StatusHasEvidenceCorrect == Spec => []StatusHasEvidence
  <1>1. IInv => StatusHasEvidence
    BY EvidenceSuffices DEF IInv
  <1> QED BY <1>1, InvCorrect, PTL

(* No later attempt, retry or other worker rewrites a recorded result.       *)
THEOREM ResultsAreFinalCorrect == Spec => ResultsAreFinal
  <1>1. IInv /\ [Next]_allVars => [ResultsKept]_vars
    BY NextKept DEF Kept
  <1>2. ResultsAreFinal <=> [][ResultsKept]_vars
    BY DEF ResultsAreFinal, ResultsKept
  <1> QED BY <1>1, <1>2, InvCorrect, PTL DEF Spec

(* A collection never exceeds its budget, and its run says completed, partial *)
(* or failed of what it has done.                                            *)
THEOREM GatherHonestCorrect == Spec => []GatherHonest
  <1>1. GatherInit => GatherInv
    BY GatherBegins
  <1>2. GatherInv => GatherHonest
    BY DEF GatherInv
  <1> QED BY <1>1, <1>2, GatherStepKept, PTL DEF Spec
=============================================================================
