---------------------- MODULE DiscoveryPipeline_proofs ----------------------
(***************************************************************************)
(* Proofs about DiscoveryPipeline, for any number of items and messages:   *)
(* its types, and that completed and partial always speak of two branches  *)
(* that reported (with any faults and resumptions); that an outcome comes  *)
(* after the stages, is final and fits the items (without faults); and     *)
(* that an active pipeline has a worker (while retries outnumber faults).  *)
(*                                                                         *)
(* The last three rest on one count: which messages and workers still have *)
(* to set which branch's flag (Debt), and what a step does to it (Moves).  *)
(***************************************************************************)
EXTENDS DiscoveryPipeline, FiniteSetTheorems, TLAPS

-----------------------------------------------------------------------------
(* Rows *)

LEMMA ParkedType ==
    ASSUME NEW msg \in {"none", "queued", "held", "exhausted"},
           NEW tries \in Nat, NEW videos \in SUBSET Item
    PROVE  Parked(msg, tries, videos) \in JobRow
  BY DEF Parked, JobRow, Stage, PipelineStage

LEMMA NoJobType == NoJob \in JobRow
  BY ParkedType DEF NoJob

LEMMA AgainType ==
    ASSUME TypeOK, NEW j \in Job
    PROVE  Again(j) \in JobRow
  <1>1. job[j].tries \in Nat /\ job[j].input \in SUBSET Item
    BY DEF TypeOK, JobRow
  <1> QED BY <1>1, ParkedType DEF Again

LEMMA AfterFailureType ==
    ASSUME TypeOK, NEW j \in Job
    PROVE  AfterFailure(j) \in JobRow
  <1>1. job[j].tries \in Nat /\ job[j].input \in SUBSET Item
    BY DEF TypeOK, JobRow
  <1>2. job[j].tries + 1 \in Nat /\ {} \in SUBSET Item
    BY <1>1
  <1>3. Parked("queued", job[j].tries + 1, job[j].input) \in JobRow
    BY <1>1, <1>2, ParkedType
  <1>4. Parked("exhausted", 0, {}) \in JobRow
    BY <1>2, ParkedType
  <1> QED BY <1>3, <1>4, NoJobType DEF AfterFailure

(* What a step may do to the messages: each one it changes gets a row that   *)
(* is neither a forced end nor a claim.                                      *)
Calm(row) == row \in JobRow /\ row.pc \notin {"force", "fetch"}

LEMMA CalmRows ==
    ASSUME TypeOK, NEW j \in Job
    PROVE  Calm(NoJob) /\ Calm(Again(j)) /\ Calm(AfterFailure(j))
  <1>1. NoJob.pc = "idle" /\ Again(j).pc = "idle" /\ AfterFailure(j).pc = "idle"
    BY DEF NoJob, Again, AfterFailure, Parked
  <1> QED BY <1>1, NoJobType, AgainType, AfterFailureType DEF Calm

CalmStep ==
    /\ job' \in [Job -> JobRow]
    /\ \A k \in Job : job'[k] = job[k] \/ Calm(job'[k])

LEMMA SetRow ==
    ASSUME TypeOK, NEW j \in Job, NEW row, Calm(row),
           job' = [job EXCEPT ![j] = row]
    PROVE  CalmStep
  BY DEF TypeOK, CalmStep, Calm

LEMMA GotoCalm ==
    ASSUME TypeOK, NEW j \in Job,
           NEW pc \in {"idle", "begin", "work", "read", "report", "next",
                       "mine", "skip", "finish", "fail"},
           Goto(j, pc)
    PROVE  CalmStep
  <1>1. [job[j] EXCEPT !.pc = pc] \in JobRow
    BY DEF TypeOK, JobRow
  <1>2. [job[j] EXCEPT !.pc = pc].pc = pc
    BY DEF TypeOK, JobRow
  <1>3. Calm([job[j] EXCEPT !.pc = pc])
    BY <1>1, <1>2 DEF Calm
  <1> QED BY <1>3, SetRow DEF Goto

LEMMA CloseCalm ==
    ASSUME TypeOK, NEW j \in Job, NEW pc \in {"skip", "finish"}, Close(j, pc)
    PROVE  CalmStep
  <1> DEFINE row == [job[j] EXCEPT !.pc = pc, !.output = {}, !.more = FALSE,
                                   !.ok = TRUE]
  <1>1. row \in JobRow /\ row.pc = pc
    BY DEF TypeOK, JobRow
  <1>2. Calm(row)
    BY <1>1 DEF Calm
  <1>3. job' = [job EXCEPT ![j] = row]
    BY DEF Close
  <1> QED BY <1>2, <1>3, SetRow

LEMMA EndCalm ==
    ASSUME TypeOK, NEW j \in Job, End(j)
    PROVE  CalmStep /\ faults' \in Nat
  <1>1. PICK row \in {NoJob, Again(j)} :
            Over(j, row) /\ job' = [job EXCEPT ![j] = row]
    BY DEF End
  <1>2. CalmStep
    BY <1>1, CalmRows, SetRow
  <1>3. faults' \in Nat
    BY <1>1 DEF Over, Fault, TypeOK
  <1> QED BY <1>2, <1>3

LEMMA SendCalm ==
    ASSUME TypeOK, NEW j \in Job, NEW stage \in Stage,
           NEW videos \in SUBSET Item, NEW then, Calm(then),
           Send(j, stage, videos, then)
    PROVE  CalmStep
  <1> DEFINE new == Parked("queued", 0, videos)
  <1>1. PICK c \in Copy :
            job' = [job EXCEPT ![<<stage, c>>] = new, ![j] = then]
    BY DEF Send
  <1>2. Calm(new)
    BY ParkedType DEF Calm, Parked
  <1>3. <<stage, c>> \in Job
    BY DEF Job
  <1> QED BY <1>1, <1>2, <1>3 DEF TypeOK, CalmStep, Calm

LEMMA SendLastCalm ==
    ASSUME TypeOK, NEW j \in Job, NEW stage \in Stage,
           NEW videos \in SUBSET Item, SendLast(j, stage, videos)
    PROVE  CalmStep /\ faults' \in Nat
  <1>1. PICK row \in {NoJob, Again(j)} :
            Over(j, row) /\ Send(j, stage, videos, row)
    BY DEF SendLast
  <1>2. Calm(row)
    BY <1>1, CalmRows
  <1>3. faults' \in Nat
    BY <1>1 DEF Over, Fault, TypeOK
  <1> QED BY <1>1, <1>2, <1>3, SendCalm

-----------------------------------------------------------------------------
(* The four parts of a step that keeps the invariant *)

ItemsKept == item' \in [Item -> ItemStatus] /\ Found' = Found

IntelKept ==
    /\ intel' \in IntelRow
    /\ intel'.status \in {"completed", "partial"} => intel'.done = Branch \/ Found = {}

JobsKept ==
    /\ job' \in [Job -> JobRow]
    /\ \A k \in Job : job'[k].pc = "force" => Found = {}
    /\ \A k \in Job : job'[k].pc = "fetch" => job'[k].output \subseteq Found

CountsKept == faults' \in Nat /\ resumes' \in Nat

Kept == ItemsKept /\ IntelKept /\ JobsKept /\ CountsKept

LEMMA KeptInv ==
    ASSUME Kept
    PROVE  IInv'
  <1>1. TypeOK'
    BY DEF Kept, ItemsKept, IntelKept, JobsKept, CountsKept, TypeOK
  <1>2. ForcedFoundNothing' /\ ClaimsFound'
    BY DEF Kept, ItemsKept, JobsKept, ForcedFoundNothing, ClaimsFound, At
  <1>3. OutcomeNeedsBothBranches'
    BY DEF Kept, ItemsKept, IntelKept, OutcomeNeedsBothBranches
  <1> QED BY <1>1, <1>2, <1>3 DEF IInv

LEMMA SameItems ==
    ASSUME IInv, UNCHANGED item
    PROVE  ItemsKept
  BY DEF IInv, TypeOK, ItemsKept, Found

LEMMA SameIntel ==
    ASSUME IInv, UNCHANGED intel
    PROVE  IntelKept
  BY DEF IInv, TypeOK, IntelKept, OutcomeNeedsBothBranches

LEMMA SameCounts ==
    ASSUME IInv, UNCHANGED resumes, faults' \in Nat
    PROVE  CountsKept
  BY DEF IInv, TypeOK, CountsKept

LEMMA FaultCounts ==
    ASSUME IInv, NEW kind, Fault(kind), UNCHANGED resumes
    PROVE  CountsKept
  BY DEF IInv, TypeOK, CountsKept, Fault

LEMMA SameJobs ==
    ASSUME IInv, UNCHANGED job
    PROVE  JobsKept
  BY DEF IInv, TypeOK, JobsKept, ForcedFoundNothing, ClaimsFound, At

LEMMA CalmKept ==
    ASSUME IInv, CalmStep
    PROVE  JobsKept
  BY DEF IInv, CalmStep, Calm, JobsKept, ForcedFoundNothing, ClaimsFound, At

(* The status may become anything but a success. *)
LEMMA UpdateMetricsKept ==
    ASSUME IInv, NEW ok \in BOOLEAN, NEW branches \in SUBSET Branch,
           UpdateMetrics(ok, branches)
    PROVE  IntelKept
  BY DEF IInv, TypeOK, UpdateMetrics, IntelKept, IntelRow, ActiveIntel

LEMMA FailPipelineKept ==
    ASSUME IInv, FailPipeline
    PROVE  IntelKept
  BY DEF IInv, TypeOK, FailPipeline, IntelKept, IntelRow, ActiveIntel, Outcome

LEMMA FinishedKept ==
    ASSUME IInv, intel' = Finished(intel)
    PROVE  IntelKept
  <1>1. CASE intel.done = Branch
    BY <1>1 DEF IInv, TypeOK, Finished, IntelKept, IntelRow, ActiveIntel, Outcome
  <1>2. CASE intel.done # Branch
    <2>1. intel' = intel
      BY <1>2 DEF Finished
    <2> QED BY <2>1, SameIntel
  <1> QED BY <1>1, <1>2

-----------------------------------------------------------------------------
(* start_pipeline and the scheduled sweep *)

LEMMA StartPipelineStep ==
    ASSUME IInv, NEW c \in Copy, NEW known \in SUBSET Item, StartPipeline(c, known)
    PROVE  IInv'
  <1> DEFINE row == [NoJob EXCEPT !.msg = "held", !.pc = "begin"]
  <1>1. ItemsKept
    BY DEF StartPipeline, IInv, TypeOK, ItemsKept, Found, ItemStatus
  <1>2. IntelKept
    BY DEF StartPipeline, IntelKept, IntelRow, ActiveIntel
  <1>3. JobsKept
    <2>1. Calm(row)
      <3>1. row \in JobRow /\ row.pc = "begin"
        BY NoJobType DEF JobRow
      <3> QED BY <3>1 DEF Calm
    <2>2. <<"start", c>> \in Job
      BY DEF Job, Stage
    <2>3. job' = [job EXCEPT ![<<"start", c>>] = row]
      BY DEF StartPipeline
    <2> QED BY <2>1, <2>2, <2>3, SetRow, CalmKept DEF IInv
  <1>4. CountsKept
    BY DEF StartPipeline, IInv, TypeOK, CountsKept
  <1> QED BY <1>1, <1>2, <1>3, <1>4, KeptInv DEF Kept

LEMMA BeginStep ==
    ASSUME IInv, NEW j \in Job, Begin(j)
    PROVE  IInv'
  <1>1. ItemsKept /\ IntelKept /\ CountsKept
    <2>1. UNCHANGED <<intel, item, faults, resumes>> /\ faults' \in Nat
      BY DEF Begin, IInv, TypeOK
    <2> QED BY <2>1, SameItems, SameIntel, SameCounts
  <1>2. JobsKept
    <2>1. CASE Found = {} /\ Goto(j, "force")
      <3>1. [job[j] EXCEPT !.pc = "force"] \in JobRow
        BY DEF IInv, TypeOK, JobRow
      <3>2. [job[j] EXCEPT !.pc = "force"].pc = "force"
        BY DEF IInv, TypeOK, JobRow
      <3> QED BY <2>1, <3>1, <3>2
              DEF Goto, IInv, TypeOK, JobsKept, ForcedFoundNothing, ClaimsFound, At
    <2>2. CASE job' = [job EXCEPT ![j] = [@ EXCEPT !.fn = "metadata", !.pc = "read"]]
      <3> DEFINE row == [job[j] EXCEPT !.fn = "metadata", !.pc = "read"]
      <3>1. row \in JobRow /\ row.pc = "read"
        BY DEF IInv, TypeOK, JobRow, Stage, PipelineStage
      <3>2. Calm(row)
        BY <3>1 DEF Calm
      <3>3. job' = [job EXCEPT ![j] = row]
        BY <2>2
      <3> QED BY <3>2, <3>3, SetRow, CalmKept DEF IInv
    <2>3. CASE Send(j, "metadata", {}, NoJob)
      <3>1. "metadata" \in Stage
        BY DEF Stage, PipelineStage
      <3> QED BY <2>3, <3>1, CalmRows, SendCalm, CalmKept DEF IInv
    <2> QED BY <2>1, <2>2, <2>3 DEF Begin
  <1> QED BY <1>1, <1>2, KeptInv DEF Kept

LEMMA ForceFinishStep ==
    ASSUME IInv, NEW j \in Job, ForceFinish(j)
    PROVE  IInv'
  <1>1. ItemsKept
    BY SameItems DEF ForceFinish
  <1>2. IntelKept
    <2>1. Found = {}
      BY DEF ForceFinish, IInv, ForcedFoundNothing
    <2>2. intel' \in IntelRow
      BY DEF ForceFinish, IInv, TypeOK, IntelRow, Outcome
    <2> QED BY <2>1, <2>2 DEF IntelKept
  <1>3. JobsKept /\ CountsKept
    BY EndCalm, CalmKept, SameCounts DEF ForceFinish, IInv
  <1> QED BY <1>1, <1>2, <1>3, KeptInv DEF Kept

LEMMA SweepStep ==
    ASSUME IInv, NEW c \in Copy, Sweep(c)
    PROVE  IInv'
  <1> DEFINE row == [NoJob EXCEPT !.msg = "held", !.fn = "sweep", !.pc = "work"]
  <1>1. row \in JobRow /\ row.pc = "work"
    BY NoJobType DEF JobRow, Stage
  <1>2. Calm(row)
    BY <1>1 DEF Calm
  <1>3. <<"sweep", c>> \in Job
    BY DEF Job, Stage
  <1>4. job' = [job EXCEPT ![<<"sweep", c>>] = row]
    BY DEF Sweep
  <1>5. JobsKept
    BY <1>2, <1>3, <1>4, SetRow, CalmKept DEF IInv
  <1>6. ItemsKept /\ IntelKept /\ CountsKept
    <2>1. UNCHANGED <<intel, item, faults, resumes>> /\ faults' \in Nat
      BY DEF Sweep, IInv, TypeOK
    <2> QED BY <2>1, SameItems, SameIntel, SameCounts
  <1> QED BY <1>5, <1>6, KeptInv DEF Kept

-----------------------------------------------------------------------------
(* The work of the stages *)

LEMMA DeliverStep ==
    ASSUME IInv, NEW j \in Job, Deliver(j)
    PROVE  IInv'
  <1> DEFINE held == [job[j] EXCEPT !.msg = "held", !.fn = j[1], !.pc = "work"]
  <1>1. j[1] \in Stage
    BY DEF Job
  <1>2. held \in JobRow /\ held.pc = "work"
    BY <1>1 DEF IInv, TypeOK, JobRow
  <1>3. Calm(held) /\ Calm(NoJob)
    BY <1>2, CalmRows DEF Calm, IInv
  <1>4. job' = [job EXCEPT ![j] = NoJob] \/ job' = [job EXCEPT ![j] = held]
    BY DEF Deliver
  <1>5. JobsKept
    BY <1>3, <1>4, SetRow, CalmKept DEF IInv
  <1>6. ItemsKept /\ IntelKept /\ CountsKept
    <2>1. UNCHANGED <<intel, item, faults, resumes>> /\ faults' \in Nat
      BY DEF Deliver, IInv, TypeOK
    <2> QED BY <2>1, SameItems, SameIntel, SameCounts
  <1> QED BY <1>5, <1>6, KeptInv DEF Kept

LEMMA ClaimStep ==
    ASSUME IInv, NEW j \in Job, NEW claimed \in SUBSET Item, Claim(j, claimed)
    PROVE  IInv'
  <1>1. claimed \subseteq Found
    BY DEF Claim, Pending, Found
  <1>2. ItemsKept
    BY <1>1 DEF Claim, IInv, TypeOK, ItemsKept, Found, ItemStatus
  <1>3. IntelKept /\ CountsKept
    <2>1. UNCHANGED <<intel, resumes>> /\ faults' \in Nat
      BY DEF Claim, IInv, TypeOK
    <2> QED BY <2>1, SameIntel, SameCounts
  <1>4. JobsKept
    <2> DEFINE fetching == [job[j] EXCEPT !.pc = "fetch", !.output = claimed]
               reading == [job[j] EXCEPT !.pc = "read"]
    <2>1. CASE job' = [job EXCEPT ![j] = fetching]
      <3>1. fetching \in JobRow /\ fetching.pc = "fetch" /\ fetching.output = claimed
        BY DEF IInv, TypeOK, JobRow
      <3> QED BY <1>1, <2>1, <3>1
              DEF IInv, TypeOK, JobsKept, ForcedFoundNothing, ClaimsFound, At
    <2>2. CASE job' = [job EXCEPT ![j] = NoJob]
      BY <2>2, CalmRows, SetRow, CalmKept DEF IInv
    <2>3. CASE job' = [job EXCEPT ![j] = reading]
      <3>1. reading \in JobRow /\ reading.pc = "read"
        BY DEF IInv, TypeOK, JobRow
      <3> QED BY <2>3, <3>1, SetRow, CalmKept DEF IInv, Calm
    <2> QED BY <2>1, <2>2, <2>3 DEF Claim
  <1> QED BY <1>2, <1>3, <1>4, KeptInv DEF Kept

LEMMA FetchedCalm ==
    ASSUME IInv, NEW j \in Job, NEW ok \in BOOLEAN
    PROVE  Calm(Fetched(j, ok))
  <1>1. [job[j] EXCEPT !.pc = "read", !.ok = ok] \in JobRow
    BY DEF IInv, TypeOK, JobRow
  <1>2. [job[j] EXCEPT !.pc = "read", !.ok = ok].pc = "read"
    BY DEF IInv, TypeOK, JobRow
  <1> QED BY <1>1, <1>2, CalmRows DEF Fetched, Calm, IInv

LEMMA PersistStep ==
    ASSUME IInv, NEW j \in Job, NEW returned \in SUBSET Item, Persist(j, returned)
    PROVE  IInv'
  <1>1. job[j].output \subseteq Found /\ returned \subseteq Found
    BY DEF Persist, IInv, ClaimsFound
  <1>2. ItemsKept
    BY <1>1 DEF Persist, IInv, TypeOK, ItemsKept, Found, ItemStatus
  <1>3. IntelKept /\ CountsKept
    <2>1. UNCHANGED <<intel, resumes>> /\ faults' \in Nat
      BY DEF Persist, IInv, TypeOK
    <2> QED BY <2>1, SameIntel, SameCounts
  <1>4. JobsKept
    <2>1. job' = [job EXCEPT ![j] = Fetched(j, returned = job[j].output)]
      BY DEF Persist
    <2> QED BY <2>1, FetchedCalm, SetRow, CalmKept DEF IInv
  <1> QED BY <1>2, <1>3, <1>4, KeptInv DEF Kept

LEMMA FetchFailsStep ==
    ASSUME IInv, NEW j \in Job, FetchFails(j)
    PROVE  IInv'
  <1>1. ItemsKept
    BY DEF FetchFails, IInv, TypeOK, ItemsKept, Found, ItemStatus
  <1>2. IntelKept /\ CountsKept
    BY SameIntel, FaultCounts DEF FetchFails
  <1>3. JobsKept
    <2>1. job' = [job EXCEPT ![j] = Fetched(j, FALSE)]
      BY DEF FetchFails
    <2> QED BY <2>1, FetchedCalm, SetRow, CalmKept DEF IInv
  <1> QED BY <1>1, <1>2, <1>3, KeptInv DEF Kept

LEMMA RunStageStep ==
    ASSUME IInv, NEW j \in Job, NEW output \in SUBSET Item, NEW ok \in BOOLEAN,
           RunStage(j, output, ok)
    PROVE  IInv'
  <1> DEFINE pc == IF job[j].fn = "comments" THEN "read" ELSE "report"
             row == [job[j] EXCEPT !.pc = pc, !.output = output, !.ok = ok]
  <1>1. row \in JobRow /\ row.pc = pc
    BY DEF IInv, TypeOK, JobRow
  <1>2. Calm(row)
    BY <1>1 DEF Calm
  <1>3. job' = [job EXCEPT ![j] = row]
    BY DEF RunStage
  <1>4. JobsKept
    BY <1>2, <1>3, SetRow, CalmKept DEF IInv
  <1>5. ItemsKept /\ IntelKept /\ CountsKept
    <2>1. UNCHANGED <<intel, item, faults, resumes>> /\ faults' \in Nat
      BY DEF RunStage, IInv, TypeOK
    <2> QED BY <2>1, SameItems, SameIntel, SameCounts
  <1> QED BY <1>4, <1>5, KeptInv DEF Kept

-----------------------------------------------------------------------------
(* The completion handlers *)

LEMMA ReadStep ==
    ASSUME IInv, NEW j \in Job, Read(j)
    PROVE  IInv'
  <1> DEFINE row == [job[j] EXCEPT !.pc = "report", !.output = Processed,
                                   !.more = (Pending # {})]
  <1>1. Processed \in SUBSET Item /\ (Pending # {}) \in BOOLEAN
    BY DEF Processed
  <1>2. row \in JobRow /\ row.pc = "report"
    BY <1>1 DEF IInv, TypeOK, JobRow
  <1>3. Calm(row)
    BY <1>2 DEF Calm
  <1>4. job' = [job EXCEPT ![j] = row]
    BY DEF Read
  <1>5. JobsKept
    BY <1>3, <1>4, SetRow, CalmKept DEF IInv
  <1>6. ItemsKept /\ IntelKept /\ CountsKept
    <2>1. UNCHANGED <<intel, item, faults, resumes>> /\ faults' \in Nat
      BY DEF Read, IInv, TypeOK
    <2> QED BY <2>1, SameItems, SameIntel, SameCounts
  <1> QED BY <1>5, <1>6, KeptInv DEF Kept

LEMMA BranchOfType == ASSUME NEW fn PROVE BranchOf(fn) \in Branch
  BY DEF BranchOf, Branch

LEMMA ReportStep ==
    ASSUME IInv, NEW j \in Job, Report(j)
    PROVE  IInv'
  <1>1. ItemsKept /\ CountsKept
    <2>1. UNCHANGED <<item, faults, resumes>> /\ faults' \in Nat
      BY DEF Report, IInv, TypeOK
    <2> QED BY <2>1, SameItems, SameCounts
  <1>2. IntelKept
    <2> DEFINE branches == IF job[j].fn \in Normalization
                           THEN {BranchOf(job[j].fn)} ELSE {}
    <2>1. branches \in SUBSET Branch /\ job[j].ok \in BOOLEAN
      BY BranchOfType DEF IInv, TypeOK, JobRow
    <2>2. UpdateMetrics(job[j].ok, branches)
      BY DEF Report
    <2> QED BY <2>1, <2>2, UpdateMetricsKept
  <1>3. JobsKept
    BY GotoCalm, CloseCalm, CalmKept DEF Report, IInv
  <1> QED BY <1>1, <1>2, <1>3, KeptInv DEF Kept

LEMMA MetadataNextStep ==
    ASSUME IInv, NEW j \in Job, MetadataNext(j)
    PROVE  IInv'
  <1>1. ItemsKept /\ IntelKept
    BY SameItems, SameIntel DEF MetadataNext
  <1>2. CalmStep /\ faults' \in Nat
    <2>1. CASE SendLast(j, "metadata", {})
      BY <2>1, SendLastCalm DEF IInv, Stage, PipelineStage
    <2>2. CASE Goto(j, "fail") /\ UNCHANGED faults
      BY <2>2, GotoCalm DEF IInv, TypeOK
    <2>3. CASE \E eligible \in SUBSET Processed \ {{}} :
                  SendLast(j, "comments", eligible)
      <3>1. Processed \in SUBSET Item
        BY DEF Processed
      <3>2. PICK eligible \in SUBSET Item : SendLast(j, "comments", eligible)
        BY <2>3, <3>1
      <3> QED BY <3>2, SendLastCalm DEF IInv, Stage, PipelineStage
    <2>4. CASE /\ job' = [job EXCEPT ![j] = [@ EXCEPT !.fn = "comments",
                                                     !.pc = "read", !.ok = TRUE]]
               /\ UNCHANGED faults
      <3> DEFINE row == [job[j] EXCEPT !.fn = "comments", !.pc = "read", !.ok = TRUE]
      <3>1. row \in JobRow /\ row.pc = "read"
        BY DEF IInv, TypeOK, JobRow, Stage, PipelineStage
      <3>2. Calm(row)
        BY <3>1 DEF Calm
      <3>3. job' = [job EXCEPT ![j] = row] /\ faults' \in Nat
        BY <2>4 DEF IInv, TypeOK
      <3> QED BY <3>2, <3>3, SetRow DEF IInv
    <2> QED BY <2>1, <2>2, <2>3, <2>4 DEF MetadataNext
  <1>3. JobsKept /\ CountsKept
    BY <1>2, CalmKept, SameCounts DEF MetadataNext
  <1> QED BY <1>1, <1>3, KeptInv DEF Kept

LEMMA CommentsNextStep ==
    ASSUME IInv, NEW j \in Job, CommentsNext(j)
    PROVE  IInv'
  <1> DEFINE row == [job[j] EXCEPT !.pc = "mine", !.output = {}]
  <1>1. row \in JobRow /\ row.pc = "mine" /\ job[j].output \in SUBSET Item
    BY DEF IInv, TypeOK, JobRow
  <1>2. Calm(row)
    BY <1>1 DEF Calm
  <1>3. Send(j, "relevance", job[j].output, row) /\ "relevance" \in Stage
    BY DEF CommentsNext, Stage, PipelineStage
  <1>4. JobsKept
    BY <1>1, <1>2, <1>3, SendCalm, CalmKept DEF IInv
  <1>5. ItemsKept /\ IntelKept /\ CountsKept
    <2>1. UNCHANGED <<intel, item, faults, resumes>> /\ faults' \in Nat
      BY DEF CommentsNext, IInv, TypeOK
    <2> QED BY <2>1, SameItems, SameIntel, SameCounts
  <1> QED BY <1>4, <1>5, KeptInv DEF Kept

LEMMA MineStep ==
    ASSUME IInv, NEW j \in Job, Mine(j)
    PROVE  IInv'
  <1>1. ItemsKept /\ IntelKept
    BY SameItems, SameIntel DEF Mine
  <1>2. CalmStep /\ faults' \in Nat
    <2>1. CASE \E commented \in SUBSET Processed \ {{}} :
                  SendLast(j, "pain", commented)
      <3>1. Processed \in SUBSET Item
        BY DEF Processed
      <3>2. PICK commented \in SUBSET Item : SendLast(j, "pain", commented)
        BY <2>1, <3>1
      <3> QED BY <3>2, SendLastCalm DEF IInv, Stage, PipelineStage
    <2>2. CASE Close(j, "skip") /\ UNCHANGED faults
      BY <2>2, CloseCalm DEF IInv, TypeOK
    <2> QED BY <2>1, <2>2 DEF Mine
  <1>3. JobsKept /\ CountsKept
    BY <1>2, CalmKept, SameCounts DEF Mine
  <1> QED BY <1>1, <1>3, KeptInv DEF Kept

LEMMA ForwardStep ==
    ASSUME IInv, NEW j \in Job, Forward(j)
    PROVE  IInv'
  <1>1. ItemsKept /\ IntelKept
    BY SameItems, SameIntel DEF Forward
  <1>2. CalmStep /\ faults' \in Nat
    <2>1. CASE SendLast(j, NextStage(job[j].fn), job[j].output)
      <3>1. job[j].output \in SUBSET Item
        BY DEF IInv, TypeOK, JobRow
      <3>2. NextStage(job[j].fn) \in Stage
        BY DEF NextStage, Stage, PipelineStage
      <3> QED BY <2>1, <3>1, <3>2, SendLastCalm DEF IInv
    <2>2. CASE Close(j, "skip") /\ UNCHANGED faults
      BY <2>2, CloseCalm DEF IInv, TypeOK
    <2> QED BY <2>1, <2>2 DEF Forward
  <1>3. JobsKept /\ CountsKept
    BY <1>2, CalmKept, SameCounts DEF Forward
  <1> QED BY <1>1, <1>3, KeptInv DEF Kept

LEMMA SkipStep ==
    ASSUME IInv, NEW j \in Job, Skip(j)
    PROVE  IInv'
  <1>1. ItemsKept
    BY SameItems DEF Skip
  <1>2. IntelKept
    <2>1. {BranchOf(job[j].fn)} \in SUBSET Branch
      BY BranchOfType
    <2>2. UpdateMetrics(TRUE, {BranchOf(job[j].fn)})
      BY DEF Skip
    <2> QED BY <2>1, <2>2, UpdateMetricsKept
  <1>3. CalmStep /\ faults' \in Nat
    <2>1. CASE End(j)
      BY <2>1, EndCalm DEF IInv
    <2>2. CASE Close(j, "finish") /\ UNCHANGED faults
      BY <2>2, CloseCalm DEF IInv, TypeOK
    <2> QED BY <2>1, <2>2 DEF Skip
  <1>4. JobsKept /\ CountsKept
    BY <1>3, CalmKept, SameCounts DEF Skip
  <1> QED BY <1>1, <1>2, <1>4, KeptInv DEF Kept

LEMMA FinishIfReadyStep ==
    ASSUME IInv, NEW j \in Job, FinishIfReady(j)
    PROVE  IInv'
  <1>1. ItemsKept /\ IntelKept
    BY SameItems, FinishedKept DEF FinishIfReady
  <1>2. JobsKept /\ CountsKept
    BY EndCalm, CalmKept, SameCounts DEF FinishIfReady, IInv
  <1> QED BY <1>1, <1>2, KeptInv DEF Kept

LEMMA FailStep ==
    ASSUME IInv, NEW j \in Job, Fail(j)
    PROVE  IInv'
  <1>1. ItemsKept /\ IntelKept
    BY SameItems, FailPipelineKept DEF Fail
  <1>2. JobsKept /\ CountsKept
    BY EndCalm, CalmKept, SameCounts DEF Fail, IInv
  <1> QED BY <1>1, <1>2, KeptInv DEF Kept

LEMMA FailExhaustedStep ==
    ASSUME IInv, NEW j \in Job, FailExhausted(j)
    PROVE  IInv'
  <1>1. ItemsKept /\ IntelKept
    BY SameItems, FailPipelineKept DEF FailExhausted
  <1>2. JobsKept
    BY CalmRows, SetRow, CalmKept DEF FailExhausted, IInv
  <1>3. CountsKept
    BY DEF FailExhausted, IInv, TypeOK, CountsKept
  <1> QED BY <1>1, <1>2, <1>3, KeptInv DEF Kept

-----------------------------------------------------------------------------
(* Maintenance, the operator and the faults *)

LEMMA RecoverClaimsStep ==
    ASSUME IInv, NEW stale \in SUBSET Item, RecoverClaims(stale)
    PROVE  IInv'
  <1>1. ItemsKept
    BY DEF RecoverClaims, IInv, TypeOK, ItemsKept, Found, ItemStatus
  <1>2. IntelKept /\ JobsKept /\ CountsKept
    <2>1. UNCHANGED <<intel, job, faults, resumes>> /\ faults' \in Nat
      BY DEF RecoverClaims, IInv, TypeOK
    <2> QED BY <2>1, SameIntel, SameJobs, SameCounts
  <1> QED BY <1>1, <1>2, KeptInv DEF Kept

LEMMA ResumeStep ==
    ASSUME IInv, Resume
    PROVE  IInv'
  <1>1. ItemsKept /\ JobsKept
    BY SameItems, SameJobs DEF Resume
  <1>2. IntelKept
    BY DEF Resume, IInv, TypeOK, IntelKept, IntelRow
  <1>3. CountsKept
    BY DEF Resume, IInv, TypeOK, CountsKept
  <1> QED BY <1>1, <1>2, <1>3, KeptInv DEF Kept

LEMMA JobFaultStep ==
    ASSUME IInv, NEW j \in Job, JobFault(j)
    PROVE  IInv'
  <1>1. CASE FetchFails(j)
    BY <1>1, FetchFailsStep
  <1>2. CASE ~FetchFails(j)
    <2>1. ItemsKept /\ IntelKept
      <3>1. UNCHANGED <<intel, item>>
        BY <1>2 DEF JobFault, WorkerCrash, AttemptFails, StarterDies,
                    QueueRefuses, RejectStage
      <3> QED BY <3>1, SameItems, SameIntel
    <2>2. CountsKept
      <3>1. (\E kind \in {"crash", "error", "starter", "queue", "permanent"} : Fault(kind))
              /\ UNCHANGED resumes
        BY <1>2 DEF JobFault, WorkerCrash, AttemptFails, StarterDies,
                    QueueRefuses, RejectStage
      <3> QED BY <3>1, FaultCounts
    <2>3. JobsKept
      <3> DEFINE failing == [job[j] EXCEPT !.pc = "fail"]
      <3>1. Calm(failing)
        <4>1. failing \in JobRow /\ failing.pc = "fail"
          BY DEF IInv, TypeOK, JobRow
        <4> QED BY <4>1 DEF Calm
      <3>2. \E row \in {NoJob, Again(j), AfterFailure(j), failing} :
                job' = [job EXCEPT ![j] = row]
        <4>1. CASE WorkerCrash(j)
          BY <4>1 DEF WorkerCrash
        <4>2. CASE AttemptFails(j)
          <5>1. job' = [job EXCEPT ![j] = NoJob]
                  \/ job' = [job EXCEPT ![j] = AfterFailure(j)]
            BY <4>2 DEF AttemptFails
          <5> QED BY <5>1
        <4>3. CASE StarterDies(j)
          BY <4>3 DEF StarterDies
        <4>4. CASE QueueRefuses(j)
          <5>1. job' = [job EXCEPT ![j] = failing]
                  \/ job' = [job EXCEPT ![j] = AfterFailure(j)]
            BY <4>4 DEF QueueRefuses
          <5> QED BY <5>1
        <4>5. CASE RejectStage(j)
          BY <4>5 DEF RejectStage
        <4> QED BY <1>2, <4>1, <4>2, <4>3, <4>4, <4>5 DEF JobFault
      <3>3. PICK row \in {NoJob, Again(j), AfterFailure(j), failing} :
                job' = [job EXCEPT ![j] = row]
        BY <3>2
      <3>4. Calm(row)
        BY <3>1, CalmRows DEF IInv
      <3> QED BY <3>3, <3>4, SetRow, CalmKept DEF IInv
    <2> QED BY <2>1, <2>2, <2>3, KeptInv DEF Kept
  <1> QED BY <1>1, <1>2

LEMMA JobStepStep ==
    ASSUME IInv, NEW j \in Job, JobStep(j)
    PROVE  IInv'
  <1>1. CASE Begin(j) \/ ForceFinish(j) \/ Deliver(j)
    BY <1>1, BeginStep, ForceFinishStep, DeliverStep
  <1>2. CASE \E claimed \in SUBSET Item : Claim(j, claimed)
    BY <1>2, ClaimStep
  <1>3. CASE \E returned \in SUBSET Item : Persist(j, returned)
    BY <1>3, PersistStep
  <1>4. CASE \E output \in SUBSET Item, ok \in BOOLEAN : RunStage(j, output, ok)
    BY <1>4, RunStageStep
  <1>5. CASE Read(j) \/ Report(j)
    BY <1>5, ReadStep, ReportStep
  <1>6. CASE MetadataNext(j) \/ CommentsNext(j) \/ Mine(j) \/ Forward(j)
    BY <1>6, MetadataNextStep, CommentsNextStep, MineStep, ForwardStep
  <1>7. CASE Skip(j) \/ FinishIfReady(j) \/ Fail(j) \/ FailExhausted(j)
    BY <1>7, SkipStep, FinishIfReadyStep, FailStep, FailExhaustedStep
  <1> QED BY <1>1, <1>2, <1>3, <1>4, <1>5, <1>6, <1>7 DEF JobStep

-----------------------------------------------------------------------------
(* The theorems *)

LEMMA InvInit == Init => IInv
  <1> SUFFICES ASSUME Init PROVE IInv
    OBVIOUS
  <1>1. TypeOK
    <2>1. intel \in IntelRow /\ item \in [Item -> ItemStatus]
      BY DEF Init, IntelRow, ItemStatus
    <2>2. job \in [Job -> JobRow] /\ faults \in Nat /\ resumes \in Nat
      BY NoJobType DEF Init
    <2> QED BY <2>1, <2>2 DEF TypeOK
  <1>2. ForcedFoundNothing /\ ClaimsFound
    BY DEF Init, ForcedFoundNothing, ClaimsFound, At, NoJob, Parked
  <1>3. OutcomeNeedsBothBranches
    BY DEF Init, OutcomeNeedsBothBranches
  <1> QED BY <1>1, <1>2, <1>3 DEF IInv

LEMMA InvStep == IInv /\ [Next]_vars => IInv'
  <1> SUFFICES ASSUME IInv, [Next]_vars PROVE IInv'
    OBVIOUS
  <1>1. CASE \E c \in Copy, known \in SUBSET Item : StartPipeline(c, known)
    BY <1>1, StartPipelineStep
  <1>2. CASE \E j \in Job : JobStep(j) \/ JobFault(j)
    BY <1>2, JobStepStep, JobFaultStep
  <1>3. CASE \E c \in Copy : Sweep(c)
    BY <1>3, SweepStep
  <1>4. CASE \E stale \in SUBSET Item : RecoverClaims(stale)
    BY <1>4, RecoverClaimsStep
  <1>5. CASE Resume
    BY <1>5, ResumeStep
  <1>6. CASE UNCHANGED vars
    <2>1. UNCHANGED <<intel, item, job, faults, resumes>> /\ faults' \in Nat
      BY <1>6 DEF vars, IInv, TypeOK
    <2> QED BY <2>1, SameItems, SameIntel, SameJobs, SameCounts, KeptInv DEF Kept
  <1> QED BY <1>1, <1>2, <1>3, <1>4, <1>5, <1>6 DEF Next

(* The inductive invariant: the outcome is only as good as the flags it is   *)
(* computed from, a forced end is for a batch without items, and no claim    *)
(* adds an item to the batch.                                                *)
THEOREM InvCorrect == Spec => []IInv
  BY InvInit, InvStep, PTL DEF Spec

(* The variables keep their types, through every fault and resumption.       *)
THEOREM TypeCorrect == Spec => []TypeOK
  <1>1. IInv => TypeOK
    BY DEF IInv
  <1> QED BY <1>1, InvCorrect, PTL

(* completed and partial are only written over two branches that reported,   *)
(* or for a batch that found nothing, whatever messages of an earlier        *)
(* attempt are delivered again (_finish_if_ready).                           *)
THEOREM OutcomeNeedsBothBranchesCorrect == Spec => []OutcomeNeedsBothBranches
  <1>1. IInv => OutcomeNeedsBothBranches
    BY DEF IInv
  <1> QED BY <1>1, InvCorrect, PTL

-----------------------------------------------------------------------------
(* What a message still owes *)

(* The branches that end with a stage, or with one it leads to. *)
FromStage(stage) ==
    IF stage \in {"start", "metadata", "comments"} THEN Branch
    ELSE IF stage = "sweep" THEN {} ELSE {BranchOf(stage)}

StageOf(stage, row) == IF row.pc = "idle" THEN stage ELSE row.fn

(* The flags a message or worker of a stage still has to set: none on the   *)
(* way to finish_if_ready, and only that of the comments once relevance was *)
(* sent.                                                                    *)
DebtOf(stage, row) ==
    IF row.msg = "none" \/ stage = "sweep" \/ row.pc = "finish" THEN {}
    ELSE IF row.pc = "mine" THEN {"comment"}
    ELSE IF row.pc = "skip" THEN {BranchOf(row.fn)}
    ELSE FromStage(StageOf(stage, row))

Debt(j) == DebtOf(j[1], job[j])

(* The rows the handlers write. *)
RowShape(stage, row) ==
    /\ row.msg # "exhausted"
    /\ row.pc # "idle" <=> row.msg = "held"
    /\ row.pc # "idle" => (row.fn = "sweep" <=> stage = "sweep")
    /\ stage \in PipelineStage \ {"metadata"} /\ row.pc # "idle" => row.fn = stage
    /\ row.pc \in {"begin", "force"} => row.fn = "start"
    /\ row.pc = "work" => row.fn = stage
    /\ row.pc = "fetch" => row.fn \in {"metadata", "sweep"}
    /\ row.pc = "fail" => row.fn = "metadata"
    /\ row.pc \in {"report", "next"} => row.fn \notin {"start", "sweep"}
    /\ row.pc = "read" => row.fn \in {"metadata", "comments"}
    /\ row.pc = "mine" => row.fn = "comments"
    /\ row.pc = "skip" => row.fn \notin {"start", "metadata", "sweep"}

Shape == \A j \in Job : RowShape(j[1], job[j])

(* Past the metadata; its two branches are under way or over. *)
LateRow(stage, row) ==
    row.msg # "none" /\ StageOf(stage, row) \notin {"start", "metadata", "sweep"}

Late(j) == LateRow(j[1], job[j])

(* metadata_completed has read back the items. *)
ToldRow(row) == row.pc \in {"report", "next"} /\ row.fn = "metadata"

(* ... or is about to, and has a failure to report. *)
WaryRow(row) == row.pc \in {"read", "report"} /\ row.fn = "metadata" /\ ~row.ok

(* It has found no video and gives the pipeline up, or is forced to end it. *)
DoomedRow(row) ==
    \/ row.pc \in {"fail", "force"}
    \/ ToldRow(row) /\ row.output = {} /\ ~row.more

(* It has found videos and goes on to their comments. *)
Forks(j) ==
    /\ At(j, "next") /\ job[j].fn = "metadata"
    /\ ~job[j].more /\ job[j].output # {}

(* No request is larger than its schema allows. *)
AllFit == Cardinality(Item) <= VideoLimit

(* One step of j: it pays some of its debt, and hands the rest to itself    *)
(* and to the message it sends to m (m = j: it sends none).                 *)
Turned(j, m, paid) ==
    /\ m # j => job[m].msg = "none" /\ job'[m].pc = "idle" /\ m[1] # "sweep"
    /\ \A k \in Job \ {j, m} : job'[k] = job[k]
    /\ intel'.done = intel.done \cup paid
    /\ intel.failed => intel'.failed
    /\ AllFit => Debt(j) \subseteq Debt(j)' \cup Debt(m)' \cup paid
    /\ FaultKinds = {} =>
         /\ Debt(j)' \cup Debt(m)' \cup paid \subseteq Debt(j)
         /\ paid \cap (Debt(j)' \cup Debt(m)') = {}
         /\ m # j => Debt(j)' \cap Debt(m)' = {}
         /\ WaryRow(job[j]) => WaryRow(job'[j]) \/ intel'.failed
    /\ paid # {} => Late(j)
    /\ Late(j)' \/ Late(m)' => Late(j) \/ Forks(j)
    /\ DoomedRow(job'[j]) => DoomedRow(job[j]) \/ Processed = {}
    /\ ToldRow(job'[j]) =>
         \/ ToldRow(job[j]) /\ job'[j].output = job[j].output /\ job'[j].more = job[j].more
         \/ At(j, "read") /\ job'[j].output = Processed /\ job'[j].more = (Pending # {})

Moves(j) == \E m \in Job, paid \in SUBSET Branch : Turned(j, m, paid)

NoFetch(j) == job'[j].pc # "fetch" /\ (FaultKinds = {} => job[j].pc # "fetch")

-----------------------------------------------------------------------------
LEMMA BranchOfIs ==
    ASSUME NEW fn
    PROVE  BranchOf(fn) = IF fn \in {"relevance", "signals", "norm_video"} THEN "video" ELSE "comment"
  BY DEF BranchOf

LEMMA DebtType ==
    ASSUME NEW stage, NEW row
    PROVE  DebtOf(stage, row) \subseteq Branch /\ FromStage(stage) \subseteq Branch
  BY BranchOfIs DEF DebtOf, FromStage, Branch

(* A row without a worker. *)
LEMMA NoJobRow ==
    ASSUME NEW stage
    PROVE  /\ RowShape(stage, NoJob) /\ DebtOf(stage, NoJob) = {} /\ ~LateRow(stage, NoJob)
           /\ ~DoomedRow(NoJob) /\ ~ToldRow(NoJob) /\ ~WaryRow(NoJob) /\ NoJob.pc = "idle"
  BY DEF NoJob, Parked, RowShape, DebtOf, LateRow, DoomedRow, ToldRow, WaryRow

LEMMA QueuedRow ==
    ASSUME NEW stage, NEW tries, NEW videos, NEW row, row = Parked("queued", tries, videos)
    PROVE  /\ RowShape(stage, row) /\ DebtOf(stage, row) = FromStage(stage)
           /\ LateRow(stage, row) <=> stage \notin {"start", "metadata", "sweep"}
           /\ ~DoomedRow(row) /\ ~ToldRow(row) /\ ~WaryRow(row) /\ row.pc = "idle"
           /\ row.msg = "queued"
  BY DEF Parked, RowShape, DebtOf, LateRow, StageOf, DoomedRow, ToldRow, WaryRow, FromStage

(* A message that comes again owes what its worker owed, or more. *)
LEMMA AgainOwes ==
    ASSUME NEW stage \in Stage, NEW row, RowShape(stage, row)
    PROVE  /\ DebtOf(stage, row) \subseteq FromStage(stage)
           /\ row.msg # "none" /\ stage \notin {"start", "metadata", "sweep"} => LateRow(stage, row)
  <1>1. DebtOf(stage, row) \subseteq Branch
    BY DebtType
  <1>2. CASE stage \in {"start", "metadata", "comments"}
    BY <1>1, <1>2 DEF FromStage, LateRow, StageOf, RowShape, PipelineStage
  <1>3. CASE stage = "sweep"
    BY <1>3 DEF DebtOf
  <1>4. CASE stage \in {"relevance", "signals", "pain", "norm_video", "norm_comment"}
    BY <1>4, BranchOfIs DEF FromStage, LateRow, StageOf, RowShape, PipelineStage, DebtOf
  <1> QED BY <1>2, <1>3, <1>4 DEF Stage, PipelineStage

-----------------------------------------------------------------------------
(* The two kinds of step: j only, or j and a message it sends *)

LEMMA OneRow ==
    ASSUME IInv, Shape, NEW j \in Job, NEW row, RowShape(j[1], row),
           job' = [job EXCEPT ![j] = row]
    PROVE  Shape' /\ job'[j] = row /\ \A k \in Job \ {j} : job'[k] = job[k]
  <1>1. job'[j] = row /\ \A k \in Job \ {j} : job'[k] = job[k]
    BY DEF IInv, TypeOK
  <1> QED BY <1>1 DEF Shape

LEMMA TwoRows ==
    ASSUME IInv, Shape, NEW j \in Job, job[j].msg # "none", NEW stage \in Stage, NEW videos,
           NEW row, RowShape(j[1], row), Send(j, stage, videos, row)
    PROVE  /\ Shape' /\ job'[j] = row
           /\ \E m \in Job \ {j} :
                 /\ m[1] = stage /\ job[m].msg = "none"
                 /\ job'[m] = Parked("queued", 0, videos)
                 /\ \A k \in Job \ {j, m} : job'[k] = job[k]
  <1>1. PICK c \in Copy :
            /\ job[<<stage, c>>].msg = "none"
            /\ job' = [job EXCEPT ![<<stage, c>>] = Parked("queued", 0, videos), ![j] = row]
    BY DEF Send
  <1> DEFINE m == <<stage, c>>
  <1>2. m \in Job /\ m # j /\ m[1] = stage
    BY <1>1 DEF Job
  <1>3. /\ job'[j] = row /\ job'[m] = Parked("queued", 0, videos)
        /\ \A k \in Job \ {j, m} : job'[k] = job[k]
    BY <1>1, <1>2 DEF IInv, TypeOK
  <1>4. RowShape(m[1], job'[m])
    BY <1>3, QueuedRow
  <1>5. Shape'
    BY <1>3, <1>4 DEF Shape
  <1> QED BY <1>1, <1>2, <1>3, <1>5

(* The end of a handler. *)
LEMMA EndRow ==
    ASSUME IInv, Shape, NEW j \in Job, NEW row \in {NoJob, Again(j)}, Over(j, row)
    PROVE  /\ RowShape(j[1], row) /\ row.pc = "idle"
           /\ ~DoomedRow(row) /\ ~ToldRow(row) /\ ~WaryRow(row)
           /\ FaultKinds = {} => row = NoJob
           /\ row = NoJob \/ (row = Again(j) /\ DebtOf(j[1], row) = FromStage(j[1]))
           /\ LateRow(j[1], row) => row = Again(j) /\ j[1] \notin {"start", "metadata", "sweep"}
  <1>1. CASE row = NoJob
    <2>1. /\ RowShape(j[1], NoJob) /\ NoJob.pc = "idle" /\ ~LateRow(j[1], NoJob)
          /\ ~DoomedRow(NoJob) /\ ~ToldRow(NoJob) /\ ~WaryRow(NoJob)
      BY NoJobRow
    <2> QED BY <1>1, <2>1
  <1>2. CASE row = Again(j) /\ Fault("crash")
    <2>1. row = Parked("queued", job[j].tries, job[j].input)
      BY <1>2 DEF Again
    <2>2. FaultKinds # {}
      BY <1>2 DEF Fault
    <2> QED BY <1>2, <2>1, <2>2, QueuedRow
  <1> QED BY <1>1, <1>2 DEF Over

LEMMA TurnsAlone ==
    ASSUME IInv, Shape, NEW j \in Job, NEW row, RowShape(j[1], row),
           job' = [job EXCEPT ![j] = row],
           NEW paid \in SUBSET Branch,
           intel'.done = intel.done \cup paid, intel.failed => intel'.failed,
           AllFit => Debt(j) \subseteq DebtOf(j[1], row) \cup paid,
           FaultKinds = {} => /\ DebtOf(j[1], row) \cup paid \subseteq Debt(j)
                              /\ paid \cap DebtOf(j[1], row) = {}
                              /\ WaryRow(job[j]) => WaryRow(row) \/ intel'.failed,
           paid # {} => Late(j),
           LateRow(j[1], row) => Late(j) \/ Forks(j),
           DoomedRow(row) => DoomedRow(job[j]) \/ Processed = {},
           ToldRow(row) => \/ ToldRow(job[j]) /\ row.output = job[j].output /\ row.more = job[j].more
                           \/ At(j, "read") /\ row.output = Processed /\ row.more = (Pending # {})
    PROVE  Moves(j) /\ Shape' /\ job'[j] = row
  <1>1. Shape' /\ job'[j] = row /\ \A k \in Job \ {j} : job'[k] = job[k]
    BY OneRow
  <1>2. Debt(j)' = DebtOf(j[1], row) /\ (Late(j)' <=> LateRow(j[1], row))
    BY <1>1 DEF Debt, Late
  <1>3. Turned(j, j, paid)
    BY <1>1, <1>2 DEF Turned
  <1> QED BY <1>1, <1>3 DEF Moves

(* The debt stays with j. *)
LEMMA StaysAlone ==
    ASSUME IInv, Shape, NEW j \in Job, NEW row, RowShape(j[1], row),
           job' = [job EXCEPT ![j] = row],
           intel'.done = intel.done, intel.failed => intel'.failed,
           DebtOf(j[1], row) = Debt(j),
           WaryRow(job[j]) => WaryRow(row) \/ intel'.failed,
           LateRow(j[1], row) => Late(j) \/ Forks(j),
           DoomedRow(row) => DoomedRow(job[j]) \/ Processed = {},
           ToldRow(row) => \/ ToldRow(job[j]) /\ row.output = job[j].output /\ row.more = job[j].more
                           \/ At(j, "read") /\ row.output = Processed /\ row.more = (Pending # {})
    PROVE  Moves(j) /\ Shape' /\ job'[j] = row
  <1>1. Shape' /\ job'[j] = row /\ \A k \in Job \ {j} : job'[k] = job[k]
    BY OneRow
  <1>2. Debt(j)' = DebtOf(j[1], row) /\ (Late(j)' <=> LateRow(j[1], row))
    BY <1>1 DEF Debt, Late
  <1>3. Turned(j, j, {})
    BY <1>1, <1>2 DEF Turned
  <1> QED BY <1>1, <1>3 DEF Moves

(* j hands debts on with a message and keeps the rest. *)
LEMMA TurnsSending ==
    ASSUME IInv, Shape, NEW j \in Job, job[j].msg # "none", NEW stage \in Stage \ {"sweep"}, NEW videos,
           NEW row, RowShape(j[1], row), Send(j, stage, videos, row),
           intel' = intel,
           AllFit => Debt(j) \subseteq FromStage(stage) \cup DebtOf(j[1], row),
           FaultKinds = {} => /\ FromStage(stage) \cup DebtOf(j[1], row) \subseteq Debt(j)
                              /\ FromStage(stage) \cap DebtOf(j[1], row) = {}
                              /\ ~WaryRow(job[j]),
           LateRow(j[1], row) => Late(j) \/ Forks(j),
           stage \notin {"start", "metadata"} => Late(j) \/ Forks(j),
           ~DoomedRow(row), ~ToldRow(row)
    PROVE  Moves(j) /\ Shape' /\ job'[j] = row
  <1>1. Shape' /\ job'[j] = row
    BY TwoRows
  <1>2. PICK m \in Job \ {j} : /\ m[1] = stage /\ job[m].msg = "none"
                               /\ job'[m] = Parked("queued", 0, videos)
                               /\ \A k \in Job \ {j, m} : job'[k] = job[k]
    BY TwoRows
  <1>3. /\ Debt(m)' = FromStage(stage) /\ job'[m].pc = "idle"
        /\ Late(m)' <=> stage \notin {"start", "metadata", "sweep"}
    BY <1>2, QueuedRow DEF Debt, Late
  <1>4. Debt(j)' = DebtOf(j[1], row) /\ (Late(j)' <=> LateRow(j[1], row))
    BY <1>1 DEF Debt, Late
  <1>5. Turned(j, m, {})
    BY <1>1, <1>2, <1>3, <1>4 DEF Turned
  <1> QED BY <1>1, <1>5 DEF Moves

-----------------------------------------------------------------------------
(* The steps of the handlers *)

LEMMA BeginMoves ==
    ASSUME IInv, Shape, NEW j \in Job, Begin(j)
    PROVE  Moves(j) /\ Shape' /\ NoFetch(j)
  <1>1. /\ job[j] \in JobRow /\ job[j].pc = "begin" /\ job[j].fn = "start" /\ job[j].msg = "held"
        /\ RowShape(j[1], job[j]) /\ intel' = intel
    BY DEF Begin, At, Shape, RowShape, IInv, TypeOK
  <1>2. Debt(j) = Branch /\ j[1] \in Stage \ {"sweep"}
    BY <1>1 DEF Debt, DebtOf, StageOf, FromStage, RowShape, Job
  <1>3. intel'.done = intel.done \cup {} /\ {} \in SUBSET Branch
    BY <1>1
  <1>4. CASE Found = {} /\ Goto(j, "force")
    <2> DEFINE row == [job[j] EXCEPT !.pc = "force"]
    <2>1. row.msg = "held" /\ row.pc = "force" /\ row.fn = "start"
      BY <1>1 DEF JobRow
    <2>2. RowShape(j[1], row) /\ DebtOf(j[1], row) = Branch /\ ~LateRow(j[1], row)
      BY <1>1, <1>2, <2>1 DEF RowShape, DebtOf, StageOf, FromStage, LateRow
    <2>3. ~ToldRow(row) /\ ~WaryRow(job[j]) /\ Processed = {}
      BY <1>1, <1>4, <2>1 DEF ToldRow, WaryRow, Found, Processed
    <2>4. job' = [job EXCEPT ![j] = row]
      BY <1>4 DEF Goto
    <2> HIDE DEF row
    <2>5. Moves(j) /\ Shape' /\ job'[j] = row
      BY <1>1, <1>2, <1>3, <2>2, <2>3, <2>4, StaysAlone
    <2> QED BY <1>1, <2>1, <2>5 DEF NoFetch
  <1>5. CASE job' = [job EXCEPT ![j] = [@ EXCEPT !.fn = "metadata", !.pc = "read"]]
    <2> DEFINE row == [job[j] EXCEPT !.fn = "metadata", !.pc = "read"]
    <2>1. row.msg = "held" /\ row.pc = "read" /\ row.fn = "metadata"
      BY <1>1 DEF JobRow
    <2>2. RowShape(j[1], row) /\ DebtOf(j[1], row) = Branch /\ ~LateRow(j[1], row)
      BY <1>1, <1>2, <2>1 DEF RowShape, DebtOf, StageOf, FromStage, LateRow, PipelineStage
    <2>3. ~ToldRow(row) /\ ~WaryRow(job[j]) /\ ~DoomedRow(row)
      BY <1>1, <2>1 DEF ToldRow, WaryRow, DoomedRow
    <2>4. job' = [job EXCEPT ![j] = row]
      BY <1>5
    <2> HIDE DEF row
    <2>5. Moves(j) /\ Shape' /\ job'[j] = row
      BY <1>1, <1>2, <1>3, <2>2, <2>3, <2>4, StaysAlone
    <2> QED BY <1>1, <2>1, <2>5 DEF NoFetch
  <1>6. CASE Send(j, "metadata", {}, NoJob)
    <2>1. /\ RowShape(j[1], NoJob) /\ DebtOf(j[1], NoJob) = {} /\ ~LateRow(j[1], NoJob)
          /\ ~DoomedRow(NoJob) /\ ~ToldRow(NoJob) /\ NoJob.pc = "idle"
      BY NoJobRow
    <2>2. FromStage("metadata") = Branch /\ "metadata" \in Stage \ {"sweep"} /\ ~WaryRow(job[j])
      BY <1>1 DEF FromStage, Stage, PipelineStage, WaryRow
    <2>3. Moves(j) /\ Shape' /\ job'[j] = NoJob
      BY <1>1, <1>2, <1>6, <2>1, <2>2, TurnsSending
    <2> QED BY <1>1, <2>1, <2>3 DEF NoFetch
  <1> QED BY <1>4, <1>5, <1>6 DEF Begin

(* j keeps its debt with a row of these fields. *)
LEMMA GoesOn ==
    ASSUME IInv, Shape, NEW j \in Job, NEW row, RowShape(j[1], row),
           job' = [job EXCEPT ![j] = row], UNCHANGED intel,
           job[j].pc \notin {"mine", "skip", "finish", "idle"}, job[j].msg = "held",
           row.pc \notin {"mine", "skip", "finish", "idle"}, row.msg = "held", row.fn = job[j].fn,
           WaryRow(job[j]) => WaryRow(row),
           DoomedRow(row) => DoomedRow(job[j]) \/ Processed = {},
           ToldRow(row) => \/ ToldRow(job[j]) /\ row.output = job[j].output /\ row.more = job[j].more
                           \/ At(j, "read") /\ row.output = Processed /\ row.more = (Pending # {})
    PROVE  Moves(j) /\ Shape' /\ job'[j] = row
  <1>1. DebtOf(j[1], row) = Debt(j)
    BY DEF DebtOf, Debt, StageOf
  <1>2. LateRow(j[1], row) => Late(j)
    BY DEF LateRow, Late, StageOf
  <1> QED BY <1>1, <1>2, StaysAlone

(* j leaves the stages with nothing owed.                                   *)
LEMMA Leaves ==
    ASSUME IInv, Shape, NEW j \in Job,
           job' = [job EXCEPT ![j] = NoJob], UNCHANGED intel,
           AllFit => Debt(j) = {}, FaultKinds = {} => ~WaryRow(job[j])
    PROVE  Moves(j) /\ Shape' /\ job'[j] = NoJob
  <1>1. /\ RowShape(j[1], NoJob) /\ DebtOf(j[1], NoJob) = {} /\ ~LateRow(j[1], NoJob)
        /\ ~DoomedRow(NoJob) /\ ~ToldRow(NoJob)
    BY NoJobRow
  <1>2. Shape' /\ job'[j] = NoJob /\ \A k \in Job \ {j} : job'[k] = job[k]
    BY <1>1, OneRow
  <1>3. Debt(j)' = {} /\ ~Late(j)'
    BY <1>1, <1>2 DEF Debt, Late
  <1>4. Turned(j, j, {})
    BY <1>1, <1>2, <1>3 DEF Turned
  <1> QED BY <1>2, <1>4 DEF Moves

LEMMA DeliverMoves ==
    ASSUME IInv, Shape, NEW j \in Job, Deliver(j)
    PROVE  Moves(j) /\ Shape' /\ NoFetch(j)
  <1>1. /\ job[j] \in JobRow /\ job[j].msg = "queued" /\ job[j].pc = "idle" /\ j[1] \in Stage
        /\ UNCHANGED intel
    BY DEF Deliver, Shape, RowShape, IInv, TypeOK, Job
  <1>2. Debt(j) = FromStage(j[1])
    BY <1>1 DEF Debt, DebtOf, StageOf, FromStage
  <1>3. ~WaryRow(job[j])
    BY <1>1 DEF WaryRow
  <1>4. CASE TooLarge(j)
    <2>1. job' = [job EXCEPT ![j] = NoJob]
      BY <1>4 DEF Deliver
    <2>2. ~AllFit
      <3>1. job[j].input \in SUBSET Item
        BY <1>1 DEF JobRow
      <3>2. Cardinality(job[j].input) <= Cardinality(Item) /\ Cardinality(Item) \in Nat
            /\ Cardinality(job[j].input) \in Nat
        BY <3>1, ItemAssumption, FS_Subset, FS_CardinalityType
      <3> QED BY <1>4, <3>2, LimitsAssumption DEF TooLarge, AllFit
    <2>3. Moves(j) /\ Shape' /\ job'[j] = NoJob
      BY <1>1, <1>3, <2>1, <2>2, Leaves
    <2> QED BY <1>1, <2>3, NoJobRow DEF NoFetch
  <1>5. CASE ~TooLarge(j)
    <2> DEFINE row == [job[j] EXCEPT !.msg = "held", !.fn = j[1], !.pc = "work"]
    <2>1. row.msg = "held" /\ row.pc = "work" /\ row.fn = j[1]
      BY <1>1 DEF JobRow
    <2>2. /\ RowShape(j[1], row) /\ DebtOf(j[1], row) = FromStage(j[1])
          /\ LateRow(j[1], row) => Late(j)
      BY <1>1, <2>1 DEF RowShape, DebtOf, StageOf, FromStage, LateRow, Late
    <2>3. ~ToldRow(row) /\ ~DoomedRow(row)
      BY <2>1 DEF ToldRow, DoomedRow
    <2>4. job' = [job EXCEPT ![j] = row]
      BY <1>5 DEF Deliver
    <2> HIDE DEF row
    <2>5. Moves(j) /\ Shape' /\ job'[j] = row
      BY <1>1, <1>2, <1>3, <2>2, <2>3, <2>4, StaysAlone
    <2> QED BY <1>1, <2>1, <2>5 DEF NoFetch
  <1> QED BY <1>4, <1>5

LEMMA ClaimMoves ==
    ASSUME IInv, Shape, NEW j \in Job, NEW claimed \in SUBSET Item, Claim(j, claimed)
    PROVE  /\ Moves(j) /\ Shape'
           /\ job'[j].pc = "fetch" => claimed # {} /\ job'[j].output = claimed
  <1>1. /\ job[j] \in JobRow /\ job[j].pc = "work" /\ job[j].msg = "held" /\ UNCHANGED intel
        /\ job[j].fn = j[1] /\ job[j].fn \in {"metadata", "sweep"} /\ ~WaryRow(job[j])
    BY DEF Claim, At, Shape, RowShape, IInv, TypeOK, WaryRow
  <1>2. CASE claimed # {}
    <2> DEFINE row == [job[j] EXCEPT !.pc = "fetch", !.output = claimed]
    <2>1. row.msg = "held" /\ row.pc = "fetch" /\ row.fn = j[1] /\ row.output = claimed
      BY <1>1 DEF JobRow
    <2>2. RowShape(j[1], row)
      BY <1>1, <2>1 DEF RowShape, PipelineStage
    <2>3. ~ToldRow(row) /\ ~DoomedRow(row)
      BY <2>1 DEF ToldRow, DoomedRow
    <2>4. job' = [job EXCEPT ![j] = row]
      BY <1>2 DEF Claim
    <2> HIDE DEF row
    <2>5. Moves(j) /\ Shape' /\ job'[j] = row
      BY <1>1, <2>1, <2>2, <2>3, <2>4, GoesOn
    <2> QED BY <1>2, <2>1, <2>5
  <1>3. CASE claimed = {} /\ j[1] = "sweep"
    <2>1. job' = [job EXCEPT ![j] = NoJob] /\ Debt(j) = {}
      BY <1>3 DEF Claim, Debt, DebtOf
    <2>2. Moves(j) /\ Shape' /\ job'[j] = NoJob
      BY <1>1, <2>1, Leaves
    <2> QED BY <2>2, NoJobRow
  <1>4. CASE claimed = {} /\ j[1] # "sweep"
    <2> DEFINE row == [job[j] EXCEPT !.pc = "read"]
    <2>1. row.msg = "held" /\ row.pc = "read" /\ row.fn = j[1]
      BY <1>1 DEF JobRow
    <2>2. RowShape(j[1], row)
      BY <1>1, <1>4, <2>1 DEF RowShape, PipelineStage
    <2>3. ~ToldRow(row) /\ ~DoomedRow(row)
      BY <2>1 DEF ToldRow, DoomedRow
    <2>4. job' = [job EXCEPT ![j] = row]
      BY <1>4 DEF Claim
    <2> HIDE DEF row
    <2>5. Moves(j) /\ Shape' /\ job'[j] = row
      BY <1>1, <2>1, <2>2, <2>3, <2>4, GoesOn
    <2> QED BY <2>1, <2>5
  <1> QED BY <1>2, <1>3, <1>4

(* After the fetch: a sweep is over, a stage reads back what it reports. *)
LEMMA FetchedMoves ==
    ASSUME IInv, Shape, NEW j \in Job, At(j, "fetch"), NEW ok \in BOOLEAN,
           job' = [job EXCEPT ![j] = Fetched(j, ok)], UNCHANGED intel
    PROVE  /\ Moves(j) /\ Shape'
           /\ job'[j].pc # "fetch"
           /\ j[1] # "sweep" => job'[j].pc = "read" /\ job'[j].fn = "metadata" /\ job'[j].ok = ok
  <1>1. /\ job[j] \in JobRow /\ job[j].pc = "fetch" /\ job[j].msg = "held"
        /\ job[j].fn \in {"metadata", "sweep"} /\ ~WaryRow(job[j]) /\ UNCHANGED intel
        /\ (job[j].fn = "sweep" <=> j[1] = "sweep") /\ j[1] \notin PipelineStage \ {"metadata"}
    BY DEF At, Shape, RowShape, IInv, TypeOK, WaryRow, PipelineStage
  <1>2. CASE j[1] = "sweep"
    <2>1. job' = [job EXCEPT ![j] = NoJob] /\ Debt(j) = {}
      BY <1>2 DEF Fetched, Debt, DebtOf
    <2>2. Moves(j) /\ Shape' /\ job'[j] = NoJob
      BY <1>1, <2>1, Leaves
    <2> QED BY <1>2, <2>2, NoJobRow
  <1>3. CASE j[1] # "sweep"
    <2> DEFINE row == [job[j] EXCEPT !.pc = "read", !.ok = ok]
    <2>1. row.msg = "held" /\ row.pc = "read" /\ row.fn = "metadata" /\ job[j].fn = "metadata"
      BY <1>1, <1>3 DEF JobRow
    <2>2. RowShape(j[1], row)
      BY <1>1, <1>3, <2>1 DEF RowShape, PipelineStage
    <2>3. ~ToldRow(row) /\ ~DoomedRow(row)
      BY <2>1 DEF ToldRow, DoomedRow
    <2>4. job' = [job EXCEPT ![j] = row]
      BY <1>3 DEF Fetched
    <2>5. row.ok = ok
      BY <1>1 DEF JobRow
    <2>6. row.pc \notin {"mine", "skip", "finish", "idle"} /\ row.fn = job[j].fn
      BY <2>1
    <2> HIDE DEF row
    <2>7. Moves(j) /\ Shape' /\ job'[j] = row
      BY <1>1, <2>1, <2>2, <2>3, <2>4, <2>6, GoesOn
    <2> QED BY <2>1, <2>5, <2>7
  <1> QED BY <1>2, <1>3

LEMMA RunStageMoves ==
    ASSUME IInv, Shape, NEW j \in Job, NEW output \in SUBSET Item, NEW ok \in BOOLEAN,
           RunStage(j, output, ok)
    PROVE  Moves(j) /\ Shape' /\ NoFetch(j)
  <1> DEFINE pc == IF job[j].fn = "comments" THEN "read" ELSE "report"
             row == [job[j] EXCEPT !.pc = pc, !.output = output, !.ok = ok]
  <1>1. /\ job[j] \in JobRow /\ job[j].pc = "work" /\ job[j].msg = "held" /\ UNCHANGED intel
        /\ job[j].fn = j[1] /\ j[1] \in PipelineStage \ {"metadata"} /\ ~WaryRow(job[j])
    BY DEF RunStage, At, Shape, RowShape, IInv, TypeOK, WaryRow
  <1>2. row.msg = "held" /\ row.pc = pc /\ row.fn = j[1]
    BY <1>1 DEF JobRow
  <1>3. RowShape(j[1], row)
    BY <1>1, <1>2 DEF RowShape, PipelineStage
  <1>4. ~ToldRow(row) /\ ~DoomedRow(row)
    BY <1>1, <1>2 DEF ToldRow, DoomedRow
  <1>5. job' = [job EXCEPT ![j] = row]
    BY DEF RunStage
  <1>6. row.pc \notin {"mine", "skip", "finish", "idle", "fetch"}
    BY <1>2
  <1> HIDE DEF row, pc
  <1>7. Moves(j) /\ Shape' /\ job'[j] = row
    BY <1>1, <1>2, <1>3, <1>4, <1>5, <1>6, GoesOn
  <1> QED BY <1>1, <1>6, <1>7 DEF NoFetch

LEMMA ReadMoves ==
    ASSUME IInv, Shape, NEW j \in Job, Read(j)
    PROVE  Moves(j) /\ Shape' /\ NoFetch(j)
  <1> DEFINE row == [job[j] EXCEPT !.pc = "report", !.output = Processed, !.more = (Pending # {})]
  <1>1. /\ job[j] \in JobRow /\ job[j].pc = "read" /\ job[j].msg = "held" /\ UNCHANGED intel
        /\ RowShape(j[1], job[j])
    BY DEF Read, At, Shape, RowShape, IInv, TypeOK
  <1>2. /\ row.msg = "held" /\ row.pc = "report" /\ row.fn = job[j].fn /\ row.ok = job[j].ok
        /\ row.output = Processed /\ row.more = (Pending # {})
    BY <1>1 DEF JobRow
  <1>3. RowShape(j[1], row)
    BY <1>1, <1>2 DEF RowShape
  <1>4. /\ WaryRow(job[j]) => WaryRow(row)
        /\ DoomedRow(row) => Processed = {}
    BY <1>1, <1>2 DEF WaryRow, DoomedRow
  <1>5. job' = [job EXCEPT ![j] = row]
    BY DEF Read
  <1> HIDE DEF row
  <1>6. Moves(j) /\ Shape' /\ job'[j] = row
    BY <1>1, <1>2, <1>3, <1>4, <1>5, GoesOn DEF At
  <1> QED BY <1>1, <1>2, <1>6 DEF NoFetch

(* update_metrics *)
LEMMA ReportMoves ==
    ASSUME IInv, Shape, NEW j \in Job, Report(j)
    PROVE  /\ Moves(j) /\ Shape' /\ NoFetch(j)
           /\ intel'.status = "processing"
           /\ FaultKinds = {} => (WaryRow(job[j]) => intel'.failed)
  <1>1. /\ job[j] \in JobRow /\ job[j].pc = "report" /\ job[j].msg = "held"
        /\ RowShape(j[1], job[j]) /\ job[j].ok \in BOOLEAN /\ intel \in IntelRow
    BY DEF Report, At, Shape, RowShape, IInv, TypeOK, JobRow
  <1>2. intel'.status = "processing" /\ intel'.failed = (intel.failed \/ ~job[j].ok)
    BY DEF Report, UpdateMetrics
  <1>3. WaryRow(job[j]) => intel'.failed
    BY <1>2 DEF WaryRow
  <1>4. CASE job[j].fn \in Normalization
    <2> DEFINE row == [job[j] EXCEPT !.pc = "finish", !.output = {}, !.more = FALSE, !.ok = TRUE]
    <2>1. row.msg = "held" /\ row.pc = "finish" /\ row.fn = job[j].fn
      BY <1>1 DEF JobRow
    <2>2. intel'.done = intel.done \cup {BranchOf(job[j].fn)} /\ job' = [job EXCEPT ![j] = row]
      BY <1>4 DEF Report, UpdateMetrics, Close
    <2>3. RowShape(j[1], row) /\ ~ToldRow(row) /\ ~DoomedRow(row) /\ ~WaryRow(row)
      BY <1>1, <1>4, <2>1 DEF RowShape, ToldRow, DoomedRow, WaryRow, Normalization
    <2>4. /\ DebtOf(j[1], row) = {} /\ Debt(j) = {BranchOf(job[j].fn)} /\ Late(j)
          /\ ~LateRow(j[1], row) \/ Late(j)
      BY <1>1, <1>4, <2>1 DEF DebtOf, Debt, StageOf, FromStage, Late, LateRow, Normalization, RowShape
    <2>5. PICK paid \in SUBSET Branch : paid = {BranchOf(job[j].fn)}
      BY BranchOfType
    <2> HIDE DEF row
    <2>6. Moves(j) /\ Shape' /\ job'[j] = row
      <3>1. intel'.done = intel.done \cup paid /\ Debt(j) = paid
        BY <2>2, <2>4, <2>5
      <3>2. AllFit => Debt(j) \subseteq DebtOf(j[1], row) \cup paid
        BY <3>1
      <3>3. FaultKinds = {} => /\ DebtOf(j[1], row) \cup paid \subseteq Debt(j)
                               /\ paid \cap DebtOf(j[1], row) = {}
                               /\ WaryRow(job[j]) => WaryRow(row) \/ intel'.failed
        BY <1>3, <2>4, <3>1
      <3>4. (intel.failed => intel'.failed) /\ (paid # {} => Late(j))
        BY <1>2, <2>4
      <3> QED BY <2>2, <2>3, <2>4, <3>1, <3>2, <3>3, <3>4, TurnsAlone
    <2> QED BY <1>1, <1>2, <1>3, <2>1, <2>6 DEF NoFetch
  <1>5. CASE job[j].fn \notin Normalization
    <2> DEFINE row == [job[j] EXCEPT !.pc = "next"]
    <2>1. /\ row.msg = "held" /\ row.pc = "next" /\ row.fn = job[j].fn
          /\ row.output = job[j].output /\ row.more = job[j].more
      BY <1>1 DEF JobRow
    <2>2. intel'.done = intel.done /\ job' = [job EXCEPT ![j] = row]
      BY <1>5 DEF Report, UpdateMetrics, Goto
    <2>3. RowShape(j[1], row) /\ (ToldRow(row) => ToldRow(job[j])) /\ (DoomedRow(row) => DoomedRow(job[j]))
      BY <1>1, <2>1 DEF RowShape, ToldRow, DoomedRow
    <2>4. DebtOf(j[1], row) = Debt(j) /\ (LateRow(j[1], row) => Late(j))
      BY <1>1, <2>1 DEF DebtOf, Debt, StageOf, Late, LateRow
    <2> HIDE DEF row
    <2>5. Moves(j) /\ Shape' /\ job'[j] = row
      BY <1>1, <1>2, <1>3, <2>1, <2>2, <2>3, <2>4, StaysAlone
    <2> QED BY <1>1, <1>2, <1>3, <2>1, <2>5 DEF NoFetch
  <1> QED BY <1>4, <1>5

LEMMA MetadataNextMoves ==
    ASSUME IInv, Shape, NEW j \in Job, MetadataNext(j)
    PROVE  Moves(j) /\ Shape' /\ NoFetch(j)
  <1>1. /\ job[j] \in JobRow /\ job[j].pc = "next" /\ job[j].fn = "metadata" /\ job[j].msg = "held"
        /\ RowShape(j[1], job[j]) /\ UNCHANGED intel /\ ~WaryRow(job[j]) /\ j[1] # "sweep"
        /\ j[1] \notin PipelineStage \ {"metadata"}
    BY DEF MetadataNext, At, Shape, RowShape, IInv, TypeOK, WaryRow, PipelineStage
  <1>2. Debt(j) = Branch
    BY <1>1 DEF Debt, DebtOf, StageOf, FromStage
  <1>3. ASSUME NEW stage \in {"metadata", "comments"}, NEW videos, SendLast(j, stage, videos),
               stage = "comments" => Forks(j)
        PROVE  Moves(j) /\ Shape' /\ NoFetch(j)
    <2>1. PICK row \in {NoJob, Again(j)} : Over(j, row) /\ Send(j, stage, videos, row)
      BY <1>3 DEF SendLast
    <2>2. /\ RowShape(j[1], row) /\ row.pc = "idle" /\ ~DoomedRow(row) /\ ~ToldRow(row)
          /\ FaultKinds = {} => row = NoJob
          /\ ~LateRow(j[1], row)
      BY <1>1, <2>1, EndRow DEF PipelineStage, Stage, Job
    <2>3. FromStage(stage) = Branch /\ stage \in Stage \ {"sweep"}
      BY DEF FromStage, Stage, PipelineStage
    <2>4. FaultKinds = {} => DebtOf(j[1], row) = {}
      BY <2>2, NoJobRow
    <2>5. Moves(j) /\ Shape' /\ job'[j] = row
      BY <1>1, <1>2, <1>3, <2>1, <2>2, <2>3, <2>4, TurnsSending
    <2> QED BY <1>1, <2>2, <2>5 DEF NoFetch
  <1>4. CASE job[j].more /\ SendLast(j, "metadata", {})
    BY <1>3, <1>4
  <1>5. CASE ~job[j].more /\ job[j].output = {} /\ Goto(j, "fail")
    <2> DEFINE row == [job[j] EXCEPT !.pc = "fail"]
    <2>1. row.msg = "held" /\ row.pc = "fail" /\ row.fn = "metadata"
      BY <1>1 DEF JobRow
    <2>2. RowShape(j[1], row) /\ DoomedRow(job[j]) /\ ~ToldRow(row)
      BY <1>1, <1>5, <2>1 DEF RowShape, DoomedRow, ToldRow
    <2>3. job' = [job EXCEPT ![j] = row]
      BY <1>5 DEF Goto
    <2> HIDE DEF row
    <2>4. Moves(j) /\ Shape' /\ job'[j] = row
      BY <1>1, <2>1, <2>2, <2>3, GoesOn
    <2> QED BY <1>1, <2>1, <2>4 DEF NoFetch
  <1>6. CASE /\ ~job[j].more /\ job[j].output # {}
             /\ \E eligible \in SUBSET Processed \ {{}} : SendLast(j, "comments", eligible)
    <2>1. Forks(j)
      BY <1>1, <1>6 DEF Forks, At
    <2> QED BY <1>3, <1>6, <2>1
  <1>7. CASE /\ ~job[j].more /\ job[j].output # {}
             /\ job' = [job EXCEPT ![j] = [@ EXCEPT !.fn = "comments", !.pc = "read", !.ok = TRUE]]
    <2> DEFINE row == [job[j] EXCEPT !.fn = "comments", !.pc = "read", !.ok = TRUE]
    <2>1. row.msg = "held" /\ row.pc = "read" /\ row.fn = "comments"
      BY <1>1 DEF JobRow
    <2>2. /\ RowShape(j[1], row) /\ ~DoomedRow(row) /\ ~ToldRow(row) /\ Forks(j)
          /\ DebtOf(j[1], row) = Branch
      BY <1>1, <1>7, <2>1 DEF RowShape, DoomedRow, ToldRow, Forks, At, DebtOf, StageOf, FromStage
    <2>3. job' = [job EXCEPT ![j] = row]
      BY <1>7
    <2> HIDE DEF row
    <2>4. Moves(j) /\ Shape' /\ job'[j] = row
      BY <1>1, <1>2, <2>1, <2>2, <2>3, StaysAlone
    <2> QED BY <1>1, <2>1, <2>4 DEF NoFetch
  <1> QED BY <1>4, <1>5, <1>6, <1>7 DEF MetadataNext

LEMMA CommentsNextMoves ==
    ASSUME IInv, Shape, NEW j \in Job, CommentsNext(j)
    PROVE  Moves(j) /\ Shape' /\ NoFetch(j)
  <1> DEFINE row == [job[j] EXCEPT !.pc = "mine", !.output = {}]
  <1>1. /\ job[j] \in JobRow /\ job[j].pc = "next" /\ job[j].fn = "comments" /\ job[j].msg = "held"
        /\ RowShape(j[1], job[j]) /\ UNCHANGED intel /\ ~WaryRow(job[j]) /\ j[1] # "sweep"
    BY DEF CommentsNext, At, Shape, RowShape, IInv, TypeOK, WaryRow, PipelineStage
  <1>2. row.msg = "held" /\ row.pc = "mine" /\ row.fn = "comments"
    BY <1>1 DEF JobRow
  <1>3. /\ RowShape(j[1], row) /\ ~DoomedRow(row) /\ ~ToldRow(row) /\ Late(j)
        /\ DebtOf(j[1], row) = {"comment"} /\ Debt(j) = Branch /\ FromStage("relevance") = {"video"}
    BY <1>1, <1>2, BranchOfIs DEF RowShape, DoomedRow, ToldRow, Late, LateRow, StageOf, DebtOf, Debt,
                                  FromStage
  <1>4. Send(j, "relevance", job[j].output, row) /\ "relevance" \in Stage \ {"sweep"}
    BY DEF CommentsNext, Stage, PipelineStage
  <1> HIDE DEF row
  <1>5. Moves(j) /\ Shape' /\ job'[j] = row
    BY <1>1, <1>2, <1>3, <1>4, TurnsSending DEF Branch
  <1> QED BY <1>1, <1>2, <1>5 DEF NoFetch

(* A worker past the metadata sends its last message. *)
LEMMA LastMoves ==
    ASSUME IInv, Shape, NEW j \in Job, Late(j), job[j].msg = "held", ~WaryRow(job[j]),
           job[j].pc # "fetch", UNCHANGED intel,
           NEW stage \in {"signals", "pain", "norm_video", "norm_comment"}, NEW videos,
           SendLast(j, stage, videos), Debt(j) = FromStage(stage)
    PROVE  Moves(j) /\ Shape' /\ NoFetch(j)
  <1>1. PICK row \in {NoJob, Again(j)} : Over(j, row) /\ Send(j, stage, videos, row)
    BY DEF SendLast
  <1>2. /\ RowShape(j[1], row) /\ row.pc = "idle" /\ ~DoomedRow(row) /\ ~ToldRow(row)
        /\ FaultKinds = {} => row = NoJob
    BY <1>1, EndRow
  <1>3. FaultKinds = {} => DebtOf(j[1], row) = {}
    BY <1>2, NoJobRow
  <1>4. stage \in Stage \ {"sweep"}
    BY DEF Stage, PipelineStage
  <1>5. Moves(j) /\ Shape' /\ job'[j] = row
    BY <1>1, <1>2, <1>3, <1>4, TurnsSending
  <1> QED BY <1>2, <1>5 DEF NoFetch

(* A step that sends nothing and sets no flag. *)
LEMMA TurnsFree ==
    ASSUME IInv, Shape, NEW j \in Job, NEW row, RowShape(j[1], row),
           job' = [job EXCEPT ![j] = row],
           intel'.done = intel.done, intel.failed => intel'.failed,
           AllFit => Debt(j) \subseteq DebtOf(j[1], row),
           FaultKinds = {} => DebtOf(j[1], row) \subseteq Debt(j) /\ ~WaryRow(job[j]),
           LateRow(j[1], row) => Late(j),
           ~DoomedRow(row), ~ToldRow(row)
    PROVE  Moves(j) /\ Shape' /\ job'[j] = row
  <1>1. Shape' /\ job'[j] = row /\ \A k \in Job \ {j} : job'[k] = job[k]
    BY OneRow
  <1>2. Debt(j)' = DebtOf(j[1], row) /\ (Late(j)' <=> LateRow(j[1], row))
    BY <1>1 DEF Debt, Late
  <1>3. Turned(j, j, {})
    BY <1>1, <1>2 DEF Turned
  <1> QED BY <1>1, <1>3 DEF Moves

(* A worker past the metadata ends its branch early. *)
LEMMA SkipsMoves ==
    ASSUME IInv, Shape, NEW j \in Job, Late(j), job[j].msg = "held", ~WaryRow(job[j]),
           job[j].pc \notin {"fetch", "idle"}, UNCHANGED intel, Close(j, "skip"),
           Debt(j) = {BranchOf(job[j].fn)}, job[j].fn \notin {"start", "metadata", "sweep"}
    PROVE  Moves(j) /\ Shape' /\ NoFetch(j)
  <1> DEFINE row == [job[j] EXCEPT !.pc = "skip", !.output = {}, !.more = FALSE, !.ok = TRUE]
  <1>1. job[j] \in JobRow /\ RowShape(j[1], job[j]) /\ intel'.done = intel.done
    BY DEF IInv, TypeOK, Shape
  <1>2. row.msg = "held" /\ row.pc = "skip" /\ row.fn = job[j].fn
    BY <1>1 DEF JobRow
  <1>3. /\ RowShape(j[1], row) /\ ~DoomedRow(row) /\ ~ToldRow(row)
        /\ DebtOf(j[1], row) = Debt(j)
    BY <1>1, <1>2 DEF RowShape, DoomedRow, ToldRow, DebtOf
  <1>4. job' = [job EXCEPT ![j] = row]
    BY DEF Close
  <1> HIDE DEF row
  <1>5. Moves(j) /\ Shape' /\ job'[j] = row
    BY <1>1, <1>3, <1>4, StaysAlone
  <1> QED BY <1>2, <1>5 DEF NoFetch

LEMMA MineMoves ==
    ASSUME IInv, Shape, NEW j \in Job, Mine(j)
    PROVE  Moves(j) /\ Shape' /\ NoFetch(j)
  <1>1. /\ job[j].pc = "mine" /\ job[j].fn = "comments" /\ job[j].msg = "held"
        /\ RowShape(j[1], job[j]) /\ UNCHANGED intel /\ ~WaryRow(job[j]) /\ j[1] # "sweep"
    BY DEF Mine, At, Shape, RowShape, WaryRow
  <1>2. /\ Debt(j) = {"comment"} /\ FromStage("pain") = {"comment"} /\ BranchOf("comments") = "comment"
        /\ Late(j)
    BY <1>1, BranchOfIs DEF Debt, DebtOf, FromStage, Late, LateRow, StageOf
  <1>3. CASE \E commented \in SUBSET Processed \ {{}} : SendLast(j, "pain", commented)
    BY <1>1, <1>2, <1>3, LastMoves
  <1>4. CASE Close(j, "skip")
    BY <1>1, <1>2, <1>4, SkipsMoves
  <1> QED BY <1>3, <1>4 DEF Mine

LEMMA ForwardMoves ==
    ASSUME IInv, Shape, NEW j \in Job, Forward(j)
    PROVE  Moves(j) /\ Shape' /\ NoFetch(j)
  <1>1. /\ job[j].pc = "next" /\ job[j].fn \in {"relevance", "signals", "pain"} /\ job[j].msg = "held"
        /\ RowShape(j[1], job[j]) /\ UNCHANGED intel /\ ~WaryRow(job[j]) /\ j[1] # "sweep"
    BY DEF Forward, At, Shape, RowShape, WaryRow
  <1>2. /\ Debt(j) = {BranchOf(job[j].fn)} /\ Late(j)
        /\ NextStage(job[j].fn) \in {"signals", "norm_video", "norm_comment"}
        /\ FromStage(NextStage(job[j].fn)) = {BranchOf(job[j].fn)}
    BY <1>1, BranchOfIs DEF Debt, DebtOf, FromStage, Late, LateRow, StageOf, NextStage
  <1>3. CASE SendLast(j, NextStage(job[j].fn), job[j].output)
    BY <1>1, <1>2, <1>3, LastMoves
  <1>4. CASE Close(j, "skip")
    BY <1>1, <1>2, <1>4, SkipsMoves
  <1> QED BY <1>3, <1>4 DEF Forward

LEMMA SkipMoves ==
    ASSUME IInv, Shape, NEW j \in Job, Skip(j)
    PROVE  Moves(j) /\ Shape' /\ NoFetch(j) /\ intel'.status = "processing"
  <1>1. /\ job[j] \in JobRow /\ job[j].pc = "skip" /\ job[j].msg = "held"
        /\ RowShape(j[1], job[j]) /\ ~WaryRow(job[j])
    BY DEF Skip, At, Shape, RowShape, IInv, TypeOK, WaryRow
  <1>2. /\ intel'.status = "processing" /\ (intel.failed => intel'.failed)
        /\ intel'.done = intel.done \cup {BranchOf(job[j].fn)}
    BY DEF Skip, UpdateMetrics
  <1>3. Debt(j) = {BranchOf(job[j].fn)} /\ Late(j)
    BY <1>1 DEF Debt, DebtOf, Late, LateRow, StageOf, RowShape
  <1>4. PICK paid \in SUBSET Branch : paid = {BranchOf(job[j].fn)}
    BY BranchOfType
  <1>5. ASSUME NEW row, RowShape(j[1], row), job' = [job EXCEPT ![j] = row],
               ~DoomedRow(row), ~ToldRow(row), row.pc # "fetch",
               FaultKinds = {} => DebtOf(j[1], row) = {}
        PROVE  Moves(j) /\ Shape' /\ NoFetch(j)
    <2>1. intel'.done = intel.done \cup paid /\ Debt(j) = paid
      BY <1>2, <1>3, <1>4
    <2>2. AllFit => Debt(j) \subseteq DebtOf(j[1], row) \cup paid
      BY <2>1
    <2>3. FaultKinds = {} => /\ DebtOf(j[1], row) \cup paid \subseteq Debt(j)
                             /\ paid \cap DebtOf(j[1], row) = {}
                             /\ WaryRow(job[j]) => WaryRow(row) \/ intel'.failed
      BY <1>1, <1>5, <2>1
    <2>4. Moves(j) /\ Shape' /\ job'[j] = row
      BY <1>2, <1>3, <1>5, <2>1, <2>2, <2>3, TurnsAlone
    <2> QED BY <1>1, <1>5, <2>4 DEF NoFetch
  <1>6. CASE End(j)
    <2>1. PICK row \in {NoJob, Again(j)} : Over(j, row) /\ job' = [job EXCEPT ![j] = row]
      BY <1>6 DEF End
    <2>2. /\ RowShape(j[1], row) /\ row.pc = "idle" /\ ~DoomedRow(row) /\ ~ToldRow(row)
          /\ FaultKinds = {} => row = NoJob
      BY <2>1, EndRow
    <2>3. FaultKinds = {} => DebtOf(j[1], row) = {}
      BY <2>2, NoJobRow
    <2>4. job' = [job EXCEPT ![j] = row] /\ row.pc # "fetch"
      BY <2>1, <2>2
    <2> QED BY <1>2, <1>5, <2>2, <2>3, <2>4
  <1>7. CASE Close(j, "finish")
    <2> DEFINE row == [job[j] EXCEPT !.pc = "finish", !.output = {}, !.more = FALSE, !.ok = TRUE]
    <2>1. row.msg = "held" /\ row.pc = "finish" /\ row.fn = job[j].fn
      BY <1>1 DEF JobRow
    <2>2. /\ RowShape(j[1], row) /\ ~DoomedRow(row) /\ ~ToldRow(row) /\ DebtOf(j[1], row) = {}
      BY <1>1, <2>1 DEF RowShape, DoomedRow, ToldRow, DebtOf
    <2>3. job' = [job EXCEPT ![j] = row]
      BY <1>7 DEF Close
    <2>4. row.pc # "fetch" /\ (FaultKinds = {} => DebtOf(j[1], row) = {})
      BY <2>1, <2>2
    <2> HIDE DEF row
    <2> QED BY <1>2, <1>5, <2>2, <2>3, <2>4
  <1> QED BY <1>2, <1>6, <1>7 DEF Skip

LEMMA FinishIfReadyMoves ==
    ASSUME IInv, Shape, NEW j \in Job, FinishIfReady(j)
    PROVE  Moves(j) /\ Shape' /\ NoFetch(j)
  <1>1. /\ job[j].pc = "finish" /\ ~WaryRow(job[j]) /\ job[j].msg = "held"
    BY DEF FinishIfReady, At, WaryRow, Shape, RowShape
  <1>2. Debt(j) = {}
    BY <1>1 DEF Debt, DebtOf
  <1>3. intel'.done = intel.done /\ intel'.failed = intel.failed
    BY DEF FinishIfReady, Finished, IInv, TypeOK, IntelRow
  <1>4. PICK row \in {NoJob, Again(j)} : Over(j, row) /\ job' = [job EXCEPT ![j] = row]
    BY DEF FinishIfReady, End
  <1>5. /\ RowShape(j[1], row) /\ row.pc = "idle" /\ ~DoomedRow(row) /\ ~ToldRow(row)
        /\ FaultKinds = {} => row = NoJob
        /\ LateRow(j[1], row) => row = Again(j) /\ j[1] \notin {"start", "metadata", "sweep"}
    BY <1>4, EndRow
  <1>6. RowShape(j[1], job[j]) /\ j[1] \in Stage
    BY DEF Shape, Job
  <1>7. LateRow(j[1], row) => Late(j)
    BY <1>1, <1>5, <1>6, AgainOwes DEF Late
  <1>8. FaultKinds = {} => DebtOf(j[1], row) = {}
    BY <1>5, NoJobRow
  <1>9. Moves(j) /\ Shape' /\ job'[j] = row
    BY <1>1, <1>2, <1>3, <1>4, <1>5, <1>7, <1>8, TurnsFree
  <1> QED BY <1>1, <1>5, <1>9 DEF NoFetch

(* A stage that is delivered again owes all it owed. *)
LEMMA QueuedAgainMoves ==
    ASSUME IInv, Shape, NEW j \in Job, job[j].msg # "none", FaultKinds # {},
           NEW row, NEW tries, row = Parked("queued", tries, job[j].input),
           job' = [job EXCEPT ![j] = row], intel' = intel
    PROVE  Moves(j) /\ Shape' /\ NoFetch(j) /\ job'[j] = row
  <1>1. /\ RowShape(j[1], row) /\ DebtOf(j[1], row) = FromStage(j[1])
        /\ LateRow(j[1], row) <=> j[1] \notin {"start", "metadata", "sweep"}
        /\ ~DoomedRow(row) /\ ~ToldRow(row) /\ row.pc = "idle"
    BY QueuedRow
  <1>2. RowShape(j[1], job[j]) /\ j[1] \in Stage
    BY DEF Shape, Job
  <1>3. Debt(j) \subseteq FromStage(j[1]) /\ (LateRow(j[1], row) => Late(j))
    BY <1>1, <1>2, AgainOwes DEF Debt, Late
  <1>4. intel'.done = intel.done /\ (intel.failed => intel'.failed)
    OBVIOUS
  <1>5. /\ AllFit => Debt(j) \subseteq DebtOf(j[1], row)
        /\ FaultKinds = {} => DebtOf(j[1], row) \subseteq Debt(j) /\ ~WaryRow(job[j])
    BY <1>1, <1>3
  <1>6. RowShape(j[1], row) /\ ~DoomedRow(row) /\ ~ToldRow(row) /\ (LateRow(j[1], row) => Late(j))
    BY <1>1, <1>3
  <1>7. job' = [job EXCEPT ![j] = row]
    OBVIOUS
  <1>8. Moves(j) /\ Shape' /\ job'[j] = row
    BY <1>4, <1>5, <1>6, <1>7, TurnsFree
  <1> QED BY <1>1, <1>8 DEF NoFetch

LEMMA WorkerCrashMoves ==
    ASSUME IInv, Shape, NEW j \in Job, WorkerCrash(j)
    PROVE  Moves(j) /\ Shape' /\ NoFetch(j)
  <1>1. job[j].msg = "held" /\ FaultKinds # {} /\ UNCHANGED intel
    BY DEF WorkerCrash, Busy, Fault
  <1>2. CASE j[1] = "sweep"
    <2>1. job' = [job EXCEPT ![j] = NoJob] /\ Debt(j) = {}
      BY <1>2 DEF WorkerCrash, Debt, DebtOf
    <2>2. Moves(j) /\ Shape' /\ job'[j] = NoJob
      BY <1>1, <2>1, Leaves
    <2> QED BY <1>1, <2>2, NoJobRow DEF NoFetch
  <1>3. CASE j[1] # "sweep"
    <2>1. job' = [job EXCEPT ![j] = Again(j)]
      BY <1>3 DEF WorkerCrash
    <2>2. Again(j) = Parked("queued", job[j].tries, job[j].input)
      BY DEF Again
    <2> QED BY <1>1, <2>1, <2>2, QueuedAgainMoves
  <1> QED BY <1>2, <1>3

(* While attempts are left, a failed one is repeated. *)
LEMMA AttemptFailsMoves ==
    ASSUME IInv, Shape, NEW j \in Job, AttemptFails(j), job[j].tries < MaxRetries
    PROVE  Moves(j) /\ Shape' /\ NoFetch(j)
  <1>1. job[j].msg = "held" /\ FaultKinds # {} /\ UNCHANGED intel /\ j[1] # "start"
    BY DEF AttemptFails, Fault, Shape, RowShape
  <1>2. CASE j[1] = "sweep"
    <2>1. job' = [job EXCEPT ![j] = NoJob] /\ Debt(j) = {}
      BY <1>1, <1>2 DEF AttemptFails, Debt, DebtOf, AfterFailure
    <2>2. Moves(j) /\ Shape' /\ job'[j] = NoJob
      BY <1>1, <2>1, Leaves
    <2> QED BY <1>1, <2>2, NoJobRow DEF NoFetch
  <1>3. CASE j[1] # "sweep"
    <2>1. job' = [job EXCEPT ![j] = AfterFailure(j)]
      BY <1>1 DEF AttemptFails
    <2>2. AfterFailure(j) = Parked("queued", job[j].tries + 1, job[j].input)
      BY <1>1, <1>3 DEF AfterFailure
    <2> QED BY <1>1, <2>1, <2>2, QueuedAgainMoves
  <1> QED BY <1>2, <1>3

-----------------------------------------------------------------------------
(* Without faults: no two messages or workers owe the same flag, none owes  *)
(* one that is set, and none owes anything once the pipeline has ended.     *)

Exclusive ==
    /\ \A j, k \in Job : j # k => Debt(j) \cap Debt(k) = {}
    /\ \A j \in Job : Debt(j) \cap intel.done = {}

Quiet == intel.status \notin ActiveIntel => \A j \in Job : Debt(j) = {}

Judged ==
    /\ intel.status = "completed" => ~intel.failed
    /\ intel.status = "partial" => intel.failed
    /\ intel.status = "failed" => intel.done # Branch

Exact == Shape /\ Exclusive /\ Quiet /\ Judged

(* No worker fails, and the broker and the database answer. *)
Faultless == FaultKinds = {}

LEMMA DebtSubset == ASSUME NEW j PROVE Debt(j) \subseteq Branch
  BY DebtType DEF Debt

(* A row that still owes nothing is on its way to the end. *)
LEMMA OwesUnlessFinishing ==
    ASSUME Shape, NEW j \in Job, j[1] # "sweep", job[j].msg # "none", job[j].pc # "finish"
    PROVE  Debt(j) # {}
  <1>1. RowShape(j[1], job[j])
    BY DEF Shape
  <1> QED BY <1>1, BranchOfIs DEF Debt, DebtOf, FromStage, StageOf, RowShape, Branch

(* The worker that starts, fetches or gives up owes both branches. *)
LEMMA OwesAll ==
    ASSUME Shape, NEW j \in Job, j[1] # "sweep", job[j].msg # "none",
           job[j].fn \in {"start", "metadata", "comments"},
           job[j].pc \notin {"idle", "mine", "skip", "finish"}
    PROVE  Debt(j) = Branch
  BY DEF Debt, DebtOf, FromStage, StageOf, Shape, RowShape

LEMMA TurnedRest ==
    ASSUME Faultless, Exclusive, NEW j \in Job, NEW m \in Job, NEW paid \in SUBSET Branch,
           Turned(j, m, paid)
    PROVE  /\ \A k \in Job \ {j, m} : Debt(k)' = Debt(k)
           /\ Debt(j)' \subseteq Debt(j) /\ Debt(m)' \subseteq Debt(j)
           /\ paid \subseteq Debt(j) /\ paid \cap Debt(j)' = {} /\ paid \cap Debt(m)' = {}
           /\ m # j => Debt(j)' \cap Debt(m)' = {}
  BY DEF Turned, Debt, Faultless

LEMMA ExclusiveKept ==
    ASSUME Faultless, Exclusive, NEW j \in Job, Moves(j)
    PROVE  Exclusive' /\ \A k \in Job : Debt(k)' \subseteq Debt(k) \/ Debt(k)' \subseteq Debt(j)
  <1>1. PICK m \in Job, paid \in SUBSET Branch : Turned(j, m, paid)
    BY DEF Moves
  <1>2. /\ \A k \in Job \ {j, m} : Debt(k)' = Debt(k)
        /\ Debt(j)' \subseteq Debt(j) /\ Debt(m)' \subseteq Debt(j)
        /\ paid \subseteq Debt(j) /\ paid \cap Debt(j)' = {} /\ paid \cap Debt(m)' = {}
        /\ m # j => Debt(j)' \cap Debt(m)' = {}
    BY <1>1, TurnedRest
  <1>3. \A k \in Job : Debt(k)' \subseteq Debt(k) \/ Debt(k)' \subseteq Debt(j)
    BY <1>2
  <1>4. ASSUME NEW k \in Job, NEW l \in Job, k # l
        PROVE  Debt(k)' \cap Debt(l)' = {}
    <2>1. CASE k \in {j, m} /\ l \in {j, m}
      BY <1>2, <1>4, <2>1
    <2>2. CASE k \in {j, m} /\ l \notin {j, m}
      BY <1>2, <1>4, <2>2 DEF Exclusive
    <2>3. CASE k \notin {j, m} /\ l \in {j, m}
      BY <1>2, <1>4, <2>3 DEF Exclusive
    <2>4. CASE k \notin {j, m} /\ l \notin {j, m}
      BY <1>2, <1>4, <2>4 DEF Exclusive
    <2> QED BY <2>1, <2>2, <2>3, <2>4
  <1>5. intel'.done = intel.done \cup paid
    BY <1>1 DEF Turned
  <1>6. ASSUME NEW k \in Job
        PROVE  Debt(k)' \cap intel'.done = {}
    <2>1. CASE k \in {j, m}
      BY <1>2, <1>5, <2>1 DEF Exclusive
    <2>2. CASE k \notin {j, m}
      BY <1>2, <1>5, <2>2 DEF Exclusive
    <2> QED BY <2>1, <2>2
  <1> QED BY <1>3, <1>4, <1>6 DEF Exclusive

(* A step that leaves the batch as it is. *)
LEMMA ExactSame ==
    ASSUME Faultless, Exact, NEW j \in Job, Moves(j), Shape', UNCHANGED intel
    PROVE  Exact'
  <1>1. Exclusive' /\ \A k \in Job : Debt(k)' \subseteq Debt(k) \/ Debt(k)' \subseteq Debt(j)
    BY ExclusiveKept DEF Exact
  <1>2. Quiet'
    BY <1>1 DEF Exact, Quiet
  <1> QED BY <1>1, <1>2 DEF Exact, Judged

(* ... or reports to it. *)
LEMMA ExactReport ==
    ASSUME Faultless, Exact, NEW j \in Job, Moves(j), Shape', intel'.status = "processing"
    PROVE  Exact'
  <1>1. Exclusive'
    BY ExclusiveKept DEF Exact
  <1> QED BY <1>1 DEF Exact, Judged, Quiet, ActiveIntel

LEMMA ExactFinish ==
    ASSUME IInv, Faultless, Exact, NEW j \in Job, FinishIfReady(j)
    PROVE  Exact' /\ (intel.status \in Outcome => intel'.status = intel.status)
  <1>1. Moves(j) /\ Shape'
    BY FinishIfReadyMoves DEF Exact
  <1>2. CASE intel.done # Branch
    <2>1. intel' = intel
      BY <1>2 DEF FinishIfReady, Finished
    <2> QED BY <1>1, <2>1, ExactSame
  <1>3. CASE intel.done = Branch
    <2>1. Exclusive' /\ \A k \in Job : Debt(k)' \subseteq Debt(k) \/ Debt(k)' \subseteq Debt(j)
      BY <1>1, ExclusiveKept DEF Exact
    <2>2. \A k \in Job : Debt(k) = {}
      BY <1>3, DebtSubset DEF Exact, Exclusive
    <2>3. Quiet'
      BY <2>1, <2>2 DEF Quiet
    <2>4. /\ intel'.status = IF intel.failed THEN "partial" ELSE "completed"
          /\ intel'.failed = intel.failed /\ intel.failed \in BOOLEAN
      BY <1>3 DEF FinishIfReady, Finished, IInv, TypeOK, IntelRow
    <2>5. Judged'
      BY <2>4 DEF Judged
    <2>6. intel.status \in Outcome => intel'.status = intel.status
      BY <1>3, <2>4 DEF Exact, Judged, Outcome
    <2> QED BY <1>1, <2>1, <2>3, <2>5, <2>6 DEF Exact
  <1> QED BY <1>2, <1>3

(* The only worker of the pipeline gives it up. *)
LEMMA ExactEnds ==
    ASSUME IInv, Faultless, Exact, NEW j \in Job, ForceFinish(j) \/ Fail(j)
    PROVE  Exact' /\ intel.status \notin Outcome
  <1>1. /\ job[j].fn \in {"start", "metadata"} /\ job[j].pc \in {"force", "fail"}
        /\ job[j].msg # "none" /\ j[1] # "sweep"
    BY DEF Exact, Shape, RowShape, ForceFinish, Fail, At
  <1>2. Debt(j) = Branch
    BY <1>1, OwesAll DEF Exact
  <1>3. job' = [job EXCEPT ![j] = NoJob]
    <2>1. PICK row \in {NoJob, Again(j)} : Over(j, row) /\ job' = [job EXCEPT ![j] = row]
      BY DEF ForceFinish, Fail, End
    <2>2. row = NoJob
      BY <2>1 DEF Over, Fault, Faultless
    <2> QED BY <2>1, <2>2
  <1>4. Shape' /\ job'[j] = NoJob /\ \A k \in Job \ {j} : job'[k] = job[k]
    BY <1>3, NoJobRow, OneRow DEF Exact
  <1>5. Debt(j)' = {} /\ \A k \in Job \ {j} : Debt(k)' = Debt(k)
    BY <1>4, NoJobRow DEF Debt
  <1>6. \A k \in Job \ {j} : Debt(k) = {}
    BY <1>2, DebtSubset DEF Exact, Exclusive
  <1>7. \A k \in Job : Debt(k)' = {}
    BY <1>5, <1>6
  <1>8. intel.done # Branch
    BY <1>2 DEF Exact, Exclusive, Branch
  <1>9. /\ intel'.done = intel.done /\ intel'.failed = intel.failed
        /\ intel'.status = "failed" \/ intel'.status = IF intel.failed THEN "partial" ELSE "completed"
    BY DEF ForceFinish, Fail, FailPipeline, IInv, TypeOK, IntelRow
  <1>10. Judged'
    BY <1>8, <1>9 DEF Judged
  <1>11. Exclusive' /\ Quiet'
    BY <1>7 DEF Exclusive, Quiet
  <1>12. intel.status \notin Outcome
    BY <1>2 DEF Exact, Quiet, Outcome, ActiveIntel, Branch
  <1> QED BY <1>4, <1>10, <1>11, <1>12 DEF Exact

LEMMA ExactStarts ==
    ASSUME IInv, Faultless, Exact, NEW c \in Copy, NEW known \in SUBSET Item, StartPipeline(c, known)
    PROVE  Exact'
  <1> DEFINE row == [NoJob EXCEPT !.msg = "held", !.pc = "begin"]
             j == <<"start", c>>
  <1>1. j \in Job /\ j[1] = "start" /\ job' = [job EXCEPT ![j] = row]
    BY DEF StartPipeline, Job, Stage
  <1>2. row.msg = "held" /\ row.pc = "begin" /\ row.fn = "start"
    BY DEF NoJob, Parked
  <1>3. RowShape(j[1], row)
    BY <1>1, <1>2 DEF RowShape, PipelineStage
  <1> HIDE DEF row, j
  <1>4. Shape' /\ job'[j] = row /\ \A k \in Job \ {j} : job'[k] = job[k]
    BY <1>1, <1>3, OneRow DEF Exact
  <1>5. \A k \in Job : Debt(k) = {}
    BY DEF StartPipeline, Exact, Quiet, ActiveIntel
  <1>6. \A k \in Job \ {j} : Debt(k)' = {}
    BY <1>4, <1>5 DEF Debt
  <1>7. intel'.done = {} /\ intel'.status = "queued"
    BY DEF StartPipeline
  <1>8. Exclusive' /\ Quiet' /\ Judged'
    BY <1>6, <1>7 DEF Exclusive, Quiet, Judged, ActiveIntel
  <1> QED BY <1>4, <1>8 DEF Exact

LEMMA SweepMoves ==
    ASSUME IInv, Shape, NEW c \in Copy, Sweep(c)
    PROVE  Moves(<<"sweep", c>>) /\ Shape'
  <1> DEFINE row == [NoJob EXCEPT !.msg = "held", !.fn = "sweep", !.pc = "work"]
             j == <<"sweep", c>>
  <1>1. j \in Job /\ j[1] = "sweep" /\ job' = [job EXCEPT ![j] = row] /\ job[j].msg = "none"
    BY DEF Sweep, Job, Stage
  <1>2. row.msg = "held" /\ row.pc = "work" /\ row.fn = "sweep"
    BY DEF NoJob, Parked
  <1>3. /\ RowShape(j[1], row) /\ DebtOf(j[1], row) = {} /\ ~LateRow(j[1], row) /\ ~DoomedRow(row)
        /\ ~ToldRow(row)
    BY <1>1, <1>2 DEF RowShape, PipelineStage, DebtOf, LateRow, StageOf, DoomedRow, ToldRow
  <1> HIDE DEF row, j
  <1>4. Debt(j) = {} /\ ~WaryRow(job[j])
    BY <1>1 DEF Debt, DebtOf, Shape, RowShape, WaryRow
  <1>5. intel'.done = intel.done /\ (intel.failed => intel'.failed)
    BY DEF Sweep
  <1>6. Moves(j) /\ Shape'
    BY <1>1, <1>3, <1>4, <1>5, TurnsFree
  <1> QED BY <1>6 DEF j

LEMMA PersistMoves ==
    ASSUME IInv, Shape, NEW j \in Job, NEW returned \in SUBSET Item, Persist(j, returned)
    PROVE  /\ Moves(j) /\ Shape' /\ job'[j].pc # "fetch"
           /\ j[1] # "sweep" => /\ job'[j].pc = "read" /\ job'[j].fn = "metadata"
                                /\ job'[j].ok = (returned = job[j].output)
  <1> DEFINE ok == returned = job[j].output
  <1>1. ok \in BOOLEAN /\ job' = [job EXCEPT ![j] = Fetched(j, ok)] /\ At(j, "fetch") /\ UNCHANGED intel
    BY DEF Persist
  <1> HIDE DEF ok
  <1>2. /\ Moves(j) /\ Shape' /\ job'[j].pc # "fetch"
        /\ j[1] # "sweep" => job'[j].pc = "read" /\ job'[j].fn = "metadata" /\ job'[j].ok = ok
    BY <1>1, FetchedMoves
  <1> QED BY <1>2 DEF ok

(* The steps of the workers that leave the batch alone. *)
LEMMA SilentMoves ==
    ASSUME IInv, Shape, NEW j \in Job,
           \/ Begin(j) \/ Deliver(j) \/ Read(j)
           \/ MetadataNext(j) \/ CommentsNext(j) \/ Mine(j) \/ Forward(j)
           \/ \E output \in SUBSET Item, ok \in BOOLEAN : RunStage(j, output, ok)
    PROVE  Moves(j) /\ Shape' /\ NoFetch(j) /\ UNCHANGED <<intel, item>>
  <1>1. CASE Begin(j) \/ Deliver(j) \/ Read(j)
    BY <1>1, BeginMoves, DeliverMoves, ReadMoves DEF Begin, Deliver, Read
  <1>2. CASE MetadataNext(j) \/ CommentsNext(j) \/ Mine(j) \/ Forward(j)
    BY <1>2, MetadataNextMoves, CommentsNextMoves, MineMoves, ForwardMoves
       DEF MetadataNext, CommentsNext, Mine, Forward
  <1>3. CASE \E output \in SUBSET Item, ok \in BOOLEAN : RunStage(j, output, ok)
    <2>1. PICK output \in SUBSET Item, ok \in BOOLEAN : RunStage(j, output, ok)
      BY <1>3
    <2>2. UNCHANGED <<intel, item>>
      BY <2>1 DEF RunStage
    <2> QED BY <2>1, <2>2, RunStageMoves
  <1> QED BY <1>1, <1>2, <1>3

(* A worker that reports owes something. *)
LEMMA ReporterOwes ==
    ASSUME Shape, NEW j \in Job, Report(j) \/ Skip(j)
    PROVE  Debt(j) # {}
  <1>1. job[j].pc \in {"report", "skip"} /\ RowShape(j[1], job[j])
    BY DEF Shape, Report, Skip, At
  <1>2. j[1] # "sweep" /\ job[j].msg # "none"
    BY <1>1 DEF RowShape
  <1> QED BY <1>1, <1>2, OwesUnlessFinishing

(* An outcome of which nothing is left to report stays. *)
OutcomeStays == intel.status \in Outcome => intel'.status \in {intel.status, "not_started"}

LEMMA JobStepExact ==
    ASSUME IInv, Faultless, Exact, NEW j \in Job, JobStep(j)
    PROVE  Exact' /\ OutcomeStays
  <1>1. CASE \/ Begin(j) \/ Deliver(j) \/ Read(j)
             \/ MetadataNext(j) \/ CommentsNext(j) \/ Mine(j) \/ Forward(j)
             \/ \E output \in SUBSET Item, ok \in BOOLEAN : RunStage(j, output, ok)
    BY <1>1, SilentMoves, ExactSame DEF Exact, OutcomeStays
  <1>2. CASE \E claimed \in SUBSET Item : Claim(j, claimed)
    BY <1>2, ClaimMoves, ExactSame DEF Exact, Claim, OutcomeStays
  <1>3. CASE \E returned \in SUBSET Item : Persist(j, returned)
    BY <1>3, PersistMoves, ExactSame DEF Exact, Persist, OutcomeStays
  <1>4. CASE Report(j) \/ Skip(j)
    <2>1. Exact'
      BY <1>4, ReportMoves, SkipMoves, ExactReport DEF Exact
    <2>2. intel.status \notin Outcome
      BY <1>4, ReporterOwes DEF Exact, Quiet, Outcome, ActiveIntel
    <2> QED BY <2>1, <2>2 DEF OutcomeStays
  <1>5. CASE FinishIfReady(j)
    BY <1>5, ExactFinish DEF OutcomeStays
  <1>6. CASE ForceFinish(j) \/ Fail(j)
    BY <1>6, ExactEnds DEF OutcomeStays
  <1>7. CASE FailExhausted(j)
    BY <1>7 DEF FailExhausted, Exact, Shape, RowShape
  <1> QED BY <1>1, <1>2, <1>3, <1>4, <1>5, <1>6, <1>7 DEF JobStep

LEMMA ExactInit == Init => Exact
  <1> SUFFICES ASSUME Init PROVE Exact
    OBVIOUS
  <1>1. \A j \in Job : job[j] = NoJob
    BY DEF Init
  <1>2. Shape /\ \A j \in Job : Debt(j) = {}
    BY <1>1, NoJobRow DEF Shape, Debt
  <1>3. Exclusive /\ Quiet /\ Judged
    BY <1>2 DEF Init, Exclusive, Quiet, Judged
  <1> QED BY <1>2, <1>3 DEF Exact

LEMMA ExactStep == IInv /\ Faultless /\ Exact /\ [Next]_vars => Exact' /\ OutcomeStays
  <1> SUFFICES ASSUME IInv, Faultless, Exact, [Next]_vars PROVE Exact' /\ OutcomeStays
    OBVIOUS
  <1>1. CASE \E c \in Copy, known \in SUBSET Item : StartPipeline(c, known)
    BY <1>1, ExactStarts DEF StartPipeline, OutcomeStays, Outcome
  <1>2. CASE \E j \in Job : JobStep(j)
    BY <1>2, JobStepExact
  <1>3. CASE \E j \in Job : JobFault(j)
    BY <1>3 DEF JobFault, FetchFails, WorkerCrash, AttemptFails, StarterDies, QueueRefuses, RejectStage,
                Fault, Faultless
  <1>4. CASE \E c \in Copy : Sweep(c)
    <2>1. PICK c \in Copy : Sweep(c)
      BY <1>4
    <2>2. Moves(<<"sweep", c>>) /\ Shape' /\ <<"sweep", c>> \in Job /\ UNCHANGED intel
      BY <2>1, SweepMoves DEF Exact, Job, Stage, Sweep
    <2> QED BY <2>2, ExactSame DEF OutcomeStays
  <1>5. CASE UNCHANGED <<intel, job>>
    BY <1>5 DEF Exact, Shape, Exclusive, Quiet, Judged, Debt, OutcomeStays
  <1>6. CASE Resume
    <2>1. UNCHANGED job /\ intel.status \notin ActiveIntel /\ intel'.status = "not_started"
          /\ intel'.done = intel.done
      BY <1>6 DEF Resume, IInv, TypeOK, IntelRow
    <2>2. \A k \in Job : Debt(k)' = {}
      BY <2>1 DEF Exact, Quiet, Debt
    <2> QED BY <2>1, <2>2 DEF Exact, Shape, Exclusive, Quiet, Judged, OutcomeStays
  <1> QED BY <1>1, <1>2, <1>3, <1>4, <1>5, <1>6 DEF Next, RecoverClaims, vars

(* While no worker fails and the broker answers, however the scheduled sweep *)
(* and the recovery interleave and however often the batch is resumed:       *)
(* completed and partial are written when no stage of either branch is       *)
(* queued or running, because at most one message or worker owes each flag   *)
(* and none owes a flag that is set (_finish_if_ready).                      *)
THEOREM OutcomeAfterStagesCorrect == Faultless => (Spec => []OutcomeAfterStages)
  <1> SUFFICES ASSUME Faultless PROVE Spec => []OutcomeAfterStages
    OBVIOUS
  <1>1. Init => IInv /\ Exact
    BY InvInit, ExactInit
  <1>2. IInv /\ Exact /\ [Next]_vars => (IInv /\ Exact)'
    BY InvStep, ExactStep
  <1>3. Exact => OutcomeAfterStages
    <2> SUFFICES ASSUME Exact, intel.status \in {"completed", "partial"}, NEW j \in Working
                 PROVE  At(j, "finish")
      BY DEF OutcomeAfterStages
    <2>1. Debt(j) = {}
      BY DEF Exact, Quiet, ActiveIntel, Working
    <2> QED BY <2>1, OwesUnlessFinishing DEF Exact, Working, At
  <1> QED BY <1>1, <1>2, <1>3, PTL DEF Spec

(* Under the same hypothesis an outcome stays until the operator resumes the *)
(* batch: nothing is left that could report, and a finish_if_ready that      *)
(* comes late computes the same outcome (_finish_if_ready, update_metrics).  *)
THEOREM OutcomeIsFinalCorrect == Faultless => (Spec => OutcomeIsFinal)
  <1> SUFFICES ASSUME Faultless PROVE Spec => OutcomeIsFinal
    OBVIOUS
  <1>1. Init => IInv /\ Exact
    BY InvInit, ExactInit
  <1>2. IInv /\ Exact /\ [Next]_vars => (IInv /\ Exact)'
    BY InvStep, ExactStep
  <1>3. IInv /\ Exact /\ [Next]_vars
          => [intel.status \in Outcome => intel'.status \in {intel.status, "not_started"}]_vars
    BY ExactStep DEF OutcomeStays
  <1> QED BY <1>1, <1>2, <1>3, PTL DEF Spec, OutcomeIsFinal

-----------------------------------------------------------------------------
(* With workers that die or fail *)

(* Attempts are left for every fault; the batch is not resumed, no other    *)
(* collector takes its items, and every request is small enough.            *)
FewFaults ==
    /\ FaultKinds \subseteq {"crash", "error", "youtube"}
    /\ MaxFaults <= MaxRetries
    /\ MaxResumes = 0 /\ Background = {}
    /\ AllFit

(* Once a worker went past the metadata, none of a second delivery can find *)
(* nothing, so what gives the pipeline up is never all that is left of it.  *)
Survives ==
    (\E j \in Job : Late(j)) =>
        /\ Processed # {}
        /\ \A b \in Branch : b \in intel.done
                                \/ \E j \in Job : b \in Debt(j) /\ ~DoomedRow(job[j])

Covered ==
    intel.status \in ActiveIntel =>
        \A b \in Branch : b \in intel.done \/ \E j \in Job : b \in Debt(j)

OwnClaims ==
    /\ \A j \in Job : At(j, "fetch") => \A i \in job[j].output : item[i] = "processing"
    /\ \A j, k \in Job : j # k /\ At(j, "fetch") /\ At(k, "fetch")
                            => job[j].output \cap job[k].output = {}

ReadBack == \A j \in Job : ToldRow(job[j]) => job[j].output \subseteq Processed

Tries == faults <= MaxFaults /\ \A j \in Job : job[j].tries <= faults

Unstarted == intel.status = "not_started" => \A j \in Job : job[j].msg = "none"

Hold == Shape /\ Survives /\ Covered /\ OwnClaims /\ ReadBack /\ Unstarted

-----------------------------------------------------------------------------
LEMMA TurnedKeeps ==
    ASSUME Shape, NEW j \in Job, NEW m \in Job, NEW paid \in SUBSET Branch,
           Turned(j, m, paid), AllFit
    PROVE  /\ \A k \in Job \ {j, m} : job'[k] = job[k] /\ Debt(k)' = Debt(k) /\ (Late(k)' <=> Late(k))
           /\ m # j => job[m].msg = "none" /\ Debt(m) = {} /\ job'[m].pc = "idle"
                       /\ ~DoomedRow(job'[m]) /\ ~ToldRow(job'[m])
           /\ intel'.done = intel.done \cup paid
           /\ Debt(j) \subseteq Debt(j)' \cup Debt(m)' \cup paid
           /\ Late(j)' \/ Late(m)' => Late(j) \/ Forks(j)
           /\ DoomedRow(job'[j]) => DoomedRow(job[j]) \/ Processed = {}
           /\ ToldRow(job'[j]) =>
                 \/ ToldRow(job[j]) /\ job'[j].output = job[j].output
                 \/ job'[j].output = Processed
  <1>1. \A k \in Job \ {j, m} : job'[k] = job[k] /\ Debt(k)' = Debt(k) /\ (Late(k)' <=> Late(k))
    BY DEF Turned, Debt, Late
  <1>2. m # j => job[m].msg = "none" /\ Debt(m) = {} /\ job'[m].pc = "idle"
                 /\ ~DoomedRow(job'[m]) /\ ~ToldRow(job'[m])
    BY DEF Turned, Debt, DebtOf, DoomedRow, ToldRow
  <1> QED BY <1>1, <1>2 DEF Turned

(* A step hands on the branches it does not end. *)
LEMMA HandsOn ==
    ASSUME Shape, NEW j \in Job, Moves(j), AllFit,
           NEW b \in Branch, b \in intel.done \/ \E k \in Job : b \in Debt(k)
    PROVE  b \in intel'.done \/ \E k \in Job : b \in Debt(k)'
  <1>1. PICK m \in Job, paid \in SUBSET Branch : Turned(j, m, paid)
    BY DEF Moves
  <1>2. /\ \A k \in Job \ {j, m} : Debt(k)' = Debt(k)
        /\ m # j => Debt(m) = {}
        /\ intel'.done = intel.done \cup paid
        /\ Debt(j) \subseteq Debt(j)' \cup Debt(m)' \cup paid
    BY <1>1, TurnedKeeps
  <1> QED BY <1>2

LEMMA HandsOnAlive ==
    ASSUME Shape, NEW j \in Job, Moves(j), AllFit, Processed # {},
           NEW b \in Branch,
           b \in intel.done \/ \E k \in Job : b \in Debt(k) /\ ~DoomedRow(job[k])
    PROVE  b \in intel'.done \/ \E k \in Job : b \in Debt(k)' /\ ~DoomedRow(job'[k])
  <1>1. PICK m \in Job, paid \in SUBSET Branch : Turned(j, m, paid)
    BY DEF Moves
  <1>2. /\ \A k \in Job \ {j, m} : Debt(k)' = Debt(k) /\ job'[k] = job[k]
        /\ m # j => Debt(m) = {} /\ ~DoomedRow(job'[m])
        /\ intel'.done = intel.done \cup paid
        /\ Debt(j) \subseteq Debt(j)' \cup Debt(m)' \cup paid
        /\ DoomedRow(job'[j]) => DoomedRow(job[j]) \/ Processed = {}
    BY <1>1, TurnedKeeps
  <1>3. CASE b \in intel.done
    BY <1>2, <1>3
  <1>4. CASE \E k \in Job : b \in Debt(k) /\ ~DoomedRow(job[k])
    <2>1. PICK k \in Job : b \in Debt(k) /\ ~DoomedRow(job[k])
      BY <1>4
    <2>2. CASE k = j
      BY <1>2, <2>1, <2>2
    <2>3. CASE k # j
      BY <1>2, <2>1, <2>3
    <2> QED BY <2>2, <2>3
  <1> QED BY <1>3, <1>4

LEMMA ForksOwes ==
    ASSUME Shape, NEW j \in Job, Forks(j)
    PROVE  Debt(j) = Branch /\ ~DoomedRow(job[j]) /\ ToldRow(job[j]) /\ job[j].output # {}
  <1>1. /\ j[1] # "sweep" /\ job[j].msg # "none" /\ job[j].fn = "metadata" /\ job[j].pc = "next"
        /\ job[j].output # {}
    BY DEF Forks, At, Shape, RowShape
  <1> QED BY <1>1, OwesAll DEF DoomedRow, ToldRow

LEMMA SurvivesKept ==
    ASSUME FewFaults, Hold, NEW j \in Job, Moves(j), Processed \subseteq Processed'
    PROVE  Survives'
  <1> SUFFICES ASSUME \E k \in Job : Late(k)'
               PROVE  /\ Processed' # {}
                      /\ \A b \in Branch : b \in intel'.done
                             \/ \E k \in Job : b \in Debt(k)' /\ ~DoomedRow(job'[k])
    BY DEF Survives
  <1>1. (\E k \in Job : Late(k)) \/ Forks(j)
    <2>1. PICK m \in Job, paid \in SUBSET Branch : Turned(j, m, paid)
      BY DEF Moves
    <2>2. /\ \A k \in Job \ {j, m} : Late(k)' <=> Late(k)
          /\ Late(j)' \/ Late(m)' => Late(j) \/ Forks(j)
      BY <2>1, TurnedKeeps DEF FewFaults, Hold
    <2> QED BY <2>2
  <1>2. /\ Processed # {}
        /\ \A b \in Branch : b \in intel.done \/ \E k \in Job : b \in Debt(k) /\ ~DoomedRow(job[k])
    <2>1. CASE \E k \in Job : Late(k)
      BY <2>1 DEF Hold, Survives
    <2>2. CASE Forks(j)
      <3>1. Debt(j) = Branch /\ ~DoomedRow(job[j]) /\ ToldRow(job[j]) /\ job[j].output # {}
        BY <2>2, ForksOwes DEF Hold
      <3> QED BY <3>1 DEF Hold, ReadBack
    <2> QED BY <1>1, <2>1, <2>2
  <1>3. \A b \in Branch : b \in intel'.done \/ \E k \in Job : b \in Debt(k)' /\ ~DoomedRow(job'[k])
    BY <1>2, HandsOnAlive DEF FewFaults, Hold
  <1> QED BY <1>2, <1>3

LEMMA CoveredKept ==
    ASSUME FewFaults, Hold, NEW j \in Job, Moves(j),
           intel'.status \in ActiveIntel =>
              \/ intel.status \in ActiveIntel
              \/ Late(j)
              \/ Debt(j) = Branch
    PROVE  Covered'
  <1> SUFFICES ASSUME intel'.status \in ActiveIntel, NEW b \in Branch
               PROVE  b \in intel'.done \/ \E k \in Job : b \in Debt(k)'
    BY DEF Covered
  <1>1. b \in intel.done \/ \E k \in Job : b \in Debt(k)
    BY DEF Hold, Covered, Survives
  <1> QED BY <1>1, HandsOn DEF FewFaults, Hold

LEMMA ReadBackKept ==
    ASSUME FewFaults, Hold, NEW j \in Job, Moves(j), Processed \subseteq Processed'
    PROVE  ReadBack'
  <1>1. PICK m \in Job, paid \in SUBSET Branch : Turned(j, m, paid)
    BY DEF Moves
  <1>2. /\ \A k \in Job \ {j, m} : job'[k] = job[k]
        /\ m # j => ~ToldRow(job'[m])
        /\ ToldRow(job'[j]) => \/ ToldRow(job[j]) /\ job'[j].output = job[j].output
                               \/ job'[j].output = Processed
    BY <1>1, TurnedKeeps DEF FewFaults, Hold
  <1> SUFFICES ASSUME NEW k \in Job, ToldRow(job'[k])
               PROVE  job'[k].output \subseteq Processed'
    BY DEF ReadBack
  <1>3. CASE k = j
    BY <1>2, <1>3 DEF Hold, ReadBack
  <1>4. CASE k # j
    BY <1>2, <1>4 DEF Hold, ReadBack
  <1> QED BY <1>3, <1>4


LEMMA ClaimsKept ==
    ASSUME FewFaults, Hold, NEW j \in Job, Moves(j),
           job'[j].pc = "fetch" =>
              \A i \in job'[j].output : item[i] # "processing" /\ item'[i] = "processing",
           \A i \in Item : item[i] = "processing"
              => item'[i] = "processing" \/ (At(j, "fetch") /\ i \in job[j].output),
           \A k \in Job : job[k].output \subseteq Item
    PROVE  OwnClaims'
  <1>1. PICK m \in Job, paid \in SUBSET Branch : Turned(j, m, paid)
    BY DEF Moves
  <1>2. /\ \A k \in Job \ {j, m} : job'[k] = job[k]
        /\ m # j => job'[m].pc = "idle"
    BY <1>1, TurnedKeeps DEF FewFaults, Hold
  <1>3. ASSUME NEW k \in Job, k # j, job'[k].pc = "fetch"
        PROVE  /\ At(k, "fetch") /\ job'[k] = job[k]
               /\ \A i \in job[k].output : item[i] = "processing" /\ item'[i] = "processing"
    <2>1. job'[k] = job[k] /\ At(k, "fetch")
      BY <1>2, <1>3 DEF At
    <2>2. ASSUME NEW i \in job[k].output
          PROVE  item[i] = "processing" /\ item'[i] = "processing"
      <3>1. item[i] = "processing" /\ i \in Item
        BY <2>1, <2>2 DEF Hold, OwnClaims
      <3>2. ~(At(j, "fetch") /\ i \in job[j].output)
        BY <1>3, <2>1, <2>2 DEF Hold, OwnClaims
      <3> QED BY <3>1, <3>2
    <2> QED BY <2>1, <2>2
  <1>4. \A k \in Job : job'[k].pc = "fetch" => \A i \in job'[k].output : item'[i] = "processing"
    BY <1>3
  <1>5. ASSUME NEW k \in Job, NEW l \in Job, k # l, job'[k].pc = "fetch", job'[l].pc = "fetch"
        PROVE  job'[k].output \cap job'[l].output = {}
    <2>1. CASE k # j /\ l # j
      BY <1>3, <1>5, <2>1 DEF Hold, OwnClaims
    <2>2. CASE k = j
      BY <1>3, <1>5, <2>2
    <2>3. CASE l = j
      BY <1>3, <1>5, <2>3
    <2> QED BY <2>1, <2>2, <2>3
  <1> QED BY <1>4, <1>5 DEF OwnClaims, At

LEMMA HoldMoves ==
    ASSUME IInv, FewFaults, Hold, Shape', NEW j \in Job, Moves(j), job[j].msg # "none",
           job'[j].pc = "fetch" =>
              \A i \in job'[j].output : item[i] # "processing" /\ item'[i] = "processing",
           \A i \in Item : item[i] = "processing"
              => item'[i] = "processing" \/ (At(j, "fetch") /\ i \in job[j].output),
           Processed \subseteq Processed',
           intel'.status = "not_started" => intel.status = "not_started",
           intel'.status \in ActiveIntel =>
              \/ intel.status \in ActiveIntel
              \/ Late(j)
              \/ Debt(j) = Branch
    PROVE  Hold'
  <1>1. \A k \in Job : job[k].output \subseteq Item
    BY DEF IInv, TypeOK, JobRow
  <1>2. OwnClaims'
    BY <1>1, ClaimsKept
  <1>3. Unstarted'
    BY DEF Hold, Unstarted
  <1> QED BY <1>2, <1>3, SurvivesKept, CoveredKept, ReadBackKept DEF Hold

LEMMA HoldQuiet ==
    ASSUME IInv, FewFaults, Hold, Shape', NEW j \in Job, Moves(j), NoFetch(j), job[j].msg # "none",
           UNCHANGED item,
           intel'.status = "not_started" => intel.status = "not_started",
           intel'.status \in ActiveIntel =>
              \/ intel.status \in ActiveIntel
              \/ Late(j)
              \/ Debt(j) = Branch
    PROVE  Hold'
  <1>1. Processed \subseteq Processed'
    BY DEF Processed
  <1> QED BY <1>1, HoldMoves DEF NoFetch

LEMMA HeldRow == ASSUME Shape, NEW j \in Job, job[j].pc # "idle" PROVE job[j].msg = "held"
  BY DEF Shape, RowShape

LEMMA HoldClaim ==
    ASSUME IInv, FewFaults, Hold, NEW j \in Job, NEW claimed \in SUBSET Item, Claim(j, claimed)
    PROVE  Hold'
  <1>1. /\ Moves(j) /\ Shape' /\ job[j].msg # "none" /\ UNCHANGED intel
        /\ job'[j].pc = "fetch" => job'[j].output = claimed
    BY ClaimMoves, HeldRow DEF Claim, At, Hold
  <1>2. /\ \A i \in claimed : item[i] # "processing" /\ item'[i] = "processing"
        /\ \A i \in Item : item[i] = "processing" => item'[i] = "processing"
        /\ Processed \subseteq Processed'
    BY DEF Claim, Pending, Processed, IInv, TypeOK
  <1> QED BY <1>1, <1>2, HoldMoves

LEMMA HoldPersist ==
    ASSUME IInv, FewFaults, Hold, NEW j \in Job, NEW returned \in SUBSET Item, Persist(j, returned)
    PROVE  Hold'
  <1>1. /\ Moves(j) /\ Shape' /\ job[j].msg # "none" /\ UNCHANGED intel /\ job'[j].pc # "fetch"
    BY PersistMoves, HeldRow DEF Persist, At, Hold
  <1>2. /\ \A i \in Item : item[i] = "processing"
              => item'[i] = "processing" \/ (At(j, "fetch") /\ i \in job[j].output)
        /\ Processed \subseteq Processed'
    BY DEF Persist, Processed, IInv, TypeOK, Hold, OwnClaims, At
  <1> QED BY <1>1, <1>2, HoldMoves

LEMMA HoldFetchFails ==
    ASSUME IInv, FewFaults, Hold, NEW j \in Job, FetchFails(j)
    PROVE  Hold'
  <1>1. /\ Moves(j) /\ Shape' /\ job[j].msg # "none" /\ UNCHANGED intel /\ job'[j].pc # "fetch"
    BY FetchedMoves, HeldRow DEF FetchFails, At, Hold
  <1>2. /\ \A i \in Item : item[i] = "processing"
              => item'[i] = "processing" \/ (At(j, "fetch") /\ i \in job[j].output)
        /\ Processed \subseteq Processed'
    BY DEF FetchFails, Processed, IInv, TypeOK, At
  <1> QED BY <1>1, <1>2, HoldMoves

(* The pipeline is given up. *)
LEMMA HoldEnds ==
    ASSUME IInv, FewFaults, Hold, NEW j \in Job, ForceFinish(j) \/ Fail(j)
    PROVE  Hold'
  <1>1. /\ job[j].fn \in {"start", "metadata"} /\ job[j].pc \in {"force", "fail"}
        /\ job[j].msg # "none" /\ j[1] \notin PipelineStage \ {"metadata"}
    BY DEF Hold, Shape, RowShape, ForceFinish, Fail, At, PipelineStage
  <1>2. PICK row \in {NoJob, Again(j)} : Over(j, row) /\ job' = [job EXCEPT ![j] = row]
    BY DEF ForceFinish, Fail, End
  <1>3. /\ RowShape(j[1], row) /\ row.pc = "idle" /\ ~ToldRow(row) /\ ~LateRow(j[1], row)
    BY <1>1, <1>2, EndRow DEF Hold, Job, Stage, PipelineStage
  <1>4. Shape' /\ job'[j] = row /\ \A k \in Job \ {j} : job'[k] = job[k]
    BY <1>2, <1>3, OneRow DEF Hold
  <1>5. /\ \A k \in Job \ {j} : Debt(k)' = Debt(k) /\ (Late(k)' <=> Late(k))
        /\ ~Late(j)' /\ DoomedRow(job[j])
    BY <1>1, <1>3, <1>4 DEF Debt, Late, DoomedRow
  <1>6. /\ intel'.done = intel.done /\ UNCHANGED item
        /\ intel'.status \notin ActiveIntel \cup {"not_started"}
    BY DEF ForceFinish, Fail, FailPipeline, IInv, TypeOK, IntelRow, ActiveIntel
  <1>7. Processed' = Processed
    BY <1>6 DEF Processed
  <1>8. Survives'
    <2> SUFFICES ASSUME NEW k \in Job, Late(k)'
                 PROVE  /\ Processed' # {}
                        /\ \A b \in Branch : b \in intel'.done
                             \/ \E l \in Job : b \in Debt(l)' /\ ~DoomedRow(job'[l])
      BY DEF Survives
    <2>1. Late(k)
      BY <1>5
    <2>2. /\ Processed # {}
          /\ \A b \in Branch : b \in intel.done \/ \E l \in Job : b \in Debt(l) /\ ~DoomedRow(job[l])
      BY <2>1 DEF Hold, Survives
    <2>3. \A l \in Job : ~DoomedRow(job[l]) => job'[l] = job[l] /\ Debt(l)' = Debt(l)
      BY <1>4, <1>5
    <2> QED BY <1>6, <1>7, <2>2, <2>3
  <1>9. OwnClaims'
    BY <1>3, <1>4, <1>6 DEF Hold, OwnClaims, At
  <1>10. ReadBack'
    BY <1>3, <1>4, <1>7 DEF Hold, ReadBack
  <1>11. Covered' /\ Unstarted'
    BY <1>6 DEF Covered, Unstarted
  <1> QED BY <1>4, <1>8, <1>9, <1>10, <1>11 DEF Hold

LEMMA HoldStarts ==
    ASSUME IInv, FewFaults, Hold, NEW c \in Copy, NEW known \in SUBSET Item, StartPipeline(c, known)
    PROVE  Hold'
  <1> DEFINE row == [NoJob EXCEPT !.msg = "held", !.pc = "begin"]
             j == <<"start", c>>
  <1>1. j \in Job /\ j[1] = "start" /\ job' = [job EXCEPT ![j] = row]
    BY DEF StartPipeline, Job, Stage
  <1>2. row.msg = "held" /\ row.pc = "begin" /\ row.fn = "start"
    BY DEF NoJob, Parked
  <1>3. RowShape(j[1], row) /\ DebtOf(j[1], row) = Branch /\ ~LateRow(j[1], row) /\ ~ToldRow(row)
    BY <1>1, <1>2 DEF RowShape, PipelineStage, DebtOf, FromStage, StageOf, LateRow, ToldRow
  <1> HIDE DEF row, j
  <1>4. Shape' /\ job'[j] = row /\ \A k \in Job \ {j} : job'[k] = job[k]
    BY <1>1, <1>3, OneRow DEF Hold
  <1>5. \A k \in Job \ {j} : job'[k].msg = "none" /\ job'[k].pc = "idle"
    <2>1. \A k \in Job : job[k].msg = "none"
      BY DEF StartPipeline, Hold, Unstarted
    <2>2. \A k \in Job : job[k].pc = "idle"
      BY <2>1 DEF Hold, Shape, RowShape
    <2> QED BY <1>4, <2>1, <2>2
  <1>6. \A k \in Job : ~Late(k)' /\ job'[k].pc # "fetch" /\ ~ToldRow(job'[k])
    BY <1>2, <1>3, <1>4, <1>5 DEF Late, LateRow, ToldRow
  <1>7. Debt(j)' = Branch
    BY <1>3, <1>4 DEF Debt
  <1>8. intel'.status = "queued"
    BY DEF StartPipeline
  <1> QED BY <1>1, <1>4, <1>6, <1>7, <1>8
          DEF Hold, Survives, Covered, OwnClaims, At, ReadBack, Unstarted

(* A worker that reports is past the metadata, or ends it. *)
LEMMA ReporterPast ==
    ASSUME Shape, NEW j \in Job, Report(j) \/ Skip(j)
    PROVE  Late(j) \/ Debt(j) = Branch
  <1>1. /\ job[j].pc \in {"report", "skip"} /\ job[j].fn \notin {"start", "sweep"} /\ job[j].msg # "none"
        /\ j[1] # "sweep" /\ (job[j].pc = "skip" => job[j].fn # "metadata")
    BY DEF Shape, RowShape, Report, Skip, At
  <1>2. CASE job[j].fn = "metadata"
    BY <1>1, <1>2, OwesAll
  <1>3. CASE job[j].fn # "metadata"
    BY <1>1, <1>3 DEF Late, LateRow, StageOf
  <1> QED BY <1>2, <1>3

LEMMA JobStepHold ==
    ASSUME IInv, FewFaults, Hold, NEW j \in Job, JobStep(j)
    PROVE  Hold'
  <1>1. CASE \/ Begin(j) \/ Deliver(j) \/ Read(j)
             \/ MetadataNext(j) \/ CommentsNext(j) \/ Mine(j) \/ Forward(j)
             \/ \E output \in SUBSET Item, ok \in BOOLEAN : RunStage(j, output, ok)
    <2>1. Moves(j) /\ Shape' /\ NoFetch(j) /\ UNCHANGED <<intel, item>>
      BY <1>1, SilentMoves DEF Hold
    <2>2. job[j].msg # "none"
      BY <1>1, HeldRow
         DEF Begin, Deliver, Read, MetadataNext, CommentsNext, Mine, Forward, RunStage, At, Hold
    <2> QED BY <2>1, <2>2, HoldQuiet
  <1>2. CASE \E claimed \in SUBSET Item : Claim(j, claimed)
    BY <1>2, HoldClaim
  <1>3. CASE \E returned \in SUBSET Item : Persist(j, returned)
    BY <1>3, HoldPersist
  <1>4. CASE Report(j) \/ Skip(j)
    <2>1. Moves(j) /\ Shape' /\ NoFetch(j) /\ intel'.status = "processing"
      BY <1>4, ReportMoves, SkipMoves DEF Hold
    <2>2. job[j].msg # "none" /\ UNCHANGED item
      BY <1>4, HeldRow DEF Report, Skip, At, Hold
    <2>3. Late(j) \/ Debt(j) = Branch
      BY <1>4, ReporterPast DEF Hold
    <2> QED BY <2>1, <2>2, <2>3, HoldQuiet
  <1>5. CASE FinishIfReady(j)
    <2>1. Moves(j) /\ Shape' /\ NoFetch(j)
      BY <1>5, FinishIfReadyMoves DEF Hold
    <2>2. job[j].msg # "none" /\ UNCHANGED item
      BY <1>5, HeldRow DEF FinishIfReady, At, Hold
    <2>3. intel'.status \in {intel.status, "partial", "completed"}
      BY <1>5 DEF FinishIfReady, Finished, IInv, TypeOK, IntelRow
    <2> QED BY <2>1, <2>2, <2>3, HoldQuiet DEF ActiveIntel
  <1>6. CASE ForceFinish(j) \/ Fail(j)
    BY <1>6, HoldEnds
  <1>7. CASE FailExhausted(j)
    BY <1>7 DEF FailExhausted, Hold, Shape, RowShape
  <1> QED BY <1>1, <1>2, <1>3, <1>4, <1>5, <1>6, <1>7 DEF JobStep

LEMMA JobFaultHold ==
    ASSUME IInv, FewFaults, Hold, Tries, NEW j \in Job, JobFault(j)
    PROVE  Hold'
  <1>1. CASE FetchFails(j)
    BY <1>1, HoldFetchFails
  <1>2. CASE WorkerCrash(j)
    <2>1. job[j].msg # "none" /\ UNCHANGED <<intel, item>>
      BY <1>2 DEF WorkerCrash, Busy
    <2> QED BY <1>2, <2>1, WorkerCrashMoves, HoldQuiet DEF Hold
  <1>3. CASE AttemptFails(j)
    <2>1. job[j].msg # "none" /\ UNCHANGED <<intel, item>>
      BY <1>3 DEF AttemptFails
    <2>2. job[j].tries < MaxRetries
      <3>1. job[j].tries <= faults /\ faults < MaxFaults /\ MaxFaults <= MaxRetries
        BY <1>3 DEF AttemptFails, Fault, Tries, FewFaults
      <3>2. job[j].tries \in Nat /\ faults \in Nat
        BY DEF IInv, TypeOK, JobRow
      <3> QED BY <3>1, <3>2, LimitsAssumption
    <2> QED BY <1>3, <2>1, <2>2, AttemptFailsMoves, HoldQuiet DEF Hold
  <1>4. CASE StarterDies(j) \/ QueueRefuses(j) \/ RejectStage(j)
    BY <1>4 DEF StarterDies, QueueRefuses, RejectStage, Fault, FewFaults
  <1> QED BY <1>1, <1>2, <1>3, <1>4 DEF JobFault

LEMMA HoldInit == Init => Hold
  <1> SUFFICES ASSUME Init PROVE Hold
    OBVIOUS
  <1>1. \A j \in Job : job[j] = NoJob
    BY DEF Init
  <1>2. /\ Shape
        /\ \A j \in Job : ~Late(j) /\ job[j].pc = "idle" /\ ~ToldRow(job[j]) /\ job[j].msg = "none"
    BY <1>1, NoJobRow DEF Shape, Late, NoJob, Parked
  <1> QED BY <1>2
          DEF Init, Hold, Survives, Covered, ActiveIntel, OwnClaims, At, ReadBack, Unstarted

LEMMA HoldStep == IInv /\ FewFaults /\ Hold /\ Tries /\ [Next]_vars => Hold'
  <1> SUFFICES ASSUME IInv, FewFaults, Hold, Tries, [Next]_vars PROVE Hold'
    OBVIOUS
  <1>1. CASE \E c \in Copy, known \in SUBSET Item : StartPipeline(c, known)
    BY <1>1, HoldStarts
  <1>2. CASE \E j \in Job : JobStep(j) \/ JobFault(j)
    BY <1>2, JobStepHold, JobFaultHold
  <1>3. CASE \/ \E c \in Copy : Sweep(c)
             \/ \E stale \in SUBSET Item : RecoverClaims(stale)
    BY <1>3 DEF Sweep, RecoverClaims, FewFaults
  <1>4. CASE Resume
    BY <1>4 DEF Resume, FewFaults, IInv, TypeOK
  <1>5. CASE UNCHANGED vars
    BY <1>5 DEF vars, Hold, Shape, Survives, Covered, OwnClaims, ReadBack, Unstarted, Late, Debt,
                Processed, At
  <1> QED BY <1>1, <1>2, <1>3, <1>4, <1>5 DEF Next

-----------------------------------------------------------------------------
(* Attempts *)

CountFault == faults' = faults \/ (faults < MaxFaults /\ faults' = faults + 1)

(* A row for j of no more attempts than faults. *)
Tried(j, row) ==
    \/ row.tries = 0
    \/ row.tries = job[j].tries
    \/ row.tries = job[j].tries + 1 /\ faults' = faults + 1

LEMMA TriesRow ==
    ASSUME TypeOK, Tries, NEW j \in Job, NEW row, job' = [job EXCEPT ![j] = row],
           CountFault, Tried(j, row)
    PROVE  Tries'
  <1>1. faults \in Nat /\ MaxFaults \in Nat /\ \A k \in Job : job[k].tries \in Nat
    BY LimitsAssumption DEF TypeOK, JobRow
  <1>2. faults' \in Nat /\ faults <= faults' /\ faults' <= MaxFaults
    BY <1>1 DEF CountFault, Tries
  <1>3. job'[j] = row /\ \A k \in Job \ {j} : job'[k] = job[k]
    BY DEF TypeOK
  <1>4. row.tries <= faults'
    BY <1>1, <1>2 DEF Tried, Tries
  <1>5. \A k \in Job \ {j} : job'[k].tries <= faults'
    BY <1>1, <1>2, <1>3 DEF Tries
  <1> QED BY <1>2, <1>3, <1>4, <1>5 DEF Tries

LEMMA TriesSend ==
    ASSUME TypeOK, Tries, NEW j \in Job, NEW stage \in Stage, NEW videos, NEW row,
           Send(j, stage, videos, row), CountFault, Tried(j, row)
    PROVE  Tries'
  <1>1. PICK c \in Copy :
            job' = [job EXCEPT ![<<stage, c>>] = Parked("queued", 0, videos), ![j] = row]
    BY DEF Send
  <1>2. faults \in Nat /\ MaxFaults \in Nat /\ \A k \in Job : job[k].tries \in Nat
    BY LimitsAssumption DEF TypeOK, JobRow
  <1>3. faults' \in Nat /\ faults <= faults' /\ faults' <= MaxFaults
    BY <1>2 DEF CountFault, Tries
  <1>4. row.tries <= faults' /\ Parked("queued", 0, videos).tries <= faults'
    BY <1>2, <1>3 DEF Tried, Tries, Parked
  <1>5. <<stage, c>> \in Job
    BY DEF Job
  <1>6. \A k \in Job : job'[k] \in {row, Parked("queued", 0, videos), job[k]}
    BY <1>1, <1>5 DEF TypeOK
  <1>7. \A k \in Job : job'[k].tries <= faults'
    BY <1>2, <1>3, <1>4, <1>6 DEF Tries
  <1> QED BY <1>3, <1>7 DEF Tries

LEMMA TriesOver ==
    ASSUME TypeOK, NEW j \in Job, NEW row \in {NoJob, Again(j)}, Over(j, row)
    PROVE  CountFault /\ Tried(j, row)
  BY DEF Over, Fault, CountFault, Tried, NoJob, Again, Parked

LEMMA TriesEnd ==
    ASSUME TypeOK, Tries, NEW j \in Job, End(j)
    PROVE  Tries'
  BY TriesOver, TriesRow DEF End

LEMMA TriesSendLast ==
    ASSUME TypeOK, Tries, NEW j \in Job, NEW stage \in Stage, NEW videos, SendLast(j, stage, videos)
    PROVE  Tries'
  BY TriesOver, TriesSend DEF SendLast

LEMMA TriesNoJob == ASSUME NEW j PROVE Tried(j, NoJob)
  BY DEF Tried, NoJob, Parked

LEMMA TriesGoto ==
    ASSUME TypeOK, Tries, NEW j \in Job, NEW pc, Goto(j, pc), UNCHANGED faults
    PROVE  Tries'
  <1>1. Tried(j, [job[j] EXCEPT !.pc = pc]) /\ CountFault
    BY DEF Tried, TypeOK, JobRow, CountFault
  <1> QED BY <1>1, TriesRow DEF Goto

LEMMA TriesClose ==
    ASSUME TypeOK, Tries, NEW j \in Job, NEW pc, Close(j, pc), UNCHANGED faults
    PROVE  Tries'
  <1> DEFINE row == [job[j] EXCEPT !.pc = pc, !.output = {}, !.more = FALSE, !.ok = TRUE]
  <1>1. Tried(j, row) /\ CountFault
    BY DEF Tried, TypeOK, JobRow, CountFault
  <1>2. job' = [job EXCEPT ![j] = row]
    BY DEF Close
  <1> HIDE DEF row
  <1> QED BY <1>1, <1>2, TriesRow

LEMMA TriesFetched ==
    ASSUME TypeOK, Tries, NEW j \in Job, NEW ok, job' = [job EXCEPT ![j] = Fetched(j, ok)], CountFault
    PROVE  Tries'
  <1>1. Tried(j, Fetched(j, ok))
    BY DEF Tried, TypeOK, JobRow, Fetched, NoJob, Parked
  <1> QED BY <1>1, TriesRow

LEMMA TriesWork ==
    ASSUME TypeOK, Tries, NEW j \in Job,
           \/ Begin(j) \/ Deliver(j) \/ Read(j)
           \/ \E claimed \in SUBSET Item : Claim(j, claimed)
           \/ \E output \in SUBSET Item, ok \in BOOLEAN : RunStage(j, output, ok)
    PROVE  Tries'
  <1>1. CASE Begin(j)
    <2>1. UNCHANGED faults /\ CountFault
      BY <1>1 DEF Begin, CountFault
    <2>2. CASE Goto(j, "force")
      BY <2>1, <2>2, TriesGoto
    <2>3. CASE job' = [job EXCEPT ![j] = [@ EXCEPT !.fn = "metadata", !.pc = "read"]]
      <3>1. Tried(j, [job[j] EXCEPT !.fn = "metadata", !.pc = "read"])
        BY DEF Tried, TypeOK, JobRow
      <3> QED BY <2>1, <2>3, <3>1, TriesRow
    <2>4. CASE Send(j, "metadata", {}, NoJob)
      BY <2>1, <2>4, TriesNoJob, TriesSend DEF Stage, PipelineStage
    <2> QED BY <1>1, <2>2, <2>3, <2>4 DEF Begin
  <1>2. CASE Deliver(j)
    <2>1. CountFault
      BY <1>2 DEF Deliver, CountFault
    <2>2. Tried(j, [job[j] EXCEPT !.msg = "held", !.fn = j[1], !.pc = "work"])
      BY DEF Tried, TypeOK, JobRow
    <2>3. CASE job' = [job EXCEPT ![j] = NoJob]
      BY <2>1, <2>3, TriesNoJob, TriesRow
    <2>4. CASE job' = [job EXCEPT ![j] = [@ EXCEPT !.msg = "held", !.fn = j[1], !.pc = "work"]]
      BY <2>1, <2>2, <2>4, TriesRow
    <2> QED BY <1>2, <2>3, <2>4 DEF Deliver
  <1>3. CASE Read(j)
    <2> DEFINE row == [job[j] EXCEPT !.pc = "report", !.output = Processed, !.more = (Pending # {})]
    <2>1. Tried(j, row) /\ CountFault /\ job' = [job EXCEPT ![j] = row]
      BY <1>3 DEF Read, CountFault, Tried, TypeOK, JobRow
    <2> HIDE DEF row
    <2> QED BY <2>1, TriesRow
  <1>4. CASE \E claimed \in SUBSET Item : Claim(j, claimed)
    <2>1. PICK claimed \in SUBSET Item : Claim(j, claimed)
      BY <1>4
    <2> DEFINE row == IF claimed # {} THEN [job[j] EXCEPT !.pc = "fetch", !.output = claimed]
                      ELSE IF j[1] = "sweep" THEN NoJob ELSE [job[j] EXCEPT !.pc = "read"]
    <2>2. Tried(j, row)
      BY DEF Tried, TypeOK, JobRow, NoJob, Parked
    <2>3. job' = [job EXCEPT ![j] = row] /\ CountFault
      BY <2>1 DEF Claim, CountFault
    <2> HIDE DEF row
    <2> QED BY <2>2, <2>3, TriesRow
  <1>5. CASE \E output \in SUBSET Item, ok \in BOOLEAN : RunStage(j, output, ok)
    <2>1. PICK output \in SUBSET Item, ok \in BOOLEAN : RunStage(j, output, ok)
      BY <1>5
    <2> DEFINE pc == IF job[j].fn = "comments" THEN "read" ELSE "report"
               row == [job[j] EXCEPT !.pc = pc, !.output = output, !.ok = ok]
    <2>2. Tried(j, row)
      BY DEF Tried, TypeOK, JobRow
    <2>3. job' = [job EXCEPT ![j] = row] /\ CountFault
      BY <2>1 DEF RunStage, CountFault
    <2> HIDE DEF row
    <2> QED BY <2>2, <2>3, TriesRow
  <1> QED BY <1>1, <1>2, <1>3, <1>4, <1>5

LEMMA TriesHandle ==
    ASSUME TypeOK, Tries, NEW j \in Job,
           \/ Report(j) \/ MetadataNext(j) \/ CommentsNext(j) \/ Mine(j) \/ Forward(j)
           \/ Skip(j) \/ FinishIfReady(j) \/ ForceFinish(j) \/ Fail(j) \/ FailExhausted(j)
    PROVE  Tries'
  <1>1. CASE Report(j)
    BY <1>1, TriesGoto, TriesClose DEF Report
  <1>2. CASE MetadataNext(j)
    <2>1. CASE job' = [job EXCEPT ![j] = [@ EXCEPT !.fn = "comments", !.pc = "read", !.ok = TRUE]]
               /\ UNCHANGED faults
      <3> DEFINE row == [job[j] EXCEPT !.fn = "comments", !.pc = "read", !.ok = TRUE]
      <3>1. Tried(j, row) /\ CountFault /\ job' = [job EXCEPT ![j] = row]
        BY <2>1 DEF Tried, TypeOK, JobRow, CountFault
      <3> HIDE DEF row
      <3> QED BY <3>1, TriesRow
    <2>2. CASE Goto(j, "fail") /\ UNCHANGED faults
      BY <2>2, TriesGoto
    <2>3. CASE \/ SendLast(j, "metadata", {})
               \/ \E eligible \in SUBSET Processed \ {{}} : SendLast(j, "comments", eligible)
      BY <2>3, TriesSendLast DEF Stage, PipelineStage
    <2> QED BY <1>2, <2>1, <2>2, <2>3 DEF MetadataNext
  <1>3. CASE CommentsNext(j)
    <2> DEFINE row == [job[j] EXCEPT !.pc = "mine", !.output = {}]
    <2>1. Tried(j, row) /\ CountFault /\ Send(j, "relevance", job[j].output, row)
      BY <1>3 DEF CommentsNext, Tried, TypeOK, JobRow, CountFault
    <2> HIDE DEF row
    <2> QED BY <2>1, TriesSend DEF Stage, PipelineStage
  <1>4. CASE Mine(j)
    <2>1. CASE Close(j, "skip") /\ UNCHANGED faults
      BY <2>1, TriesClose
    <2>2. CASE \E commented \in SUBSET Processed \ {{}} : SendLast(j, "pain", commented)
      BY <2>2, TriesSendLast DEF Stage, PipelineStage
    <2> QED BY <1>4, <2>1, <2>2 DEF Mine
  <1>5. CASE Forward(j)
    <2>1. CASE Close(j, "skip") /\ UNCHANGED faults
      BY <2>1, TriesClose
    <2>2. CASE SendLast(j, NextStage(job[j].fn), job[j].output)
      BY <2>2, TriesSendLast DEF NextStage, Stage, PipelineStage
    <2> QED BY <1>5, <2>1, <2>2 DEF Forward
  <1>6. CASE Skip(j)
    BY <1>6, TriesEnd, TriesClose DEF Skip
  <1>7. CASE FinishIfReady(j) \/ ForceFinish(j) \/ Fail(j)
    BY <1>7, TriesEnd DEF FinishIfReady, ForceFinish, Fail
  <1>8. CASE FailExhausted(j)
    BY <1>8, TriesNoJob, TriesRow DEF FailExhausted, CountFault
  <1> QED BY <1>1, <1>2, <1>3, <1>4, <1>5, <1>6, <1>7, <1>8

LEMMA TriesFault ==
    ASSUME TypeOK, Tries, NEW j \in Job, JobFault(j)
    PROVE  Tries'
  <1>1. CountFault /\ faults' = faults + 1
    BY DEF JobFault, FetchFails, WorkerCrash, AttemptFails, StarterDies, QueueRefuses, RejectStage,
           Fault, CountFault
  <1>2. CASE FetchFails(j)
    BY <1>1, <1>2, TriesFetched DEF FetchFails
  <1>3. CASE ~FetchFails(j)
    <2> DEFINE failing == [job[j] EXCEPT !.pc = "fail"]
    <2>1. Tried(j, NoJob) /\ Tried(j, Again(j)) /\ Tried(j, AfterFailure(j)) /\ Tried(j, failing)
      BY <1>1 DEF Tried, NoJob, Again, AfterFailure, Parked, TypeOK, JobRow
    <2>2. \/ job' = [job EXCEPT ![j] = NoJob] \/ job' = [job EXCEPT ![j] = Again(j)]
          \/ job' = [job EXCEPT ![j] = AfterFailure(j)] \/ job' = [job EXCEPT ![j] = failing]
      BY <1>3 DEF JobFault, WorkerCrash, AttemptFails, StarterDies, QueueRefuses, RejectStage
    <2> HIDE DEF failing
    <2> QED BY <1>1, <2>1, <2>2, TriesRow
  <1> QED BY <1>2, <1>3

LEMMA TriesStep == TypeOK /\ Tries /\ [Next]_vars => Tries'
  <1> SUFFICES ASSUME TypeOK, Tries, [Next]_vars PROVE Tries'
    OBVIOUS
  <1>1. CASE \E c \in Copy, known \in SUBSET Item : StartPipeline(c, known)
    <2>1. PICK c \in Copy, known \in SUBSET Item : StartPipeline(c, known)
      BY <1>1
    <2> DEFINE row == [NoJob EXCEPT !.msg = "held", !.pc = "begin"]
    <2>2. Tried(<<"start", c>>, row) /\ CountFault /\ job' = [job EXCEPT ![<<"start", c>>] = row]
      BY <2>1 DEF StartPipeline, Tried, NoJob, Parked, CountFault
    <2> HIDE DEF row
    <2> QED BY <2>2, TriesRow DEF Job, Stage
  <1>2. CASE \E j \in Job : JobStep(j)
    <2>1. PICK j \in Job : JobStep(j)
      BY <1>2
    <2>2. CASE \E returned \in SUBSET Item : Persist(j, returned)
      BY <2>2, TriesFetched DEF Persist, CountFault
    <2> QED BY <2>1, <2>2, TriesWork, TriesHandle DEF JobStep
  <1>3. CASE \E j \in Job : JobFault(j)
    BY <1>3, TriesFault
  <1>4. CASE \E c \in Copy : Sweep(c)
    <2>1. PICK c \in Copy : Sweep(c)
      BY <1>4
    <2> DEFINE row == [NoJob EXCEPT !.msg = "held", !.fn = "sweep", !.pc = "work"]
    <2>2. Tried(<<"sweep", c>>, row) /\ CountFault /\ job' = [job EXCEPT ![<<"sweep", c>>] = row]
      BY <2>1 DEF Sweep, Tried, NoJob, Parked, CountFault
    <2> HIDE DEF row
    <2> QED BY <2>2, TriesRow DEF Job, Stage
  <1>5. CASE UNCHANGED <<job, faults>>
    BY <1>5 DEF Tries
  <1> QED BY <1>1, <1>2, <1>3, <1>4, <1>5 DEF Next, RecoverClaims, Resume, vars

(* Workers may die or fail as often as a message may be retried: an active   *)
(* pipeline still has, for each flag that is missing, a message or a worker  *)
(* that will set it.  A second delivery of the metadata message doubles what *)
(* is owed but can no longer give the pipeline up, since it reads back the   *)
(* videos the first one stored (metadata_completed).                         *)
THEOREM ActiveHasWorkerCorrect == FewFaults => (Spec => []ActiveHasWorker)
  <1> SUFFICES ASSUME FewFaults PROVE Spec => []ActiveHasWorker
    OBVIOUS
  <1>1. Init => IInv /\ Hold /\ Tries
    BY InvInit, HoldInit, LimitsAssumption DEF Init, Tries, NoJob, Parked
  <1>2. IInv /\ Hold /\ Tries /\ [Next]_vars => (IInv /\ Hold /\ Tries)'
    BY InvStep, HoldStep, TriesStep DEF IInv
  <1>3. IInv /\ Hold => ActiveHasWorker
    <2> SUFFICES ASSUME IInv, Hold, intel.status \in ActiveIntel, intel.done # Branch
                 PROVE  Working # {}
      BY DEF ActiveHasWorker
    <2>1. PICK b \in Branch : b \notin intel.done
      BY DEF IInv, TypeOK, IntelRow
    <2>2. PICK j \in Job : b \in Debt(j)
      BY <2>1 DEF Hold, Covered
    <2>3. j[1] # "sweep" /\ job[j].msg # "none"
      BY <2>2 DEF Debt, DebtOf
    <2> QED BY <2>3 DEF Working
  <1> QED BY <1>1, <1>2, <1>3, PTL DEF Spec

-----------------------------------------------------------------------------
(* The items of a batch nobody else collects *)

(* ... and neither the scheduled sweep nor the recovery runs. *)
Unshared == Faultless /\ Background = {}

Settled == \A i \in Item : item[i] \in {"absent", "processed", "failed"}

NoSweep == \A j \in Job : j[1] = "sweep" => job[j].msg = "none"

Fetching ==
    /\ \A i \in Item : item[i] = "processing" => \E j \in Job : At(j, "fetch") /\ i \in job[j].output
    /\ \A j \in Job : At(j, "fetch") => \A i \in job[j].output : item[i] = "processing"

Told ==
    \A j \in Job : ToldRow(job[j]) =>
        job[j].output \subseteq Processed /\ (~job[j].more => Settled)

(* Whatever comes after the metadata comes after all of it. *)
AfterItems ==
    (\E j \in Job : Late(j)) \/ intel.done # {} => Settled /\ Processed # {}

EndsSettled ==
    intel.status \in {"completed", "partial"} => Found = {} \/ (Settled /\ Processed # {})

FailuresTold ==
    (\E i \in Item : item[i] = "failed") =>
        \/ intel.failed
        \/ intel.status = "failed"
        \/ \E j \in Job : WaryRow(job[j])

FreshItems == intel.status = "not_started" => \A i \in Item : item[i] # "failed"

Fits == NoSweep /\ Fetching /\ Told /\ AfterItems /\ EndsSettled /\ FailuresTold /\ FreshItems

-----------------------------------------------------------------------------
(* The worker of the metadata is alone. *)
LEMMA Alone ==
    ASSUME Exact, NoSweep, NEW j \in Job, Debt(j) = Branch, NEW k \in Job, k # j
    PROVE  ~At(k, "fetch") /\ ~WaryRow(job[k]) /\ ~ToldRow(job[k])
  <1>1. Debt(k) = {}
    BY DebtSubset DEF Exact, Exclusive
  <1>2. RowShape(k[1], job[k])
    BY DEF Exact, Shape
  <1>3. CASE At(k, "fetch") \/ WaryRow(job[k]) \/ ToldRow(job[k])
    <2>1. /\ job[k].pc \in {"fetch", "read", "report", "next"} /\ job[k].fn \in {"metadata", "sweep"}
          /\ job[k].msg # "none" /\ k[1] # "sweep"
      BY <1>2, <1>3 DEF At, WaryRow, ToldRow, RowShape, NoSweep
    <2>2. job[k].fn = "metadata"
      BY <1>2, <2>1 DEF RowShape
    <2> QED BY <1>1, <2>1, <2>2, OwesAll DEF Exact, Branch
  <1> QED BY <1>3

LEMMA CollectorOwes ==
    ASSUME IInv, Exact, NoSweep, NEW j \in Job,
           \/ job[j].pc \in {"fetch", "begin", "force", "fail"}
           \/ job[j].pc \in {"work", "read", "report", "next"} /\ job[j].fn = "metadata"
    PROVE  Debt(j) = Branch /\ intel.status \in ActiveIntel /\ intel.done = {} /\ j[1] # "sweep"
  <1>1. /\ RowShape(j[1], job[j]) /\ job[j].msg # "none" /\ j[1] # "sweep"
        /\ job[j].fn \in {"start", "metadata"}
        /\ job[j].pc \notin {"idle", "mine", "skip", "finish"}
    BY DEF Exact, Shape, RowShape, NoSweep
  <1>2. Debt(j) = Branch
    BY <1>1, OwesAll DEF Exact
  <1>3. intel.done = {}
    BY <1>2 DEF Exact, Exclusive, IInv, TypeOK, IntelRow
  <1>4. intel.status \in ActiveIntel
    <2>1. Branch # {}
      BY DEF Branch
    <2> QED BY <1>2, <2>1 DEF Exact, Quiet
  <1> QED BY <1>1, <1>2, <1>3, <1>4

LEMMA TurnedTold ==
    ASSUME NEW j \in Job, NEW m \in Job, NEW paid \in SUBSET Branch, Turned(j, m, paid), Unshared
    PROVE  /\ \A k \in Job \ {j, m} : job'[k] = job[k] /\ (Late(k)' <=> Late(k))
           /\ m # j => /\ ~ToldRow(job'[m]) /\ job'[m].pc = "idle" /\ m[1] # "sweep"
                       /\ job[m].msg = "none"
           /\ Late(j)' \/ Late(m)' => Late(j) \/ Forks(j)
           /\ paid # {} => Late(j)
           /\ intel'.done = intel.done \cup paid
           /\ WaryRow(job[j]) => WaryRow(job'[j]) \/ intel'.failed
           /\ intel.failed => intel'.failed
           /\ ToldRow(job'[j]) =>
                 \/ ToldRow(job[j]) /\ job'[j].output = job[j].output /\ job'[j].more = job[j].more
                 \/ At(j, "read") /\ job'[j].output = Processed /\ job'[j].more = (Pending # {})
  <1>1. \A k \in Job \ {j, m} : job'[k] = job[k] /\ (Late(k)' <=> Late(k))
    BY DEF Turned, Late
  <1>2. m # j => ~ToldRow(job'[m])
    BY DEF Turned, ToldRow
  <1> QED BY <1>1, <1>2 DEF Turned, Unshared, Faultless

(* The parts that only depend on what has been processed. *)
LEMMA NoSweepKept ==
    ASSUME Unshared, NoSweep, NEW j \in Job, Moves(j), job[j].msg # "none"
    PROVE  NoSweep'
  <1>1. PICK m \in Job, paid \in SUBSET Branch : Turned(j, m, paid)
    BY DEF Moves
  <1>2. /\ \A k \in Job \ {j, m} : job'[k] = job[k]
        /\ m # j => m[1] # "sweep"
    BY <1>1, TurnedTold
  <1>3. j[1] # "sweep"
    BY DEF NoSweep
  <1> QED BY <1>2, <1>3 DEF NoSweep

LEMMA AfterItemsKept ==
    ASSUME Unshared, Fits, NEW j \in Job, Moves(j),
           Settled => Settled', Processed \subseteq Processed'
    PROVE  AfterItems'
  <1>1. PICK m \in Job, paid \in SUBSET Branch : Turned(j, m, paid)
    BY DEF Moves
  <1>2. /\ \A k \in Job \ {j, m} : Late(k)' <=> Late(k)
        /\ Late(j)' \/ Late(m)' => Late(j) \/ Forks(j)
        /\ paid # {} => Late(j)
        /\ intel'.done = intel.done \cup paid
    BY <1>1, TurnedTold
  <1> SUFFICES ASSUME (\E k \in Job : Late(k)') \/ intel'.done # {}
               PROVE  Settled' /\ Processed' # {}
    BY DEF AfterItems
  <1>3. (\E k \in Job : Late(k)) \/ intel.done # {} \/ Forks(j)
    BY <1>2
  <1>4. Settled /\ Processed # {}
    <2>1. CASE Forks(j)
      <3>1. ToldRow(job[j]) /\ ~job[j].more /\ job[j].output # {}
        BY <2>1 DEF Forks, ToldRow, At
      <3> QED BY <3>1 DEF Fits, Told
    <2>2. CASE (\E k \in Job : Late(k)) \/ intel.done # {}
      BY <2>2 DEF Fits, AfterItems
    <2> QED BY <1>3, <2>1, <2>2
  <1> QED BY <1>4

LEMMA ToldKept ==
    ASSUME IInv, Unshared, Exact, Fits, NEW j \in Job, Moves(j), Shape', job[j].msg # "none",
           Settled => Settled', Processed \subseteq Processed', At(j, "read") => UNCHANGED item
    PROVE  Told'
  <1>1. PICK m \in Job, paid \in SUBSET Branch : Turned(j, m, paid)
    BY DEF Moves
  <1>2. /\ \A k \in Job \ {j, m} : job'[k] = job[k]
        /\ m # j => ~ToldRow(job'[m])
        /\ ToldRow(job'[j]) =>
              \/ ToldRow(job[j]) /\ job'[j].output = job[j].output /\ job'[j].more = job[j].more
              \/ At(j, "read") /\ job'[j].output = Processed /\ job'[j].more = (Pending # {})
    BY <1>1, TurnedTold
  <1> SUFFICES ASSUME NEW k \in Job, ToldRow(job'[k])
               PROVE  job'[k].output \subseteq Processed' /\ (~job'[k].more => Settled')
    BY DEF Told
  <1>3. CASE k # j
    BY <1>2, <1>3 DEF Fits, Told
  <1>4. CASE k = j /\ ToldRow(job[j]) /\ job'[j].output = job[j].output /\ job'[j].more = job[j].more
    BY <1>4 DEF Fits, Told
  <1>5. CASE k = j /\ At(j, "read") /\ job'[j].output = Processed /\ job'[j].more = (Pending # {})
    <2>1. j[1] # "sweep" /\ job[j].fn \in {"metadata", "comments"} /\ job[j].pc = "read"
      BY <1>5 DEF Exact, Shape, RowShape, Fits, NoSweep, At
    <2>2. Debt(j) = Branch
      BY <2>1, OwesAll DEF Exact
    <2>3. \A l \in Job : ~At(l, "fetch")
      BY <1>5, <2>2, Alone DEF Fits, At
    <2>4. \A i \in Item : item[i] # "processing"
      BY <2>3 DEF Fits, Fetching
    <2>5. Pending = {} => Settled
      BY <2>4 DEF Pending, Settled, IInv, TypeOK, ItemStatus
    <2> QED BY <1>5, <2>5
  <1> QED BY <1>2, <1>3, <1>4, <1>5

(* The items that failed stay reported. *)
LEMMA FailuresKept ==
    ASSUME Unshared, Exact, FailuresTold, NEW j \in Job, Moves(j),
           \A i \in Item : item'[i] = "failed" => item[i] = "failed",
           intel.status = "failed" => intel'.status = "failed"
    PROVE  FailuresTold'
  <1>1. PICK m \in Job, paid \in SUBSET Branch : Turned(j, m, paid)
    BY DEF Moves
  <1>2. /\ \A k \in Job \ {j, m} : job'[k] = job[k]
        /\ m # j => job[m].msg = "none"
        /\ WaryRow(job[j]) => WaryRow(job'[j]) \/ intel'.failed
        /\ intel.failed => intel'.failed
    BY <1>1, TurnedTold
  <1>3. m # j => ~WaryRow(job[m])
    BY <1>2 DEF Exact, Shape, RowShape, WaryRow
  <1> SUFFICES ASSUME \E i \in Item : item'[i] = "failed"
               PROVE  intel'.failed \/ intel'.status = "failed" \/ \E k \in Job : WaryRow(job'[k])
    BY DEF FailuresTold
  <1>4. intel.failed \/ intel.status = "failed" \/ \E k \in Job : WaryRow(job[k])
    BY DEF FailuresTold
  <1>5. ASSUME NEW k \in Job, WaryRow(job[k])
        PROVE  intel'.failed \/ WaryRow(job'[k])
    <2>1. CASE k = j
      BY <1>2, <1>5, <2>1
    <2>2. CASE k # j
      BY <1>2, <1>3, <1>5, <2>2
    <2> QED BY <2>1, <2>2
  <1> QED BY <1>2, <1>4, <1>5

LEMMA FetchingSame ==
    ASSUME Unshared, Exact, Fetching, NEW j \in Job, Moves(j), NoFetch(j), UNCHANGED item
    PROVE  Fetching'
  <1>1. PICK m \in Job, paid \in SUBSET Branch : Turned(j, m, paid)
    BY DEF Moves
  <1>2. /\ \A k \in Job \ {j, m} : job'[k] = job[k]
        /\ m # j => job[m].msg = "none" /\ job'[m].pc = "idle"
    BY <1>1, TurnedTold
  <1>3. m # j => job[m].pc # "fetch"
    BY <1>2 DEF Exact, Shape, RowShape
  <1>4. job[j].pc # "fetch" /\ job'[j].pc # "fetch"
    BY DEF NoFetch, Unshared, Faultless
  <1>5. \A k \in Job : (job[k].pc = "fetch" \/ job'[k].pc = "fetch") => job'[k] = job[k]
    BY <1>2, <1>3, <1>4
  <1> QED BY <1>5 DEF Fetching, At

LEMMA FitsSame ==
    ASSUME IInv, Unshared, Exact, Fits, Shape', NEW j \in Job, Moves(j), NoFetch(j),
           job[j].msg # "none", UNCHANGED item,
           intel'.status = "not_started" => intel.status = "not_started",
           intel.status = "failed" => intel'.status = "failed",
           intel'.status \in {"completed", "partial"} =>
              intel'.status = intel.status \/ intel'.done # {}
    PROVE  Fits'
  <1>1. (Settled => Settled') /\ Processed \subseteq Processed' /\ Found' = Found
    BY DEF Settled, Processed, Found
  <1>2. NoSweep' /\ Fetching' /\ Told' /\ AfterItems' /\ FailuresTold'
    BY <1>1, NoSweepKept, FetchingSame, ToldKept, AfterItemsKept, FailuresKept DEF Fits
  <1>3. EndsSettled'
    BY <1>1, <1>2 DEF Fits, EndsSettled, AfterItems
  <1>4. FreshItems'
    BY DEF Fits, FreshItems
  <1> QED BY <1>2, <1>3, <1>4 DEF Fits

LEMMA FitsClaim ==
    ASSUME IInv, Unshared, Exact, Fits, NEW j \in Job, NEW claimed \in SUBSET Item, Claim(j, claimed)
    PROVE  Fits'
  <1>1. /\ Moves(j) /\ Shape' /\ job[j].msg # "none" /\ UNCHANGED intel
        /\ job'[j].pc = "fetch" => claimed # {} /\ job'[j].output = claimed
        /\ job[j].pc = "work" /\ job[j].fn \in {"metadata", "sweep"}
    BY ClaimMoves, HeldRow DEF Claim, At, Exact
  <1>2. CASE claimed = {}
    <2>1. NoFetch(j)
      BY <1>1, <1>2 DEF NoFetch
    <2>2. UNCHANGED item
      BY <1>2 DEF Claim, IInv, TypeOK
    <2> QED BY <1>1, <2>1, <2>2, FitsSame
  <1>3. CASE claimed # {}
    <2>1. job[j] \in JobRow /\ job' = [job EXCEPT ![j] = [@ EXCEPT !.pc = "fetch", !.output = claimed]]
      BY <1>3 DEF Claim, IInv, TypeOK
    <2>2. /\ job'[j].pc = "fetch" /\ job'[j].output = claimed
          /\ \A k \in Job \ {j} : job'[k] = job[k]
      BY <2>1 DEF JobRow, IInv, TypeOK
    <2>3. /\ \A i \in claimed : item[i] = "pending" /\ item'[i] = "processing"
          /\ \A i \in Item \ claimed : item'[i] = item[i]
      BY DEF Claim, Pending, IInv, TypeOK
    <2>4. ~Settled /\ Processed \subseteq Processed'
      BY <1>3, <2>3 DEF Settled, Processed
    <2>5. j[1] # "sweep" /\ job[j].fn = "metadata"
      BY <1>1 DEF Fits, NoSweep, Exact, Shape, RowShape
    <2>6. Debt(j) = Branch /\ intel.status \in ActiveIntel
      BY <1>1, <2>5, CollectorOwes DEF Fits
    <2>7. Fetching'
      <3>1. ASSUME NEW i \in Item, item'[i] = "processing"
            PROVE  \E k \in Job : job'[k].pc = "fetch" /\ i \in job'[k].output
        <4>1. CASE i \in claimed
          BY <2>2, <4>1
        <4>2. CASE i \notin claimed
          <5>1. PICK k \in Job : At(k, "fetch") /\ i \in job[k].output
            BY <2>3, <3>1, <4>2 DEF Fits, Fetching
          <5>2. k # j
            BY <1>1, <5>1 DEF At
          <5> QED BY <2>2, <5>1, <5>2 DEF At
        <4> QED BY <4>1, <4>2
      <3>2. ASSUME NEW k \in Job, job'[k].pc = "fetch"
            PROVE  \A i \in job'[k].output : item'[i] = "processing"
        <4>1. CASE k = j
          BY <2>2, <2>3, <4>1
        <4>2. CASE k # j
          BY <2>2, <2>6, <3>2, <4>2, Alone DEF Fits, At
        <4> QED BY <4>1, <4>2
      <3> QED BY <3>1, <3>2 DEF Fetching, At
    <2>8. NoSweep' /\ Told' /\ AfterItems'
      BY <1>1, <2>4, NoSweepKept, ToldKept, AfterItemsKept DEF Fits, At
    <2>9. FailuresTold'
      BY <1>1, <2>3, FailuresKept DEF Fits
    <2>10. EndsSettled' /\ FreshItems'
      BY <1>1, <2>6 DEF EndsSettled, FreshItems, ActiveIntel
    <2> QED BY <2>7, <2>8, <2>9, <2>10 DEF Fits
  <1> QED BY <1>2, <1>3

LEMMA FitsPersist ==
    ASSUME IInv, Unshared, Exact, Fits, NEW j \in Job, NEW returned \in SUBSET Item, Persist(j, returned)
    PROVE  Fits'
  <1>1. /\ Moves(j) /\ Shape' /\ job[j].msg # "none" /\ UNCHANGED intel /\ At(j, "fetch")
        /\ job'[j].pc # "fetch"
        /\ j[1] # "sweep" => /\ job'[j].pc = "read" /\ job'[j].fn = "metadata"
                             /\ job'[j].ok = (returned = job[j].output)
    BY PersistMoves, HeldRow DEF Persist, At, Exact
  <1>2. Debt(j) = Branch /\ intel.status \in ActiveIntel /\ j[1] # "sweep"
    BY <1>1, CollectorOwes DEF Fits, At
  <1>3. /\ returned \subseteq job[j].output
        /\ \A i \in Item : item'[i] = IF i \in returned THEN "processed"
                                      ELSE IF i \in job[j].output THEN "failed" ELSE item[i]
    BY DEF Persist
  <1>4. \A i \in job[j].output : item[i] = "processing"
    BY <1>1 DEF Fits, Fetching
  <1>5. (Settled => Settled') /\ Processed \subseteq Processed'
    BY <1>3, <1>4 DEF Settled, Processed
  <1>6. \A k \in Job \ {j} : ~At(k, "fetch") /\ ~WaryRow(job[k])
    BY <1>2, Alone DEF Fits
  <1>7. \A k \in Job : job'[k].pc # "fetch"
    BY <1>1, <1>6 DEF Persist, IInv, TypeOK, At
  <1>8. \A i \in Item : item'[i] # "processing"
    BY <1>1, <1>3, <1>6 DEF Fits, Fetching
  <1>9. Fetching'
    BY <1>7, <1>8 DEF Fetching, At
  <1>10. NoSweep' /\ Told' /\ AfterItems'
    BY <1>1, <1>5, NoSweepKept, ToldKept, AfterItemsKept DEF Fits, At
  <1>11. FailuresTold'
    <2>1. CASE returned = job[j].output
      <3>1. \A i \in Item : item'[i] = "failed" => item[i] = "failed"
        BY <1>3, <2>1
      <3> QED BY <1>1, <3>1, FailuresKept DEF Fits
    <2>2. CASE returned # job[j].output
      BY <1>1, <1>2, <2>2 DEF FailuresTold, WaryRow
    <2> QED BY <2>1, <2>2
  <1>12. EndsSettled' /\ FreshItems'
    BY <1>1, <1>2 DEF EndsSettled, FreshItems, ActiveIntel
  <1> QED BY <1>9, <1>10, <1>11, <1>12 DEF Fits

LEMMA FitsEnds ==
    ASSUME IInv, Unshared, Exact, Fits, NEW j \in Job, ForceFinish(j) \/ Fail(j)
    PROVE  Fits'
  <1>1. job[j].pc \in {"force", "fail"}
    BY DEF ForceFinish, Fail, At
  <1>2. job' = [job EXCEPT ![j] = NoJob]
    <2>1. PICK row \in {NoJob, Again(j)} : Over(j, row) /\ job' = [job EXCEPT ![j] = row]
      BY DEF ForceFinish, Fail, End
    <2>2. row = NoJob
      BY <2>1 DEF Over, Fault, Unshared, Faultless
    <2> QED BY <2>1, <2>2
  <1>3. /\ job'[j] = NoJob /\ \A k \in Job \ {j} : job'[k] = job[k]
        /\ NoJob.msg = "none" /\ NoJob.pc = "idle" /\ ~ToldRow(NoJob) /\ ~LateRow(j[1], NoJob)
    BY <1>2, NoJobRow DEF IInv, TypeOK, NoJob, Parked
  <1>4. (\A k \in Job \ {j} : Late(k)' <=> Late(k)) /\ ~Late(j)'
    BY <1>3 DEF Late
  <1>5. /\ intel'.done = intel.done /\ intel'.failed = intel.failed /\ UNCHANGED item
        /\ intel'.status # "not_started"
        /\ Fail(j) => intel'.status = "failed"
    BY DEF ForceFinish, Fail, FailPipeline, IInv, TypeOK, IntelRow
  <1>6. ForceFinish(j) => Found = {}
    BY DEF ForceFinish, IInv, ForcedFoundNothing
  <1>7. NoSweep' /\ Told' /\ AfterItems'
    BY <1>3, <1>4, <1>5 DEF Fits, NoSweep, Told, AfterItems, Settled, Processed
  <1>8. Fetching'
    BY <1>1, <1>3, <1>5 DEF Fits, Fetching, At
  <1>9. EndsSettled' /\ FailuresTold' /\ FreshItems'
    BY <1>5, <1>6 DEF EndsSettled, FailuresTold, FreshItems, Found
  <1> QED BY <1>7, <1>8, <1>9 DEF Fits

LEMMA FitsStarts ==
    ASSUME IInv, Unshared, Exact, Fits, NEW c \in Copy, NEW known \in SUBSET Item, StartPipeline(c, known)
    PROVE  Fits'
  <1> DEFINE row == [NoJob EXCEPT !.msg = "held", !.pc = "begin"]
             j == <<"start", c>>
  <1>1. j \in Job /\ j[1] = "start" /\ job' = [job EXCEPT ![j] = row]
    BY DEF StartPipeline, Job, Stage
  <1>2. row.msg = "held" /\ row.pc = "begin" /\ row.fn = "start"
    BY DEF NoJob, Parked
  <1>3. ~LateRow(j[1], row) /\ ~ToldRow(row)
    BY <1>1, <1>2 DEF LateRow, StageOf, ToldRow
  <1> HIDE DEF row, j
  <1>4. job'[j] = row /\ \A k \in Job \ {j} : job'[k] = job[k]
    BY <1>1 DEF IInv, TypeOK
  <1>5. (\A k \in Job \ {j} : Late(k)' <=> Late(k)) /\ ~Late(j)'
    BY <1>3, <1>4 DEF Late
  <1>6. /\ intel.status = "not_started" /\ intel'.status = "queued" /\ intel'.done = {}
        /\ \A i \in Item : item'[i] = IF i \in known THEN "processed" ELSE item[i]
    BY DEF StartPipeline
  <1>7. \A k \in Job : ~At(k, "fetch") /\ ~ToldRow(job[k])
    BY <1>6, CollectorOwes DEF Fits, At, ToldRow, ActiveIntel
  <1>8. \A i \in Item : item[i] \notin {"processing", "failed"}
    BY <1>6, <1>7 DEF Fits, Fetching, FreshItems
  <1>9. Settled => Settled'
    BY <1>6 DEF Settled
  <1>10. Processed \subseteq Processed'
    BY <1>6 DEF Processed
  <1>11. NoSweep' /\ Told'
    BY <1>1, <1>3, <1>4, <1>7 DEF Fits, NoSweep, Told
  <1>12. Fetching'
    BY <1>2, <1>4, <1>6, <1>7, <1>8 DEF Fetching, At
  <1>13. AfterItems'
    BY <1>5, <1>6, <1>9, <1>10 DEF Fits, AfterItems
  <1>14. EndsSettled' /\ FailuresTold' /\ FreshItems'
    BY <1>6, <1>8 DEF EndsSettled, FailuresTold, FreshItems
  <1> QED BY <1>11, <1>12, <1>13, <1>14 DEF Fits

LEMMA JobStepFits ==
    ASSUME IInv, Unshared, Exact, Fits, NEW j \in Job, JobStep(j)
    PROVE  Fits'
  <1>0. OutcomeStays
    BY JobStepExact DEF Unshared
  <1>1. CASE \/ Begin(j) \/ Deliver(j) \/ Read(j)
             \/ MetadataNext(j) \/ CommentsNext(j) \/ Mine(j) \/ Forward(j)
             \/ \E output \in SUBSET Item, ok \in BOOLEAN : RunStage(j, output, ok)
    <2>1. Moves(j) /\ Shape' /\ NoFetch(j) /\ UNCHANGED <<intel, item>>
      BY <1>1, SilentMoves DEF Exact
    <2>2. job[j].msg # "none"
      BY <1>1, HeldRow
         DEF Begin, Deliver, Read, MetadataNext, CommentsNext, Mine, Forward, RunStage, At, Exact
    <2> QED BY <2>1, <2>2, FitsSame
  <1>2. CASE \E claimed \in SUBSET Item : Claim(j, claimed)
    BY <1>2, FitsClaim
  <1>3. CASE \E returned \in SUBSET Item : Persist(j, returned)
    BY <1>3, FitsPersist
  <1>4. CASE Report(j) \/ Skip(j)
    <2>1. Moves(j) /\ Shape' /\ NoFetch(j) /\ intel'.status = "processing"
      BY <1>4, ReportMoves, SkipMoves DEF Exact
    <2>2. job[j].msg # "none" /\ UNCHANGED item
      BY <1>4, HeldRow DEF Report, Skip, At, Exact
    <2>3. intel.status # "failed"
      BY <1>0, <2>1 DEF OutcomeStays, Outcome
    <2> QED BY <2>1, <2>2, <2>3, FitsSame
  <1>5. CASE FinishIfReady(j)
    <2>1. Moves(j) /\ Shape' /\ NoFetch(j)
      BY <1>5, FinishIfReadyMoves DEF Exact
    <2>2. job[j].msg # "none" /\ UNCHANGED item
      BY <1>5, HeldRow DEF FinishIfReady, At, Exact
    <2>3. \/ intel' = intel
          \/ intel'.status \in {"partial", "completed"} /\ intel'.done # {}
      BY <1>5 DEF FinishIfReady, Finished, IInv, TypeOK, IntelRow, Branch
    <2>4. intel.status = "failed" => intel'.status = "failed"
      BY <1>0, <2>3 DEF OutcomeStays, Outcome
    <2> QED BY <2>1, <2>2, <2>3, <2>4, FitsSame
  <1>6. CASE ForceFinish(j) \/ Fail(j)
    BY <1>6, FitsEnds
  <1>7. CASE FailExhausted(j)
    BY <1>7 DEF FailExhausted, Exact, Shape, RowShape
  <1> QED BY <1>1, <1>2, <1>3, <1>4, <1>5, <1>6, <1>7 DEF JobStep

LEMMA FitsInit == Init => Fits
  <1> SUFFICES ASSUME Init PROVE Fits
    OBVIOUS
  <1>1. \A j \in Job : job[j] = NoJob
    BY DEF Init
  <1>2. \A j \in Job : ~Late(j) /\ job[j].pc = "idle" /\ ~ToldRow(job[j]) /\ job[j].msg = "none"
    BY <1>1, NoJobRow DEF Late, NoJob, Parked
  <1>3. \A i \in Item : item[i] \notin {"processing", "failed"}
    BY DEF Init
  <1> QED BY <1>2, <1>3
          DEF Init, Fits, NoSweep, Fetching, Told, AfterItems, EndsSettled, FailuresTold, FreshItems, At

LEMMA FitsStep == IInv /\ Unshared /\ Exact /\ Fits /\ [Next]_vars => Fits'
  <1> SUFFICES ASSUME IInv, Unshared, Exact, Fits, [Next]_vars PROVE Fits'
    OBVIOUS
  <1>1. CASE \E c \in Copy, known \in SUBSET Item : StartPipeline(c, known)
    BY <1>1, FitsStarts
  <1>2. CASE \E j \in Job : JobStep(j)
    BY <1>2, JobStepFits
  <1>3. CASE \E j \in Job : JobFault(j)
    BY <1>3 DEF JobFault, FetchFails, WorkerCrash, AttemptFails, StarterDies, QueueRefuses, RejectStage,
                Fault, Unshared, Faultless
  <1>4. CASE \/ \E c \in Copy : Sweep(c)
             \/ \E stale \in SUBSET Item : RecoverClaims(stale)
    BY <1>4 DEF Sweep, RecoverClaims, Unshared
  <1>5. CASE Resume
    <2>1. /\ UNCHANGED <<item, job>> /\ intel'.status = "not_started"
          /\ intel'.done = intel.done
          /\ \A i \in Item : item[i] # "failed"
      BY <1>5 DEF Resume, IInv, TypeOK, IntelRow
    <2>2. NoSweep' /\ Fetching' /\ Told' /\ AfterItems'
      BY <2>1 DEF Fits, NoSweep, Fetching, Told, AfterItems, Settled, Processed, Late, At
    <2> QED BY <2>1, <2>2 DEF Fits, EndsSettled, FailuresTold, FreshItems
  <1>6. CASE UNCHANGED vars
    BY <1>6 DEF vars, Fits, NoSweep, Fetching, Told, AfterItems, EndsSettled, FailuresTold, FreshItems,
                Settled, Processed, Found, Late, At
  <1> QED BY <1>1, <1>2, <1>3, <1>4, <1>5, <1>6 DEF Next

LEMMA FitsOutcome ==
    ASSUME IInv, Exact, Fits
    PROVE  OutcomeFitsItems
  <1>1. ASSUME intel.status = "completed", Found # {}
        PROVE  Found = Processed
    <2>1. Settled /\ ~intel.failed
      BY <1>1 DEF Fits, EndsSettled, Exact, Judged
    <2>2. \A j \in Job : ~WaryRow(job[j])
      BY <1>1, CollectorOwes DEF Fits, WaryRow, ActiveIntel
    <2>3. \A i \in Item : item[i] # "failed"
      BY <1>1, <2>1, <2>2 DEF Fits, FailuresTold
    <2> QED BY <2>1, <2>3 DEF Settled, Found, Processed
  <1>2. Found = {} => Processed = {}
    BY DEF Found, Processed
  <1>3. intel.status = "partial" /\ Found # {} => Processed # {}
    BY DEF Fits, EndsSettled
  <1> QED BY <1>1, <1>2, <1>3 DEF OutcomeFitsItems

(* While no worker fails and no other collector takes items of the batch: a  *)
(* completed pipeline has taken up all of them, and one that failed is told  *)
(* to the batch before its outcome is computed, over every chunk of the      *)
(* metadata and every resumption (metadata_completed, _finish_if_ready).     *)
THEOREM OutcomeFitsItemsCorrect == Unshared => (Spec => []OutcomeFitsItems)
  <1> SUFFICES ASSUME Unshared PROVE Spec => []OutcomeFitsItems
    OBVIOUS
  <1>1. Init => IInv /\ Exact /\ Fits
    BY InvInit, ExactInit, FitsInit
  <1>2. IInv /\ Exact /\ Fits /\ [Next]_vars => (IInv /\ Exact /\ Fits)'
    BY InvStep, ExactStep, FitsStep DEF Unshared
  <1>3. IInv /\ Exact /\ Fits => OutcomeFitsItems
    BY FitsOutcome
  <1> QED BY <1>1, <1>2, <1>3, PTL DEF Spec
=============================================================================
