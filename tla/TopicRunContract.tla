-------------------------- MODULE TopicRunContract --------------------------
(***************************************************************************)
(* What a topic execution promises to the intelligence stages: the batch   *)
(* collects, it settles once every child is settled, and only then is it   *)
(* analysed, once; a result that was kept is never taken back.             *)
(***************************************************************************)
CONSTANTS Batch, Run

VARIABLES phase, kept

contractVars == <<phase, kept>>

ContractInit ==
    /\ phase = [b \in Batch |-> "absent"]
    /\ kept = {}

(* A batch is opened with children that still have to be collected. *)
Open(b) ==
    /\ phase[b] = "absent"
    /\ phase' = [phase EXCEPT ![b] = "collecting"]
    /\ UNCHANGED kept

(* Results arrive, late ones too, and the batches whose last child ended    *)
(* settle.                                                                  *)
Collect(bs, results) ==
    /\ \A b \in bs : phase[b] = "collecting"
    /\ phase' = [b \in Batch |-> IF b \in bs THEN "settled" ELSE phase[b]]
    /\ kept' = kept \cup results

(* The intelligence pipeline takes over. *)
Analyse(b) ==
    /\ phase[b] = "settled"
    /\ phase' = [phase EXCEPT ![b] = "analysing"]
    /\ UNCHANGED kept

ContractNext ==
    \/ \E b \in Batch : Open(b) \/ Analyse(b)
    \/ \E bs \in SUBSET Batch, results \in SUBSET Run : Collect(bs, results)

ContractSpec == ContractInit /\ [][ContractNext]_contractVars
=============================================================================
