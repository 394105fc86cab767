------------------------ MODULE MCDiscoveryPipeline ------------------------
(* Instances of DiscoveryPipeline for TLC.                                   *)
EXTENDS DiscoveryPipeline, TLC

(* Videos and message identities are interchangeable in the safety           *)
(* properties.                                                               *)
Interchangeable == Permutations(Item) \cup Permutations(Copy)

(* Of two free identities of a stage a message takes the first. *)
InOrder ==
    \A s \in Stage, c \in Copy : LET first == CHOOSE d \in Copy : TRUE IN
        c # first /\ job[<<s, c>>] = NoJob /\ job'[<<s, c>>] # NoJob
            => job[<<s, first>>] # NoJob

(* At most two workers are at work at the same time. *)
TwoWorkers ==
    /\ InOrder
    /\ Cardinality({j \in Job : Busy(j)}) >= 2 => \A j \in Job : Busy(j)' => Busy(j)
=============================================================================
