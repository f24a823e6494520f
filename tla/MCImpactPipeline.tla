-------------------------- MODULE MCImpactPipeline --------------------------
(***************************************************************************)
(* Instances of ImpactPipeline for TLC.  k1, k2 and k3 are requests, k1r   *)
(* is a rerun of k1's; h1 and h2 are receipts that a replay of k1's wallet *)
(* may yield.                                                              *)
(***************************************************************************)
EXTENDS ImpactPipeline, TLC

CONSTANTS k1, k2, k3, k1r, a1, a2, h1, h2

MCWalletOf == [k \in Keys |-> IF k \in {k2, k3} THEN a2 ELSE a1]
MCHashWallet == [h \in Hashes |-> a1]

(* How often each thing may happen in each run. *)
NoBudget == [kind \in Kinds |-> 0]
SafetyBudget == [NoBudget EXCEPT !.post = 2, !.mark = 1, !.fault = 1, !.lockLoss = 1]
ExclusiveBudget == [NoBudget EXCEPT !.post = 3, !.mark = 1, !.replayError = 1,
                                    !.requestError = 1, !.crash = 1]
ProgressBudget == [NoBudget EXCEPT !.post = 2, !.replayError = 1, !.fault = 2, !.crash = 1]
MarkBudget == [NoBudget EXCEPT !.post = 1, !.mark = 1]
MarkRequeueBudget == [NoBudget EXCEPT !.post = 2, !.mark = 1]
FailRequeueBudget == [NoBudget EXCEPT !.post = 2, !.replayError = 1]

IdsAndSlots == Permutations(RunIds) \cup Permutations(Workers) \cup Permutations(Producers)
IdsSlotsAndHashes == IdsAndSlots \cup Permutations(Hashes)
IdsSlotsAndKeys == IdsAndSlots \cup Permutations(Keys \ SupportedKeys)
=============================================================================
