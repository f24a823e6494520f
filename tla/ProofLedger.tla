---------------------------- MODULE ProofLedger ----------------------------
(***************************************************************************)
(* What the pipeline promises about proofs, with every process abstracted  *)
(* away: receipts are stored for good; a run shows a proof only once the   *)
(* receipt is stored; attempts may replace the proof of a run that is not  *)
(* settled, but a settled run's proof is final: it neither changes nor     *)
(* appears later, and it goes only when the run is reopened.               *)
(***************************************************************************)
CONSTANTS Runs, Hashes, NoHash

VARIABLES
    stored,     \* the hashes whose receipts are stored
    proof,      \* the proof each run shows
    settled     \* the runs that completed

ledgerVars == <<stored, proof, settled>>

LedgerInit ==
    /\ stored = {}
    /\ proof = [r \in Runs |-> NoHash]
    /\ settled = {}

Store(h) ==
    /\ stored' = stored \cup {h}
    /\ UNCHANGED <<proof, settled>>

Publish(r, h) ==
    /\ h \in stored
    /\ r \notin settled
    /\ proof' = [proof EXCEPT ![r] = h]
    /\ UNCHANGED <<stored, settled>>

Complete(r) ==
    /\ settled' = settled \cup {r}
    /\ UNCHANGED <<stored, proof>>

(* The run is marked, or its completion is recorded as a failure. *)
Dispute(r) ==
    /\ settled' = settled \ {r}
    /\ UNCHANGED <<stored, proof>>

Reopen(r) ==
    /\ settled' = settled \ {r}
    /\ proof' = [proof EXCEPT ![r] = NoHash]
    /\ UNCHANGED stored

LedgerNext ==
    \/ \E h \in Hashes : Store(h)
    \/ \E r \in Runs, h \in Hashes : Publish(r, h)
    \/ \E r \in Runs : Complete(r) \/ Dispute(r) \/ Reopen(r)

LedgerSpec == LedgerInit /\ [][LedgerNext]_ledgerVars
=============================================================================
