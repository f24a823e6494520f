---------------------------- MODULE RiskPolicies ----------------------------
(***************************************************************************)
(* The versions of a wallet's risk policy, as PUT /wallets/:address/policy *)
(* (apps/api policy.controller.ts) stores them: find the active one, make  *)
(* every active one inactive, create the next.  Three calls, and nothing   *)
(* but the unique index on the version between two requests.               *)
(*                                                                         *)
(* Of a policy are kept whether it allows the strategy and whether it asks *)
(* for a safety buffer.                                                    *)
(***************************************************************************)
EXTENDS Naturals, FiniteSets

CONSTANTS
    MaxVersion,     \* bound of the versions
    Puts            \* requests that may be under way at once

ASSUME PolicyAssumption == MaxVersion \in Nat \ {0}

VARIABLES
    policies,   \* the documents of the wallet, by version
    put         \* the requests

Versions == 1..MaxVersion
Policy == [allow : BOOLEAN, buffer : BOOLEAN]
Default == [allow |-> TRUE, buffer |-> FALSE]

Document == [state : {"active", "inactive"}, policy : Policy]
Missing == [state |-> "missing", policy |-> Default]

PutPcs == {"idle", "find", "deactivate", "create"}
Put == [pc : PutPcs, policy : Policy, version : 0..(MaxVersion + 1)]
IdlePut == [pc |-> "idle", policy |-> Default, version |-> 0]

Active == {v \in Versions : policies[v].state = "active"}

\* What a reader of the active policy gets.
PolicyInForce == IF Active = {} THEN Default
                 ELSE policies[CHOOSE v \in Active : TRUE].policy

PoliciesInit ==
    /\ policies = [v \in Versions |-> Missing]
    /\ put = [p \in Puts |-> IdlePut]
-----------------------------------------------------------------------------
BeginPut(p, policy) ==
    /\ put[p].pc = "idle"
    /\ put' = [put EXCEPT ![p] = [pc |-> "find", policy |-> policy, version |-> 0]]
    /\ UNCHANGED policies

Will(p, version) ==
    put' = [put EXCEPT ![p] = [pc |-> "deactivate", policy |-> put[p].policy,
                               version |-> version]]

\* findOne, the newest of the active ones.
FindPolicy(p) ==
    /\ put[p].pc = "find"
    /\ \/ /\ Active = {}
          /\ Will(p, 1)
       \/ \E v \in Active :
            /\ \A u \in Active : u <= v
            /\ Will(p, v + 1)
    /\ UNCHANGED policies

Deactivate(p) ==
    /\ put[p].pc = "deactivate"
    /\ policies' = [v \in Versions |->
                      IF v \in Active THEN [policies[v] EXCEPT !.state = "inactive"]
                      ELSE policies[v]]
    /\ put' = [put EXCEPT ![p].pc = "create"]

\* Mutant of CreatePolicy: without the unique index, the document is replaced.
CreatePolicyUnindexed(p) ==
    /\ put[p].pc = "create"
    /\ put[p].version <= MaxVersion
    /\ policies' = [policies EXCEPT ![put[p].version] =
                      [state |-> "active", policy |-> put[p].policy]]
    /\ put' = [put EXCEPT ![p] = IdlePut]

\* A version that exists rejects the request, whose other write stays.
CreatePolicy(p) ==
    /\ put[p].pc = "create"
    /\ put[p].version <= MaxVersion
    /\ policies' = IF policies[put[p].version] = Missing
                     THEN [policies EXCEPT ![put[p].version] =
                             [state |-> "active", policy |-> put[p].policy]]
                     ELSE policies
    /\ put' = [put EXCEPT ![p] = IdlePut]

\* A call rejects, or the process dies: what was written stays.
PutFails(p) ==
    /\ put[p].pc # "idle"
    /\ put' = [put EXCEPT ![p] = IdlePut]
    /\ UNCHANGED policies

PutStep(p) == FindPolicy(p) \/ Deactivate(p) \/ CreatePolicy(p)
-----------------------------------------------------------------------------
(* However requests race, at most one version is in force, and it is the   *)
(* newest that was stored: the unique index turns the losers away.         *)
NewestPolicyInForce ==
    \A v \in Active, u \in Versions : policies[u] # Missing => u <= v
=============================================================================
