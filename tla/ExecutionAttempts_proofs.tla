---------------------- MODULE ExecutionAttempts_proofs ----------------------
(***************************************************************************)
(* TLAPS proofs about ExecutionAttempts, with the RiskPolicies and the     *)
(* WalletSessions it uses: for every set of wallets, of policy requests    *)
(* and of attempts, every number of calls, versions and transactions, all  *)
(* times to live, and every scenario.                                      *)
(*                                                                         *)
(* Four inductive invariants.                                              *)
(*                                                                         *)
(* PolicyInv says what a request may rely on when it creates a version:    *)
(* the versions stored are 1..n for some n, the version before its own is  *)
(* among them, and whatever became active since it made the others         *)
(* inactive is not older than its own.  So if its own is still missing, it *)
(* is the newest, and nothing is active.                                   *)
(*                                                                         *)
(* SessionInv: every cookie, wherever it is, was earned (EarnedToken), and *)
(* a nonce that no requests overlapped on has at most one request past the *)
(* look at it, which then finds it used up (OneClaim).                     *)
(*                                                                         *)
(* AttemptInv: the document a registration holds is explained by receipts, *)
(* as the stored one is (Held); what it was read from may have changed     *)
(* since, but a receipt does not.                                          *)
(*                                                                         *)
(* PageInv: as long as the page gave nothing up, a registration under way  *)
(* is the one the page waits for, and it holds what is stored (Upheld).    *)
(***************************************************************************)
EXTENDS ExecutionAttempts, TLAPS, FiniteSetTheorems, SequenceTheorems

(***************************************************************************)
(* The versions of a policy.                                               *)
(***************************************************************************)
Stored(v) == policies[v] # Missing

PoliciesTyped ==
    /\ policies \in [Versions -> Document \cup {Missing}]
    /\ put \in [Puts -> Put]

NoGaps == \A u, v \in Versions : u < v /\ Stored(v) => Stored(u)

Prepared(p) == put[p].pc \in {"deactivate", "create"}

FollowsStored ==
    \A p \in Puts : Prepared(p) =>
        \/ put[p].version = 1
        \/ put[p].version - 1 \in Versions /\ Stored(put[p].version - 1)

NothingOlder ==
    \A p \in Puts : put[p].pc = "create" => \A v \in Active : put[p].version <= v

PolicyInv == PoliciesTyped /\ NoGaps /\ FollowsStored /\ NothingOlder /\ NewestPolicyInForce
-----------------------------------------------------------------------------
(* A document that exists is not the missing one.                          *)
LEMMA DocumentsExist == \A d \in Document : d # Missing
  BY DEF Document, Missing

LEMMA ActiveIsStored == ASSUME NEW v \in Active PROVE Stored(v)
  BY DEF Active, Stored, Missing

LEMMA VersionsAreNumbers == \A v \in Versions : v \in Nat /\ v >= 1 /\ v <= MaxVersion
  BY PolicyAssumption DEF Versions

LEMMA InitPolicies == Init => PolicyInv
<1> SUFFICES ASSUME Init PROVE PolicyInv
  OBVIOUS
<1>1. /\ policies = [v \in Versions |-> Missing]
      /\ put = [p \in Puts |-> IdlePut]
  BY DEF Init, PoliciesInit
<1>2. IdlePut \in Put
  BY PolicyAssumption DEF IdlePut, Put, PutPcs, Policy, Default
<1>3. PoliciesTyped
  BY <1>1, <1>2 DEF PoliciesTyped
<1>4. Active = {}
  BY <1>1 DEF Active, Missing
<1>5. NoGaps /\ FollowsStored /\ NothingOlder /\ NewestPolicyInForce
  BY <1>1, <1>4 DEF NoGaps, FollowsStored, NothingOlder, NewestPolicyInForce, Stored,
     Prepared, IdlePut
<1> QED
  BY <1>3, <1>5 DEF PolicyInv

(* Steps of everybody else, and requests that end early.                   *)
LEMMA EndedRequests ==
    ASSUME PolicyInv, policies' = policies, NEW ended \in SUBSET Puts,
           put' = [p \in Puts |-> IF p \in ended THEN IdlePut ELSE put[p]]
    PROVE  PolicyInv'
<1>1. Active' = Active
  BY DEF Active
<1>2. IdlePut \in Put /\ IdlePut.pc = "idle"
  BY PolicyAssumption DEF IdlePut, Put, PutPcs, Policy, Default
<1>3. PoliciesTyped'
  BY <1>2 DEF PolicyInv, PoliciesTyped
<1>4. \A p \in Puts : put'[p] = put[p] \/ put'[p].pc = "idle"
  BY <1>2
<1>5. NoGaps' /\ NewestPolicyInForce'
  BY <1>1 DEF PolicyInv, NoGaps, NewestPolicyInForce, Stored
<1>6. FollowsStored'
  BY <1>4 DEF PolicyInv, FollowsStored, Stored, Prepared
<1>7. NothingOlder'
  BY <1>1, <1>4 DEF PolicyInv, NothingOlder
<1> QED
  BY <1>3, <1>5, <1>6, <1>7 DEF PolicyInv

LEMMA BeginPutKeeps ==
    ASSUME PolicyInv, NEW p \in Puts, NEW policy \in Policy, BeginPut(p, policy)
    PROVE  PolicyInv'
<1>1. Active' = Active /\ policies' = policies
  BY DEF Active, BeginPut
<1>2. /\ put' = [put EXCEPT ![p] = [pc |-> "find", policy |-> policy, version |-> 0]]
      /\ [pc |-> "find", policy |-> policy, version |-> 0] \in Put
  BY PolicyAssumption DEF BeginPut, Put, PutPcs
<1>3. PoliciesTyped'
  BY <1>1, <1>2 DEF PolicyInv, PoliciesTyped
<1>4. \A q \in Puts : put'[q] = put[q] \/ put'[q].pc = "find"
  BY <1>2 DEF PolicyInv, PoliciesTyped
<1>5. NoGaps' /\ NewestPolicyInForce'
  BY <1>1 DEF PolicyInv, NoGaps, NewestPolicyInForce, Stored
<1>6. FollowsStored'
  BY <1>1, <1>4 DEF PolicyInv, FollowsStored, Stored, Prepared
<1>7. NothingOlder'
  BY <1>1, <1>4 DEF PolicyInv, NothingOlder
<1> QED
  BY <1>3, <1>5, <1>6, <1>7 DEF PolicyInv

(* The version a request takes follows one that is stored.                 *)
LEMMA FindPolicyKeeps ==
    ASSUME PolicyInv, NEW p \in Puts, FindPolicy(p)
    PROVE  PolicyInv'
<1>1. Active' = Active /\ policies' = policies
  BY DEF Active, FindPolicy
<1>2. PICK n \in 1..(MaxVersion + 1) : (n = 1 \/ n - 1 \in Active) /\ Will(p, n)
  <2>1. 1 \in 1..(MaxVersion + 1)
    BY PolicyAssumption
  <2>2. \A v \in Active : v + 1 \in 1..(MaxVersion + 1) /\ (v + 1) - 1 = v
    BY VersionsAreNumbers, PolicyAssumption DEF Active
  <2> QED
    BY <2>1, <2>2 DEF FindPolicy
<1>3. [pc |-> "deactivate", policy |-> put[p].policy, version |-> n] \in Put
  <2>1. put[p].policy \in Policy
    BY DEF PolicyInv, PoliciesTyped, Put
  <2>2. n \in 0..(MaxVersion + 1)
    BY PolicyAssumption
  <2> QED
    BY <2>1, <2>2 DEF Put, PutPcs
<1>4. PoliciesTyped'
  BY <1>1, <1>2, <1>3 DEF PolicyInv, PoliciesTyped, Will
<1>5. \A q \in Puts : q # p => put'[q] = put[q]
  BY <1>2 DEF PolicyInv, PoliciesTyped, Will
<1>6. put'[p].pc = "deactivate" /\ put'[p].version = n
  BY <1>2, <1>3 DEF PolicyInv, PoliciesTyped, Will
<1>7. NoGaps' /\ NewestPolicyInForce'
  BY <1>1 DEF PolicyInv, NoGaps, NewestPolicyInForce, Stored
<1>8. FollowsStored'
  <2>1. n = 1 \/ (n - 1 \in Versions /\ Stored(n - 1))
    BY <1>2, ActiveIsStored DEF Active
  <2> QED
    BY <1>1, <1>5, <1>6, <2>1 DEF PolicyInv, FollowsStored, Stored, Prepared
<1>9. NothingOlder'
  BY <1>1, <1>5, <1>6 DEF PolicyInv, NothingOlder
<1> QED
  BY <1>4, <1>7, <1>8, <1>9 DEF PolicyInv

LEMMA DeactivateKeeps ==
    ASSUME PolicyInv, NEW p \in Puts, Deactivate(p)
    PROVE  PolicyInv'
<1>1. /\ policies' = [v \in Versions |->
                        IF v \in Active THEN [policies[v] EXCEPT !.state = "inactive"]
                        ELSE policies[v]]
      /\ put' = [put EXCEPT ![p].pc = "create"]
      /\ put[p].pc = "deactivate"
  BY DEF Deactivate
<1>2. \A v \in Active : /\ policies[v] \in Document
                        /\ [policies[v] EXCEPT !.state = "inactive"] \in Document
                        /\ [policies[v] EXCEPT !.state = "inactive"].state = "inactive"
  BY DEF PolicyInv, PoliciesTyped, Active, Document, Missing
<1>3. policies' \in [Versions -> Document \cup {Missing}]
  BY <1>1, <1>2 DEF PolicyInv, PoliciesTyped
<1>4. Active' = {}
  BY <1>1, <1>2 DEF Active
<1>5. \A v \in Versions : Stored(v)' <=> Stored(v)
  BY <1>1, <1>2, DocumentsExist, ActiveIsStored DEF Stored
<1>6. put[p] \in Put /\ [put[p] EXCEPT !.pc = "create"] \in Put
  BY DEF PolicyInv, PoliciesTyped, Put, PutPcs
<1>7. PoliciesTyped'
  BY <1>1, <1>3, <1>6 DEF PolicyInv, PoliciesTyped
<1>8. \A q \in Puts : put'[q].version = put[q].version /\ (Prepared(q)' => Prepared(q))
  BY <1>1, <1>6 DEF PolicyInv, PoliciesTyped, Put, Prepared
<1>9. NoGaps'
  BY <1>5 DEF PolicyInv, NoGaps
<1>10. NothingOlder' /\ NewestPolicyInForce'
  BY <1>4 DEF NothingOlder, NewestPolicyInForce
<1>11. FollowsStored'
  BY <1>5, <1>8 DEF PolicyInv, FollowsStored
<1> QED
  BY <1>7, <1>9, <1>10, <1>11 DEF PolicyInv

(* The heart of it: a version that is still missing is the next one, and   *)
(* nothing is active.                                                      *)
LEMMA MissingIsNext ==
    ASSUME PolicyInv, NEW p \in Puts, put[p].pc = "create",
           put[p].version \in Versions, ~Stored(put[p].version)
    PROVE  /\ Active = {}
           /\ \A v \in Versions : Stored(v) <=> v < put[p].version
<1> DEFINE k == put[p].version
<1>1. k \in Nat /\ k >= 1
  BY VersionsAreNumbers
<1>2. ASSUME NEW v \in Versions, Stored(v) PROVE v < k
  <2>1. v \in Nat /\ v # k
    BY <1>2, VersionsAreNumbers
  <2>2. ~ (k < v)
    BY <1>2 DEF PolicyInv, NoGaps
  <2> QED
    BY <1>1, <2>1, <2>2
<1>3. ASSUME NEW v \in Versions, v < k PROVE Stored(v)
  <2>1. v \in Nat /\ v >= 1
    BY VersionsAreNumbers
  <2>2. k - 1 \in Versions /\ Stored(k - 1)
    BY <1>1, <1>3, <2>1 DEF PolicyInv, FollowsStored, Prepared
  <2>3. v = k - 1 \/ v < k - 1
    BY <1>1, <1>3, <2>1
  <2> QED
    BY <2>2, <2>3 DEF PolicyInv, NoGaps
<1>4. ASSUME NEW v \in Active PROVE FALSE
  <2>1. v \in Versions /\ v \in Nat /\ Stored(v)
    BY VersionsAreNumbers, ActiveIsStored DEF Active
  <2>2. v < k
    BY <1>2, <2>1
  <2>3. k <= v
    BY DEF PolicyInv, NothingOlder
  <2> QED
    BY <1>1, <2>1, <2>2, <2>3
<1> QED
  BY <1>2, <1>3, <1>4

LEMMA CreatePolicyKeeps ==
    ASSUME PolicyInv, NEW p \in Puts, CreatePolicy(p)
    PROVE  PolicyInv'
<1> DEFINE k == put[p].version
           document == [state |-> "active", policy |-> put[p].policy]
<1>1. /\ put[p].pc = "create"
      /\ k <= MaxVersion
      /\ put' = [put EXCEPT ![p] = IdlePut]
      /\ put[p] \in Put
  BY DEF CreatePolicy, PolicyInv, PoliciesTyped
<1>2. put' = [q \in Puts |-> IF q \in {p} THEN IdlePut ELSE put[q]]
  BY <1>1 DEF PolicyInv, PoliciesTyped
<1>3. k \in Versions
  <2>1. k \in Nat
    BY <1>1, PolicyAssumption DEF Put
  <2>2. k = 1 \/ k - 1 \in Versions
    BY <1>1 DEF PolicyInv, FollowsStored, Prepared
  <2> QED
    BY <1>1, <2>1, <2>2, VersionsAreNumbers, PolicyAssumption DEF Versions
<1>4. CASE Stored(k)
  <2>1. policies' = policies
    BY <1>4 DEF CreatePolicy, Stored
  <2>2. {p} \in SUBSET Puts
    OBVIOUS
  <2> QED
    BY <1>2, <2>1, <2>2, EndedRequests
<1>5. CASE ~Stored(k)
  <2>1. policies' = [policies EXCEPT ![k] = document]
    BY <1>5 DEF CreatePolicy, Stored
  <2>2. document \in Document /\ document.state = "active"
    BY <1>1 DEF Document, Put
  <2>3. /\ Active = {}
        /\ \A v \in Versions : Stored(v) <=> v < k
    BY <1>1, <1>3, <1>5, MissingIsNext
  <2>4. policies' \in [Versions -> Document \cup {Missing}]
    BY <2>1, <2>2 DEF PolicyInv, PoliciesTyped
  <2>5. IdlePut \in Put /\ IdlePut.pc = "idle"
    BY PolicyAssumption DEF IdlePut, Put, PutPcs, Policy, Default
  <2>6. PoliciesTyped'
    BY <1>2, <2>4, <2>5 DEF PolicyInv, PoliciesTyped
  <2>7. \A v \in Versions : Stored(v)' <=> v <= k
    <3>1. policies'[k] = document /\ document # Missing
      BY <1>3, <2>1, <2>2, DocumentsExist DEF PolicyInv, PoliciesTyped
    <3>2. \A v \in Versions : v # k => policies'[v] = policies[v]
      BY <2>1 DEF PolicyInv, PoliciesTyped
    <3> QED
      BY <1>3, <2>3, <3>1, <3>2, VersionsAreNumbers DEF Stored
  <2>8. \A v \in Versions : v \in Active' => v = k
    BY <2>1, <2>3 DEF Active, PolicyInv, PoliciesTyped
  <2>9. Active' \subseteq {k}
    BY <2>8 DEF Active
  <2>10. NoGaps'
    BY <1>3, <2>7, VersionsAreNumbers DEF NoGaps
  <2>11. NewestPolicyInForce'
    BY <2>7, <2>9 DEF NewestPolicyInForce, Stored
  <2>12. ASSUME NEW q \in Puts, Prepared(q)' PROVE put'[q] = put[q]
    BY <1>2, <2>5, <2>12 DEF Prepared
  <2>13. FollowsStored'
    <3> SUFFICES ASSUME NEW q \in Puts, Prepared(q)'
                 PROVE  \/ put'[q].version = 1
                        \/ /\ put'[q].version - 1 \in Versions
                           /\ policies'[put'[q].version - 1] # Missing
      BY DEF FollowsStored, Stored
    <3>1. put'[q] = put[q] /\ Prepared(q)
      BY <2>12 DEF Prepared
    <3>2. \/ put[q].version = 1
          \/ put[q].version - 1 \in Versions /\ Stored(put[q].version - 1)
      BY <3>1 DEF PolicyInv, FollowsStored
    <3>3. \A v \in Versions : Stored(v) => policies'[v] # Missing
      BY <1>3, <2>3, <2>7, VersionsAreNumbers DEF Stored
    <3> QED
      BY <3>1, <3>2, <3>3
  <2>14. NothingOlder'
    <3> SUFFICES ASSUME NEW q \in Puts, put'[q].pc = "create"
                 PROVE  put'[q].version <= k
      BY <2>9 DEF NothingOlder
    <3>1. put'[q] = put[q] /\ Prepared(q) /\ put[q] \in Put
      BY <2>12 DEF Prepared, PolicyInv, PoliciesTyped
    <3>2. put[q].version \in Nat
      BY <3>1, PolicyAssumption DEF Put
    <3>3. put[q].version = 1 \/ put[q].version - 1 < k
      BY <2>3, <3>1 DEF PolicyInv, FollowsStored
    <3> QED
      BY <1>3, <3>1, <3>2, <3>3, VersionsAreNumbers
  <2> QED
    BY <2>6, <2>10, <2>11, <2>13, <2>14 DEF PolicyInv
<1> QED
  BY <1>4, <1>5

LEMMA StepKeepsPolicies == PolicyInv /\ [Next]_vars => PolicyInv'
<1> SUFFICES ASSUME PolicyInv, [Next]_vars PROVE PolicyInv'
  OBVIOUS
<1>1. ASSUME policies' = policies, put' = put PROVE PolicyInv'
  <2>1. put' = [p \in Puts |-> IF p \in {} THEN IdlePut ELSE put[p]]
    BY <1>1 DEF PolicyInv, PoliciesTyped
  <2>2. {} \in SUBSET Puts
    OBVIOUS
  <2> QED
    BY <1>1, <2>1, <2>2, EndedRequests
<1>2. CASE Restart
  <2>1. /\ policies' = policies
        /\ put' = [p \in Puts |-> IF p \in Puts THEN IdlePut ELSE put[p]]
    BY <1>2 DEF Restart
  <2> QED
    BY <2>1, EndedRequests
<1>3. ASSUME NEW p \in Puts, PolicyRequest(p) PROVE PolicyInv'
  <2>1. CASE PutStep(p)
    BY <2>1, FindPolicyKeeps, DeactivateKeeps, CreatePolicyKeeps DEF PutStep
  <2>2. CASE PutFails(p)
    <3>1. /\ policies' = policies
          /\ put' = [q \in Puts |-> IF q \in {p} THEN IdlePut ELSE put[q]]
      BY <2>2 DEF PutFails, PolicyInv, PoliciesTyped
    <3> QED
      BY <3>1, EndedRequests
  <2>3. CASE SavePolicy(p)
    BY <2>3, BeginPutKeeps DEF SavePolicy
  <2> QED
    BY <1>3, <2>1, <2>2, <2>3 DEF PolicyRequest
<1>4. CASE \/ CheckRun \/ CheckChange \/ CheckStrategies \/ ReadPolicy \/ DryRun \/ CreateAttempt
           \/ PrepareFails \/ ClickPrepare \/ PostRegister \/ GiveUp \/ Refetch
           \/ Drift \/ ProofMoves \/ ChangeDies \/ Reload \/ SessionEvent \/ UNCHANGED vars
  BY <1>1, <1>4 DEF CheckRun, CheckChange, CheckStrategies, Reads, ReadPolicy, DryRun,
     CreateAttempt, PrepareFails, ClickPrepare, PostRegister, GiveUp, Refetch, Drift,
     ProofMoves, ChangeDies, Reload, SessionEvent, vars
<1>5. ASSUME NEW h \in Hashes, RegisterStep(h) \/ RegisterFails(h) \/ Mine(h) PROVE PolicyInv'
  BY <1>1, <1>5 DEF RegisterStep, GetAttempt, GetReceipt, ReadRisk, WriteAttempt,
     RegisterFails, Mine
<1>6. ASSUME NEW c \in Calls, Sign(c) PROVE PolicyInv'
  BY <1>1, <1>6 DEF Sign
<1>7. ASSUME NEW id \in Ids, Expire(id) PROVE PolicyInv'
  BY <1>1, <1>7 DEF Expire
<1> QED
  BY <1>2, <1>3, <1>4, <1>5, <1>6, <1>7 DEF Next

(* What the requests rely on holds in every reachable state, whatever the  *)
(* order of finds, updates, creates, failures and restarts.                *)
THEOREM PoliciesInductive == Spec => []PolicyInv
<1> QED
  BY InitPolicies, StepKeepsPolicies, PTL DEF Spec

(* However PUT requests for a policy race, fail or die, at most one        *)
(* version is in force and it is the newest stored (policy.controller.ts). *)
THEOREM NewestVersionInForce == Spec => []NewestPolicyInForce
<1>1. PolicyInv => NewestPolicyInForce
  BY DEF PolicyInv
<1> QED
  BY <1>1, PoliciesInductive, PTL

-----------------------------------------------------------------------------
(***************************************************************************)
(* Sessions, attempts and the page.                                        *)
(***************************************************************************)
EarnedToken(token) ==
    token.wallet # Nobody => /\ earned[token.wallet] # Never
                             /\ token.exp <= earned[token.wallet] + SessionTtl

Earned == \A w \in Wallets : earned[w] <= clock

(* What was signed, or is to be, names a nonce.                            *)
ProofNamed ==
    /\ proving.pc # "idle" \/ proving.signature # NoSignature
         => proving.nonce \in NonceIds /\ proving.wallet \in Wallets
    /\ proving.pc = "verify" => proving.signature # NoSignature

RequestsNamed ==
    \A v \in Verifications :
        /\ verify[v].pc # "idle" => verify[v].nonce \in NonceIds /\ verify[v].wallet \in Wallets
        /\ verify[v].pc = "mark" => server.database

Claims(v, n) == verify[v].pc \in {"mark", "check"} /\ verify[v].nonce = n

OwnNonce == \A v \in Verifications, n \in NonceIds :
                Claims(v, n) => nonces[n].wallet = verify[v].wallet

OneClaim ==
    \A n \in NonceIds \ overlapped :
        /\ \A u, v \in Verifications : Claims(u, n) /\ Claims(v, n) => u = v
        /\ \A v \in Verifications : Claims(v, n) =>
             /\ nonces[n].sessions = 0
             /\ verify[v].pc = "check" => nonces[n].state # "open"
        /\ nonces[n].sessions <= 1
        /\ nonces[n].sessions # 0 => nonces[n].state # "open"

SessionInv ==
    /\ SessionsTypeOK /\ EarnedToken(cookie) /\ Earned
    /\ ProofNamed /\ RequestsNamed /\ OwnNonce /\ OneClaim

(* The steps towards a stored policy or plan that ask for no session had   *)
(* one before them.                                                        *)
Started ==
    \/ monitored
    \/ \E p \in Puts : put[p].pc # "idle"
    \/ \E v \in Versions : policies[v] # Missing
    \/ preparing.pc \notin {"idle", "run"}
    \/ \E id \in Ids : attempts[id] # NoAttempt

EarnedFirst ==
    /\ EarnedToken(preparing.cookie)
    /\ Started => earned[Owner] # Never
-----------------------------------------------------------------------------
Tx == [id : Ids, call : Calls, same : BOOLEAN, state : {"pending", "success", "reverted"}]

\* The transaction was sent for the call and mined, with this result.
ReceiptOf(tx, id, c, result) == tx.id = id /\ tx.call = c /\ tx.state = result

(* The first n calls of a document of attempt id are registered, each with *)
(* its receipt among the transactions t.                                   *)
Receipts(t, doc, id, n) ==
    \A c \in Calls :
        IF c > n THEN doc.hashes[c] = 0 /\ doc.results[c] = "none"
        ELSE /\ doc.hashes[c] \in DOMAIN t
             /\ ReceiptOf(t[doc.hashes[c]], id, c, doc.results[c])

Receipted(t, doc, id) ==
    \E n \in 0..NCalls : Receipts(t, doc, id, n) /\ (n = 0 <=> doc.status = "PREPARED")

AllConfirmed(doc) == \A c \in Calls : doc.results[c] = "success"

Judged(doc) ==
    /\ doc.status = "FAILED" <=> \E c \in Calls : doc.results[c] = "reverted"
    /\ doc.status \in {"VERIFIED", "MISMATCH"} <=> AllConfirmed(doc)
    /\ doc.status = "VERIFIED" => doc.after >= 0 /\ doc.after # doc.before

Sound(t, doc, id) == doc \in Attempt /\ Receipted(t, doc, id) /\ Judged(doc)

(* The document that a registration holds, before and after its receipt.   *)
Held(t, r) ==
    /\ r.pc = "receipt" => /\ Sound(t, r.doc, r.id)
                           /\ r.doc.status \notin Ended
                           /\ Receipts(t, r.doc, r.id, r.call - 1)
    /\ r.pc = "risk" => /\ r.doc \in Attempt /\ Receipted(t, r.doc, r.id)
                        /\ r.doc.status = "SUBMITTED" /\ AllConfirmed(r.doc)
    /\ r.pc = "write" => Sound(t, r.doc, r.id)

Register == [pc : RegisterPcs, id : {0} \cup Ids, call : {0} \cup Calls,
             doc : Attempt \cup {NoAttempt}, cookie : Cookie]

(* The request is about transaction h.                                     *)
Requests(t, h, r) ==
    /\ r \in Register
    /\ r.pc # "idle" => h \in DOMAIN t /\ r.id = t[h].id /\ r.call = t[h].call
    /\ Held(t, r)

Page == [pc : PagePcs, id : {0} \cup Ids, tx : {0} \cup Hashes, seen : Attempt \cup {NoAttempt}]

(* The page shows an attempt that exists, or none, and is about a          *)
(* transaction.                                                            *)
Shows(t, a, p) ==
    /\ p \in Page
    /\ p.id # 0 => p.id \in Ids /\ a[p.id] # NoAttempt /\ p.seen \in Attempt
    /\ p.pc \in {"signed", "registering"} => p.tx \in DOMAIN t

PlansTyped ==
    /\ proof \in [complete : BOOLEAN, verified : BOOLEAN]
    /\ risk \in Risks
    /\ preparing \in Preparing

TxsSound ==
    /\ txs \in Seq(Tx) /\ Len(txs) <= MaxTxs
    /\ \A h \in DOMAIN txs : attempts[txs[h].id] # NoAttempt

AttemptsSound ==
    /\ attempts \in [Ids -> Attempt \cup {NoAttempt}]
    /\ \A id \in Ids : attempts[id] # NoAttempt => Sound(txs, attempts[id], id)

RequestsSound ==
    /\ register \in [Hashes -> Register]
    /\ \A h \in Hashes : Requests(txs, h, register[h])

AttemptInv ==
    PlansTyped /\ TxsSound /\ AttemptsSound /\ RequestsSound /\ Shows(txs, attempts, page)
-----------------------------------------------------------------------------
(* What a registration holds and will write says no less than what is      *)
(* stored.                                                                 *)
Upheld(h) ==
    LET r == register[h]
        stored == attempts[r.id] IN
    r.pc \in {"receipt", "risk", "write"} =>
        /\ stored.status \notin Ended
        /\ \A c \in Calls : stored.hashes[c] # 0 => r.doc.hashes[c] = stored.hashes[c]

PageInv ==
    ~gaveUp =>
        /\ \A h \in Hashes : register[h].pc # "idle" => page.pc = "registering" /\ page.tx = h
        /\ \A h \in Hashes : Upheld(h)
-----------------------------------------------------------------------------
(* The sessions.                                                           *)

LEMMA SessionNumbers ==
    /\ NonceTtl \in Nat /\ SessionTtl \in Nat /\ MaxNonces \in Nat /\ MaxTime \in Nat
    /\ Times \subseteq Nat /\ Never \notin Nat /\ Owner \in Wallets /\ Nobody \notin Wallets
  BY SessionAssumption DEF Times, Never

LEMMA TypedSessions ==
    ASSUME SessionsTypeOK
    PROVE  /\ clock \in Nat /\ clock <= MaxTime
           /\ \A n \in NonceIds : nonces[n] \in Nonce
           /\ \A v \in Verifications : verify[v] \in Verify
           /\ \A w \in Wallets : earned[w] \in Int
  BY SessionNumbers DEF SessionsTypeOK, Times, Never

LEMMA InitSessions ==
    ASSUME NEW s \in Scenarios, SessionsInit(s.database, s.configured, s.signedIn)
    PROVE  SessionInv
<1>1. s.database \in BOOLEAN /\ s.configured \in BOOLEAN /\ s.signedIn \in BOOLEAN
  BY AttemptAssumption DEF Scenario
<1>2. /\ clock = 0
      /\ server = [database |-> s.database, configured |-> s.configured, secret |-> 0]
      /\ nonces = [n \in NonceIds |-> Unissued]
      /\ verify = [v \in Verifications |-> NoVerify]
      /\ account = Owner
      /\ cookie = IF s.signedIn THEN [wallet |-> Owner, exp |-> SessionTtl, secret |-> 0]
                  ELSE NoCookie
      /\ shown = IF s.signedIn THEN Owner ELSE Nobody
      /\ proving = NotProving
      /\ monitored = FALSE
      /\ earned = [w \in Wallets |-> IF s.signedIn /\ w = Owner THEN 0 ELSE Never]
      /\ overlapped = {}
  BY SessionNumbers DEF SessionsInit, SessionUntil
<1>3. /\ NoCookie \in Cookie /\ Unissued \in Nonce /\ NotProving \in Proving
      /\ NoVerify \in Verify
  BY SessionNumbers DEF NoCookie, Cookie, Unissued, Nonce, NotProving, Proving, NoVerify,
     Verify
<1>4. cookie \in Cookie
  BY <1>2, <1>3, SessionNumbers DEF Cookie
<1>5. SessionsTypeOK
  <2>1. clock \in Times /\ account \in Wallets /\ shown \in Wallets \cup {Nobody}
    BY <1>2, SessionNumbers DEF Times
  <2>2. server \in Server
    BY <1>1, <1>2 DEF Server
  <2>3. nonces \in [NonceIds -> Nonce] /\ verify \in [Verifications -> Verify]
    BY <1>2, <1>3
  <2>4. earned \in [Wallets -> Times \cup {Never}]
    BY <1>2, SessionNumbers DEF Times
  <2>5. proving \in Proving /\ monitored \in BOOLEAN /\ overlapped \subseteq NonceIds
    BY <1>2, <1>3
  <2> QED
    BY <1>4, <2>1, <2>2, <2>3, <2>4, <2>5 DEF SessionsTypeOK
<1>6. EarnedToken(cookie) /\ Earned
  BY <1>2, SessionNumbers DEF EarnedToken, Earned, NoCookie, Never
<1>7. ProofNamed /\ RequestsNamed /\ OwnNonce /\ OneClaim
  BY <1>2 DEF ProofNamed, RequestsNamed, OwnNonce, OneClaim, Claims, NotProving, NoVerify, Unissued
<1> QED
  BY <1>5, <1>6, <1>7 DEF SessionInv

(* Whoever earns a session earns it now, and keeps what was earned before. *)
LEMMA TokenKept ==
    ASSUME SessionInv, NEW token \in Cookie, EarnedToken(token),
           \A w \in Wallets : earned'[w] = earned[w] \/ earned'[w] = clock
    PROVE  EarnedToken(token)'
<1> SUFFICES ASSUME token.wallet # Nobody
             PROVE  earned'[token.wallet] # Never /\ token.exp <= earned'[token.wallet] + SessionTtl
  BY DEF EarnedToken
<1>1. token.wallet \in Wallets /\ token.exp \in Nat
  BY SessionNumbers DEF Cookie
<1>2. /\ earned[token.wallet] \in Int /\ earned[token.wallet] <= clock
      /\ clock \in Nat /\ SessionTtl \in Nat /\ Never \notin Nat
  BY <1>1, TypedSessions, SessionNumbers DEF SessionInv, Earned
<1>3. earned[token.wallet] # Never /\ token.exp <= earned[token.wallet] + SessionTtl
  BY DEF EarnedToken
<1> QED
  BY <1>1, <1>2, <1>3

(* The proof of ownership ends, or waits on.                               *)
LEMMA ProvingGoesOn ==
    ASSUME SessionInv, proving' \in {proving, [proving EXCEPT !.pc = "idle"], NotProving}
    PROVE  proving' \in Proving /\ ProofNamed'
<1>1. NotProving \in Proving /\ NotProving.pc = "idle" /\ NotProving.signature = NoSignature
  BY DEF NotProving, Proving
<1>2. proving \in Proving
  BY DEF SessionInv, SessionsTypeOK
<1>3. /\ proving' \in Proving
      /\ proving' = NotProving
         \/ /\ proving'.pc \in {proving.pc, "idle"}
            /\ proving'.nonce = proving.nonce /\ proving'.wallet = proving.wallet
            /\ proving'.signature = proving.signature
  BY <1>1, <1>2 DEF Proving
<1> QED
  BY <1>1, <1>3 DEF SessionInv, ProofNamed

(* Steps that leave nonces and requests alone.                             *)
LEMMA QuietSessions ==
    ASSUME SessionInv, UNCHANGED <<server, nonces, verify, earned, overlapped>>,
           clock' \in Times, clock <= clock', account' \in Wallets,
           cookie' \in {cookie, NoCookie}, shown' \in Wallets \cup {Nobody},
           monitored' \in BOOLEAN,
           proving' \in {proving, [proving EXCEPT !.pc = "idle"], NotProving}
    PROVE  SessionInv'
<1>1. NoCookie \in Cookie /\ NoCookie.wallet = Nobody
  BY SessionNumbers DEF NoCookie, Cookie
<1>2. proving' \in Proving /\ ProofNamed'
  BY ProvingGoesOn
<1>3. SessionsTypeOK'
  BY <1>1, <1>2 DEF SessionInv, SessionsTypeOK
<1>4. EarnedToken(cookie)'
  BY <1>1 DEF SessionInv, EarnedToken
<1>5. Earned'
  <2> SUFFICES ASSUME NEW w \in Wallets PROVE earned[w] <= clock'
    BY DEF Earned
  <2>1. earned[w] \in Int /\ clock \in Nat /\ clock' \in Nat /\ earned[w] <= clock
    BY TypedSessions, SessionNumbers DEF SessionInv, Earned
  <2> QED
    BY <2>1
<1>6. RequestsNamed' /\ OwnNonce' /\ OneClaim'
  BY DEF SessionInv, RequestsNamed, OwnNonce, OneClaim, Claims
<1> QED
  BY <1>2, <1>3, <1>4, <1>5, <1>6 DEF SessionInv

LEMMA IssueNonceKeeps ==
    ASSUME SessionInv, IssueNonce
    PROVE  SessionInv'
<1>1. PICK n \in NonceIds :
        /\ nonces[n] = Unissued
        /\ nonces' = [nonces EXCEPT ![n] = [state |-> "open", wallet |-> account,
                                            expires |-> clock + NonceTtl, sessions |-> 0]]
        /\ proving' = [pc |-> "sign", wallet |-> account, nonce |-> n,
                       signature |-> NoSignature]
  BY DEF IssueNonce
<1>2. UNCHANGED <<clock, server, verify, account, cookie, shown, monitored, earned, overlapped>>
  BY DEF IssueNonce
<1> DEFINE issued == [state |-> "open", wallet |-> account, expires |-> clock + NonceTtl,
                      sessions |-> 0]
<1>3. issued \in Nonce
  <2>1. clock + NonceTtl \in 0..(MaxTime + NonceTtl)
    BY SessionNumbers, TypedSessions DEF SessionInv
  <2> QED
    BY <2>1 DEF SessionInv, SessionsTypeOK, Nonce
<1>4. /\ nonces' \in [NonceIds -> Nonce]
      /\ nonces'[n] = issued
      /\ \A m \in NonceIds : m # n => nonces'[m] = nonces[m]
  BY <1>1, <1>3 DEF SessionInv, SessionsTypeOK
<1>5. proving' \in Proving
  BY <1>1 DEF SessionInv, SessionsTypeOK, Proving
<1>6. SessionsTypeOK'
  BY <1>2, <1>4, <1>5 DEF SessionInv, SessionsTypeOK
<1>7. EarnedToken(cookie)' /\ Earned'
  BY <1>2 DEF SessionInv, EarnedToken, Earned
<1>8. ProofNamed' /\ RequestsNamed'
  BY <1>1, <1>2 DEF SessionInv, SessionsTypeOK, ProofNamed, RequestsNamed
<1>9. \A v \in Verifications : ~Claims(v, n)
  BY <1>1, SessionNumbers DEF SessionInv, OwnNonce, Claims, RequestsNamed, Unissued
<1>10. \A v \in Verifications, m \in NonceIds : Claims(v, m)' <=> Claims(v, m)
  BY <1>2 DEF Claims
<1>11. OwnNonce'
  BY <1>2, <1>4, <1>9, <1>10 DEF SessionInv, OwnNonce
<1>12. OneClaim'
  BY <1>2, <1>4, <1>9, <1>10 DEF SessionInv, OneClaim
<1> QED
  BY <1>6, <1>7, <1>8, <1>11, <1>12 DEF SessionInv

(* A request that arrives claims no nonce yet.                             *)
LEMMA PostKeeps ==
    ASSUME SessionInv, NEW v \in Verifications, Post(v, proving'), proving' \in Proving,
           proving'.signature # NoSignature, proving'.nonce \in NonceIds,
           proving'.wallet \in Wallets,
           UNCHANGED <<clock, server, nonces, account, cookie, shown, monitored, earned,
                       overlapped>>
    PROVE  SessionInv'
<1> DEFINE posted == [proving' EXCEPT !.pc = "find"]
<1>1. verify[v].pc = "idle" /\ verify' = [verify EXCEPT ![v] = posted]
  BY DEF Post
<1>2. /\ posted \in Verify /\ posted.pc = "find"
      /\ posted.nonce \in NonceIds /\ posted.wallet \in Wallets
  BY DEF Proving, Verify
<1>3. /\ verify' \in [Verifications -> Verify]
      /\ verify'[v] = posted
      /\ \A u \in Verifications : u # v => verify'[u] = verify[u]
  BY <1>1, <1>2 DEF SessionInv, SessionsTypeOK
<1> HIDE DEF posted
<1>4. SessionsTypeOK'
  BY <1>3 DEF SessionInv, SessionsTypeOK
<1>5. EarnedToken(cookie)' /\ Earned'
  BY DEF SessionInv, EarnedToken, Earned
<1>6. ProofNamed' /\ RequestsNamed'
  BY <1>2, <1>3 DEF SessionInv, ProofNamed, RequestsNamed
<1>7. \A u \in Verifications, n \in NonceIds :
        /\ Claims(u, n)' <=> Claims(u, n)
        /\ Claims(u, n) => verify'[u] = verify[u]
  BY <1>1, <1>2, <1>3 DEF Claims
<1>8. OwnNonce' /\ OneClaim'
  BY <1>7 DEF SessionInv, OwnNonce, OneClaim
<1> QED
  BY <1>4, <1>5, <1>6, <1>8 DEF SessionInv

LEMMA SignMessageKeeps ==
    ASSUME SessionInv, NEW v \in Verifications, SignMessage(v)
    PROVE  SessionInv'
<1> DEFINE signature == [signer |-> account, message |-> AuthMessage(proving.wallet, proving.nonce)]
<1>1. proving.nonce \in NonceIds /\ proving.wallet \in Wallets /\ account \in Wallets
  BY DEF SignMessage, SessionInv, SessionsTypeOK, ProofNamed
<1>2. signature \in Signatures
  BY <1>1 DEF Signatures, Messages, AuthMessage
<1>3. signature # NoSignature
  BY <1>1, SessionNumbers DEF NoSignature
<1>4. proving' = [proving EXCEPT !.pc = "verify", !.signature = signature]
  BY DEF SignMessage
<1> HIDE DEF signature
<1>5. /\ proving' \in Proving /\ proving'.signature = signature
      /\ proving'.nonce = proving.nonce /\ proving'.wallet = proving.wallet
  BY <1>2, <1>4 DEF SessionInv, SessionsTypeOK, Proving
<1> QED
  BY <1>1, <1>3, <1>5, PostKeeps DEF SignMessage

LEMMA ResendKeeps ==
    ASSUME SessionInv, NEW v \in Verifications, Resend(v)
    PROVE  SessionInv'
<1>1. /\ proving' = proving /\ proving.signature # NoSignature /\ proving \in Proving
      /\ proving.nonce \in NonceIds /\ proving.wallet \in Wallets
  BY DEF Resend, SessionInv, SessionsTypeOK, ProofNamed
<1>2. Post(v, proving')
  BY <1>1 DEF Resend, Post
<1> QED
  BY <1>1, <1>2, PostKeeps DEF Resend

(* What becomes of a request, and what of the nonces and of the proof.     *)
LEMMA RequestMoves ==
    ASSUME SessionInv, NEW v \in Verifications, NEW next \in Verify,
           verify' = [verify EXCEPT ![v] = next],
           next.pc # "idle" => next.nonce = verify[v].nonce /\ next.wallet = verify[v].wallet,
           next.pc = "mark" => server.database,
           verify[v].pc # "idle",
           proving' \in {proving, [proving EXCEPT !.pc = "idle"]},
           nonces' \in [NonceIds -> Nonce],
           UNCHANGED <<clock, server, account, shown, monitored>>,
           cookie' \in Cookie, earned' \in [Wallets -> Times \cup {Never}],
           overlapped' \subseteq NonceIds
    PROVE  /\ SessionsTypeOK' /\ ProofNamed' /\ RequestsNamed'
           /\ verify'[v] = next
           /\ \A u \in Verifications : u # v => verify'[u] = verify[u]
<1>1. /\ verify' \in [Verifications -> Verify]
      /\ verify'[v] = next
      /\ \A u \in Verifications : u # v => verify'[u] = verify[u]
  BY DEF SessionInv, SessionsTypeOK
<1>2. proving' \in Proving /\ ProofNamed'
  BY ProvingGoesOn
<1>3. SessionsTypeOK'
  BY <1>1, <1>2 DEF SessionInv, SessionsTypeOK
<1>4. RequestsNamed'
  BY <1>1 DEF SessionInv, RequestsNamed
<1> QED
  BY <1>1, <1>2, <1>3, <1>4

LEMMA MarkedNonce ==
    ASSUME SessionInv, NEW n \in NonceIds, MarkUsed(n)
    PROVE  /\ nonces' \in [NonceIds -> Nonce]
           /\ nonces'[n].state # "open"
           /\ nonces'[n].wallet = nonces[n].wallet /\ nonces'[n].sessions = nonces[n].sessions
           /\ \A m \in NonceIds : m # n => nonces'[m] = nonces[m]
<1>1. nonces \in [NonceIds -> Nonce] /\ nonces[n] \in Nonce
  BY DEF SessionInv, SessionsTypeOK
<1> DEFINE used == [nonces[n] EXCEPT !.state = "used"]
<1>2. /\ used \in Nonce /\ used.state = "used"
      /\ used.wallet = nonces[n].wallet /\ used.sessions = nonces[n].sessions
  BY <1>1 DEF Nonce
<1>3. nonces' = IF nonces[n].state = "open" THEN [nonces EXCEPT ![n] = used] ELSE nonces
  BY DEF MarkUsed
<1> HIDE DEF used
<1> QED
  BY <1>1, <1>2, <1>3

(* A refused request claims nothing any more.                              *)
LEMMA RefusedKeeps ==
    ASSUME SessionInv, NEW v \in Verifications, verify[v].pc # "idle", Refused(v),
           UNCHANGED <<clock, server, nonces, account, cookie, shown, monitored, earned,
                       overlapped>>
    PROVE  SessionInv'
<1>1. verify' = [verify EXCEPT ![v] = NoVerify]
      /\ proving' \in {proving, [proving EXCEPT !.pc = "idle"]}
  BY DEF Refused
<1>2. NoVerify \in Verify /\ NoVerify.pc = "idle"
  BY DEF NoVerify, Verify
<1>3. /\ SessionsTypeOK' /\ ProofNamed' /\ RequestsNamed'
      /\ verify'[v] = NoVerify
      /\ \A u \in Verifications : u # v => verify'[u] = verify[u]
  BY <1>1, <1>2, RequestMoves DEF SessionInv, SessionsTypeOK
<1>4. EarnedToken(cookie)' /\ Earned'
  BY DEF SessionInv, EarnedToken, Earned
<1>5. \A u \in Verifications, n \in NonceIds : Claims(u, n)' => Claims(u, n) /\ verify'[u] = verify[u]
  BY <1>2, <1>3 DEF Claims
<1>6. OwnNonce' /\ OneClaim'
  BY <1>5 DEF SessionInv, OwnNonce, OneClaim
<1> QED
  BY <1>3, <1>4, <1>6 DEF SessionInv

(* The look at a nonce that is open: nobody has passed it before, but a    *)
(* request that is about to mark it, and then both overlap.                *)
LEMMA FindNonceKeeps ==
    ASSUME SessionInv, NEW v \in Verifications, FindNonce(v)
    PROVE  SessionInv'
<1> DEFINE n == verify[v].nonce
           next(pc) == [verify[v] EXCEPT !.pc = pc]
<1>1. /\ verify[v].pc = "find" /\ verify[v] \in Verify
      /\ n \in NonceIds /\ verify[v].wallet \in Wallets
      /\ UNCHANGED <<clock, server, account, cookie, shown, monitored, earned>>
  BY DEF FindNonce, SessionInv, SessionsTypeOK, RequestsNamed
<1>2. EarnedToken(cookie)' /\ Earned'
  BY <1>1 DEF SessionInv, EarnedToken, Earned
<1>3. \A pc \in {"mark", "check"} :
        /\ next(pc) \in Verify /\ next(pc).pc = pc
        /\ next(pc).nonce = n /\ next(pc).wallet = verify[v].wallet
  BY <1>1 DEF Verify
<1>4. CASE Refused(v) /\ UNCHANGED <<nonces, overlapped>>
  BY <1>1, <1>4, RefusedKeeps
<1>5. CASE /\ Usable(nonces[n], verify[v].wallet) /\ ~server.database
           /\ verify' = [verify EXCEPT ![v].pc = "check"]
           /\ MarkUsed(n) /\ UNCHANGED <<proving, overlapped>>
  <2>1. verify' = [verify EXCEPT ![v] = next("check")]
    BY <1>5
  <2> HIDE DEF next
  <2>2. /\ nonces' \in [NonceIds -> Nonce]
        /\ nonces'[n].state # "open"
        /\ nonces'[n].wallet = nonces[n].wallet /\ nonces'[n].sessions = nonces[n].sessions
        /\ \A m \in NonceIds : m # n => nonces'[m] = nonces[m]
    BY <1>1, <1>5, MarkedNonce
  <2>3. /\ SessionsTypeOK' /\ ProofNamed' /\ RequestsNamed'
        /\ verify'[v] = next("check")
        /\ \A u \in Verifications : u # v => verify'[u] = verify[u]
    BY <1>1, <1>3, <1>5, <2>1, <2>2, RequestMoves DEF SessionInv, SessionsTypeOK
  <2>4. \A u \in Verifications, m \in NonceIds :
          Claims(u, m)' => \/ u = v /\ m = n
                           \/ u # v /\ Claims(u, m) /\ verify'[u] = verify[u]
    BY <1>3, <2>3 DEF Claims
  <2>5. nonces[n].state = "open" /\ nonces[n].wallet = verify[v].wallet
    BY <1>5 DEF Usable
  <2>6. OwnNonce'
    BY <1>3, <2>2, <2>3, <2>4, <2>5 DEF SessionInv, OwnNonce
  <2>7. n \notin overlapped => nonces[n].sessions = 0 /\ \A u \in Verifications : ~Claims(u, n)
    BY <1>1, <1>5, <2>5 DEF SessionInv, OneClaim, Claims, RequestsNamed
  <2>8. OneClaim'
    <3> SUFFICES ASSUME NEW m \in NonceIds \ overlapped
                 PROVE  /\ \A u, w \in Verifications : Claims(u, m)' /\ Claims(w, m)' => u = w
                        /\ \A u \in Verifications : Claims(u, m)' =>
                             /\ nonces'[m].sessions = 0
                             /\ verify'[u].pc = "check" => nonces'[m].state # "open"
                        /\ nonces'[m].sessions <= 1
                        /\ nonces'[m].sessions # 0 => nonces'[m].state # "open"
      BY <1>5 DEF OneClaim
    <3>1. CASE m = n
      BY <2>2, <2>4, <2>7, <3>1
    <3>2. CASE m # n
      BY <2>2, <2>4, <3>2 DEF SessionInv, OneClaim
    <3> QED
      BY <3>1, <3>2
  <2> QED
    BY <1>2, <2>3, <2>6, <2>8 DEF SessionInv
<1>6. CASE /\ Usable(nonces[n], verify[v].wallet) /\ server.database
           /\ verify' = [verify EXCEPT ![v].pc = "mark"]
           /\ overlapped' = overlapped \cup
                {m \in {n} : \E u \in Verifications : verify[u].pc = "mark" /\ verify[u].nonce = m}
           /\ UNCHANGED <<nonces, proving>>
  <2>1. verify' = [verify EXCEPT ![v] = next("mark")]
    BY <1>6
  <2> HIDE DEF next
  <2>2. overlapped' \subseteq NonceIds
    BY <1>1, <1>6 DEF SessionInv, SessionsTypeOK
  <2>3. /\ SessionsTypeOK' /\ ProofNamed' /\ RequestsNamed'
        /\ verify'[v] = next("mark")
        /\ \A u \in Verifications : u # v => verify'[u] = verify[u]
    BY <1>1, <1>3, <1>6, <2>1, <2>2, RequestMoves DEF SessionInv, SessionsTypeOK
  <2>4. \A u \in Verifications, m \in NonceIds :
          Claims(u, m)' => \/ u = v /\ m = n
                           \/ u # v /\ Claims(u, m) /\ verify'[u] = verify[u]
    BY <1>3, <2>3 DEF Claims
  <2>5. nonces[n].state = "open" /\ nonces[n].wallet = verify[v].wallet
    BY <1>6 DEF Usable
  <2>6. OwnNonce'
    BY <1>3, <1>6, <2>3, <2>4, <2>5 DEF SessionInv, OwnNonce
  <2>7. n \notin overlapped' => nonces[n].sessions = 0 /\ \A u \in Verifications : ~Claims(u, n)
    BY <1>1, <1>6, <2>5 DEF SessionInv, OneClaim, Claims
  <2>8. OneClaim'
    <3> SUFFICES ASSUME NEW m \in NonceIds \ overlapped'
                 PROVE  /\ \A u, w \in Verifications : Claims(u, m)' /\ Claims(w, m)' => u = w
                        /\ \A u \in Verifications : Claims(u, m)' =>
                             /\ nonces'[m].sessions = 0
                             /\ verify'[u].pc = "check" => nonces'[m].state # "open"
                        /\ nonces'[m].sessions <= 1
                        /\ nonces'[m].sessions # 0 => nonces'[m].state # "open"
      BY DEF OneClaim
    <3>1. CASE m = n
      <4>1. \A u \in Verifications : Claims(u, m)' => u = v
        BY <2>4, <2>7, <3>1
      <4>2. verify'[v].pc = "mark"
        BY <1>3, <2>3
      <4> QED
        BY <1>6, <2>5, <2>7, <3>1, <4>1, <4>2
    <3>2. CASE m # n
      BY <1>6, <2>4, <3>2 DEF SessionInv, OneClaim
    <3> QED
      BY <3>1, <3>2
  <2> QED
    BY <1>2, <2>3, <2>6, <2>8 DEF SessionInv
<1> QED
  BY <1>4, <1>5, <1>6 DEF FindNonce

LEMMA MarkNonceKeeps ==
    ASSUME SessionInv, NEW v \in Verifications, MarkNonce(v)
    PROVE  SessionInv'
<1> DEFINE n == verify[v].nonce
           next == [verify[v] EXCEPT !.pc = "check"]
<1>1. /\ verify[v].pc = "mark" /\ verify[v] \in Verify
      /\ n \in NonceIds /\ verify[v].wallet \in Wallets
      /\ verify' = [verify EXCEPT ![v] = next]
      /\ MarkUsed(n)
      /\ UNCHANGED <<clock, server, account, cookie, shown, proving, monitored, earned, overlapped>>
  BY DEF MarkNonce, SessionInv, SessionsTypeOK, RequestsNamed
<1>2. /\ next \in Verify /\ next.pc = "check"
      /\ next.nonce = n /\ next.wallet = verify[v].wallet
  BY <1>1 DEF Verify
<1> HIDE DEF next
<1>3. /\ nonces' \in [NonceIds -> Nonce]
      /\ nonces'[n].state # "open"
      /\ nonces'[n].wallet = nonces[n].wallet /\ nonces'[n].sessions = nonces[n].sessions
      /\ \A m \in NonceIds : m # n => nonces'[m] = nonces[m]
  BY <1>1, MarkedNonce
<1>4. /\ SessionsTypeOK' /\ ProofNamed' /\ RequestsNamed'
      /\ verify'[v] = next
      /\ \A u \in Verifications : u # v => verify'[u] = verify[u]
  BY <1>1, <1>2, <1>3, RequestMoves DEF SessionInv, SessionsTypeOK
<1>5. EarnedToken(cookie)' /\ Earned'
  BY <1>1 DEF SessionInv, EarnedToken, Earned
<1>6. \A u \in Verifications, m \in NonceIds :
        /\ Claims(u, m)' <=> Claims(u, m)
        /\ Claims(u, m) => verify'[u].wallet = verify[u].wallet
        /\ m # n /\ Claims(u, m) => verify'[u] = verify[u]
  BY <1>1, <1>2, <1>4 DEF Claims
<1>7. OwnNonce'
  BY <1>3, <1>6 DEF SessionInv, OwnNonce
<1>8. OneClaim'
  <2> SUFFICES ASSUME NEW m \in NonceIds \ overlapped
               PROVE  /\ \A u, w \in Verifications : Claims(u, m)' /\ Claims(w, m)' => u = w
                      /\ \A u \in Verifications : Claims(u, m)' =>
                           /\ nonces'[m].sessions = 0
                           /\ verify'[u].pc = "check" => nonces'[m].state # "open"
                      /\ nonces'[m].sessions <= 1
                      /\ nonces'[m].sessions # 0 => nonces'[m].state # "open"
    BY <1>1 DEF OneClaim
  <2>1. CASE m = n
    BY <1>3, <1>6, <2>1 DEF SessionInv, OneClaim
  <2>2. CASE m # n
    BY <1>3, <1>6, <2>2 DEF SessionInv, OneClaim
  <2> QED
    BY <2>1, <2>2
<1> QED
  BY <1>4, <1>5, <1>7, <1>8 DEF SessionInv

(* The wallet that gets a session signed for its own nonce, which was used *)
(* up before; the next session, if any, is from a request that overlapped. *)
LEMMA CheckSignatureKeeps ==
    ASSUME SessionInv, NEW v \in Verifications, CheckSignature(v)
    PROVE  /\ SessionInv'
           /\ \A w \in Wallets : earned'[w] = earned[w] \/ earned'[w] = clock
<1> DEFINE r == verify[v]
           by == r.signature.signer
           owned == r.signature = [signer |-> r.wallet, message |-> AuthMessage(r.wallet, r.nonce)]
<1>1. /\ r.pc = "check" /\ Refused(v) /\ r \in Verify
      /\ r.nonce \in NonceIds /\ r.wallet \in Wallets
      /\ UNCHANGED <<clock, server, account, shown, monitored, overlapped>>
  BY DEF CheckSignature, SessionInv, SessionsTypeOK, RequestsNamed
<1>2. CASE ~owned
  <2>1. UNCHANGED <<nonces, cookie, earned>>
    BY <1>2 DEF CheckSignature
  <2> QED
    BY <1>1, <2>1, RefusedKeeps
<1>3. CASE owned
  <2>1. by = r.wallet
    BY <1>3
  <2>2. Claims(v, r.nonce) /\ nonces[r.nonce].wallet = r.wallet
    BY <1>1 DEF SessionInv, OwnNonce, Claims
  <2>3. /\ nonces' = [nonces EXCEPT ![r.nonce].sessions = @ + 1]
        /\ cookie' = IF Awaited(v) THEN SessionUntil(r.wallet) ELSE cookie
        /\ earned' = [earned EXCEPT ![r.wallet] = clock]
    BY <1>3, <2>1, <2>2 DEF CheckSignature
  <2> DEFINE given == [nonces[r.nonce] EXCEPT !.sessions = @ + 1]
  <2>4. /\ given \in Nonce /\ given.sessions = nonces[r.nonce].sessions + 1
        /\ given.state = nonces[r.nonce].state /\ given.wallet = nonces[r.nonce].wallet
    BY <1>1, TypedSessions DEF SessionInv, Nonce
  <2>5. nonces' = [nonces EXCEPT ![r.nonce] = given]
    BY <2>3
  <2> HIDE DEF given
  <2>6. /\ nonces' \in [NonceIds -> Nonce] /\ nonces'[r.nonce] = given
        /\ \A m \in NonceIds : m # r.nonce => nonces'[m] = nonces[m]
    BY <1>1, <2>4, <2>5 DEF SessionInv, SessionsTypeOK
  <2>7. /\ earned' \in [Wallets -> Times \cup {Never}] /\ earned'[r.wallet] = clock
        /\ \A w \in Wallets : w # r.wallet => earned'[w] = earned[w]
    BY <1>1, <2>3 DEF SessionInv, SessionsTypeOK
  <2>8. SessionUntil(r.wallet) \in Cookie
    <3>1. clock + SessionTtl \in 0..(MaxTime + SessionTtl)
      BY SessionNumbers, TypedSessions DEF SessionInv
    <3> QED
      BY <1>1, <3>1 DEF SessionUntil, Cookie, SessionInv, SessionsTypeOK, Server
  <2>9. verify' = [verify EXCEPT ![v] = NoVerify]
        /\ proving' \in {proving, [proving EXCEPT !.pc = "idle"]}
    BY <1>1 DEF Refused
  <2>10. NoVerify \in Verify /\ NoVerify.pc = "idle"
    BY DEF NoVerify, Verify
  <2>11. /\ SessionsTypeOK' /\ ProofNamed' /\ RequestsNamed'
         /\ verify'[v] = NoVerify
         /\ \A u \in Verifications : u # v => verify'[u] = verify[u]
    <3>1. cookie' \in Cookie /\ overlapped' \subseteq NonceIds
      BY <1>1, <2>3, <2>8 DEF SessionInv, SessionsTypeOK
    <3> QED
      BY <1>1, <2>6, <2>7, <2>9, <2>10, <3>1, RequestMoves
  <2>12. EarnedToken(cookie)'
    <3>1. CASE cookie' = SessionUntil(r.wallet)
      <4>1. cookie'.wallet = r.wallet /\ cookie'.exp = clock + SessionTtl
        BY <3>1 DEF SessionUntil
      <4>2. clock # Never /\ clock \in Nat /\ SessionTtl \in Nat
        BY SessionNumbers, TypedSessions DEF SessionInv
      <4> QED
        BY <2>7, <4>1, <4>2 DEF EarnedToken
    <3>2. CASE cookie' = cookie
      <4>1. EarnedToken(cookie) /\ cookie \in Cookie
        BY DEF SessionInv, SessionsTypeOK
      <4>2. cookie.wallet # Nobody => earned'[cookie.wallet] # Never
                                      /\ cookie.exp <= earned'[cookie.wallet] + SessionTtl
        BY <2>7, <4>1, TokenKept DEF EarnedToken
      <4> QED
        BY <3>2, <4>2 DEF EarnedToken
    <3> QED
      BY <2>3, <3>1, <3>2
  <2>13. Earned'
    BY <1>1, <2>7, TypedSessions DEF SessionInv, Earned
  <2>14. \A u \in Verifications, m \in NonceIds :
           Claims(u, m)' => u # v /\ Claims(u, m) /\ verify'[u] = verify[u]
    BY <2>10, <2>11 DEF Claims
  <2>15. OwnNonce'
    BY <2>4, <2>6, <2>14 DEF SessionInv, OwnNonce
  <2>16. OneClaim'
    <3> SUFFICES ASSUME NEW m \in NonceIds \ overlapped
                 PROVE  /\ \A u, w \in Verifications : Claims(u, m)' /\ Claims(w, m)' => u = w
                        /\ \A u \in Verifications : Claims(u, m)' =>
                             /\ nonces'[m].sessions = 0
                             /\ verify'[u].pc = "check" => nonces'[m].state # "open"
                        /\ nonces'[m].sessions <= 1
                        /\ nonces'[m].sessions # 0 => nonces'[m].state # "open"
      BY <1>1 DEF OneClaim
    <3>1. CASE m = r.nonce
      <4>1. nonces[m].sessions = 0 /\ nonces[m].state # "open"
        BY <1>1, <2>2, <3>1 DEF SessionInv, OneClaim
      <4>2. \A u \in Verifications : ~Claims(u, m)'
        BY <2>2, <2>14, <3>1 DEF SessionInv, OneClaim
      <4> QED
        BY <2>4, <2>6, <3>1, <4>1, <4>2
    <3>2. CASE m # r.nonce
      BY <2>6, <2>14, <3>2 DEF SessionInv, OneClaim
    <3> QED
      BY <3>1, <3>2
  <2> QED
    BY <2>7, <2>11, <2>12, <2>13, <2>15, <2>16 DEF SessionInv
<1> QED
  BY <1>2, <1>3

LEMMA RemoveNonceKeeps ==
    ASSUME SessionInv, NEW n \in NonceIds, RemoveNonce(n)
    PROVE  SessionInv'
<1> DEFINE gone == [nonces[n] EXCEPT !.state = "gone"]
<1>1. nonces' = [nonces EXCEPT ![n] = gone]
      /\ UNCHANGED <<clock, server, verify, account, cookie, shown, proving, monitored, earned,
                     overlapped>>
  BY DEF RemoveNonce
<1>2. /\ gone \in Nonce /\ gone.state = "gone"
      /\ gone.wallet = nonces[n].wallet /\ gone.sessions = nonces[n].sessions
  BY TypedSessions DEF SessionInv, Nonce
<1> HIDE DEF gone
<1>3. /\ nonces' \in [NonceIds -> Nonce] /\ nonces'[n] = gone
      /\ \A m \in NonceIds : m # n => nonces'[m] = nonces[m]
  BY <1>1, <1>2 DEF SessionInv, SessionsTypeOK
<1>4. SessionsTypeOK' /\ EarnedToken(cookie)' /\ Earned' /\ ProofNamed' /\ RequestsNamed'
  BY <1>1, <1>3 DEF SessionInv, SessionsTypeOK, EarnedToken, Earned, ProofNamed, RequestsNamed
<1>5. \A u \in Verifications, m \in NonceIds : Claims(u, m)' <=> Claims(u, m)
  BY <1>1 DEF Claims
<1>6. OwnNonce' /\ OneClaim'
  BY <1>1, <1>2, <1>3, <1>5 DEF SessionInv, OwnNonce, OneClaim
<1> QED
  BY <1>4, <1>6 DEF SessionInv

LEMMA SessionsRestartKeeps ==
    ASSUME SessionInv, SessionsRestart
    PROVE  SessionInv'
<1>1. /\ verify' = [v \in Verifications |-> NoVerify]
      /\ NoVerify \in Verify /\ NoVerify.pc = "idle"
      /\ UNCHANGED <<clock, account, cookie, shown, monitored, earned, overlapped>>
  BY DEF SessionsRestart, NoVerify, Verify
<1>2. server' \in Server
  BY DEF SessionsRestart, SessionInv, SessionsTypeOK, Server
<1>3. \A n \in NonceIds :
        /\ nonces[n] \in Nonce
        /\ [nonces[n] EXCEPT !.state = "gone"] \in Nonce
        /\ [nonces[n] EXCEPT !.state = "gone"].sessions = nonces[n].sessions
        /\ [nonces[n] EXCEPT !.state = "gone"].state = "gone"
  BY TypedSessions DEF SessionInv, Nonce
<1>4. \A n \in NonceIds :
        /\ nonces'[n] \in Nonce
        /\ nonces'[n].sessions = nonces[n].sessions
        /\ nonces'[n].state \in {nonces[n].state, "gone"}
  BY <1>3 DEF SessionsRestart, SessionInv, SessionsTypeOK
<1>5. nonces' \in [NonceIds -> Nonce]
  <2>1. nonces' = [n \in NonceIds |-> nonces'[n]]
    BY DEF SessionsRestart, SessionInv, SessionsTypeOK
  <2> QED
    BY <1>4, <2>1
<1>6. proving' \in Proving /\ ProofNamed'
  BY ProvingGoesOn DEF SessionsRestart
<1>7. SessionsTypeOK'
  BY <1>1, <1>2, <1>5, <1>6 DEF SessionInv, SessionsTypeOK
<1>8. EarnedToken(cookie)' /\ Earned'
  BY <1>1 DEF SessionInv, EarnedToken, Earned
<1>9. RequestsNamed' /\ OwnNonce'
  BY <1>1 DEF RequestsNamed, OwnNonce, Claims
<1>10. OneClaim'
  BY <1>1, <1>4 DEF SessionInv, OneClaim, Claims
<1> QED
  BY <1>6, <1>7, <1>8, <1>9, <1>10 DEF SessionInv
-----------------------------------------------------------------------------
LEMMA SameSessions ==
    ASSUME SessionInv, UNCHANGED sessionVars
    PROVE  SessionInv' /\ UNCHANGED <<earned, monitored>>
<1>1. UNCHANGED <<clock, server, nonces, verify, account, cookie, shown, proving, monitored,
                  earned, overlapped>>
  BY DEF sessionVars
<1>2. clock <= clock'
  BY <1>1, TypedSessions DEF SessionInv
<1> QED
  BY <1>1, <1>2, QuietSessions DEF SessionInv, SessionsTypeOK

(* Of the events of the sessions, only a toggle of the owner sets          *)
(* monitored.                                                              *)
LEMMA SessionEventKeeps ==
    ASSUME SessionInv, SessionEvent
    PROVE  /\ SessionInv'
           /\ \A w \in Wallets : earned'[w] = earned[w] \/ earned'[w] = clock
           /\ monitored' = monitored \/ SessionOf(Owner, cookie)
<1>1. ASSUME NEW v \in Verifications, CheckSignature(v)
      PROVE  SessionInv' /\ monitored' = monitored
             /\ \A w \in Wallets : earned'[w] = earned[w] \/ earned'[w] = clock
  BY <1>1, CheckSignatureKeeps DEF CheckSignature
<1>2. ASSUME NEW v \in Verifications,
             FindNonce(v) \/ MarkNonce(v) \/ SignMessage(v) \/ Resend(v)
      PROVE  SessionInv' /\ UNCHANGED <<monitored, earned>>
  BY <1>2, FindNonceKeeps, MarkNonceKeeps, SignMessageKeeps, ResendKeeps
     DEF FindNonce, MarkNonce, SignMessage, Resend
<1>3. CASE IssueNonce \/ \E n \in NonceIds : RemoveNonce(n)
  BY <1>3, IssueNonceKeeps, RemoveNonceKeeps DEF IssueNonce, RemoveNonce
<1>4. clock <= clock /\ clock \in Times /\ account \in Wallets /\ cookie \in Cookie
      /\ shown \in Wallets \cup {Nobody} /\ monitored \in BOOLEAN
  BY TypedSessions DEF SessionInv, SessionsTypeOK
<1>5. CASE ReadSession
  BY <1>4, <1>5, QuietSessions DEF ReadSession, Accepted, Cookie
<1>6. CASE DropCookie \/ Logout
  BY <1>4, <1>6, QuietSessions DEF DropCookie, Logout
<1>7. CASE SwitchAccount
  BY <1>4, <1>7, QuietSessions DEF SwitchAccount
<1>8. CASE ProveFails
  BY <1>4, <1>8, QuietSessions DEF ProveFails
<1>9. CASE ToggleMonitoring
  <2>1. monitored' \in BOOLEAN
    BY <1>4, <1>9 DEF ToggleMonitoring, PutMonitoring
  <2> QED
    BY <1>4, <1>9, <2>1, QuietSessions DEF ToggleMonitoring, PutMonitoring
<1>10. CASE Tick
  <2>1. clock' \in Times /\ clock <= clock'
    BY <1>4, <1>10, SessionNumbers DEF Tick, Times
  <2> QED
    BY <1>4, <1>10, <2>1, QuietSessions DEF Tick
<1> QED
  BY <1>1, <1>2, <1>3, <1>5, <1>6, <1>7, <1>8, <1>9, <1>10 DEF SessionEvent, VerifyStep

(* Documents and their receipts.                                           *)

LEMMA AttemptNumbers ==
    /\ NCalls \in Nat /\ NCalls >= 1 /\ MaxAttempts \in Nat /\ MaxTxs \in Nat /\ MaxRisk \in Nat
    /\ Calls = 1..NCalls /\ NCalls \in Calls /\ 0 \in Risks /\ Risks \subseteq Int
    /\ \A t \in Seq(Tx) : DOMAIN t = 1..Len(t) /\ 0 \notin DOMAIN t
  BY AttemptAssumption DEF Calls, Risks

LEMMA TxsOfAttempts ==
    ASSUME TxsSound
    PROVE  /\ txs \in Seq(Tx) /\ Len(txs) \in Nat /\ Len(txs) <= MaxTxs
           /\ DOMAIN txs = 1..Len(txs)
           /\ \A g \in DOMAIN txs : /\ txs[g] \in Tx /\ g \in Hashes
                                   /\ txs[g].id \in Ids /\ txs[g].call \in Calls
                                   /\ attempts[txs[g].id] # NoAttempt
<1>1. /\ txs \in Seq(Tx) /\ Len(txs) \in Nat /\ Len(txs) <= MaxTxs
      /\ DOMAIN txs = 1..Len(txs)
  BY DEF TxsSound
<1>2. \A g \in DOMAIN txs : txs[g] \in Tx /\ g \in Hashes
  BY <1>1, AttemptNumbers DEF Hashes
<1>3. \A g \in DOMAIN txs : txs[g].id \in Ids /\ txs[g].call \in Calls
  BY <1>2 DEF Tx
<1> QED
  BY <1>1, <1>2, <1>3 DEF TxsSound

LEMMA AttemptFields ==
    ASSUME NEW doc \in Attempt
    PROVE  /\ doc # NoAttempt /\ doc.status \in AttemptStatuses
           /\ doc.hashes \in [Calls -> {0} \cup Hashes]
           /\ doc.results \in [Calls -> Results]
           /\ doc.before \in Int /\ doc.after \in Int
           /\ doc.buffer \in BOOLEAN
<1>1. /\ doc.status \in AttemptStatuses /\ doc.buffer \in BOOLEAN
      /\ doc.hashes \in [Calls -> {0} \cup Hashes] /\ doc.results \in [Calls -> Results]
      /\ doc.before \in Risks /\ doc.after \in Risks
  BY DEF Attempt
<1>2. doc # NoAttempt
  BY <1>1 DEF NoAttempt, AttemptStatuses, Ended
<1> QED
  BY <1>1, <1>2, AttemptNumbers

(* registerTx counts the hashes that are set.                              *)
LEMMA RegisteredCount ==
    ASSUME NEW t \in Seq(Tx), NEW doc \in Attempt, NEW id, NEW n \in 0..NCalls,
           Receipts(t, doc, id, n)
    PROVE  Registered(doc) = n
<1>1. ASSUME NEW c \in Calls PROVE doc.hashes[c] # 0 <=> c \in 1..n
  <2>1. c \in Nat /\ c >= 1 /\ n \in Nat /\ 0 \notin DOMAIN t
    BY AttemptNumbers
  <2>2. c > n => doc.hashes[c] = 0
    BY DEF Receipts
  <2>3. ~(c > n) => doc.hashes[c] \in DOMAIN t
    BY DEF Receipts
  <2> QED
    BY <2>1, <2>2, <2>3
<1>2. {c \in Calls : doc.hashes[c] # 0} = 1..n
  BY <1>1, AttemptNumbers
<1>3. Cardinality(1..n) = n
  BY AttemptNumbers, FS_Interval
<1> QED
  BY <1>2, <1>3 DEF Registered

(* It compares the number of confirmed calls with that of the calls.       *)
LEMMA ConfirmedAll ==
    ASSUME NEW doc
    PROVE  Confirmed(doc) = NCalls <=> AllConfirmed(doc)
<1> DEFINE done == {c \in Calls : doc.results[c] = "success"}
<1>1. IsFiniteSet(Calls) /\ Cardinality(Calls) = NCalls
  BY AttemptNumbers, FS_Interval
<1>2. Cardinality(done) = NCalls <=> done = Calls
  BY <1>1, FS_Subset
<1> QED
  BY <1>2 DEF Confirmed, AllConfirmed

(* Transactions are added and mined, a receipt never changes.              *)
Later(t, u) ==
    /\ u \in Seq(Tx)
    /\ \A g \in DOMAIN t : /\ g \in DOMAIN u
                           /\ u[g].id = t[g].id /\ u[g].call = t[g].call
                           /\ t[g].state # "pending" => u[g] = t[g]

LEMMA ReceiptsLast ==
    ASSUME NEW t \in Seq(Tx), NEW u, Later(t, u), NEW doc \in Attempt, NEW id, NEW n,
           Receipts(t, doc, id, n)
    PROVE  Receipts(u, doc, id, n)
<1> SUFFICES ASSUME NEW c \in Calls, ~(c > n)
             PROVE  doc.hashes[c] \in DOMAIN u
                    /\ ReceiptOf(u[doc.hashes[c]], id, c, doc.results[c])
  BY DEF Receipts
<1> DEFINE g == doc.hashes[c]
<1>1. g \in DOMAIN t /\ ReceiptOf(t[g], id, c, doc.results[c])
  BY DEF Receipts
<1>2. t[g].state # "pending"
  BY <1>1, AttemptFields DEF Results, ReceiptOf
<1> QED
  BY <1>1, <1>2 DEF Later

LEMMA LaterSound ==
    ASSUME NEW t \in Seq(Tx), NEW u, Later(t, u), NEW doc, NEW id
    PROVE  /\ Sound(t, doc, id) => Sound(u, doc, id)
           /\ doc \in Attempt /\ Receipted(t, doc, id) => Receipted(u, doc, id)
<1>1. ASSUME doc \in Attempt, Receipted(t, doc, id) PROVE Receipted(u, doc, id)
  BY <1>1, ReceiptsLast DEF Receipted
<1> QED
  BY <1>1 DEF Sound

LEMMA LaterRequests ==
    ASSUME NEW t \in Seq(Tx), NEW u, Later(t, u), NEW h, NEW r, Requests(t, h, r)
    PROVE  Requests(u, h, r)
<1>1. r \in Register /\ (r.pc # "idle" => h \in DOMAIN u /\ r.id = u[h].id /\ r.call = u[h].call)
  BY DEF Requests, Later
<1>2. Held(u, r)
  <2>1. r.pc = "receipt" => Receipts(u, r.doc, r.id, r.call - 1)
    BY ReceiptsLast DEF Requests, Held, Sound
  <2> QED
    BY <2>1, LaterSound DEF Requests, Held
<1> QED
  BY <1>1, <1>2 DEF Requests

(* Whether an attempt expired matters to no receipt.                       *)
LEMMA ExpiredSound ==
    ASSUME NEW t, NEW doc, NEW id, Sound(t, doc, id), NEW expired \in BOOLEAN
    PROVE  Sound(t, [doc EXCEPT !.expired = expired], id)
<1> DEFINE moved == [doc EXCEPT !.expired = expired]
<1>1. /\ moved \in Attempt
      /\ moved.hashes = doc.hashes /\ moved.results = doc.results /\ moved.status = doc.status
      /\ moved.before = doc.before /\ moved.after = doc.after
  BY DEF Sound, Attempt
<1> HIDE DEF moved
<1>2. Receipted(t, moved, id) /\ Judged(moved)
  BY <1>1 DEF Sound, Receipted, Receipts, Judged, AllConfirmed
<1> QED
  BY <1>1, <1>2 DEF Sound, moved

(* An attempt that is filed has no receipts.                               *)
LEMMA NewSound ==
    ASSUME NEW t, NEW id, NEW before \in Risks, NEW buffer \in BOOLEAN, NEW doc,
           doc = [status |-> "PREPARED", hashes |-> [c \in Calls |-> 0],
                  results |-> [c \in Calls |-> "none"], before |-> before, after |-> before,
                  buffer |-> buffer, expired |-> FALSE]
    PROVE  Sound(t, doc, id)
<1>1. doc \in Attempt
  BY DEF Attempt, AttemptStatuses, Results
<1>2. Receipts(t, doc, id, 0)
  BY AttemptNumbers DEF Receipts
<1>3. Receipted(t, doc, id)
  BY <1>2, AttemptNumbers DEF Receipted
<1>4. Judged(doc)
  BY AttemptNumbers DEF Judged, AllConfirmed
<1> QED
  BY <1>1, <1>3, <1>4 DEF Sound

(* What a receipt makes of a document that has those of the calls before.  *)
LEMMA WithReceiptSound ==
    ASSUME TxsSound, NEW h \in DOMAIN txs, Mined(h), NEW doc,
           Sound(txs, doc, txs[h].id), doc.status \notin Ended,
           Receipts(txs, doc, txs[h].id, txs[h].call - 1),
           NEW next, next = WithReceipt(doc, txs[h].call, h)
    PROVE  /\ next \in Attempt /\ Receipted(txs, next, txs[h].id)
           /\ next.status \in {"FAILED", "SUBMITTED"}
           /\ next.status = "FAILED" \/ ~AllConfirmed(next) => Sound(txs, next, txs[h].id)
           /\ next.hashes[txs[h].call] = h /\ doc.hashes[txs[h].call] = 0
           /\ \A c \in Calls \ {txs[h].call} : next.hashes[c] = doc.hashes[c]
<1> DEFINE k == txs[h].call
           id == txs[h].id
<1>1. /\ txs[h] \in Tx /\ k \in Calls /\ id \in Ids /\ h \in Hashes
      /\ txs[h].state \in {"success", "reverted"}
      /\ ReceiptOf(txs[h], id, k, txs[h].state)
  BY TxsOfAttempts DEF Tx, Mined, ReceiptOf
<1>2. doc \in Attempt
  BY DEF Sound
<1>3. /\ next \in Attempt
      /\ next.hashes = [doc.hashes EXCEPT ![k] = h]
      /\ next.results = [doc.results EXCEPT ![k] = txs[h].state]
      /\ next.status = IF txs[h].state = "reverted" THEN "FAILED" ELSE "SUBMITTED"
  BY <1>1, <1>2 DEF WithReceipt, Attempt, AttemptStatuses, Ended, Results
<1>4. /\ next.hashes[k] = h /\ next.results[k] = txs[h].state
      /\ \A c \in Calls \ {k} : next.hashes[c] = doc.hashes[c] /\ next.results[c] = doc.results[c]
  BY <1>1, <1>2, <1>3, AttemptFields
<1>5. Receipts(txs, next, id, k)
  <2> SUFFICES ASSUME NEW c \in Calls
               PROVE  IF c > k THEN next.hashes[c] = 0 /\ next.results[c] = "none"
                      ELSE /\ next.hashes[c] \in DOMAIN txs
                           /\ ReceiptOf(txs[next.hashes[c]], id, c, next.results[c])
    BY DEF Receipts
  <2>1. CASE c = k
    BY <1>1, <1>4, <2>1, AttemptNumbers
  <2>2. CASE c # k
    <3>1. c > k <=> c > k - 1
      BY <1>1, <2>2, AttemptNumbers
    <3> QED
      BY <1>4, <2>2, <3>1 DEF Receipts
  <2> QED
    BY <2>1, <2>2
<1>6. Receipted(txs, next, id)
  BY <1>1, <1>3, <1>5, AttemptNumbers DEF Receipted
<1>7. doc.hashes[k] = 0
  <2>1. k > k - 1
    BY <1>1, AttemptNumbers
  <2> QED
    BY <1>1, <2>1 DEF Receipts
<1>8. ASSUME next.status = "FAILED" \/ ~AllConfirmed(next) PROVE Judged(next)
  <2>1. \A c \in Calls : doc.results[c] # "reverted"
    BY DEF Sound, Judged, Ended
  <2>2. next.status = "FAILED" <=> \E c \in Calls : next.results[c] = "reverted"
    BY <1>1, <1>3, <1>4, <2>1
  <2>3. ~AllConfirmed(next)
    BY <1>8, <2>2 DEF AllConfirmed
  <2>4. next.status \notin {"VERIFIED", "MISMATCH"}
    BY <1>3
  <2> QED
    BY <2>2, <2>3, <2>4 DEF Judged
<1> QED
  BY <1>3, <1>4, <1>6, <1>7, <1>8 DEF Sound

(* The judgement of a document with all its receipts.                      *)
LEMMA JudgedSound ==
    ASSUME NEW t, NEW id, NEW doc \in Attempt, Receipted(t, doc, id),
           doc.status = "SUBMITTED", AllConfirmed(doc), NEW now \in Risks,
           NEW verdict \in {Classify(doc.before, now, doc.buffer), "MISMATCH"}
    PROVE  Sound(t, [doc EXCEPT !.status = verdict, !.after = now], id)
<1> DEFINE next == [doc EXCEPT !.status = verdict, !.after = now]
<1>1. /\ verdict \in {"VERIFIED", "MISMATCH"}
      /\ verdict = "VERIFIED" => now >= 0 /\ now # doc.before
  BY AttemptFields, AttemptNumbers DEF Classify
<1>2. /\ next \in Attempt
      /\ next.status = verdict /\ next.after = now /\ next.before = doc.before
      /\ next.hashes = doc.hashes /\ next.results = doc.results
  BY <1>1 DEF Attempt, AttemptStatuses, Ended
<1> HIDE DEF next
<1>3. Receipted(t, next, id)
  BY <1>1, <1>2 DEF Receipted, Receipts
<1>4. Judged(next)
  <2>1. AllConfirmed(next) /\ \A c \in Calls : next.results[c] # "reverted"
    BY <1>2 DEF AllConfirmed
  <2> QED
    BY <1>1, <1>2, <2>1 DEF Judged
<1> QED
  BY <1>2, <1>3, <1>4 DEF Sound, next
-----------------------------------------------------------------------------

(* The steps of the attempts.                                              *)

LEMMA NothingsTyped ==
    /\ NoCookie \in Cookie /\ NoRegister \in Register /\ NotPreparing \in Preparing
    /\ \A t, h : Requests(t, h, NoRegister)
    /\ \A t, a : Shows(t, a, NoPage)
<1>1. NoCookie \in Cookie
  BY SessionNumbers DEF NoCookie, Cookie
<1>2. NoRegister \in Register /\ NoRegister.pc = "idle"
  BY <1>1 DEF NoRegister, Register, RegisterPcs
<1>3. NotPreparing \in Preparing
  BY <1>1, AttemptNumbers DEF NotPreparing, Preparing, PreparePcs, Policy, Default
<1>4. NoPage \in Page /\ NoPage.pc = "ready" /\ NoPage.id = 0
  BY DEF NoPage, Page, PagePcs
<1> QED
  BY <1>1, <1>2, <1>3, <1>4 DEF Requests, Held, Shows

LEMMA InitAttempts == Init => AttemptInv
<1> SUFFICES ASSUME Init PROVE AttemptInv
  OBVIOUS
<1>1. /\ proof = [complete |-> TRUE, verified |-> TRUE]
      /\ risk \in {-1, 0} /\ txs = <<>> /\ attempts = [id \in Ids |-> NoAttempt]
      /\ preparing = NotPreparing /\ register = [h \in Hashes |-> NoRegister]
      /\ page = NoPage
  BY DEF Init
<1>2. PlansTyped
  <2>1. risk \in Risks
    BY <1>1, AttemptAssumption DEF Risks
  <2> QED
    BY <1>1, <2>1, NothingsTyped DEF PlansTyped
<1>3. TxsSound
  BY <1>1, AttemptNumbers DEF TxsSound
<1>4. AttemptsSound /\ RequestsSound /\ Shows(txs, attempts, page)
  BY <1>1, NothingsTyped DEF AttemptsSound, RequestsSound
<1> QED
  BY <1>2, <1>3, <1>4 DEF AttemptInv

LEMMA SameAttempts ==
    ASSUME AttemptInv, PlansTyped', UNCHANGED <<txs, attempts, register, page>>
    PROVE  AttemptInv'
  BY DEF AttemptInv, TxsSound, AttemptsSound, RequestsSound

LEMMA PageMoves ==
    ASSUME AttemptInv, PlansTyped', UNCHANGED <<txs, attempts, register>>,
           Shows(txs, attempts, page')
    PROVE  AttemptInv'
  BY DEF AttemptInv, TxsSound, AttemptsSound, RequestsSound

LEMMA OneRequestMoves ==
    ASSUME AttemptInv, NEW h \in Hashes, NEW next, Requests(txs, h, next),
           register' = [register EXCEPT ![h] = next],
           UNCHANGED <<proof, risk, preparing, txs, attempts>>,
           Shows(txs, attempts, page')
    PROVE  AttemptInv'
<1>1. next \in Register
  BY DEF Requests
<1>2. RequestsSound'
  BY <1>1 DEF AttemptInv, RequestsSound
<1> QED
  BY <1>2 DEF AttemptInv, PlansTyped, TxsSound, AttemptsSound

(* An answer leaves the page with the attempt it is about.                 *)
LEMMA AnsweredShows ==
    ASSUME AttemptInv, NEW h \in Hashes, Answered(h)
    PROVE  Shows(txs, attempts, page')
<1>1. Shows(txs, attempts, page) /\ page \in Page
  BY DEF AttemptInv, Shows
<1> DEFINE next == [page EXCEPT !.pc = "ready", !.tx = 0]
<1>2. next \in Page /\ next.pc = "ready" /\ next.id = page.id /\ next.seen = page.seen
  BY <1>1 DEF Page, PagePcs
<1>3. page' = IF page.pc = "registering" /\ page.tx = h THEN next ELSE page
  BY DEF Answered
<1> HIDE DEF next
<1> QED
  BY <1>1, <1>2, <1>3 DEF Shows

LEMMA RefusedAttempt ==
    ASSUME AttemptInv, NEW h \in Hashes, Refuse(h),
           UNCHANGED <<proof, risk, preparing, txs, attempts>>
    PROVE  AttemptInv'
  BY NothingsTyped, AnsweredShows, OneRequestMoves DEF Refuse

(* What a request under way is about.                                      *)
LEMMA RequestOf ==
    ASSUME AttemptInv, NEW h \in Hashes, register[h].pc # "idle"
    PROVE  /\ register[h] \in Register /\ h \in DOMAIN txs /\ txs[h] \in Tx
           /\ register[h].id = txs[h].id /\ register[h].call = txs[h].call
           /\ register[h].id \in Ids /\ register[h].call \in Calls
           /\ attempts[register[h].id] \in Attempt
           /\ Sound(txs, attempts[register[h].id], register[h].id)
           /\ Held(txs, register[h])
<1>1. /\ register[h] \in Register /\ h \in DOMAIN txs
      /\ register[h].id = txs[h].id /\ register[h].call = txs[h].call
      /\ Held(txs, register[h])
  BY DEF AttemptInv, RequestsSound, Requests
<1>2. /\ txs[h] \in Tx /\ attempts[txs[h].id] # NoAttempt
      /\ txs[h].id \in Ids /\ txs[h].call \in Calls
  BY <1>1, TxsOfAttempts DEF AttemptInv
<1> QED
  BY <1>1, <1>2 DEF AttemptInv, AttemptsSound

(* MayRegister looks for the first call without a hash.                    *)
LEMMA GetAttemptKeeps ==
    ASSUME AttemptInv, NEW h \in Hashes, GetAttempt(h)
    PROVE  AttemptInv'
<1> DEFINE r == register[h]
           doc == attempts[r.id]
           next == [r EXCEPT !.pc = "receipt", !.doc = doc, !.cookie = NoCookie]
<1>1. r.pc = "get" /\ UNCHANGED <<proof, risk, preparing, txs, attempts>>
  BY DEF GetAttempt, world, chain
<1>2. CASE MaySee(r.id, r.cookie) /\ MayRegister(doc, r.call)
  <2>1. register' = [register EXCEPT ![h] = next] /\ UNCHANGED page
    BY <1>2 DEF GetAttempt
  <2>2. /\ r \in Register /\ h \in DOMAIN txs
        /\ r.id = txs[h].id /\ r.call = txs[h].call /\ r.call \in Calls
        /\ doc \in Attempt /\ Sound(txs, doc, r.id)
    BY <1>1, RequestOf
  <2>3. /\ next \in Register /\ next.pc = "receipt" /\ next.doc = doc
        /\ next.id = r.id /\ next.call = r.call
    BY <2>2, NothingsTyped DEF Register, RegisterPcs
  <2> HIDE DEF next
  <2>4. PICK n \in 0..NCalls : Receipts(txs, doc, r.id, n)
    BY <2>2 DEF Sound, Receipted
  <2>5. Registered(doc) = n
    BY <2>2, <2>4, RegisteredCount DEF AttemptInv, TxsSound
  <2>6. r.call - 1 = n
    BY <1>2, <2>5, AttemptNumbers DEF MayRegister
  <2>7. Held(txs, next)
    BY <1>2, <2>2, <2>3, <2>4, <2>6 DEF Held, MayRegister
  <2>8. Requests(txs, h, next)
    BY <2>2, <2>3, <2>7 DEF Requests
  <2> QED
    BY <1>1, <2>1, <2>8, OneRequestMoves DEF AttemptInv
<1>3. CASE ~(MaySee(r.id, r.cookie) /\ MayRegister(doc, r.call))
  BY <1>1, <1>3, RefusedAttempt DEF GetAttempt
<1> QED
  BY <1>2, <1>3

LEMMA GetReceiptKeeps ==
    ASSUME AttemptInv, NEW h \in Hashes, GetReceipt(h)
    PROVE  AttemptInv'
<1> DEFINE r == register[h]
           doc == WithReceipt(r.doc, r.call, h)
           pc == IF doc.status # "FAILED" /\ Confirmed(doc) = NCalls THEN "risk" ELSE "write"
           next == [r EXCEPT !.pc = pc, !.doc = doc]
<1>1. /\ r.pc = "receipt" /\ Mined(h)
      /\ register' = [register EXCEPT ![h] = next]
      /\ UNCHANGED <<proof, risk, preparing, txs, attempts, page>>
  BY DEF GetReceipt, world, chain
<1>2. /\ r \in Register /\ h \in DOMAIN txs
      /\ r.id = txs[h].id /\ r.call = txs[h].call
      /\ Held(txs, r)
  BY <1>1, RequestOf
<1>3. /\ Sound(txs, r.doc, r.id) /\ r.doc.status \notin Ended
      /\ Receipts(txs, r.doc, r.id, r.call - 1)
  BY <1>1, <1>2 DEF Held
<1>4. /\ doc \in Attempt /\ Receipted(txs, doc, r.id)
      /\ doc.status \in {"FAILED", "SUBMITTED"}
      /\ doc.status = "FAILED" \/ ~AllConfirmed(doc) => Sound(txs, doc, r.id)
  BY <1>1, <1>2, <1>3, WithReceiptSound DEF AttemptInv
<1> HIDE DEF doc
<1>5. /\ next \in Register /\ next.pc = pc /\ next.doc = doc
      /\ next.id = r.id /\ next.call = r.call
  BY <1>2, <1>4 DEF Register, RegisterPcs
<1> HIDE DEF next
<1>6. Confirmed(doc) = NCalls <=> AllConfirmed(doc)
  BY ConfirmedAll
<1>7. Held(txs, next)
  BY <1>4, <1>5, <1>6 DEF Held
<1>8. Requests(txs, h, next)
  BY <1>2, <1>5, <1>7 DEF Requests
<1> QED
  BY <1>1, <1>8, OneRequestMoves DEF AttemptInv

LEMMA ReadRiskKeeps ==
    ASSUME AttemptInv, NEW h \in Hashes, ReadRisk(h)
    PROVE  AttemptInv'
<1> DEFINE r == register[h]
           doc == r.doc
<1>1. PICK verdict \in {Classify(doc.before, risk, doc.buffer), "MISMATCH"} :
        register' = [register EXCEPT ![h].pc = "write", ![h].doc.status = verdict,
                                     ![h].doc.after = risk]
  BY DEF ReadRisk
<1>2. r.pc = "risk" /\ UNCHANGED <<proof, risk, preparing, txs, attempts, page>>
  BY DEF ReadRisk, world, chain
<1> DEFINE judged == [doc EXCEPT !.status = verdict, !.after = risk]
           next == [r EXCEPT !.pc = "write", !.doc = judged]
<1>3. /\ r \in Register /\ h \in DOMAIN txs
      /\ r.id = txs[h].id /\ r.call = txs[h].call /\ Held(txs, r)
  BY <1>2, RequestOf
<1>4. register' = [register EXCEPT ![h] = next]
  BY <1>1
<1>5. Sound(txs, judged, r.id)
  BY <1>2, <1>3, JudgedSound DEF Held, AttemptInv, PlansTyped
<1> HIDE DEF judged
<1>6. /\ next \in Register /\ next.pc = "write" /\ next.doc = judged
      /\ next.id = r.id /\ next.call = r.call
  BY <1>3, <1>5 DEF Register, RegisterPcs, Sound
<1> HIDE DEF next
<1>7. Requests(txs, h, next)
  BY <1>3, <1>5, <1>6 DEF Requests, Held
<1> QED
  BY <1>2, <1>4, <1>7, OneRequestMoves DEF AttemptInv

(* The write keeps what was stored about the expiry only.                  *)
LEMMA WriteAttemptKeeps ==
    ASSUME AttemptInv, NEW h \in Hashes, WriteAttempt(h)
    PROVE  AttemptInv'
<1> DEFINE r == register[h]
           next == [r.doc EXCEPT !.expired = attempts[r.id].expired]
<1>1. /\ r.pc = "write" /\ attempts' = [attempts EXCEPT ![r.id] = next]
      /\ register' = [register EXCEPT ![h] = NoRegister] /\ Answered(h)
      /\ UNCHANGED <<proof, risk, preparing, txs>>
  BY DEF WriteAttempt, world, chain
<1>2. /\ r.id \in Ids /\ attempts[r.id] \in Attempt /\ Held(txs, r)
  BY <1>1, RequestOf
<1>3. attempts[r.id].expired \in BOOLEAN
  BY <1>2 DEF Attempt
<1>4. Sound(txs, next, r.id)
  BY <1>1, <1>2, <1>3, ExpiredSound DEF Held
<1> HIDE DEF next
<1>5. next \in Attempt /\ next # NoAttempt
  BY <1>4, AttemptFields DEF Sound
<1>6. /\ attempts' \in [Ids -> Attempt \cup {NoAttempt}]
      /\ attempts'[r.id] = next
      /\ \A id \in Ids : id # r.id => attempts'[id] = attempts[id]
  BY <1>1, <1>2, <1>5 DEF AttemptInv, AttemptsSound
<1>7. AttemptsSound'
  BY <1>1, <1>4, <1>6 DEF AttemptInv, AttemptsSound
<1>8. RequestsSound'
  BY <1>1, NothingsTyped DEF AttemptInv, RequestsSound
<1>9. \A id \in Ids : attempts[id] # NoAttempt => attempts'[id] # NoAttempt
  BY <1>5, <1>6
<1>10. TxsSound'
  BY <1>1, <1>9, TxsOfAttempts DEF AttemptInv, TxsSound
<1>11. Shows(txs, attempts', page')
  BY <1>1, <1>9, AnsweredShows DEF Shows
<1>12. PlansTyped'
  BY <1>1 DEF AttemptInv, PlansTyped
<1> QED
  BY <1>1, <1>7, <1>8, <1>10, <1>11, <1>12 DEF AttemptInv

(* Attempts are filed, and their expiry noted.                             *)
LEMMA OneAttemptMoves ==
    ASSUME AttemptInv, NEW id \in Ids, NEW next, Sound(txs, next, id),
           attempts' = [attempts EXCEPT ![id] = next],
           UNCHANGED <<txs, register>>, PlansTyped', Shows(txs, attempts', page')
    PROVE  AttemptInv'
<1>1. next \in Attempt /\ next # NoAttempt
  BY AttemptFields DEF Sound
<1>2. /\ attempts' \in [Ids -> Attempt \cup {NoAttempt}]
      /\ attempts'[id] = next
      /\ \A other \in Ids : other # id => attempts'[other] = attempts[other]
  BY <1>1 DEF AttemptInv, AttemptsSound
<1>3. AttemptsSound' /\ RequestsSound'
  BY <1>2 DEF AttemptInv, AttemptsSound, RequestsSound
<1>4. \A other \in Ids : attempts[other] # NoAttempt => attempts'[other] # NoAttempt
  BY <1>1, <1>2
<1>5. TxsSound'
  BY <1>4, TxsOfAttempts DEF AttemptInv, TxsSound
<1> QED
  BY <1>3, <1>5 DEF AttemptInv

LEMMA CreateAttemptKeeps ==
    ASSUME AttemptInv, CreateAttempt
    PROVE  AttemptInv'
<1>1. UNCHANGED <<proof, risk, txs, register>> /\ preparing' = NotPreparing
  BY DEF CreateAttempt, world, chain
<1> DEFINE filed == [status |-> "PREPARED",
                     hashes |-> [c \in Calls |-> 0],
                     results |-> [c \in Calls |-> "none"],
                     before |-> preparing.before,
                     after |-> preparing.before,
                     buffer |-> preparing.policy.buffer,
                     expired |-> FALSE]
<1>2. PICK id \in Ids :
        /\ attempts' = [attempts EXCEPT ![id] = filed]
        /\ attempts[id] = NoAttempt
        /\ page' = IF preparing.shown THEN [page EXCEPT !.id = id, !.seen = attempts'[id]] ELSE page
  BY DEF CreateAttempt
<1>3. preparing.before \in Risks /\ preparing.policy.buffer \in BOOLEAN
  BY DEF AttemptInv, PlansTyped, Preparing, Policy
<1>4. Sound(txs, filed, id)
  BY <1>3, NewSound
<1> HIDE DEF filed
<1>5. filed \in Attempt /\ filed # NoAttempt
  BY <1>4, AttemptFields DEF Sound
<1>6. attempts'[id] = filed
  BY <1>2 DEF AttemptInv, AttemptsSound
<1>7. Shows(txs, attempts', page')
  <2>1. Shows(txs, attempts, page) /\ page \in Page
    BY DEF AttemptInv, Shows
  <2>2. CASE preparing.shown
    <3>1. /\ page' \in Page /\ page'.pc = page.pc /\ page'.tx = page.tx
          /\ page'.id = id /\ page'.seen = filed
      BY <1>2, <1>5, <1>6, <2>1, <2>2 DEF Page
    <3> QED
      BY <1>5, <1>6, <2>1, <3>1 DEF Shows
  <2>3. CASE ~preparing.shown
    <3>1. page' = page /\ \A other \in Ids : attempts[other] # NoAttempt => attempts'[other] # NoAttempt
      BY <1>2, <1>5, <2>3 DEF AttemptInv, AttemptsSound
    <3> QED
      BY <2>1, <3>1 DEF Shows
  <2> QED
    BY <2>2, <2>3
<1>8. PlansTyped'
  BY <1>1, NothingsTyped DEF AttemptInv, PlansTyped
<1> QED
  BY <1>1, <1>2, <1>4, <1>7, <1>8, OneAttemptMoves

LEMMA ExpireKeeps ==
    ASSUME AttemptInv, NEW id \in Ids, Expire(id)
    PROVE  AttemptInv'
<1> DEFINE next == [attempts[id] EXCEPT !.expired = TRUE]
<1>1. /\ attempts[id] # NoAttempt /\ attempts' = [attempts EXCEPT ![id] = next]
      /\ UNCHANGED <<proof, risk, preparing, txs, register, page>>
  BY DEF Expire, world, chain
<1>2. Sound(txs, next, id)
  BY <1>1, ExpiredSound DEF AttemptInv, AttemptsSound
<1> HIDE DEF next
<1>3. next # NoAttempt /\ PlansTyped'
  BY <1>1, <1>2, AttemptFields DEF Sound, AttemptInv, PlansTyped
<1>4. Shows(txs, attempts', page')
  BY <1>1, <1>3 DEF AttemptInv, AttemptsSound, Shows
<1> QED
  BY <1>1, <1>2, <1>3, <1>4, OneAttemptMoves

(* Signing and mining leave every receipt as it is.                        *)
LEMMA LaterKeeps ==
    ASSUME AttemptInv, Later(txs, txs'), Len(txs') <= MaxTxs,
           \A h \in DOMAIN txs' : txs'[h].id \in Ids /\ attempts[txs'[h].id] # NoAttempt,
           UNCHANGED <<attempts, register>>, PlansTyped', Shows(txs', attempts, page')
    PROVE  AttemptInv'
<1>1. txs \in Seq(Tx)
  BY DEF AttemptInv, TxsSound
<1>2. TxsSound'
  BY DEF TxsSound, Later
<1>3. AttemptsSound'
  BY <1>1, LaterSound DEF AttemptInv, AttemptsSound
<1>4. RequestsSound'
  BY <1>1, LaterRequests DEF AttemptInv, RequestsSound
<1> QED
  BY <1>2, <1>3, <1>4 DEF AttemptInv

LEMMA SignKeeps ==
    ASSUME AttemptInv, NEW c \in Calls, Sign(c)
    PROVE  AttemptInv'
<1>0. PICK same \in BOOLEAN :
        txs' = Append(txs, [id |-> page.id, call |-> c, same |-> same, state |-> "pending"])
  BY DEF Sign
<1> DEFINE tx == [id |-> page.id, call |-> c, same |-> same, state |-> "pending"]
           n == Len(txs) + 1
<1>1. /\ page.id # 0 /\ Len(txs) < MaxTxs /\ txs' = Append(txs, tx)
      /\ page' = [page EXCEPT !.pc = "signed", !.tx = Len(txs')]
      /\ UNCHANGED <<proof, risk, preparing, attempts, register>>
  BY <1>0 DEF Sign
<1>2. /\ txs \in Seq(Tx) /\ Len(txs) \in Nat /\ DOMAIN txs = 1..Len(txs)
      /\ page \in Page /\ page.id \in Ids /\ attempts[page.id] # NoAttempt /\ page.seen \in Attempt
  BY <1>1 DEF AttemptInv, TxsSound, Shows
<1>3. tx \in Tx /\ tx.id = page.id
  BY <1>2 DEF Tx
<1> HIDE DEF tx
<1>4. /\ txs' \in Seq(Tx) /\ Len(txs') = n /\ DOMAIN txs' = 1..n /\ n \in DOMAIN txs'
      /\ txs'[n] = tx
      /\ \A g \in DOMAIN txs : g \in DOMAIN txs' /\ txs'[g] = txs[g]
  BY <1>1, <1>2, <1>3
<1>5. Later(txs, txs') /\ Len(txs') <= MaxTxs
  BY <1>1, <1>2, <1>4, AttemptNumbers DEF Later
<1>6. \A h \in DOMAIN txs' : txs'[h].id \in Ids /\ attempts[txs'[h].id] # NoAttempt
  <2>1. \A h \in DOMAIN txs : txs'[h].id \in Ids /\ attempts[txs'[h].id] # NoAttempt
    BY <1>4, TxsOfAttempts DEF AttemptInv
  <2>2. \A h \in DOMAIN txs' : h \in DOMAIN txs \/ h = n
    BY <1>2, <1>4
  <2> QED
    BY <1>2, <1>3, <1>4, <2>1, <2>2
<1>7. n \in Hashes
  BY <1>1, <1>2, AttemptNumbers DEF Hashes
<1>8. Shows(txs', attempts, page')
  <2>1. /\ page' \in Page /\ page'.pc = "signed" /\ page'.tx = n /\ page'.id = page.id
        /\ page'.seen = page.seen
    BY <1>1, <1>2, <1>4, <1>7 DEF Page, PagePcs
  <2> QED
    BY <1>2, <1>3, <1>4, <2>1 DEF Shows
<1>9. PlansTyped'
  BY <1>1 DEF AttemptInv, PlansTyped
<1> QED
  BY <1>1, <1>5, <1>6, <1>8, <1>9, LaterKeeps

LEMMA MineKeeps ==
    ASSUME AttemptInv, NEW h \in Hashes, Mine(h)
    PROVE  AttemptInv'
<1>1. /\ h \in DOMAIN txs /\ txs[h].state = "pending" /\ txs[h] \in Tx /\ txs \in Seq(Tx)
      /\ UNCHANGED <<proof, preparing, attempts, register, page>>
  BY DEF Mine, AttemptInv, TxsSound
<1>2. PICK state \in {"success", "reverted"} : txs' = [txs EXCEPT ![h].state = state]
  BY DEF Mine
<1> DEFINE mined == [txs[h] EXCEPT !.state = state]
<1>3. txs' = [txs EXCEPT ![h] = mined]
  BY <1>2
<1>4. mined \in Tx /\ mined.id = txs[h].id /\ mined.call = txs[h].call
  BY <1>1 DEF Tx
<1> HIDE DEF mined
<1>5. /\ txs' \in Seq(Tx) /\ Len(txs') = Len(txs) /\ DOMAIN txs' = DOMAIN txs /\ txs'[h] = mined
      /\ \A g \in DOMAIN txs : g # h => txs'[g] = txs[g]
  BY <1>1, <1>3, <1>4
<1>6. Later(txs, txs')
  BY <1>1, <1>4, <1>5 DEF Later
<1>7. \A g \in DOMAIN txs' : txs'[g].id = txs[g].id /\ txs'[g].id \in Ids /\ attempts[txs'[g].id] # NoAttempt
  BY <1>1, <1>4, <1>5, TxsOfAttempts DEF AttemptInv
<1>8. PlansTyped'
  <2>1. risk' \in Risks
    BY AttemptNumbers DEF Mine, AttemptInv, PlansTyped, Risks
  <2> QED
    BY <1>1, <2>1 DEF AttemptInv, PlansTyped
<1>9. Shows(txs', attempts, page')
  BY <1>1, <1>5, <1>7 DEF AttemptInv, Shows
<1>10. Len(txs') <= MaxTxs
  BY <1>5 DEF AttemptInv, TxsSound
<1> QED
  BY <1>1, <1>6, <1>7, <1>8, <1>9, <1>10, LaterKeeps

LEMMA PreparingMoves ==
    ASSUME AttemptInv, NEW pc \in PreparePcs, NEW policy \in Policy, NEW before \in Risks,
           NEW token \in Cookie, NEW waits \in BOOLEAN,
           preparing' = [pc |-> pc, policy |-> policy, before |-> before, cookie |-> token,
                         shown |-> waits],
           UNCHANGED <<proof, risk, txs, attempts, register, page>>
    PROVE  AttemptInv'
<1>1. PlansTyped'
  BY DEF AttemptInv, PlansTyped, Preparing
<1> QED
  BY <1>1, SameAttempts

(* The checks of a plan, one after the other.                              *)
LEMMA PreparingKeeps ==
    ASSUME AttemptInv, PoliciesTyped,
           CheckRun \/ CheckChange \/ CheckStrategies \/ ReadPolicy \/ DryRun
    PROVE  AttemptInv'
<1>1. /\ preparing = [pc |-> preparing.pc, policy |-> preparing.policy,
                      before |-> preparing.before, cookie |-> preparing.cookie,
                      shown |-> preparing.shown]
      /\ preparing.pc \in PreparePcs /\ preparing.policy \in Policy /\ preparing.shown \in BOOLEAN
      /\ preparing.before \in Risks /\ preparing.cookie \in Cookie
      /\ risk \in Risks
  BY DEF AttemptInv, PlansTyped, Preparing
<1>2. UNCHANGED <<proof, risk, txs, attempts, register, page>>
  BY DEF CheckRun, CheckChange, CheckStrategies, ReadPolicy, DryRun, Reads, world, chain
<1>3. NoCookie \in Cookie
  BY NothingsTyped
<1>4. PolicyInForce \in Policy
  <2>1. Default \in Policy
    BY DEF Policy, Default
  <2>2. \A v \in Versions : policies[v].policy \in Policy
    <3>1. Missing.policy \in Policy
      BY <2>1 DEF Missing
    <3>2. \A d \in Document : d.policy \in Policy
      BY DEF Document
    <3> QED
      BY <3>1, <3>2 DEF PoliciesTyped
  <2>3. Active # {} => (CHOOSE v \in Active : TRUE) \in Versions
    BY DEF Active
  <2> QED
    BY <2>1, <2>2, <2>3 DEF PolicyInForce
<1>5. CASE CheckRun
  <2>1. preparing' = [pc |-> "change", policy |-> preparing.policy,
                      before |-> preparing.before, cookie |-> NoCookie, shown |-> preparing.shown]
    BY <1>1, <1>5 DEF CheckRun
  <2> QED
    BY <1>1, <1>2, <1>3, <2>1, PreparingMoves DEF PreparePcs
<1>6. CASE CheckChange \/ CheckStrategies
  <2>1. PICK pc \in PreparePcs :
          preparing' = [pc |-> pc, policy |-> preparing.policy,
                        before |-> preparing.before, cookie |-> preparing.cookie,
                        shown |-> preparing.shown]
    BY <1>1, <1>6 DEF CheckChange, CheckStrategies, Reads, PreparePcs
  <2> QED
    BY <1>1, <1>2, <2>1, PreparingMoves
<1>7. CASE ReadPolicy
  <2>1. preparing' = [pc |-> "live", policy |-> PolicyInForce,
                      before |-> preparing.before, cookie |-> preparing.cookie,
                      shown |-> preparing.shown]
    BY <1>1, <1>7 DEF ReadPolicy
  <2> QED
    BY <1>1, <1>2, <1>4, <2>1, PreparingMoves DEF PreparePcs
<1>8. CASE DryRun
  <2>1. preparing' = [pc |-> "create", policy |-> preparing.policy,
                      before |-> risk, cookie |-> preparing.cookie, shown |-> preparing.shown]
    BY <1>1, <1>8 DEF DryRun
  <2> QED
    BY <1>1, <1>2, <2>1, PreparingMoves DEF PreparePcs
<1> QED
  BY <1>5, <1>6, <1>7, <1>8

(* What the page does by itself.                                           *)
LEMMA PageKeeps ==
    ASSUME AttemptInv, SessionsTypeOK,
           PrepareFails \/ ClickPrepare \/ GiveUp \/ Refetch \/ Reload
    PROVE  AttemptInv'
<1>1. UNCHANGED <<proof, risk, txs, attempts, register>>
  BY DEF PrepareFails, ClickPrepare, GiveUp, Refetch, Reload, world, chain
<1>2. Shows(txs, attempts, page) /\ page \in Page /\ cookie \in Cookie
  BY DEF AttemptInv, Shows, SessionsTypeOK
<1>3. preparing' \in Preparing
  <2>1. [NotPreparing EXCEPT !.pc = "run", !.cookie = cookie, !.shown = TRUE] \in Preparing
    BY <1>2, NothingsTyped DEF NotPreparing, Preparing, PreparePcs
  <2>2. [preparing EXCEPT !.shown = FALSE] \in Preparing
    BY DEF AttemptInv, PlansTyped, Preparing
  <2> QED
    BY <2>1, <2>2, NothingsTyped
       DEF PrepareFails, ClickPrepare, GiveUp, Refetch, Reload, AttemptInv, PlansTyped
<1>4. PlansTyped'
  BY <1>1, <1>3 DEF AttemptInv, PlansTyped
<1>5. Shows(txs, attempts, page')
  <2>1. CASE Reload
    BY <2>1, NothingsTyped DEF Reload
  <2>2. CASE PrepareFails \/ ClickPrepare
    BY <1>2, <2>2 DEF PrepareFails, ClickPrepare
  <2>3. CASE GiveUp
    <3>1. page' \in Page /\ page'.pc = "ready" /\ page'.id = page.id /\ page'.seen = page.seen
      BY <1>2, <2>3 DEF GiveUp, Page, PagePcs
    <3> QED
      BY <1>2, <2>3, <3>1 DEF GiveUp, Shows
  <2>4. CASE Refetch
    <3>1. page.id \in Ids /\ attempts[page.id] \in Attempt
      BY <1>2, <2>4 DEF Refetch, Shows, AttemptInv, AttemptsSound
    <3>2. /\ page' \in Page /\ page'.pc = page.pc /\ page'.id = page.id /\ page'.tx = page.tx
          /\ page'.seen = attempts[page.id]
      BY <1>2, <2>4, <3>1 DEF Refetch, Page
    <3> QED
      BY <1>2, <3>1, <3>2 DEF Shows
  <2> QED
    BY <2>1, <2>2, <2>3, <2>4
<1> QED
  BY <1>1, <1>4, <1>5, PageMoves

LEMMA PostRegisterKeeps ==
    ASSUME AttemptInv, SessionsTypeOK, PostRegister
    PROVE  AttemptInv'
<1> DEFINE next == [pc |-> "get", id |-> txs[page.tx].id, call |-> txs[page.tx].call,
                    doc |-> NoAttempt, cookie |-> cookie]
<1>1. /\ page.pc = "signed" /\ page \in Page /\ cookie \in Cookie
      /\ register' = [register EXCEPT ![page.tx] = next]
      /\ page' = [page EXCEPT !.pc = "registering"]
      /\ UNCHANGED <<proof, risk, preparing, txs, attempts>>
  BY DEF PostRegister, AttemptInv, Shows, SessionsTypeOK, world, chain
<1>2. /\ page.tx \in DOMAIN txs /\ page.tx \in Hashes /\ txs[page.tx].call \in Calls
      /\ txs[page.tx].id \in Ids
  BY <1>1, TxsOfAttempts DEF AttemptInv, Shows
<1>3. Requests(txs, page.tx, next)
  BY <1>1, <1>2 DEF Requests, Register, RegisterPcs, Held
<1>4. Shows(txs, attempts, page')
  <2>1. /\ page' \in Page /\ page'.pc = "registering" /\ page'.id = page.id
        /\ page'.tx = page.tx /\ page'.seen = page.seen
    BY <1>1 DEF Page, PagePcs
  <2> QED
    BY <1>1, <2>1 DEF AttemptInv, Shows
<1> HIDE DEF next
<1> QED
  BY <1>1, <1>2, <1>3, <1>4, OneRequestMoves

LEMMA RestartKeeps ==
    ASSUME AttemptInv, Restart
    PROVE  AttemptInv'
<1>1. /\ preparing' = NotPreparing /\ register' = [h \in Hashes |-> NoRegister]
      /\ page' = IF page.pc = "registering" THEN [page EXCEPT !.pc = "ready", !.tx = 0] ELSE page
      /\ UNCHANGED <<proof, risk, txs, attempts>>
  BY DEF Restart, chain
<1>2. RequestsSound'
  BY <1>1, NothingsTyped DEF RequestsSound
<1>3. Shows(txs, attempts, page')
  <2>1. page \in Page /\ Shows(txs, attempts, page)
    BY DEF AttemptInv, Shows
  <2>3. CASE page.pc = "registering"
    <3>1. page' = [page EXCEPT !.pc = "ready", !.tx = 0]
      BY <1>1, <2>3
    <3>2. page' \in Page /\ page'.pc = "ready" /\ page'.id = page.id /\ page'.seen = page.seen
      BY <2>1, <3>1 DEF Page, PagePcs
    <3> QED
      BY <2>1, <2>3, <3>2 DEF Shows
  <2>4. CASE page.pc # "registering"
    BY <1>1, <2>1, <2>4
  <2> QED
    BY <2>3, <2>4
<1> QED
  BY <1>1, <1>2, <1>3, NothingsTyped DEF AttemptInv, PlansTyped, TxsSound, AttemptsSound

LEMMA StepKeepsAttempts ==
    ASSUME AttemptInv, PoliciesTyped, SessionsTypeOK, [Next]_vars
    PROVE  AttemptInv'
<1>1. ASSUME NEW h \in Hashes, RegisterStep(h) PROVE AttemptInv'
  BY <1>1, GetAttemptKeeps, GetReceiptKeeps, ReadRiskKeeps, WriteAttemptKeeps DEF RegisterStep
<1>2. ASSUME NEW h \in Hashes, RegisterFails(h) PROVE AttemptInv'
  BY <1>2, RefusedAttempt DEF RegisterFails, world, chain
<1>3. ASSUME NEW h \in Hashes, Mine(h) PROVE AttemptInv'
  BY <1>3, MineKeeps
<1>4. ASSUME NEW c \in Calls, Sign(c) PROVE AttemptInv'
  BY <1>4, SignKeeps
<1>5. ASSUME NEW id \in Ids, Expire(id) PROVE AttemptInv'
  BY <1>5, ExpireKeeps
<1>6. CASE CheckRun \/ CheckChange \/ CheckStrategies \/ ReadPolicy \/ DryRun
  BY <1>6, PreparingKeeps
<1>7. CASE PrepareFails \/ ClickPrepare \/ GiveUp \/ Refetch \/ Reload
  BY <1>7, PageKeeps
<1>8. CASE CreateAttempt
  BY <1>8, CreateAttemptKeeps
<1>9. CASE PostRegister
  BY <1>9, PostRegisterKeeps
<1>10. CASE Restart
  BY <1>10, RestartKeeps
<1>11. CASE Drift \/ ProofMoves
  <2>1. PlansTyped'
    BY <1>11 DEF Drift, ProofMoves, chain, AttemptInv, PlansTyped
  <2> QED
    BY <1>11, <2>1, SameAttempts DEF Drift, ProofMoves, chain
<1>12. ASSUME UNCHANGED <<proof, chain, attempts, preparing, register, page>> PROVE AttemptInv'
  <2>1. UNCHANGED <<proof, risk, txs, attempts, preparing, register, page>>
    BY <1>12 DEF chain
  <2>2. PlansTyped'
    BY <2>1 DEF AttemptInv, PlansTyped
  <2> QED
    BY <2>1, <2>2, SameAttempts
<1>13. CASE ChangeDies \/ SessionEvent \/ UNCHANGED vars
  BY <1>12, <1>13 DEF ChangeDies, SessionEvent, vars, world
<1>14. ASSUME NEW p \in Puts, PolicyRequest(p) PROVE AttemptInv'
  BY <1>12, <1>14 DEF PolicyRequest, others, world
<1> QED
  BY <1>1, <1>2, <1>3, <1>4, <1>5, <1>6, <1>7, <1>8, <1>9, <1>10, <1>11, <1>13, <1>14 DEF Next

-----------------------------------------------------------------------------
(* Sessions come first.                                                    *)

LEMMA StepKeepsSessions ==
    ASSUME SessionInv, [Next]_vars
    PROVE  /\ SessionInv'
           /\ \A w \in Wallets : earned'[w] = earned[w] \/ earned'[w] = clock
           /\ monitored' = monitored \/ SessionOf(Owner, cookie)
<1>1. CASE SessionEvent
  BY <1>1, SessionEventKeeps
<1>2. CASE Restart
  BY <1>2, SessionsRestartKeeps DEF Restart, SessionsRestart
<1>3. CASE Reload
  <2>1. clock <= clock /\ shown' \in Wallets \cup {Nobody}
    BY <1>3, TypedSessions DEF Reload, Reloaded, SessionInv
  <2> QED
    BY <1>3, <2>1, QuietSessions DEF Reload, Reloaded, SessionInv, SessionsTypeOK
<1>4. CASE UNCHANGED sessionVars
  BY <1>4, SameSessions
<1>5. ASSUME NEW h \in Hashes, RegisterStep(h) \/ RegisterFails(h) \/ Mine(h)
      PROVE  UNCHANGED sessionVars
  BY <1>5 DEF RegisterStep, GetAttempt, GetReceipt, ReadRisk, WriteAttempt, RegisterFails, Mine,
     world
<1>6. ASSUME \/ CheckRun \/ CheckChange \/ CheckStrategies \/ ReadPolicy \/ DryRun \/ CreateAttempt
             \/ PrepareFails \/ ClickPrepare \/ PostRegister \/ GiveUp \/ Refetch
             \/ Drift \/ ProofMoves \/ ChangeDies \/ UNCHANGED vars
      PROVE  UNCHANGED sessionVars
  BY <1>6 DEF CheckRun, CheckChange, CheckStrategies, Reads, ReadPolicy, DryRun, CreateAttempt,
     PrepareFails, ClickPrepare, PostRegister, GiveUp, Refetch, Drift, ProofMoves, ChangeDies,
     vars, world
<1>7. ASSUME NEW c \in Calls, Sign(c) PROVE UNCHANGED sessionVars
  BY <1>7 DEF Sign
<1>8. ASSUME NEW id \in Ids, Expire(id) PROVE UNCHANGED sessionVars
  BY <1>8 DEF Expire, world
<1>9. ASSUME NEW p \in Puts, PolicyRequest(p) PROVE UNCHANGED sessionVars
  BY <1>9 DEF PolicyRequest, others, world
<1> QED
  BY <1>1, <1>2, <1>3, <1>4, <1>5, <1>6, <1>7, <1>8, <1>9 DEF Next

(* The first step towards anything stored for the owner asks for a session *)
(* of the owner.                                                           *)
LEMMA StartAsks ==
    ASSUME SessionInv, PoliciesTyped, AttemptInv, [Next]_vars, ~Started, Started'
    PROVE  SessionOf(Owner, cookie) \/ SessionOf(Owner, preparing.cookie)
<1> SUFFICES ASSUME ~SessionOf(Owner, cookie), ~SessionOf(Owner, preparing.cookie)
             PROVE  FALSE
  OBVIOUS
<1>1. /\ monitored = FALSE /\ \A p \in Puts : put[p].pc = "idle"
      /\ \A v \in Versions : policies[v] = Missing
      /\ preparing.pc \in {"idle", "run"} /\ \A id \in Ids : attempts[id] = NoAttempt
  BY DEF Started, SessionInv, SessionsTypeOK
<1>2. \A h \in Hashes : register[h].pc = "idle"
  BY <1>1, RequestOf, AttemptFields
<1>3. monitored' = FALSE
  BY <1>1, StepKeepsSessions
<1>4. ASSUME NEW h \in Hashes PROVE ~RegisterStep(h) /\ ~RegisterFails(h)
  BY <1>2 DEF RegisterStep, GetAttempt, GetReceipt, ReadRisk, WriteAttempt, RegisterFails
<1>5. /\ ~CheckRun /\ ~CheckChange /\ ~CheckStrategies /\ ~ReadPolicy /\ ~DryRun /\ ~CreateAttempt
      /\ \A id \in Ids : ~Expire(id)
  BY <1>1 DEF CheckRun, MayServe, CheckChange, CheckStrategies, Reads, ReadPolicy, DryRun,
     CreateAttempt, Expire
<1>6. ASSUME NEW p \in Puts PROVE ~PolicyRequest(p)
  BY <1>1 DEF PolicyRequest, PutStep, FindPolicy, Deactivate, CreatePolicy, PutFails, SavePolicy,
     MayServe
<1>7. policies' = policies /\ attempts' = attempts /\ \A p \in Puts : put'[p].pc = "idle"
  <2>1. CASE Restart
    BY <1>1, <2>1 DEF Restart, IdlePut
  <2>2. ASSUME NEW h \in Hashes, Mine(h) PROVE UNCHANGED <<policies, attempts, put>>
    BY <2>2 DEF Mine
  <2>3. ASSUME NEW c \in Calls, Sign(c) PROVE UNCHANGED <<policies, attempts, put>>
    BY <2>3 DEF Sign
  <2>4. CASE \/ PrepareFails \/ ClickPrepare \/ PostRegister \/ GiveUp \/ Refetch \/ Reload
             \/ Drift \/ ProofMoves \/ ChangeDies \/ SessionEvent \/ UNCHANGED vars
    BY <1>1, <2>4 DEF PrepareFails, ClickPrepare, PostRegister, GiveUp, Refetch, Reload, Drift,
       ProofMoves, ChangeDies, SessionEvent, vars
  <2> QED
    BY <1>1, <1>4, <1>5, <1>6, <2>1, <2>2, <2>3, <2>4 DEF Next
<1>8. preparing'.pc \in {"idle", "run"}
  <2>1. /\ NotPreparing.pc = "idle"
        /\ [NotPreparing EXCEPT !.pc = "run", !.cookie = cookie, !.shown = TRUE].pc = "run"
        /\ [preparing EXCEPT !.shown = FALSE].pc = preparing.pc
    BY DEF NotPreparing, AttemptInv, PlansTyped, Preparing
  <2>2. CASE Restart \/ PrepareFails \/ ClickPrepare \/ Reload
    BY <1>1, <2>1, <2>2 DEF Restart, PrepareFails, ClickPrepare, Reload
  <2>3. ASSUME NEW h \in Hashes, Mine(h) PROVE UNCHANGED preparing
    BY <2>3 DEF Mine
  <2>4. ASSUME NEW c \in Calls, Sign(c) PROVE UNCHANGED preparing
    BY <2>4 DEF Sign
  <2>5. CASE \/ PostRegister \/ GiveUp \/ Refetch \/ Drift \/ ProofMoves \/ ChangeDies
             \/ SessionEvent \/ UNCHANGED vars
    BY <1>1, <2>5 DEF PostRegister, GiveUp, Refetch, Drift, ProofMoves, ChangeDies,
       SessionEvent, vars
  <2> QED
    BY <1>1, <1>4, <1>5, <1>6, <2>2, <2>3, <2>4, <2>5 DEF Next
<1> QED
  BY <1>1, <1>3, <1>7, <1>8 DEF Started

(* A preparing request carries the cookie the browser had.                 *)
LEMMA PreparingCookie ==
    ASSUME AttemptInv, [Next]_vars
    PROVE  preparing'.cookie \in {preparing.cookie, NoCookie, cookie}
<1>1. /\ NotPreparing.cookie = NoCookie
      /\ [NotPreparing EXCEPT !.pc = "run", !.cookie = cookie, !.shown = TRUE].cookie = cookie
  BY DEF NotPreparing
<1>2. preparing \in Preparing /\ [preparing EXCEPT !.shown = FALSE].cookie = preparing.cookie
  BY DEF AttemptInv, PlansTyped, Preparing
<1>3. CASE CheckRun \/ CheckChange \/ CheckStrategies \/ ReadPolicy \/ DryRun
  BY <1>2, <1>3 DEF CheckRun, CheckChange, CheckStrategies, Reads, ReadPolicy, DryRun, Preparing
<1>4. CASE CreateAttempt \/ PrepareFails \/ ClickPrepare \/ Restart \/ Reload
  BY <1>1, <1>2, <1>4 DEF CreateAttempt, PrepareFails, ClickPrepare, Restart, Reload
<1>5. ASSUME NEW h \in Hashes, RegisterStep(h) \/ RegisterFails(h) \/ Mine(h)
      PROVE  UNCHANGED preparing
  BY <1>5 DEF RegisterStep, GetAttempt, GetReceipt, ReadRisk, WriteAttempt, RegisterFails, Mine
<1>6. CASE \/ PostRegister \/ GiveUp \/ Refetch \/ Drift \/ ProofMoves \/ ChangeDies
           \/ SessionEvent \/ UNCHANGED vars
  BY <1>6 DEF PostRegister, GiveUp, Refetch, Drift, ProofMoves, ChangeDies,
     SessionEvent, vars
<1>7. ASSUME NEW c \in Calls, Sign(c) PROVE UNCHANGED preparing
  BY <1>7 DEF Sign
<1>8. ASSUME NEW id \in Ids, Expire(id) PROVE UNCHANGED preparing
  BY <1>8 DEF Expire
<1>9. ASSUME NEW p \in Puts, PolicyRequest(p) PROVE UNCHANGED preparing
  BY <1>9 DEF PolicyRequest, others
<1> QED
  BY <1>3, <1>4, <1>5, <1>6, <1>7, <1>8, <1>9 DEF Next

LEMMA StepKeepsEarned ==
    ASSUME SessionInv, PoliciesTyped, AttemptInv, EarnedFirst, [Next]_vars
    PROVE  EarnedFirst'
<1>1. \A w \in Wallets : earned'[w] = earned[w] \/ earned'[w] = clock
  BY StepKeepsSessions
<1>2. clock # Never /\ Owner \in Wallets /\ Owner # Nobody
  BY SessionNumbers, TypedSessions DEF SessionInv
<1>3. EarnedToken(preparing.cookie)'
  <2>1. PICK token \in {preparing.cookie, NoCookie, cookie} : preparing'.cookie = token
    BY PreparingCookie
  <2>2. token \in Cookie /\ EarnedToken(token)
    BY NothingsTyped DEF AttemptInv, PlansTyped, Preparing, SessionInv, SessionsTypeOK,
       EarnedFirst, EarnedToken, NoCookie
  <2>3. token.wallet # Nobody => earned'[token.wallet] # Never
                                 /\ token.exp <= earned'[token.wallet] + SessionTtl
    BY <1>1, <2>2, TokenKept DEF EarnedToken
  <2> QED
    BY <2>1, <2>3 DEF EarnedToken
<1>4. ASSUME Started' PROVE earned[Owner] # Never
  <2>1. CASE Started
    BY <2>1 DEF EarnedFirst
  <2>2. CASE ~Started
    BY <1>2, <1>4, <2>2, StartAsks
       DEF SessionOf, Accepted, EarnedFirst, EarnedToken, SessionInv
  <2> QED
    BY <2>1, <2>2
<1> QED
  BY <1>1, <1>2, <1>3, <1>4 DEF EarnedFirst

-----------------------------------------------------------------------------
(* The page waits for its registrations.                                   *)

LEMMA IdleSteps ==
    NoRegister.pc = "idle" /\ NotPreparing.pc = "idle" /\ NoPage.pc = "ready"
  BY DEF NoRegister, NotPreparing, NoPage

(* A request that ends takes the page with it.                             *)
LEMMA RefusedPage ==
    ASSUME AttemptInv, PageInv, NEW h \in Hashes, register[h].pc # "idle",
           register' = [register EXCEPT ![h] = NoRegister], Answered(h),
           UNCHANGED gaveUp
    PROVE  PageInv'
<1> SUFFICES ASSUME ~gaveUp
             PROVE  \A g \in Hashes : register'[g].pc = "idle"
  BY DEF PageInv, Upheld
<1>1. page.pc = "registering" /\ page.tx = h
  BY DEF PageInv
<1>3. \A g \in Hashes : g # h => register[g].pc = "idle"
  BY <1>1 DEF PageInv
<1>4. register'[h] = NoRegister /\ \A g \in Hashes : g # h => register'[g] = register[g]
  BY DEF AttemptInv, RequestsSound
<1> QED
  BY <1>3, <1>4, IdleSteps

(* A request goes on, and the document it holds lacks nothing.             *)
LEMMA RequestGoesOn ==
    ASSUME AttemptInv, PageInv, NEW h \in Hashes, NEW next \in Register, register[h].pc # "idle",
           register' = [register EXCEPT ![h] = next], next.id = register[h].id,
           ~gaveUp => /\ attempts[next.id].status \notin Ended
                      /\ \A c \in Calls : attempts[next.id].hashes[c] # 0 =>
                           next.doc.hashes[c] = attempts[next.id].hashes[c],
           UNCHANGED <<attempts, page, gaveUp>>
    PROVE  PageInv'
<1>1. register'[h] = next /\ \A g \in Hashes : g # h => register'[g] = register[g]
  BY DEF AttemptInv, RequestsSound
<1> SUFFICES ASSUME ~gaveUp
             PROVE  /\ \A g \in Hashes : register'[g].pc # "idle" => page.pc = "registering" /\ page.tx = g
                    /\ \A g \in Hashes : Upheld(g)'
  BY DEF PageInv
<1>2. \A g \in Hashes : register'[g].pc # "idle" => page.pc = "registering" /\ page.tx = g
  BY <1>1 DEF PageInv
<1>3. \A g \in Hashes : Upheld(g)'
  BY <1>1 DEF PageInv, Upheld
<1> QED
  BY <1>2, <1>3 DEF PageInv

LEMMA RegisterStepPage ==
    ASSUME AttemptInv, PageInv, NEW h \in Hashes, RegisterStep(h) \/ RegisterFails(h)
    PROVE  PageInv'
<1> DEFINE r == register[h]
           stored == attempts[r.id]
<1>1. register[h].pc # "idle"
  BY DEF RegisterStep, GetAttempt, GetReceipt, ReadRisk, WriteAttempt, RegisterFails
<1>2. /\ r \in Register /\ h \in DOMAIN txs /\ r.id = txs[h].id /\ r.call = txs[h].call
      /\ r.call \in Calls /\ stored \in Attempt /\ Held(txs, r)
  BY <1>1, RequestOf
<1>3. CASE GetAttempt(h)
  <2>1. CASE MaySee(r.id, r.cookie) /\ MayRegister(stored, r.call)
    <3> DEFINE next == [r EXCEPT !.pc = "receipt", !.doc = stored, !.cookie = NoCookie]
    <3>1. register' = [register EXCEPT ![h] = next] /\ UNCHANGED <<attempts, page, preparing, gaveUp>>
      BY <1>3, <2>1 DEF GetAttempt
    <3>2. next \in Register /\ next.id = r.id /\ next.doc = stored
      BY <1>2, NothingsTyped DEF Register, RegisterPcs
    <3> HIDE DEF next
    <3> QED
      BY <1>1, <2>1, <3>1, <3>2, RequestGoesOn DEF MayRegister
  <2>2. CASE Refuse(h)
    BY <1>1, <1>3, <2>2, RefusedPage DEF GetAttempt, Refuse
  <2> QED
    BY <1>3, <2>1, <2>2 DEF GetAttempt
<1>4. CASE GetReceipt(h)
  <2> DEFINE doc == WithReceipt(r.doc, r.call, h)
             pc == IF doc.status # "FAILED" /\ Confirmed(doc) = NCalls THEN "risk" ELSE "write"
             next == [r EXCEPT !.pc = pc, !.doc = doc]
  <2>1. /\ r.pc = "receipt" /\ Mined(h)
        /\ register' = [register EXCEPT ![h] = next]
        /\ UNCHANGED <<attempts, page, preparing, gaveUp>>
    BY <1>4 DEF GetReceipt, world
  <2>2. /\ Sound(txs, r.doc, r.id) /\ r.doc.status \notin Ended
        /\ Receipts(txs, r.doc, r.id, r.call - 1)
    BY <1>2, <2>1 DEF Held
  <2>3. /\ doc \in Attempt /\ r.doc.hashes[r.call] = 0
        /\ \A c \in Calls \ {r.call} : doc.hashes[c] = r.doc.hashes[c]
    BY <1>2, <2>1, <2>2, WithReceiptSound DEF AttemptInv
  <2> HIDE DEF doc
  <2>4. next \in Register /\ next.id = r.id /\ next.doc = doc
    BY <1>2, <2>3 DEF Register, RegisterPcs
  <2> HIDE DEF next
  <2>5. ~gaveUp => /\ stored.status \notin Ended
                   /\ \A c \in Calls : stored.hashes[c] # 0 => r.doc.hashes[c] = stored.hashes[c]
    BY <2>1 DEF PageInv, Upheld
  <2>6. ~gaveUp => \A c \in Calls : stored.hashes[c] # 0 => doc.hashes[c] = stored.hashes[c]
    BY <2>3, <2>5
  <2> QED
    BY <1>1, <2>1, <2>4, <2>5, <2>6, RequestGoesOn
<1>5. CASE ReadRisk(h)
  <2>1. PICK verdict \in {Classify(r.doc.before, risk, r.doc.buffer), "MISMATCH"} :
          register' = [register EXCEPT ![h].pc = "write", ![h].doc.status = verdict,
                                       ![h].doc.after = risk]
    BY <1>5 DEF ReadRisk
  <2>2. r.pc = "risk" /\ UNCHANGED <<attempts, page, preparing, gaveUp>>
    BY <1>5 DEF ReadRisk, world
  <2> DEFINE judged == [r.doc EXCEPT !.status = verdict, !.after = risk]
             next == [r EXCEPT !.pc = "write", !.doc = judged]
  <2>3. register' = [register EXCEPT ![h] = next]
    BY <2>1
  <2>4. /\ r.doc \in Attempt /\ Receipted(txs, r.doc, r.id)
        /\ r.doc.status = "SUBMITTED" /\ AllConfirmed(r.doc)
    BY <1>2, <2>2 DEF Held
  <2>5. judged \in Attempt
    BY <2>4, JudgedSound DEF Sound, AttemptInv, PlansTyped
  <2>6. judged.hashes = r.doc.hashes
    BY <2>4 DEF Attempt
  <2> HIDE DEF judged
  <2>7. next \in Register /\ next.id = r.id /\ next.doc = judged
    BY <1>2, <2>5 DEF Register, RegisterPcs
  <2> HIDE DEF next
  <2>8. ~gaveUp => /\ stored.status \notin Ended
                   /\ \A c \in Calls : stored.hashes[c] # 0 => r.doc.hashes[c] = stored.hashes[c]
    BY <2>2 DEF PageInv, Upheld
  <2> QED
    BY <1>1, <2>2, <2>3, <2>6, <2>7, <2>8, RequestGoesOn
<1>6. CASE WriteAttempt(h)
  BY <1>1, <1>6, RefusedPage DEF WriteAttempt
<1>7. CASE RegisterFails(h)
  BY <1>1, <1>7, RefusedPage DEF RegisterFails, Refuse
<1> QED
  BY <1>3, <1>4, <1>5, <1>6, <1>7 DEF RegisterStep

LEMMA StepKeepsPage ==
    ASSUME AttemptInv, PageInv, [Next]_vars
    PROVE  PageInv'
<1>1. ASSUME NEW h \in Hashes, RegisterStep(h) \/ RegisterFails(h) PROVE PageInv'
  BY <1>1, RegisterStepPage
<1>2. ASSUME UNCHANGED <<attempts, register, page, gaveUp>>
      PROVE  PageInv'
  BY <1>2 DEF PageInv, Upheld
<1>3. CASE \/ CheckRun \/ CheckChange \/ CheckStrategies \/ ReadPolicy \/ DryRun
           \/ PrepareFails \/ ClickPrepare
  BY <1>2, <1>3 DEF CheckRun, CheckChange, CheckStrategies, ReadPolicy, DryRun, Reads,
     PrepareFails, ClickPrepare
<1>4. CASE Drift \/ ProofMoves \/ ChangeDies \/ SessionEvent \/ UNCHANGED vars
  BY <1>2, <1>4 DEF Drift, ProofMoves, ChangeDies, SessionEvent, vars
<1>5. ASSUME NEW h \in Hashes, Mine(h) PROVE PageInv'
  BY <1>2, <1>5 DEF Mine
<1>6. ASSUME NEW p \in Puts, PolicyRequest(p) PROVE PageInv'
  BY <1>2, <1>6 DEF PolicyRequest, others
<1>7. ASSUME \A h \in Hashes : register'[h].pc = "idle"
      PROVE  PageInv'
  BY <1>7 DEF PageInv, Upheld
<1>8. ASSUME ~gaveUp, page.pc # "registering" PROVE \A h \in Hashes : register[h].pc = "idle"
  BY <1>8 DEF PageInv
<1>9. CASE gaveUp
  <2>1. gaveUp'
    <3>1. ASSUME NEW h \in Hashes, RegisterStep(h) \/ RegisterFails(h) \/ Mine(h) PROVE gaveUp'
      BY <1>9, <3>1 DEF RegisterStep, GetAttempt, GetReceipt, ReadRisk, WriteAttempt,
         RegisterFails, Mine
    <3>2. ASSUME NEW c \in Calls, Sign(c) PROVE gaveUp'
      BY <1>9, <3>2 DEF Sign
    <3>3. ASSUME NEW id \in Ids, Expire(id) PROVE gaveUp'
      BY <1>9, <3>3 DEF Expire
    <3>4. ASSUME NEW p \in Puts, PolicyRequest(p) PROVE gaveUp'
      BY <1>9, <3>4 DEF PolicyRequest, others
    <3>5. CASE \/ CheckRun \/ CheckChange \/ CheckStrategies \/ ReadPolicy \/ DryRun
               \/ CreateAttempt \/ PrepareFails \/ ClickPrepare \/ PostRegister \/ GiveUp
               \/ Refetch \/ Drift \/ ProofMoves \/ ChangeDies \/ Restart \/ Reload
               \/ SessionEvent \/ UNCHANGED vars
      BY <1>9, <3>5 DEF CheckRun, CheckChange, CheckStrategies, Reads, ReadPolicy, DryRun,
         CreateAttempt, PrepareFails, ClickPrepare, PostRegister, GiveUp, Refetch, Drift,
         ProofMoves, ChangeDies, Restart, Reload, SessionEvent, vars
    <3> QED
      BY <3>1, <3>2, <3>3, <3>4, <3>5 DEF Next
  <2> QED
    BY <2>1 DEF PageInv
<1>10. CASE CreateAttempt
  <2>1. PICK id \in Ids : /\ attempts[id] = NoAttempt
                          /\ attempts' = [attempts EXCEPT ![id] = attempts'[id]]
                          /\ UNCHANGED <<register, gaveUp>>
                          /\ page' = IF preparing.shown
                                       THEN [page EXCEPT !.id = id, !.seen = attempts'[id]] ELSE page
    BY <1>10 DEF CreateAttempt
  <2>2. page'.pc = page.pc /\ page'.tx = page.tx
    BY <2>1 DEF AttemptInv, Shows, Page
  <2>3. ASSUME NEW h \in Hashes, register[h].pc # "idle" PROVE attempts'[register[h].id] = attempts[register[h].id]
    <3>1. register[h].id \in Ids /\ attempts[register[h].id] # NoAttempt
      BY <2>3, RequestOf, AttemptFields
    <3>2. register[h].id # id
      BY <2>1, <3>1
    <3> QED
      BY <2>1, <3>1, <3>2 DEF AttemptInv, AttemptsSound
  <2> QED
    BY <2>1, <2>2, <2>3 DEF PageInv, Upheld
<1>12. CASE GiveUp
  BY <1>12 DEF GiveUp, PageInv
<1>13. CASE Restart
  <2>1. \A h \in Hashes : register'[h].pc = "idle"
    BY <1>13, IdleSteps DEF Restart
  <2> QED
    BY <1>7, <2>1
<1>14. CASE ~gaveUp /\ Reload
  <2>1. CASE page.pc \in {"signed", "registering"}
    BY <1>14, <2>1 DEF Reload, PageInv
  <2>2. CASE page.pc # "registering"
    BY <1>7, <1>8, <1>14, <2>2, IdleSteps DEF Reload
  <2> QED
    BY <2>1, <2>2
<1>15. page \in Page
  BY DEF AttemptInv, Shows
<1>16. ASSUME ~gaveUp, NEW c \in Calls, Sign(c) PROVE PageInv'
  <2>1. page.pc = "ready" /\ UNCHANGED register
    BY <1>16 DEF Sign
  <2> QED
    BY <1>7, <1>8, <1>16, <2>1
<1>17. CASE ~gaveUp /\ PostRegister
  <2> DEFINE next == [pc |-> "get", id |-> txs[page.tx].id, call |-> txs[page.tx].call,
                      doc |-> NoAttempt, cookie |-> cookie]
  <2>1. /\ page.pc = "signed" /\ register' = [register EXCEPT ![page.tx] = next]
        /\ page' = [page EXCEPT !.pc = "registering"] /\ UNCHANGED gaveUp
    BY <1>17 DEF PostRegister
  <2>2. page'.pc = "registering" /\ page'.tx = page.tx
    BY <1>15, <2>1 DEF Page
  <2>3. \A h \in Hashes : register[h].pc = "idle"
    BY <1>8, <1>17, <2>1 DEF PageInv
  <2>4. \A h \in Hashes : IF h = page.tx THEN register'[h].pc = "get" ELSE register'[h] = register[h]
    BY <2>1 DEF AttemptInv, RequestsSound
  <2> QED
    BY <2>1, <2>2, <2>3, <2>4 DEF PageInv, Upheld
<1>18. CASE Refetch
  <2>1. page'.pc = page.pc /\ page'.tx = page.tx /\ UNCHANGED <<attempts, register, gaveUp>>
    BY <1>15, <1>18 DEF Refetch, Page
  <2> QED
    BY <2>1 DEF PageInv, Upheld
<1>19. ASSUME NEW id \in Ids, Expire(id) PROVE PageInv'
  <2>1. attempts[id] \in Attempt /\ attempts' = [attempts EXCEPT ![id].expired = TRUE]
        /\ UNCHANGED <<register, page, gaveUp>>
    BY <1>19 DEF Expire, AttemptInv, AttemptsSound
  <2>2. \A other \in Ids : /\ attempts'[other].status = attempts[other].status
                           /\ attempts'[other].hashes = attempts[other].hashes
    BY <2>1 DEF AttemptInv, AttemptsSound, Attempt
  <2>3. \A h \in Hashes : register[h].pc # "idle" => register[h].id \in Ids
    BY RequestOf
  <2> QED
    BY <2>1, <2>2, <2>3 DEF PageInv, Upheld
<1> QED
  BY <1>1, <1>3, <1>4, <1>5, <1>6, <1>9, <1>10, <1>12, <1>13, <1>14, <1>16, <1>17, <1>18,
     <1>19 DEF Next

-----------------------------------------------------------------------------
(* The theorems.                                                           *)

ApiInv == PolicyInv /\ SessionInv /\ AttemptInv /\ EarnedFirst /\ PageInv

LEMMA InitApi == Init => ApiInv
<1> SUFFICES ASSUME Init PROVE ApiInv
  OBVIOUS
<1>1. PolicyInv /\ AttemptInv
  BY InitPolicies, InitAttempts
<1>2. SessionInv
  BY InitSessions DEF Init
<1>3. /\ policies = [v \in Versions |-> Missing] /\ put = [p \in Puts |-> IdlePut]
      /\ attempts = [id \in Ids |-> NoAttempt] /\ preparing = NotPreparing
      /\ register = [h \in Hashes |-> NoRegister]
      /\ monitored = FALSE
  BY DEF Init, PoliciesInit, SessionsInit
<1>4. EarnedFirst
  BY <1>3 DEF EarnedFirst, EarnedToken, Started, NotPreparing, NoCookie, IdlePut
<1>5. PageInv
  BY <1>3, IdleSteps DEF PageInv, Upheld
<1> QED
  BY <1>1, <1>2, <1>4, <1>5 DEF ApiInv

LEMMA StepKeepsApi == ApiInv /\ [Next]_vars => ApiInv'
<1> SUFFICES ASSUME ApiInv, [Next]_vars PROVE ApiInv'
  OBVIOUS
<1>1. PolicyInv /\ SessionInv /\ AttemptInv /\ EarnedFirst /\ PageInv
      /\ PoliciesTyped /\ SessionsTypeOK
  BY DEF ApiInv, PolicyInv, SessionInv
<1> QED
  BY <1>1, StepKeepsPolicies, StepKeepsSessions, StepKeepsAttempts, StepKeepsEarned, StepKeepsPage
     DEF ApiInv

(* In every reachable state each cookie was earned, each document is       *)
(* explained by receipts, and the page waits for what is under way.        *)
THEOREM ApiInductive == Spec => []ApiInv
<1> QED
  BY InitApi, StepKeepsApi, PTL DEF Spec

(* The state of API, page and chain has its type, and a request holds the  *)
(* document of the attempt it was sent for (registerTx).                   *)
THEOREM ApiTypeCorrect == Spec => []ApiTypeOK
<1>1. ApiInv => ApiTypeOK
  <2> SUFFICES ASSUME ApiInv PROVE ApiTypeOK
    OBVIOUS
  <2>1. PoliciesTyped /\ SessionsTypeOK /\ AttemptInv
    BY DEF ApiInv, PolicyInv, SessionInv
  <2>2. \A id \in Ids : attempts[id] # NoAttempt => attempts[id] \in Attempt
    BY <2>1 DEF AttemptInv, AttemptsSound
  <2>3. ASSUME NEW h \in Hashes
        PROVE  /\ register[h].pc \in RegisterPcs
               /\ register[h].pc # "idle" => /\ h \in DOMAIN txs
                                             /\ register[h].id = txs[h].id
                                             /\ attempts[register[h].id] # NoAttempt
               /\ register[h].pc \in {"receipt", "risk", "write"} => register[h].doc \in Attempt
    <3>1. register[h] \in Register /\ Held(txs, register[h])
      BY <2>1 DEF AttemptInv, RequestsSound, Requests
    <3>2. register[h].pc \in RegisterPcs
      BY <3>1 DEF Register
    <3>3. register[h].pc \in {"receipt", "risk", "write"} => register[h].doc \in Attempt
      BY <3>1 DEF Held, Sound
    <3> QED
      BY <2>1, <3>2, <3>3, RequestOf, AttemptFields
  <2>4. /\ page.pc \in PagePcs /\ (page.pc \in {"signed", "registering"} => page.tx \in DOMAIN txs)
        /\ page.id # 0 => attempts[page.id] # NoAttempt
    BY <2>1 DEF AttemptInv, Shows, Page
  <2> QED
    BY <2>1, <2>2, <2>3, <2>4 DEF ApiTypeOK, PoliciesTyped, AttemptInv, PlansTyped, TxsSound
<1> QED
  BY <1>1, ApiInductive, PTL

(* Nobody but the owner does anything for the wallet, whatever account the *)
(* browser switches to, whatever is sent twice, and whichever requests for *)
(* a session overlap (auth.service.ts).                                    *)
THEOREM OwnersAct == Spec => []SessionsAreEarned
<1>1. ApiInv => SessionsAreEarned
  <2> SUFFICES ASSUME ApiInv PROVE SessionsAreEarned
    OBVIOUS
  <2>1. SessionInv /\ EarnedFirst
    BY DEF ApiInv
  <2>2. CookieIsEarned
    <3> SUFFICES ASSUME Accepted(cookie)
                 PROVE  /\ earned[cookie.wallet] # Never
                        /\ clock <= earned[cookie.wallet] + SessionTtl
      BY DEF CookieIsEarned
    <3>1. /\ cookie.wallet \in Wallets /\ cookie.exp \in Int /\ clock \in Nat /\ SessionTtl \in Nat
          /\ clock <= cookie.exp /\ earned[cookie.wallet] \in Int
      BY <2>1, TypedSessions, SessionNumbers DEF Accepted, SessionInv, SessionsTypeOK, Cookie
    <3>2. earned[cookie.wallet] # Never /\ cookie.exp <= earned[cookie.wallet] + SessionTtl
      BY <2>1 DEF Accepted, SessionInv, EarnedToken
    <3> QED
      BY <3>1, <3>2
  <2>3. NonceGivesOneSession
    BY <2>1 DEF SessionInv, OneClaim, NonceGivesOneSession
  <2>4. \/ monitored
        \/ \E v \in Versions : policies[v] # Missing
        \/ \E id \in Ids : attempts[id] # NoAttempt
        => earned[Owner] # Never
    BY <2>1 DEF EarnedFirst, Started
  <2> QED
    BY <2>2, <2>3, <2>4 DEF SessionsAreEarned
<1> QED
  BY <1>1, ApiInductive, PTL

(* What is stored of an attempt, and its status, is what the receipts of   *)
(* its first calls say, however registrations overwrite each other         *)
(* (registerTx).                                                           *)
THEOREM StoredIsReceipted == Spec => []StatusExplained
<1>1. ApiInv => StatusExplained
  <2> SUFFICES ASSUME ApiInv, NEW id \in Ids, attempts[id] # NoAttempt,
                      NEW doc, doc = attempts[id], NEW n, n = Registered(doc)
               PROVE  /\ \A c \in Calls :
                           IF c > n THEN doc.hashes[c] = 0 /\ doc.results[c] = "none"
                           ELSE /\ doc.hashes[c] \in DOMAIN txs
                                /\ SentFor(doc.hashes[c], id, c)
                                /\ txs[doc.hashes[c]].state = doc.results[c]
                      /\ doc.status = "FAILED" <=> \E c \in Calls : doc.results[c] = "reverted"
                      /\ doc.status \in {"VERIFIED", "MISMATCH"} <=> Confirmed(doc) = NCalls
                      /\ doc.status = "PREPARED" <=> n = 0
    BY DEF StatusExplained
  <2>1. Sound(txs, doc, id) /\ txs \in Seq(Tx)
    BY DEF ApiInv, AttemptInv, AttemptsSound, TxsSound
  <2>2. PICK m \in 0..NCalls : Receipts(txs, doc, id, m) /\ (m = 0 <=> doc.status = "PREPARED")
    BY <2>1 DEF Sound, Receipted
  <2>3. m = n
    BY <2>1, <2>2, RegisteredCount DEF Sound
  <2>4. Confirmed(doc) = NCalls <=> AllConfirmed(doc)
    BY ConfirmedAll
  <2>5. Judged(doc)
    BY <2>1 DEF Sound
  <2>6. Receipts(txs, doc, id, n)
    BY <2>2, <2>3
  <2> QED
    BY <2>2, <2>3, <2>4, <2>5, <2>6 DEF Judged, Receipts, ReceiptOf, SentFor
<1> QED
  BY <1>1, ApiInductive, PTL

(* For each call of an attempt that is VERIFIED, a transaction that was    *)
(* sent for it succeeded on chain, and they left the wallet changed and    *)
(* without shortfall (classifyExecutionState).                             *)
THEOREM VerifiedWasDone == Spec => []VerifiedMeansDone
<1>1. ApiInv => VerifiedMeansDone
  <2> SUFFICES ASSUME ApiInv, NEW id \in Ids, attempts[id] # NoAttempt,
                      NEW doc, doc = attempts[id], doc.status = "VERIFIED"
               PROVE  /\ \A c \in Calls : \E h \in DOMAIN txs :
                           SentFor(h, id, c) /\ txs[h].state = "success"
                      /\ doc.after >= 0 /\ doc.after # doc.before
    BY DEF VerifiedMeansDone
  <2>1. Sound(txs, doc, id)
    BY DEF ApiInv, AttemptInv, AttemptsSound
  <2>2. AllConfirmed(doc) /\ doc.after >= 0 /\ doc.after # doc.before
    BY <2>1 DEF Sound, Judged
  <2>3. PICK n \in 0..NCalls : Receipts(txs, doc, id, n)
    BY <2>1 DEF Sound, Receipted
  <2>4. \A c \in Calls : doc.results[c] = "success"
    BY <2>2 DEF AllConfirmed
  <2> QED
    BY <2>2, <2>3, <2>4 DEF Receipts, ReceiptOf, SentFor
<1> QED
  BY <1>1, ApiInductive, PTL

(* While the page gave no request up, a stored hash is never lost and an   *)
(* ended attempt stays as it ended, though registerTx writes back what it  *)
(* read before its waits.                                                  *)
THEOREM NothingRegisteredIsLost == Spec => RegistrationsLast
<1>1. ApiInv /\ [Next]_vars =>
        [~gaveUp => \A id \in Ids : attempts[id] # NoAttempt =>
          /\ \A c \in Calls : attempts[id].hashes[c] # 0 =>
                attempts'[id].hashes[c] = attempts[id].hashes[c]
          /\ attempts[id].status \in Ended => attempts'[id].status = attempts[id].status]_attempts
  <2> SUFFICES ASSUME ApiInv, [Next]_vars, attempts' # attempts, ~gaveUp,
                      NEW id \in Ids, attempts[id] # NoAttempt
               PROVE  /\ \A c \in Calls : attempts[id].hashes[c] # 0 =>
                            attempts'[id].hashes[c] = attempts[id].hashes[c]
                      /\ attempts[id].status \in Ended => attempts'[id].status = attempts[id].status
    OBVIOUS
  <2>1. /\ AttemptInv /\ PageInv /\ attempts \in [Ids -> Attempt \cup {NoAttempt}]
        /\ attempts[id] \in Attempt
    BY DEF ApiInv, AttemptInv, AttemptsSound
  <2>2. CASE CreateAttempt
    <3>1. PICK other \in Ids : /\ attempts[other] = NoAttempt
                               /\ attempts' = [attempts EXCEPT ![other] = attempts'[other]]
      BY <2>1, <2>2 DEF CreateAttempt
    <3>2. other # id
      BY <3>1
    <3> QED
      BY <2>1, <3>1, <3>2
  <2>3. ASSUME NEW other \in Ids, Expire(other) PROVE attempts'[id].hashes = attempts[id].hashes
                                                      /\ attempts'[id].status = attempts[id].status
    BY <2>1, <2>3 DEF Expire, Attempt
  <2>4. ASSUME NEW h \in Hashes, WriteAttempt(h)
        PROVE  /\ \A c \in Calls : attempts[id].hashes[c] # 0 =>
                            attempts'[id].hashes[c] = attempts[id].hashes[c]
               /\ attempts[id].status \in Ended => attempts'[id].status = attempts[id].status
    <3> DEFINE r == register[h]
               next == [r.doc EXCEPT !.expired = attempts[r.id].expired]
    <3>1. r.pc = "write" /\ attempts' = [attempts EXCEPT ![r.id] = next]
      BY <2>4 DEF WriteAttempt
    <3>2. r.id \in Ids /\ r.doc \in Attempt
      BY <2>1, <3>1, RequestOf DEF Held, Sound
    <3>3. next.hashes = r.doc.hashes
      BY <3>2 DEF Attempt
    <3> HIDE DEF next
    <3>4. CASE id = r.id
      <4>1. /\ attempts[id].status \notin Ended
            /\ \A c \in Calls : attempts[id].hashes[c] # 0 => r.doc.hashes[c] = attempts[id].hashes[c]
        BY <2>1, <3>1, <3>4 DEF PageInv, Upheld
      <4>2. attempts'[id] = next
        BY <2>1, <3>1, <3>2, <3>4
      <4> QED
        BY <3>3, <4>1, <4>2
    <3>5. CASE id # r.id
      BY <2>1, <3>1, <3>5
    <3> QED
      BY <3>4, <3>5
  <2>5. \/ CreateAttempt
        \/ \E other \in Ids : Expire(other)
        \/ \E h \in Hashes : WriteAttempt(h)
    <3>1. ASSUME NEW h \in Hashes,
                 GetAttempt(h) \/ GetReceipt(h) \/ ReadRisk(h) \/ RegisterFails(h) \/ Mine(h)
          PROVE  FALSE
      BY <3>1 DEF GetAttempt, GetReceipt, ReadRisk, RegisterFails, Mine
    <3>2. ASSUME NEW c \in Calls, Sign(c) PROVE FALSE
      BY <3>2 DEF Sign
    <3>3. ASSUME NEW p \in Puts, PolicyRequest(p) PROVE FALSE
      BY <3>3 DEF PolicyRequest, others
    <3>4. ASSUME \/ CheckRun \/ CheckChange \/ CheckStrategies \/ ReadPolicy \/ DryRun
                 \/ PrepareFails \/ ClickPrepare \/ PostRegister \/ GiveUp \/ Refetch
                 \/ Drift \/ ProofMoves \/ ChangeDies \/ Restart \/ Reload
                 \/ SessionEvent \/ UNCHANGED vars
          PROVE  FALSE
      BY <3>4 DEF CheckRun, CheckChange, CheckStrategies, Reads, ReadPolicy, DryRun,
         PrepareFails, ClickPrepare, PostRegister, GiveUp, Refetch, Drift, ProofMoves,
         ChangeDies, Restart, Reload, SessionEvent, vars
    <3> QED
      BY <3>1, <3>2, <3>3, <3>4 DEF Next, RegisterStep
  <2> QED
    BY <2>2, <2>3, <2>4, <2>5
<1> QED
  BY <1>1, ApiInductive, PTL DEF Spec, RegistrationsLast
=============================================================================
