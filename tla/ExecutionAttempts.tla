------------------------- MODULE ExecutionAttempts -------------------------
(***************************************************************************)
(* From a proof to a rescue on mainnet: the API prepares a plan and files  *)
(* an attempt, the page has the user sign its calls one after the other    *)
(* and registers the transactions, the API waits for each receipt and      *)
(* finally judges the attempt by the wallet's risk (apps/api               *)
(* execution.service.ts, verify-state.ts; apps/web execution-review.tsx).  *)
(*                                                                         *)
(* Each request is for the wallet of the session it carries                *)
(* (WalletSessions).  There is one simulation, of the owner's wallet, and  *)
(* one kind of strategy.  Risk is liquidity minus shortfall.  The last     *)
(* call of a plan is the one that improves it, the others are approvals.   *)
(* The transactions of the wallet are mined in the order of their nonces;  *)
(* the owner may change one in the wallet before it is sent.               *)
(***************************************************************************)
EXTENDS RiskPolicies, WalletSessions, Sequences

CONSTANTS
    NCalls,         \* calls of a plan
    MaxAttempts,    \* bound of the attempts
    MaxTxs,         \* bound of the transactions
    MaxRisk,        \* bound of the risk, either way
    Scenarios       \* how often each event may happen, and how the API is configured

AttemptEvents == {"prepare", "sign", "edit", "put", "putFails", "proof", "change", "drift", "giveUp", "timeout",
                  "expiry", "refusal", "restart", "prove", "proveFails", "resend", "logout",
                  "switch", "reload", "toggle", "tick"}

Scenario == [budget : [AttemptEvents -> Nat], database : BOOLEAN, configured : BOOLEAN,
             signedIn : BOOLEAN]

ASSUME AttemptAssumption ==
    /\ NCalls \in Nat \ {0}
    /\ MaxAttempts \in Nat \ {0}
    /\ MaxTxs \in Nat \ {0}
    /\ MaxRisk \in Nat \ {0}
    /\ Scenarios \subseteq Scenario

VARIABLES
    proof,      \* whether the simulation is COMPLETED, has a receipt and is young enough,
                \*   and whether the strategy was VERIFIED when it was last compared
    dead,       \* whether the change is CANCELLED or EXPIRED
    risk,       \* of the wallet, on chain
    txs,        \* the wallet's transactions, by nonce: the call each was sent for, and
                \*   whether it is the same as that call
    attempts,   \* the executionAttempts collection
    preparing,  \* the POST prepare under way
    register,   \* the POST register-tx of each transaction
    page,       \* the execution page
    gaveUp,     \* whether the page ever gave up a transaction it had signed
    left

chain == <<risk, txs>>
world == <<proof, dead, chain, sessionVars>>
vars == <<policies, put, world, attempts, preparing, register, page, gaveUp, left>>

Calls == 1..NCalls
Ids == 1..MaxAttempts
Hashes == 1..MaxTxs
Risks == (-MaxRisk)..MaxRisk
Results == {"none", "success", "reverted"}

Ended == {"VERIFIED", "MISMATCH", "FAILED"}
AttemptStatuses == {"PREPARED", "SUBMITTED"} \cup Ended

\* hashes and results are the arrays txHashes and callReceipts.
Attempt == [status : AttemptStatuses,
            hashes : [Calls -> {0} \cup Hashes],
            results : [Calls -> Results],
            before : Risks,
            after : Risks,
            buffer : BOOLEAN,
            expired : BOOLEAN]

NoAttempt == [status |-> "none"]

\* The requests hold the cookie they carry until it is judged.
PreparePcs == {"idle", "run", "change", "strategies", "policy", "live", "create"}
Preparing == [pc : PreparePcs, policy : Policy, before : Risks, cookie : Cookie,
              shown : BOOLEAN]     \* whether a page waits for the answer
NotPreparing == [pc |-> "idle", policy |-> Default, before |-> 0, cookie |-> NoCookie,
                 shown |-> FALSE]

\* Of a request: the transaction's call, and the document as it was read.
RegisterPcs == {"idle", "get", "receipt", "risk", "write"}
NoRegister == [pc |-> "idle", id |-> 0, call |-> 0, doc |-> NoAttempt, cookie |-> NoCookie]

\* The page shows a plan, or none (0), and has the user send one call at a time.
PagePcs == {"ready", "signed", "registering"}
NoPage == [pc |-> "ready", id |-> 0, tx |-> 0, seen |-> NoAttempt]

Init ==
    /\ PoliciesInit
    /\ proof = [complete |-> TRUE, verified |-> TRUE]
    /\ dead = FALSE
    /\ risk \in {-1, 0}
    /\ txs = <<>>
    /\ attempts = [id \in Ids |-> NoAttempt]
    /\ preparing = NotPreparing
    /\ register = [h \in Hashes |-> NoRegister]
    /\ page = NoPage
    /\ gaveUp = FALSE
    /\ \E s \in Scenarios :
         /\ left = s.budget
         /\ SessionsInit(s.database, s.configured, s.signedIn)

Spend(kind) ==
    /\ left[kind] > 0
    /\ left' = [left EXCEPT ![kind] = @ - 1]
-----------------------------------------------------------------------------
(* Preparing a plan: one read after the other, then the attempt is filed.  *)

Reads(pc, holds, next) ==
    /\ preparing.pc = pc
    /\ holds
    /\ preparing' = [preparing EXCEPT !.pc = next]
    /\ UNCHANGED <<policies, put, world, attempts, register, page, gaveUp, left>>

\* What an API without a database, or for another wallet, does not do.
MayServe(token) == server.database /\ SessionOf(Owner, token)

\* get: every attempt is the owner's.
MaySee(id, token) == MayServe(token) /\ attempts[id] # NoAttempt

CheckRun ==
    /\ preparing.pc = "run"
    /\ MayServe(preparing.cookie)
    /\ proof.complete
    /\ preparing' = [preparing EXCEPT !.pc = "change", !.cookie = NoCookie]
    /\ UNCHANGED <<policies, put, world, attempts, register, page, gaveUp, left>>

CheckChange == Reads("change", ~dead, "strategies")

(* getStrategies: the last comparison in the log of the run, which may be  *)
(* that of an earlier attempt if the run was requeued since CheckRun, or   *)
(* done again without a comparison.                                        *)
CheckStrategies == Reads("strategies", proof.verified, "policy")

ReadPolicy ==
    /\ preparing.pc = "policy"
    /\ preparing' = [preparing EXCEPT !.pc = "live", !.policy = PolicyInForce]
    /\ UNCHANGED <<policies, put, world, attempts, register, page, gaveUp, left>>

(* The live plan, which the policy has to allow, and its dry run.          *)
DryRun ==
    /\ preparing.pc = "live"
    /\ preparing.policy.allow
    /\ preparing' = [preparing EXCEPT !.pc = "create", !.before = risk]
    /\ UNCHANGED <<policies, put, world, attempts, register, page, gaveUp, left>>

CreateAttempt ==
    /\ preparing.pc = "create"
    /\ \E id \in Ids :
         /\ \A other \in Ids : attempts[other] = NoAttempt => id <= other
         /\ attempts[id] = NoAttempt
         /\ attempts' = [attempts EXCEPT ![id] =
              [status |-> "PREPARED",
               hashes |-> [c \in Calls |-> 0],
               results |-> [c \in Calls |-> "none"],
               before |-> preparing.before,
               after |-> preparing.before,
               buffer |-> preparing.policy.buffer,
               expired |-> FALSE]]
         /\ page' = IF preparing.shown
                      THEN [page EXCEPT !.id = id, !.seen = attempts'[id]] ELSE page
    /\ preparing' = NotPreparing
    /\ UNCHANGED <<policies, put, world, register, gaveUp, left>>

\* One of the checks does not hold.
MustRefuse ==
    \/ preparing.pc = "run" /\ ~(MayServe(preparing.cookie) /\ proof.complete)
    \/ preparing.pc = "change" /\ dead
    \/ preparing.pc = "strategies" /\ ~proof.verified
    \/ preparing.pc = "live" /\ ~preparing.policy.allow

\* Refused, or a call rejects: the page keeps the plan it has.
PrepareFails ==
    /\ preparing.pc # "idle"
    /\ IF MustRefuse THEN UNCHANGED left ELSE Spend("refusal")
    /\ preparing' = NotPreparing
    /\ UNCHANGED <<policies, put, world, attempts, register, page, gaveUp>>
-----------------------------------------------------------------------------
(* registerTx.                                                             *)

Registered(doc) == Cardinality({c \in Calls : doc.hashes[c] # 0})
Confirmed(doc) == Cardinality({c \in Calls : doc.results[c] = "success"})

\* The answer reaches the page, unless it has given the request up.
Answered(h) == page' = IF page.pc = "registering" /\ page.tx = h
                         THEN [page EXCEPT !.pc = "ready", !.tx = 0] ELSE page

Refuse(h) ==
    /\ register' = [register EXCEPT ![h] = NoRegister]
    /\ Answered(h)

\* Mutant of MayRegister: finished attempts are not refused.
MayRegisterAnytime(doc, c) == ~doc.expired /\ doc.hashes[c] = 0 /\ c = Registered(doc) + 1

\* Not expired, not ended, not registered yet, and in order.
MayRegister(doc, c) ==
    /\ ~doc.expired
    /\ doc.status \notin Ended
    /\ doc.hashes[c] = 0
    /\ c = Registered(doc) + 1

GetAttempt(h) ==
    LET r == register[h]
        doc == attempts[r.id] IN
    /\ r.pc = "get"
    /\ IF MaySee(r.id, r.cookie) /\ MayRegister(doc, r.call)
         THEN /\ register' = [register EXCEPT ![h].pc = "receipt", ![h].doc = doc,
                                              ![h].cookie = NoCookie]
              /\ UNCHANGED page
         ELSE Refuse(h)
    /\ UNCHANGED <<policies, put, world, attempts, preparing, gaveUp, left>>

Mined(h) == txs[h].state # "pending"

\* Mutant of WithReceipt: the receipt's status becomes the attempt's.
WithReceiptStatus(doc, c, h) ==
    [doc EXCEPT !.hashes[c] = h, !.results[c] = txs[h].state, !.status = txs[h].state]

\* What the write will set, except for the judgement.
WithReceipt(doc, c, h) ==
    [doc EXCEPT !.hashes[c] = h,
                !.results[c] = txs[h].state,
                !.status = IF txs[h].state = "reverted" THEN "FAILED" ELSE "SUBMITTED"]

\* waitForTransactionReceipt.
GetReceipt(h) ==
    LET r == register[h]
        doc == WithReceipt(r.doc, r.call, h) IN
    /\ r.pc = "receipt"
    /\ Mined(h)
    /\ register' = [register EXCEPT
                      ![h].pc = IF doc.status # "FAILED" /\ Confirmed(doc) = NCalls
                                  THEN "risk" ELSE "write",
                      ![h].doc = doc]
    /\ UNCHANGED <<policies, put, world, attempts, preparing, page, gaveUp, left>>

\* Mutant of Classify: receipts are enough.
ClassifyByReceipts(before, after, buffer) == "VERIFIED"

(* classifyExecutionState, for confirmed calls.  No buffer is handed to    *)
(* it: a policy that asks for one always ends in a MISMATCH.               *)
Classify(before, after, buffer) ==
    CASE after < 0 -> "MISMATCH"
      [] buffer -> "MISMATCH"
      [] after = before -> "MISMATCH"
      [] OTHER -> "VERIFIED"

(* listRisk; an UNKNOWN risk is a mismatch, too.                           *)
ReadRisk(h) ==
    LET doc == register[h].doc IN
    /\ register[h].pc = "risk"
    /\ \E verdict \in {Classify(doc.before, risk, doc.buffer), "MISMATCH"} :
         register' = [register EXCEPT ![h].pc = "write", ![h].doc.status = verdict,
                                      ![h].doc.after = risk]
    /\ UNCHANGED <<policies, put, world, attempts, preparing, page, gaveUp, left>>

\* Mutant of WriteAttempt: it sets the entries of its own call only.
WriteAttemptMerged(h) ==
    LET r == register[h] IN
    /\ r.pc = "write"
    /\ attempts' = [attempts EXCEPT ![r.id] =
                      [@ EXCEPT !.status = r.doc.status, !.after = r.doc.after,
                                !.hashes[r.call] = h,
                                !.results[r.call] = r.doc.results[r.call]]]
    /\ Refuse(h)
    /\ UNCHANGED <<policies, put, world, preparing, gaveUp, left>>

(* updateOne, without a look at what happened since the read.              *)
WriteAttempt(h) ==
    LET r == register[h] IN
    /\ r.pc = "write"
    /\ attempts' = [attempts EXCEPT ![r.id] = [r.doc EXCEPT !.expired = attempts[r.id].expired]]
    /\ register' = [register EXCEPT ![h] = NoRegister]
    /\ Answered(h)
    /\ UNCHANGED <<policies, put, world, preparing, gaveUp, left>>

(* The wait for the receipt gives up, or a call rejects.                   *)
RegisterFails(h) ==
    /\ register[h].pc \in {"get", "receipt", "risk", "write"}
    /\ Spend("timeout")
    /\ Refuse(h)
    /\ UNCHANGED <<policies, put, world, attempts, preparing, gaveUp>>

RegisterStep(h) == GetAttempt(h) \/ GetReceipt(h) \/ ReadRisk(h) \/ WriteAttempt(h)
-----------------------------------------------------------------------------
(* The page and the wallet.                                                *)

(* This button only waits for its own request.  One request at a time: one *)
(* that a reloaded page left behind ends before the next.                  *)
ClickPrepare ==
    /\ preparing.pc = "idle"
    /\ OwnsPage
    /\ \E id \in Ids : attempts[id] = NoAttempt
    /\ Spend("prepare")
    /\ preparing' = [NotPreparing EXCEPT !.pc = "run", !.cookie = cookie, !.shown = TRUE]
    /\ UNCHANGED <<policies, put, world, attempts, register, page, gaveUp>>

(* The button of a call is there while the page does not know of a hash.   *)
(* What is sent is what the owner makes of the call in the wallet.         *)
Sign(c) ==
    /\ page.pc = "ready"
    /\ page.id # 0
    /\ OwnsPage
    /\ Len(txs) < MaxTxs
    /\ page.seen.hashes[c] = 0
    /\ page.seen.status # "FAILED"
    /\ \E same \in BOOLEAN :
         /\ Spend(IF same THEN "sign" ELSE "edit")
         /\ txs' = Append(txs, [id |-> page.id, call |-> c, same |-> same,
                                state |-> "pending"])
    /\ page' = [page EXCEPT !.pc = "signed", !.tx = Len(txs')]
    /\ UNCHANGED <<policies, put, proof, dead, sessionVars, risk, attempts, preparing, register, gaveUp>>

(* With the plan of the call, although the page may show another by now.   *)
PostRegister ==
    /\ page.pc = "signed"
    /\ register' = [register EXCEPT ![page.tx] =
                      [pc |-> "get", id |-> txs[page.tx].id, call |-> txs[page.tx].call,
                       doc |-> NoAttempt, cookie |-> cookie]]
    /\ page' = [page EXCEPT !.pc = "registering"]
    /\ UNCHANGED <<policies, put, world, attempts, preparing, gaveUp, left>>

(* The connection is lost: the request goes on without the page.           *)
GiveUp ==
    /\ page.pc \in {"signed", "registering"}
    /\ Spend("giveUp")
    /\ page' = [page EXCEPT !.pc = "ready", !.tx = 0]
    /\ gaveUp' = TRUE
    /\ UNCHANGED <<policies, put, world, attempts, preparing, register>>

\* Mutant of Refetch: a plan of which nothing is registered is not refetched.
RefetchSubmitted ==
    /\ page.id # 0
    /\ MaySee(page.id, cookie)
    /\ page.seen.status = "SUBMITTED"
    /\ page.seen # attempts[page.id]
    /\ page' = [page EXCEPT !.seen = attempts[page.id]]
    /\ UNCHANGED <<policies, put, world, attempts, preparing, register, gaveUp, left>>

(* refetchInterval of the attempt.                                         *)
Refetch ==
    /\ page.id # 0
    /\ MaySee(page.id, cookie)
    /\ page.seen.status \in {"PREPARED", "SUBMITTED"}
    /\ page.seen # attempts[page.id]
    /\ page' = [page EXCEPT !.seen = attempts[page.id]]
    /\ UNCHANGED <<policies, put, world, attempts, preparing, register, gaveUp, left>>
-----------------------------------------------------------------------------
(* The chain and everybody else.                                           *)

Mine(h) ==
    /\ h \in DOMAIN txs
    /\ txs[h].state = "pending"
    /\ \A g \in 1..(h - 1) : Mined(g)
    /\ \/ /\ txs' = [txs EXCEPT ![h].state = "success"]
          /\ risk' = IF txs[h].call = NCalls /\ txs[h].same /\ risk < MaxRisk
                       THEN risk + 1 ELSE risk
       \/ /\ txs' = [txs EXCEPT ![h].state = "reverted"]
          /\ UNCHANGED risk
    /\ UNCHANGED <<policies, put, proof, dead, sessionVars, attempts, preparing, register, page, gaveUp, left>>

Drift ==
    /\ Spend("drift")
    /\ risk' \in Risks \cap {risk - 1, risk + 1}
    /\ UNCHANGED <<policies, put, proof, dead, sessionVars, txs, attempts, preparing, register, page, gaveUp>>

\* The proof ages, or the run is requeued or done again.
ProofMoves ==
    /\ Spend("proof")
    /\ IF proof.complete THEN proof' = [proof EXCEPT !.complete = FALSE]
       ELSE proof' \in [complete : {TRUE}, verified : BOOLEAN]
    /\ UNCHANGED <<policies, put, dead, chain, sessionVars, attempts, preparing, register, page, gaveUp>>

ChangeDies ==
    /\ ~dead
    /\ Spend("change")
    /\ dead' = TRUE
    /\ UNCHANGED <<policies, put, proof, chain, sessionVars, attempts, preparing, register, page, gaveUp>>

Expire(id) ==
    /\ attempts[id] # NoAttempt
    /\ ~attempts[id].expired
    /\ Spend("expiry")
    /\ attempts' = [attempts EXCEPT ![id].expired = TRUE]
    /\ UNCHANGED <<policies, put, world, preparing, register, page, gaveUp>>

(* The API process dies: every request is lost, what was written stays.    *)
Restart ==
    /\ Spend("restart")
    /\ preparing' = NotPreparing
    /\ register' = [h \in Hashes |-> NoRegister]
    /\ put' = [p \in Puts |-> IdlePut]
    /\ page' = IF page.pc = "registering" THEN [page EXCEPT !.pc = "ready", !.tx = 0]
                ELSE page
    /\ SessionsRestart
    /\ UNCHANGED <<policies, proof, dead, chain, attempts, gaveUp>>

(* The plan the page was about is forgotten with the page.                 *)
Reload ==
    /\ Spend("reload")
    /\ Reloaded
    /\ page' = NoPage
    /\ preparing' = [preparing EXCEPT !.shown = FALSE]
    /\ gaveUp' = (gaveUp \/ page.pc \in {"signed", "registering"})
    /\ UNCHANGED <<policies, put, proof, dead, chain, attempts, register>>

others == <<world, attempts, preparing, register, page, gaveUp>>
SavePolicy(p) == OwnsPage /\ MayServe(cookie) /\ \E policy \in Policy : BeginPut(p, policy)

PolicyRequest(p) ==
    /\ \/ PutStep(p) /\ UNCHANGED left
       \/ PutFails(p) /\ Spend("putFails")
       \/ SavePolicy(p) /\ Spend("put")
    /\ UNCHANGED others

SessionEvent ==
    /\ \/ \E v \in Verifications : VerifyStep(v) /\ UNCHANGED left
       \/ (ReadSession \/ DropCookie \/ \E n \in NonceIds : RemoveNonce(n)) /\ UNCHANGED left
       \/ \E v \in Verifications : SignMessage(v) /\ UNCHANGED left
       \/ \E v \in Verifications : Resend(v) /\ Spend("resend")
       \/ IssueNonce /\ Spend("prove")
       \/ ProveFails /\ Spend("proveFails")
       \/ Logout /\ Spend("logout")
       \/ SwitchAccount /\ Spend("switch")
       \/ ToggleMonitoring /\ Spend("toggle")
       \/ Tick /\ Spend("tick")
    /\ UNCHANGED <<policies, put, proof, dead, chain, attempts, preparing, register, page, gaveUp>>

Next ==
    \/ CheckRun \/ CheckChange \/ CheckStrategies \/ ReadPolicy \/ DryRun \/ CreateAttempt
    \/ PrepareFails
    \/ \E h \in Hashes : RegisterStep(h) \/ RegisterFails(h) \/ Mine(h)
    \/ ClickPrepare \/ PostRegister \/ GiveUp \/ Refetch
    \/ \E c \in Calls : Sign(c)
    \/ Drift \/ ProofMoves \/ ChangeDies \/ Restart \/ Reload \/ SessionEvent
    \/ \E id \in Ids : Expire(id)
    \/ \E p \in Puts : PolicyRequest(p)

Spec == Init /\ [][Next]_vars

(* Requests are worked on, transactions are mined, the page asks again.    *)
Fairness ==
    /\ \A h \in Hashes : WF_vars(RegisterStep(h)) /\ WF_vars(Mine(h))
    /\ WF_vars(CheckRun \/ CheckChange \/ CheckStrategies \/ ReadPolicy \/ DryRun \/ CreateAttempt)
    /\ WF_vars(MustRefuse /\ PrepareFails)
    /\ WF_vars(PostRegister) /\ WF_vars(Refetch)

FairSpec == Spec /\ Fairness
-----------------------------------------------------------------------------
(* The state of the API, the page and the chain has its type, and what a   *)
(* request holds is the document of the attempt it was sent for.           *)
ApiTypeOK ==
    /\ policies \in [Versions -> Document \cup {Missing}]
    /\ put \in [Puts -> Put]
    /\ proof \in [complete : BOOLEAN, verified : BOOLEAN]
    /\ risk \in Risks
    /\ Len(txs) <= MaxTxs
    /\ \A id \in Ids : attempts[id] # NoAttempt => attempts[id] \in Attempt
    /\ SessionsTypeOK
    /\ preparing \in Preparing
    /\ \A h \in Hashes :
         /\ register[h].pc \in RegisterPcs
         /\ register[h].pc # "idle" => /\ h \in DOMAIN txs
                                       /\ register[h].id = txs[h].id
                                       /\ attempts[register[h].id] # NoAttempt
         /\ register[h].pc \in {"receipt", "risk", "write"} => register[h].doc \in Attempt
    /\ page.pc \in PagePcs
    /\ page.pc \in {"signed", "registering"} => page.tx \in DOMAIN txs
    /\ page.id # 0 => attempts[page.id] # NoAttempt

SentFor(h, id, c) == txs[h].id = id /\ txs[h].call = c

(* However registrations of one attempt overwrite each other, the stored   *)
(* hashes are those of the first calls, each with the receipt of a mined   *)
(* transaction that was sent for this call of this plan, and the status is *)
(* the one these receipts ask for (registerTx).                            *)
StatusExplained ==
    \A id \in Ids : attempts[id] # NoAttempt =>
        LET doc == attempts[id]
            n == Registered(doc)
            reverted == \E c \in Calls : doc.results[c] = "reverted"
        IN  /\ \A c \in Calls :
                 IF c > n THEN doc.hashes[c] = 0 /\ doc.results[c] = "none"
                 ELSE /\ doc.hashes[c] \in DOMAIN txs
                      /\ SentFor(doc.hashes[c], id, c)
                      /\ txs[doc.hashes[c]].state = doc.results[c]
            /\ doc.status = "FAILED" <=> reverted
            /\ doc.status \in {"VERIFIED", "MISMATCH"} <=> Confirmed(doc) = NCalls
            /\ doc.status = "PREPARED" <=> n = 0

(* Nobody but the owner does anything for the wallet: an accepted cookie   *)
(* was earned by a recent signature of its wallet, a nonce gives no second *)
(* session unless its requests overlapped, and neither a policy, a plan    *)
(* nor the monitoring flag is stored before the owner has signed, whatever *)
(* account the browser switches to and whatever is sent twice              *)
(* (auth.service.ts, and the controllers that ask it).                     *)
SessionsAreEarned ==
    /\ CookieIsEarned
    /\ NonceGivesOneSession
    /\ \/ monitored
       \/ \E v \in Versions : policies[v] # Missing
       \/ \E id \in Ids : attempts[id] # NoAttempt
       => earned[Owner] # Never

(* No success from receipts alone: an attempt is VERIFIED only if for each *)
(* of its calls a transaction has succeeded on chain and the wallet's      *)
(* risk, read after the receipts, is without shortfall and no longer what  *)
(* it was (classifyExecutionState).  The transaction is the one that was   *)
(* sent for the call: nothing compares the two.                            *)
VerifiedMeansDone ==
    \A id \in Ids : attempts[id] # NoAttempt /\ attempts[id].status = "VERIFIED" =>
        /\ \A c \in Calls : \E h \in DOMAIN txs :
             SentFor(h, id, c) /\ txs[h].state = "success"
        /\ attempts[id].after >= 0
        /\ attempts[id].after # attempts[id].before

(* As long as the page gave up none of its requests, a registered hash is  *)
(* never lost and an ended attempt stays as it ended, whatever the user    *)
(* clicks on a page that is behind, and whatever fails or restarts:        *)
(* registerTx writes back what it read before its waits.                   *)
RegistrationsLast ==
    [][~gaveUp => \A id \in Ids : attempts[id] # NoAttempt =>
          /\ \A c \in Calls : attempts[id].hashes[c] # 0 =>
                attempts'[id].hashes[c] = attempts[id].hashes[c]
          /\ attempts[id].status \in Ended => attempts'[id].status = attempts[id].status]_attempts

(* Unless it gave up a request, the page comes to rest on the stored       *)
(* attempt, no request pending: it refetches while an attempt is open,     *)
(* and an attempt that ended does not change behind its back.  Without a   *)
(* session, though, it cannot ask.                                         *)
PageSettles ==
    []<>(gaveUp \/ ~MayServe(cookie) \/
         /\ page.pc = "ready" /\ ~preparing.shown
         /\ page.id # 0 => /\ page.seen.status = attempts[page.id].status
                           /\ page.seen.hashes = attempts[page.id].hashes)
=============================================================================
