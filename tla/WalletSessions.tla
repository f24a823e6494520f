--------------------------- MODULE WalletSessions ---------------------------
(***************************************************************************)
(* How a user proves to own a wallet: the API issues a nonce, the wallet   *)
(* signs a message with it, the API uses the nonce up, checks the          *)
(* signature and gives a session, a cookie of its own making (apps/api     *)
(* auth.service.ts, session.ts; apps/web prove-ownership.tsx).             *)
(*                                                                         *)
(* There is one browser.  Nonces are in a database, which outlives the     *)
(* process, or in the memory of the process; the secret of the sessions is *)
(* configured, or a new one for each process.  A session is judged by its  *)
(* cookie alone.  Time is in units of no particular length.                *)
(***************************************************************************)
EXTENDS Integers

CONSTANTS
    Wallets,
    Owner,          \* the wallet the pages are about
    Nobody,         \* no wallet
    NonceTtl,
    SessionTtl,
    MaxNonces,      \* bound of the nonces
    MaxTime,        \* bound of the clock
    Verifications   \* POST verify-signature requests that may be under way at once

ASSUME SessionAssumption ==
    /\ Owner \in Wallets
    /\ Nobody \notin Wallets
    /\ {NonceTtl, SessionTtl, MaxNonces, MaxTime} \subseteq Nat \ {0}

VARIABLES
    clock,
    server,     \* its configuration, and the secret of the process that runs
    nonces,     \* the authNonces collection, or the map in memory
    verify,     \* the POST verify-signature requests
    account,    \* of the browser: the connected wallet,
    cookie,     \*   its session cookie,
    shown,      \*   the wallet of the session its pages remember,
    proving,    \*   and its last proof of ownership
    monitored,  \* monitoringEnabled of the owner
    earned,     \* when each wallet last earned a session by a signature
    overlapped  \* nonces that a request found open while another was to mark them

sessionVars == <<clock, server, nonces, verify, account, cookie, shown, proving, monitored,
                 earned, overlapped>>

Times == 0..MaxTime
NonceIds == 1..MaxNonces
Never == -1

Server == [database : BOOLEAN, configured : BOOLEAN, secret : Nat]

Cookie == [wallet : Wallets \cup {Nobody}, exp : 0..(MaxTime + SessionTtl), secret : Nat]
NoCookie == [wallet |-> Nobody, exp |-> 0, secret |-> 0]

Nonce == [state : {"unissued", "open", "used", "gone"}, wallet : Wallets \cup {Nobody},
          expires : 0..(MaxTime + NonceTtl), sessions : Nat]
Unissued == [state |-> "unissued", wallet |-> Nobody, expires |-> 0, sessions |-> 0]

\* What is signed names the wallet and the nonce (and where and when both are valid).
AuthMessage(w, n) == [wallet |-> w, nonce |-> n]

Messages == [wallet : Wallets, nonce : NonceIds]
Signatures == [signer : Wallets, message : Messages]
NoSignature == [signer |-> Nobody]

Proving == [pc : {"idle", "sign", "verify"}, wallet : Wallets \cup {Nobody},
            nonce : {0} \cup NonceIds, signature : Signatures \cup {NoSignature}]
NotProving == [pc |-> "idle", wallet |-> Nobody, nonce |-> 0, signature |-> NoSignature]

Verify == [pc : {"idle", "find", "mark", "check"}, wallet : Wallets \cup {Nobody},
           nonce : {0} \cup NonceIds, signature : Signatures \cup {NoSignature}]
NoVerify == [pc |-> "idle", wallet |-> Nobody, nonce |-> 0, signature |-> NoSignature]

SessionUntil(w) == [wallet |-> w, exp |-> clock + SessionTtl, secret |-> server.secret]

\* The owner may have a session from before.
SessionsInit(database, configured, signedIn) ==
    /\ clock = 0
    /\ server = [database |-> database, configured |-> configured, secret |-> 0]
    /\ nonces = [n \in NonceIds |-> Unissued]
    /\ verify = [v \in Verifications |-> NoVerify]
    /\ account = Owner
    /\ cookie = IF signedIn THEN SessionUntil(Owner) ELSE NoCookie
    /\ shown = IF signedIn THEN Owner ELSE Nobody
    /\ proving = NotProving
    /\ monitored = FALSE
    /\ earned = [w \in Wallets |-> IF signedIn /\ w = Owner THEN 0 ELSE Never]
    /\ overlapped = {}
-----------------------------------------------------------------------------
(* readSession, verifySession: no look at the store, or at whether the     *)
(* user has ended the session.                                             *)
Accepted(token) ==
    /\ token.wallet # Nobody
    /\ token.secret = server.secret
    /\ clock <= token.exp

\* assertOwns.
SessionOf(w, token) == Accepted(token) /\ token.wallet = w

\* The pages of the owner's wallet offer what only the owner may do.
OwnsPage == account = Owner /\ shown = Owner

\* The pages offer to prove ownership, or else to end the session.
Proved == shown = account

(* issueNonce, for the wallet that is connected when the user clicks.      *)
IssueNonce ==
    /\ proving.pc = "idle"
    /\ ~Proved
    /\ \E n \in NonceIds :
         /\ \A m \in 1..(n - 1) : nonces[m] # Unissued
         /\ nonces[n] = Unissued
         /\ nonces' = [nonces EXCEPT ![n] = [state |-> "open", wallet |-> account,
                                             expires |-> clock + NonceTtl, sessions |-> 0]]
         /\ proving' = [pc |-> "sign", wallet |-> account, nonce |-> n,
                        signature |-> NoSignature]
    /\ UNCHANGED <<clock, server, verify, account, cookie, shown, monitored, earned, overlapped>>

Post(v, proof) ==
    /\ verify[v].pc = "idle"
    /\ verify' = [verify EXCEPT ![v] = [proof EXCEPT !.pc = "find"]]

(* The wallet that is connected by now signs.                              *)
SignMessage(v) ==
    /\ proving.pc = "sign"
    /\ proving' = [proving EXCEPT !.pc = "verify", !.signature =
                     [signer |-> account, message |-> AuthMessage(proving.wallet, proving.nonce)]]
    /\ Post(v, proving')
    /\ UNCHANGED <<clock, server, nonces, account, cookie, shown, monitored, earned, overlapped>>

\* The same request arrives again.
Resend(v) ==
    /\ proving.signature # NoSignature
    /\ Post(v, proving)
    /\ UNCHANGED <<clock, server, nonces, account, cookie, shown, proving, monitored, earned,
                   overlapped>>

\* The user does not sign, or the connection is lost.
ProveFails ==
    /\ proving.pc # "idle"
    /\ proving' = [proving EXCEPT !.pc = "idle"]
    /\ UNCHANGED <<clock, server, nonces, verify, account, cookie, shown, monitored, earned,
                   overlapped>>
-----------------------------------------------------------------------------
(* verifySignature.                                                        *)

Awaited(v) == proving.pc = "verify" /\ proving.nonce = verify[v].nonce

Refused(v) ==
    /\ verify' = [verify EXCEPT ![v] = NoVerify]
    /\ proving' = IF Awaited(v) THEN [proving EXCEPT !.pc = "idle"] ELSE proving

\* Mutant of Usable: whether the nonce was used is not looked at.
UsableAgain(doc, w) ==
    doc.state \in {"open", "used"} /\ clock < doc.expires /\ doc.wallet = w

Usable(doc, w) ==
    /\ doc.state = "open"
    /\ clock < doc.expires
    /\ doc.wallet = w

MarkUsed(n) == nonces' = IF nonces[n].state = "open"
                           THEN [nonces EXCEPT ![n].state = "used"] ELSE nonces

(* consumeNonce: in memory the nonce is marked at once, in the database it *)
(* is read first.                                                          *)
FindNonce(v) ==
    LET r == verify[v] IN
    /\ r.pc = "find"
    /\ \/ /\ ~Usable(nonces[r.nonce], r.wallet)
          /\ Refused(v)
          /\ UNCHANGED <<nonces, overlapped>>
       \/ /\ Usable(nonces[r.nonce], r.wallet)
          /\ ~server.database
          /\ verify' = [verify EXCEPT ![v].pc = "check"]
          /\ MarkUsed(r.nonce)
          /\ UNCHANGED <<proving, overlapped>>
       \/ /\ Usable(nonces[r.nonce], r.wallet)
          /\ server.database
          /\ verify' = [verify EXCEPT ![v].pc = "mark"]
          /\ overlapped' = overlapped \cup
               {n \in {r.nonce} : \E u \in Verifications : verify[u].pc = "mark" /\ verify[u].nonce = n}
          /\ UNCHANGED <<nonces, proving>>
    /\ UNCHANGED <<clock, server, account, cookie, shown, monitored, earned>>

MarkNonce(v) ==
    /\ verify[v].pc = "mark"
    /\ verify' = [verify EXCEPT ![v].pc = "check"]
    /\ MarkUsed(verify[v].nonce)
    /\ UNCHANGED <<clock, server, account, cookie, shown, proving, monitored, earned, overlapped>>

(* The signature must be the wallet's, of the message for this nonce, or   *)
(* the request is refused, its nonce used up.  The answer sets the cookie  *)
(* of a browser that waits for it.                                         *)
CheckSignature(v) ==
    LET r == verify[v]
        by == r.signature.signer IN
    /\ r.pc = "check"
    /\ Refused(v)
    /\ IF r.signature = [signer |-> r.wallet, message |-> AuthMessage(r.wallet, r.nonce)]
         THEN /\ nonces' = [nonces EXCEPT ![r.nonce].sessions = @ + 1]
              /\ cookie' = IF Awaited(v) THEN SessionUntil(r.wallet) ELSE cookie
              /\ earned' = IF nonces[r.nonce].wallet = by
                             THEN [earned EXCEPT ![by] = clock] ELSE earned
         ELSE UNCHANGED <<nonces, cookie, earned>>
    /\ UNCHANGED <<clock, server, account, shown, monitored, overlapped>>

VerifyStep(v) == FindNonce(v) \/ MarkNonce(v) \/ CheckSignature(v)
-----------------------------------------------------------------------------
(* getAuthSession: a refusal leaves the pages with what they remember.     *)
ReadSession ==
    /\ Accepted(cookie)
    /\ shown # cookie.wallet
    /\ shown' = cookie.wallet
    /\ UNCHANGED <<clock, server, nonces, verify, account, cookie, proving, monitored, earned,
                   overlapped>>

Logout ==
    /\ Proved
    /\ cookie # NoCookie
    /\ cookie' = NoCookie
    /\ UNCHANGED <<clock, server, nonces, verify, account, shown, proving, monitored, earned,
                   overlapped>>

\* Max-Age of the cookie.
DropCookie ==
    /\ cookie # NoCookie
    /\ cookie.exp <= clock
    /\ cookie' = NoCookie
    /\ UNCHANGED <<clock, server, nonces, verify, account, shown, proving, monitored, earned,
                   overlapped>>

SwitchAccount ==
    /\ account' \in Wallets \ {account}
    /\ UNCHANGED <<clock, server, nonces, verify, cookie, shown, proving, monitored, earned,
                   overlapped>>

\* The browser loads its pages again.
Reloaded ==
    /\ shown' = Nobody
    /\ proving' = NotProving
    /\ UNCHANGED <<clock, server, nonces, verify, account, cookie, monitored, earned, overlapped>>

(* putMonitoring.                                                          *)
PutMonitoring ==
    /\ server.database
    /\ SessionOf(Owner, cookie)
    /\ monitored' = ~monitored
    /\ UNCHANGED <<clock, server, nonces, verify, account, cookie, shown, proving, earned,
                   overlapped>>

ToggleMonitoring == OwnsPage /\ PutMonitoring

Tick ==
    /\ clock < MaxTime
    /\ clock' = clock + 1
    /\ UNCHANGED <<server, nonces, verify, account, cookie, shown, proving, monitored, earned,
                   overlapped>>

\* The database removes nonces some time after they expired.
RemoveNonce(n) ==
    /\ server.database
    /\ nonces[n].state \in {"open", "used"}
    /\ nonces[n].expires <= clock
    /\ nonces' = [nonces EXCEPT ![n].state = "gone"]
    /\ UNCHANGED <<clock, server, verify, account, cookie, shown, proving, monitored, earned,
                   overlapped>>

(* The process dies, with its requests, its memory and a secret of its own.*)
SessionsRestart ==
    /\ server' = IF server.configured THEN server ELSE [server EXCEPT !.secret = @ + 1]
    /\ nonces' = IF server.database THEN nonces
                 ELSE [n \in NonceIds |-> IF nonces[n] = Unissued THEN Unissued
                                          ELSE [nonces[n] EXCEPT !.state = "gone"]]
    /\ verify' = [v \in Verifications |-> NoVerify]
    /\ proving' = IF proving.pc = "verify" THEN [proving EXCEPT !.pc = "idle"] ELSE proving
    /\ UNCHANGED <<clock, account, cookie, shown, monitored, earned, overlapped>>
-----------------------------------------------------------------------------
(* The parts of the state have their types.                                *)
SessionsTypeOK ==
    /\ clock \in Times
    /\ server \in Server
    /\ nonces \in [NonceIds -> Nonce]
    /\ verify \in [Verifications -> Verify]
    /\ account \in Wallets
    /\ cookie \in Cookie
    /\ shown \in Wallets \cup {Nobody}
    /\ proving \in Proving
    /\ monitored \in BOOLEAN
    /\ earned \in [Wallets -> Times \cup {Never}]
    /\ overlapped \subseteq NonceIds

(* A session that is accepted was earned: its wallet signed a message with *)
(* a nonce issued to it, no longer than the life of a session ago.         *)
CookieIsEarned ==
    Accepted(cookie) => /\ earned[cookie.wallet] # Never
                        /\ clock <= earned[cookie.wallet] + SessionTtl

(* A nonce gives one session, but for requests that read the database      *)
(* while none of them had marked it yet (consumeNonce).                    *)
NonceGivesOneSession ==
    \A n \in NonceIds \ overlapped : nonces[n].sessions <= 1
=============================================================================
