------------------------- MODULE AnvilForks_proofs -------------------------
(***************************************************************************)
(* TLAPS proofs about the forks of one host: for any number of sessions    *)
(* and children, any range of ports and any blocks.                        *)
(*                                                                         *)
(* ForksInv says what makes the two promises inductive.  A child has one   *)
(* holder, which knows its port; a child that nobody raced is alone on its *)
(* port; and a child that a session still holds is alive unless it was     *)
(* raced, has crashed or was told to end.  So a session that another fork  *)
(* answers has lost its own child to one of the three.                     *)
(***************************************************************************)
EXTENDS AnvilForks, TLAPS

HeldOnce ==
    \A s, t \in Sessions : fork[s].child = fork[t].child /\ fork[s].child # NoChild => s = t

HoldsChild ==
    \A s \in Sessions :
        /\ fork[s].pc = "none" => fork[s].child = NoChild
        /\ fork[s].pc \notin {"none", "gone"} => fork[s].child \in Children

Explained(c) == anvil[c].raced \/ anvil[c].crashed \/ anvil[c].term

OwnChild ==
    \A s \in Sessions : fork[s].child \in Children =>
        /\ anvil[fork[s].child].port = fork[s].port
        /\ Alive(fork[s].child) \/ Explained(fork[s].child)

AloneOnPort ==
    \A c, d \in Children :
        Alive(c) /\ Alive(d) /\ d # c /\ ~anvil[c].raced => anvil[d].port # anvil[c].port

SweptAreTold == \A c \in sweep : Alive(c) => anvil[c].term

ForksInv ==
    /\ ForksTypeOK /\ HeldOnce /\ HoldsChild /\ OwnChild
    /\ AloneOnPort /\ SweptAreTold /\ NoForkLeftBehind

-----------------------------------------------------------------------------
(***************************************************************************)
(* Records.                                                                *)
(***************************************************************************)
LEMMA ChildFields ==
  ASSUME NEW a \in ChildRecords
  PROVE  /\ a.st \in {"none", "booting", "serving"} /\ a.port \in Ports
         /\ a.term \in BOOLEAN /\ a.raced \in BOOLEAN /\ a.crashed \in BOOLEAN
  BY DEF ChildRecords

LEMMA WarnedChild ==
  ASSUME NEW a \in ChildRecords
  PROVE  /\ Warned(a) \in ChildRecords /\ Warned(a).term
         /\ Warned(a).st = a.st /\ Warned(a).port = a.port
         /\ Warned(a).raced = a.raced /\ Warned(a).crashed = a.crashed
  BY DEF Warned, ChildRecords

LEMMA RacedChild ==
  ASSUME NEW a \in ChildRecords
  PROVE  /\ Raced(a) \in ChildRecords /\ Raced(a).raced
         /\ Raced(a).st = a.st /\ Raced(a).port = a.port
         /\ Raced(a).term = a.term /\ Raced(a).crashed = a.crashed
  BY DEF Raced, ChildRecords

LEMMA ListeningChild ==
  ASSUME NEW a \in ChildRecords
  PROVE  /\ Listening(a) \in ChildRecords /\ Listening(a).st = "serving"
         /\ Listening(a).port = a.port /\ Listening(a).raced = a.raced
         /\ Listening(a).term = a.term /\ Listening(a).crashed = a.crashed
  BY DEF Listening, ChildRecords

LEMMA DeadChild ==
  ASSUME NEW a \in ChildRecords
  PROVE  /\ Dead(a) \in ChildRecords /\ Dead(a).st = "none"
         /\ Dead(a).port = a.port /\ Dead(a).raced = a.raced
         /\ Dead(a).term = a.term /\ Dead(a).crashed = a.crashed
  BY DEF Dead, ChildRecords

LEMMA CrashedChild ==
  ASSUME NEW a \in ChildRecords
  PROVE  /\ Crashed(a) \in ChildRecords /\ Crashed(a).st = "none"
         /\ Crashed(a).port = a.port /\ Crashed(a).crashed
  BY DeadChild DEF Crashed, ChildRecords

LEMMA NothingYet ==
  /\ NoProcess \in ChildRecords /\ NoProcess.st = "none"
  /\ NoFork \in ForkRecords /\ NoFork.pc = "none" /\ NoFork.child = NoChild
  BY PoolAssumption, SMT DEF NoProcess, NoFork, ChildRecords, ForkRecords, Ports, Pins

LEMMA ForkFields ==
  ASSUME NEW f \in ForkRecords, NEW p \in {"starting", "checking", "ready", "closing", "gone"}
  PROVE  [pc |-> p, child |-> f.child, port |-> f.port, pin |-> f.pin] \in ForkRecords
  BY DEF ForkRecords

LEMMA Typed ==
  ASSUME ForksTypeOK
  PROVE  /\ \A c \in Children : anvil[c] \in ChildRecords
         /\ \A s \in Sessions : fork[s] \in ForkRecords
         /\ \A s \in Sessions : fork[s].child \in Children \cup {NoChild}
  BY DEF ForksTypeOK, ForkRecords

-----------------------------------------------------------------------------
(***************************************************************************)
(* One lemma for each kind of step.                                        *)
(***************************************************************************)
LEMMA Starts ==
  ASSUME ForkInit
  PROVE  ForksInv
  <1>1. ForksTypeOK
    BY NothingYet DEF ForkInit, ForksTypeOK
  <1>2. (\A c \in Children : ~Alive(c)) /\ (\A s \in Sessions : fork[s] = NoFork) /\ sweep = {}
    BY NothingYet DEF ForkInit, Alive
  <1>. QED
    BY <1>1, <1>2, NothingYet, PoolAssumption
       DEF ForksInv, HeldOnce, HoldsChild, OwnChild, AloneOnPort, SweptAreTold, NoForkLeftBehind

(* Only the state of one session changes: the health loop and stopAnvil.   *)
LEMMA PcMoves ==
  ASSUME ForksInv, NEW s \in Sessions,
         NEW p \in {"starting", "checking", "ready"},
         fork[s].pc \in {"starting", "checking", "ready"},
         fork' = SetPc(s, p), UNCHANGED <<anvil, sim, sweep>>, live' \subseteq Children
  PROVE  ForksInv'
  <1>1. /\ \A t \in Sessions : fork'[t].child = fork[t].child /\ fork'[t].port = fork[t].port
        /\ \A t \in Sessions : t # s => fork'[t] = fork[t]
        /\ fork'[s].pc = p
    BY Typed DEF ForksInv, ForksTypeOK, SetPc
  <1>2. ForksTypeOK'
    BY Typed, ForkFields DEF ForksInv, ForksTypeOK, SetPc
  <1>3. HeldOnce' /\ HoldsChild' /\ OwnChild'
    BY <1>1 DEF ForksInv, HeldOnce, HoldsChild, OwnChild, Alive, Explained
  <1>4. AloneOnPort' /\ SweptAreTold'
    BY DEF ForksInv, AloneOnPort, SweptAreTold, Alive
  <1>5. NoForkLeftBehind'
    BY <1>1 DEF ForksInv, NoForkLeftBehind, Alive
  <1>. QED  BY <1>2, <1>3, <1>4, <1>5 DEF ForksInv

(* The session's child is told to end and the session waits for it.        *)
LEMMA StopTells ==
  ASSUME ForksInv, NEW s \in Sessions, fork[s].pc = "ready",
         fork' = SetPc(s, "closing"), UNCHANGED <<live, sim, sweep>>,
         anvil' = IF Alive(fork[s].child) THEN Signalled(fork[s].child) ELSE anvil
  PROVE  ForksInv'
  <1>. DEFINE own == fork[s].child
  <1>0. own \in Children
    BY DEF ForksInv, HoldsChild
  <1>1. /\ \A t \in Sessions : fork'[t].child = fork[t].child /\ fork'[t].port = fork[t].port
        /\ \A t \in Sessions : t # s => fork'[t] = fork[t]
        /\ fork'[s].pc = "closing"
    BY Typed DEF ForksInv, ForksTypeOK, SetPc
  <1>2. /\ \A c \in Children : c # own => anvil'[c] = anvil[c]
        /\ anvil'[own].st = anvil[own].st /\ anvil'[own].port = anvil[own].port
        /\ anvil'[own].raced = anvil[own].raced /\ anvil'[own].crashed = anvil[own].crashed
        /\ anvil[own].term => anvil'[own].term
        /\ Alive(own) => anvil'[own].term
        /\ anvil' \in [Children -> ChildRecords]
    <2>1. CASE Alive(own)
      BY <2>1, <1>0, Typed, WarnedChild DEF ForksInv, ForksTypeOK, Signalled
    <2>2. CASE ~Alive(own)
      BY <2>2 DEF ForksInv, ForksTypeOK
    <2>. QED  BY <2>1, <2>2
  <1>. HIDE DEF own
  <1>3. ForksTypeOK'
    BY <1>2, Typed, ForkFields DEF ForksInv, ForksTypeOK, SetPc
  <1>4. HeldOnce' /\ HoldsChild'
    BY <1>0, <1>1 DEF ForksInv, HeldOnce, HoldsChild, own
  <1>5. OwnChild'
    BY <1>1, <1>2 DEF ForksInv, OwnChild, Alive, Explained
  <1>6. AloneOnPort'
    BY <1>2 DEF ForksInv, AloneOnPort, Alive
  <1>7. SweptAreTold'
    BY <1>2 DEF ForksInv, ForksTypeOK, SweptAreTold, Alive
  <1>8. NoForkLeftBehind'
    BY <1>0, <1>1, <1>2 DEF ForksInv, NoForkLeftBehind, Alive, own
  <1>. QED  BY <1>3, <1>4, <1>5, <1>6, <1>7, <1>8 DEF ForksInv

(* The session lets go of its child, which is dead or told to end.         *)
LEMMA LetsGo ==
  ASSUME ForksInv, NEW s \in Sessions, fork[s].pc \in {"starting", "checking", "ready", "closing"},
         fork' = [fork EXCEPT ![s] = NoFork], UNCHANGED <<sim, sweep>>, live' \subseteq Children,
         \/ anvil' = Released(fork[s].child)
         \/ anvil' = Signalled(fork[s].child)
  PROVE  ForksInv'
  <1>. DEFINE own == fork[s].child
  <1>0. own \in Children /\ own # NoChild
    BY PoolAssumption DEF ForksInv, HoldsChild
  <1>1. /\ \A t \in Sessions : t # s => fork'[t] = fork[t] /\ fork[t].child # own
        /\ fork'[s] = NoFork
    BY <1>0 DEF ForksInv, ForksTypeOK, HeldOnce
  <1>2. /\ \A c \in Children : c # own => anvil'[c] = anvil[c]
        /\ anvil'[own] \in ChildRecords
        /\ anvil'[own].st # "none" => /\ anvil'[own].term /\ anvil'[own].st = anvil[own].st
                                       /\ anvil'[own].port = anvil[own].port
                                       /\ anvil'[own].raced = anvil[own].raced
    BY <1>0, Typed, WarnedChild, NothingYet DEF ForksInv, ForksTypeOK, Signalled, Released
  <1>3. ForksTypeOK'
    <2>1. anvil' \in [Children -> ChildRecords]
      BY <1>0, Typed, WarnedChild, NothingYet DEF ForksInv, ForksTypeOK, Signalled, Released
    <2>. QED  BY <2>1, Typed, NothingYet DEF ForksInv, ForksTypeOK
  <1>4. HeldOnce' /\ HoldsChild'
    BY <1>1, NothingYet, PoolAssumption DEF ForksInv, HeldOnce, HoldsChild
  <1>5. OwnChild'
    BY <1>1, <1>2, NothingYet, PoolAssumption DEF ForksInv, OwnChild, Alive, Explained
  <1>6. AloneOnPort'
    BY <1>2 DEF ForksInv, AloneOnPort, Alive
  <1>7. SweptAreTold'
    BY <1>2 DEF ForksInv, ForksTypeOK, SweptAreTold, Alive
  <1>8. NoForkLeftBehind'
    BY <1>1, <1>2 DEF ForksInv, NoForkLeftBehind, Alive
  <1>. QED  BY <1>3, <1>4, <1>5, <1>6, <1>7, <1>8 DEF ForksInv

(* A child ends: told to, swept, or because another has its port.          *)
LEMMA ChildEnds ==
  ASSUME ForksInv, NEW c \in Children, Explained(c),
         \/ anvil' = Gone(c)
         \/ anvil' = [anvil EXCEPT ![c] = Dead(anvil[c])],
         UNCHANGED <<fork, sim, sweep>>, live' \subseteq Children
  PROVE  ForksInv'
  <1>1. /\ \A d \in Children : d # c => anvil'[d] = anvil[d]
        /\ anvil'[c] \in ChildRecords /\ anvil'[c].st = "none"
        /\ anvil' \in [Children -> ChildRecords]
    BY Typed, DeadChild, NothingYet DEF ForksInv, ForksTypeOK, Gone
  <1>2. Held(c) => /\ anvil'[c].port = anvil[c].port /\ anvil'[c].raced = anvil[c].raced
                   /\ anvil'[c].term = anvil[c].term /\ anvil'[c].crashed = anvil[c].crashed
    BY Typed, DeadChild DEF ForksInv, ForksTypeOK, Gone
  <1>3. ForksTypeOK'
    BY <1>1 DEF ForksInv, ForksTypeOK
  <1>4. HeldOnce' /\ HoldsChild'
    BY DEF ForksInv, HeldOnce, HoldsChild
  <1>5. OwnChild'
    BY <1>1, <1>2 DEF ForksInv, OwnChild, Alive, Explained, Held
  <1>6. AloneOnPort'
    BY <1>1 DEF ForksInv, AloneOnPort, Alive
  <1>7. SweptAreTold'
    BY <1>1 DEF ForksInv, ForksTypeOK, SweptAreTold, Alive
  <1>8. NoForkLeftBehind'
    BY <1>1 DEF ForksInv, NoForkLeftBehind, Alive
  <1>. QED  BY <1>3, <1>4, <1>5, <1>6, <1>7, <1>8 DEF ForksInv

LEMMA ChildCrashed ==
  ASSUME ForksInv, NEW c \in Children, Crash(c)
  PROVE  ForksInv'
  <1>1. /\ \A d \in Children : d # c => anvil'[d] = anvil[d]
        /\ anvil'[c].st = "none" /\ anvil'[c].crashed /\ anvil'[c].port = anvil[c].port
        /\ anvil' \in [Children -> ChildRecords]
    BY Typed, CrashedChild DEF ForksInv, ForksTypeOK, Crash
  <1>2. UNCHANGED <<fork, sim, sweep>> /\ live' \subseteq Children
    BY DEF ForksInv, ForksTypeOK, Crash
  <1>3. ForksTypeOK'
    BY <1>1, <1>2 DEF ForksInv, ForksTypeOK
  <1>4. HeldOnce' /\ HoldsChild'
    BY <1>2 DEF ForksInv, HeldOnce, HoldsChild
  <1>5. OwnChild'
    BY <1>1, <1>2 DEF ForksInv, OwnChild, Alive, Explained
  <1>6. AloneOnPort'
    BY <1>1 DEF ForksInv, AloneOnPort, Alive
  <1>7. SweptAreTold'
    BY <1>1, <1>2 DEF ForksInv, ForksTypeOK, SweptAreTold, Alive
  <1>8. NoForkLeftBehind'
    BY <1>1, <1>2 DEF ForksInv, NoForkLeftBehind, Alive
  <1>. QED  BY <1>3, <1>4, <1>5, <1>6, <1>7, <1>8 DEF ForksInv

LEMMA ChildBinds ==
  ASSUME ForksInv, NEW c \in Children, Bind(c)
  PROVE  ForksInv'
  <1>1. CASE PortFree(anvil[c].port)
    <2>1. /\ \A d \in Children : d # c => anvil'[d] = anvil[d]
          /\ anvil'[c].st = "serving" /\ anvil'[c].port = anvil[c].port
          /\ anvil'[c].raced = anvil[c].raced /\ anvil'[c].term = anvil[c].term
          /\ anvil'[c].crashed = anvil[c].crashed
          /\ anvil' \in [Children -> ChildRecords]
      BY <1>1, Typed, ListeningChild DEF ForksInv, ForksTypeOK, Bind
    <2>2. UNCHANGED <<fork, live, sim, sweep>> /\ Alive(c)
      BY DEF Bind, Alive
    <2>3. ForksTypeOK'
      BY <2>1, <2>2 DEF ForksInv, ForksTypeOK
    <2>4. HeldOnce' /\ HoldsChild'
      BY <2>2 DEF ForksInv, HeldOnce, HoldsChild
    <2>5. OwnChild'
      BY <2>1, <2>2 DEF ForksInv, OwnChild, Alive, Explained
    <2>6. AloneOnPort'
      BY <2>1, <2>2 DEF ForksInv, AloneOnPort, Alive
    <2>7. SweptAreTold'
      BY <2>1, <2>2 DEF ForksInv, ForksTypeOK, SweptAreTold, Alive
    <2>8. NoForkLeftBehind'
      BY <2>1, <2>2 DEF ForksInv, NoForkLeftBehind, Alive
    <2>. QED  BY <2>3, <2>4, <2>5, <2>6, <2>7, <2>8 DEF ForksInv
  <1>2. CASE ~PortFree(anvil[c].port)
    <2>1. PICK d \in Children : Serves(d, anvil[c].port)
      BY <1>2 DEF PortFree
    <2>2. d # c /\ Alive(c) /\ Alive(d) /\ anvil[d].port = anvil[c].port
      BY <2>1 DEF Bind, Serves, Alive
    <2>3. Explained(c)
      BY <2>2 DEF ForksInv, AloneOnPort, Explained
    <2>4. /\ anvil' = [anvil EXCEPT ![c] = Dead(anvil[c])]
          /\ UNCHANGED <<fork, sim, sweep>> /\ live' \subseteq Children
      BY <1>2 DEF ForksInv, ForksTypeOK, Bind
    <2>. QED  BY <2>3, <2>4, ChildEnds
  <1>. QED  BY <1>1, <1>2

(* A new child is alone on its port, or it and the others there are raced. *)
LEMMA ChildSpawned ==
  ASSUME ForksInv, NEW s \in Sessions, NEW pin \in Pins, Spawn(s, pin)
  PROVE  ForksInv'
  <1>1. PICK c \in Children, p \in Ports :
          /\ Unused(c) /\ PortFree(p)
          /\ anvil' = [d \in Children |->
                IF d = c THEN [st |-> "booting", port |-> p, pin |-> pin, term |-> FALSE,
                               raced |-> \E e \in Children : Booting(e, p),
                               crashed |-> FALSE]
                ELSE IF Booting(d, p) THEN Raced(anvil[d]) ELSE anvil[d]]
          /\ fork' = [fork EXCEPT ![s] = [pc |-> "starting", child |-> c,
                                          port |-> p, pin |-> pin]]
    BY DEF Spawn
  <1>2. UNCHANGED <<live, sim, sweep>> /\ fork[s].pc = "none" /\ fork[s].child = NoChild
    BY DEF Spawn, ForksInv, HoldsChild
  <1>3. /\ anvil'[c].st = "booting" /\ anvil'[c].port = p /\ anvil'[c].term = FALSE
        /\ anvil'[c].raced = (\E e \in Children : Booting(e, p))
        /\ anvil'[c] \in ChildRecords
    BY <1>1 DEF ChildRecords
  <1>4. \A d \in Children : d # c =>
          /\ anvil'[d] \in ChildRecords
          /\ anvil'[d].st = anvil[d].st /\ anvil'[d].port = anvil[d].port
          /\ anvil'[d].term = anvil[d].term /\ anvil'[d].crashed = anvil[d].crashed
          /\ anvil[d].raced => anvil'[d].raced
          /\ Booting(d, p) => anvil'[d].raced
    <2>. SUFFICES ASSUME NEW d \in Children, d # c
                  PROVE  /\ anvil'[d] \in ChildRecords
                         /\ anvil'[d].st = anvil[d].st /\ anvil'[d].port = anvil[d].port
                         /\ anvil'[d].term = anvil[d].term
                         /\ anvil'[d].crashed = anvil[d].crashed
                         /\ anvil[d].raced => anvil'[d].raced
                         /\ Booting(d, p) => anvil'[d].raced
      OBVIOUS
    <2>1. CASE Booting(d, p)
      <3>1. anvil'[d] = Raced(anvil[d])
        BY <1>1, <2>1
      <3>. QED  BY <3>1, Typed, RacedChild DEF ForksInv
    <2>2. CASE ~Booting(d, p)
      <3>1. anvil'[d] = anvil[d]
        BY <1>1, <2>2
      <3>. QED  BY <3>1, <2>2, Typed DEF ForksInv
    <2>. QED  BY <2>1, <2>2
  <1>5. /\ \A t \in Sessions : t # s => fork'[t] = fork[t] /\ fork[t].child # c
        /\ fork'[s].child = c /\ fork'[s].pc = "starting" /\ fork'[s].port = p
    BY <1>1 DEF ForksInv, ForksTypeOK, Unused
  <1>6. ~Alive(c) /\ c \notin sweep
    BY <1>1 DEF Unused
  <1>7. ForksTypeOK'
    <2>1. \A d \in Children : anvil'[d] \in ChildRecords
      BY <1>3, <1>4
    <2>2. anvil' \in [Children -> ChildRecords]
      BY <1>1, <2>1
    <2>3. [pc |-> "starting", child |-> c, port |-> p, pin |-> pin] \in ForkRecords
      BY DEF ForkRecords
    <2>. QED  BY <1>1, <1>2, <2>2, <2>3 DEF ForksInv, ForksTypeOK
  <1>8. HeldOnce' /\ HoldsChild'
    BY <1>5 DEF ForksInv, HeldOnce, HoldsChild
  <1>9. OwnChild'
    <2>. SUFFICES ASSUME NEW t \in Sessions, fork'[t].child \in Children
                  PROVE  /\ anvil'[fork'[t].child].port = fork'[t].port
                         /\ \/ anvil'[fork'[t].child].st # "none"
                            \/ anvil'[fork'[t].child].raced \/ anvil'[fork'[t].child].crashed
                            \/ anvil'[fork'[t].child].term
      BY DEF OwnChild, Alive, Explained
    <2>1. CASE t = s
      BY <2>1, <1>3, <1>5
    <2>2. CASE t # s
      <3>. DEFINE d == fork[t].child
      <3>1. fork'[t] = fork[t] /\ d \in Children /\ d # c
        BY <2>2, <1>5
      <3>2. anvil[d].port = fork[t].port /\ (Alive(d) \/ Explained(d))
        BY <3>1 DEF ForksInv, OwnChild
      <3>. QED  BY <3>1, <3>2, <1>4 DEF Alive, Explained
    <2>. QED  BY <2>1, <2>2
  <1>10. AloneOnPort'
    <2>. SUFFICES ASSUME NEW a \in Children, NEW b \in Children, a # b,
                         anvil'[a].st # "none", anvil'[b].st # "none", ~anvil'[a].raced
                  PROVE  anvil'[b].port # anvil'[a].port
      BY DEF AloneOnPort, Alive
    <2>1. CASE a # c /\ b # c
      BY <2>1, <1>4 DEF ForksInv, AloneOnPort, Alive
    <2>2. CASE a = c
      <3>1. ~Booting(b, p) /\ ~Serves(b, p)
        BY <2>2, <1>1, <1>3 DEF PortFree
      <3>2. anvil[b].st \in {"none", "booting", "serving"} /\ anvil[b].st # "none"
        BY <2>2, <1>4, Typed, ChildFields DEF ForksInv
      <3>3. anvil[b].port # p
        BY <3>1, <3>2 DEF Booting, Serves
      <3>. QED  BY <2>2, <3>3, <1>3, <1>4
    <2>3. CASE b = c
      <3>1. ~Booting(a, p) /\ ~Serves(a, p)
        BY <2>3, <1>1, <1>4 DEF PortFree
      <3>2. anvil[a].st \in {"none", "booting", "serving"} /\ anvil[a].st # "none"
        BY <2>3, <1>4, Typed, ChildFields DEF ForksInv
      <3>3. anvil[a].port # p
        BY <3>1, <3>2 DEF Booting, Serves
      <3>. QED  BY <2>3, <3>3, <1>3, <1>4
    <2>. QED  BY <2>1, <2>2, <2>3
  <1>11. SweptAreTold'
    BY <1>2, <1>4, <1>6 DEF ForksInv, ForksTypeOK, SweptAreTold, Alive
  <1>12. NoForkLeftBehind'
    <2>. SUFFICES ASSUME NEW d \in Children, anvil'[d].st # "none", ~anvil'[d].term
                  PROVE  \E t \in Sessions :
                           /\ fork'[t].child = d
                           /\ \/ fork'[t].pc \in {"starting", "checking", "ready"}
                              \/ fork'[t].pc = "gone" /\ d \notin sweep'
      BY DEF NoForkLeftBehind, Alive
    <2>1. CASE d = c
      BY <2>1, <1>5
    <2>2. CASE d # c
      <3>1. PICK t \in Sessions :
              /\ fork[t].child = d
              /\ \/ fork[t].pc \in {"starting", "checking", "ready"}
                 \/ fork[t].pc = "gone" /\ d \notin sweep
        BY <2>2, <1>4 DEF ForksInv, NoForkLeftBehind, Alive
      <3>2. t # s
        BY <3>1, <1>2
      <3>. QED  BY <3>1, <3>2, <1>2, <1>5
    <2>. QED  BY <2>1, <2>2
  <1>. QED  BY <1>7, <1>8, <1>9, <1>10, <1>11, <1>12 DEF ForksInv

(* stopAllAnvils tells every instance of the simulator's to end.           *)
LEMMA AllTold ==
  ASSUME ForksInv, Sweep
  PROVE  ForksInv'
  <1>1. /\ anvil' \in [Children -> ChildRecords]
        /\ \A c \in Children :
             /\ anvil'[c].st = anvil[c].st /\ anvil'[c].port = anvil[c].port
             /\ anvil'[c].raced = anvil[c].raced /\ anvil'[c].crashed = anvil[c].crashed
             /\ anvil[c].term => anvil'[c].term
             /\ c \in SimLive /\ Alive(c) => anvil'[c].term
    <2>1. \A c \in Children :
            anvil'[c] = IF c \in SimLive /\ Alive(c) THEN Warned(anvil[c]) ELSE anvil[c]
      BY DEF Sweep
    <2>2. \A c \in Children : anvil'[c] \in ChildRecords
      BY <2>1, Typed, WarnedChild DEF ForksInv
    <2>3. anvil' \in [Children -> ChildRecords]
      BY <2>2 DEF Sweep
    <2>. QED  BY <2>1, <2>3, Typed, WarnedChild DEF ForksInv
  <1>2. fork' = fork /\ sweep' = SimLive /\ sim' = "stopping" /\ live' \subseteq live
    BY DEF Sweep
  <1>3. SimLive \subseteq Children
    BY DEF SimLive, ForksInv, ForksTypeOK
  <1>4. ForksTypeOK'
    BY <1>1, <1>2, <1>3 DEF ForksInv, ForksTypeOK
  <1>5. HeldOnce' /\ HoldsChild'
    BY <1>2 DEF ForksInv, HeldOnce, HoldsChild
  <1>6. OwnChild'
    BY <1>1, <1>2 DEF ForksInv, OwnChild, Alive, Explained
  <1>7. AloneOnPort'
    BY <1>1 DEF ForksInv, AloneOnPort, Alive
  <1>8. SweptAreTold'
    BY <1>1, <1>2, <1>3 DEF SweptAreTold, Alive
  <1>9. NoForkLeftBehind'
    <2>. SUFFICES ASSUME NEW d \in Children, anvil'[d].st # "none", ~anvil'[d].term
                  PROVE  \E t \in Sessions :
                           /\ fork'[t].child = d
                           /\ \/ fork'[t].pc \in {"starting", "checking", "ready"}
                              \/ fork'[t].pc = "gone" /\ d \notin sweep'
      BY DEF NoForkLeftBehind, Alive
    <2>1. Alive(d) /\ ~anvil[d].term /\ d \notin SimLive
      BY <1>1 DEF Alive
    <2>. QED  BY <2>1, <1>2 DEF ForksInv, NoForkLeftBehind
  <1>. QED  BY <1>4, <1>5, <1>6, <1>7, <1>8, <1>9 DEF ForksInv

(* The process ends, its sessions with it; every swept child has ended.    *)
LEMMA ProcessExits ==
  ASSUME ForksInv, ExitProcess
  PROVE  ForksInv'
  <1>1. UNCHANGED <<anvil, live, sweep>> /\ sim' = "exited" /\ \A c \in sweep : ~Alive(c)
    BY DEF ExitProcess
  <1>2. \A t \in Sessions :
          /\ fork'[t].child = fork[t].child /\ fork'[t].port = fork[t].port
          /\ fork'[t].pc = fork[t].pc \/ fork'[t].pc = "gone"
    BY DEF ExitProcess
  <1>3. ForksTypeOK'
    BY <1>1, Typed, ForkFields DEF ForksInv, ForksTypeOK, ExitProcess
  <1>4. HeldOnce' /\ HoldsChild'
    <2>1. \A t \in Sessions : fork'[t].pc = "none" => fork[t].pc = "none"
      BY <1>2
    <2>2. \A t \in Sessions : fork'[t].pc \notin {"none", "gone"} => fork'[t].pc = fork[t].pc
      BY <1>2
    <2>. QED  BY <1>2, <2>1, <2>2 DEF ForksInv, HeldOnce, HoldsChild
  <1>5. OwnChild'
    BY <1>1, <1>2 DEF ForksInv, OwnChild, Alive, Explained
  <1>6. AloneOnPort' /\ SweptAreTold'
    BY <1>1 DEF ForksInv, AloneOnPort, SweptAreTold, Alive
  <1>7. NoForkLeftBehind'
    BY <1>1, <1>2 DEF ForksInv, NoForkLeftBehind, Alive
  <1>. QED  BY <1>3, <1>4, <1>5, <1>6, <1>7 DEF ForksInv

-----------------------------------------------------------------------------
(***************************************************************************)
(* The invariant.                                                          *)
(***************************************************************************)
LEMMA SessionSteps ==
  ASSUME ForksInv, NEW s \in Sessions, StartNext(s) \/ Stop(s) \/ Stopped(s)
  PROVE  ForksInv'
  <1>1. CASE \E pin \in Pins : Spawn(s, pin)
    BY <1>1, ChildSpawned
  <1>2. CASE Check(s)
    BY <1>2, PcMoves DEF Check, ForksInv, ForksTypeOK
  <1>3. CASE Healthy(s)
    <2>1. live' \subseteq Children
      BY <1>3 DEF Healthy, ForksInv, ForksTypeOK, HoldsChild
    <2>. QED  BY <1>3, <2>1, PcMoves DEF Healthy
  <1>4. CASE Unhealthy(s)
    BY <1>4, PcMoves DEF Unhealthy, ForksInv, ForksTypeOK
  <1>5. CASE StartFails(s)
    BY <1>5, LetsGo DEF StartFails, ForksInv, ForksTypeOK
  <1>6. CASE Stop(s)
    <2>1. CASE fork' = [fork EXCEPT ![s] = NoFork] /\ anvil' = Released(fork[s].child)
      BY <1>6, <2>1, LetsGo DEF Stop, ForksInv, ForksTypeOK
    <2>2. CASE /\ anvil' = IF Alive(fork[s].child) THEN Signalled(fork[s].child) ELSE anvil
               /\ fork' = SetPc(s, "closing") /\ UNCHANGED live
      BY <1>6, <2>2, StopTells DEF Stop
    <2>. QED  BY <1>6, <2>1, <2>2 DEF Stop
  <1>7. CASE Stopped(s)
    BY <1>7, LetsGo DEF Stopped, ForksInv, ForksTypeOK
  <1>. QED  BY <1>1, <1>2, <1>3, <1>4, <1>5, <1>6, <1>7 DEF StartNext

LEMMA ChildKeepsInv ==
  ASSUME ForksInv, NEW c \in Children, ChildNext(c)
  PROVE  ForksInv'
  <1>1. CASE Bind(c)
    BY <1>1, ChildBinds
  <1>2. CASE Crash(c)
    BY <1>2, ChildCrashed
  <1>3. CASE Exit(c)
    BY <1>3, ChildEnds DEF Exit, Explained, ForksInv, ForksTypeOK
  <1>4. CASE SweepKills(c)
    BY <1>4, ChildEnds DEF SweepKills, Explained, ForksInv, ForksTypeOK, SweptAreTold
  <1>. QED  BY <1>1, <1>2, <1>3, <1>4 DEF ChildNext

LEMMA ForksInductive ==
  ASSUME ForksInv, [ForkNext]_forkVars
  PROVE  ForksInv'
  <1>1. CASE \E s \in Sessions : StartNext(s) \/ Stop(s) \/ Stopped(s)
    BY <1>1, SessionSteps
  <1>2. CASE \E c \in Children : ChildNext(c)
    BY <1>2, ChildKeepsInv
  <1>3. CASE Terminate
    BY <1>3 DEF Terminate, ForksInv, ForksTypeOK, HeldOnce, HoldsChild, OwnChild,
                AloneOnPort, SweptAreTold, NoForkLeftBehind, Alive, Explained
  <1>4. CASE Sweep
    BY <1>4, AllTold
  <1>5. CASE ExitProcess
    BY <1>5, ProcessExits
  <1>6. CASE UNCHANGED forkVars
    BY <1>6 DEF forkVars, ForksInv, ForksTypeOK, HeldOnce, HoldsChild, OwnChild,
                AloneOnPort, SweptAreTold, NoForkLeftBehind, Alive, Explained
  <1>. QED  BY <1>1, <1>2, <1>3, <1>4, <1>5, <1>6 DEF ForkNext

(* The records keep their types and the invariant holds always.            *)
THEOREM ForksInvariant == ForkSpec => []ForksInv
  <1>1. ForkInit => ForksInv
    BY Starts
  <1>2. ForksInv /\ [ForkNext]_forkVars => ForksInv'
    BY ForksInductive
  <1>. QED  BY <1>1, <1>2, PTL DEF ForkSpec

(* No Anvil child keeps running with nobody left to stop it, but for those *)
(* the simulator's shutdown did not know of (anvil.ts:134, 194).           *)
THEOREM ForksAreStopped == ForkSpec => []NoForkLeftBehind
  <1>1. ForksInv => NoForkLeftBehind
    BY DEF ForksInv
  <1>. QED  BY <1>1, ForksInvariant, PTL

(* A session that another session's fork answers has lost its own child to *)
(* a race for the port, a crash or a signal (anvil.ts:61-78, 111-125).     *)
THEOREM ForksAreKeptApart == ForkSpec => []ForeignForkIsExplained
  <1>1. ASSUME ForksInv PROVE ForeignForkIsExplained
    <2>. SUFFICES ASSUME NEW s \in Sessions, NEW c \in Children,
                         fork[s].pc = "ready", Answers(s, c), c # fork[s].child
                  PROVE  Explained(fork[s].child)
      BY DEF ForeignForkIsExplained, Explained
    <2>1. /\ fork[s].child \in Children
          /\ anvil[fork[s].child].port = fork[s].port
          /\ Alive(fork[s].child) \/ Explained(fork[s].child)
      BY <1>1 DEF ForksInv, HoldsChild, OwnChild
    <2>2. CASE Alive(fork[s].child)
      BY <1>1, <2>1, <2>2 DEF ForksInv, AloneOnPort, Answers, Serves, Alive, Explained
    <2>. QED  BY <2>1, <2>2
  <1>. QED  BY <1>1, ForksInvariant, PTL
=============================================================================
