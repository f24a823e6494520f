----------------------------- MODULE AnvilForks -----------------------------
(***************************************************************************)
(* The life of the Anvil child processes: each session spawns one on a     *)
(* port it found free, waits until the port answers with the pinned block, *)
(* works, and stops it.  Sessions of the simulator share its process and   *)
(* die with it; the others live in other processes of the same host.       *)
(***************************************************************************)
EXTENDS Integers, FiniteSets

CONSTANTS
    Sessions,       \* who opens a fork: one at a time each
    SimSessions,    \* the sessions that run in the simulator's process
    Children,       \* the child processes that exist at once, at most
    FirstPort,      \* ANVIL_PORT_START
    PortCount,      \* the length of the range: 20 in the code
    LastPin,        \* the fork blocks are 0..LastPin, in the order of the chain
    NoChild

ASSUME PoolAssumption ==
    /\ SimSessions \subseteq Sessions
    /\ FirstPort \in Nat /\ PortCount \in Nat \ {0} /\ LastPin \in Nat
    /\ NoChild \notin Children

VARIABLES
    anvil,  \* the child processes: state, port, fork block, whether signalled;
            \* raced and crashed are their history
    fork,   \* each session: what it is doing, its child, its port and its block
    live,   \* liveAnvils, of all processes
    sim,    \* the simulator's process: up, draining, stopping or exited
    sweep   \* the children stopAllAnvils is stopping

forkVars == <<anvil, fork, live, sim, sweep>>

Ports == FirstPort..(FirstPort + PortCount - 1)
Pins == 0..LastPin
ChildRecords == [st: {"none", "booting", "serving"}, port: Ports, pin: Pins,
                 term: BOOLEAN, raced: BOOLEAN, crashed: BOOLEAN]
ForkRecords == [pc: {"none", "starting", "checking", "ready", "closing", "gone"},
                child: Children \cup {NoChild}, port: Ports, pin: Pins]

ForksTypeOK ==
    /\ anvil \in [Children -> ChildRecords]
    /\ fork \in [Sessions -> ForkRecords]
    /\ live \subseteq Children /\ sweep \subseteq Children
    /\ sim \in {"up", "draining", "stopping", "exited"}

Alive(c) == anvil[c].st # "none"
Serves(c, p) == anvil[c].st = "serving" /\ anvil[c].port = p
Booting(c, p) == anvil[c].st = "booting" /\ anvil[c].port = p
PortFree(p) == \A c \in Children : ~Serves(c, p)

(* Whoever answers on the session's port: its own child or another's.      *)
Answers(s, c) == Serves(c, fork[s].port)

Unused(c) ==
    /\ ~Alive(c) /\ c \notin live /\ c \notin sweep
    /\ \A s \in Sessions : fork[s].child # c

(* Which name a new child gets does not matter.                            *)
AnyUnused == CHOOSE c \in Children : Unused(c)

NoProcess == [st |-> "none", port |-> FirstPort, pin |-> 0,
              term |-> FALSE, raced |-> FALSE, crashed |-> FALSE]
NoFork == [pc |-> "none", child |-> NoChild, port |-> FirstPort, pin |-> 0]

ForkInit ==
    /\ anvil = [c \in Children |-> NoProcess]
    /\ fork = [s \in Sessions |-> NoFork]
    /\ live = {} /\ sim = "up" /\ sweep = {}

SetPc(s, pc) ==
    [fork EXCEPT ![s] = [pc |-> pc, child |-> fork[s].child,
                         port |-> fork[s].port, pin |-> fork[s].pin]]
(* What becomes of a child.                                                *)
Warned(a) == [a EXCEPT !.term = TRUE]
Raced(a) == [a EXCEPT !.raced = TRUE]
Listening(a) == [a EXCEPT !.st = "serving"]
Dead(a) == [a EXCEPT !.st = "none"]
Crashed(a) == [Dead(a) EXCEPT !.crashed = TRUE]

Signalled(c) == [anvil EXCEPT ![c] = Warned(anvil[c])]
Held(c) == \E s \in Sessions : fork[s].child = c

(* The process is gone; its record is kept while a session holds it.       *)
Gone(c) ==
    [anvil EXCEPT ![c] = IF Held(c) THEN Dead(anvil[c]) ELSE NoProcess]
Released(c) == [anvil EXCEPT ![c] = NoProcess]

-----------------------------------------------------------------------------
(***************************************************************************)
(* Starting.                                                               *)
(***************************************************************************)

\* Mutant of Spawn: the start of the range is taken without looking.
SpawnUnreserved(s, pin) ==
    /\ fork[s].pc = "none"
    /\ \E c \in Children :
        /\ Unused(c) /\ c = AnyUnused
        /\ anvil' = [anvil EXCEPT ![c] = [NoProcess EXCEPT !.st = "booting", !.pin = pin]]
        /\ fork' = [fork EXCEPT ![s] = [pc |-> "starting", child |-> c,
                                        port |-> FirstPort, pin |-> pin]]
    /\ UNCHANGED <<live, sim, sweep>>

(* reserveAnvilPort and spawn: the first port on which nobody listens; the *)
(* child listens only after it has fetched the fork block.                 *)
Spawn(s, pin) ==
    /\ fork[s].pc = "none"
    /\ \E c \in Children, p \in Ports :
        /\ Unused(c) /\ c = AnyUnused
        /\ PortFree(p) /\ \A q \in Ports : q < p => ~PortFree(q)
        /\ anvil' = [d \in Children |->
              IF d = c THEN [st |-> "booting", port |-> p, pin |-> pin, term |-> FALSE,
                             raced |-> \E e \in Children : Booting(e, p),
                             crashed |-> FALSE]
              ELSE IF Booting(d, p) THEN Raced(anvil[d]) ELSE anvil[d]]
        /\ fork' = [fork EXCEPT ![s] = [pc |-> "starting", child |-> c,
                                        port |-> p, pin |-> pin]]
    /\ UNCHANGED <<live, sim, sweep>>

NoPortLeft(s) ==
    /\ fork[s].pc = "none"
    /\ \A p \in Ports : ~PortFree(p)
    /\ UNCHANGED forkVars

(* The child binds its port, or finds it taken and exits.                  *)
Bind(c) ==
    /\ anvil[c].st = "booting"
    /\ anvil' = [anvil EXCEPT ![c] =
          IF PortFree(anvil[c].port) THEN Listening(anvil[c]) ELSE Dead(anvil[c])]
    /\ UNCHANGED <<fork, live, sim, sweep>>

(* One round of the health loop: the exit code is looked at, then the port *)
(* is asked for the chain and for the hash of the pinned block, which a    *)
(* fork made at a later block also has.  A child that a signal has ended   *)
(* has no exit code; of its rounds only one that may succeed is a step.    *)
HasPin(s, c) == Answers(s, c) /\ anvil[c].pin >= fork[s].pin

Check(s) ==
    /\ fork[s].pc = "starting"
    /\ \/ Alive(fork[s].child)
       \/ anvil[fork[s].child].crashed /\ \E c \in Children : HasPin(s, c)
    /\ fork' = SetPc(s, "checking")
    /\ UNCHANGED <<anvil, live, sim, sweep>>

Healthy(s) ==
    /\ fork[s].pc = "checking"
    /\ \E c \in Children : HasPin(s, c)
    /\ fork' = SetPc(s, "ready")
    /\ live' = live \cup {fork[s].child}
    /\ UNCHANGED <<anvil, sim, sweep>>

Unhealthy(s) ==
    /\ fork[s].pc = "checking"
    /\ \A c \in Children : ~HasPin(s, c)
    /\ fork' = SetPc(s, "starting")
    /\ UNCHANGED <<anvil, live, sim, sweep>>

\* Mutant of StartFails: a start that times out forgets the child.
StartFailsUnsignalled(s) ==
    /\ fork[s].pc \in {"starting", "checking"}
    /\ fork' = [fork EXCEPT ![s] = NoFork]
    /\ UNCHANGED <<anvil, live, sim, sweep>>

(* The start throws: FORK_START_FAILED when the child has exited, and      *)
(* otherwise FORK_TIMEOUT or RPC_INCONSISTENT_STATE after a SIGTERM.       *)
StartFails(s) ==
    LET c == fork[s].child
    IN  /\ fork[s].pc \in {"starting", "checking"}
        /\ anvil' = IF Alive(c) THEN Signalled(c) ELSE Released(c)
        /\ fork' = [fork EXCEPT ![s] = NoFork]
        /\ UNCHANGED <<live, sim, sweep>>

-----------------------------------------------------------------------------
(***************************************************************************)
(* Stopping.                                                               *)
(***************************************************************************)

(* The exit listener of a child that became an instance.                   *)
Exit(c) ==
    /\ Alive(c) /\ anvil[c].term
    /\ anvil' = Gone(c)
    /\ live' = live \ {c}
    /\ UNCHANGED <<fork, sim, sweep>>

Crash(c) ==
    /\ Alive(c) /\ ~anvil[c].term
    /\ anvil' = [anvil EXCEPT ![c] = Crashed(anvil[c])]
    /\ live' = live \ {c}
    /\ UNCHANGED <<fork, sim, sweep>>

(* stopAnvil: at once when the child has an exit code, otherwise a SIGTERM *)
(* and a wait, also when a signal has ended the child before.              *)
Stop(s) ==
    LET c == fork[s].child
    IN  /\ fork[s].pc = "ready"
        /\ \/ /\ Alive(c) \/ anvil[c].crashed \/ anvil[c].term
              /\ anvil' = IF Alive(c) THEN Signalled(c) ELSE anvil
              /\ fork' = SetPc(s, "closing")
              /\ UNCHANGED live
           \/ /\ ~Alive(c)
              /\ live' = live \ {c}
              /\ fork' = [fork EXCEPT ![s] = NoFork]
              /\ anvil' = Released(c)
        /\ UNCHANGED <<sim, sweep>>

(* It is over when the child exits or, after two seconds, by a SIGKILL.    *)
Stopped(s) ==
    LET c == fork[s].child
    IN  /\ fork[s].pc = "closing"
        /\ anvil' = Released(c)
        /\ live' = live \ {c}
        /\ fork' = [fork EXCEPT ![s] = NoFork]
        /\ UNCHANGED <<sim, sweep>>

-----------------------------------------------------------------------------
(***************************************************************************)
(* The simulator's shutdown: worker.close waits for the active jobs, then  *)
(* stopAllAnvils stops the instances of the set, then the process exits.   *)
(***************************************************************************)
Terminate ==
    /\ sim = "up"
    /\ sim' = "draining"
    /\ UNCHANGED <<anvil, fork, live, sweep>>

SimLive == {c \in live : \E s \in SimSessions : fork[s].child = c}

Sweep ==
    /\ sim = "draining"
    /\ sim' = "stopping"
    /\ sweep' = SimLive
    /\ anvil' = [c \in Children |->
                    IF c \in SimLive /\ Alive(c) THEN Warned(anvil[c]) ELSE anvil[c]]
    /\ live' = live \ {c \in SimLive : ~Alive(c)}
    /\ UNCHANGED fork

SweepKills(c) ==
    /\ sim = "stopping" /\ c \in sweep /\ Alive(c)
    /\ anvil' = Gone(c)
    /\ live' = live \ {c}
    /\ UNCHANGED <<fork, sim, sweep>>

ExitProcess ==
    /\ sim = "stopping"
    /\ \A c \in sweep : ~Alive(c)
    /\ sim' = "exited"
    /\ fork' = [s \in Sessions |->
                   IF s \in SimSessions
                   THEN [pc |-> "gone", child |-> fork[s].child,
                         port |-> fork[s].port, pin |-> fork[s].pin]
                   ELSE fork[s]]
    /\ UNCHANGED <<anvil, live, sweep>>

-----------------------------------------------------------------------------
StartNext(s) ==
    \/ \E pin \in Pins : Spawn(s, pin)
    \/ Check(s) \/ Healthy(s) \/ Unhealthy(s) \/ StartFails(s)
ChildNext(c) == Bind(c) \/ Exit(c) \/ Crash(c) \/ SweepKills(c)

ForkNext ==
    \/ \E s \in Sessions : StartNext(s) \/ Stop(s) \/ Stopped(s)
    \/ \E c \in Children : ChildNext(c)
    \/ Terminate \/ Sweep \/ ExitProcess

ForkSpec == ForkInit /\ [][ForkNext]_forkVars

(***************************************************************************)
(* What the pool promises.                                                 *)
(***************************************************************************)
(* Every child still running is held by a session that will stop it, was   *)
(* told to end, or was spawned by the simulator after, or still starting   *)
(* at, the sweep of its shutdown (anvil.ts:134, 194; main.ts:63).          *)
NoForkLeftBehind ==
    \A c \in Children : Alive(c) /\ ~anvil[c].term =>
        \E s \in Sessions :
            /\ fork[s].child = c
            /\ \/ fork[s].pc \in {"starting", "checking", "ready"}
               \/ fork[s].pc = "gone" /\ c \notin sweep

(* A session works on another session's fork only if their starts          *)
(* overlapped on one port, or its own child crashed or was swept away      *)
(* (anvil.ts:61-78, 111-125).                                              *)
ForeignForkIsExplained ==
    \A s \in Sessions, c \in Children :
        /\ fork[s].pc = "ready" /\ Answers(s, c) /\ c # fork[s].child
        => LET own == anvil[fork[s].child]
           IN  own.raced \/ own.crashed \/ own.term
=============================================================================
