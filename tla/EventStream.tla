---------------------------- MODULE EventStream ----------------------------
(***************************************************************************)
(* How a browser follows a simulation: GET /simulations/:id/stream         *)
(* (apps/api simulations.controller.ts), which polls the run document and  *)
(* sends what is new, and the page (apps/web use-simulation-stream.ts and  *)
(* useSimulation of use-api.ts), which builds its copy of the run from the *)
(* stream, from refetches, and from the fetch it makes on a stream error.  *)
(*                                                                         *)
(* The event list only grows, so what a read returns is its length and the *)
(* status: a Snapshot.  An event's id, and the pair of type and time the   *)
(* page compares, are its place in the list.  The page stays open.         *)
(***************************************************************************)
EXTENDS Naturals, Sequences

CONSTANTS
    MaxLog,         \* bound of the event list
    MaxFetches,     \* fetches of the error handler under way
    Budgets         \* how often each event of the environment may happen: some choices

StreamEventKinds == {"mark", "requeue", "trace", "overlap", "drop", "refused",
                     "pollError", "fetchError"}

ASSUME StreamAssumption ==
    /\ MaxLog \in Nat \ {0}
    /\ MaxFetches \in Nat \ {0}
    /\ Budgets \subseteq [StreamEventKinds -> Nat]

VARIABLES
    status,     \* the status of the run document
    log,        \* its events, as their types
    writers,    \* who is between the read and the write of the document
    conn,       \* the handler of the connection
    wire,       \* what was written to the response and not yet read
    source,     \* the EventSource
    lastId,     \* the id it saw last: its Last-Event-ID
    view,       \* the copy of the run in the page's cache
    refetch,    \* the fetch of useSimulation
    asked,      \* fetches of the error handler that were not answered
    answers,    \* and those whose answer has not arrived
    left

document == <<status, log, writers>>
page == <<source, lastId, view, refetch, asked, answers>>
vars == <<document, conn, wire, page, left>>

OpenStatuses == {"QUEUED", "RUNNING"}
Final == {"COMPLETED", "FAILED"}
Statuses == OpenStatuses \cup Final \cup {"STALE", "CANCELLED"}

\* One event type stands for those that come between the start and the end of
\* a run, one for the AGENT_ types nobody listens to.
Named == {"SIMULATION_QUEUED", "FORK_STARTING", "RISK_MEASURED", "PROOF_READY",
          "FAILED", "CANCELLED"}
EventTypes == Named \cup {"AGENT_OBSERVATION"}
Closing == {"PROOF_READY", "FAILED", "CANCELLED"}

Ids == 1..MaxLog
Snapshot == [length : 0..MaxLog, status : Statuses]
Now == [length |-> Len(log), status |-> status]

NoConnection == [state |-> "none", cursor |-> 0, polls |-> {}]
NoView == [status |-> "none", events |-> {}]
NoFetch == [length |-> 0, status |-> "none"]
Asked == [length |-> 0, status |-> "asked"]

ListenedIn(n) == {i \in 1..n : log[i] \in Named}
Viewed(s) == [status |-> s.status, events |-> 1..s.length]

Init ==
    /\ status = "QUEUED"
    /\ log = <<"SIMULATION_QUEUED">>
    /\ writers = {}
    /\ conn = NoConnection
    /\ wire = <<>>
    /\ source = "connecting"
    /\ lastId = 0
    /\ view = NoView
    /\ refetch = Asked
    /\ asked = 0
    /\ answers = {}
    /\ left \in Budgets

Spend(kind) ==
    /\ left[kind] > 0
    /\ left' = [left EXCEPT ![kind] = @ - 1]
-----------------------------------------------------------------------------
(* The document, as the worker, the indexer and a new request write it.    *)

Write(type, next) ==
    /\ Len(log) < MaxLog
    /\ log' = Append(log, type)
    /\ status' = next
    /\ UNCHANGED <<conn, wire, page>>

StartRun ==
    /\ status \in OpenStatuses
    /\ "worker" \notin writers
    /\ writers' = writers \cup {"worker"}
    /\ Write("FORK_STARTING", "RUNNING")
    /\ UNCHANGED left

Measure ==
    /\ "worker" \in writers
    /\ Write("RISK_MEASURED", status)
    /\ UNCHANGED <<writers, left>>

EndRun ==
    /\ "worker" \in writers
    /\ writers' = writers \ {"worker"}
    /\ Write("PROOF_READY", "COMPLETED") \/ Write("FAILED", "FAILED")
    /\ UNCHANGED left

\* The agent is not awaited: it may write after the end.
Trace ==
    /\ \E i \in DOMAIN log : log[i] = "RISK_MEASURED"
    /\ Spend("trace")
    /\ Write("AGENT_OBSERVATION", status)
    /\ UNCHANGED writers

MarkFind ==
    /\ status \in OpenStatuses
    /\ Spend("mark")
    /\ writers' = writers \cup {"marker"}
    /\ UNCHANGED <<status, log, conn, wire, page>>

MarkWrite ==
    /\ "marker" \in writers
    /\ writers' = writers \ {"marker"}
    /\ Write("FAILED", "STALE") \/ Write("CANCELLED", "CANCELLED")
    /\ UNCHANGED left

RequeueFind ==
    /\ status \in {"FAILED", "STALE", "CANCELLED"}
    /\ Spend("requeue")
    /\ writers' = writers \cup {"request"}
    /\ UNCHANGED <<status, log, conn, wire, page>>

RequeueWrite ==
    /\ "request" \in writers
    /\ writers' = writers \ {"request"}
    /\ Write("SIMULATION_QUEUED", "QUEUED")
    /\ UNCHANGED left

Writer == StartRun \/ Measure \/ EndRun \/ Trace
          \/ MarkFind \/ MarkWrite \/ RequeueFind \/ RequeueWrite
-----------------------------------------------------------------------------
(* The handler.                                                            *)

\* Mutant of FirstToSend: the event of the cursor is taken for the first new one's.
FirstToSendSkipping(cursor, s) == IF cursor \in 1..s.length THEN cursor + 2 ELSE 1

(* findIndex gives -1 for a cursor the snapshot does not have yet, so that *)
(* everything is sent again.                                               *)
FirstToSend(cursor, s) == IF cursor \in 1..s.length THEN cursor + 1 ELSE 1

Replayed(cursor, s) ==
    LET first == FirstToSend(cursor, s) IN
    [i \in 1..(s.length + 1 - first) |-> [id |-> first + i - 1, status |-> s.status]]

\* Mutant of CursorAfter: the cursor is the place of the next event.
CursorAfterNext(cursor, s) == s.length + 1

CursorAfter(cursor, s) == IF FirstToSend(cursor, s) > s.length THEN cursor ELSE s.length

\* Mutant of EndsAfter: a failed run keeps the stream polling.
EndsAfterCompletion(s) == s.status = "COMPLETED"

EndsAfter(s) == s.status \in Final

(* The request of the EventSource and the first replay.                    *)
Connect ==
    /\ source = "connecting"
    /\ source' = "open"
    /\ wire' = Replayed(lastId, Now)
    /\ conn' = [state |-> IF EndsAfter(Now) THEN "ended" ELSE "open",
                cursor |-> CursorAfter(lastId, Now), polls |-> {}]
    /\ UNCHANGED <<document, lastId, view, refetch, asked, answers, left>>

(* The timer: getRun is called and reads the document, whether or not the  *)
(* poll before was answered.                                               *)
Poll ==
    /\ conn.state = "open"
    /\ IF conn.polls = {} THEN UNCHANGED left ELSE Spend("overlap")
    /\ conn' = [conn EXCEPT !.polls = @ \cup {Now}]
    /\ UNCHANGED <<document, wire, page>>

(* One of the answers arrives, not always the oldest.                      *)
PollAnswer(s) ==
    /\ conn.state = "open"
    /\ s \in conn.polls
    /\ wire' = wire \o Replayed(conn.cursor, s)
    /\ conn' = [state |-> IF EndsAfter(s) THEN "ended" ELSE "open",
                cursor |-> CursorAfter(conn.cursor, s),
                polls |-> IF EndsAfter(s) THEN {} ELSE conn.polls \ {s}]
    /\ UNCHANGED <<document, page, left>>

PollFails ==
    /\ conn.state = "open"
    /\ Spend("pollError")
    /\ conn' = [conn EXCEPT !.state = "ended", !.polls = {}]
    /\ UNCHANGED <<document, wire, page>>
-----------------------------------------------------------------------------
(* The page.                                                               *)

(* onerror: the browser reconnects, unless the request was answered with   *)
(* an error, and the handler fetches the run.                              *)
StreamError(next) ==
    /\ source' = next
    /\ conn' = NoConnection
    /\ wire' = <<>>
    /\ asked' = IF asked < MaxFetches THEN asked + 1 ELSE asked
    /\ UNCHANGED <<document, lastId, view, refetch, answers>>

EndOfStream ==
    /\ source = "open"
    /\ conn.state = "ended"
    /\ wire = <<>>
    /\ StreamError("connecting")
    /\ UNCHANGED left

Drop == source = "open" /\ Spend("drop") /\ StreamError("connecting")
Refused == source = "connecting" /\ Spend("refused") /\ StreamError("closed")

(* applyEvent, on the types it listens to, while there is a copy; a final  *)
(* status makes the query start over, or go on with its first fetch.       *)
Receive ==
    /\ wire # <<>>
    /\ LET m == Head(wire) IN
         /\ lastId' = m.id
         /\ IF log[m.id] \in Named
              THEN /\ view' = IF view = NoView THEN NoView
                              ELSE [status |-> m.status, events |-> view.events \cup {m.id}]
                   /\ refetch' = IF m.status \in Final /\ view # NoView
                                   THEN Asked ELSE refetch
              ELSE UNCHANGED <<view, refetch>>
    /\ wire' = Tail(wire)
    /\ UNCHANGED <<document, conn, source, asked, answers, left>>

\* Mutant of RefetchTimer: only queued runs are refetched.
RefetchTimerQueued ==
    /\ view.status = "QUEUED"
    /\ refetch = NoFetch
    /\ refetch' = Asked
    /\ UNCHANGED <<document, conn, wire, source, lastId, view, asked, answers, left>>

(* refetchInterval.                                                        *)
RefetchTimer ==
    /\ view.status \in OpenStatuses
    /\ refetch = NoFetch
    /\ refetch' = Asked
    /\ UNCHANGED <<document, conn, wire, source, lastId, view, asked, answers, left>>

RefetchRead ==
    /\ refetch = Asked
    /\ refetch' = Now
    /\ UNCHANGED <<document, conn, wire, source, lastId, view, asked, answers, left>>

RefetchArrives ==
    /\ refetch \in Snapshot
    /\ view' = Viewed(refetch)
    /\ refetch' = NoFetch
    /\ UNCHANGED <<document, conn, wire, source, lastId, asked, answers, left>>

ErrorFetchRead ==
    /\ asked > 0
    /\ asked' = asked - 1
    /\ answers' = answers \cup {Now}
    /\ UNCHANGED <<document, conn, wire, source, lastId, view, refetch, left>>

ErrorFetchFails ==
    /\ asked > 0
    /\ Spend("fetchError")
    /\ asked' = asked - 1
    /\ UNCHANGED <<document, conn, wire, source, lastId, view, refetch, answers>>

ErrorFetchArrives(s) ==
    /\ s \in answers
    /\ answers' = answers \ {s}
    /\ view' = Viewed(s)
    /\ IF s.status \in Final
         THEN /\ source' = "closed"
              /\ conn' = NoConnection
              /\ wire' = <<>>
         ELSE UNCHANGED <<source, conn, wire>>
    /\ UNCHANGED <<document, lastId, refetch, asked, left>>

Next ==
    \/ Writer
    \/ Connect \/ Poll \/ PollFails \/ \E s \in conn.polls : PollAnswer(s)
    \/ EndOfStream \/ Drop \/ Refused \/ Receive
    \/ RefetchTimer \/ RefetchRead \/ RefetchArrives
    \/ ErrorFetchRead \/ ErrorFetchFails \/ \E s \in answers : ErrorFetchArrives(s)

Spec == Init /\ [][Next]_vars

(* Calls return, timers fire, the browser reconnects; nobody has to write, *)
(* but the last writer to have read the document does.                     *)
Fairness ==
    /\ WF_vars(Connect) /\ WF_vars(Poll) /\ WF_vars(EndOfStream) /\ WF_vars(Receive)
    /\ WF_vars(\E s \in conn.polls : PollAnswer(s))
    /\ WF_vars(RefetchTimer) /\ WF_vars(RefetchRead) /\ WF_vars(RefetchArrives)
    /\ WF_vars(ErrorFetchRead) /\ WF_vars(\E s \in answers : ErrorFetchArrives(s))

FairSpec == Spec /\ Fairness
-----------------------------------------------------------------------------
(* Every variable holds values of its type. *)
StreamTypeOK ==
    /\ status \in Statuses
    /\ log \in Seq(EventTypes)
    /\ Len(log) \in Ids
    /\ writers \subseteq {"worker", "marker", "request"}
    /\ conn.state \in {"none", "open", "ended"}
    /\ conn.cursor \in 0..Len(log)
    /\ conn.polls \subseteq Snapshot
    /\ wire \in Seq([id : 1..Len(log), status : Statuses])
    /\ source \in {"connecting", "open", "closed"}
    /\ lastId \in 0..Len(log)
    /\ view \in [status : Statuses, events : SUBSET (1..Len(log))] \cup {NoView}
    /\ refetch \in Snapshot \cup {NoFetch, Asked}
    /\ asked \in 0..MaxFetches
    /\ answers \subseteq Snapshot
    /\ left \in [StreamEventKinds -> Nat]

(* Although polls overlap and answer in any order, and connections are cut *)
(* with events under way, an event is followed by its successor or by a    *)
(* repetition: what the page hears of is always a beginning of the log.    *)
NothingSkipped ==
    \A i \in DOMAIN wire :
        wire[i].id <= 1 + (IF i = 1 THEN lastId ELSE wire[i - 1].id)

(* A run is revived when something other than a trace was written after    *)
(* its end: by a new request, or by a worker and a marker that race.       *)
Revived == \E i, j \in DOMAIN log :
             /\ i < j
             /\ log[i] \in Closing
             /\ log[j] # "AGENT_OBSERVATION"

(* Whatever fetches, polls and stream events cross each other, the page    *)
(* keeps coming back to the stored status, and of a COMPLETED or FAILED    *)
(* run to all the events it listens to, unless the run is revived.  (Of a  *)
(* STALE or CANCELLED run it may lack one that came before its first       *)
(* fetch: nothing makes it fetch again.)                                   *)
ViewConverges ==
    []<>(\/ /\ view.status = status
            /\ status \in Final => ListenedIn(Len(log)) \subseteq view.events
         \/ Revived)

(* The connection of a run that rests COMPLETED or FAILED is ended by the  *)
(* server, and the browser stops asking for another one, though errors may *)
(* hit the poll or the fetch that lets it stop.                            *)
StreamsEnd ==
    <>[](status \in Final) => <>[](source = "closed" /\ conn = NoConnection)
=============================================================================
