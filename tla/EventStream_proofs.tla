------------------------ MODULE EventStream_proofs ------------------------
(***************************************************************************)
(* TLAPS proofs about EventStream: for every bound of the log and of the   *)
(* fetches, and every budget.                                              *)
(*                                                                         *)
(* NothingSkipped says nothing of what the handler will send.  What it     *)
(* rests on is NotAhead: the cursor of a connection is never past the last *)
(* id that the page has heard or is about to hear.  An answer then starts  *)
(* at most one event after that id, whatever older answer was sent before  *)
(* it, and leaves the cursor on the last event it sent.  For the types,    *)
(* every snapshot that somebody still holds is of the past (PastOnly): the *)
(* log has not become shorter since.                                       *)
(***************************************************************************)
EXTENDS EventStream, SequenceTheorems, TLAPS

LogTyped ==
    /\ status \in Statuses
    /\ log \in Seq(EventTypes)
    /\ Len(log) \in Ids
    /\ writers \subseteq {"worker", "marker", "request"}
    /\ left \in [StreamEventKinds -> Nat]

Connections == [state : {"none", "open", "ended"}, cursor : 0..Len(log), polls : SUBSET Snapshot]
Sent == [id : 1..Len(log), status : Statuses]
Views == [status : Statuses, events : SUBSET (1..Len(log))] \cup {NoView}

StreamTyped ==
    /\ conn \in Connections
    /\ wire \in Seq(Sent)
    /\ source \in {"connecting", "open", "closed"}
    /\ lastId \in 0..Len(log)

PageTyped ==
    /\ view \in Views
    /\ refetch \in Snapshot \cup {NoFetch, Asked}
    /\ asked \in 0..MaxFetches
    /\ answers \subseteq Snapshot

PastOnly ==
    /\ \A s \in conn.polls \cup answers : s.length <= Len(log)
    /\ refetch \in Snapshot => refetch.length <= Len(log)

(* The last id the page has seen once it has read w, and that nothing on   *)
(* w skips an event (NothingSkipped is SkipsNothing(wire)).                *)
Heard(w) == IF w = <<>> THEN lastId ELSE w[Len(w)].id

SkipsNothing(w) ==
    \A i \in DOMAIN w : w[i].id <= 1 + (IF i = 1 THEN lastId ELSE w[i - 1].id)

NotAhead == conn.state = "open" => conn.cursor <= Heard(wire)

StreamInv == LogTyped /\ StreamTyped /\ PageTyped /\ PastOnly /\ NotAhead /\ NothingSkipped
-----------------------------------------------------------------------------
(* What a snapshot and a cursor make the handler send.                     *)

LEMMA SnapshotFacts ==
    ASSUME NEW s \in Snapshot
    PROVE  s.length \in Nat /\ s.length <= MaxLog /\ s.status \in Statuses
  BY StreamAssumption DEF Snapshot

LEMMA NowIsSnapshot == LogTyped => Now \in Snapshot /\ Now.length = Len(log)
  BY StreamAssumption DEF LogTyped, Now, Snapshot, Ids

LEMMA NoSnapshot == NoFetch \notin Snapshot /\ Asked \notin Snapshot
  BY DEF NoFetch, Asked, Snapshot, Statuses, OpenStatuses, Final

(* It starts at most one after the cursor, and goes on to the end of the   *)
(* snapshot, one after the other.                                          *)
LEMMA FirstFacts ==
    ASSUME NEW cursor \in Nat, NEW s \in Snapshot
    PROVE  /\ FirstToSend(cursor, s) \in Nat
           /\ FirstToSend(cursor, s) >= 1
           /\ FirstToSend(cursor, s) <= cursor + 1
           /\ FirstToSend(cursor, s) <= s.length + 1
  BY SnapshotFacts DEF FirstToSend

LEMMA ReplayedFacts ==
    ASSUME NEW cursor \in Nat, NEW s \in Snapshot
    PROVE  LET first == FirstToSend(cursor, s)
               sent == Replayed(cursor, s)
           IN  /\ sent \in Seq([id : 1..s.length, status : Statuses])
               /\ Len(sent) = s.length + 1 - first
               /\ \A i \in 1..Len(sent) : sent[i].id = first + i - 1
<1> DEFINE first == FirstToSend(cursor, s)
           n == s.length + 1 - first
           S == [id : 1..s.length, status : Statuses]
           e(i) == [id |-> first + i - 1, status |-> s.status]
<1>1. first \in Nat /\ first >= 1 /\ first <= s.length + 1
  BY FirstFacts
<1>2. n \in Nat
  BY <1>1, SnapshotFacts
<1>3. \A i \in 1..n : e(i) \in S
  BY <1>1, SnapshotFacts
<1>4. Replayed(cursor, s) = [i \in 1..n |-> e(i)]
  BY DEF Replayed
<1> HIDE DEF n, S, first
<1>5. [i \in 1..n |-> e(i)] \in Seq(S)
  BY <1>2, <1>3, IsASeq
<1>6. Len([i \in 1..n |-> e(i)]) = n
  BY <1>2, <1>5, LenProperties
<1>7. \A i \in 1..n : [j \in 1..n |-> e(j)][i].id = first + i - 1
  OBVIOUS
<1> QED
  BY <1>4, <1>5, <1>6, <1>7 DEF n, S, first

(* The cursor is then on the last event sent, or where it was.             *)
LEMMA CursorFacts ==
    ASSUME NEW cursor \in Nat, NEW s \in Snapshot
    PROVE  /\ CursorAfter(cursor, s) \in Nat
           /\ Replayed(cursor, s) = <<>> => CursorAfter(cursor, s) = cursor
           /\ LET sent == Replayed(cursor, s) IN
                sent # <<>> => /\ CursorAfter(cursor, s) = s.length
                               /\ sent[Len(sent)].id = s.length
                               /\ sent[1].id <= cursor + 1
<1> DEFINE first == FirstToSend(cursor, s)
           sent == Replayed(cursor, s)
<1>1. first \in Nat /\ first >= 1 /\ first <= cursor + 1 /\ first <= s.length + 1
  BY FirstFacts
<1>2. /\ sent \in Seq([id : 1..s.length, status : Statuses])
      /\ Len(sent) = s.length + 1 - first
      /\ \A i \in 1..Len(sent) : sent[i].id = first + i - 1
  BY ReplayedFacts
<1>3. sent = <<>> <=> Len(sent) = 0
  BY <1>2, EmptySeq, LenProperties
<1>4. s.length \in Nat
  BY SnapshotFacts
<1>5. CASE sent = <<>>
  BY <1>1, <1>2, <1>3, <1>4, <1>5 DEF CursorAfter
<1>6. CASE sent # <<>>
  <2>1. first <= s.length /\ Len(sent) \in Nat /\ Len(sent) >= 1
    BY <1>1, <1>2, <1>3, <1>4, <1>6
  <2>2. sent[1].id = first /\ sent[Len(sent)].id = s.length
    BY <1>1, <1>2, <1>4, <2>1
  <2> QED
    BY <1>1, <1>4, <1>6, <2>1, <2>2 DEF CursorAfter
<1> QED
  BY <1>5, <1>6
-----------------------------------------------------------------------------
(* What is sent from a cursor that is not ahead follows what was sent.     *)
LEMMA SendingSkipsNothing ==
    ASSUME LogTyped, lastId \in 0..Len(log),
           NEW w \in Seq(Sent), SkipsNothing(w),
           NEW cursor \in Nat, cursor <= Heard(w),
           NEW s \in Snapshot, s.length <= Len(log)
    PROVE  LET next == w \o Replayed(cursor, s) IN
           /\ next \in Seq(Sent)
           /\ SkipsNothing(next)
           /\ CursorAfter(cursor, s) <= Heard(next)
           /\ CursorAfter(cursor, s) \in 0..Len(log)
<1> DEFINE sent == Replayed(cursor, s)
           next == w \o sent
           first == FirstToSend(cursor, s)
<1>1. s.length \in Nat /\ Len(log) \in Nat /\ 1..s.length \subseteq 1..Len(log)
  BY SnapshotFacts, StreamAssumption DEF LogTyped, Ids
<1>2. sent \in Seq(Sent)
  <2>1. sent \in Seq([id : 1..s.length, status : Statuses])
    BY ReplayedFacts
  <2>2. [id : 1..s.length, status : Statuses] \subseteq Sent
    BY <1>1 DEF Sent
  <2> QED
    BY <2>1, <2>2, SeqMonotonic
<1>3. /\ next \in Seq(Sent)
      /\ Len(next) = Len(w) + Len(sent)
      /\ \A i \in 1..(Len(w) + Len(sent)) :
           next[i] = IF i <= Len(w) THEN w[i] ELSE sent[i - Len(w)]
  BY <1>2, ConcatProperties
<1>4. /\ Len(w) \in Nat /\ DOMAIN w = 1..Len(w)
      /\ Len(sent) \in Nat /\ DOMAIN next = 1..(Len(w) + Len(sent))
  BY <1>2, <1>3, LenProperties
<1>5. /\ w = <<>> <=> Len(w) = 0
      /\ sent = <<>> <=> Len(sent) = 0
      /\ next = <<>> <=> Len(next) = 0
  BY <1>2, <1>3, EmptySeq
<1>6. \A i \in 1..Len(w) : w[i].id \in 1..Len(log)
  <2>1. w \in [1..Len(w) -> Sent]
    BY LenProperties
  <2> QED
    BY <2>1 DEF Sent
<1>7. Heard(w) \in Nat /\ Heard(w) <= Len(log)
  BY <1>1, <1>4, <1>5, <1>6 DEF Heard
<1>8. CursorAfter(cursor, s) \in Nat
  BY CursorFacts
<1>9. CASE sent = <<>>
  <2>1. next = w
    BY <1>9, ConcatEmptySeq
  <2>2. CursorAfter(cursor, s) = cursor
    BY <1>9, CursorFacts
  <2> QED
    BY <1>1, <1>7, <2>1, <2>2
<1>10. CASE sent # <<>>
  <2>1. /\ CursorAfter(cursor, s) = s.length
        /\ sent[Len(sent)].id = s.length
        /\ sent[1].id <= cursor + 1
    BY <1>10, CursorFacts
  <2>2. \A i \in 1..Len(sent) : sent[i].id = first + i - 1
    BY ReplayedFacts
  <2>3. first \in Nat
    BY FirstFacts
  <2>4. Len(sent) >= 1
    BY <1>4, <1>5, <1>10
  <2>5. Heard(next) = s.length
    <3>1. next # <<>> /\ next[Len(next)] = sent[Len(sent)]
      BY <1>3, <1>4, <1>5, <2>4
    <3> QED
      BY <2>1, <3>1 DEF Heard
  <2>6. ASSUME NEW i \in DOMAIN next
        PROVE  next[i].id <= 1 + (IF i = 1 THEN lastId ELSE next[i - 1].id)
    <3>1. i \in Nat /\ i >= 1 /\ i <= Len(w) + Len(sent)
      BY <1>4
    <3>2. CASE i <= Len(w)
      <4>1. next[i] = w[i] /\ (i # 1 => next[i - 1] = w[i - 1])
        BY <1>3, <1>4, <3>1, <3>2
      <4>2. w[i].id <= 1 + (IF i = 1 THEN lastId ELSE w[i - 1].id)
        <5>1. i \in DOMAIN w
          BY <1>4, <3>1, <3>2
        <5> QED
          BY <5>1 DEF SkipsNothing
      <4> QED
        BY <4>1, <4>2
    <3>3. CASE i = Len(w) + 1
      <4>1. next[i] = sent[1]
        BY <1>3, <1>4, <2>4, <3>3
      <4>2. next[i].id \in Nat /\ next[i].id <= 1 + Heard(w)
        BY <1>7, <2>1, <2>2, <2>3, <2>4, <4>1
      <4>3. i # 1 => next[i - 1] = w[Len(w)] /\ w # <<>>
        BY <1>3, <1>4, <1>5, <3>1, <3>3
      <4>4. i = 1 => w = <<>>
        BY <1>4, <1>5, <3>3
      <4>5. CASE i = 1
        <5>1. Heard(w) = lastId
          BY <4>4, <4>5 DEF Heard
        <5> QED
          BY <4>2, <4>5, <5>1
      <4>6. CASE i # 1
        <5>1. Heard(w) = next[i - 1].id
          BY <4>3, <4>6 DEF Heard
        <5> QED
          BY <4>2, <4>6, <5>1
      <4> QED
        BY <4>5, <4>6
    <3>4. CASE i > Len(w) + 1
      <4>1. next[i] = sent[i - Len(w)] /\ next[i - 1] = sent[(i - 1) - Len(w)]
        BY <1>3, <1>4, <3>1, <3>4
      <4>2. i - Len(w) \in 1..Len(sent) /\ (i - 1) - Len(w) \in 1..Len(sent)
        BY <1>4, <3>1, <3>4
      <4>3. /\ next[i].id = first + (i - Len(w)) - 1
            /\ next[i - 1].id = first + ((i - 1) - Len(w)) - 1
        BY <2>2, <4>1, <4>2
      <4> QED
        BY <1>4, <2>3, <3>1, <3>4, <4>3
    <3> QED
      BY <1>4, <3>1, <3>2, <3>3, <3>4
  <2>7. SkipsNothing(next)
    BY <2>6 DEF SkipsNothing
  <2> QED
    BY <1>1, <1>3, <2>1, <2>5, <2>7
<1> QED
  BY <1>9, <1>10
-----------------------------------------------------------------------------
LEMMA Spending ==
    ASSUME LogTyped, NEW kind \in StreamEventKinds, Spend(kind)
    PROVE  left' \in [StreamEventKinds -> Nat]
  BY DEF LogTyped, Spend

LEMMA InitStream == Init => StreamInv
<1> SUFFICES ASSUME Init PROVE StreamInv
  OBVIOUS
<1>1. log \in Seq(EventTypes) /\ Len(log) = 1
  BY DEF Init, EventTypes, Named
<1>2. LogTyped
  BY <1>1, StreamAssumption DEF Init, LogTyped, Ids, Statuses, OpenStatuses
<1>3. /\ NoConnection \in Connections
      /\ NoConnection.state = "none" /\ NoConnection.polls = {}
  BY <1>1 DEF NoConnection, Connections
<1>4. wire \in Seq(Sent)
  BY EmptySeq DEF Init
<1>5. StreamTyped /\ PageTyped
  BY <1>1, <1>3, <1>4, StreamAssumption DEF Init, StreamTyped, PageTyped, Views
<1>6. PastOnly /\ NotAhead
  BY <1>3, NoSnapshot DEF Init, PastOnly, NotAhead
<1>7. NothingSkipped
  BY EmptySeq DEF Init, NothingSkipped
<1> QED
  BY <1>2, <1>5, <1>6, <1>7 DEF StreamInv

(* The log only grows, so what was of the past stays so.                   *)
LEMMA WriteKeeps ==
    ASSUME StreamInv, NEW type \in EventTypes, NEW next \in Statuses, Write(type, next),
           writers' \subseteq {"worker", "marker", "request"},
           left' \in [StreamEventKinds -> Nat]
    PROVE  StreamInv'
<1>1. /\ log' = Append(log, type) /\ Len(log) < MaxLog /\ status' = next
      /\ UNCHANGED <<conn, wire, source, lastId, view, refetch, asked, answers>>
  BY DEF Write, page
<1>2. /\ log \in Seq(EventTypes) /\ Len(log) \in Nat /\ Len(log) >= 1
  BY StreamAssumption DEF StreamInv, LogTyped, Ids
<1>3. /\ log' \in Seq(EventTypes) /\ Len(log') = Len(log) + 1
  BY <1>1, <1>2, AppendProperties
<1>4. LogTyped'
  BY <1>1, <1>2, <1>3, StreamAssumption DEF LogTyped, Ids
<1>5. /\ 0..Len(log) \subseteq 0..Len(log') /\ 1..Len(log) \subseteq 1..Len(log')
  BY <1>2, <1>3
<1>6. wire' \in Seq(Sent')
  <2>1. Sent \subseteq Sent'
    BY <1>5 DEF Sent
  <2>2. wire \in Seq(Sent)
    BY DEF StreamInv, StreamTyped
  <2>3. wire \in Seq(Sent')
    BY <2>1, <2>2, SeqMonotonic
  <2> QED
    BY <1>1, <2>3
<1>7. StreamTyped'
  BY <1>1, <1>5, <1>6 DEF StreamInv, StreamTyped, Connections
<1>8. PageTyped'
  BY <1>1, <1>5 DEF StreamInv, PageTyped, Views
<1>9. PastOnly'
  <2>1. \A s \in Snapshot : s.length <= Len(log) => s.length <= Len(log')
    BY <1>2, <1>3, SnapshotFacts
  <2>2. conn.polls \subseteq Snapshot /\ answers \subseteq Snapshot
    BY DEF StreamInv, StreamTyped, PageTyped, Connections
  <2> QED
    BY <1>1, <2>1, <2>2 DEF StreamInv, PastOnly
<1>10. NotAhead' /\ NothingSkipped'
  BY <1>1 DEF StreamInv, NotAhead, Heard, NothingSkipped
<1> QED
  BY <1>4, <1>7, <1>8, <1>9, <1>10 DEF StreamInv

LEMMA WriterKeeps == ASSUME StreamInv, Writer PROVE StreamInv'
<1>1. /\ status \in Statuses
      /\ writers \subseteq {"worker", "marker", "request"}
      /\ left \in [StreamEventKinds -> Nat]
  BY DEF StreamInv, LogTyped
<1>2. {"SIMULATION_QUEUED", "FORK_STARTING", "RISK_MEASURED", "PROOF_READY", "FAILED",
       "CANCELLED", "AGENT_OBSERVATION"} \subseteq EventTypes
  BY DEF EventTypes, Named
<1>3. {"QUEUED", "RUNNING", "COMPLETED", "FAILED", "STALE", "CANCELLED"} \subseteq Statuses
  BY DEF Statuses, OpenStatuses, Final
<1>4. CASE StartRun
  BY <1>1, <1>2, <1>3, <1>4, WriteKeeps DEF StartRun
<1>5. CASE Measure
  BY <1>1, <1>2, <1>5, WriteKeeps DEF Measure
<1>6. CASE EndRun
  <2>1. /\ writers' \subseteq {"worker", "marker", "request"}
        /\ left' \in [StreamEventKinds -> Nat]
    BY <1>1, <1>6 DEF EndRun
  <2> QED
    BY <1>2, <1>3, <1>6, <2>1, WriteKeeps DEF EndRun
<1>7. CASE Trace
  <2>1. left' \in [StreamEventKinds -> Nat]
    BY <1>7, Spending DEF Trace, StreamInv, StreamEventKinds
  <2> QED
    BY <1>1, <1>2, <1>7, <2>1, WriteKeeps DEF Trace
<1>8. CASE MarkWrite
  <2>1. /\ writers' \subseteq {"worker", "marker", "request"}
        /\ left' \in [StreamEventKinds -> Nat]
    BY <1>1, <1>8 DEF MarkWrite
  <2> QED
    BY <1>2, <1>3, <1>8, <2>1, WriteKeeps DEF MarkWrite
<1>9. CASE RequeueWrite
  <2>1. /\ writers' \subseteq {"worker", "marker", "request"}
        /\ left' \in [StreamEventKinds -> Nat]
    BY <1>1, <1>9 DEF RequeueWrite
  <2> QED
    BY <1>2, <1>3, <1>9, <2>1, WriteKeeps DEF RequeueWrite
<1>10. CASE MarkFind \/ RequeueFind
  <2>1. left' \in [StreamEventKinds -> Nat]
    BY <1>10, Spending DEF MarkFind, RequeueFind, StreamInv, StreamEventKinds
  <2>2. /\ writers' \subseteq {"worker", "marker", "request"}
        /\ UNCHANGED <<status, log, conn, wire, source, lastId, view, refetch, asked, answers>>
    BY <1>1, <1>10 DEF MarkFind, RequeueFind, page
  <2> QED
    BY <2>1, <2>2 DEF StreamInv, LogTyped, StreamTyped, PageTyped, PastOnly, NotAhead,
       NothingSkipped, Heard, Connections, Sent, Views
<1> QED
  BY <1>4, <1>5, <1>6, <1>7, <1>8, <1>9, <1>10 DEF Writer
-----------------------------------------------------------------------------
(* The handler and the page leave the document alone.                      *)
LEMMA DocumentFrame ==
    ASSUME StreamInv, UNCHANGED document, left' \in [StreamEventKinds -> Nat]
    PROVE  /\ LogTyped' /\ Len(log') = Len(log)
           /\ Connections' = Connections /\ Sent' = Sent /\ Views' = Views
  BY DEF StreamInv, LogTyped, document, Connections, Sent, Views

(* No stream, nothing under way.                                           *)
LEMMA NoStream ==
    ASSUME StreamInv, conn' = NoConnection, wire' = <<>>, UNCHANGED <<document, lastId>>
    PROVE  /\ conn' \in Connections /\ wire' \in Seq(Sent) /\ conn'.polls = {}
           /\ NotAhead' /\ NothingSkipped'
<1>1. /\ NoConnection \in Connections
      /\ NoConnection.state = "none" /\ NoConnection.polls = {}
  BY StreamAssumption DEF NoConnection, Connections, StreamInv, LogTyped, Ids
<1>2. wire' \in Seq(Sent)
  BY EmptySeq
<1>3. NothingSkipped'
  BY EmptySeq DEF NothingSkipped
<1> QED
  BY <1>1, <1>2, <1>3 DEF NotAhead

LEMMA ConnectKeeps == ASSUME StreamInv, Connect PROVE StreamInv'
<1> DEFINE sent == Replayed(lastId, Now)
<1>1. /\ source' = "open" /\ wire' = sent
      /\ conn' = [state |-> IF EndsAfter(Now) THEN "ended" ELSE "open",
                  cursor |-> CursorAfter(lastId, Now), polls |-> {}]
      /\ UNCHANGED <<document, lastId, view, refetch, asked, answers, left>>
  BY DEF Connect
<1>2. Now \in Snapshot /\ Now.length = Len(log) /\ Len(log) \in Nat
  BY NowIsSnapshot, StreamAssumption DEF StreamInv, LogTyped, Ids
<1>3. lastId \in 0..Len(log) /\ lastId \in Nat
  BY <1>2 DEF StreamInv, StreamTyped
<1>4. <<>> \in Seq(Sent) /\ SkipsNothing(<<>>) /\ Heard(<<>>) = lastId
  BY EmptySeq DEF SkipsNothing, Heard
<1>5. sent \in Seq(Sent)
  <2>1. sent \in Seq([id : 1..Now.length, status : Statuses])
    BY <1>2, <1>3, ReplayedFacts
  <2> QED
    BY <1>2, <2>1 DEF Sent
<1>6. <<>> \o sent = sent
  BY <1>5, ConcatEmptySeq
<1>7. /\ SkipsNothing(sent)
      /\ CursorAfter(lastId, Now) <= Heard(sent)
      /\ CursorAfter(lastId, Now) \in 0..Len(log)
  <2>1. LogTyped /\ lastId <= Heard(<<>>)
    BY <1>3, <1>4 DEF StreamInv
  <2>2. /\ SkipsNothing(<<>> \o Replayed(lastId, Now))
        /\ CursorAfter(lastId, Now) <= Heard(<<>> \o Replayed(lastId, Now))
        /\ CursorAfter(lastId, Now) \in 0..Len(log)
    <3>1. ASSUME NEW w \in Seq(Sent), SkipsNothing(w), lastId <= Heard(w)
          PROVE  /\ SkipsNothing(w \o Replayed(lastId, Now))
                 /\ CursorAfter(lastId, Now) <= Heard(w \o Replayed(lastId, Now))
                 /\ CursorAfter(lastId, Now) \in 0..Len(log)
      <4>1. Now.length <= Len(log)
        BY <1>2
      <4> QED
        BY <1>2, <1>3, <2>1, <3>1, <4>1, SendingSkipsNothing
    <3> QED
      BY <1>4, <2>1, <3>1
  <2> QED
    BY <1>6, <2>2
<1>8. LogTyped' /\ Connections' = Connections /\ Sent' = Sent /\ Views' = Views
  BY <1>1, DocumentFrame DEF StreamInv, LogTyped
<1>9. StreamTyped'
  BY <1>1, <1>3, <1>5, <1>7, <1>8 DEF StreamInv, StreamTyped, Connections, document
<1>10. PageTyped' /\ PastOnly'
  BY <1>1, <1>8 DEF StreamInv, PageTyped, PastOnly, document
<1>11. NotAhead' /\ NothingSkipped'
  BY <1>1, <1>7 DEF NotAhead, NothingSkipped, SkipsNothing, Heard
<1> QED
  BY <1>8, <1>9, <1>10, <1>11 DEF StreamInv

LEMMA PollKeeps == ASSUME StreamInv, Poll \/ PollFails PROVE StreamInv'
<1>1. UNCHANGED <<document, wire, source, lastId, view, refetch, asked, answers>>
  BY DEF Poll, PollFails, page
<1>2. left' \in [StreamEventKinds -> Nat]
  BY Spending DEF Poll, PollFails, StreamInv, LogTyped, StreamEventKinds
<1>3. /\ Now \in Snapshot /\ Now.length <= Len(log)
  BY NowIsSnapshot, StreamAssumption DEF StreamInv, LogTyped, Ids
<1>4. conn \in Connections
  BY DEF StreamInv, StreamTyped
<1>5. /\ conn' \in Connections
      /\ conn'.cursor = conn.cursor
      /\ conn'.state \in {conn.state, "ended"}
      /\ conn'.polls \subseteq conn.polls \cup {Now}
  <2>1. CASE Poll
    <3>1. conn' = [conn EXCEPT !.polls = conn.polls \cup {Now}]
      BY <2>1 DEF Poll
    <3>2. conn.polls \cup {Now} \in SUBSET Snapshot
      BY <1>3, <1>4 DEF Connections
    <3> QED
      BY <1>4, <3>1, <3>2 DEF Connections
  <2>2. CASE PollFails
    <3>1. conn' = [conn EXCEPT !.state = "ended", !.polls = {}]
      BY <2>2 DEF PollFails
    <3> QED
      BY <1>4, <3>1 DEF Connections
  <2> QED
    BY <2>1, <2>2
<1>6. LogTyped' /\ Connections' = Connections /\ Sent' = Sent /\ Views' = Views
  BY <1>1, <1>2, DocumentFrame
<1>7. StreamTyped' /\ PageTyped'
  BY <1>1, <1>5, <1>6 DEF StreamInv, StreamTyped, PageTyped, document
<1>8. PastOnly'
  BY <1>1, <1>3, <1>5 DEF StreamInv, PastOnly, document
<1>9. NotAhead' /\ NothingSkipped'
  BY <1>1, <1>5 DEF StreamInv, NotAhead, NothingSkipped, Heard
<1> QED
  BY <1>6, <1>7, <1>8, <1>9 DEF StreamInv

LEMMA PollAnswerKeeps ==
    ASSUME StreamInv, NEW s \in conn.polls, PollAnswer(s) PROVE StreamInv'
<1> DEFINE next == wire \o Replayed(conn.cursor, s)
<1>1. /\ conn.state = "open" /\ wire' = next
      /\ conn' = [state |-> IF EndsAfter(s) THEN "ended" ELSE "open",
                  cursor |-> CursorAfter(conn.cursor, s),
                  polls |-> IF EndsAfter(s) THEN {} ELSE conn.polls \ {s}]
      /\ UNCHANGED <<document, source, lastId, view, refetch, asked, answers, left>>
  BY DEF PollAnswer, page
<1>2. conn \in Connections /\ wire \in Seq(Sent) /\ lastId \in 0..Len(log)
  BY DEF StreamInv, StreamTyped
<1>3. s \in Snapshot /\ s.length <= Len(log) /\ conn.cursor \in Nat
  BY <1>2, StreamAssumption DEF StreamInv, LogTyped, PastOnly, Connections, Ids
<1>4. SkipsNothing(wire) /\ conn.cursor <= Heard(wire)
  BY <1>1 DEF StreamInv, NotAhead, NothingSkipped, SkipsNothing
<1>5. /\ next \in Seq(Sent)
      /\ SkipsNothing(next)
      /\ CursorAfter(conn.cursor, s) <= Heard(next)
      /\ CursorAfter(conn.cursor, s) \in 0..Len(log)
  BY <1>2, <1>3, <1>4, SendingSkipsNothing DEF StreamInv
<1>6. LogTyped' /\ Connections' = Connections /\ Sent' = Sent /\ Views' = Views
  BY <1>1, DocumentFrame DEF StreamInv, LogTyped
<1>7. conn' \in Connections /\ conn'.polls \subseteq conn.polls
  BY <1>1, <1>2, <1>5 DEF Connections
<1>8. StreamTyped' /\ PageTyped'
  BY <1>1, <1>5, <1>6, <1>7 DEF StreamInv, StreamTyped, PageTyped, document
<1>9. PastOnly'
  BY <1>1, <1>7 DEF StreamInv, PastOnly, document
<1>10. NotAhead' /\ NothingSkipped'
  BY <1>1, <1>5 DEF NotAhead, NothingSkipped, SkipsNothing, Heard
<1> QED
  BY <1>6, <1>8, <1>9, <1>10 DEF StreamInv
-----------------------------------------------------------------------------
LEMMA StreamErrorKeeps ==
    ASSUME StreamInv, EndOfStream \/ Drop \/ Refused PROVE StreamInv'
<1>1. /\ source' \in {"connecting", "closed"}
      /\ conn' = NoConnection /\ wire' = <<>>
      /\ asked' \in {asked, asked + 1} /\ (asked' = asked + 1 => asked < MaxFetches)
      /\ UNCHANGED <<document, lastId, view, refetch, answers>>
  BY DEF EndOfStream, Drop, Refused, StreamError, StreamInv, PageTyped
<1>2. left' \in [StreamEventKinds -> Nat]
  BY Spending DEF EndOfStream, Drop, Refused, StreamInv, LogTyped, StreamEventKinds
<1>3. LogTyped' /\ Connections' = Connections /\ Sent' = Sent /\ Views' = Views
  BY <1>1, <1>2, DocumentFrame
<1>4. /\ conn' \in Connections /\ wire' \in Seq(Sent) /\ conn'.polls = {}
      /\ NotAhead' /\ NothingSkipped'
  BY <1>1, NoStream
<1>5. asked' \in 0..MaxFetches
  BY <1>1, StreamAssumption DEF StreamInv, PageTyped
<1>6. StreamTyped' /\ PageTyped'
  BY <1>1, <1>3, <1>4, <1>5 DEF StreamInv, StreamTyped, PageTyped, document
<1>7. PastOnly'
  BY <1>1, <1>4 DEF StreamInv, PastOnly, document
<1> QED
  BY <1>3, <1>4, <1>6, <1>7 DEF StreamInv

(* What was heard before is heard by the one that follows.                 *)
LEMMA ReceiveKeeps == ASSUME StreamInv, Receive PROVE StreamInv'
<1> DEFINE m == Head(wire)
<1>1. /\ wire # <<>> /\ wire' = Tail(wire) /\ lastId' = m.id
      /\ view' \in {view, NoView, [status |-> m.status, events |-> view.events \cup {m.id}]}
      /\ view = NoView => view' = NoView
      /\ refetch' \in {refetch, Asked}
      /\ UNCHANGED <<document, conn, source, asked, answers, left>>
  BY DEF Receive
<1>2. wire \in Seq(Sent)
  BY DEF StreamInv, StreamTyped
<1>3. /\ m \in Sent /\ wire' \in Seq(Sent)
      /\ Len(wire') = Len(wire) - 1
      /\ \A i \in 1..Len(wire') : wire'[i] = wire[i + 1]
      /\ m = wire[1]
  BY <1>1, <1>2, HeadTailProperties
<1>4. /\ Len(wire) \in Nat /\ Len(wire) >= 1 /\ DOMAIN wire = 1..Len(wire)
      /\ DOMAIN wire' = 1..Len(wire')
      /\ wire' = <<>> <=> Len(wire') = 0
  BY <1>1, <1>2, <1>3, LenProperties, EmptySeq
<1>5. LogTyped' /\ Connections' = Connections /\ Sent' = Sent /\ Views' = Views
  BY <1>1, DocumentFrame DEF StreamInv, LogTyped
<1>6. m.id \in 1..Len(log) /\ m.status \in Statuses
  BY <1>3 DEF Sent
<1>7. lastId' \in 0..Len(log) /\ Len(log) \in Nat
  BY <1>1, <1>6, StreamAssumption DEF StreamInv, LogTyped, Ids
<1>8. view' \in Views
  <2>1. view \in Views
    BY DEF StreamInv, PageTyped
  <2>2. CASE view = NoView
    BY <1>1, <2>2 DEF Views
  <2>3. CASE view # NoView
    <3>1. view.events \cup {m.id} \in SUBSET (1..Len(log))
      BY <1>6, <2>1, <2>3 DEF Views
    <3> QED
      BY <1>1, <1>6, <2>1, <3>1 DEF Views
  <2> QED
    BY <2>2, <2>3
<1>9. StreamTyped' /\ PageTyped'
  BY <1>1, <1>3, <1>5, <1>7, <1>8 DEF StreamInv, StreamTyped, PageTyped, document
<1>10. PastOnly'
  BY <1>1, NoSnapshot DEF StreamInv, PastOnly, document
<1>11. NotAhead'
  <2>1. Heard(wire)' = Heard(wire)
    <3>1. CASE Len(wire) = 1
      BY <1>1, <1>3, <1>4, <3>1 DEF Heard
    <3>2. CASE Len(wire) # 1
      <4>1. Len(wire') \in 1..Len(wire') /\ Len(wire') + 1 = Len(wire)
        BY <1>3, <1>4, <3>2
      <4> QED
        BY <1>1, <1>3, <1>4, <4>1 DEF Heard
    <3> QED
      BY <3>1, <3>2
  <2> QED
    BY <1>1, <2>1 DEF StreamInv, NotAhead
<1>12. NothingSkipped'
  <2> SUFFICES ASSUME NEW i \in DOMAIN wire'
               PROVE  wire'[i].id <= 1 + (IF i = 1 THEN lastId' ELSE wire'[i - 1].id)
    BY DEF NothingSkipped
  <2>1. i \in Nat /\ i >= 1 /\ i + 1 \in DOMAIN wire /\ i + 1 # 1 /\ (i + 1) - 1 = i
    BY <1>3, <1>4
  <2>2. wire[i + 1].id <= 1 + wire[i].id
    BY <2>1 DEF StreamInv, NothingSkipped
  <2>3. wire'[i] = wire[i + 1]
    BY <1>3, <1>4
  <2>4. i # 1 => wire'[i - 1] = wire[i]
    <3>1. i # 1 => i - 1 \in 1..Len(wire') /\ (i - 1) + 1 = i
      BY <1>3, <1>4, <2>1
    <3> QED
      BY <1>3, <3>1
  <2> QED
    BY <1>1, <1>3, <2>2, <2>3, <2>4
<1> QED
  BY <1>5, <1>9, <1>10, <1>11, <1>12 DEF StreamInv

(* The fetches give the page what the document was.                        *)
LEMMA ViewedFacts ==
    ASSUME LogTyped, NEW s \in Snapshot, s.length <= Len(log)
    PROVE  Viewed(s) \in Views
<1>1. 1..s.length \subseteq 1..Len(log)
  BY SnapshotFacts, StreamAssumption DEF LogTyped, Ids
<1> QED
  BY <1>1, SnapshotFacts DEF Viewed, Views

LEMMA FetchesKeep ==
    ASSUME StreamInv, UNCHANGED <<document, conn, wire, source, lastId>>,
           left' \in [StreamEventKinds -> Nat],
           view' \in Views, refetch' \in Snapshot \cup {NoFetch, Asked},
           asked' \in 0..MaxFetches, answers' \subseteq Snapshot,
           \A s \in answers' : s.length <= Len(log),
           refetch' \in Snapshot => refetch'.length <= Len(log)
    PROVE  StreamInv'
<1>1. LogTyped' /\ Connections' = Connections /\ Sent' = Sent /\ Views' = Views
  BY DocumentFrame
<1>2. StreamTyped' /\ PageTyped'
  BY <1>1 DEF StreamInv, StreamTyped, PageTyped, document
<1>3. PastOnly'
  BY DEF StreamInv, PastOnly, document
<1>4. NotAhead' /\ NothingSkipped'
  BY DEF StreamInv, NotAhead, NothingSkipped, Heard
<1> QED
  BY <1>1, <1>2, <1>3, <1>4 DEF StreamInv

LEMMA RefetchKeeps ==
    ASSUME StreamInv, RefetchTimer \/ RefetchRead \/ RefetchArrives PROVE StreamInv'
<1>1. /\ Now \in Snapshot /\ Now.length <= Len(log)
      /\ left \in [StreamEventKinds -> Nat]
      /\ view \in Views /\ asked \in 0..MaxFetches /\ answers \subseteq Snapshot
      /\ \A s \in answers : s.length <= Len(log)
  BY NowIsSnapshot, StreamAssumption DEF StreamInv, LogTyped, PageTyped, PastOnly, Ids
<1>2. UNCHANGED <<document, conn, wire, source, lastId, asked, answers, left>>
  BY DEF RefetchTimer, RefetchRead, RefetchArrives
<1>3. CASE RefetchTimer \/ RefetchRead
  <2>1. view' = view /\ refetch' \in {Asked, Now}
    BY <1>3 DEF RefetchTimer, RefetchRead
  <2> QED
    BY <1>1, <1>2, <2>1, NoSnapshot, FetchesKeep
<1>4. CASE RefetchArrives
  <2>1. refetch \in Snapshot /\ view' = Viewed(refetch) /\ refetch' = NoFetch
    BY <1>4 DEF RefetchArrives
  <2>2. view' \in Views
    BY <2>1, ViewedFacts DEF StreamInv, PastOnly
  <2> QED
    BY <1>1, <1>2, <2>1, <2>2, NoSnapshot, FetchesKeep
<1> QED
  BY <1>3, <1>4

LEMMA ErrorFetchKeeps ==
    ASSUME StreamInv,
           ErrorFetchRead \/ ErrorFetchFails \/ \E s \in answers : ErrorFetchArrives(s)
    PROVE  StreamInv'
<1>1. /\ Now \in Snapshot /\ Now.length <= Len(log)
      /\ left \in [StreamEventKinds -> Nat]
      /\ view \in Views /\ asked \in 0..MaxFetches /\ answers \subseteq Snapshot
      /\ refetch \in Snapshot \cup {NoFetch, Asked}
      /\ \A s \in answers : s.length <= Len(log)
      /\ refetch \in Snapshot => refetch.length <= Len(log)
  BY NowIsSnapshot, StreamAssumption DEF StreamInv, LogTyped, PageTyped, PastOnly, Ids
<1>2. CASE ErrorFetchRead \/ ErrorFetchFails
  <2>1. /\ UNCHANGED <<document, conn, wire, source, lastId, view, refetch>>
        /\ asked > 0 /\ asked' = asked - 1
        /\ answers' \subseteq answers \cup {Now}
    BY <1>2 DEF ErrorFetchRead, ErrorFetchFails
  <2>2. left' \in [StreamEventKinds -> Nat]
    BY <1>1, <1>2, Spending DEF ErrorFetchRead, ErrorFetchFails, StreamInv, StreamEventKinds
  <2>3. asked' \in 0..MaxFetches
    BY <1>1, <2>1, StreamAssumption
  <2>4. answers' \subseteq Snapshot /\ \A s \in answers' : s.length <= Len(log)
    BY <1>1, <2>1
  <2> QED
    BY <1>1, <2>1, <2>2, <2>3, <2>4, FetchesKeep
<1>3. ASSUME NEW s \in answers, ErrorFetchArrives(s) PROVE StreamInv'
  <2>1. /\ answers' = answers \ {s} /\ view' = Viewed(s)
        /\ UNCHANGED <<document, lastId, refetch, asked, left>>
    BY <1>3 DEF ErrorFetchArrives
  <2>2. view' \in Views
    BY <1>1, <2>1, ViewedFacts DEF StreamInv
  <2>3. CASE s.status \in Final
    <3>1. source' = "closed" /\ conn' = NoConnection /\ wire' = <<>>
      BY <1>3, <2>3 DEF ErrorFetchArrives
    <3>2. LogTyped' /\ Connections' = Connections /\ Sent' = Sent /\ Views' = Views
      BY <1>1, <2>1, DocumentFrame
    <3>3. /\ conn' \in Connections /\ wire' \in Seq(Sent) /\ conn'.polls = {}
          /\ NotAhead' /\ NothingSkipped'
      BY <2>1, <3>1, NoStream
    <3>4. StreamTyped' /\ PageTyped'
      BY <1>1, <2>1, <2>2, <3>1, <3>2, <3>3 DEF StreamInv, StreamTyped, PageTyped, document
    <3>5. PastOnly'
      BY <1>1, <2>1, <3>3 DEF PastOnly, document
    <3> QED
      BY <3>2, <3>3, <3>4, <3>5 DEF StreamInv
  <2>4. CASE s.status \notin Final
    <3>1. UNCHANGED <<source, conn, wire>>
      BY <1>3, <2>4 DEF ErrorFetchArrives
    <3> QED
      BY <1>1, <2>1, <2>2, <3>1, FetchesKeep
  <2> QED
    BY <2>3, <2>4
<1> QED
  BY <1>2, <1>3

LEMMA StepKeepsStream == StreamInv /\ [Next]_vars => StreamInv'
<1> SUFFICES ASSUME StreamInv, [Next]_vars PROVE StreamInv'
  OBVIOUS
<1>1. CASE UNCHANGED vars
  BY <1>1 DEF vars, document, page, StreamInv, LogTyped, StreamTyped, PageTyped, PastOnly,
     NotAhead, NothingSkipped, Heard, Connections, Sent, Views
<1>2. CASE Writer
  BY <1>2, WriterKeeps
<1>3. CASE Connect \/ Poll \/ PollFails \/ \E s \in conn.polls : PollAnswer(s)
  BY <1>3, ConnectKeeps, PollKeeps, PollAnswerKeeps
<1>4. CASE EndOfStream \/ Drop \/ Refused \/ Receive
  BY <1>4, StreamErrorKeeps, ReceiveKeeps
<1>5. CASE RefetchTimer \/ RefetchRead \/ RefetchArrives
  BY <1>5, RefetchKeeps
<1>6. CASE ErrorFetchRead \/ ErrorFetchFails \/ \E s \in answers : ErrorFetchArrives(s)
  BY <1>6, ErrorFetchKeeps
<1> QED
  BY <1>1, <1>2, <1>3, <1>4, <1>5, <1>6 DEF Next

(* What the handler and the page rely on holds in every reachable state,   *)
(* whatever polls overlap, whatever is cut and in whatever order polls and *)
(* fetches are answered.                                                   *)
THEOREM StreamInductive == Spec => []StreamInv
<1> QED
  BY InitStream, StepKeepsStream, PTL DEF Spec

(* The document, the connection and the page hold what the controller and  *)
(* the page's hooks mean them to hold; no cursor or id is past the log.    *)
THEOREM StreamTypeCorrect == Spec => []StreamTypeOK
<1>1. StreamInv => StreamTypeOK
  BY DEF StreamInv, LogTyped, StreamTyped, PageTyped, StreamTypeOK, Connections, Sent, Views
<1> QED
  BY <1>1, StreamInductive, PTL

(* An event on its way to the page is followed by its successor or by a    *)
(* repetition, for every log and however many polls overlap: between two   *)
(* connections the Last-Event-ID, within one the cursor see to it          *)
(* (simulations.controller.ts).                                            *)
THEOREM NothingIsSkipped == Spec => []NothingSkipped
<1>1. StreamInv => NothingSkipped
  BY DEF StreamInv
<1> QED
  BY <1>1, StreamInductive, PTL

(* What the page hears of is therefore always a beginning of the log: its  *)
(* Last-Event-ID goes up by one, or back to something heard before.        *)
NextHeard == [][lastId' <= lastId + 1]_vars

THEOREM PageHearsABeginning == Spec => NextHeard
<1>1. StreamInv /\ [Next]_vars => [lastId' <= lastId + 1]_vars
  <2> SUFFICES ASSUME StreamInv, Next PROVE lastId' <= lastId + 1
    OBVIOUS
  <2>1. lastId \in Nat
    BY StreamAssumption DEF StreamInv, LogTyped, StreamTyped, Ids
  <2>2. CASE Receive
    <3>1. wire # <<>> /\ lastId' = Head(wire).id /\ wire \in Seq(Sent)
      BY <2>2 DEF Receive, StreamInv, StreamTyped
    <3>2. Head(wire) = wire[1] /\ 1 \in DOMAIN wire
      BY <3>1, LenProperties, EmptySeq
    <3> QED
      <4>1. wire[1].id <= 1 + lastId
        BY <3>2 DEF StreamInv, NothingSkipped
      <4>2. lastId' = wire[1].id
        BY <3>1, <3>2
      <4> QED
        BY <2>1, <4>1, <4>2
  <2>3. CASE ~Receive
    <3>1. lastId' = lastId
      BY <2>3 DEF Next, Writer, StartRun, Measure, EndRun, Trace, MarkFind, MarkWrite,
         RequeueFind, RequeueWrite, Write, page, Connect, Poll, PollFails, PollAnswer,
         EndOfStream, Drop, Refused, StreamError, RefetchTimer, RefetchRead,
         RefetchArrives, ErrorFetchRead, ErrorFetchFails, ErrorFetchArrives
    <3> QED
      BY <2>1, <3>1
  <2> QED
    BY <2>2, <2>3
<1> QED
  BY <1>1, StreamInductive, PTL DEF Spec, NextHeard
=============================================================================
