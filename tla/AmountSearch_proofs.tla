------------------------- MODULE AmountSearch_proofs -------------------------
(***************************************************************************)
(* TLAPS proofs about the bisection: for every interval, every budget and  *)
(* every set of passing amounts.                                           *)
(*                                                                         *)
(* SearchLoop is findMinimumPassingAmount on its own, with the test given  *)
(* by the set Passing.  If larger amounts never do worse, nothing below    *)
(* the interval passes and what was found is the amount just above it.  So *)
(* an empty interval leaves the least passing amount, and each test halves *)
(* the interval.                                                           *)
(***************************************************************************)
EXTENDS AmountSearch, TLAPS

CONSTANTS Lo, Hi, Budget, Passing

VARIABLE search

Monotone == \A a, b \in Int : a < b /\ a \in Passing => b \in Passing

Bounds == Lo \in Int /\ Hi \in Int /\ Budget \in Int /\ Lo <= Hi + 1 /\ Passing \subseteq Int

SearchStep ==
    /\ ~Ended(search)
    /\ search' = Probe(search, Mid(search) \in Passing)

SearchLoop == search = StartSearch(Lo, Hi, Budget) /\ [][SearchStep]_search

(* What the loop knows of the amounts it has cut off.                      *)
Interval ==
    /\ Lo <= search.low /\ search.high <= Hi /\ search.low <= search.high + 1
    /\ \A a \in Lo..Hi : a < search.low => a \notin Passing
    /\ search.found = NoAmount => search.high = Hi
    /\ search.found # NoAmount =>
           search.found \in Passing /\ search.found \in Lo..Hi /\ search.found = search.high + 1

SearchInv == search \in Searches /\ Interval

(* A search that has looked at everything found the least passing amount,  *)
(* or none exists; whatever it found before that passes                    *)
(* (strategy-engine/search.ts:14-42).                                      *)
LeastOnCompletion ==
    /\ search.found # NoAmount => search.found \in Passing /\ search.found \in Lo..Hi
    /\ search.low > search.high =>
           IF search.found = NoAmount THEN \A a \in Lo..Hi : a \notin Passing
           ELSE \A a \in Lo..Hi : a < search.found => a \notin Passing

-----------------------------------------------------------------------------
(* The middle of an interval that is not empty lies in it.                 *)
LEMMA MidWithin ==
  ASSUME NEW s \in Searches, s.low <= s.high
  PROVE  Mid(s) \in Int /\ s.low <= Mid(s) /\ Mid(s) <= s.high
  BY SMT DEF Searches, Mid

(* Each test leaves less than half of the interval: a budget of n tests is *)
(* enough for fewer than 2^n amounts (run.ts:164).                         *)
LEMMA ProbeHalves ==
  ASSUME NEW s \in Searches, s.low <= s.high, NEW passed \in BOOLEAN
  PROVE  /\ Probe(s, passed) \in Searches
         /\ 2 * (Probe(s, passed).high - Probe(s, passed).low + 1) <= s.high - s.low + 1
  <1>1. CASE passed
    BY <1>1, MidWithin, SMT DEF Searches, Mid, Probe
  <1>2. CASE ~passed
    BY <1>2, MidWithin, SMT DEF Searches, Mid, Probe
  <1>. QED  BY <1>1, <1>2

(* When the amounts that pass are those from some least amount on, a test  *)
(* of the middle keeps that least amount within the interval or just above *)
(* it, where the search has found it, and leaves less than half of the     *)
(* interval (strategy-engine/search.ts:24-42).                             *)
THEOREM ProbeKeepsLeast ==
  ASSUME NEW s \in Searches, s.low <= s.high,
         NEW least \in Int, s.low <= least, least <= s.high + 1,
         least = s.high + 1 => s.found \in {NoAmount, least}
  PROVE  LET n == Probe(s, Mid(s) >= least)
         IN  /\ n \in Searches
             /\ n.low <= least /\ least <= n.high + 1
             /\ least = n.high + 1 => n.found \in {NoAmount, least}
             /\ 2 * (n.high - n.low + 1) <= s.high - s.low + 1
  <1>. DEFINE passed == Mid(s) >= least
  <1>1. Mid(s) \in Int /\ s.low <= Mid(s) /\ Mid(s) <= s.high
    BY MidWithin
  <1>. HIDE DEF passed
  <1>2. /\ Probe(s, passed) \in Searches
        /\ 2 * (Probe(s, passed).high - Probe(s, passed).low + 1) <= s.high - s.low + 1
    <2>1. passed \in BOOLEAN
      BY DEF passed
    <2>. QED  BY <2>1, ProbeHalves
  <1>3. CASE passed
    <2>1. /\ Probe(s, passed).low = s.low /\ Probe(s, passed).high = Mid(s) - 1
          /\ Probe(s, passed).found = Mid(s)
      BY <1>3 DEF Probe
    <2>. QED  BY <1>1, <1>2, <1>3, <2>1, SMT DEF Searches, passed
  <1>4. CASE ~passed
    <2>1. /\ Probe(s, passed).low = Mid(s) + 1 /\ Probe(s, passed).high = s.high
          /\ Probe(s, passed).found = s.found
      BY <1>4 DEF Probe
    <2>. QED  BY <1>1, <1>2, <1>4, <2>1, SMT DEF Searches, passed
  <1>. QED  BY <1>3, <1>4 DEF passed

LEMMA SearchStarts ==
  ASSUME Bounds, search = StartSearch(Lo, Hi, Budget)
  PROVE  SearchInv
  <1>1. search = [low |-> Lo, high |-> Hi, found |-> NoAmount, probes |-> 0, max |-> Budget]
    BY DEF StartSearch
  <1>2. search \in Searches
    BY <1>1, SMT DEF Searches, Bounds
  <1>3. Interval
    BY <1>1, SMT DEF Interval, Bounds
  <1>. QED  BY <1>2, <1>3 DEF SearchInv

LEMMA StepKeepsInterval ==
  ASSUME Bounds, Monotone, SearchInv, SearchStep
  PROVE  SearchInv'
  <1>. DEFINE mid == Mid(search)
  <1>1. /\ search \in Searches /\ search.low <= search.high
        /\ search' = Probe(search, mid \in Passing)
    BY SMT DEF SearchInv, SearchStep, Ended, Complete, Searches
  <1>2. mid \in Int /\ search.low <= mid /\ mid <= search.high
    BY <1>1, MidWithin
  <1>3. mid \in Lo..Hi
    BY <1>1, <1>2, SMT DEF SearchInv, Interval, Bounds, Searches
  <1>. HIDE DEF mid
  <1>4. CASE mid \in Passing
    <2>1. search' = [low |-> search.low, high |-> mid - 1, found |-> mid,
                     probes |-> search.probes + 1, max |-> search.max]
      BY <1>1, <1>4 DEF Probe, mid
    <2>2. search' \in Searches
      BY <2>1, <1>1, <1>2, SMT DEF Searches
    <2>3. Interval'
      BY <2>1, <1>1, <1>2, <1>3, <1>4, NoAmountAssumption, SMT
         DEF SearchInv, Interval, Bounds, Searches
    <2>. QED  BY <2>2, <2>3 DEF SearchInv
  <1>5. CASE mid \notin Passing
    <2>1. search' = [low |-> mid + 1, high |-> search.high, found |-> search.found,
                     probes |-> search.probes + 1, max |-> search.max]
      BY <1>1, <1>5 DEF Probe, mid
    <2>2. search' \in Searches
      BY <2>1, <1>1, <1>2, SMT DEF Searches
    <2>3. \A a \in Lo..Hi : a <= mid => a \notin Passing
      BY <1>2, <1>3, <1>5, SMT DEF Monotone, Bounds
    <2>4. Interval'
      BY <2>1, <2>3, <1>1, <1>2, SMT DEF SearchInv, Interval, Bounds, Searches
    <2>. QED  BY <2>2, <2>4 DEF SearchInv
  <1>. QED  BY <1>4, <1>5

LEMMA IntervalDecides ==
  ASSUME Bounds, SearchInv
  PROVE  LeastOnCompletion
  <1>1. search.low \in Int /\ search.high \in Int
    BY DEF SearchInv, Searches
  <1>. QED  BY <1>1, SMT DEF SearchInv, Interval, LeastOnCompletion, Bounds

(* With a monotonic test the search never reports an amount that fails,    *)
(* and a finished search reports the least one that passes.                *)
THEOREM LeastIsFound ==
  ASSUME Bounds, Monotone
  PROVE  SearchLoop => []LeastOnCompletion
  <1>1. search = StartSearch(Lo, Hi, Budget) => SearchInv
    BY SearchStarts
  <1>2. SearchInv /\ [SearchStep]_search => SearchInv'
    <2>1. ASSUME SearchInv, SearchStep PROVE SearchInv'
      BY <2>1, StepKeepsInterval
    <2>2. ASSUME SearchInv, UNCHANGED search PROVE SearchInv'
      BY <2>2 DEF SearchInv, Interval, Searches
    <2>. QED  BY <2>1, <2>2
  <1>3. SearchInv => LeastOnCompletion
    BY IntervalDecides
  <1>. QED  BY <1>1, <1>2, <1>3, PTL DEF SearchLoop
=============================================================================
