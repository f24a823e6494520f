---------------------------- MODULE AmountSearch ----------------------------
(***************************************************************************)
(* The bisection of strategy-engine: it looks for the least amount of an   *)
(* interval that passes a test, within a budget of tests.  A search is a   *)
(* record; a test is one Probe, so that the caller may take as many steps  *)
(* as it needs between two of them.                                        *)
(***************************************************************************)
EXTENDS Integers

CONSTANT NoAmount   \* no amount has passed

ASSUME NoAmountAssumption == NoAmount \notin Int

Searches == [low: Int, high: Int, found: Int \cup {NoAmount}, probes: Nat, max: Int]

StartSearch(lo, hi, max) ==
    [low |-> lo, high |-> hi, found |-> NoAmount, probes |-> 0, max |-> max]

(* The loop is left because the interval is empty or the budget is spent;  *)
(* a budget that allows no test at all counts as complete.                 *)
Complete(s) == s.low > s.high \/ s.max <= 0
Ended(s) == Complete(s) \/ s.probes >= s.max

Mid(s) == s.low + ((s.high - s.low) \div 2)

\* Mutant of Probe: a test that passes turns the search upwards.
ProbeUpwards(s, passed) ==
    [low |-> IF passed THEN Mid(s) + 1 ELSE s.low,
     high |-> IF passed THEN s.high ELSE Mid(s) - 1,
     found |-> IF passed THEN Mid(s) ELSE s.found,
     probes |-> s.probes + 1, max |-> s.max]

Probe(s, passed) ==
    IF passed
    THEN [low |-> s.low, high |-> Mid(s) - 1, found |-> Mid(s),
          probes |-> s.probes + 1, max |-> s.max]
    ELSE [low |-> Mid(s) + 1, high |-> s.high, found |-> s.found,
          probes |-> s.probes + 1, max |-> s.max]
=============================================================================
