-------------------------- MODULE MCSignalScanner --------------------------
(***************************************************************************)
(* Small instances of SignalScanner. Times are ticks.                      *)
(***************************************************************************)
EXTENDS SignalScanner

\* Three entries of one market, one tick apart.
OneMarket == {"eurusd"}
ThreeEntries == {"e1", "e2", "e3"}
AllEurusd == [s \in ThreeEntries |-> "eurusd"]
OneTickApart == [e1 |-> 0, e2 |-> 1, e3 |-> 2]

\* Two entries of one market and one of another, found by the same scans.
TwoMarkets == {"eurusd", "xauusd"}
MixedEntries == {"e1", "e2", "x1"}
MixedMarkets == [e1 |-> "eurusd", e2 |-> "eurusd", x1 |-> "xauusd"]
MixedTimes == [e1 |-> 0, e2 |-> 1, x1 |-> 1]

RealRuns == {FALSE}
AnyRuns == {FALSE, TRUE}
=============================================================================
