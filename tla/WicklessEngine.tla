--------------------------- MODULE WicklessEngine ---------------------------
(***************************************************************************)
(* run_no_wick_backtest: the bar-by-bar life of setups, positions and      *)
(* trades of one pair, shared by the live scanner and the backtests.       *)
(*                                                                         *)
(* Prices are abstracted to what the loop asks of them: does the bar reach *)
(* the stop, the target, the origin; is a candle a signal; does the risk   *)
(* pass. Time is counted in bars: a bar that opens at t closes at t + 1.   *)
(* The reasons of rejections share one counter; ambiguous_exits and        *)
(* peak_open_positions are reports that nothing reads.                     *)
(***************************************************************************)
EXTENDS Integers, Sequences

CONSTANTS
    EntryModels,              \* those a run may be configured with
    OnePositionPerPair,
    TrendFilter,              \* trend_filter = "ema_slope"
    InvalidateOnTrendChange,
    PendingExpiry,            \* "bars", "trend_change", "never"
    ExpiryBars,
    MaxBars,                  \* bound: bars of the history
    MaxGap                    \* bound: bars missing from the history

ASSUME ConfigAssumption ==
    /\ EntryModels \subseteq {"signal_close", "zone_reclaim", "origin_limit"}
    /\ {OnePositionPerPair, TrendFilter, InvalidateOnTrendChange} \subseteq BOOLEAN
    /\ PendingExpiry \in {"bars", "trend_change", "never"}
    /\ ExpiryBars \in Nat \ {0}
    /\ MaxBars \in Nat /\ MaxGap \in Nat

Trends == {-1, 0, 1}

\* A setup: the index and the open of its signal bar, the trend it relies on.
PendingOrder == [index : Nat, time : Nat, trend : {-1, 1}, touched : BOOLEAN]

\* A position: the setup it came from and when it was entered.
Position == [signal : Nat, entry : Nat]

\* NoWickResult's counters; those of rejections are one.
Kinds == {"eligible", "created", "filled", "expired", "untouched", "unreclaimed",
          "rejected", "invalidated"}

VARIABLES
    entryModel,       \* NoWickConfig.entry_model of this run
    pc,               \* which part of the loop body is next
    index, clock,     \* the current bar and the time it opens
    history,          \* the bars so far: when they open, the trend at their close
    prior, trend,     \* the trend at the close of the last bar, of this one
    positions, stillOpen,
    positionWasOpen, filledThisBar,
    pending, stillPending,
    counts,           \* what NoWickResult counts
    fills, trades     \* NoWickResult.fills, .trades

bar == <<entryModel, index, clock, history, prior, trend, positionWasOpen>>
book == <<positions, stillOpen, fills, trades>>
vars == <<pc, bar, book, filledThisBar, pending, stillPending, counts>>

Init ==
    /\ entryModel \in EntryModels
    /\ pc = "bar"
    /\ index = 0 /\ clock = 0 /\ history = <<>>
    /\ prior = 0 /\ trend = 0
    /\ positions = <<>> /\ stillOpen = <<>>
    /\ positionWasOpen = FALSE /\ filledThisBar = FALSE
    /\ pending = <<>> /\ stillPending = <<>>
    /\ counts = [k \in Kinds |-> 0]
    /\ fills = {} /\ trades = {}

\* Faulty variant of Closed: stamped with the bar before.
ClosedAtPriorBar(p) == [signal |-> p.signal, entry |-> p.entry, exit |-> clock - 1]

Closed(p) == [signal |-> p.signal, entry |-> p.entry, exit |-> clock]

\* Faulty variant of NextBar: the newest bar comes first.
NextBarDescending(gap, t) ==
    /\ pc = "bar"
    /\ index < MaxBars /\ clock + gap <= index + MaxGap
    /\ pc' = "exits"
    /\ index' = index + 1
    /\ clock' = clock - 1 - gap
    /\ history' = Append(history, [time |-> clock', trend |-> t])
    /\ prior' = trend
    /\ trend' = t
    /\ positionWasOpen' = (positions # <<>>)
    /\ filledThisBar' = FALSE
    /\ UNCHANGED <<entryModel, book, pending, stillPending, counts>>

NextBar(gap, t) ==
    /\ pc = "bar"
    /\ index < MaxBars /\ clock + gap <= index + MaxGap
    /\ pc' = "exits"
    /\ index' = index + 1
    /\ clock' = clock + 1 + gap
    /\ history' = Append(history, [time |-> clock', trend |-> t])
    /\ prior' = trend
    /\ trend' = t
    /\ positionWasOpen' = (positions # <<>>)
    /\ filledThisBar' = FALSE
    /\ UNCHANGED <<entryModel, book, pending, stillPending, counts>>

----------------------------------------------------------------------------
(* Exits come first: positions of earlier bars against this bar.           *)

\* Faulty variant of CloseOldest: the closed position is kept as well.
CloseAndKeep ==
    /\ pc = "exits" /\ positions # <<>>
    /\ trades' = trades \cup {Closed(Head(positions))}
    /\ stillOpen' = Append(stillOpen, Head(positions))
    /\ positions' = Tail(positions)
    /\ UNCHANGED <<pc, bar, fills, filledThisBar, pending, stillPending, counts>>

CloseOldest ==
    /\ pc = "exits" /\ positions # <<>>
    /\ trades' = trades \cup {Closed(Head(positions))}
    /\ positions' = Tail(positions)
    /\ UNCHANGED <<pc, bar, stillOpen, fills, filledThisBar, pending, stillPending, counts>>

KeepOldest ==
    /\ pc = "exits" /\ positions # <<>>
    /\ stillOpen' = Append(stillOpen, Head(positions))
    /\ positions' = Tail(positions)
    /\ UNCHANGED <<pc, bar, fills, trades, filledThisBar, pending, stillPending, counts>>

ExitsDone ==
    /\ pc = "exits" /\ positions = <<>>
    /\ positions' = stillOpen
    /\ stillOpen' = <<>>
    /\ pc' = "setups"
    /\ UNCHANGED <<bar, fills, trades, filledThisBar, pending, stillPending, counts>>

----------------------------------------------------------------------------
(* Then the setups of earlier bars, oldest first.                          *)

Age(o) == index - o.index

MissingBar(o) == clock # o.time + Age(o)

TrendInvalidated(o) == InvalidateOnTrendChange /\ TrendFilter /\ prior # o.trend

(* Expiry by "trend_change" asks for what invalidates the setup anyway.    *)
Invalidated(o) ==
    \/ MissingBar(o)
    \/ TrendInvalidated(o)
    \/ PendingExpiry = "trend_change" /\ TrendInvalidated(o)

ExpiredByAge(o) == PendingExpiry = "bars" /\ Age(o) > ExpiryBars

\* Faulty variant of PairTaken: a position that ended on this bar is gone.
PairTakenNow == OnePositionPerPair /\ (positions # <<>> \/ filledThisBar)

PairTaken == OnePositionPerPair /\ (positionWasOpen \/ positions # <<>> \/ filledThisBar)

AtSetup == pc = "setups" /\ pending # <<>>

(* The counters in K go up by one.                                         *)
Count(K) == counts' = [k \in Kinds |-> counts[k] + IF k \in K THEN 1 ELSE 0]

Drop(what) ==
    /\ AtSetup
    /\ pending' = Tail(pending)
    /\ Count({what})
    /\ UNCHANGED <<pc, bar, book, filledThisBar, stillPending>>

Keep(touched) ==
    /\ AtSetup
    /\ pending' = Tail(pending)
    /\ stillPending' = Append(stillPending, [Head(pending) EXCEPT !.touched = touched])
    /\ UNCHANGED <<pc, bar, book, filledThisBar, counts>>

InvalidateSetup == AtSetup /\ Invalidated(Head(pending)) /\ Drop("invalidated")

ExpireSetup ==
    LET why == IF Head(pending).touched THEN "unreclaimed" ELSE "untouched"
    IN  /\ AtSetup
        /\ ~Invalidated(Head(pending)) /\ ExpiredByAge(Head(pending))
        /\ pending' = Tail(pending)
        /\ Count({"expired", why})
        /\ UNCHANGED <<pc, bar, book, filledThisBar, stillPending>>

\* The setup may fill on this bar, as far as the book is concerned.
Live == AtSetup /\ ~Invalidated(Head(pending)) /\ ~ExpiredByAge(Head(pending))

\* Faulty variants of HoldSetup: the setup is passed over, not kept; it is held
\* before it is looked at.
LoseSetup ==
    /\ Live /\ PairTaken
    /\ pending' = Tail(pending)
    /\ UNCHANGED <<pc, bar, book, filledThisBar, stillPending, counts>>

HoldUnchecked == AtSetup /\ PairTaken /\ Keep(Head(pending).touched)

HoldSetup == Live /\ PairTaken /\ Keep(Head(pending).touched)

(* The origin is not reached, or (zone_reclaim) not reclaimed: whether the *)
(* zone was touched is remembered.                                         *)
WaitSetup ==
    /\ Live /\ ~PairTaken
    /\ \/ entryModel = "origin_limit" /\ Keep(Head(pending).touched)
       \/ entryModel # "origin_limit"
          /\ \E touched \in BOOLEAN : (Head(pending).touched => touched) /\ Keep(touched)

StopSetup == Live /\ ~PairTaken /\ entryModel # "origin_limit" /\ Drop("invalidated")

RejectSetup == Live /\ ~PairTaken /\ Drop("rejected")

(* A fill at the limit happens inside the bar, which may end the trade at  *)
(* once; a reclaim is entered at the close.                                *)
FillSetup ==
    LET o == Head(pending)
        p == [signal |-> o.index,
              entry |-> IF entryModel = "zone_reclaim" THEN clock + 1 ELSE clock]
    IN  /\ Live /\ ~PairTaken
        /\ pending' = Tail(pending)
        /\ Count({"filled"})
        /\ filledThisBar' = TRUE
        /\ fills' = fills \cup {[signal |-> o.index, bar |-> index, trend |-> o.trend]}
        /\ \/ positions' = Append(positions, p) /\ UNCHANGED trades
           \/ /\ entryModel # "zone_reclaim"
              /\ trades' = trades \cup {Closed(p)}
              /\ UNCHANGED positions
        /\ UNCHANGED <<pc, bar, stillOpen, stillPending>>

SetupsDone ==
    /\ pc = "setups" /\ pending = <<>>
    /\ pending' = stillPending
    /\ stillPending' = <<>>
    /\ pc' = "signal"
    /\ UNCHANGED <<bar, book, filledThisBar, counts>>

----------------------------------------------------------------------------
(* Last, the bar itself: an eligible candle is rejected, entered at its    *)
(* close or becomes a setup.                                               *)

AtSignal == pc = "signal" /\ pc' = "bar"

NoSignal ==
    /\ AtSignal
    /\ UNCHANGED <<bar, book, filledThisBar, pending, stillPending, counts>>

\* With the trend filter the candle must go with the trend.
Eligible(side) == AtSignal /\ (TrendFilter => trend = side)

SignalDropped(what) ==
    /\ Count({"eligible", what})
    /\ UNCHANGED <<bar, book, filledThisBar, pending, stillPending>>

RejectSignal(side) == Eligible(side) /\ SignalDropped("rejected")

CloseTaken == OnePositionPerPair /\ (positions # <<>> \/ filledThisBar)

SignalBlocked(side) ==
    /\ Eligible(side)
    /\ entryModel = "signal_close" /\ CloseTaken
    /\ SignalDropped("invalidated")

EnterAtClose(side) ==
    /\ Eligible(side)
    /\ entryModel = "signal_close" /\ ~CloseTaken
    /\ Count({"eligible", "created", "filled"})
    /\ filledThisBar' = TRUE
    /\ positions' = Append(positions, [signal |-> index, entry |-> clock + 1])
    /\ fills' = fills \cup {[signal |-> index, bar |-> index, trend |-> side]}
    /\ UNCHANGED <<bar, stillOpen, trades, pending, stillPending>>

QueueSetup(side) ==
    /\ Eligible(side)
    /\ entryModel # "signal_close"
    /\ Count({"eligible", "created"})
    /\ pending' = Append(pending, [index |-> index, time |-> clock,
                                   trend |-> side, touched |-> FALSE])
    /\ UNCHANGED <<bar, book, filledThisBar, stillPending>>

Next ==
    \/ \E gap \in 0..MaxGap, t \in Trends : NextBar(gap, t)
    \/ CloseOldest \/ KeepOldest \/ ExitsDone
    \/ InvalidateSetup \/ ExpireSetup \/ HoldSetup \/ WaitSetup \/ StopSetup
    \/ RejectSetup \/ FillSetup \/ SetupsDone
    \/ NoSignal
    \/ \E side \in {-1, 1} : RejectSignal(side) \/ SignalBlocked(side)
                              \/ EnterAtClose(side) \/ QueueSetup(side)

Spec == Init /\ [][Next]_vars

----------------------------------------------------------------------------
(* Every variable keeps its type.                                          *)
TypeOK ==
    /\ entryModel \in EntryModels
    /\ pc \in {"bar", "exits", "setups", "signal"}
    /\ index \in Nat /\ clock \in Nat
    /\ history \in Seq([time : Nat, trend : Trends])
    /\ prior \in Trends /\ trend \in Trends
    /\ positions \in Seq(Position) /\ stillOpen \in Seq(Position)
    /\ positionWasOpen \in BOOLEAN /\ filledThisBar \in BOOLEAN
    /\ pending \in Seq(PendingOrder) /\ stillPending \in Seq(PendingOrder)
    /\ counts \in [Kinds -> Nat]
    /\ fills \subseteq [signal : Nat, bar : Nat, trend : {-1, 1}]
    /\ trades \subseteq [signal : Nat, entry : Nat, exit : Nat]

(* The fields of NoWickResult; the other rejections are one.               *)
eligible_signals == counts["eligible"]
filled_orders == counts["filled"]
expired_orders == counts["expired"]
rejected_no_origin_touch == counts["untouched"]
rejected_no_directional_reclaim == counts["unreclaimed"]
rejected == counts["rejected"]
invalidated_setups == counts["invalidated"]

(* Every eligible candle is accounted for exactly once, at every point of  *)
(* the loop: filled, expired, rejected, invalidated or still pending.      *)
SetupsConserved ==
    /\ eligible_signals = filled_orders + expired_orders + rejected + invalidated_setups
                            + Len(pending) + Len(stillPending)
    /\ expired_orders = rejected_no_origin_touch + rejected_no_directional_reclaim

(* "At most one active position per pair."                                 *)
OnePosition == OnePositionPerPair => Len(positions) + Len(stillOpen) <= 1

(* What happens inside a bar is unknown, so no trade is entered on the bar *)
(* on which another one of the pair ended, let alone before.               *)
TradesDisjoint ==
    OnePositionPerPair =>
        /\ \A t, u \in trades : t # u => t.exit < u.entry \/ u.exit < t.entry
        /\ \A t \in trades, i \in 1..Len(positions) : t.exit < positions[i].entry
        /\ \A t \in trades, i \in 1..Len(stillOpen) : t.exit < stillOpen[i].entry

(* "No intrabar price path is credited before that close": what is entered *)
(* at a close is not ended by the bar of that close.                       *)
NoPathBeforeEntry == \A t \in trades : t.entry <= t.exit

\* From the bar first to the close before the bar last, the trend was side.
TrendHeld(first, last, side) ==
    TrendFilter /\ InvalidateOnTrendChange =>
        \A b \in first..last - 1 : history[b].trend = side

NoneMissing(first, last) ==
    \A b \in first + 1..last : history[b].time = history[b - 1].time + 1

(* A fill has the whole history from its signal behind it: no bar between  *)
(* them is missing and the trend was unbroken at every close, those during *)
(* which the setup was held behind a position included. A bar looks at one *)
(* close only, the one before it.                                          *)
FillsUnbroken ==
    \A f \in fills : TrendHeld(f.signal, f.bar, f.trend) /\ NoneMissing(f.signal, f.bar)

(* No candle is entered twice, and every entry is open or closed.          *)
EveryFillHasOneFate ==
    /\ \A t \in trades, i \in 1..Len(positions) : t.signal # positions[i].signal
    /\ \A t, u \in trades : t.signal = u.signal => t = u
    /\ {f.signal : f \in fills} =
           {t.signal : t \in trades} \cup {positions[i].signal : i \in 1..Len(positions)}
               \cup {stillOpen[i].signal : i \in 1..Len(stillOpen)}

----------------------------------------------------------------------------
(***************************************************************************)
(* The inductive invariant.                                                *)
(***************************************************************************)

(* Between bars nothing is left of the loops over positions and setups,    *)
(* and a position that the loop over exits meets was open before the bar.  *)
LoopInv ==
    /\ pc # "exits" => stillOpen = <<>>
    /\ pc # "setups" => stillPending = <<>>
    /\ pc = "exits" /\ (positions # <<>> \/ stillOpen # <<>>) => positionWasOpen

(* No entry lies ahead, but for those at the close of this very bar.       *)
EntryBy(p) == p.entry <= IF pc = "exits" THEN clock ELSE clock + 1
EntriesInv ==
    /\ \A i \in 1..Len(positions) : EntryBy(positions[i])
    /\ \A i \in 1..Len(stillOpen) : EntryBy(stillOpen[i])

(* A trade that ended on this bar shows in the flags of the bar.           *)
ExitsInv ==
    \A t \in trades :
        /\ t.exit <= clock
        /\ t.exit = clock => positionWasOpen \/ filledThisBar

IInv ==
    /\ TypeOK
    /\ SetupsConserved
    /\ LoopInv
    /\ OnePosition
    /\ EntriesInv
    /\ ExitsInv
    /\ NoPathBeforeEntry
    /\ TradesDisjoint

(* The candles behind the positions and the setups in a list, each once,   *)
(* behind the trades and behind the fills.                                 *)
Taken(q) == {q[i].signal : i \in 1..Len(q)}
Waiting(q) == {q[i].index : i \in 1..Len(q)}
TakenOnce(q) == \A i, j \in 1..Len(q) : q[i].signal = q[j].signal => i = j
WaitingOnce(q) == \A i, j \in 1..Len(q) : q[i].index = q[j].index => i = j
Ended == {t.signal : t \in trades}
Entered == {f.signal : f \in fills}

\* The last bar whose own candle has been looked at.
Reached == IF pc = "bar" THEN index ELSE index - 1

(* A candle is in one place: ahead, waiting, in a position, or in a trade. *)
FateInv ==
    /\ TakenOnce(positions) /\ TakenOnce(stillOpen)
    /\ Taken(positions) \cap Taken(stillOpen) = {}
    /\ Ended \cap (Taken(positions) \cup Taken(stillOpen)) = {}
    /\ \A t, u \in trades : t.signal = u.signal => t = u
    /\ Entered = Ended \cup Taken(positions) \cup Taken(stillOpen)
    /\ WaitingOnce(pending) /\ WaitingOnce(stillPending)
    /\ Waiting(pending) \cap Waiting(stillPending) = {}
    /\ Entered \cap (Waiting(pending) \cup Waiting(stillPending)) = {}
    /\ \A s \in Entered \cup Waiting(pending) \cup Waiting(stillPending) : s <= Reached

(* Up to its bar n, what a setup relies on has held.                       *)
GoodTo(o, n) ==
    /\ o.index \in 1..n
    /\ history[o.index].time = o.time
    /\ history[n].time = o.time + (n - o.index)
    /\ TrendHeld(o.index, n, o.trend)
    /\ NoneMissing(o.index, n)

\* The last bar that the pending setups have been looked at on.
Checked == IF pc \in {"exits", "setups"} THEN index - 1 ELSE index

(* A setup that waits, or is held, has been good on every bar so far.      *)
HistoryInv ==
    /\ Len(history) = index
    /\ index > 0 => history[index] = [time |-> clock, trend |-> trend]
    /\ pc # "bar" => index > 0 /\ (index > 1 => prior = history[index - 1].trend)
    /\ \A i \in 1..Len(pending) : GoodTo(pending[i], Checked)
    /\ \A i \in 1..Len(stillPending) : GoodTo(stillPending[i], index)
    /\ \A f \in fills : f.signal \in 1..f.bar /\ f.bar <= index
    /\ FillsUnbroken
=============================================================================
