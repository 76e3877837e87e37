----------------------- MODULE WicklessEngine_proofs -----------------------
(***************************************************************************)
(* The bookkeeping of the engine holds for every configuration, history    *)
(* and order of exits, fills and signals.                                  *)
(***************************************************************************)
EXTENDS WicklessEngine, TLAPS

(* What a step over the oldest position or setup does to its queue.        *)
LEMMA TailFacts ==
  ASSUME NEW S, NEW q \in Seq(S), q # <<>>
  PROVE  /\ Head(q) \in S
         /\ Tail(q) \in Seq(S)
         /\ Len(Tail(q)) = Len(q) - 1
         /\ Head(q) = q[1] /\ 1 \in 1..Len(q)
         /\ \A i \in 1..Len(Tail(q)) : i + 1 \in 1..Len(q) /\ Tail(q)[i] = q[i + 1]
  OBVIOUS

LEMMA PositionsTail ==
  ASSUME TypeOK, positions # <<>>
  PROVE  /\ Head(positions) \in Position
         /\ Tail(positions) \in Seq(Position)
         /\ Len(Tail(positions)) = Len(positions) - 1
         /\ Head(positions) = positions[1] /\ 1 \in 1..Len(positions)
         /\ \A i \in 1..Len(Tail(positions)) :
               i + 1 \in 1..Len(positions) /\ Tail(positions)[i] = positions[i + 1]
<1>1. positions \in Seq(Position)
  BY DEF TypeOK
<1>2. QED
  BY <1>1, TailFacts

LEMMA PendingTail ==
  ASSUME TypeOK, pending # <<>>
  PROVE  /\ Head(pending) \in PendingOrder
         /\ Tail(pending) \in Seq(PendingOrder)
         /\ Len(Tail(pending)) = Len(pending) - 1
<1>1. pending \in Seq(PendingOrder)
  BY DEF TypeOK
<1>2. QED
  BY <1>1, TailFacts

(* What appending does.                                                    *)
LEMMA AppendFacts ==
  ASSUME NEW S, NEW q \in Seq(S), NEW e \in S
  PROVE  /\ Append(q, e) \in Seq(S)
         /\ Len(Append(q, e)) = Len(q) + 1
         /\ \A i \in 1..Len(Append(q, e)) :
               \/ i \in 1..Len(q) /\ Append(q, e)[i] = q[i]
               \/ Append(q, e)[i] = e
  OBVIOUS

LEMMA AppendPosition ==
  ASSUME NEW q \in Seq(Position), NEW e \in Position
  PROVE  Append(q, e) \in Seq(Position)
  BY AppendFacts

LEMMA AppendPending ==
  ASSUME NEW q \in Seq(PendingOrder), NEW e \in PendingOrder
  PROVE  Append(q, e) \in Seq(PendingOrder)
  BY AppendFacts

(* The initial state satisfies the invariant.                              *)
LEMMA InitInv == Init => IInv
<1> SUFFICES ASSUME Init PROVE IInv
  OBVIOUS
<1>1. TypeOK
  <2>1. counts \in [Kinds -> Nat]
    BY DEF Init
  <2>2. positionWasOpen \in BOOLEAN /\ filledThisBar \in BOOLEAN
    BY DEF Init
  <2>3. QED
    BY <2>1, <2>2 DEF Init, TypeOK, Trends
<1>2. SetupsConserved
  BY DEF Init, SetupsConserved, Kinds, eligible_signals, filled_orders, expired_orders,
             rejected_no_origin_touch, rejected_no_directional_reclaim,
             rejected, invalidated_setups
<1>3. QED
  BY <1>1, <1>2 DEF Init, IInv, LoopInv, OnePosition, EntriesInv, ExitsInv,
                    NoPathBeforeEntry, TradesDisjoint

(* Every step keeps the types.                                             *)
LEMMA TypeStep == TypeOK /\ [Next]_vars => TypeOK'
<1> SUFFICES ASSUME TypeOK, [Next]_vars PROVE TypeOK'
  OBVIOUS
<1> USE DEF TypeOK, bar, book
<1>1. ASSUME NEW gap \in 0..MaxGap, NEW t \in Trends, NextBar(gap, t) PROVE TypeOK'
  <2>1. positionWasOpen' \in BOOLEAN
    BY <1>1 DEF NextBar
  <2>2. clock' \in Nat /\ index' \in Nat
    BY <1>1, ConfigAssumption DEF NextBar
  <2>3. [time |-> clock', trend |-> t] \in [time : Nat, trend : Trends]
    BY <2>2
  <2>4. history' \in Seq([time : Nat, trend : Trends])
    BY <1>1, <2>3, AppendFacts DEF NextBar
  <2>5. QED
    BY <1>1, <2>1, <2>2, <2>4 DEF NextBar, Trends
<1>2. CASE CloseOldest
  <2>1. Closed(Head(positions)) \in [signal : Nat, entry : Nat, exit : Nat]
    BY <1>2, PositionsTail, PendingTail DEF CloseOldest, Closed, Position
  <2>2. QED
    BY <1>2, <2>1, PositionsTail, PendingTail DEF CloseOldest
<1>3. CASE KeepOldest
  BY <1>3, PositionsTail, PendingTail, AppendPosition, AppendPending DEF KeepOldest
<1>4. CASE ExitsDone
  BY <1>4 DEF ExitsDone
<1>5. ASSUME NEW what \in {"invalidated", "rejected"}, Drop(what) PROVE TypeOK'
  <2>1. counts' \in [Kinds -> Nat]
    BY <1>5 DEF Drop, Count
  <2>2. QED
    BY <1>5, <2>1, PositionsTail, PendingTail DEF Drop, AtSetup
<1>6. CASE ExpireSetup
  <2>1. counts' \in [Kinds -> Nat]
    BY <1>6 DEF ExpireSetup, Count
  <2>2. QED
    BY <1>6, <2>1, PositionsTail, PendingTail DEF ExpireSetup, AtSetup
<1>7. ASSUME NEW touched \in BOOLEAN, Keep(touched) PROVE TypeOK'
  <2>1. [Head(pending) EXCEPT !.touched = touched] \in PendingOrder
    BY <1>7, PositionsTail, PendingTail DEF Keep, AtSetup, PendingOrder
  <2>2. QED
    BY <1>7, <2>1, PositionsTail, PendingTail, AppendPosition, AppendPending DEF Keep, AtSetup
<1>8. CASE HoldSetup \/ WaitSetup
  <2>1. Head(pending).touched \in BOOLEAN
    BY <1>8, PositionsTail, PendingTail DEF HoldSetup, WaitSetup, Live, AtSetup, PendingOrder
  <2>2. QED
    BY <1>7, <1>8, <2>1 DEF HoldSetup, WaitSetup
<1>9. CASE FillSetup
  <2> DEFINE o == Head(pending)
             p == [signal |-> o.index,
                   entry |-> IF entryModel = "zone_reclaim" THEN clock + 1 ELSE clock]
  <2>1. o \in PendingOrder /\ Tail(pending) \in Seq(PendingOrder)
    BY <1>9, PositionsTail, PendingTail DEF FillSetup, Live, AtSetup
  <2>2. p \in Position /\ Closed(p) \in [signal : Nat, entry : Nat, exit : Nat]
    BY <2>1 DEF PendingOrder, Position, Closed
  <2>3. counts' \in [Kinds -> Nat]
    BY <1>9 DEF FillSetup, Count
  <2>4. [signal |-> o.index, bar |-> index, trend |-> o.trend]
          \in [signal : Nat, bar : Nat, trend : {-1, 1}]
    BY <2>1 DEF PendingOrder
  <2>5. positions' \in Seq(Position) /\ trades' \subseteq [signal : Nat, entry : Nat, exit : Nat]
    BY <1>9, <2>2, AppendPosition, AppendPending DEF FillSetup
  <2>6. QED
    BY <1>9, <2>1, <2>3, <2>4, <2>5 DEF FillSetup, Live, AtSetup
<1>10. CASE SetupsDone
  BY <1>10 DEF SetupsDone
<1>11. CASE NoSignal
  BY <1>11 DEF NoSignal, AtSignal
<1>12. ASSUME NEW side \in {-1, 1}, RejectSignal(side) \/ SignalBlocked(side) PROVE TypeOK'
  <2>1. PICK what \in {"rejected", "invalidated"} : SignalDropped(what)
    BY <1>12 DEF RejectSignal, SignalBlocked
  <2>3. counts' \in [Kinds -> Nat]
    BY <2>1 DEF SignalDropped, Count
  <2>2. QED
    BY <1>12, <2>1, <2>3 DEF RejectSignal, SignalBlocked, SignalDropped, Eligible, AtSignal
<1>13. ASSUME NEW side \in {-1, 1}, EnterAtClose(side) PROVE TypeOK'
  <2>1. counts' \in [Kinds -> Nat]
    BY <1>13 DEF EnterAtClose, Count
  <2>2. [signal |-> index, entry |-> clock + 1] \in Position
    BY DEF Position
  <2>3. [signal |-> index, bar |-> index, trend |-> side]
          \in [signal : Nat, bar : Nat, trend : {-1, 1}]
    OBVIOUS
  <2>4. QED
    BY <1>13, <2>1, <2>2, <2>3, AppendPosition, AppendPending DEF EnterAtClose, Eligible, AtSignal
<1>14. ASSUME NEW side \in {-1, 1}, QueueSetup(side) PROVE TypeOK'
  <2>1. counts' \in [Kinds -> Nat]
    BY <1>14 DEF QueueSetup, Count
  <2>2. [index |-> index, time |-> clock, trend |-> side, touched |-> FALSE] \in PendingOrder
    BY DEF PendingOrder
  <2>3. QED
    BY <1>14, <2>1, <2>2, AppendPosition, AppendPending DEF QueueSetup, Eligible, AtSignal
<1>15. CASE UNCHANGED vars
  BY <1>15 DEF vars
<1>16. QED
  BY <1>1, <1>2, <1>3, <1>4, <1>5, <1>6, <1>8, <1>9, <1>10, <1>11, <1>12, <1>13,
     <1>14, <1>15 DEF Next, InvalidateSetup, StopSetup, RejectSetup

(* Every reachable state is well typed, whatever the configuration.        *)
THEOREM TypeCorrect == Spec => []TypeOK
<1>1. Init => TypeOK
  BY InitInv DEF IInv
<1>2. QED
  BY <1>1, TypeStep, PTL DEF Spec

----------------------------------------------------------------------------
(* The counters are numbers.                                               *)
LEMMA CountsAreNat ==
  ASSUME counts \in [Kinds -> Nat]
  PROVE  /\ eligible_signals \in Nat
         /\ filled_orders \in Nat
         /\ expired_orders \in Nat
         /\ rejected_no_origin_touch \in Nat
         /\ rejected_no_directional_reclaim \in Nat
         /\ rejected \in Nat
         /\ invalidated_setups \in Nat
  BY DEF Kinds, eligible_signals, filled_orders, expired_orders,
             rejected_no_origin_touch, rejected_no_directional_reclaim,
             rejected, invalidated_setups

(* A counter goes up by one when it is counted and stays when it is not.   *)
LEMMA CountFacts ==
  ASSUME counts \in [Kinds -> Nat], NEW K, Count(K)
  PROVE  /\ eligible_signals' = eligible_signals + (IF "eligible" \in K THEN 1 ELSE 0)
         /\ filled_orders' = filled_orders + (IF "filled" \in K THEN 1 ELSE 0)
         /\ expired_orders' = expired_orders + (IF "expired" \in K THEN 1 ELSE 0)
         /\ rejected_no_origin_touch' = rejected_no_origin_touch + (IF "untouched" \in K THEN 1 ELSE 0)
         /\ rejected_no_directional_reclaim' = rejected_no_directional_reclaim + (IF "unreclaimed" \in K THEN 1 ELSE 0)
         /\ rejected' = rejected + (IF "rejected" \in K THEN 1 ELSE 0)
         /\ invalidated_setups' = invalidated_setups + (IF "invalidated" \in K THEN 1 ELSE 0)
  BY DEF Count, Kinds, eligible_signals, filled_orders, expired_orders,
             rejected_no_origin_touch, rejected_no_directional_reclaim,
             rejected, invalidated_setups

Accounted == filled_orders + expired_orders + rejected + invalidated_setups
Explained == rejected_no_origin_touch + rejected_no_directional_reclaim

LEMMA SidesAreNat ==
  ASSUME counts \in [Kinds -> Nat]
  PROVE  /\ eligible_signals \in Nat /\ Accounted \in Nat
         /\ expired_orders \in Nat /\ Explained \in Nat
  BY CountsAreNat DEF Accounted, Explained

(* By how much a step moves the two sides of the balance, and the counts   *)
(* of expired setups on both sides of theirs.                              *)
Moves(e, a, x) ==
    /\ eligible_signals' = eligible_signals + e
    /\ Accounted' = Accounted + a
    /\ expired_orders' = expired_orders + x
    /\ Explained' = Explained + x

LEMMA DropMoves ==
  ASSUME counts \in [Kinds -> Nat], NEW what \in {"invalidated", "rejected", "filled"},
         Count({what})
  PROVE  Moves(0, 1, 0)
  BY CountFacts, CountsAreNat DEF Moves, Accounted, Explained

LEMMA ExpireMoves ==
  ASSUME counts \in [Kinds -> Nat], NEW why \in {"unreclaimed", "untouched"},
         Count({"expired", why})
  PROVE  Moves(0, 1, 1)
  BY CountFacts, CountsAreNat DEF Moves, Accounted, Explained

LEMMA SignalMoves ==
  ASSUME counts \in [Kinds -> Nat], NEW what \in {"invalidated", "rejected"},
         Count({"eligible", what})
  PROVE  Moves(1, 1, 0)
  BY CountFacts, CountsAreNat DEF Moves, Accounted, Explained

LEMMA EnterMoves ==
  ASSUME counts \in [Kinds -> Nat], Count({"eligible", "created", "filled"})
  PROVE  Moves(1, 1, 0)
  BY CountFacts, CountsAreNat DEF Moves, Accounted, Explained

LEMMA QueueMoves ==
  ASSUME counts \in [Kinds -> Nat], Count({"eligible", "created"})
  PROVE  Moves(1, 0, 0)
  BY CountFacts, CountsAreNat DEF Moves, Accounted, Explained

LEMMA NothingMoves ==
  ASSUME counts \in [Kinds -> Nat], counts' = counts
  PROVE  Moves(0, 0, 0)
<1>1. /\ eligible_signals' = eligible_signals /\ Accounted' = Accounted
      /\ expired_orders' = expired_orders /\ Explained' = Explained
  BY DEF Accounted, Explained, eligible_signals, filled_orders, expired_orders, rejected,
         invalidated_setups, rejected_no_origin_touch, rejected_no_directional_reclaim
<1>2. /\ eligible_signals \in Nat /\ Accounted \in Nat
      /\ expired_orders \in Nat /\ Explained \in Nat
  BY SidesAreNat
<1>3. QED
  BY <1>1, <1>2 DEF Moves

(* A step that moves both sides alike keeps the balance.                   *)
LEMMA BalanceKept ==
  ASSUME TypeOK, SetupsConserved,
         NEW e \in {0, 1}, NEW a \in {0, 1}, NEW x \in {0, 1}, Moves(e, a, x),
         e + Len(pending) + Len(stillPending) = a + Len(pending') + Len(stillPending'),
         Len(pending') \in Nat, Len(stillPending') \in Nat
  PROVE  SetupsConserved'
<1>1. Len(pending) \in Nat /\ Len(stillPending) \in Nat
  BY DEF TypeOK
<1>t. counts \in [Kinds -> Nat]
  BY DEF TypeOK
<1>2. /\ eligible_signals \in Nat /\ Accounted \in Nat
      /\ expired_orders \in Nat /\ Explained \in Nat
  BY <1>t, SidesAreNat
<1>3. /\ eligible_signals = Accounted + Len(pending) + Len(stillPending)
      /\ expired_orders = Explained
  BY DEF SetupsConserved, Accounted, Explained
<1>4. /\ eligible_signals' = Accounted' + Len(pending') + Len(stillPending')
      /\ expired_orders' = Explained'
  BY <1>1, <1>2, <1>3 DEF Moves
<1>5. QED
  BY <1>4 DEF SetupsConserved, Accounted, Explained

(* The books balance after every step.                                     *)
LEMMA ConservedStep == IInv /\ Next => SetupsConserved'
<1> SUFFICES ASSUME IInv, Next PROVE SetupsConserved'
  OBVIOUS
<1>1. TypeOK /\ counts \in [Kinds -> Nat]
  BY DEF IInv, TypeOK
<1>2. SetupsConserved
  BY DEF IInv
<1>3. /\ Len(pending) \in Nat /\ Len(stillPending) \in Nat
      /\ Len(pending') \in Nat /\ Len(stillPending') \in Nat
  <2>1. TypeOK'
    BY <1>1, TypeStep
  <2>2. pending \in Seq(PendingOrder) /\ stillPending \in Seq(PendingOrder)
    BY <1>1 DEF TypeOK
  <2>3. pending' \in Seq(PendingOrder) /\ stillPending' \in Seq(PendingOrder)
    BY <2>1 DEF TypeOK
  <2>4. QED
    BY <2>2, <2>3
<1>4. CASE UNCHANGED <<pending, stillPending, counts>>
  BY <1>1, <1>2, <1>3, <1>4, NothingMoves, BalanceKept
<1>5. ASSUME NEW what \in {"invalidated", "rejected"}, Drop(what) PROVE SetupsConserved'
  <2>1. Len(pending') = Len(pending) - 1 /\ stillPending' = stillPending /\ Count({what})
    BY <1>1, <1>5, PendingTail DEF Drop, AtSetup
  <2>2. Moves(0, 1, 0)
    BY <1>1, <2>1, DropMoves
  <2>3. QED
    BY <1>1, <1>2, <1>3, <2>1, <2>2, BalanceKept
<1>6. CASE ExpireSetup
  <2>1. PICK why \in {"unreclaimed", "untouched"} : Count({"expired", why})
    BY <1>6 DEF ExpireSetup
  <2>2. Len(pending') = Len(pending) - 1 /\ stillPending' = stillPending
    BY <1>1, <1>6, PendingTail DEF ExpireSetup, AtSetup
  <2>3. Moves(0, 1, 1)
    BY <1>1, <2>1, ExpireMoves
  <2>4. QED
    BY <1>1, <1>2, <1>3, <2>2, <2>3, BalanceKept
<1>7. ASSUME NEW touched \in BOOLEAN, Keep(touched) PROVE SetupsConserved'
  <2>1. Len(pending') = Len(pending) - 1 /\ counts' = counts
    BY <1>1, <1>7, PendingTail DEF Keep, AtSetup
  <2>2. [Head(pending) EXCEPT !.touched = touched] \in PendingOrder
    BY <1>1, <1>7, PendingTail DEF Keep, AtSetup, PendingOrder
  <2>3. Len(stillPending') = Len(stillPending) + 1
    BY <1>1, <1>7, <2>2 DEF Keep, TypeOK
  <2>4. QED
    BY <1>1, <1>2, <1>3, <2>1, <2>3, NothingMoves, BalanceKept
<1>8. CASE HoldSetup \/ WaitSetup
  <2>1. Head(pending).touched \in BOOLEAN
    BY <1>1, <1>8, PendingTail DEF HoldSetup, WaitSetup, Live, AtSetup, PendingOrder
  <2>2. QED
    BY <1>7, <1>8, <2>1 DEF HoldSetup, WaitSetup
<1>9. CASE FillSetup
  <2>1. Len(pending') = Len(pending) - 1 /\ stillPending' = stillPending /\ Count({"filled"})
    BY <1>1, <1>9, PendingTail DEF FillSetup, Live, AtSetup
  <2>2. QED
    BY <1>1, <1>2, <1>3, <2>1, DropMoves, BalanceKept
<1>10. CASE SetupsDone
  <2>1. /\ Len(pending) = 0 /\ Len(stillPending') = 0
        /\ pending' = stillPending /\ counts' = counts
    BY <1>10 DEF SetupsDone
  <2>2. QED
    BY <1>1, <1>2, <1>3, <2>1, NothingMoves, BalanceKept
<1>11. ASSUME NEW side \in {-1, 1}, RejectSignal(side) \/ SignalBlocked(side)
       PROVE  SetupsConserved'
  <2>1. PICK what \in {"rejected", "invalidated"} : SignalDropped(what)
    BY <1>11 DEF RejectSignal, SignalBlocked
  <2>2. Count({"eligible", what}) /\ UNCHANGED <<pending, stillPending>>
    BY <2>1 DEF SignalDropped
  <2>3. QED
    BY <1>1, <1>2, <1>3, <2>2, SignalMoves, BalanceKept
<1>12. ASSUME NEW side \in {-1, 1}, EnterAtClose(side) PROVE SetupsConserved'
  <2>1. Count({"eligible", "created", "filled"}) /\ UNCHANGED <<pending, stillPending>>
    BY <1>12 DEF EnterAtClose
  <2>2. QED
    BY <1>1, <1>2, <1>3, <2>1, EnterMoves, BalanceKept
<1>13. ASSUME NEW side \in {-1, 1}, QueueSetup(side) PROVE SetupsConserved'
  <2>1. Count({"eligible", "created"}) /\ stillPending' = stillPending
    BY <1>13 DEF QueueSetup
  <2>2. [index |-> index, time |-> clock, trend |-> side, touched |-> FALSE] \in PendingOrder
    BY <1>1 DEF PendingOrder, TypeOK
  <2>3. Len(pending') = Len(pending) + 1
    BY <1>1, <1>13, <2>2 DEF QueueSetup, TypeOK
  <2>4. QED
    BY <1>1, <1>2, <1>3, <2>1, <2>3, QueueMoves, BalanceKept
<1>14. QED
  BY <1>4, <1>5, <1>6, <1>8, <1>9, <1>10, <1>11, <1>12, <1>13
     DEF Next, NextBar, CloseOldest, KeepOldest, ExitsDone, NoSignal, InvalidateSetup,
         StopSetup, RejectSetup

(* The loops leave nothing behind.                                         *)
LEMMA LoopStep == IInv /\ Next => LoopInv'
<1> SUFFICES ASSUME IInv, Next PROVE LoopInv'
  OBVIOUS
<1> USE DEF IInv, LoopInv, bar, book
<1>1. ASSUME NEW gap \in 0..MaxGap, NEW t \in Trends, NextBar(gap, t) PROVE LoopInv'
  BY <1>1 DEF NextBar
<1>2. CASE CloseOldest \/ KeepOldest \/ ExitsDone
  BY <1>2 DEF CloseOldest, KeepOldest, ExitsDone
<1>3. CASE InvalidateSetup \/ ExpireSetup \/ HoldSetup \/ WaitSetup \/ StopSetup \/ RejectSetup
  BY <1>3 DEF InvalidateSetup, ExpireSetup, HoldSetup, WaitSetup, StopSetup, RejectSetup,
              Live, AtSetup, Drop, Keep
<1>4. CASE FillSetup \/ SetupsDone
  BY <1>4 DEF FillSetup, SetupsDone, Live, AtSetup
<1>5. CASE NoSignal \/ \E side \in {-1, 1} : \/ RejectSignal(side) \/ SignalBlocked(side)
                                             \/ EnterAtClose(side) \/ QueueSetup(side)
  BY <1>5 DEF NoSignal, RejectSignal, SignalBlocked, SignalDropped, EnterAtClose,
              QueueSetup, Eligible, AtSignal
<1>6. QED
  BY <1>1, <1>2, <1>3, <1>4, <1>5 DEF Next

----------------------------------------------------------------------------
BookInv == OnePosition /\ EntriesInv /\ ExitsInv /\ NoPathBeforeEntry /\ TradesDisjoint

(* What the proofs below need of the types.                                *)
LEMMA BookTypes ==
  ASSUME TypeOK
  PROVE  /\ clock \in Nat
         /\ Len(positions) \in Nat /\ Len(stillOpen) \in Nat
         /\ \A i \in 1..Len(positions) : positions[i].entry \in Nat
         /\ \A i \in 1..Len(stillOpen) : stillOpen[i].entry \in Nat
         /\ \A t \in trades : t.entry \in Nat /\ t.exit \in Nat
<1>1. clock \in Nat /\ positions \in Seq(Position) /\ stillOpen \in Seq(Position)
  BY DEF TypeOK
<1>2. \A t \in trades : t.entry \in Nat /\ t.exit \in Nat
  BY DEF TypeOK
<1>3. /\ \A i \in 1..Len(positions) : positions[i] \in Position
      /\ \A i \in 1..Len(stillOpen) : stillOpen[i] \in Position
      /\ Len(positions) \in Nat /\ Len(stillOpen) \in Nat
  BY <1>1
<1>4. \A p \in Position : p.entry \in Nat
  BY DEF Position
<1>5. QED
  BY <1>1, <1>2, <1>3, <1>4

(* A step that leaves the book and the bar alone.                          *)
LEMMA QuietBook ==
  ASSUME IInv, UNCHANGED <<bar, book, filledThisBar>>, pc # "exits", pc' # "exits"
  PROVE  BookInv'
  BY DEF IInv, BookInv, OnePosition, EntriesInv, EntryBy, ExitsInv, NoPathBeforeEntry,
         TradesDisjoint, bar, book

(* A new bar: every exit and entry so far lies before it.                  *)
LEMMA NextBarBook ==
  ASSUME IInv, NEW gap \in 0..MaxGap, NEW t \in Trends, NextBar(gap, t)
  PROVE  BookInv'
<1>1. clock' \in Nat /\ clock' > clock /\ clock \in Nat
  BY ConfigAssumption DEF NextBar, IInv, TypeOK
<1>2. UNCHANGED book /\ pc = "bar" /\ pc' = "exits"
  BY DEF NextBar
<1>3. EntriesInv'
  BY <1>1, <1>2, BookTypes DEF IInv, EntriesInv, EntryBy, book
<1>4. ExitsInv'
  BY <1>1, <1>2, BookTypes DEF IInv, ExitsInv, book
<1>5. QED
  BY <1>2, <1>3, <1>4 DEF IInv, BookInv, OnePosition, NoPathBeforeEntry, TradesDisjoint, book

(* A position ends: it was entered before this bar and after every trade   *)
(* that ended before.                                                      *)
LEMMA CloseBook ==
  ASSUME IInv, CloseOldest
  PROVE  BookInv'
<1>1. /\ pc = "exits" /\ pc' = "exits" /\ positions # <<>>
      /\ positions' = Tail(positions)
      /\ trades' = trades \cup {Closed(Head(positions))}
      /\ UNCHANGED <<bar, stillOpen, filledThisBar>>
  BY DEF CloseOldest
<1> TypeOK
  BY DEF IInv
<1>2. /\ Len(positions') = Len(positions) - 1
      /\ Head(positions) = positions[1] /\ 1 \in 1..Len(positions)
      /\ \A i \in 1..Len(positions') :
            i + 1 \in 1..Len(positions) /\ positions'[i] = positions[i + 1]
  BY <1>1, PositionsTail
<1> DEFINE c == Closed(Head(positions))
<1>3. c.entry = positions[1].entry /\ c.exit = clock
  BY <1>2 DEF Closed
<1>4. OnePosition'
  BY <1>1, <1>2, BookTypes DEF IInv, OnePosition
<1>5. EntriesInv'
  BY <1>1, <1>2 DEF IInv, EntriesInv, EntryBy, bar
<1>6. ExitsInv'
  BY <1>1, <1>3, BookTypes DEF IInv, ExitsInv, LoopInv, bar
<1>7. NoPathBeforeEntry'
  BY <1>1, <1>2, <1>3 DEF IInv, NoPathBeforeEntry, EntriesInv, EntryBy
<1>8. TradesDisjoint'
  <2> SUFFICES ASSUME OnePositionPerPair PROVE TradesDisjoint'
    BY DEF TradesDisjoint
  <2>1. Len(positions') = 0 /\ Len(stillOpen') = 0
    BY <1>1, <1>2, BookTypes DEF IInv, OnePosition
  <2>2. \A t \in trades : t.exit < c.entry
    BY <1>2, <1>3 DEF IInv, TradesDisjoint
  <2>3. \A t, u \in trades' : t # u => t.exit < u.entry \/ u.exit < t.entry
    BY <1>1, <2>2 DEF IInv, TradesDisjoint
  <2>4. /\ \A i \in 1..Len(positions') : FALSE
        /\ \A i \in 1..Len(stillOpen') : FALSE
    BY <2>1
  <2>5. QED
    BY <2>3, <2>4 DEF TradesDisjoint
<1>9. QED
  BY <1>4, <1>5, <1>6, <1>7, <1>8 DEF BookInv

(* A position stays.                                                       *)
LEMMA KeepBook ==
  ASSUME IInv, KeepOldest
  PROVE  BookInv'
<1>1. /\ pc = "exits" /\ pc' = "exits" /\ positions # <<>>
      /\ positions' = Tail(positions)
      /\ stillOpen' = Append(stillOpen, Head(positions))
      /\ UNCHANGED <<bar, trades, filledThisBar>>
  BY DEF KeepOldest
<1> TypeOK
  BY DEF IInv
<1>2. /\ Len(positions') = Len(positions) - 1
      /\ Head(positions) = positions[1] /\ 1 \in 1..Len(positions)
      /\ \A i \in 1..Len(positions') :
            i + 1 \in 1..Len(positions) /\ positions'[i] = positions[i + 1]
      /\ Head(positions) \in Position
  BY <1>1, PositionsTail
<1>3. /\ Len(stillOpen') = Len(stillOpen) + 1
      /\ \A i \in 1..Len(stillOpen') :
            \/ i \in 1..Len(stillOpen) /\ stillOpen'[i] = stillOpen[i]
            \/ stillOpen'[i] = positions[1]
  BY <1>1, <1>2, AppendFacts DEF TypeOK
<1>4. OnePosition'
  BY <1>1, <1>2, <1>3, BookTypes DEF IInv, OnePosition
<1>5. EntriesInv'
  BY <1>1, <1>2, <1>3 DEF IInv, EntriesInv, EntryBy, bar
<1>6. ExitsInv' /\ NoPathBeforeEntry'
  BY <1>1 DEF IInv, ExitsInv, NoPathBeforeEntry, bar
<1>7. TradesDisjoint'
  BY <1>1, <1>2, <1>3 DEF IInv, TradesDisjoint
<1>8. QED
  BY <1>4, <1>5, <1>6, <1>7 DEF BookInv

(* The positions that stay are the positions again.                        *)
LEMMA ExitsDoneBook ==
  ASSUME IInv, ExitsDone
  PROVE  BookInv'
<1>1. /\ pc = "exits" /\ pc' = "setups"
      /\ positions' = stillOpen /\ stillOpen' = <<>> /\ Len(positions) = 0
      /\ UNCHANGED <<bar, trades, filledThisBar>>
  BY DEF ExitsDone
<1> TypeOK
  BY DEF IInv
<1>2. Len(stillOpen') = 0
  BY <1>1
<1>3. OnePosition'
  BY <1>1, <1>2, BookTypes DEF IInv, OnePosition
<1>4. EntriesInv'
  BY <1>1, <1>2, BookTypes DEF IInv, EntriesInv, EntryBy, bar
<1>5. ExitsInv' /\ NoPathBeforeEntry'
  BY <1>1 DEF IInv, ExitsInv, NoPathBeforeEntry, bar
<1>6. TradesDisjoint'
  BY <1>1, <1>2 DEF IInv, TradesDisjoint
<1>7. QED
  BY <1>3, <1>4, <1>5, <1>6 DEF BookInv

(* An entry, with the pair free and no trade that reaches into it.         *)
LEMMA EntryBook ==
  ASSUME IInv, pc # "exits", pc' # "exits", NEW p \in Position,
         OnePositionPerPair => positions = <<>> /\ \A t \in trades : t.exit < p.entry,
         p.entry <= clock + 1, filledThisBar' = TRUE,
         UNCHANGED <<bar, stillOpen>>,
         \/ positions' = Append(positions, p) /\ UNCHANGED trades
         \/ p.entry = clock /\ trades' = trades \cup {Closed(p)} /\ UNCHANGED positions
  PROVE  BookInv'
<1> TypeOK
  BY DEF IInv
<1>1. Len(stillOpen) = 0 /\ stillOpen' = stillOpen /\ clock' = clock
  BY DEF IInv, LoopInv, bar
<1>2. Closed(p).entry = p.entry /\ Closed(p).exit = clock /\ p.entry \in Nat
  BY DEF Closed, Position
<1>3. OnePositionPerPair => Len(positions) = 0
  OBVIOUS
<1>4. CASE positions' = Append(positions, p) /\ UNCHANGED trades
  <2>1. /\ Len(positions') = Len(positions) + 1
        /\ \A i \in 1..Len(positions') :
              \/ i \in 1..Len(positions) /\ positions'[i] = positions[i]
              \/ positions'[i] = p
    BY <1>4, AppendFacts DEF TypeOK
  <2>2. OnePosition'
    BY <1>1, <1>3, <2>1 DEF OnePosition
  <2>3. EntriesInv'
    BY <1>1, <2>1 DEF IInv, EntriesInv, EntryBy
  <2>4. ExitsInv' /\ NoPathBeforeEntry'
    BY <1>1, <1>4 DEF IInv, ExitsInv, NoPathBeforeEntry, bar
  <2>5. TradesDisjoint'
    BY <1>1, <1>3, <1>4, <2>1 DEF IInv, TradesDisjoint
  <2>6. QED
    BY <2>2, <2>3, <2>4, <2>5 DEF BookInv
<1>5. CASE p.entry = clock /\ trades' = trades \cup {Closed(p)} /\ UNCHANGED positions
  <2>1. OnePosition' /\ EntriesInv'
    BY <1>1, <1>5 DEF IInv, OnePosition, EntriesInv, EntryBy
  <2>2. ExitsInv' /\ NoPathBeforeEntry'
    BY <1>1, <1>2, <1>5 DEF IInv, ExitsInv, NoPathBeforeEntry
  <2>3. TradesDisjoint'
    BY <1>1, <1>2, <1>3, <1>5 DEF IInv, TradesDisjoint
  <2>4. QED
    BY <2>1, <2>2, <2>3 DEF BookInv
<1>6. QED
  BY <1>4, <1>5

(* A setup of an earlier bar fills.                                        *)
LEMMA FillBook ==
  ASSUME IInv, FillSetup
  PROVE  BookInv'
<1> DEFINE p == [signal |-> Head(pending).index,
                 entry |-> IF entryModel = "zone_reclaim" THEN clock + 1 ELSE clock]
<1>1. TypeOK /\ pc = "setups" /\ pc' = "setups" /\ pending # <<>> /\ ~PairTaken
  BY DEF IInv, FillSetup, Live, AtSetup
<1>2. p \in Position /\ p.entry \in {clock, clock + 1} /\ clock \in Nat
  <2>1. Head(pending) \in PendingOrder /\ clock \in Nat
    BY <1>1, PendingTail DEF TypeOK
  <2>2. QED
    BY <2>1 DEF PendingOrder, Position
<1>3. OnePositionPerPair => positions = <<>> /\ \A t \in trades : t.exit < p.entry
  BY <1>1, <1>2, BookTypes DEF PairTaken, IInv, ExitsInv
<1>4. /\ filledThisBar' = TRUE /\ UNCHANGED <<bar, stillOpen>>
      /\ \/ positions' = Append(positions, p) /\ UNCHANGED trades
         \/ p.entry = clock /\ trades' = trades \cup {Closed(p)} /\ UNCHANGED positions
  BY DEF FillSetup
<1>5. pc # "exits" /\ pc' # "exits" /\ p.entry <= clock + 1
  BY <1>1, <1>2
<1> HIDE DEF p
<1>6. QED
  BY <1>2, <1>3, <1>4, <1>5, EntryBook

(* A signal is entered at its close, after all that ended on the bar.      *)
LEMMA EnterBook ==
  ASSUME IInv, NEW side \in {-1, 1}, EnterAtClose(side)
  PROVE  BookInv'
<1> DEFINE p == [signal |-> index, entry |-> clock + 1]
<1>1. TypeOK /\ pc = "signal" /\ pc' = "bar" /\ ~CloseTaken
  BY DEF IInv, EnterAtClose, Eligible, AtSignal
<1>2. p \in Position /\ p.entry = clock + 1 /\ clock \in Nat
  BY <1>1 DEF TypeOK, Position
<1>3. OnePositionPerPair => positions = <<>> /\ \A t \in trades : t.exit < p.entry
  BY <1>1, <1>2, BookTypes DEF CloseTaken, IInv, ExitsInv
<1>4. /\ filledThisBar' = TRUE /\ UNCHANGED <<bar, stillOpen>>
      /\ positions' = Append(positions, p) /\ UNCHANGED trades
  BY DEF EnterAtClose
<1>5. pc # "exits" /\ pc' # "exits" /\ p.entry <= clock + 1
  BY <1>1, <1>2
<1> HIDE DEF p
<1>6. QED
  BY <1>2, <1>3, <1>4, <1>5, EntryBook

(* The steps over setups that do not fill, and over signals not entered.   *)
LEMMA QuietSteps ==
  ASSUME IInv,
         \/ InvalidateSetup \/ ExpireSetup \/ HoldSetup \/ WaitSetup \/ StopSetup
         \/ RejectSetup \/ SetupsDone \/ NoSignal
         \/ \E side \in {-1, 1} : RejectSignal(side) \/ SignalBlocked(side)
                                   \/ QueueSetup(side)
  PROVE  UNCHANGED <<bar, book, filledThisBar>> /\ pc # "exits" /\ pc' # "exits"
<1>1. CASE InvalidateSetup \/ ExpireSetup \/ HoldSetup \/ WaitSetup \/ StopSetup
           \/ RejectSetup \/ SetupsDone
  BY <1>1 DEF InvalidateSetup, ExpireSetup, HoldSetup, WaitSetup, StopSetup, RejectSetup,
              SetupsDone, Live, AtSetup, Drop, Keep
<1>2. CASE NoSignal \/ \E side \in {-1, 1} : RejectSignal(side) \/ SignalBlocked(side)
                                             \/ QueueSetup(side)
  BY <1>2 DEF NoSignal, RejectSignal, SignalBlocked, SignalDropped, QueueSetup,
              Eligible, AtSignal
<1>3. QED
  BY <1>1, <1>2

(* Every step keeps the invariant.                                         *)
LEMMA StepInv == IInv /\ [Next]_vars => IInv'
<1> SUFFICES ASSUME IInv, [Next]_vars PROVE IInv'
  OBVIOUS
<1>1. TypeOK'
  BY TypeStep DEF IInv
<1>2. CASE Next
  <2>1. SetupsConserved' /\ LoopInv'
    BY <1>2, ConservedStep, LoopStep
  <2>2. BookInv'
    BY <1>2, NextBarBook, CloseBook, KeepBook, ExitsDoneBook, FillBook, EnterBook,
       QuietSteps, QuietBook DEF Next
  <2>3. QED
    BY <1>1, <2>1, <2>2 DEF IInv, BookInv
<1>3. CASE UNCHANGED vars
  <2>1. /\ UNCHANGED <<pc, index, clock, history, prior, trend, positionWasOpen, filledThisBar>>
        /\ UNCHANGED <<positions, stillOpen, fills, trades, pending, stillPending, counts>>
    BY <1>3 DEF vars, bar, book
  <2>2. SetupsConserved'
    BY <2>1 DEF IInv, SetupsConserved, eligible_signals, filled_orders, expired_orders,
                rejected, invalidated_setups, rejected_no_origin_touch,
                rejected_no_directional_reclaim
  <2>3. QED
    BY <1>1, <2>1, <2>2 DEF IInv, LoopInv, OnePosition, EntriesInv, EntryBy, ExitsInv,
                            NoPathBeforeEntry, TradesDisjoint
<1>4. QED
  BY <1>2, <1>3

(* Every eligible candle is counted in exactly one outcome.                *)
THEOREM Conservation == Spec => []SetupsConserved
<1>1. IInv => SetupsConserved
  BY DEF IInv
<1>2. QED
  BY <1>1, InitInv, StepInv, PTL DEF Spec

(* No two trades of a pair touch the same bar or lie inside each other,    *)
(* and at most one position is open.                                       *)
THEOREM OneTradeAtATime == Spec => [](OnePosition /\ TradesDisjoint)
<1>1. IInv => OnePosition /\ TradesDisjoint
  BY DEF IInv
<1>2. QED
  BY <1>1, InitInv, StepInv, PTL DEF Spec

(* No trade ends before it is entered.                                     *)
THEOREM NothingBeforeEntry == Spec => []NoPathBeforeEntry
<1>1. IInv => NoPathBeforeEntry
  BY DEF IInv
<1>2. QED
  BY <1>1, InitInv, StepInv, PTL DEF Spec

----------------------------------------------------------------------------
(***************************************************************************)
(* What becomes of a candle.                                               *)
(***************************************************************************)

(* The conditions of HistoryInv, of any history h.                         *)
Held(h, first, last, side) ==
    TrendFilter /\ InvalidateOnTrendChange => \A b \in first..last - 1 : h[b].trend = side

Whole(h, first, last) == \A b \in first + 1..last : h[b].time = h[b - 1].time + 1

Good(h, o, n) ==
    /\ o.index \in 1..n
    /\ h[o.index].time = o.time
    /\ h[n].time = o.time + (n - o.index)
    /\ Held(h, o.index, n, o.trend)
    /\ Whole(h, o.index, n)

Unbroken(h, f) == Held(h, f.signal, f.bar, f.trend) /\ Whole(h, f.signal, f.bar)

(* What happened up to a bar is not changed by what comes later.           *)
LEMMA PastStays ==
  ASSUME NEW h, NEW g, NEW n \in Nat, \A i \in 1..n : g[i] = h[i],
         NEW first \in Nat \ {0}, NEW last \in 0..n, NEW side
  PROVE  /\ Held(h, first, last, side) => Held(g, first, last, side)
         /\ Whole(h, first, last) => Whole(g, first, last)
<1>1. \A b \in first..last - 1 : b \in 1..n
  OBVIOUS
<1>2. \A b \in first + 1..last : b \in 1..n /\ b - 1 \in 1..n
  OBVIOUS
<1>3. QED
  BY <1>1, <1>2 DEF Held, Whole

LEMMA GoodStays ==
  ASSUME NEW h, NEW g, NEW n \in Nat, \A i \in 1..n : g[i] = h[i],
         NEW o \in PendingOrder, Good(h, o, n)
  PROVE  Good(g, o, n)
<1>1. o.index \in 1..n /\ o.index \in Nat \ {0} /\ n \in 1..n /\ n \in 0..n
  BY DEF Good, PendingOrder
<1>2. Held(g, o.index, n, o.trend) /\ Whole(g, o.index, n)
  BY <1>1, PastStays DEF Good
<1>3. QED
  BY <1>1, <1>2 DEF Good

(* A bar at its time, after a close at which the trend was the setup's.    *)
LEMMA GoodExtends ==
  ASSUME NEW h, NEW o \in PendingOrder, NEW n \in Nat, Good(h, o, n - 1),
         h[n].time = o.time + (n - o.index),
         TrendFilter /\ InvalidateOnTrendChange => h[n - 1].trend = o.trend
  PROVE  Good(h, o, n)
<1>1. o.index \in 1..n - 1 /\ o.index \in Nat /\ o.time \in Nat
  BY DEF Good, PendingOrder
<1>2. Held(h, o.index, n, o.trend)
  <2>1. \A b \in o.index..n - 1 : b \in o.index..(n - 1) - 1 \/ b = n - 1
    BY <1>1
  <2>2. QED
    BY <2>1 DEF Good, Held
<1>3. Whole(h, o.index, n)
  <2>1. \A b \in o.index + 1..n : b \in o.index + 1..n - 1 \/ b = n
    BY <1>1
  <2>2. h[n].time = h[n - 1].time + 1
    BY <1>1 DEF Good
  <2>3. QED
    BY <2>1, <2>2 DEF Good, Whole
<1>4. QED
  BY <1>1, <1>2, <1>3 DEF Good

LEMMA GoodAtSignal ==
  ASSUME NEW h, NEW o \in PendingOrder, NEW n \in Nat \ {0},
         o.index = n, h[n].time = o.time
  PROVE  Good(h, o, n)
<1>1. o.time \in Nat
  BY DEF PendingOrder
<1>2. Held(h, n, n, o.trend) /\ Whole(h, n, n)
  BY DEF Held, Whole
<1>3. QED
  BY <1>1, <1>2 DEF Good

(* The invariant in these terms.                                           *)
Shape ==
    /\ Len(history) = index
    /\ index > 0 => history[index] = [time |-> clock, trend |-> trend]
    /\ pc # "bar" => index > 0 /\ (index > 1 => prior = history[index - 1].trend)

LEMMA HistoryParts ==
  /\ HistoryInv <=>
       /\ Shape
       /\ \A i \in 1..Len(pending) : Good(history, pending[i], Checked)
       /\ \A i \in 1..Len(stillPending) : Good(history, stillPending[i], index)
       /\ \A f \in fills : f.signal \in 1..f.bar /\ f.bar <= index
       /\ \A f \in fills : Unbroken(history, f)
  /\ HistoryInv' <=>
       /\ Shape'
       /\ \A i \in 1..Len(pending') : Good(history', pending'[i], Checked')
       /\ \A i \in 1..Len(stillPending') : Good(history', stillPending'[i], index')
       /\ \A f \in fills' : f.signal \in 1..f.bar /\ f.bar <= index'
       /\ \A f \in fills' : Unbroken(history', f)
BY DEF HistoryInv, Shape, Good, GoodTo, FillsUnbroken, Unbroken, TrendHeld, NoneMissing,
       Held, Whole

LEMMA QueueTypes ==
  ASSUME TypeOK
  PROVE  /\ index \in Nat /\ clock \in Nat
         /\ pending \in Seq(PendingOrder) /\ stillPending \in Seq(PendingOrder)
         /\ \A i \in 1..Len(pending) : pending[i] \in PendingOrder
         /\ \A i \in 1..Len(stillPending) : stillPending[i] \in PendingOrder
         /\ \A f \in fills : f.signal \in Nat /\ f.bar \in Nat
  BY DEF TypeOK

(* While a bar is worked on, only the queues and the fills can break it.   *)
LEMMA WithinBar ==
  ASSUME TypeOK, HistoryInv, UNCHANGED bar, pc # "bar",
         \A i \in 1..Len(pending') : Good(history, pending'[i], Checked'),
         \A i \in 1..Len(stillPending') : Good(history, stillPending'[i], index),
         \A f \in fills' :
            f \in fills \/ (f.signal \in 1..f.bar /\ f.bar <= index /\ Unbroken(history, f))
  PROVE  HistoryInv'
<1>1. index' = index /\ history' = history /\ clock' = clock /\ trend' = trend /\ prior' = prior
  BY DEF bar
<1>2. Shape'
  BY <1>1, HistoryParts DEF Shape
<1>3. QED
  BY <1>1, <1>2, HistoryParts

(* The oldest setup is good on this bar too, when it is still alive.       *)
LEMMA LiveIsGood ==
  ASSUME TypeOK, HistoryInv, Live
  PROVE  Good(history, Head(pending), index)
<1> DEFINE o == Head(pending)
<1>1. pc = "setups" /\ pending # <<>> /\ ~Invalidated(o)
  BY DEF Live, AtSetup
<1>2. o \in PendingOrder /\ o = pending[1] /\ 1 \in 1..Len(pending)
  BY <1>1, QueueTypes, TailFacts
<1>3. index \in Nat /\ clock \in Nat /\ o.index \in Nat /\ o.time \in Nat
  BY <1>2, QueueTypes DEF PendingOrder
<1>4. Good(history, o, index - 1)
  BY <1>1, <1>2, HistoryParts DEF Checked
<1>5. index - 1 \in Nat /\ index > 1
  BY <1>3, <1>4 DEF Good
<1>6. history[index].time = o.time + (index - o.index)
  <2>1. clock = o.time + (index - o.index)
    BY <1>1 DEF Invalidated, MissingBar, Age
  <2>2. history[index] = [time |-> clock, trend |-> trend]
    BY <1>5, HistoryParts DEF Shape
  <2>3. QED
    BY <2>1, <2>2
<1>7. TrendFilter /\ InvalidateOnTrendChange => history[index - 1].trend = o.trend
  BY <1>1, <1>5, HistoryParts DEF Shape, Invalidated, TrendInvalidated
<1> HIDE DEF o
<1>8. Good(history, o, index)
  BY <1>2, <1>3, <1>4, <1>6, <1>7, GoodExtends
<1>9. QED
  BY <1>8 DEF o

(* What stays of the queue after its oldest setup.                         *)
LEMMA RestIsGood ==
  ASSUME TypeOK, HistoryInv, AtSetup, pending' = Tail(pending), pc' = pc, index' = index
  PROVE  \A i \in 1..Len(pending') : Good(history, pending'[i], Checked')
<1>1. pending \in Seq(PendingOrder) /\ pending # <<>>
  BY QueueTypes DEF AtSetup
<1>2. \A i \in 1..Len(pending') : i + 1 \in 1..Len(pending) /\ pending'[i] = pending[i + 1]
  BY <1>1, TailFacts
<1>3. Checked' = Checked
  BY DEF Checked
<1>4. QED
  BY <1>2, <1>3, HistoryParts

(* Every step keeps it.                                                    *)
LEMMA HistoryStep == IInv /\ HistoryInv /\ [Next]_vars => HistoryInv'
<1> SUFFICES ASSUME IInv, HistoryInv, [Next]_vars PROVE HistoryInv'
  OBVIOUS
<1>t. TypeOK /\ TypeOK'
  BY TypeStep DEF IInv
<1>0. /\ index \in Nat /\ clock \in Nat
      /\ pending \in Seq(PendingOrder) /\ stillPending \in Seq(PendingOrder)
  BY <1>t, QueueTypes
<1>h. /\ Shape
      /\ \A i \in 1..Len(pending) : Good(history, pending[i], Checked)
      /\ \A i \in 1..Len(stillPending) : Good(history, stillPending[i], index)
      /\ \A f \in fills : f.signal \in 1..f.bar /\ f.bar <= index
      /\ \A f \in fills : Unbroken(history, f)
  BY HistoryParts
<1>1. ASSUME NEW gap \in 0..MaxGap, NEW t \in Trends, NextBar(gap, t) PROVE HistoryInv'
  <2> DEFINE e == [time |-> clock', trend |-> t]
  <2>1. /\ pc = "bar" /\ pc' = "exits" /\ index' = index + 1 /\ history' = Append(history, e)
        /\ trend' = t /\ prior' = trend
        /\ UNCHANGED <<pending, stillPending, fills>>
    BY <1>1 DEF NextBar, book
  <2>2. e \in [time : Nat, trend : Trends] /\ history \in Seq([time : Nat, trend : Trends])
    BY <1>t, <2>1 DEF TypeOK
  <2>3. Len(history) = index
    BY <1>h DEF Shape
  <2> HIDE DEF e
  <2>4. /\ Len(history') = index + 1 /\ history'[index + 1] = e
        /\ \A i \in 1..index : history'[i] = history[i]
    BY <1>0, <2>1, <2>2, <2>3
  <2>5. Shape'
    <3>1. index + 1 > 1 => history'[index + 1 - 1].trend = trend
      <4>1. index > 0 => history[index].trend = trend
        BY <1>h DEF Shape
      <4>2. QED
        BY <1>0, <2>4, <4>1
    <3>2. QED
      BY <1>0, <2>1, <2>4, <3>1 DEF Shape, e
  <2>6. Checked = index /\ Checked' = index
    BY <1>0, <2>1 DEF Checked
  <2>7. \A i \in 1..Len(pending') : Good(history', pending'[i], Checked')
    BY <1>0, <1>t, <1>h, <2>1, <2>4, <2>6, QueueTypes, GoodStays
  <2>8. stillPending' = <<>>
    BY <2>1 DEF IInv, LoopInv
  <2>9. \A f \in fills' : f.signal \in 1..f.bar /\ f.bar <= index' /\ Unbroken(history', f)
    <3> SUFFICES ASSUME NEW f \in fills
                 PROVE  f.signal \in 1..f.bar /\ f.bar <= index' /\ Unbroken(history', f)
      BY <2>1
    <3>1. f.signal \in 1..f.bar /\ f.bar <= index /\ Unbroken(history, f)
      BY <1>h
    <3>2. f.signal \in Nat \ {0} /\ f.bar \in 0..index
      BY <1>0, <1>t, <3>1, QueueTypes
    <3>3. Unbroken(history', f)
      BY <1>0, <2>4, <3>1, <3>2, PastStays DEF Unbroken
    <3>4. QED
      BY <1>0, <2>1, <3>1, <3>2, <3>3
  <2>10. QED
    BY <2>5, <2>7, <2>8, <2>9, HistoryParts
<1>2. CASE CloseOldest \/ KeepOldest \/ ExitsDone
  <2>1. UNCHANGED <<bar, pending, stillPending, fills>> /\ pc = "exits" /\ pc' \in {"exits", "setups"}
    BY <1>2 DEF CloseOldest, KeepOldest, ExitsDone
  <2>2. Checked' = Checked
    BY <2>1 DEF Checked, bar
  <2>3. QED
    BY <1>t, <1>h, <2>1, <2>2, WithinBar
<1>3. ASSUME NEW what \in {"invalidated", "rejected"}, Drop(what) PROVE HistoryInv'
  <2>1. /\ AtSetup /\ pending' = Tail(pending)
        /\ UNCHANGED <<pc, bar, stillPending, fills>> /\ index' = index /\ pc # "bar"
    BY <1>3 DEF Drop, AtSetup, bar, book
  <2>2. QED
    BY <1>t, <1>h, <2>1, RestIsGood, WithinBar
<1>4. CASE ExpireSetup
  <2>1. /\ AtSetup /\ pending' = Tail(pending)
        /\ UNCHANGED <<pc, bar, stillPending, fills>> /\ index' = index /\ pc # "bar"
    BY <1>4 DEF ExpireSetup, AtSetup, bar, book
  <2>2. QED
    BY <1>t, <1>h, <2>1, RestIsGood, WithinBar
<1>5. CASE HoldSetup \/ WaitSetup
  <2> DEFINE o == Head(pending)
  <2>1. PICK touched : Keep(touched)
    BY <1>5 DEF HoldSetup, WaitSetup
  <2> DEFINE k == [o EXCEPT !.touched = touched]
  <2>2. /\ AtSetup /\ pending' = Tail(pending) /\ stillPending' = Append(stillPending, k)
        /\ UNCHANGED <<pc, bar, fills>> /\ index' = index /\ pc # "bar"
    BY <2>1 DEF Keep, AtSetup, bar, book
  <2>3. o \in PendingOrder
    BY <1>t, <2>2, PendingTail DEF AtSetup
  <2>4. k.index = o.index /\ k.time = o.time /\ k.trend = o.trend
    BY <2>3 DEF PendingOrder
  <2>5. Good(history, o, index)
    BY <1>5, <1>t, LiveIsGood DEF HoldSetup, WaitSetup
  <2>6. Good(history, k, index)
    BY <2>4, <2>5 DEF Good
  <2> HIDE DEF k
  <2>7. \A i \in 1..Len(stillPending') :
           \/ i \in 1..Len(stillPending) /\ stillPending'[i] = stillPending[i]
           \/ stillPending'[i] = k
    BY <1>0, <2>2
  <2>8. \A i \in 1..Len(stillPending') : Good(history, stillPending'[i], index)
    BY <1>h, <2>6, <2>7
  <2>9. QED
    BY <1>t, <1>h, <2>2, <2>8, RestIsGood, WithinBar
<1>6. CASE FillSetup
  <2> DEFINE o == Head(pending)
             f == [signal |-> o.index, bar |-> index, trend |-> o.trend]
  <2>1. /\ AtSetup /\ pending' = Tail(pending) /\ fills' = fills \cup {f} /\ Live
        /\ UNCHANGED <<pc, bar, stillPending>> /\ index' = index /\ pc # "bar"
    BY <1>6 DEF FillSetup, Live, AtSetup, bar
  <2>2. Good(history, o, index)
    BY <1>t, <2>1, LiveIsGood
  <2> HIDE DEF o
  <2>3. f.signal \in 1..f.bar /\ f.bar <= index /\ Unbroken(history, f)
    BY <1>0, <2>2 DEF Good, Unbroken
  <2> HIDE DEF f
  <2>4. QED
    BY <1>t, <1>h, <2>1, <2>3, RestIsGood, WithinBar
<1>7. CASE SetupsDone
  <2>1. /\ pc = "setups" /\ pc' = "signal" /\ pending' = stillPending /\ stillPending' = <<>>
        /\ UNCHANGED <<bar, fills>> /\ index' = index
    BY <1>7 DEF SetupsDone, bar, book
  <2>2. Checked' = index
    BY <2>1 DEF Checked
  <2>3. QED
    BY <1>t, <1>h, <2>1, <2>2, WithinBar
<1>8. CASE NoSignal \/ \E side \in {-1, 1} : RejectSignal(side) \/ SignalBlocked(side)
  <2>1. /\ pc = "signal" /\ pc' = "bar" /\ index' = index
        /\ UNCHANGED <<bar, pending, stillPending, fills>>
    BY <1>8 DEF NoSignal, RejectSignal, SignalBlocked, SignalDropped, Eligible, AtSignal, bar, book
  <2>2. Checked' = Checked
    BY <2>1 DEF Checked
  <2>3. QED
    BY <1>t, <1>h, <2>1, <2>2, WithinBar
<1>9. ASSUME NEW side \in {-1, 1}, EnterAtClose(side) PROVE HistoryInv'
  <2> DEFINE f == [signal |-> index, bar |-> index, trend |-> side]
  <2>1. /\ pc = "signal" /\ pc' = "bar" /\ index' = index
        /\ UNCHANGED <<bar, pending, stillPending>> /\ fills' = fills \cup {f}
    BY <1>9 DEF EnterAtClose, Eligible, AtSignal, bar
  <2>2. Checked' = Checked
    BY <2>1 DEF Checked
  <2>3. index > 0
    BY <1>h, <2>1 DEF Shape
  <2>4. f.signal \in 1..f.bar /\ f.bar <= index /\ Unbroken(history, f)
    BY <1>0, <2>3 DEF Unbroken, Held, Whole
  <2> HIDE DEF f
  <2>5. QED
    BY <1>t, <1>h, <2>1, <2>2, <2>4, WithinBar
<1>10. ASSUME NEW side \in {-1, 1}, QueueSetup(side) PROVE HistoryInv'
  <2> DEFINE o == [index |-> index, time |-> clock, trend |-> side, touched |-> FALSE]
  <2>1. /\ pc = "signal" /\ pc' = "bar" /\ index' = index
        /\ UNCHANGED <<bar, stillPending, fills>> /\ pending' = Append(pending, o)
    BY <1>10 DEF QueueSetup, Eligible, AtSignal, bar, book
  <2>2. Checked = index /\ Checked' = index
    BY <2>1 DEF Checked
  <2>3. index > 0 /\ history[index].time = clock
    BY <1>h, <2>1 DEF Shape
  <2>4. o \in PendingOrder /\ o.index = index /\ o.time = clock
    BY <1>0 DEF PendingOrder
  <2> HIDE DEF o
  <2>5. Good(history, o, index)
    BY <1>0, <2>3, <2>4, GoodAtSignal
  <2>6. \A i \in 1..Len(pending') :
           (i \in 1..Len(pending) /\ pending'[i] = pending[i]) \/ pending'[i] = o
    BY <1>0, <2>1, <2>4, AppendFacts
  <2>7. \A i \in 1..Len(pending') : Good(history, pending'[i], Checked')
    BY <1>h, <2>2, <2>5, <2>6
  <2>8. QED
    BY <1>t, <1>h, <2>1, <2>7, WithinBar
<1>11. CASE UNCHANGED vars
  <2>1. UNCHANGED <<pc, index, clock, history, prior, trend, pending, stillPending, fills>>
    BY <1>11 DEF vars, bar, book
  <2>2. Checked' = Checked /\ (Shape <=> Shape')
    BY <2>1 DEF Checked, Shape
  <2>3. QED
    BY <1>h, <2>1, <2>2, HistoryParts
<1>12. QED
  BY <1>1, <1>2, <1>3, <1>4, <1>5, <1>6, <1>7, <1>8, <1>9, <1>10, <1>11
     DEF Next, InvalidateSetup, StopSetup, RejectSetup

(* No setup fills after a bar was missing or the trend had turned, however *)
(* long it was held or waited and whatever the trend did since.            *)
THEOREM FillsStayUnbroken == Spec => []FillsUnbroken
<1>1. Init => HistoryInv
  BY DEF Init, HistoryInv, FillsUnbroken
<1>2. HistoryInv => FillsUnbroken
  BY DEF HistoryInv
<1>3. QED
  BY <1>1, <1>2, InitInv, StepInv, HistoryStep, PTL DEF Spec

(* Taking the oldest position off a list, and putting one at its end.        *)
LEMMA TakenTail ==
  ASSUME NEW q \in Seq(Position), q # <<>>, TakenOnce(q)
  PROVE  /\ Head(q).signal \in Taken(q)
         /\ Taken(Tail(q)) = Taken(q) \ {Head(q).signal}
         /\ TakenOnce(Tail(q))
<1>1. /\ Len(Tail(q)) = Len(q) - 1 /\ Len(q) \in Nat
      /\ Head(q) = q[1] /\ 1 \in 1..Len(q)
      /\ \A i \in 1..Len(Tail(q)) : i + 1 \in 1..Len(q) /\ Tail(q)[i] = q[i + 1]
  BY TailFacts
<1>2. \A j \in 1..Len(q) : j # 1 => j - 1 \in 1..Len(Tail(q)) /\ Tail(q)[j - 1] = q[j]
  BY <1>1
<1>3. Taken(Tail(q)) \subseteq Taken(q) \ {Head(q).signal}
  <2>1. \A i \in 1..Len(Tail(q)) : i + 1 # 1
    BY <1>1
  <2>2. QED
    BY <1>1, <2>1 DEF Taken, TakenOnce
<1>4. Taken(q) \ {Head(q).signal} \subseteq Taken(Tail(q))
  BY <1>1, <1>2 DEF Taken
<1>5. TakenOnce(Tail(q))
  BY <1>1 DEF TakenOnce
<1>6. QED
  BY <1>1, <1>3, <1>4, <1>5 DEF Taken

LEMMA TakenAppend ==
  ASSUME NEW q \in Seq(Position), NEW p \in Position
  PROVE  /\ Taken(Append(q, p)) = Taken(q) \cup {p.signal}
         /\ TakenOnce(q) /\ p.signal \notin Taken(q) => TakenOnce(Append(q, p))
<1>1. /\ Len(Append(q, p)) = Len(q) + 1 /\ Len(q) \in Nat
      /\ \A i \in 1..Len(q) : Append(q, p)[i] = q[i]
      /\ Append(q, p)[Len(q) + 1] = p
  OBVIOUS
<1>2. \A i \in 1..Len(Append(q, p)) : i \in 1..Len(q) \/ i = Len(q) + 1
  BY <1>1
<1>3. \A i \in 1..Len(q) : i \in 1..Len(Append(q, p)) /\ i # Len(q) + 1
  BY <1>1
<1>4. Len(q) + 1 \in 1..Len(Append(q, p))
  BY <1>1
<1>5. Taken(Append(q, p)) = Taken(q) \cup {p.signal}
  BY <1>1, <1>2, <1>3, <1>4 DEF Taken
<1>6. ASSUME TakenOnce(q), p.signal \notin Taken(q) PROVE TakenOnce(Append(q, p))
  BY <1>1, <1>2, <1>3, <1>6 DEF Taken, TakenOnce
<1>7. QED
  BY <1>5, <1>6

(* The same for setups.                                                     *)
LEMMA WaitingTail ==
  ASSUME NEW q \in Seq(PendingOrder), q # <<>>, WaitingOnce(q)
  PROVE  /\ Head(q).index \in Waiting(q)
         /\ Waiting(Tail(q)) = Waiting(q) \ {Head(q).index}
         /\ WaitingOnce(Tail(q))
<1>1. /\ Len(Tail(q)) = Len(q) - 1 /\ Len(q) \in Nat
      /\ Head(q) = q[1] /\ 1 \in 1..Len(q)
      /\ \A i \in 1..Len(Tail(q)) : i + 1 \in 1..Len(q) /\ Tail(q)[i] = q[i + 1]
  BY TailFacts
<1>2. \A j \in 1..Len(q) : j # 1 => j - 1 \in 1..Len(Tail(q)) /\ Tail(q)[j - 1] = q[j]
  BY <1>1
<1>3. Waiting(Tail(q)) \subseteq Waiting(q) \ {Head(q).index}
  <2>1. \A i \in 1..Len(Tail(q)) : i + 1 # 1
    BY <1>1
  <2>2. QED
    BY <1>1, <2>1 DEF Waiting, WaitingOnce
<1>4. Waiting(q) \ {Head(q).index} \subseteq Waiting(Tail(q))
  BY <1>1, <1>2 DEF Waiting
<1>5. WaitingOnce(Tail(q))
  BY <1>1 DEF WaitingOnce
<1>6. QED
  BY <1>1, <1>3, <1>4, <1>5 DEF Waiting

LEMMA WaitingAppend ==
  ASSUME NEW q \in Seq(PendingOrder), NEW p \in PendingOrder
  PROVE  /\ Waiting(Append(q, p)) = Waiting(q) \cup {p.index}
         /\ WaitingOnce(q) /\ p.index \notin Waiting(q) => WaitingOnce(Append(q, p))
<1>1. /\ Len(Append(q, p)) = Len(q) + 1 /\ Len(q) \in Nat
      /\ \A i \in 1..Len(q) : Append(q, p)[i] = q[i]
      /\ Append(q, p)[Len(q) + 1] = p
  OBVIOUS
<1>2. \A i \in 1..Len(Append(q, p)) : i \in 1..Len(q) \/ i = Len(q) + 1
  BY <1>1
<1>3. \A i \in 1..Len(q) : i \in 1..Len(Append(q, p)) /\ i # Len(q) + 1
  BY <1>1
<1>4. Len(q) + 1 \in 1..Len(Append(q, p))
  BY <1>1
<1>5. Waiting(Append(q, p)) = Waiting(q) \cup {p.index}
  BY <1>1, <1>2, <1>3, <1>4 DEF Waiting
<1>6. ASSUME WaitingOnce(q), p.index \notin Waiting(q) PROVE WaitingOnce(Append(q, p))
  BY <1>1, <1>2, <1>3, <1>6 DEF Waiting, WaitingOnce
<1>7. QED
  BY <1>5, <1>6

(* What the lists name are bars.                                           *)
LEMMA PlaceTypes ==
  ASSUME TypeOK
  PROVE  /\ positions \in Seq(Position) /\ stillOpen \in Seq(Position)
         /\ pending \in Seq(PendingOrder) /\ stillPending \in Seq(PendingOrder)
         /\ Taken(positions) \subseteq Nat /\ Taken(stillOpen) \subseteq Nat
         /\ Waiting(pending) \subseteq Nat /\ Waiting(stillPending) \subseteq Nat
         /\ Entered \subseteq Nat /\ index \in Nat
<1>1. /\ positions \in Seq(Position) /\ stillOpen \in Seq(Position)
      /\ pending \in Seq(PendingOrder) /\ stillPending \in Seq(PendingOrder)
      /\ index \in Nat
  BY DEF TypeOK
<1>2. /\ \A q \in Seq(Position) : Taken(q) \subseteq Nat
      /\ \A q \in Seq(PendingOrder) : Waiting(q) \subseteq Nat
  <2>1. /\ \A r \in Position : r.signal \in Nat
        /\ \A r \in PendingOrder : r.index \in Nat
    BY DEF Position, PendingOrder
  <2>2. /\ \A q \in Seq(Position) : \A i \in 1..Len(q) : q[i] \in Position
        /\ \A q \in Seq(PendingOrder) : \A i \in 1..Len(q) : q[i] \in PendingOrder
    OBVIOUS
  <2>3. QED
    BY <2>1, <2>2 DEF Taken, Waiting
<1>3. Entered \subseteq Nat
  BY DEF TypeOK, Entered
<1>4. QED
  BY <1>1, <1>2, <1>3

(* An empty list holds nothing.                                            *)
LEMMA EmptyLists ==
  /\ Taken(<<>>) = {} /\ TakenOnce(<<>>)
  /\ Waiting(<<>>) = {} /\ WaitingOnce(<<>>)
  BY DEF Taken, TakenOnce, Waiting, WaitingOnce

(* One more trade, one more fill.                                          *)
LEMMA OneMore ==
  /\ \A t : trades' = trades \cup {t} => Ended' = Ended \cup {t.signal}
  /\ \A f : fills' = fills \cup {f} => Entered' = Entered \cup {f.signal}
  BY DEF Ended, Entered

(* What leaves the lists, the trades and the fills alone keeps the rest,   *)
(* if it does not go back.                                                 *)
LEMMA QuietFate ==
  ASSUME TypeOK, FateInv,
         UNCHANGED <<positions, stillOpen, pending, stillPending, trades, fills>>,
         Reached' \in Int, Reached <= Reached'
  PROVE  FateInv'
<1>1. Reached \in Int
  BY DEF TypeOK, Reached
<1>2. UNCHANGED <<Taken(positions), Taken(stillOpen), Waiting(pending),
                  Waiting(stillPending), Ended, Entered>>
  BY DEF Taken, Waiting, Ended, Entered
<1>3. \A s \in Entered \cup Waiting(pending) \cup Waiting(stillPending) : s <= Reached'
  BY <1>1, PlaceTypes DEF FateInv
<1>4. QED
  BY <1>2, <1>3 DEF FateInv, TakenOnce, WaitingOnce

(* An exit moves a candle from the positions to the trades or to the       *)
(* positions that stay.                                                    *)
LEMMA ExitFate ==
  ASSUME TypeOK, FateInv, CloseOldest \/ KeepOldest
  PROVE  FateInv'
<1> DEFINE h == Head(positions)
<1>1. /\ positions # <<>> /\ positions' = Tail(positions)
      /\ UNCHANGED <<pc, index, fills, pending, stillPending>>
  BY DEF CloseOldest, KeepOldest, bar
<1>2. positions \in Seq(Position) /\ stillOpen \in Seq(Position) /\ h \in Position
  BY <1>1, PlaceTypes, PositionsTail
<1>3. /\ h.signal \in Taken(positions)
      /\ Taken(positions') = Taken(positions) \ {h.signal}
      /\ TakenOnce(positions')
  BY <1>1, <1>2, TakenTail DEF FateInv
<1>4. /\ UNCHANGED <<Waiting(pending), Waiting(stillPending), Entered, Reached>>
      /\ WaitingOnce(pending)' /\ WaitingOnce(stillPending)'
  BY <1>1 DEF Waiting, WaitingOnce, Entered, Reached, FateInv
<1>5. CASE CloseOldest
  <2>1. trades' = trades \cup {Closed(h)} /\ stillOpen' = stillOpen
    BY <1>5 DEF CloseOldest
  <2>2. Closed(h).signal = h.signal
    BY DEF Closed
  <2>3. Ended' = Ended \cup {h.signal}
    BY <2>1, <2>2, OneMore
  <2>4. h.signal \notin Ended
    BY <1>3 DEF FateInv
  <2>5. \A t \in trades : t.signal # h.signal
    BY <2>4 DEF Ended
  <2>6. \A t, u \in trades' : t.signal = u.signal => t = u
    BY <2>1, <2>2, <2>5 DEF FateInv
  <2>7. TakenOnce(stillOpen)' /\ Taken(stillOpen)' = Taken(stillOpen)
    BY <2>1 DEF Taken, TakenOnce, FateInv
  <2> HIDE DEF h
  <2>8. QED
    BY <1>3, <1>4, <2>3, <2>6, <2>7 DEF FateInv
<1>6. CASE KeepOldest
  <2>1. trades' = trades /\ stillOpen' = Append(stillOpen, h)
    BY <1>6 DEF KeepOldest
  <2>2. h.signal \notin Taken(stillOpen)
    BY <1>3 DEF FateInv
  <2>3. TakenOnce(stillOpen') /\ Taken(stillOpen') = Taken(stillOpen) \cup {h.signal}
    BY <1>2, <2>1, <2>2, TakenAppend DEF FateInv
  <2>4. Ended' = Ended
    BY <2>1 DEF Ended
  <2> HIDE DEF h
  <2>5. QED
    BY <1>3, <1>4, <2>1, <2>3, <2>4 DEF FateInv
<1>7. QED
  BY <1>5, <1>6

(* The ends of the two loops put the lists back.                           *)
LEMMA DoneFate ==
  ASSUME TypeOK, FateInv, ExitsDone \/ SetupsDone
  PROVE  FateInv'
<1>1. UNCHANGED <<Ended, Entered, Reached, trades>>
  BY DEF ExitsDone, SetupsDone, Ended, Entered, Reached, bar, book
<1>2. CASE ExitsDone
  <2>1. positions' = stillOpen /\ stillOpen' = <<>> /\ positions = <<>>
        /\ UNCHANGED <<pending, stillPending>>
    BY <1>2 DEF ExitsDone
  <2>2. UNCHANGED <<Waiting(pending), Waiting(stillPending)>>
        /\ WaitingOnce(pending)' /\ WaitingOnce(stillPending)'
    BY <2>1 DEF Waiting, WaitingOnce, FateInv
  <2>3. QED
    BY <1>1, <2>1, <2>2, EmptyLists DEF FateInv
<1>3. CASE SetupsDone
  <2>1. pending' = stillPending /\ stillPending' = <<>> /\ pending = <<>>
        /\ UNCHANGED <<positions, stillOpen>>
    BY <1>3 DEF SetupsDone, book
  <2>2. UNCHANGED <<Taken(positions), Taken(stillOpen)>>
        /\ TakenOnce(positions)' /\ TakenOnce(stillOpen)'
    BY <2>1 DEF Taken, TakenOnce, FateInv
  <2>3. QED
    BY <1>1, <2>1, <2>2, EmptyLists DEF FateInv
<1>4. QED
  BY <1>2, <1>3

(* A setup goes, or stays for the next bar.                                *)
LEMMA SetupFate ==
  ASSUME TypeOK, FateInv, pending # <<>>, pending' = Tail(pending),
         UNCHANGED <<pc, index, positions, stillOpen, trades, fills>>,
         \/ stillPending' = stillPending
         \/ \E touched \in BOOLEAN :
              stillPending' = Append(stillPending, [Head(pending) EXCEPT !.touched = touched])
  PROVE  FateInv'
<1> DEFINE h == Head(pending)
<1>1. pending \in Seq(PendingOrder) /\ stillPending \in Seq(PendingOrder)
      /\ h \in PendingOrder
  BY PlaceTypes, PendingTail
<1>2. /\ h.index \in Waiting(pending)
      /\ Waiting(pending') = Waiting(pending) \ {h.index}
      /\ WaitingOnce(pending')
  BY <1>1, WaitingTail DEF FateInv
<1>3. /\ UNCHANGED <<Taken(positions), Taken(stillOpen), Ended, Entered, Reached>>
      /\ TakenOnce(positions)' /\ TakenOnce(stillOpen)'
  BY DEF Taken, TakenOnce, Ended, Entered, Reached, FateInv
<1>4. CASE stillPending' = stillPending
  <2>1. Waiting(stillPending)' = Waiting(stillPending) /\ WaitingOnce(stillPending)'
    BY <1>4 DEF Waiting, WaitingOnce, FateInv
  <2> HIDE DEF h
  <2>2. QED
    BY <1>2, <1>3, <2>1 DEF FateInv
<1>5. ASSUME NEW touched \in BOOLEAN,
             stillPending' = Append(stillPending, [h EXCEPT !.touched = touched])
      PROVE  FateInv'
  <2> DEFINE k == [h EXCEPT !.touched = touched]
  <2>1. k \in PendingOrder /\ k.index = h.index
    BY <1>1 DEF PendingOrder
  <2>2. h.index \notin Waiting(stillPending)
    BY <1>2 DEF FateInv
  <2> HIDE DEF k
  <2>3. /\ Waiting(stillPending') = Waiting(stillPending) \cup {h.index}
        /\ WaitingOnce(stillPending')
    BY <1>1, <1>5, <2>1, <2>2, WaitingAppend DEF FateInv, k
  <2> HIDE DEF h
  <2>4. QED
    BY <1>2, <1>3, <2>3 DEF FateInv
<1>6. QED
  BY <1>4, <1>5

(* A fill takes the candle from the setups to the positions or at once to  *)
(* the trades.                                                             *)
LEMMA FillFate ==
  ASSUME TypeOK, FateInv, FillSetup
  PROVE  FateInv'
<1> DEFINE h == Head(pending)
           p == [signal |-> h.index,
                 entry |-> IF entryModel = "zone_reclaim" THEN clock + 1 ELSE clock]
           f == [signal |-> h.index, bar |-> index, trend |-> h.trend]
<1>1. /\ pending # <<>> /\ pending' = Tail(pending) /\ fills' = fills \cup {f}
      /\ \/ positions' = Append(positions, p) /\ trades' = trades
         \/ trades' = trades \cup {Closed(p)} /\ positions' = positions
      /\ UNCHANGED <<pc, index, stillOpen, stillPending>>
  BY DEF FillSetup, Live, AtSetup, bar
<1>2. pending \in Seq(PendingOrder) /\ positions \in Seq(Position) /\ h \in PendingOrder
  BY <1>1, PlaceTypes, PendingTail
<1>3. p \in Position /\ p.signal = h.index /\ Closed(p).signal = h.index
  BY <1>2 DEF PendingOrder, Position, TypeOK, Closed
<1>4. /\ h.index \in Waiting(pending)
      /\ Waiting(pending') = Waiting(pending) \ {h.index}
      /\ WaitingOnce(pending')
  BY <1>1, <1>2, WaitingTail DEF FateInv
<1>5. h.index \notin Entered /\ h.index <= Reached
  BY <1>4 DEF FateInv
<1>6. f.signal = h.index
  OBVIOUS
<1> HIDE DEF f
<1>7. Entered' = Entered \cup {h.index}
  BY <1>1, <1>6, OneMore
<1>8. /\ UNCHANGED <<Taken(stillOpen), Waiting(stillPending), Reached>>
      /\ TakenOnce(stillOpen)' /\ WaitingOnce(stillPending)'
  BY <1>1 DEF Taken, TakenOnce, Waiting, WaitingOnce, Reached, FateInv
<1> HIDE DEF p
<1>9. CASE positions' = Append(positions, p) /\ trades' = trades
  <2>1. h.index \notin Taken(positions) /\ Ended' = Ended
    BY <1>5, <1>9 DEF FateInv, Ended
  <2>2. Taken(positions') = Taken(positions) \cup {h.index} /\ TakenOnce(positions')
    BY <1>2, <1>3, <1>9, <2>1, TakenAppend DEF FateInv
  <2> HIDE DEF h
  <2>3. QED
    BY <1>4, <1>5, <1>7, <1>8, <1>9, <2>1, <2>2 DEF FateInv
<1>10. CASE trades' = trades \cup {Closed(p)} /\ positions' = positions
  <2>1. Ended' = Ended \cup {h.index}
    BY <1>3, <1>10, OneMore
  <2>2. h.index \notin Ended
    BY <1>5 DEF FateInv
  <2>3. \A t \in trades : t.signal # Closed(p).signal
    BY <1>3, <2>2 DEF Ended
  <2>4. \A t, u \in trades' : t.signal = u.signal => t = u
    BY <1>10, <2>3 DEF FateInv
  <2>5. Taken(positions)' = Taken(positions) /\ TakenOnce(positions)'
    BY <1>10 DEF Taken, TakenOnce, FateInv
  <2> HIDE DEF h
  <2>6. QED
    BY <1>4, <1>5, <1>7, <1>8, <2>1, <2>4, <2>5 DEF FateInv
<1>11. QED
  BY <1>1, <1>9, <1>10

(* The bar's own candle becomes a position or a setup for the first time.  *)
LEMMA CandleFate ==
  ASSUME TypeOK, FateInv, NEW side \in {-1, 1}, EnterAtClose(side) \/ QueueSetup(side)
  PROVE  FateInv'
<1>1. pc = "signal" /\ pc' = "bar" /\ index' = index /\ index \in Nat
  BY PlaceTypes DEF EnterAtClose, QueueSetup, Eligible, AtSignal, bar
<1>2. Reached = index - 1 /\ Reached' = index
  BY <1>1 DEF Reached
<1>3. /\ \A s \in Entered \cup Waiting(pending) \cup Waiting(stillPending) :
            s <= index /\ s # index
      /\ Taken(positions) \cup Taken(stillOpen) \cup Ended \subseteq Entered
  BY <1>1, <1>2, PlaceTypes DEF FateInv
<1>4. CASE EnterAtClose(side)
  <2> DEFINE p == [signal |-> index, entry |-> clock + 1]
             f == [signal |-> index, bar |-> index, trend |-> side]
  <2>1. /\ positions' = Append(positions, p) /\ fills' = fills \cup {f}
        /\ UNCHANGED <<stillOpen, trades, pending, stillPending>>
    BY <1>4 DEF EnterAtClose
  <2>2. p \in Position /\ p.signal = index /\ f.signal = index
    BY DEF TypeOK, Position
  <2> HIDE DEF p, f
  <2>3. Entered' = Entered \cup {index}
    BY <2>1, <2>2, OneMore
  <2>4. Taken(positions') = Taken(positions) \cup {index} /\ TakenOnce(positions')
    BY <1>3, <2>1, <2>2, PlaceTypes, TakenAppend DEF FateInv
  <2>5. /\ UNCHANGED <<Taken(stillOpen), Waiting(pending), Waiting(stillPending), Ended>>
        /\ TakenOnce(stillOpen)' /\ WaitingOnce(pending)' /\ WaitingOnce(stillPending)'
    BY <2>1 DEF Taken, TakenOnce, Waiting, WaitingOnce, Ended, FateInv
  <2>6. QED
    BY <1>1, <1>2, <1>3, <2>1, <2>3, <2>4, <2>5 DEF FateInv
<1>5. CASE QueueSetup(side)
  <2> DEFINE o == [index |-> index, time |-> clock, trend |-> side, touched |-> FALSE]
  <2>1. pending' = Append(pending, o) /\ UNCHANGED <<book, stillPending>>
    BY <1>5 DEF QueueSetup
  <2>2. o \in PendingOrder /\ o.index = index
    BY DEF TypeOK, PendingOrder
  <2> HIDE DEF o
  <2>3. Waiting(pending') = Waiting(pending) \cup {index} /\ WaitingOnce(pending')
    BY <1>3, <2>1, <2>2, PlaceTypes, WaitingAppend DEF FateInv
  <2>4. /\ UNCHANGED <<Taken(positions), Taken(stillOpen), Waiting(stillPending), Ended,
                       Entered, trades>>
        /\ TakenOnce(positions)' /\ TakenOnce(stillOpen)' /\ WaitingOnce(stillPending)'
    BY <2>1 DEF Taken, TakenOnce, Waiting, WaitingOnce, Ended, Entered, FateInv, book
  <2>5. QED
    BY <1>1, <1>2, <1>3, <2>3, <2>4 DEF FateInv
<1>6. QED
  BY <1>4, <1>5

(* Every step keeps each candle in one place.                              *)
LEMMA FateStep == TypeOK /\ FateInv /\ [Next]_vars => FateInv'
<1> SUFFICES ASSUME TypeOK, FateInv, [Next]_vars PROVE FateInv'
  OBVIOUS
<1>1. TypeOK' /\ index \in Nat
  BY TypeStep DEF TypeOK
<1>2. ASSUME NEW gap \in 0..MaxGap, NEW t \in Trends, NextBar(gap, t) PROVE FateInv'
  <2>1. Reached = index /\ Reached' = index
    BY <1>1, <1>2 DEF NextBar, Reached
  <2>2. QED
    BY <1>1, <1>2, <2>1, QuietFate DEF NextBar, book
<1>3. CASE CloseOldest \/ KeepOldest \/ ExitsDone \/ SetupsDone
  BY <1>3, ExitFate, DoneFate
<1>4. CASE InvalidateSetup \/ ExpireSetup \/ StopSetup \/ RejectSetup
  BY <1>4, SetupFate DEF InvalidateSetup, ExpireSetup, StopSetup, RejectSetup, Live,
                         AtSetup, Drop, bar, book
<1>5. CASE HoldSetup \/ WaitSetup
  <2>1. Head(pending).touched \in BOOLEAN
    BY <1>5, PendingTail DEF HoldSetup, WaitSetup, Live, AtSetup, PendingOrder
  <2>2. PICK touched \in BOOLEAN : Keep(touched)
    BY <1>5, <2>1 DEF HoldSetup, WaitSetup
  <2>3. QED
    BY <2>2, SetupFate DEF Keep, AtSetup, bar, book
<1>6. CASE FillSetup
  BY <1>6, FillFate
<1>7. CASE NoSignal \/ \E side \in {-1, 1} : RejectSignal(side) \/ SignalBlocked(side)
  <2>1. /\ UNCHANGED <<index, positions, stillOpen, pending, stillPending, trades, fills>>
        /\ pc = "signal" /\ pc' = "bar"
    BY <1>7 DEF NoSignal, RejectSignal, SignalBlocked, SignalDropped, Eligible, AtSignal,
                bar, book
  <2>2. Reached = index - 1 /\ Reached' = index
    BY <2>1 DEF Reached
  <2>3. QED
    BY <1>1, <2>1, <2>2, QuietFate
<1>8. ASSUME NEW side \in {-1, 1}, EnterAtClose(side) \/ QueueSetup(side) PROVE FateInv'
  BY <1>8, CandleFate
<1>9. CASE UNCHANGED vars
  <2>1. Reached' = Reached /\ Reached \in Int
    BY <1>1, <1>9 DEF vars, bar, Reached
  <2>2. QED
    BY <1>9, <2>1, QuietFate DEF vars, book
<1>10. QED
  BY <1>2, <1>3, <1>4, <1>5, <1>6, <1>7, <1>8, <1>9 DEF Next

(* No candle is entered twice, and every entry is open or closed.          *)
THEOREM OneFatePerFill == Spec => []EveryFillHasOneFate
<1>1. Init => FateInv
  BY EmptyLists DEF Init, FateInv, Ended, Entered, Reached
<1>2. Init => TypeOK
  BY InitInv DEF IInv
<1>3. FateInv => EveryFillHasOneFate
  <2> SUFFICES ASSUME FateInv PROVE EveryFillHasOneFate
    OBVIOUS
  <2>1. \A t \in trades, i \in 1..Len(positions) : t.signal # positions[i].signal
    BY DEF FateInv, Ended, Taken
  <2>2. QED
    BY <2>1 DEF FateInv, EveryFillHasOneFate, Ended, Entered, Taken
<1>4. QED
  BY <1>1, <1>2, <1>3, TypeStep, FateStep, PTL DEF Spec
=============================================================================
