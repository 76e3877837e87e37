------------------------- MODULE LiveRefresh_proofs -------------------------
(***************************************************************************)
(* What refresh leaves on disk is fit to be scanned, for any markets, any  *)
(* number of attempts and any failures: what is reported complete is       *)
(* complete, and so is what a scan meets with a current quote.             *)
(***************************************************************************)
EXTENDS LiveRefresh, TLAPS

(* The initial state satisfies the invariant.                              *)
LEMMA InitInv == Init => IInv
<1> SUFFICES ASSUME Init PROVE IInv
  OBVIOUS
<1>1. /\ csv \in [Markets -> [Sides -> 0..MaxTime]]
      /\ quote \in [Markets -> 0..MaxTime]
      /\ \A m \in Markets, s \in Sides : quote[m] = 0 /\ csv[m][s] = 0
  BY RefreshAssumption DEF Init, Missing
<1>2. /\ 1 \in 1..Len(Instruments) + 1 /\ 1 \in 1..MaxTime /\ 0 \in 0..MaxTime
      /\ 0 \in 0..Attempts /\ 0 \in 0..MaxKills
  BY RefreshAssumption
<1>3. TypeOK
  BY <1>1, <1>2 DEF Init, TypeOK
<1>4. OutputsInv /\ RowsInv /\ CsvInv /\ AgeInv
  BY <1>1 DEF Init, OutputsInv, RowsInv, CsvInv, AgeInv
<1>5. QED
  BY <1>3, <1>4 DEF IInv

----------------------------------------------------------------------------
(* Between refreshes and at the beginning of a retry nothing is claimed:   *)
(* whatever leaves the files alone and forgets rows and outputs keeps the  *)
(* invariant.                                                              *)
LEMMA FreshStart ==
  ASSUME IInv, UNCHANGED <<caller, clock, asOf, files, kills>>,
         status' \in SUBSET Markets, stop' \in BOOLEAN,
         (caller = "workflow" /\ BeginRefresh /\ attempt' \in 0..Attempts) \/ Leave
  PROVE  IInv'
<1>1. /\ pc' \in {"idle", "pool"} /\ waiting' \subseteq Markets \X Sides
      /\ rows' = {} /\ outputs' = {} /\ at' = 1 /\ attempt' \in 0..Attempts
  BY RefreshAssumption DEF BeginRefresh, Leave
<1>2. 1 \in 1..Len(Instruments) + 1
  BY RefreshAssumption
<1>3. TypeOK'
  BY <1>1, <1>2 DEF IInv, TypeOK, files
<1>4. OutputsInv' /\ RowsInv'
  BY <1>1 DEF OutputsInv, RowsInv
<1>5. CsvInv'
  BY DEF IInv, CsvInv, files
<1>6. AgeInv'
  BY DEF IInv, AgeInv, Leave, files
<1>7. QED
  BY <1>3, <1>4, <1>5, <1>6 DEF IInv

(* Giving up or trying again counts at most to the number of attempts.     *)
LEMMA RetryInv ==
  ASSUME IInv, GiveUpOrRetry, UNCHANGED <<caller, clock, asOf, files, kills>>,
         status' \in SUBSET Markets, stop' \in BOOLEAN
  PROVE  IInv'
<1>1. CASE caller = "workflow" /\ attempt < Attempts
  <2>1. BeginRefresh /\ attempt' = attempt + 1
    BY <1>1 DEF GiveUpOrRetry
  <2>2. attempt + 1 \in 0..Attempts
    BY <1>1, RefreshAssumption DEF IInv, TypeOK
  <2>3. QED
    BY <1>1, <2>1, <2>2, FreshStart
<1>2. CASE ~(caller = "workflow" /\ attempt < Attempts)
  BY <1>2, FreshStart DEF GiveUpOrRetry
<1>3. QED
  BY <1>1, <1>2

(* A run of the workflow begins with nothing. In the daemon's directory    *)
(* every quote has aged: it was written by a refresh that began at an      *)
(* earlier candle close and ended within its limit.                        *)
LEMMA WakeInv == IInv /\ Wake => IInv'
<1> SUFFICES ASSUME IInv, Wake PROVE IInv'
  OBVIOUS
<1>1. 1 \in 0..Attempts /\ 1 \in 1..Len(Instruments) + 1
  BY RefreshAssumption
<1>2. /\ asOf' = clock /\ clock \in 1..MaxTime /\ clock \in 0..MaxTime
      /\ pc' = "pool" /\ waiting' = Markets \X Sides /\ rows' = {}
      /\ outputs' = {} /\ at' = 1 /\ attempt' = 1
      /\ UNCHANGED <<caller, clock, stop, kills>>
  BY RefreshAssumption DEF Wake, BeginRefresh, IInv, TypeOK
<1>3. CASE caller = "workflow"
  <2>1. csv' = Missing /\ quote' = [m \in Markets |-> 0] /\ status' = {}
    BY <1>3 DEF Wake
  <2>2. /\ csv' \in [Markets -> [Sides -> 0..MaxTime]]
        /\ quote' \in [Markets -> 0..MaxTime]
        /\ \A m \in Markets, s \in Sides : quote'[m] = 0 /\ csv'[m][s] = 0
    BY <2>1, RefreshAssumption DEF Missing
  <2>3. TypeOK'
    BY <1>1, <1>2, <2>1, <2>2 DEF IInv, TypeOK
  <2>4. OutputsInv' /\ RowsInv'
    BY <1>2 DEF OutputsInv, RowsInv
  <2>5. CsvInv'
    BY <1>2, <2>2 DEF CsvInv
  <2>6. AgeInv'
    BY <1>2, <1>3 DEF AgeInv
  <2>7. QED
    BY <2>3, <2>4, <2>5, <2>6 DEF IInv
<1>4. CASE caller # "workflow"
  <2>1. UNCHANGED <<csv, quote, status>>
    BY <1>4 DEF Wake, files
  <2>2. TypeOK'
    BY <1>1, <1>2, <2>1 DEF IInv, TypeOK
  <2>3. OutputsInv' /\ RowsInv'
    BY <1>2 DEF OutputsInv, RowsInv
  <2>4. CsvInv'
    BY <1>2, <2>1 DEF IInv, CsvInv
  <2>5. AgeInv'
    <3>1. caller = "daemon" /\ clock \in CandleCloses /\ asOf < clock
      BY <1>4, RefreshAssumption DEF Wake, IInv, TypeOK
    <3>2. ASSUME NEW m \in Markets, quote[m] > 0
          PROVE  quote[m] + MaxQuoteAge < clock /\ quote[m] <= clock + RefreshLimit
      <4>1. /\ asOf \in CandleCloses /\ quote[m] <= asOf + RefreshLimit
            /\ asOf \in Nat /\ clock \in Nat /\ quote[m] \in Nat
        BY <3>1, <3>2 DEF IInv, AgeInv, TypeOK
      <4>2. asOf + RefreshLimit + MaxQuoteAge < clock
        BY <3>1, <4>1, TimingAssumption
      <4>3. QED
        BY <4>1, <4>2, RefreshAssumption
    <3>3. QED
      BY <1>2, <2>1, <3>1, <3>2, RefreshAssumption DEF AgeInv
  <2>6. QED
    BY <2>2, <2>3, <2>4, <2>5 DEF IInv
<1>5. QED
  BY <1>3, <1>4

(* A side is replaced by candles of any minute so far, while no market is  *)
(* complete yet.                                                           *)
LEMMA SideDoneInv ==
  ASSUME NEW m \in Markets, NEW s \in Sides, IInv, SideDone(m, s)
  PROVE  IInv'
<1>1. PICK t \in 1..clock : csv' = [csv EXCEPT ![m][s] = t]
  BY DEF SideDone
<1>2. /\ UNCHANGED <<caller, clock, asOf, pc, quote, status, outputs, at, attempt, stop, kills>>
      /\ pc = "pool" /\ waiting # {}
      /\ waiting' = waiting \ {<<m, s>>} /\ rows' = rows \cup {<<m, s>>}
  BY DEF SideDone
<1>3. t \in 1..MaxTime /\ t \in 0..MaxTime /\ t <= clock
  BY <1>1, RefreshAssumption DEF IInv, TypeOK
<1>4. csv \in [Markets -> [Sides -> 0..MaxTime]]
  BY DEF IInv, TypeOK
<1>5. csv' \in [Markets -> [Sides -> 0..MaxTime]]
  <2>1. [csv[m] EXCEPT ![s] = t] \in [Sides -> 0..MaxTime]
    BY <1>3, <1>4
  <2>2. csv' = [csv EXCEPT ![m] = [csv[m] EXCEPT ![s] = t]]
    BY <1>1
  <2>3. QED
    BY <1>4, <2>1, <2>2
<1>6. \A n \in Markets, r \in Sides :
         csv'[n][r] = IF n = m /\ r = s THEN t ELSE csv[n][r]
  BY <1>1, <1>4
<1>7. TypeOK'
  <2>1. rows' \subseteq Markets \X Sides
    BY <1>2 DEF IInv, TypeOK
  <2>2. waiting' \subseteq Markets \X Sides
    BY <1>2 DEF IInv, TypeOK
  <2>3. QED
    BY <1>2, <1>5, <2>1, <2>2 DEF IInv, TypeOK
<1>8. CsvInv'
  BY <1>2, <1>3, <1>6 DEF IInv, CsvInv
<1>9. OutputsInv'
  BY <1>2 DEF IInv, OutputsInv
<1>10. RowsInv'
  <2>1. SUFFICES ASSUME NEW n \in Markets, NEW r \in Sides, <<n, r>> \in rows'
                 PROVE  csv'[n][r] > 0
    BY DEF RowsInv
  <2>2. CASE n = m /\ r = s
    BY <1>3, <1>6, <2>2
  <2>3. CASE ~(n = m /\ r = s)
    <3>1. <<n, r>> \in rows
      BY <1>2, <2>1, <2>3
    <3>2. QED
      BY <1>6, <2>3, <3>1 DEF IInv, RowsInv
  <2>4. QED
    BY <2>2, <2>3
<1>11. AgeInv'
  BY <1>2 DEF IInv, AgeInv
<1>12. QED
  BY <1>7, <1>8, <1>9, <1>10, <1>11 DEF IInv

(* A complete market gets the minute its sides share, which is no later    *)
(* than the refresh.                                                       *)
LEMMA PublishInv == IInv /\ PublishMarket => IInv'
<1> SUFFICES ASSUME IInv, PublishMarket PROVE IInv'
  OBVIOUS
<1> DEFINE m == Instruments[at]
<1>1. /\ pc = "pool" /\ waiting = {} /\ at <= Len(Instruments)
      /\ at \in 1..Len(Instruments)
  BY RefreshAssumption DEF PublishMarket, AtMarket, IInv, TypeOK
<1>2. m \in Markets
  BY <1>1 DEF Markets
<1>3. /\ Complete(m)
      /\ quote' = [quote EXCEPT ![m] = csv[m]["BID"]]
      /\ outputs' = outputs \cup {m} /\ at' = at + 1
      /\ UNCHANGED <<caller, clock, asOf, pc, csv, status, waiting, rows, attempt, stop, kills>>
  BY DEF PublishMarket
<1> HIDE DEF m
<1>4. \A s \in Sides : /\ csv[m][s] = csv[m]["BID"] /\ csv[m][s] > 0
                       /\ csv[m][s] \in 0..MaxTime /\ csv[m][s] <= clock
  BY <1>2, <1>3 DEF Complete, Sides, IInv, RowsInv, CsvInv, TypeOK
<1>5. \A n \in Markets : quote'[n] = IF n = m THEN csv[m]["BID"] ELSE quote[n]
  BY <1>2, <1>3 DEF IInv, TypeOK
<1>6. TypeOK'
  <2>1. quote' \in [Markets -> 0..MaxTime]
    BY <1>2, <1>3, <1>4 DEF IInv, TypeOK, Sides
  <2>2. at' \in 1..Len(Instruments) + 1
    BY <1>1, <1>3, RefreshAssumption
  <2>3. outputs' \subseteq Markets
    BY <1>2, <1>3 DEF IInv, TypeOK
  <2>4. QED
    BY <1>3, <2>1, <2>2, <2>3 DEF IInv, TypeOK
<1>7. CsvInv' /\ RowsInv'
  BY <1>3 DEF IInv, CsvInv, RowsInv
<1>8. OutputsInv'
  BY <1>1, <1>2, <1>3, <1>4, <1>5 DEF IInv, OutputsInv, Sides, TypeOK
<1>9. AgeInv'
  <2>1. SUFFICES ASSUME caller = "daemon", NEW n \in Markets, quote'[n] > 0
                 PROVE  /\ asOf > 0 /\ quote'[n] <= asOf + RefreshLimit
                        /\ n \notin outputs' => quote'[n] + MaxQuoteAge < asOf
    BY <1>1, <1>3 DEF IInv, AgeInv
  <2>2. CASE n = m
    <3>1. asOf > 0 /\ clock <= asOf + RefreshLimit /\ csv[m]["BID"] <= clock
      BY <1>1, <1>4, <2>1 DEF IInv, AgeInv, Sides
    <3>2. csv[m]["BID"] \in Nat /\ clock \in Nat /\ asOf \in Nat
      BY <1>4, RefreshAssumption DEF IInv, TypeOK, Sides
    <3>3. QED
      BY <1>3, <1>5, <2>2, <3>1, <3>2, RefreshAssumption
  <2>3. CASE n # m
    BY <1>1, <1>3, <1>5, <2>1, <2>3 DEF IInv, AgeInv
  <2>4. QED
    BY <2>2, <2>3
<1>10. QED
  BY <1>6, <1>7, <1>8, <1>9 DEF IInv

(* Time passes, but not past the limit of a refresh.                       *)
LEMMA TickInv == IInv /\ Tick => IInv'
<1> SUFFICES ASSUME IInv, Tick PROVE IInv'
  OBVIOUS
<1>1. TypeOK'
  BY RefreshAssumption DEF Tick, IInv, TypeOK, files, locals
<1>2. OutputsInv' /\ RowsInv'
  BY DEF Tick, IInv, OutputsInv, RowsInv, files, locals
<1>3. CsvInv'
  <2>1. SUFFICES ASSUME NEW m \in Markets, NEW s \in Sides
                 PROVE  csv[m][s] <= clock + 1
    BY DEF Tick, CsvInv, files
  <2>2. csv[m][s] <= clock /\ csv[m][s] \in Nat /\ clock \in Nat
    BY DEF IInv, CsvInv, TypeOK
  <2>3. QED
    BY <2>2
<1>4. AgeInv'
  <2>1. asOf \in Nat /\ clock \in Nat
    BY RefreshAssumption DEF IInv, TypeOK
  <2>2. QED
    BY <2>1, RefreshAssumption DEF Tick, IInv, AgeInv, files, locals
<1>5. QED
  BY <1>1, <1>2, <1>3, <1>4 DEF IInv

(* The scan begins with what the refresh has completed. A run of the       *)
(* workflow reads the clock again.                                         *)
LEMMA FinishInv == IInv /\ FinishRefresh => IInv'
<1> SUFFICES ASSUME IInv, FinishRefresh PROVE IInv'
  OBVIOUS
<1>1. TypeOK'
  BY RefreshAssumption DEF FinishRefresh, IInv, TypeOK, files, locals
<1>2. OutputsInv' /\ RowsInv' /\ CsvInv'
  BY DEF FinishRefresh, AtEnd, IInv, OutputsInv, RowsInv, CsvInv, files, locals
<1>3. AgeInv'
  BY DEF FinishRefresh, AtEnd, IInv, AgeInv, files, locals
<1>4. QED
  BY <1>1, <1>2, <1>3 DEF IInv

(* The steps that touch neither files, rows, outputs nor clocks.           *)
LEMMA QuietInv ==
  ASSUME IInv,
         \/ SkipMarket \/ ScanMarket \/ Stop \/ RequestStop
         \/ \E m \in Markets, s \in Sides : SideFails(m, s)
         \/ UNCHANGED vars
  PROVE  IInv'
<1>1. TypeOK'
  <2>1. CASE SkipMarket \/ ScanMarket
    <3>1. at' \in 1..Len(Instruments) + 1
      BY <2>1, RefreshAssumption DEF SkipMarket, ScanMarket, AtMarket, AtScan, IInv, TypeOK
    <3>2. QED
      BY <2>1, <3>1 DEF SkipMarket, ScanMarket, IInv, TypeOK, files, locals
  <2>2. CASE \/ Stop \/ RequestStop \/ UNCHANGED vars
             \/ \E m \in Markets, s \in Sides : SideFails(m, s)
    BY <2>2 DEF Stop, RequestStop, SideFails, IInv, TypeOK, files, locals, vars
  <2>3. QED
    BY <2>1, <2>2
<1>2. UNCHANGED <<caller, clock, asOf, csv, quote, status, rows, outputs>>
  BY DEF SkipMarket, ScanMarket, Stop, RequestStop, SideFails, files, locals, vars
<1>3. CsvInv' /\ RowsInv'
  BY <1>2 DEF IInv, CsvInv, RowsInv
<1>4. waiting' \subseteq waiting /\ (pc' = pc \/ (pc' = "stopped" /\ pc = "idle"))
  BY DEF SkipMarket, ScanMarket, Stop, RequestStop, SideFails, files, locals, vars
<1>5. OutputsInv'
  BY <1>2, <1>4 DEF IInv, OutputsInv
<1>6. AgeInv'
  BY <1>2, <1>4 DEF IInv, AgeInv
<1>7. QED
  BY <1>1, <1>3, <1>5, <1>6 DEF IInv

(* Every step keeps the invariant.                                         *)
LEMMA StepInv == IInv /\ [Next]_vars => IInv'
<1> SUFFICES ASSUME IInv, [Next]_vars PROVE IInv'
  OBVIOUS
<1>1. CASE \/ SkipMarket \/ ScanMarket \/ Stop \/ RequestStop
           \/ \E m \in Markets, s \in Sides : SideFails(m, s)
           \/ UNCHANGED vars
  BY <1>1, QuietInv
<1>2. ASSUME NEW m \in Markets, NEW s \in Sides, SideAborts(m, s) PROVE IInv'
  BY <1>2, RetryInv DEF SideAborts, IInv, TypeOK
<1>3. CASE RefreshFails
  <2>1. status' \in SUBSET Markets
    BY <1>3 DEF RefreshFails, IInv, TypeOK
  <2>2. QED
    BY <1>3, <2>1, RetryInv DEF RefreshFails, IInv, TypeOK
<1>4. CASE ScanFails \/ EndScan
  BY <1>4, FreshStart DEF ScanFails, EndScan, IInv, TypeOK
<1>5. CASE Kill
  <2>1. kills' \in 0..MaxKills
    BY <1>5, RefreshAssumption DEF Kill, IInv, TypeOK
  <2>2. /\ rows' = {} /\ outputs' = {} /\ waiting' = {} /\ pc' = "idle" /\ at' = 1
        /\ attempt' = 0 /\ stop' = FALSE
        /\ UNCHANGED <<caller, clock, asOf, csv, quote, status>>
    BY <1>5 DEF Kill, Leave, files
  <2>3. 0 \in 0..Attempts /\ 1 \in 1..Len(Instruments) + 1
    BY RefreshAssumption
  <2>4. TypeOK'
    BY <2>1, <2>2, <2>3 DEF IInv, TypeOK
  <2>5. OutputsInv' /\ RowsInv' /\ CsvInv' /\ AgeInv'
    BY <2>2 DEF IInv, OutputsInv, RowsInv, CsvInv, AgeInv
  <2>6. QED
    BY <2>4, <2>5 DEF IInv
<1>6. QED
  BY <1>1, <1>2, <1>3, <1>4, <1>5, WakeInv, SideDoneInv, PublishInv, TickInv,
     FinishInv DEF Next, Step

(* Every reachable state is well typed.                                    *)
THEOREM TypeCorrect == Spec => []TypeOK
<1>1. IInv => TypeOK
  BY DEF IInv
<1>2. QED
  BY <1>1, InitInv, StepInv, PTL DEF Spec

(* For any markets, failures and deaths, and any answers of the feed: as   *)
(* long as refreshes end before the quotes of the cycle before are current *)
(* again, a scan that meets a current quote meets both sides of it.        *)
THEOREM CurrentMarketsAreWhole == Spec => []CurrentQuoteIsWhole
<1>1. IInv => CurrentQuoteIsWhole
  <2>1. SUFFICES ASSUME IInv, NEW m \in Markets, pc = "scan", Selected(m), HasFiles(m),
                        Current(m)
                 PROVE  m \in outputs
    BY DEF IInv, OutputsInv, CurrentQuoteIsWhole
  <2>2. CASE caller = "daemon"
    <3>1. quote[m] > 0 /\ asOf <= quote[m] + MaxQuoteAge
      BY <2>1 DEF HasFiles, Current
    <3>2. m \notin outputs => quote[m] + MaxQuoteAge < asOf
      BY <2>1, <2>2, <3>1 DEF IInv, AgeInv
    <3>3. quote[m] \in Nat /\ asOf \in Nat
      BY <2>1 DEF IInv, TypeOK
    <3>4. QED
      BY <3>1, <3>2, <3>3, RefreshAssumption
  <2>3. CASE caller # "daemon"
    BY <2>1, <2>3, RefreshAssumption DEF IInv, OutputsInv, Selected, TypeOK
  <2>4. QED
    BY <2>2, <2>3
<1>2. QED
  BY <1>1, InitInv, StepInv, PTL DEF Spec

(* What is reported complete, or scanned by the workflow, is complete.     *)
THEOREM ReportsAreTrue == Spec => []ReportedIsComplete
<1>1. IInv => ReportedIsComplete
  <2>1. SUFFICES ASSUME IInv PROVE ReportedIsComplete
    OBVIOUS
  <2>2. pc = "scan" /\ caller = "workflow" => \A m \in Markets : Selected(m) => m \in outputs
    BY <2>1 DEF IInv, OutputsInv, Selected
  <2>3. QED
    BY <2>1, <2>2 DEF IInv, OutputsInv, ReportedIsComplete
<1>2. QED
  BY <1>1, InitInv, StepInv, PTL DEF Spec
=============================================================================
