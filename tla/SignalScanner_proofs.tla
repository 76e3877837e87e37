----------------------- MODULE SignalScanner_proofs -----------------------
(***************************************************************************)
(* The types of SignalScanner, its inductive invariant and the safety      *)
(* properties that follow from it, for any markets, signals and bounds.    *)
(***************************************************************************)
EXTENDS SignalScanner, SequenceTheorems, TLAPS

(***************************************************************************)
(* The operators on the scanner state return scanner states.               *)
(***************************************************************************)

(* An empty state file has the type of a state file.                       *)
LEMMA EmptyStateType == EmptyState \in ScannerState
  BY SetsAssumption DEF EmptyState, ScannerState, Records, Absent

(* Dropping old records leaves a scanner state with the same positions.    *)
LEMMA PrunedType ==
  ASSUME NEW state \in ScannerState, NEW t \in Nat
  PROVE  /\ Pruned(state, t) \in ScannerState
         /\ Pruned(state, t).positions = state.positions
  BY DEF Pruned, ScannerState, Records, Absent, NoTime

(* Writing one record of the handled map keeps everything else.            *)
LEMMA MarkedType ==
  ASSUME NEW state \in ScannerState, NEW s \in Signals,
         NEW status \in Statuses \cup {"ABSENT"}, NEW t \in Nat
  PROVE  /\ Marked(state, s, Record(status, t)) \in ScannerState
         /\ Marked(state, s, Record(status, t)).positions = state.positions
  BY DEF Marked, Record, ScannerState, Records

(* Appending to the audit list keeps the handled map and the positions.    *)
LEMMA AuditedType ==
  ASSUME NEW state \in ScannerState, NEW s \in Signals
  PROVE  /\ Audited(state, s) \in ScannerState
         /\ Audited(state, s).handled = state.handled
         /\ Audited(state, s).positions = state.positions
<1> DEFINE log == Append(state.rejections, s)
           first == IF Len(log) > RejectionLimit
                    THEN Len(log) - RejectionLimit + 1 ELSE 1
<1>1. log \in Seq(Signals) /\ Len(log) \in Nat
  BY AppendProperties, LenProperties DEF ScannerState
<1>2. Len(log) >= 1
  BY AppendProperties, LenProperties DEF ScannerState
<1>3. first \in 1..(Len(log) + 1)
  BY <1>1, <1>2, BoundsAssumption
<1>4. SubSeq(log, first, Len(log)) \in Seq(Signals)
  BY <1>1, <1>3, SubSeqProperties
<1>5. QED
  BY <1>4 DEF Audited, ScannerState

(* Publishing changes one status and takes one market.                     *)
LEMMA OpenedType ==
  ASSUME NEW state \in ScannerState, NEW s \in Signals, NEW status \in Statuses
  PROVE  Opened(state, s, status) \in ScannerState
<1>1. [state.handled EXCEPT ![s].status = status] \in [Signals -> Records]
  BY DEF ScannerState, Records
<1>2. [state.positions EXCEPT ![InstrumentOf[s]] = s]
        \in [Instruments -> Signals \cup {NoSignal}]
  BY SetsAssumption DEF ScannerState
<1> DEFINE m == [state EXCEPT !.handled[s].status = status]
<1>3. /\ m = [handled |-> [state.handled EXCEPT ![s].status = status],
              positions |-> state.positions,
              rejections |-> state.rejections]
      /\ Opened(state, s, status) = [m EXCEPT !.positions[InstrumentOf[s]] = s]
  BY DEF Opened, ScannerState
<1>4. Opened(state, s, status) =
        [handled |-> [state.handled EXCEPT ![s].status = status],
         positions |-> [state.positions EXCEPT ![InstrumentOf[s]] = s],
         rejections |-> state.rejections]
  BY <1>3
<1>5. state.rejections \in Seq(Signals)
  BY DEF ScannerState
<1>6. QED
  BY <1>1, <1>2, <1>4, <1>5 DEF ScannerState

(* A failed delivery changes one status.                                   *)
LEMMA FailedType ==
  ASSUME NEW state \in ScannerState, NEW s \in Signals
  PROVE  [state EXCEPT !.handled[s].status = "DELIVERY_FAILED"] \in ScannerState
<1>1. [state.handled EXCEPT ![s].status = "DELIVERY_FAILED"] \in [Signals -> Records]
  BY DEF ScannerState, Records, Statuses
<1>2. [state EXCEPT !.handled[s].status = "DELIVERY_FAILED"] =
        [handled |-> [state.handled EXCEPT ![s].status = "DELIVERY_FAILED"],
         positions |-> state.positions,
         rejections |-> state.rejections]
  BY DEF ScannerState
<1>3. QED
  BY <1>1, <1>2 DEF ScannerState

(* Settling a market keeps the type, and can only free that market.        *)
LEMMA SettledType ==
  ASSUME NEW state \in ScannerState, NEW i \in Instruments, NEW again \in BOOLEAN
  PROVE  /\ Settled(state, i, again) \in ScannerState
         /\ \A j \in Instruments :
              Settled(state, i, again).positions[j] \in {state.positions[j], NoSignal}
<1>1. \A s \in Signals : Closed(state, s) \in Records
  BY DEF Closed, ScannerState, Records, Statuses, NoTime
<1>2. QED
  BY <1>1 DEF Settled, ScannerState

(***************************************************************************)
(* Type correctness.                                                       *)
(***************************************************************************)

(* The initial state is well typed.                                        *)
LEMMA InitType == Init => TypeOK
<1> SUFFICES ASSUME Init PROVE TypeOK
  OBVIOUS
<1>1. disk \in ScannerState /\ mem \in ScannerState
  BY EmptyStateType DEF Init
<1>2. now \in 0..MaxTime /\ asOf \in 0..MaxTime /\ faults \in 0..MaxFaults
  BY BoundsAssumption DEF Init
<1>3. /\ resolvedAt \in [Signals -> 0..Never]
      /\ feedAt \in [Instruments -> 0..MaxTime]
  BY BoundsAssumption DEF Init, Never
<1>4. QED
  BY <1>1, <1>2, <1>3 DEF Init, TypeOK

(* Every step keeps the types.                                             *)
LEMMA TypeStep == TypeOK /\ [Next]_vars => TypeOK'
<1> SUFFICES ASSUME TypeOK, [Next]_vars PROVE TypeOK'
  OBVIOUS
<1> USE BoundsAssumption
<1>1. CASE Tick
  BY <1>1 DEF Tick, TypeOK, Never
<1>2. CASE Wake
  BY <1>2, SetsAssumption DEF Wake, TypeOK, world
<1>3. ASSUME NEW R \in SUBSET Instruments, BeginScan(R) PROVE TypeOK'
  <2>1. /\ asOf' \in 0..MaxTime
        /\ asOf' \in Nat
        /\ feedAt' \in [Instruments -> 0..MaxTime]
    <3>1. feedAt' = [i \in Instruments |-> IF i \in R THEN now ELSE feedAt[i]]
      BY <1>3 DEF BeginScan
    <3>2. asOf' \in {asOf, now}
      BY <1>3 DEF BeginScan
    <3>3. QED
      BY <3>1, <3>2 DEF TypeOK
  <2>2. mem' \in ScannerState
    BY <1>3, <2>1, PrunedType DEF BeginScan, TypeOK
  <2>3. faults' \in 0..MaxFaults
    BY <1>3 DEF BeginScan, TypeOK, Fault
  <2>4. todo' \subseteq Instruments
    BY <1>3 DEF BeginScan
  <2>5. QED
    BY <1>3, <2>1, <2>2, <2>3, <2>4 DEF BeginScan, TypeOK, world
<1>4. ASSUME NEW i \in Instruments, LoadFails(i) PROVE TypeOK'
  BY <1>4 DEF LoadFails, TypeOK, Stop, world
<1>5. ASSUME NEW i \in Instruments, LoadInstrument(i) PROVE TypeOK'
  <2>1. mem' \in ScannerState
    BY <1>5, SettledType DEF LoadInstrument, TypeOK
  <2>2. queue' \subseteq Signals
    BY <1>5 DEF LoadInstrument, Found
  <2>3. QED
    BY <1>5, <2>1, <2>2 DEF LoadInstrument, TypeOK, world
<1>6. ASSUME NEW s \in Signals, SkipKnown(s) PROVE TypeOK'
  BY <1>6 DEF SkipKnown, TypeOK, world, scan
<1>7. ASSUME NEW s \in Signals, Reject(s) PROVE TypeOK'
  <2>1. mem' \in ScannerState /\ disk' \in ScannerState
    BY <1>7, AuditedType, MarkedType DEF Reject, Save, TypeOK, Statuses
  <2>2. QED
    BY <1>7, <2>1 DEF Reject, TypeOK, Statuses, world, scan
<1>8. ASSUME NEW s \in Signals, Filter(s) PROVE TypeOK'
  <2>1. mem' \in ScannerState /\ disk' \in ScannerState
    BY <1>8, AuditedType, MarkedType DEF Filter, Save, TypeOK, Statuses
  <2>2. QED
    BY <1>8, <2>1 DEF Filter, TypeOK, Statuses, world, scan
<1>9. ASSUME NEW s \in Signals, Claim(s) PROVE TypeOK'
  <2>1. mem' \in ScannerState /\ disk' \in ScannerState
    BY <1>9, MarkedType DEF Claim, Save, TypeOK, Statuses
  <2>2. QED
    BY <1>9, <2>1 DEF Claim, TypeOK, Statuses, world, scan
<1>10. ASSUME NEW s \in Signals, DiscordAccepts(s) PROVE TypeOK'
  BY <1>10 DEF DiscordAccepts, TypeOK, world, scan
<1>11. ASSUME NEW s \in Signals, RecordSent(s) PROVE TypeOK'
  <2>1. mem' \in ScannerState /\ disk' \in ScannerState
    BY <1>11, OpenedType DEF RecordSent, Save, TypeOK, Statuses
  <2>2. QED
    BY <1>11, <2>1 DEF RecordSent, TypeOK, Statuses, world, scan
<1>12. ASSUME NEW s \in Signals, DeliveryFails(s) PROVE TypeOK'
  <2>1. disk' \in ScannerState
    BY <1>12, FailedType DEF DeliveryFails, TypeOK
  <2>2. QED
    BY <1>12, <2>1 DEF DeliveryFails, Stop, Fault, TypeOK, Statuses, world
<1>13. CASE NextInstrument
  BY <1>13 DEF NextInstrument, TypeOK, world, scan
<1>14. CASE EndScan
  BY <1>14 DEF EndScan, Stop, TypeOK, world
<1>15. CASE Crash
  BY <1>15 DEF Crash, Stop, Fault, TypeOK, world
<1>16. CASE UNCHANGED vars
  BY <1>16 DEF vars, TypeOK
<1>17. QED
  BY <1>1, <1>2, <1>3, <1>4, <1>5, <1>6, <1>7, <1>8, <1>9, <1>10, <1>11,
     <1>12, <1>13, <1>14, <1>15, <1>16 DEF Next, ScanStep, Handle

(* Every reachable state is well typed, whatever the constants.            *)
THEOREM TypeCorrect == Spec => []TypeOK
  BY InitType, TypeStep, PTL DEF Spec

(***************************************************************************)
(* What each operator on the scanner state does to one record.             *)
(***************************************************************************)

(* Pruning drops exactly the records older than the retention.             *)
LEMMA PrunedRecord ==
  ASSUME NEW state \in ScannerState, NEW t \in Nat, NEW s \in Signals
  PROVE  Pruned(state, t).handled[s] =
           IF state.handled[s].at # NoTime /\ state.handled[s].at >= t - Retention
           THEN state.handled[s] ELSE Absent
  BY DEF Pruned, ScannerState

(* Marking replaces one record.                                            *)
LEMMA MarkedRecord ==
  ASSUME NEW state \in ScannerState, NEW s \in Signals, NEW u \in Signals, NEW record
  PROVE  /\ Marked(state, s, record).positions = state.positions
         /\ Marked(state, s, record).handled[u] =
              IF u = s THEN record ELSE state.handled[u]
  BY DEF Marked, ScannerState

(* Publishing changes the status of one record and one position.           *)
LEMMA OpenedRecord ==
  ASSUME NEW state \in ScannerState, NEW s \in Signals, NEW u \in Signals,
         NEW status \in Statuses
  PROVE  /\ Opened(state, s, status).handled[u].status =
              IF u = s THEN status ELSE state.handled[u].status
         /\ Opened(state, s, status).handled[u].at = state.handled[u].at
         /\ Opened(state, s, status).handled[u].closed = state.handled[u].closed
         /\ \A i \in Instruments :
              Opened(state, s, status).positions[i] =
                IF i = InstrumentOf[s] THEN s ELSE state.positions[i]
<1> DEFINE m == [state EXCEPT !.handled[s].status = status]
<1>1. /\ m.handled = [state.handled EXCEPT ![s].status = status]
      /\ m.positions = state.positions
      /\ m \in ScannerState
  BY DEF ScannerState, Records
<1>2. Opened(state, s, status) = [m EXCEPT !.positions[InstrumentOf[s]] = s]
  BY DEF Opened
<1>3. /\ Opened(state, s, status).handled = [state.handled EXCEPT ![s].status = status]
      /\ Opened(state, s, status).positions =
           [state.positions EXCEPT ![InstrumentOf[s]] = s]
  BY <1>1, <1>2 DEF ScannerState
<1>4. QED
  BY <1>3 DEF ScannerState, Records

(* A failed delivery changes the status of one record.                     *)
LEMMA FailedRecord ==
  ASSUME NEW state \in ScannerState, NEW s \in Signals, NEW u \in Signals
  PROVE  LET failed == [state EXCEPT !.handled[s].status = "DELIVERY_FAILED"]
         IN  /\ failed.positions = state.positions
             /\ failed.handled[u].status =
                  IF u = s THEN "DELIVERY_FAILED" ELSE state.handled[u].status
             /\ failed.handled[u].at = state.handled[u].at
             /\ failed.handled[u].closed = state.handled[u].closed
  BY DEF ScannerState, Records

(* Settling closes the ended trades and frees the market of the one that   *)
(* held it.                                                                *)
LEMMA SettledRecord ==
  ASSUME NEW state \in ScannerState, NEW i \in Instruments, NEW again \in BOOLEAN
  PROVE  /\ \A s \in Signals :
              Settled(state, i, again).handled[s] =
                IF s \in EndedTrades(state, i, again) THEN Closed(state, s)
                ELSE state.handled[s]
         /\ \A j \in Instruments :
              Settled(state, i, again).positions[j] =
                IF j = i /\ state.positions[i] \in EndedTrades(state, i, again)
                THEN NoSignal ELSE state.positions[j]
  BY DEF Settled, ScannerState

Verdicts == Statuses \cup {"NONE"}

(***************************************************************************)
(* How each operator on the scanner state preserves SoundFor.              *)
(***************************************************************************)

(* Time only makes signals lapse.                                          *)
LEMMA SoundLater ==
  ASSUME NEW state, NEW s \in Signals, NEW v, NEW n,
         NEW t \in Nat, NEW u \in Nat, t <= u, SoundFor(state, s, v, n, t)
  PROVE  SoundFor(state, s, v, n, u)
<1>1. LapsedAt(s, t) => LapsedAt(s, u)
  BY SetsAssumption, WindowsAssumption DEF LapsedAt
<1>2. QED
  BY <1>1 DEF SoundFor

(* What pruning drops has lapsed: this is where the retention has to cover *)
(* the lookback, and where a record must not be stamped before its fill.   *)
LEMMA SoundPruned ==
  ASSUME NEW state \in ScannerState, NEW s \in Signals, NEW v, NEW n,
         NEW t \in Nat, SoundFor(state, s, v, n, t)
  PROVE  SoundFor(Pruned(state, t), s, v, n, t)
<1> DEFINE old == state.handled[s]
           new == Pruned(state, t).handled[s]
<1>1. old.at \in {NoTime} \cup Nat /\ FillTime[s] \in Nat
  BY SetsAssumption DEF ScannerState, Records
<1>2. CASE old.at # NoTime /\ old.at >= t - Retention
  <2>1. new = old
    BY <1>2, PrunedRecord
  <2>2. Pruned(state, t).positions = state.positions
    BY PrunedType
  <2>3. QED
    BY <2>1, <2>2 DEF SoundFor, Known
<1>3. CASE ~(old.at # NoTime /\ old.at >= t - Retention)
  <2>1. Known(state, s) => LapsedAt(s, t)
    <3>1. Known(state, s) => (old.at >= FillTime[s] \/ LapsedAt(s, t))
      BY DEF SoundFor
    <3>2. ASSUME old.at >= FillTime[s] PROVE LapsedAt(s, t)
      <4>1. old.at \in Nat /\ old.at < t - Retention
        BY <1>1, <1>3, <3>2, WindowsAssumption DEF NoTime
      <4>2. QED
        BY <1>1, <3>2, <4>1, WindowsAssumption DEF LapsedAt
    <3>3. QED
      BY <3>1, <3>2
  <2>2. new = Absent /\ Pruned(state, t).positions = state.positions
    BY <1>3, PrunedRecord, PrunedType
  <2>3. state.handled[s].status \in ClaimStatuses => Known(state, s)
    BY DEF Known, ClaimStatuses
  <2>4. QED
    BY <2>1, <2>2, <2>3 DEF SoundFor, Known, Absent
<1>4. QED
  BY <1>2, <1>3

(* Settling a market forgets nothing and takes no market.                  *)
LEMMA SoundSettled ==
  ASSUME NEW state \in ScannerState, NEW s \in Signals, NEW v, NEW n, NEW t \in Nat,
         NEW i \in Instruments, NEW again \in BOOLEAN,
         HoldsOwn(state), SoundFor(state, s, v, n, t)
  PROVE  SoundFor(Settled(state, i, again), s, v, n, t)
<1> DEFINE new == Settled(state, i, again)
<1>1. new.positions[InstrumentOf[s]] = s => state.positions[InstrumentOf[s]] = s
  BY SettledRecord, SetsAssumption
<1>2. CASE s \notin EndedTrades(state, i, again)
  BY <1>1, <1>2, SettledRecord DEF SoundFor, Known
<1>3. CASE s \in EndedTrades(state, i, again)
  <2>1. new.handled[s] = Closed(state, s)
    BY <1>3, SettledRecord
  <2>2. CASE Known(state, s)
    <3>1. /\ new.handled[s].status = state.handled[s].status
          /\ new.handled[s].at = state.handled[s].at
      BY <2>1, <2>2 DEF Closed, ScannerState, Records
    <3>2. QED
      BY <1>1, <3>1 DEF SoundFor, Known
  <2>3. CASE ~Known(state, s)
    <3>1. s = state.positions[i]
      BY <1>3, <2>3 DEF EndedTrades, Known
    <3>2. InstrumentOf[s] = i
      BY <3>1, SetsAssumption DEF HoldsOwn
    <3>3. LapsedAt(s, t)
      BY <2>3, <3>1, <3>2 DEF SoundFor
    <3>4. QED
      BY <1>1, <3>3 DEF SoundFor
  <2>4. QED
    BY <2>2, <2>3
<1>4. QED
  BY <1>2, <1>3

(* A decision written for one signal, stamped with the scan's clock, is    *)
(* sound for that signal and leaves the others alone.                      *)
LEMMA SoundMarked ==
  ASSUME NEW state \in ScannerState, NEW s \in Signals, NEW d \in Statuses,
         NEW t \in Nat, NEW u \in Signals, NEW v, NEW n,
         FillTime[s] <= t,
         u # s => SoundFor(state, u, v, n, t),
         u = s => v = d /\ n = 0
  PROVE  SoundFor(Marked(state, s, Record(d, t)), u, v, n, t)
<1> DEFINE new == Marked(state, s, Record(d, t))
<1>1. new.positions = state.positions
  BY MarkedRecord
<1>2. CASE u # s
  BY <1>1, <1>2, MarkedRecord DEF SoundFor, Known
<1>3. CASE u = s
  <2>1. new.handled[u] = Record(d, t)
    BY <1>3, MarkedRecord
  <2>2. d # "ABSENT" /\ d # "NONE"
    BY DEF Statuses
  <2>3. QED
    BY <1>3, <2>1, <2>2 DEF SoundFor, Known, Record
<1>4. QED
  BY <1>2, <1>3

(* The audit list plays no part in soundness.                              *)
LEMMA SoundAudited ==
  ASSUME NEW state \in ScannerState, NEW r \in Signals, NEW s \in Signals,
         NEW v, NEW n, NEW t, SoundFor(state, s, v, n, t)
  PROVE  SoundFor(Audited(state, r), s, v, n, t)
  BY AuditedType DEF SoundFor, Known

(* Recording a publication is sound for the published signal, and another  *)
(* signal gains no market by it.                                           *)
LEMMA SoundOpened ==
  ASSUME NEW state \in ScannerState, NEW s \in Signals,
         NEW d \in {"SENT", "DRY_RUN"}, NEW t, NEW u \in Signals, NEW v, NEW w, NEW n,
         SoundFor(state, u, v, n, t),
         u # s => w = v,
         u = s => w = d /\ Known(state, s) /\ (d = "DRY_RUN" => ~(n > 0))
  PROVE  SoundFor(Opened(state, s, d), u, w, n, t)
<1> DEFINE new == Opened(state, s, d)
<1>1. d \in Statuses
  BY DEF Statuses
<1>2. /\ new.handled[u].status = IF u = s THEN d ELSE state.handled[u].status
      /\ new.handled[u].at = state.handled[u].at
      /\ new.positions[InstrumentOf[u]] =
           IF InstrumentOf[u] = InstrumentOf[s] THEN s
           ELSE state.positions[InstrumentOf[u]]
  BY <1>1, OpenedRecord, SetsAssumption
<1>3. CASE u # s
  BY <1>2, <1>3 DEF SoundFor, Known
<1>4. CASE u = s
  BY <1>2, <1>4 DEF SoundFor, Known, ClaimStatuses
<1>5. QED
  BY <1>3, <1>4

(* Recording a failed delivery is sound.                                   *)
LEMMA SoundFailed ==
  ASSUME NEW state \in ScannerState, NEW s \in Signals, NEW t,
         NEW u \in Signals, NEW v, NEW w, NEW n,
         SoundFor(state, u, v, n, t),
         u # s => w = v,
         u = s => w = "DELIVERY_FAILED" /\ Known(state, s)
  PROVE  SoundFor([state EXCEPT !.handled[s].status = "DELIVERY_FAILED"], u, w, n, t)
<1> DEFINE new == [state EXCEPT !.handled[s].status = "DELIVERY_FAILED"]
<1>1. /\ new.positions = state.positions
      /\ new.handled[u].status =
           IF u = s THEN "DELIVERY_FAILED" ELSE state.handled[u].status
      /\ new.handled[u].at = state.handled[u].at
  BY FailedRecord
<1>2. CASE u # s
  BY <1>1, <1>2 DEF SoundFor, Known
<1>3. CASE u = s
  BY <1>1, <1>3 DEF SoundFor, Known, ClaimStatuses
<1>4. QED
  BY <1>2, <1>3

(***************************************************************************)
(* Facts of one state used at many steps.                                  *)
(***************************************************************************)

(* The types the steps below need, in one place.                           *)
LEMMA Types ==
  ASSUME TypeOK
  PROVE  /\ now \in Nat /\ asOf \in Nat
         /\ disk \in ScannerState /\ mem \in ScannerState
         /\ \A s \in Signals :
              /\ alerts[s] \in Nat /\ verdict[s] \in Verdicts
              /\ resolvedAt[s] \in Nat /\ FillTime[s] \in Nat
              /\ InstrumentOf[s] \in Instruments
         /\ \A i \in Instruments : feedAt[i] \in Nat
  BY SetsAssumption, BoundsAssumption DEF TypeOK, Verdicts, Never

(* The two copies of the state stay sound while time passes.               *)
LEMMA SoundLaterAll ==
  ASSUME NEW state, NEW t \in Nat, NEW u \in Nat, t <= u, Sound(state, t)
  PROVE  Sound(state, u)
  BY SoundLater DEF Sound

(* An entry in the queue that the scan does not know is undecided and no   *)
(* alert of it was sent.                                                   *)
LEMMA UnknownIsUndecided ==
  ASSUME IInv, InScan, NEW s \in Signals, s \in queue, ~Known(mem, s)
  PROVE  verdict[s] = "NONE" /\ alerts[s] = 0 /\ FillTime[s] <= asOf
<1>1. FillTime[s] <= asOf /\ ~LapsedAt(s, asOf)
  <2>1. InLookback(s)
    BY DEF IInv, QueueInv
  <2>2. QED
    BY <2>1, Types, WindowsAssumption DEF InLookback, LapsedAt, IInv
<1>2. SoundFor(mem, s, verdict[s], alerts[s], asOf)
  BY DEF IInv, MemInv, Sound
<1>3. verdict[s] = "NONE"
  BY <1>1, <1>2 DEF SoundFor
<1>4. QED
  BY <1>1, <1>3, Types DEF IInv, AlertInv

(* Only one entry can be at the head of the queue.                         *)
LEMMA OneHead ==
  ASSUME IInv, NEW s \in Signals, NEW t \in Signals, AtHead(s), AtHead(t)
  PROVE  s = t
<1>1. FillTime[s] = FillTime[t]
  BY SetsAssumption DEF AtHead
<1>2. InstrumentOf[s] = InstrumentOf[t]
  BY DEF IInv, QueueInv, AtHead
<1>3. QED
  BY <1>1, <1>2, OneEntryPerBar

(***************************************************************************)
(* The inductive invariant: initial states and one lemma per action.       *)
(***************************************************************************)

(* The initial state, with no file and no alerts, satisfies the invariant. *)
LEMMA InitInv == Init => IInv
<1> SUFFICES ASSUME Init PROVE IInv
  OBVIOUS
<1>1. TypeOK
  BY InitType
<1>2. \A s \in Signals : EmptyState.handled[s] = Absent
  BY DEF EmptyState
<1>3. \A i \in Instruments : EmptyState.positions[i] = NoSignal
  BY DEF EmptyState
<1>4. ClockInv
  BY DEF Init, ClockInv
<1>5. DiskInv
  <2>1. ASSUME NEW s \in Signals
        PROVE  SoundFor(disk, s, verdict[s], alerts[s], IF pc = "idle" THEN now ELSE asOf)
    BY <1>2, <1>3, SetsAssumption DEF Init, SoundFor, Known, Absent
  <2>2. HoldsOwn(disk)
    BY <1>3 DEF Init, HoldsOwn
  <2>3. Holds(disk)
    BY DEF Init, Holds
  <2>4. QED
    BY <2>1, <2>2, <2>3 DEF DiskInv, Sound
<1>6. MemInv /\ QueueInv /\ PostingInv
  BY DEF Init, MemInv, InScan, QueueInv, PostingInv
<1>7. OutcomeInv
  BY <1>2 DEF Init, OutcomeInv, Absent
<1>8. AlertInv
  BY DEF Init, AlertInv
<1>9. QED
  BY <1>1, <1>4, <1>5, <1>6, <1>7, <1>8 DEF IInv

(* Time passes: signals lapse, and a trade ends only when it was open.     *)
LEMMA TickInv == IInv /\ TypeOK' /\ Tick => IInv'
<1> SUFFICES ASSUME IInv, TypeOK', Tick PROVE IInv'
  OBVIOUS
<1>0. TypeOK
  BY DEF IInv
<1>1. now \in Nat /\ now' = now + 1 /\ now' \in Nat /\ now < MaxTime
  BY <1>0, Types DEF Tick
<1>2. /\ UNCHANGED <<feedAt, disk, mem, pc, asOf, todo, queue, dry>>
      /\ UNCHANGED <<alerts, verdict>>
  BY DEF Tick
<1>3. \A s \in Signals :
         \/ resolvedAt[s] = Never /\ resolvedAt'[s] = now + 1
         \/ resolvedAt'[s] = resolvedAt[s]
  BY DEF Tick
<1>4. ClockInv'
  BY <1>0, <1>1, <1>2, Types DEF IInv, ClockInv
<1>5. ASSUME NEW state, Holds(state)
      PROVE  \A s \in Signals :
               (verdict'[s] = "SENT" /\ now' < resolvedAt'[s])
                 => state.positions[InstrumentOf[s]] = s
  BY <1>0, <1>1, <1>2, <1>3, <1>5, Types DEF Holds
<1>6. DiskInv'
  <2>1. Sound(disk, IF pc = "idle" THEN now' ELSE asOf)
    BY <1>0, <1>1, Types, SoundLaterAll DEF IInv, DiskInv
  <2>2. Sound(disk, IF pc = "idle" THEN now ELSE asOf)'
    BY <1>2, <2>1 DEF Sound, HoldsOwn
  <2>3. Holds(disk)'
    BY <1>2, <1>5 DEF IInv, DiskInv, Holds
  <2>4. QED
    BY <2>2, <2>3 DEF DiskInv
<1>7. MemInv'
  <2>1. InScan' => InScan /\ Holds(mem)'
    BY <1>2, <1>5 DEF IInv, MemInv, Holds, InScan
  <2>2. InScan => Sound(mem, asOf)'
    BY <1>2 DEF IInv, MemInv, Sound, HoldsOwn
  <2>3. QED
    BY <1>2, <2>1, <2>2 DEF IInv, MemInv
<1>8. QueueInv' /\ PostingInv' /\ AlertInv'
  BY <1>2 DEF IInv, QueueInv, PostingInv, AlertInv, InLookback, AtHead, Free
<1>9. OutcomeInv'
  BY <1>0, <1>1, <1>2, <1>3, Types, BoundsAssumption DEF IInv, OutcomeInv, Never
<1>10. QED
  BY <1>4, <1>6, <1>7, <1>8, <1>9 DEF IInv

(* Waking up only reads the clock.                                         *)
LEMMA WakeInv == IInv /\ TypeOK' /\ Wake => IInv'
<1> SUFFICES ASSUME IInv, TypeOK', Wake PROVE IInv'
  OBVIOUS
<1>1. /\ UNCHANGED <<now, resolvedAt, feedAt, disk, mem, todo, queue, alerts, verdict>>
      /\ pc = "idle" /\ pc' = "refresh" /\ asOf' = now
  BY DEF Wake, world
<1>2. ClockInv'
  BY <1>1, Types DEF IInv, ClockInv
<1>3. DiskInv'
  <2>1. Sound(disk, now) /\ Holds(disk)
    BY <1>1 DEF IInv, DiskInv
  <2>2. QED
    BY <1>1, <2>1 DEF DiskInv, Sound, HoldsOwn, Holds
<1>4. MemInv' /\ QueueInv' /\ PostingInv'
  BY <1>1 DEF IInv, MemInv, InScan, QueueInv, PostingInv
<1>5. OutcomeInv' /\ AlertInv'
  BY <1>1 DEF IInv, OutcomeInv, AlertInv
<1>6. QED
  BY <1>2, <1>3, <1>4, <1>5 DEF IInv

(* Loading the state drops only what has lapsed for this scan.             *)
LEMMA BeginScanInv ==
  ASSUME NEW R \in SUBSET Instruments, IInv, TypeOK', BeginScan(R)
  PROVE  IInv'
<1>0. TypeOK
  BY DEF IInv
<1>1. /\ UNCHANGED <<now, resolvedAt, disk, queue, alerts, verdict>>
      /\ pc = "refresh" /\ pc' = "scan"
      /\ asOf' \in {asOf, now}
      /\ mem' = Pruned(disk, asOf')
      /\ feedAt' = [i \in Instruments |-> IF i \in R THEN now ELSE feedAt[i]]
  BY DEF BeginScan, world
<1>2. asOf \in Nat /\ now \in Nat /\ asOf' \in Nat /\ asOf <= asOf' /\ asOf' <= now
  BY <1>0, <1>1, Types DEF IInv, ClockInv
<1>3. ClockInv'
  BY <1>0, <1>1, <1>2, Types DEF IInv, ClockInv
<1>4. Sound(disk, asOf')
  BY <1>1, <1>2, SoundLaterAll DEF IInv, DiskInv
<1>5. /\ mem'.positions = disk.positions
      /\ \A s \in Signals : mem'.handled[s] \in {disk.handled[s], Absent}
  BY <1>0, <1>1, <1>2, Types, PrunedType, PrunedRecord
<1>6. DiskInv'
  BY <1>1, <1>4 DEF IInv, DiskInv, Sound, HoldsOwn, Holds
<1>7. MemInv'
  <2>1. \A s \in Signals : SoundFor(mem', s, verdict[s], alerts[s], asOf')
    BY <1>0, <1>1, <1>2, <1>4, Types, SoundPruned DEF Sound
  <2>2. Sound(mem, asOf)'
    BY <1>1, <1>4, <1>5, <2>1 DEF Sound, HoldsOwn
  <2>3. Holds(mem)'
    BY <1>1, <1>5 DEF IInv, DiskInv, Holds
  <2>4. QED
    BY <1>1, <1>5, <2>2, <2>3 DEF MemInv
<1>8. QueueInv' /\ PostingInv'
  BY <1>1 DEF IInv, QueueInv, PostingInv
<1>9. OutcomeInv'
  BY <1>1, <1>5 DEF IInv, OutcomeInv, Absent
<1>10. AlertInv'
  BY <1>1 DEF IInv, AlertInv
<1>11. QED
  BY <1>3, <1>6, <1>7, <1>8, <1>9, <1>10 DEF IInv

(* A scan that stops leaves the invariant to the state file.               *)
LEMMA StopInv ==
  ASSUME IInv, TypeOK', Stop, UNCHANGED <<now, resolvedAt, feedAt, alerts>>,
         \A s \in Signals : verdict[s] # "NONE" => verdict'[s] # "NONE",
         \A s \in Signals : SoundFor(disk', s, verdict'[s], alerts[s], asOf),
         \/ disk'.positions = disk.positions
         \/ InScan /\ disk'.positions = mem.positions,
         \A s \in Signals : disk'.handled[s].closed =>
                             (disk.handled[s].closed \/ mem.handled[s].closed),
         \A s \in Signals : verdict'[s] = "SENT" => verdict[s] = "SENT"
  PROVE  IInv'
<1>0. TypeOK
  BY DEF IInv
<1>1. pc' = "idle" /\ mem' = disk' /\ queue' = {} /\ asOf' = asOf
  BY DEF Stop
<1>2. asOf \in Nat /\ now \in Nat /\ asOf <= now
  BY <1>0, Types DEF IInv, ClockInv
<1>3. ClockInv'
  BY <1>1 DEF IInv, ClockInv
<1>4. DiskInv'
  <2>1. \A s \in Signals : SoundFor(disk', s, verdict'[s], alerts[s], now)
    BY <1>2, SoundLater
  <2>2. HoldsOwn(disk)' /\ Holds(disk)'
    BY DEF IInv, DiskInv, MemInv, Sound, HoldsOwn, Holds
  <2>3. Sound(disk, now)'
    BY <2>1, <2>2 DEF Sound
  <2>4. QED
    BY <1>1, <2>2, <2>3 DEF DiskInv
<1>5. MemInv' /\ QueueInv' /\ PostingInv'
  BY <1>1 DEF MemInv, InScan, QueueInv, PostingInv
<1>6. OutcomeInv'
  BY <1>1 DEF IInv, OutcomeInv
<1>7. AlertInv'
  BY DEF IInv, AlertInv
<1>8. QED
  BY <1>3, <1>4, <1>5, <1>6, <1>7 DEF IInv

(* The same, when the file stays as it is.                                 *)
LEMMA StopUnsavedInv ==
  ASSUME IInv, TypeOK', Stop, pc # "idle",
         UNCHANGED <<now, resolvedAt, feedAt, disk, alerts, verdict>>
  PROVE  IInv'
<1>1. Sound(disk, asOf)
  BY DEF IInv, DiskInv
<1>2. \A s \in Signals : SoundFor(disk', s, verdict'[s], alerts[s], asOf)
  BY <1>1 DEF Sound
<1>3. QED
  BY <1>2, StopInv

(* A market that cannot be loaded stops the scan.                          *)
LEMMA LoadFailsInv ==
  ASSUME NEW i \in Instruments, IInv, TypeOK', LoadFails(i)
  PROVE  IInv'
  BY StopUnsavedInv DEF LoadFails, world

(* A process that dies leaves the file as it is.                           *)
LEMMA CrashInv == IInv /\ TypeOK' /\ Crash => IInv'
  BY StopUnsavedInv DEF Crash, world

(* The last save of a scan writes what the scan knows.                     *)
LEMMA EndScanInv == IInv /\ TypeOK' /\ EndScan => IInv'
<1> SUFFICES ASSUME IInv, TypeOK', EndScan PROVE IInv'
  OBVIOUS
<1>1. /\ UNCHANGED <<now, resolvedAt, feedAt, alerts, verdict>>
      /\ Stop /\ InScan /\ disk' = mem
  BY DEF EndScan, InScan, world
<1>2. \A s \in Signals : SoundFor(disk', s, verdict'[s], alerts[s], asOf)
  BY <1>1 DEF IInv, MemInv, Sound
<1>3. QED
  BY <1>1, <1>2, StopInv

(* A failed delivery keeps the claim on file under another name.           *)
LEMMA DeliveryFailsInv ==
  ASSUME NEW s \in Signals, IInv, TypeOK', DeliveryFails(s)
  PROVE  IInv'
<1>0. TypeOK
  BY DEF IInv
<1>1. /\ UNCHANGED <<now, resolvedAt, feedAt, alerts>>
      /\ Stop /\ InScan /\ AtHead(s) /\ pc \in {"posting", "posted"}
      /\ disk' = [mem EXCEPT !.handled[s].status = "DELIVERY_FAILED"]
      /\ verdict' = [verdict EXCEPT ![s] = "DELIVERY_FAILED"]
  BY DEF DeliveryFails, InScan, world
<1>2. Known(mem, s)
  BY <1>1 DEF IInv, PostingInv, Known
<1>3. \A u \in Signals : verdict'[u] = IF u = s THEN "DELIVERY_FAILED" ELSE verdict[u]
  BY <1>0, <1>1 DEF TypeOK
<1>4. \A u \in Signals : SoundFor(mem, u, verdict[u], alerts[u], asOf)
  BY <1>1 DEF IInv, MemInv, Sound
<1>5. \A u \in Signals : SoundFor(disk', u, verdict'[u], alerts[u], asOf)
  BY <1>0, <1>1, <1>2, <1>3, <1>4, Types, SoundFailed
<1>6. /\ disk'.positions = mem.positions
      /\ \A u \in Signals : disk'.handled[u].closed = mem.handled[u].closed
  BY <1>0, <1>1, Types, FailedRecord
<1>7. \A u \in Signals : /\ verdict[u] # "NONE" => verdict'[u] # "NONE"
                         /\ verdict'[u] = "SENT" => verdict[u] = "SENT"
  BY <1>3
<1>8. QED
  BY <1>1, <1>5, <1>6, <1>7, StopInv

(* Settling a market releases only a market whose trade has ended.         *)
LEMMA LoadInstrumentInv ==
  ASSUME NEW i \in Instruments, IInv, TypeOK', LoadInstrument(i)
  PROVE  IInv'
<1>0. TypeOK
  BY DEF IInv
<1>1. /\ UNCHANGED <<now, resolvedAt, feedAt, disk, asOf, dry, alerts, verdict>>
      /\ pc = "scan" /\ pc' = "signals" /\ queue' = Found(i)
  BY DEF LoadInstrument, world
<1>2. PICK again \in BOOLEAN : mem' = Settled(mem, i, again)
  BY DEF LoadInstrument
<1>3. InScan /\ InScan'
  BY <1>1 DEF InScan
<1>4. \A s \in EndedTrades(mem, i, again) : resolvedAt[s] <= now
  <2>1. TAKE s \in EndedTrades(mem, i, again)
  <2>2. s \in Signals /\ resolvedAt[s] <= feedAt[InstrumentOf[s]]
    BY DEF EndedTrades, PathSeen
  <2>3. feedAt[InstrumentOf[s]] <= now
    BY <1>0, <2>2, Types DEF IInv, ClockInv
  <2>4. QED
    BY <1>0, <2>2, <2>3, Types
<1>5. \A j \in Instruments :
         \/ mem'.positions[j] = mem.positions[j]
         \/ /\ mem'.positions[j] = NoSignal
            /\ mem.positions[j] \in EndedTrades(mem, i, again)
  BY <1>0, <1>2, Types, SettledRecord
<1>6. ClockInv' /\ DiskInv'
  BY <1>1 DEF IInv, ClockInv, DiskInv, Sound, HoldsOwn, Holds
<1>7. MemInv'
  <2>1. \A s \in Signals : SoundFor(mem', s, verdict[s], alerts[s], asOf)
    BY <1>0, <1>2, <1>3, Types, SoundSettled DEF IInv, MemInv, Sound
  <2>2. HoldsOwn(mem)'
    BY <1>3, <1>5 DEF IInv, MemInv, Sound, HoldsOwn
  <2>3. Holds(mem)'
    <3>1. SUFFICES ASSUME NEW s \in Signals, verdict[s] = "SENT", now < resolvedAt[s]
                   PROVE  mem'.positions[InstrumentOf[s]] = s
      BY <1>1 DEF Holds
    <3>2. mem.positions[InstrumentOf[s]] = s
      BY <1>3, <3>1 DEF IInv, MemInv, Holds
    <3>3. s \notin EndedTrades(mem, i, again)
      BY <1>0, <1>4, <3>1, Types
    <3>4. QED
      BY <1>0, <1>5, <3>2, <3>3, Types
  <2>4. \A j \in Instruments : mem'.positions[j] \in {disk.positions[j], NoSignal}
    BY <1>3, <1>5 DEF IInv, MemInv
  <2>5. QED
    BY <1>1, <2>1, <2>2, <2>3, <2>4 DEF MemInv, Sound
<1>8. QueueInv'
  BY <1>1 DEF QueueInv, Found, InLookback
<1>9. PostingInv'
  BY <1>1 DEF PostingInv
<1>10. OutcomeInv'
  <2>1. ASSUME NEW s \in Signals, mem'.handled[s].closed PROVE resolvedAt[s] <= now
    <3>1. CASE s \in EndedTrades(mem, i, again)
      BY <1>4, <3>1
    <3>2. CASE s \notin EndedTrades(mem, i, again)
      <4>1. mem'.handled[s] = mem.handled[s]
        BY <1>0, <1>2, <3>2, Types, SettledRecord
      <4>2. QED
        BY <2>1, <4>1 DEF IInv, OutcomeInv
    <3>3. QED
      BY <3>1, <3>2
  <2>2. QED
    BY <1>1, <2>1 DEF IInv, OutcomeInv
<1>11. AlertInv'
  BY <1>1 DEF IInv, AlertInv
<1>12. QED
  BY <1>6, <1>7, <1>8, <1>9, <1>10, <1>11 DEF IInv

(* Passing over an entry, and moving on to the next market, change nothing *)
(* but the position of the loop.                                           *)
LEMMA SkipKnownInv ==
  ASSUME NEW s \in Signals, IInv, TypeOK', SkipKnown(s)
  PROVE  IInv'
<1>1. /\ UNCHANGED <<now, resolvedAt, feedAt, disk, mem, pc, asOf, alerts, verdict>>
      /\ pc = "signals" /\ queue' \subseteq queue
  BY DEF SkipKnown, world, scan
<1>2. ClockInv' /\ DiskInv' /\ MemInv' /\ OutcomeInv' /\ AlertInv'
  BY <1>1 DEF IInv, ClockInv, DiskInv, MemInv, InScan, Sound, HoldsOwn, Holds,
              OutcomeInv, AlertInv
<1>3. QueueInv' /\ PostingInv'
  BY <1>1 DEF IInv, QueueInv, PostingInv, InLookback
<1>4. QED
  BY <1>2, <1>3 DEF IInv

(* The next market starts with nothing in the queue.                       *)
LEMMA NextInstrumentInv == IInv /\ TypeOK' /\ NextInstrument => IInv'
<1> SUFFICES ASSUME IInv, TypeOK', NextInstrument PROVE IInv'
  OBVIOUS
<1>1. /\ UNCHANGED <<now, resolvedAt, feedAt, disk, mem, asOf, alerts, verdict>>
      /\ pc = "signals" /\ pc' = "scan" /\ queue = {} /\ queue' = {}
  BY DEF NextInstrument, world, scan
<1>2. ClockInv' /\ DiskInv' /\ MemInv' /\ OutcomeInv' /\ AlertInv'
  BY <1>1 DEF IInv, ClockInv, DiskInv, MemInv, InScan, Sound, HoldsOwn, Holds,
              OutcomeInv, AlertInv
<1>3. QueueInv' /\ PostingInv'
  BY <1>1 DEF QueueInv, PostingInv
<1>4. QED
  BY <1>2, <1>3 DEF IInv

(* A decision that is saved with its record, and takes no market, keeps    *)
(* both copies sound. base is the state it is written into.                *)
LEMMA DecideInv ==
  ASSUME IInv, TypeOK', InScan, InScan',
         NEW s \in Signals, s \in queue, ~Known(mem, s),
         NEW d \in Statuses, d # "SENT",
         NEW base \in ScannerState,
         base.handled = mem.handled, base.positions = mem.positions,
         mem' = Marked(base, s, Record(d, asOf)), disk' = mem',
         verdict' = [verdict EXCEPT ![s] = d],
         UNCHANGED <<now, resolvedAt, feedAt, asOf, alerts>>
  PROVE  /\ ClockInv' /\ DiskInv' /\ MemInv' /\ OutcomeInv' /\ AlertInv'
         /\ mem'.positions = mem.positions
         /\ mem'.handled[s].status = d
<1>0. TypeOK /\ d # "NONE" /\ d # "ABSENT"
  BY DEF IInv, Statuses
<1>1. verdict[s] = "NONE" /\ alerts[s] = 0 /\ FillTime[s] <= asOf
  BY UnknownIsUndecided
<1>2. \A u \in Signals : verdict'[u] = IF u = s THEN d ELSE verdict[u]
  BY <1>0 DEF TypeOK
<1>3. /\ mem'.positions = mem.positions
      /\ \A u \in Signals :
           mem'.handled[u] = IF u = s THEN Record(d, asOf) ELSE mem.handled[u]
  BY MarkedRecord
<1>4. ClockInv'
  BY DEF IInv, ClockInv
<1>5. Sound(mem, asOf)'
  <2>1. \A u \in Signals : SoundFor(mem, u, verdict[u], alerts[u], asOf)
    BY DEF IInv, MemInv, Sound
  <2>2. \A u \in Signals : SoundFor(base, u, verdict[u], alerts[u], asOf)
    BY <2>1 DEF SoundFor, Known
  <2>3. \A u \in Signals : SoundFor(mem', u, verdict'[u], alerts[u], asOf)
    BY <1>0, <1>1, <1>2, <2>2, Types, SoundMarked
  <2>4. HoldsOwn(mem)'
    BY <1>3 DEF IInv, MemInv, Sound, HoldsOwn
  <2>5. QED
    BY <2>3, <2>4 DEF Sound
<1>6. Holds(mem)'
  BY <1>2, <1>3 DEF IInv, MemInv, Holds
<1>7. MemInv'
  BY <1>5, <1>6 DEF MemInv
<1>8. DiskInv'
  <2>1. pc' # "idle"
    BY DEF InScan
  <2>2. Sound(disk, asOf)' /\ Holds(disk)'
    BY <1>5, <1>6 DEF Sound, HoldsOwn, Holds
  <2>3. QED
    BY <2>1, <2>2 DEF DiskInv
<1>9. OutcomeInv'
  <2>0. Record(d, asOf).closed = FALSE
    BY DEF Record
  <2>1. \A u \in Signals : mem'.handled[u].closed => mem.handled[u].closed
    <3>1. TAKE u \in Signals
    <3>2. CASE u = s
      BY <1>3, <2>0, <3>2
    <3>3. CASE u # s
      BY <1>3, <3>3
    <3>4. QED
      BY <3>2, <3>3
  <2>2. QED
    BY <2>1 DEF IInv, OutcomeInv
<1>10. AlertInv'
  BY <1>0, <1>1, <1>2 DEF IInv, AlertInv
<1>11. mem'.handled[s].status = d
  <2>1. mem'.handled[s] = Record(d, asOf)
    BY <1>3
  <2>2. QED
    BY <2>1 DEF Record
<1>12. QED
  BY <1>3, <1>4, <1>7, <1>8, <1>9, <1>10, <1>11

(* A rejection and a filtered entry are decisions on the audited state.    *)
LEMMA RejectInv ==
  ASSUME NEW s \in Signals, IInv, TypeOK', Reject(s)
  PROVE  IInv'
<1>1. /\ UNCHANGED <<now, resolvedAt, feedAt, pc, asOf, alerts>>
      /\ pc = "signals" /\ s \in queue /\ ~Known(mem, s) /\ queue' = queue \ {s}
      /\ mem' = Marked(Audited(mem, s), s, Record("REJECTED", asOf))
      /\ disk' = mem'
      /\ verdict' = [verdict EXCEPT ![s] = "REJECTED"]
  BY DEF Reject, Save, AtHead, world, scan
<1>2. /\ Audited(mem, s) \in ScannerState
      /\ Audited(mem, s).handled = mem.handled
      /\ Audited(mem, s).positions = mem.positions
  BY AuditedType, Types DEF IInv
<1>3. ClockInv' /\ DiskInv' /\ MemInv' /\ OutcomeInv' /\ AlertInv'
  <2>1. InScan /\ InScan' /\ "REJECTED" \in Statuses \ {"SENT"}
    BY <1>1 DEF InScan, Statuses
  <2>2. QED
    BY <1>1, <1>2, <2>1, DecideInv
<1>4. QueueInv' /\ PostingInv'
  BY <1>1 DEF IInv, QueueInv, PostingInv, InLookback
<1>5. QED
  BY <1>3, <1>4 DEF IInv

(* The same for an entry the model filters.                                *)
LEMMA FilterInv ==
  ASSUME NEW s \in Signals, IInv, TypeOK', Filter(s)
  PROVE  IInv'
<1>1. /\ UNCHANGED <<now, resolvedAt, feedAt, pc, asOf, alerts>>
      /\ pc = "signals" /\ s \in queue /\ ~Known(mem, s) /\ queue' = queue \ {s}
      /\ mem' = Marked(Audited(mem, s), s, Record("ML_FILTERED", asOf))
      /\ disk' = mem'
      /\ verdict' = [verdict EXCEPT ![s] = "ML_FILTERED"]
  BY DEF Filter, Save, AtHead, world, scan
<1>2. /\ Audited(mem, s) \in ScannerState
      /\ Audited(mem, s).handled = mem.handled
      /\ Audited(mem, s).positions = mem.positions
  BY AuditedType, Types DEF IInv
<1>3. ClockInv' /\ DiskInv' /\ MemInv' /\ OutcomeInv' /\ AlertInv'
  <2>1. InScan /\ InScan' /\ "ML_FILTERED" \in Statuses \ {"SENT"}
    BY <1>1 DEF InScan, Statuses
  <2>2. QED
    BY <1>1, <1>2, <2>1, DecideInv
<1>4. QueueInv' /\ PostingInv'
  BY <1>1 DEF IInv, QueueInv, PostingInv, InLookback
<1>5. QED
  BY <1>3, <1>4 DEF IInv

(* A claim is a decision too; the network call starts with the claim on    *)
(* file, the market free and nothing sent.                                 *)
LEMMA ClaimInv ==
  ASSUME NEW s \in Signals, IInv, TypeOK', Claim(s)
  PROVE  IInv'
<1>0. TypeOK
  BY DEF IInv
<1>1. /\ UNCHANGED <<now, resolvedAt, feedAt, queue, asOf, alerts>>
      /\ pc = "signals" /\ pc' = "posting"
      /\ AtHead(s) /\ s \in queue /\ ~Known(mem, s) /\ Free(s)
      /\ mem' = Marked(mem, s, Record("PUBLISHING", asOf))
      /\ disk' = mem'
      /\ verdict' = [verdict EXCEPT ![s] = "PUBLISHING"]
  BY DEF Claim, Save, AtHead, world, scan
<1>2. InScan /\ InScan' /\ "PUBLISHING" \in Statuses \ {"SENT"}
  BY <1>1 DEF InScan, Statuses
<1>3. /\ ClockInv' /\ DiskInv' /\ MemInv' /\ OutcomeInv' /\ AlertInv'
      /\ mem'.positions = mem.positions
      /\ mem'.handled[s].status = "PUBLISHING"
  BY <1>0, <1>1, <1>2, Types, DecideInv
<1>4. QueueInv'
  BY <1>1 DEF IInv, QueueInv, InLookback
<1>5. PostingInv'
  <2>1. \A u \in Signals : AtHead(u)' => u = s
    BY <1>1, OneHead DEF AtHead
  <2>2. alerts[s] = 0
    BY <1>1, <1>2, UnknownIsUndecided
  <2>3. verdict'[s] = "PUBLISHING"
    BY <1>0, <1>1 DEF TypeOK
  <2>4. Free(s)'
    BY <1>1, <1>3 DEF Free
  <2>5. QED
    BY <1>1, <1>3, <2>1, <2>2, <2>3, <2>4 DEF PostingInv
<1>6. QED
  BY <1>3, <1>4, <1>5 DEF IInv

(* Discord accepts an alert only while its claim is on file, and once.     *)
LEMMA DiscordAcceptsInv ==
  ASSUME NEW s \in Signals, IInv, TypeOK', DiscordAccepts(s)
  PROVE  IInv'
<1>0. TypeOK
  BY DEF IInv
<1>1. /\ UNCHANGED <<now, resolvedAt, feedAt, disk, mem, queue, asOf, dry, verdict>>
      /\ pc = "posting" /\ pc' = "posted" /\ AtHead(s) /\ ~dry
      /\ alerts' = [alerts EXCEPT ![s] = @ + 1]
  BY DEF DiscordAccepts, world, scan
<1>2. /\ verdict[s] = "PUBLISHING" /\ alerts[s] = 0
      /\ disk.handled[s].status = "PUBLISHING"
      /\ mem.handled[s].status = "PUBLISHING"
      /\ mem.positions = disk.positions
  BY <1>1 DEF IInv, PostingInv
<1>3. \A u \in Signals : alerts'[u] = IF u = s THEN 1 ELSE alerts[u]
  BY <1>0, <1>1, <1>2 DEF TypeOK
<1>4. ASSUME NEW state, Sound(state, asOf), state.handled[s].status = "PUBLISHING"
      PROVE  \A u \in Signals : SoundFor(state, u, verdict[u], alerts'[u], asOf)
  BY <1>3, <1>4 DEF Sound, SoundFor, ClaimStatuses
<1>5. ClockInv' /\ QueueInv' /\ OutcomeInv'
  BY <1>1 DEF IInv, ClockInv, QueueInv, OutcomeInv, InLookback
<1>6. Sound(disk, asOf) /\ Sound(mem, asOf) /\ InScan
  BY <1>1 DEF IInv, DiskInv, MemInv, InScan
<1>7. DiskInv'
  BY <1>1, <1>2, <1>4, <1>6 DEF IInv, DiskInv, Sound, HoldsOwn, Holds
<1>8. MemInv'
  BY <1>1, <1>2, <1>4, <1>6 DEF IInv, MemInv, Sound, HoldsOwn, Holds
<1>9. PostingInv'
  <2>1. \A u \in Signals : AtHead(u)' => u = s
    BY <1>1, OneHead DEF AtHead
  <2>2. Free(s)'
    BY <1>1 DEF IInv, PostingInv, Free
  <2>3. QED
    BY <1>1, <1>2, <1>3, <2>1, <2>2 DEF PostingInv
<1>10. AlertInv'
  BY <1>1, <1>2, <1>3 DEF IInv, AlertInv
<1>11. QED
  BY <1>5, <1>7, <1>8, <1>9, <1>10 DEF IInv

(* Recording the publication takes a market that was free, so no confirmed *)
(* trade loses its market.                                                 *)
LEMMA RecordSentInv ==
  ASSUME NEW s \in Signals, IInv, TypeOK', RecordSent(s)
  PROVE  IInv'
<1>0. TypeOK
  BY DEF IInv
<1> DEFINE d == IF dry THEN "DRY_RUN" ELSE "SENT"
<1>1. /\ UNCHANGED <<now, resolvedAt, feedAt, asOf, alerts>>
      /\ pc \in {"posting", "posted"} /\ pc' = "signals" /\ AtHead(s)
      /\ pc = (IF dry THEN "posting" ELSE "posted")
      /\ queue' = queue \ {s}
      /\ mem' = Opened(mem, s, d) /\ disk' = mem'
      /\ verdict' = [verdict EXCEPT ![s] = d]
  BY DEF RecordSent, Save, world, scan
<1>2. InScan /\ InScan' /\ d \in {"SENT", "DRY_RUN"} /\ d \in Statuses /\ d # "NONE"
  BY <1>1 DEF InScan, Statuses
<1>3. /\ mem.handled[s].status = "PUBLISHING" /\ Free(s)
      /\ alerts[s] = IF pc = "posted" THEN 1 ELSE 0
  BY <1>1 DEF IInv, PostingInv
<1>4. \A u \in Signals : verdict'[u] = IF u = s THEN d ELSE verdict[u]
  BY <1>0, <1>1 DEF TypeOK
<1>5. /\ \A u \in Signals : mem'.handled[u].closed = mem.handled[u].closed
      /\ \A i \in Instruments :
           mem'.positions[i] = IF i = InstrumentOf[s] THEN s ELSE mem.positions[i]
  BY <1>0, <1>1, <1>2, Types, OpenedRecord
<1>6. Sound(mem, asOf)'
  <2>1. \A u \in Signals : SoundFor(mem, u, verdict[u], alerts[u], asOf)
    BY <1>2 DEF IInv, MemInv, Sound
  <2>2. Known(mem, s) /\ (d = "DRY_RUN" => ~(alerts[s] > 0))
    BY <1>1, <1>3 DEF Known
  <2>3. \A u \in Signals : SoundFor(mem', u, verdict'[u], alerts[u], asOf)
    BY <1>0, <1>1, <1>2, <1>4, <2>1, <2>2, Types, SoundOpened
  <2>4. HoldsOwn(mem)'
    BY <1>2, <1>5 DEF IInv, MemInv, Sound, HoldsOwn
  <2>5. QED
    BY <1>1, <2>3, <2>4 DEF Sound
<1>7. Holds(mem)'
  <2>1. SUFFICES ASSUME NEW u \in Signals, verdict'[u] = "SENT", now < resolvedAt[u]
                 PROVE  mem'.positions[InstrumentOf[u]] = u
    BY <1>1 DEF Holds
  <2>2. CASE u = s
    BY <1>0, <1>5, <2>2, Types
  <2>3. CASE u # s
    <3>1. mem.positions[InstrumentOf[u]] = u
      BY <1>2, <1>4, <2>1, <2>3 DEF IInv, MemInv, Holds
    <3>2. InstrumentOf[u] # InstrumentOf[s]
      BY <1>3, <3>1, SetsAssumption DEF Free
    <3>3. QED
      BY <1>0, <1>5, <3>1, <3>2, Types
  <2>4. QED
    BY <2>2, <2>3
<1>8. MemInv' /\ DiskInv'
  BY <1>1, <1>6, <1>7 DEF MemInv, DiskInv, Sound, HoldsOwn, Holds
<1>9. ClockInv' /\ QueueInv' /\ PostingInv'
  BY <1>1 DEF IInv, ClockInv, QueueInv, InLookback, PostingInv
<1>10. OutcomeInv'
  BY <1>1, <1>5 DEF IInv, OutcomeInv
<1>11. AlertInv'
  BY <1>1, <1>2, <1>4 DEF IInv, AlertInv
<1>12. QED
  BY <1>8, <1>9, <1>10, <1>11 DEF IInv

(* Every step keeps the invariant.                                         *)
LEMMA StepInv == IInv /\ [Next]_vars => IInv'
<1> SUFFICES ASSUME IInv, [Next]_vars PROVE IInv'
  OBVIOUS
<1>1. TypeOK'
  BY TypeStep DEF IInv
<1>2. CASE Tick
  BY <1>1, <1>2, TickInv
<1>3. CASE ScanStep
  <2>1. CASE Wake
    BY <1>1, <2>1, WakeInv
  <2>2. CASE BeginScan(Instruments)
    BY <1>1, <2>2, BeginScanInv
  <2>3. ASSUME NEW i \in Instruments, LoadInstrument(i) PROVE IInv'
    BY <1>1, <2>3, LoadInstrumentInv
  <2>4. ASSUME NEW s \in Signals, Handle(s) PROVE IInv'
    BY <1>1, <2>4, SkipKnownInv, RejectInv, FilterInv, ClaimInv,
       DiscordAcceptsInv, RecordSentInv DEF Handle
  <2>5. CASE NextInstrument
    BY <1>1, <2>5, NextInstrumentInv
  <2>6. CASE EndScan
    BY <1>1, <2>6, EndScanInv
  <2>7. QED
    BY <1>3, <2>1, <2>2, <2>3, <2>4, <2>5, <2>6 DEF ScanStep
<1>4. ASSUME NEW R \in SUBSET Instruments, BeginScan(R) PROVE IInv'
  BY <1>1, <1>4, BeginScanInv
<1>5. ASSUME NEW i \in Instruments, LoadFails(i) PROVE IInv'
  BY <1>1, <1>5, LoadFailsInv
<1>6. ASSUME NEW s \in Signals, DeliveryFails(s) PROVE IInv'
  BY <1>1, <1>6, DeliveryFailsInv
<1>7. CASE Crash
  BY <1>1, <1>7, CrashInv
<1>8. CASE UNCHANGED vars
  BY <1>8 DEF vars, IInv, TypeOK, ClockInv, DiskInv, MemInv, QueueInv, PostingInv,
              OutcomeInv, AlertInv, InScan, Sound, HoldsOwn, Holds, InLookback,
              AtHead, Free
<1>9. QED
  BY <1>2, <1>3, <1>4, <1>5, <1>6, <1>7, <1>8 DEF Next

(* Every reachable state satisfies the invariant.                          *)
THEOREM Invariant == Spec => []IInv
  BY InitInv, StepInv, PTL DEF Spec

(***************************************************************************)
(* The safety properties.                                                  *)
(***************************************************************************)

(* No trade alert is shown twice, whatever crashes, failed deliveries,     *)
(* pruning and repeated scans happen.                                      *)
THEOREM AlertsSentOnce == Spec => []AtMostOneAlert
<1>1. IInv => AtMostOneAlert
  BY DEF IInv, AlertInv, AtMostOneAlert
<1>2. QED
  BY <1>1, Invariant, PTL

(* The file is sound at the clock's present time.                          *)
LEMMA DiskSoundNow ==
  ASSUME IInv, NEW s \in Signals
  PROVE  SoundFor(disk, s, verdict[s], alerts[s], now)
<1>1. Sound(disk, IF pc = "idle" THEN now ELSE asOf)
  BY DEF IInv, DiskInv
<1>2. asOf \in Nat /\ now \in Nat /\ asOf <= now
  BY Types DEF IInv, ClockInv
<1>3. Sound(disk, now)
  BY <1>1, <1>2, SoundLaterAll
<1>4. QED
  BY <1>3 DEF Sound

(* The state file remembers each decision while a scan can find its signal *)
THEOREM DecisionsStayRemembered == Spec => []DecisionsRemembered
<1>1. IInv => DecisionsRemembered
  BY DiskSoundNow DEF SoundFor, DecisionsRemembered, LapsedAt, Lapsed
<1>2. QED
  BY <1>1, Invariant, PTL

(* An alert that was shown stays covered by its claim.                     *)
THEOREM AlertsStayClaimed == Spec => []AlertsAreClaimed
<1>1. IInv => AlertsAreClaimed
  BY DiskSoundNow DEF SoundFor, AlertsAreClaimed, LapsedAt, Lapsed, ClaimStatuses
<1>2. QED
  BY <1>1, Invariant, PTL

(* A confirmed trade that is still open holds its market on file.          *)
THEOREM ConfirmedTradesHold == Spec => []ConfirmedTradeHoldsMarket
<1>1. IInv => ConfirmedTradeHoldsMarket
  BY DEF IInv, DiskInv, Holds, ConfirmedTradeHoldsMarket
<1>2. QED
  BY <1>1, Invariant, PTL

(* A recorded outcome is that of a trade the market has ended.             *)
THEOREM OutcomesStayReal == Spec => []OutcomesAreReal
<1>1. IInv => OutcomesAreReal
  BY DEF IInv, OutcomeInv, OutcomesAreReal
<1>2. QED
  BY <1>1, Invariant, PTL
=============================================================================
