-------------------- MODULE SignalScannerPromises_proofs --------------------
(***************************************************************************)
(* What the scanner promises beyond one signal: it implements the alert    *)
(* protocol, keeps two trades of one market apart while nothing fails, and *)
(* loses no rejection to anything but newer ones.                          *)
(***************************************************************************)
EXTENDS SignalScanner_proofs

(***************************************************************************)
(* The scanner implements AlertProtocol: every step of a scan is a step of *)
(* the protocol or changes nothing the protocol sees.                      *)
(***************************************************************************)

(* The markets that the running scan has freed and the file still holds.   *)
FreedByScan == {i \in Instruments : mem.positions[i] # disk.positions[i]}

(* Saving the scan's positions releases exactly these markets.             *)
LEMMA SaveReleases ==
  ASSUME IInv, InScan
  PROVE  mem.positions = Protocol!Released(FreedByScan)
<1>1. \A i \in Instruments : mem.positions[i] \in {disk.positions[i], NoSignal}
  BY DEF IInv, MemInv
<1>2. mem.positions = [i \in Instruments |-> mem.positions[i]]
  BY Types DEF IInv, ScannerState
<1>3. \A i \in Instruments :
        mem.positions[i] = IF i \in FreedByScan THEN NoSignal ELSE disk.positions[i]
  BY <1>1 DEF FreedByScan
<1>4. QED
  BY <1>2, <1>3 DEF Protocol!Released

(* A saved decision is a decision of the protocol.                         *)
LEMMA DecideStep ==
  ASSUME IInv, InScan, NEW s \in Signals, s \in queue, ~Known(mem, s),
         NEW d \in Protocol!Decisions, d = "PUBLISHING" => Free(s),
         disk'.positions = mem.positions,
         verdict' = [verdict EXCEPT ![s] = d], alerts' = alerts
  PROVE  Protocol!Decide(s, d)
<1>1. verdict[s] = "NONE"
  BY UnknownIsUndecided
<1>2. FreedByScan \in SUBSET Instruments
  BY DEF FreedByScan
<1>3. mem.positions = Protocol!Released(FreedByScan)
  BY SaveReleases
<1>4. QED
  BY <1>1, <1>2, <1>3 DEF Protocol!Decide, Free

(* The last save of a scan releases markets.                               *)
LEMMA EndScanStep == IInv /\ EndScan => Protocol!Release
<1> SUFFICES ASSUME IInv, EndScan PROVE Protocol!Release
  OBVIOUS
<1>1. InScan /\ disk' = mem /\ UNCHANGED <<alerts, verdict>>
  BY DEF EndScan, InScan
<1>2. FreedByScan \in SUBSET Instruments
  BY DEF FreedByScan
<1>3. QED
  BY <1>1, <1>2, SaveReleases DEF Protocol!Release

(* What the loop does with one entry.                                      *)
LEMMA HandleStep ==
  ASSUME IInv, NEW s \in Signals, Handle(s)
  PROVE  Protocol!APNext \/ UNCHANGED Protocol!apVars
<1>0. TypeOK /\ mem \in ScannerState /\ disk \in ScannerState
  BY Types DEF IInv
<1>1. CASE SkipKnown(s)
  BY <1>1 DEF SkipKnown, Protocol!apVars
<1>2. CASE Reject(s)
  <2>1. /\ InScan /\ s \in queue /\ ~Known(mem, s)
        /\ verdict' = [verdict EXCEPT ![s] = "REJECTED"] /\ alerts' = alerts
        /\ disk' = Marked(Audited(mem, s), s, Record("REJECTED", asOf))
    BY <1>2 DEF Reject, Save, InScan, AtHead
  <2>2. disk'.positions = mem.positions
    BY <1>0, <2>1, AuditedType, MarkedRecord
  <2>3. Protocol!Decide(s, "REJECTED") /\ "REJECTED" \in Protocol!Decisions
    BY <2>1, <2>2, DecideStep DEF Protocol!Decisions
  <2>4. QED
    BY <2>3 DEF Protocol!APNext
<1>3. CASE Filter(s)
  <2>1. /\ InScan /\ s \in queue /\ ~Known(mem, s)
        /\ verdict' = [verdict EXCEPT ![s] = "ML_FILTERED"] /\ alerts' = alerts
        /\ disk' = Marked(Audited(mem, s), s, Record("ML_FILTERED", asOf))
    BY <1>3 DEF Filter, Save, InScan, AtHead
  <2>2. disk'.positions = mem.positions
    BY <1>0, <2>1, AuditedType, MarkedRecord
  <2>3. Protocol!Decide(s, "ML_FILTERED") /\ "ML_FILTERED" \in Protocol!Decisions
    BY <2>1, <2>2, DecideStep DEF Protocol!Decisions
  <2>4. QED
    BY <2>3 DEF Protocol!APNext
<1>4. CASE Claim(s)
  <2>1. /\ InScan /\ s \in queue /\ ~Known(mem, s) /\ Free(s)
        /\ verdict' = [verdict EXCEPT ![s] = "PUBLISHING"] /\ alerts' = alerts
        /\ disk' = Marked(mem, s, Record("PUBLISHING", asOf))
    BY <1>4 DEF Claim, Save, InScan, AtHead
  <2>2. disk'.positions = mem.positions
    BY <1>0, <2>1, MarkedRecord
  <2>3. Protocol!Decide(s, "PUBLISHING") /\ "PUBLISHING" \in Protocol!Decisions
    BY <2>1, <2>2, DecideStep DEF Protocol!Decisions
  <2>4. QED
    BY <2>3 DEF Protocol!APNext
<1>5. CASE DiscordAccepts(s)
  <2>1. verdict[s] = "PUBLISHING" /\ alerts[s] = 0
    BY <1>5 DEF DiscordAccepts, IInv, PostingInv
  <2>2. alerts' = [alerts EXCEPT ![s] = 1]
    BY <1>5, <2>1 DEF DiscordAccepts
  <2>3. Protocol!Deliver(s)
    BY <1>5, <2>1, <2>2 DEF DiscordAccepts, Protocol!Deliver
  <2>4. QED
    BY <2>3 DEF Protocol!APNext
<1>6. CASE RecordSent(s)
  <2> DEFINE d == IF dry THEN "DRY_RUN" ELSE "SENT"
  <2>1. /\ pc \in {"posting", "posted"} /\ AtHead(s)
        /\ pc = (IF dry THEN "posting" ELSE "posted")
        /\ disk' = Opened(mem, s, d)
        /\ verdict' = [verdict EXCEPT ![s] = d] /\ alerts' = alerts
    BY <1>6 DEF RecordSent, Save
  <2>2. /\ verdict[s] = "PUBLISHING" /\ Free(s) /\ mem.positions = disk.positions
        /\ alerts[s] = (IF pc = "posted" THEN 1 ELSE 0)
    BY <2>1 DEF IInv, PostingInv
  <2>3. d \in Statuses
    BY DEF Statuses
  <2>4. /\ Opened(mem, s, d) \in ScannerState
        /\ \A i \in Instruments : Opened(mem, s, d).positions[i] =
             IF i = InstrumentOf[s] THEN s ELSE mem.positions[i]
    BY <1>0, <2>3, OpenedType, OpenedRecord
  <2>5. disk'.positions = [disk.positions EXCEPT ![InstrumentOf[s]] = s]
    BY <1>0, <2>1, <2>2, <2>4 DEF ScannerState
  <2>6. alerts[s] = (IF d = "SENT" THEN 1 ELSE 0)
    BY <2>1, <2>2
  <2>7. Protocol!Confirm(s, d)
    BY <2>1, <2>2, <2>5, <2>6 DEF Protocol!Confirm, Free
  <2>8. d \in {"SENT", "DRY_RUN"}
    OBVIOUS
  <2>9. QED
    BY <2>7, <2>8 DEF Protocol!APNext
<1>7. QED
  BY <1>1, <1>2, <1>3, <1>4, <1>5, <1>6 DEF Handle

(* A failed delivery is a failure of the protocol.                         *)
LEMMA FailStep ==
  ASSUME IInv, NEW s \in Signals, DeliveryFails(s)
  PROVE  Protocol!Fail(s)
<1>1. /\ pc \in {"posting", "posted"} /\ AtHead(s) /\ alerts' = alerts
      /\ disk' = [mem EXCEPT !.handled[s].status = "DELIVERY_FAILED"]
      /\ verdict' = [verdict EXCEPT ![s] = "DELIVERY_FAILED"]
  BY DEF DeliveryFails
<1>2. verdict[s] = "PUBLISHING" /\ mem.positions = disk.positions
  BY <1>1 DEF IInv, PostingInv
<1>3. disk'.positions = mem.positions
  BY <1>1, Types, FailedRecord DEF IInv
<1>4. QED
  BY <1>1, <1>2, <1>3 DEF Protocol!Fail

(* Every step is a step of the protocol or a stutter.                      *)
LEMMA ProtocolStep ==
  IInv /\ [Next]_vars => [Protocol!APNext]_(Protocol!apVars)
<1> SUFFICES ASSUME IInv, [Next]_vars
             PROVE  Protocol!APNext \/ UNCHANGED Protocol!apVars
  OBVIOUS
<1>1. CASE Tick
  BY <1>1 DEF Tick, Protocol!apVars
<1>2. CASE Wake
  BY <1>2 DEF Wake, Protocol!apVars
<1>3. ASSUME NEW R \in SUBSET Instruments, BeginScan(R)
      PROVE  UNCHANGED Protocol!apVars
  BY <1>3 DEF BeginScan, Protocol!apVars
<1>4. ASSUME NEW i \in Instruments, LoadInstrument(i) \/ LoadFails(i)
      PROVE  UNCHANGED Protocol!apVars
  BY <1>4 DEF LoadInstrument, LoadFails, Protocol!apVars
<1>5. ASSUME NEW s \in Signals, Handle(s)
      PROVE  Protocol!APNext \/ UNCHANGED Protocol!apVars
  BY <1>5, HandleStep
<1>6. ASSUME NEW s \in Signals, DeliveryFails(s) PROVE Protocol!APNext
  BY <1>6, FailStep DEF Protocol!APNext
<1>7. CASE NextInstrument \/ Crash \/ UNCHANGED vars
  BY <1>7 DEF NextInstrument, Crash, vars, Protocol!apVars
<1>8. CASE EndScan
  BY <1>8, EndScanStep DEF Protocol!APNext
<1>9. QED
  BY <1>1, <1>2, <1>3, <1>4, <1>5, <1>6, <1>7, <1>8 DEF Next, ScanStep

(* The scanner starts where the protocol starts.                           *)
LEMMA ProtocolInit == Init => Protocol!APInit
  BY DEF Init, EmptyState, Protocol!APInit

(* The live scanner implements the abstract alert protocol.                *)
THEOREM Implements == Spec => ImplementsProtocol
<1>1. Spec => []IInv
  BY Invariant
<1>2. QED
  BY <1>1, ProtocolInit, ProtocolStep, PTL
     DEF Spec, ImplementsProtocol, Protocol!APSpec

(***************************************************************************)
(* Exclusion: without a fault, an alert that Discord shows is confirmed,   *)
(* and a confirmed trade holds its market.                                 *)
(***************************************************************************)

(* Outside the network call every alert is confirmed, and a step that      *)
(* writes no verdict over a confirmed one keeps it that way.               *)
LEMMA ConfirmKept ==
  ASSUME ConfirmInv, pc # "posted", alerts' = alerts, faults' = 0 => faults = 0,
         \A s \in Signals : alerts[s] > 0 /\ verdict[s] = "SENT" => verdict'[s] = "SENT"
  PROVE  ConfirmInv'
  BY DEF ConfirmInv

(* A fault that is spent ends the promise.                                 *)
LEMMA ConfirmSpent == TypeOK /\ Fault => ConfirmInv'
  BY BoundsAssumption DEF TypeOK, Fault, ConfirmInv

(* A decision is written only for a signal without an alert.               *)
LEMMA ConfirmDecided ==
  ASSUME IInv, ConfirmInv, pc = "signals", NEW s \in Signals, AtHead(s), ~Known(mem, s),
         NEW d, verdict' = [verdict EXCEPT ![s] = d], alerts' = alerts, faults' = faults
  PROVE  ConfirmInv'
<1>1. alerts[s] = 0
  BY UnknownIsUndecided DEF InScan, AtHead
<1>2. \A u \in Signals : u # s => verdict'[u] = verdict[u]
  BY DEF IInv, TypeOK
<1>3. QED
  BY <1>1, <1>2, ConfirmKept

(* Discord shows the alert of the entry at the head: it waits for its      *)
(* confirmation.                                                           *)
LEMMA ConfirmDelivered ==
  ASSUME IInv, ConfirmInv, NEW s \in Signals, DiscordAccepts(s)
  PROVE  ConfirmInv'
<1>1. /\ pc = "posting" /\ pc' = "posted" /\ AtHead(s) /\ AtHead(s)'
      /\ alerts' = [alerts EXCEPT ![s] = @ + 1]
      /\ UNCHANGED <<queue, verdict, faults>>
  BY DEF DiscordAccepts, AtHead
<1>2. \A u \in Signals : u # s => alerts'[u] = alerts[u]
  BY <1>1 DEF IInv, TypeOK
<1>3. QED
  BY <1>1, <1>2 DEF ConfirmInv

(* The entry at the head is confirmed; a rehearsal has shown nothing.      *)
LEMMA ConfirmRecorded ==
  ASSUME IInv, ConfirmInv, NEW s \in Signals, RecordSent(s)
  PROVE  ConfirmInv'
<1> DEFINE d == IF dry THEN "DRY_RUN" ELSE "SENT"
<1>1. /\ pc = (IF dry THEN "posting" ELSE "posted") /\ AtHead(s)
      /\ verdict' = [verdict EXCEPT ![s] = d] /\ UNCHANGED <<alerts, faults>>
  BY DEF RecordSent
<1>2. \A u \in Signals : verdict'[u] = IF u = s THEN d ELSE verdict[u]
  BY <1>1 DEF IInv, TypeOK
<1>3. SUFFICES ASSUME faults = 0, NEW u \in Signals, alerts[u] > 0
               PROVE  verdict'[u] = "SENT"
  BY <1>1 DEF ConfirmInv
<1>4. CASE u # s
  <2>1. ~AtHead(u)
    BY <1>1, <1>4, OneHead
  <2>2. verdict[u] = "SENT"
    BY <1>3, <2>1 DEF ConfirmInv
  <2>3. QED
    BY <1>2, <1>4, <2>2
<1>5. CASE u = s
  <2>1. dry => alerts[s] = 0
    BY <1>1 DEF IInv, PostingInv
  <2>2. ~dry
    BY <1>3, <1>5, <2>1
  <2>3. QED
    BY <1>2, <1>5, <2>2
<1>6. QED
  BY <1>4, <1>5

(* Every step keeps the invariant.                                         *)
LEMMA ConfirmStep == IInv /\ ConfirmInv /\ [Next]_vars => ConfirmInv'
<1> SUFFICES ASSUME IInv, ConfirmInv, [Next]_vars PROVE ConfirmInv'
  OBVIOUS
<1>0. TypeOK
  BY DEF IInv
<1>1. CASE Tick \/ UNCHANGED vars
  BY <1>1 DEF Tick, vars, ConfirmInv, AtHead
<1>2. CASE Wake
  BY <1>2, ConfirmKept DEF Wake
<1>3. ASSUME NEW R \in SUBSET Instruments, BeginScan(R) PROVE ConfirmInv'
  <2>1. CASE Fault
    BY <1>0, <2>1, ConfirmSpent
  <2>2. CASE UNCHANGED faults
    BY <1>3, <2>2, ConfirmKept DEF BeginScan
  <2>3. QED
    BY <1>3, <2>1, <2>2 DEF BeginScan
<1>4. ASSUME NEW i \in Instruments, LoadInstrument(i) \/ LoadFails(i)
      PROVE  ConfirmInv'
  BY <1>4, ConfirmKept DEF LoadInstrument, LoadFails
<1>5. ASSUME NEW s \in Signals, Handle(s) PROVE ConfirmInv'
  <2>1. CASE SkipKnown(s)
    BY <2>1, ConfirmKept DEF SkipKnown
  <2>2. CASE Reject(s)
    BY <2>2, ConfirmDecided DEF Reject
  <2>3. CASE Filter(s)
    BY <2>3, ConfirmDecided DEF Filter
  <2>4. CASE Claim(s)
    BY <2>4, ConfirmDecided DEF Claim
  <2>5. QED
    BY <1>5, <2>1, <2>2, <2>3, <2>4, ConfirmDelivered, ConfirmRecorded DEF Handle
<1>6. ASSUME NEW s \in Signals, DeliveryFails(s) PROVE ConfirmInv'
  BY <1>0, <1>6, ConfirmSpent DEF DeliveryFails
<1>7. CASE NextInstrument \/ EndScan
  BY <1>7, ConfirmKept DEF NextInstrument, EndScan
<1>8. CASE Crash
  BY <1>0, <1>8, ConfirmSpent DEF Crash
<1>9. QED
  BY <1>1, <1>2, <1>3, <1>4, <1>5, <1>6, <1>7, <1>8 DEF Next, ScanStep

(* An open trade that Discord shows has its market to itself: on file when *)
(* it is confirmed, by the claim that found the market free when not yet.  *)
LEMMA ConfirmedExclude == IInv /\ ConfirmInv => FaultlessTradesExclude
<1> SUFFICES ASSUME IInv, ConfirmInv, faults = 0, NEW s \in Signals, NEW t \in Signals,
                    InstrumentOf[s] = InstrumentOf[t],
                    alerts[s] > 0, now < resolvedAt[s],
                    alerts[t] > 0, now < resolvedAt[t]
             PROVE  s = t
  BY DEF FaultlessTradesExclude, OneOpenAlertPerMarket
<1>1. ASSUME NEW u \in Signals, verdict[u] = "SENT", now < resolvedAt[u]
      PROVE  disk.positions[InstrumentOf[u]] = u
  BY <1>1 DEF IInv, DiskInv, Holds
<1>2. ASSUME NEW u \in Signals, pc = "posted", AtHead(u)
      PROVE  disk.positions[InstrumentOf[u]] = NoSignal
  BY <1>2 DEF IInv, PostingInv, Free
<1>3. CASE verdict[s] = "SENT" /\ verdict[t] = "SENT"
  BY <1>1, <1>3
<1>4. CASE pc = "posted" /\ AtHead(s) /\ AtHead(t)
  BY <1>4, OneHead
<1>5. ASSUME NEW u \in Signals, NEW v \in Signals, InstrumentOf[u] = InstrumentOf[v],
             verdict[u] = "SENT", now < resolvedAt[u], pc = "posted", AtHead(v)
      PROVE  FALSE
  BY <1>1, <1>2, <1>5, SetsAssumption
<1>6. QED
  BY <1>3, <1>4, <1>5 DEF ConfirmInv

(* As long as nothing has failed, Discord never shows two open trades of   *)
(* one market, however many scans and rehearsals share the state file.     *)
THEOREM FaultlessTradesApart == Spec => []FaultlessTradesExclude
<1>1. Init => ConfirmInv
  BY DEF Init, ConfirmInv
<1>2. QED
  BY <1>1, ConfirmStep, ConfirmedExclude, Invariant, PTL DEF Spec

(***************************************************************************)
(* The audit list: a rejection missing from it was pushed out by others    *)
(* that are no older.                                                      *)
(***************************************************************************)

SameDecision(old, new, s) ==
    /\ new.handled[s].status = old.handled[s].status
    /\ new.handled[s].at = old.handled[s].at

(* A step that appends nothing keeps the list accounted for, as long as it *)
(* changes no record of a listed signal but to forget it, and adds no      *)
(* rejection.                                                              *)
LEMMA AuditKept ==
  ASSUME NEW old \in ScannerState, NEW new \in ScannerState, NEW v, NEW w,
         NEW t \in Nat, NEW u \in Nat, t <= u, AuditSound(old, v, t),
         new.rejections = old.rejections,
         \A s \in Signals : v[s] \in RejectionStatuses =>
             /\ w[s] = v[s]
             /\ SameDecision(old, new, s) \/ new.handled[s] = Absent,
         \A s \in Signals : v[s] \notin RejectionStatuses =>
             \/ SameDecision(old, new, s) \/ new.handled[s] = Absent
             \/ /\ new.handled[s].status \notin RejectionStatuses
                /\ new.handled[s].at <= u,
         HeldByTrades(new, w)
  PROVE  AuditSound(new, w, u)
<1> DEFINE log == old.rejections
<1>1. \A k \in DOMAIN log : log[k] \in Signals /\ v[log[k]] \in RejectionStatuses
  BY DEF AuditSound, ListsRejections, ScannerState
<1>2. /\ Absent.status = "ABSENT" /\ Absent.at <= u
      /\ "ABSENT" \notin RejectionStatuses
  BY DEF Absent, NoTime, RejectionStatuses
<1>3. \A s \in Signals : v[s] \in RejectionStatuses /\ Known(new, s)
                            => Known(old, s) /\ new.handled[s].at = old.handled[s].at
  BY <1>2 DEF Known, SameDecision
<1>4. Len(new.rejections) <= RejectionLimit /\ ListsRejections(new, w)
  BY <1>1 DEF AuditSound, ListsRejections
<1>5. InOrder(new)
  BY <1>1, <1>3 DEF AuditSound, InOrder
<1>6. StampedBy(new, u)
  <2>1. SUFFICES ASSUME NEW s \in Signals PROVE new.handled[s].at <= u
    BY DEF StampedBy
  <2>2. old.handled[s].at <= t /\ old.handled[s].at \in Int
    BY DEF AuditSound, StampedBy, ScannerState, Records, NoTime
  <2>3. old.handled[s].at <= u
    BY <2>2
  <2>4. QED
    BY <1>2, <2>3 DEF SameDecision
<1>7. Accounted(new)
  <2>1. SUFFICES ASSUME NEW s \in Signals, new.handled[s].status \in RejectionStatuses
                 PROVE  Listed(new, s) \/ PushedOut(new, s)
    BY DEF Accounted
  <2>2. SameDecision(old, new, s)
    BY <1>2, <2>1
  <2>3. Listed(old, s) \/ PushedOut(old, s)
    BY <2>1, <2>2 DEF AuditSound, Accounted, SameDecision
  <2>4. CASE Listed(old, s)
    BY <2>4 DEF Listed
  <2>5. CASE PushedOut(old, s)
    BY <1>1, <1>3, <2>2, <2>5 DEF PushedOut, SameDecision
  <2>6. QED
    BY <2>3, <2>4, <2>5
<1>8. QED
  BY <1>4, <1>5, <1>6, <1>7 DEF AuditSound

(* Time alone disturbs nothing.                                            *)
LEMMA AuditLater ==
  ASSUME NEW state \in ScannerState, NEW v, NEW t \in Nat, NEW u \in Nat, t <= u,
         AuditSound(state, v, t)
  PROVE  AuditSound(state, v, u)
  BY AuditKept DEF SameDecision, AuditSound

(* Neither does loading the state.                                         *)
LEMMA AuditPruned ==
  ASSUME NEW state \in ScannerState, NEW v, NEW t \in Nat, AuditSound(state, v, t)
  PROVE  AuditSound(Pruned(state, t), v, t)
<1> DEFINE new == Pruned(state, t)
<1>1. new \in ScannerState /\ new.positions = state.positions
  BY PrunedType
<1>2. new.rejections = state.rejections
  BY DEF Pruned, ScannerState
<1>3. \A s \in Signals : SameDecision(state, new, s) \/ new.handled[s] = Absent
  BY PrunedRecord DEF SameDecision
<1>4. HeldByTrades(new, v)
  BY <1>1 DEF AuditSound, HeldByTrades
<1> HIDE DEF new
<1>5. AuditSound(new, v, t)
  BY <1>1, <1>2, <1>3, <1>4, AuditKept
<1>6. QED
  BY <1>5 DEF new

(* Closing a trade changes the decision about it only when its record is   *)
(* gone, and then the trade is a position, so it is not on the list.       *)
LEMMA AuditSettled ==
  ASSUME NEW state \in ScannerState, NEW v, NEW t \in Nat, AuditSound(state, v, t),
         NEW i \in Instruments, NEW again \in BOOLEAN
  PROVE  AuditSound(Settled(state, i, again), v, t)
<1> DEFINE new == Settled(state, i, again)
<1>1. /\ new \in ScannerState
      /\ \A j \in Instruments : new.positions[j] \in {state.positions[j], NoSignal}
  BY SettledType
<1>2. new.rejections = state.rejections
  BY DEF Settled, ScannerState
<1>3. ASSUME NEW s \in Signals
      PROVE  \/ SameDecision(state, new, s)
             \/ /\ v[s] \notin RejectionStatuses
                /\ new.handled[s].status \notin RejectionStatuses
                /\ new.handled[s].at <= t
  <2>1. new.handled[s] = IF s \in EndedTrades(state, i, again) THEN Closed(state, s)
                         ELSE state.handled[s]
    BY SettledRecord
  <2>2. CASE s \notin EndedTrades(state, i, again)
    BY <2>1, <2>2 DEF SameDecision
  <2>3. CASE s \in EndedTrades(state, i, again) /\ Known(state, s)
    BY <2>1, <2>3 DEF SameDecision, Closed, ScannerState, Records
  <2>4. CASE s \in EndedTrades(state, i, again) /\ ~Known(state, s)
    <3>1. s = state.positions[i]
      BY <2>4 DEF EndedTrades, Known
    <3>2. v[s] \in {"SENT", "DRY_RUN"}
      BY <3>1, SetsAssumption DEF AuditSound, HeldByTrades
    <3>3. new.handled[s].status = "UNTRACKED" /\ new.handled[s].at = NoTime
      BY <2>1, <2>4 DEF Closed
    <3>4. QED
      BY <3>2, <3>3 DEF RejectionStatuses, NoTime
  <2>5. QED
    BY <2>2, <2>3, <2>4
<1>4. HeldByTrades(new, v)
  BY <1>1 DEF AuditSound, HeldByTrades
<1> HIDE DEF new
<1>5. AuditSound(new, v, t)
  BY <1>1, <1>2, <1>3, <1>4, AuditKept
<1>6. QED
  BY <1>5 DEF new

(* The new list ends with s. Below its limit it keeps all it had; at its   *)
(* limit everything moves up by one.                                       *)
LEMMA AuditedLog ==
  ASSUME NEW state \in ScannerState, NEW s \in Signals,
         Len(state.rejections) <= RejectionLimit
  PROVE  LET old == state.rejections
             new == Audited(state, s).rejections
             gone == IF Len(old) < RejectionLimit THEN 0 ELSE 1
         IN  /\ Len(new) = Len(old) + 1 - gone
             /\ Len(new) \in Nat /\ Len(new) >= 1
             /\ DOMAIN new = 1..Len(new)
             /\ \A k \in 1..Len(new) :
                   new[k] = IF k = Len(new) THEN s ELSE old[k + gone]
<1> DEFINE old == state.rejections
           log == Append(old, s)
           gone == IF Len(old) < RejectionLimit THEN 0 ELSE 1
           first == IF Len(log) > RejectionLimit
                    THEN Len(log) - RejectionLimit + 1 ELSE 1
           new == SubSeq(log, first, Len(log))
<1>1. old \in Seq(Signals) /\ Len(old) \in Nat
  BY LenProperties DEF ScannerState
<1>2. /\ log \in Seq(Signals) /\ Len(log) = Len(old) + 1
      /\ \A k \in 1..Len(old) : log[k] = old[k]
      /\ log[Len(old) + 1] = s
  BY <1>1, AppendProperties
<1>3. Audited(state, s).rejections = new
  BY DEF Audited, ScannerState
<1>4. first = 1 + gone
  BY <1>1, <1>2, BoundsAssumption
<1>5. first \in 1..(Len(log) + 1)
  BY <1>1, <1>2, <1>4
<1>6. /\ Len(new) = Len(old) + 1 - gone
      /\ new \in Seq(Signals)
      /\ \A k \in 1..Len(new) : new[k] = log[k + gone]
  BY <1>1, <1>2, <1>4, <1>5, SubSeqProperties
<1>7. Len(new) \in Nat /\ Len(new) >= 1
  BY <1>1, <1>6, BoundsAssumption
<1>8. DOMAIN new = 1..Len(new)
  BY <1>6, LenProperties
<1> HIDE DEF new
<1>9. ASSUME NEW k \in 1..Len(new)
      PROVE  new[k] = IF k = Len(new) THEN s ELSE old[k + gone]
  <2>1. CASE k = Len(new)
    <3>1. k + gone = Len(old) + 1
      BY <1>1, <1>6, <2>1
    <3>2. QED
      BY <1>2, <1>6, <2>1, <3>1
  <2>2. CASE k # Len(new)
    <3>1. k + gone \in 1..Len(old)
      BY <1>1, <1>6, <1>7, <2>2
    <3>2. QED
      BY <1>2, <1>6, <2>2, <3>1
  <2>3. QED
    BY <2>1, <2>2
<1>10. QED
  BY <1>3, <1>6, <1>7, <1>8, <1>9

(* A new rejection is the youngest on the list. What it pushes out was the *)
(* oldest, so those that stay are no older.                                *)
LEMMA AuditDecided ==
  ASSUME NEW state \in ScannerState, NEW v, NEW t \in Nat, AuditSound(state, v, t),
         NEW s \in Signals, v[s] = "NONE", NEW d \in RejectionStatuses,
         NEW w, w[s] = d, \A u \in Signals : u # s => w[u] = v[u]
  PROVE  AuditSound(Marked(Audited(state, s), s, Record(d, t)), w, t)
<1> DEFINE new == Marked(Audited(state, s), s, Record(d, t))
           old == state.rejections
           log == new.rejections
           gone == IF Len(old) < RejectionLimit THEN 0 ELSE 1
<1>1. /\ Audited(state, s) \in ScannerState
      /\ Audited(state, s).handled = state.handled
      /\ Audited(state, s).positions = state.positions
  BY AuditedType
<1>2. log = Audited(state, s).rejections
  BY <1>1 DEF Marked, ScannerState
<1>3. /\ new.positions = state.positions
      /\ \A u \in Signals :
           new.handled[u] = IF u = s THEN Record(d, t) ELSE state.handled[u]
  BY <1>1, MarkedRecord
<1>4. /\ Record(d, t).at = t /\ Record(d, t).status = d
      /\ d # "ABSENT" /\ v[s] \notin RejectionStatuses
      /\ v[s] \notin {"SENT", "DRY_RUN"}
  BY DEF Record, RejectionStatuses
<1>5. /\ Len(old) \in Nat /\ Len(old) <= RejectionLimit /\ DOMAIN old = 1..Len(old)
      /\ \A k \in 1..Len(old) :
           old[k] \in Signals /\ old[k] # s /\ w[old[k]] \in RejectionStatuses
  BY <1>4, LenProperties DEF AuditSound, ListsRejections, ScannerState
<1>6. /\ Len(log) = Len(old) + 1 - gone /\ Len(log) \in Nat /\ Len(log) >= 1
      /\ DOMAIN log = 1..Len(log)
      /\ \A k \in 1..Len(log) : log[k] = IF k = Len(log) THEN s ELSE old[k + gone]
  <2> DEFINE extended == Audited(state, s).rejections
  <2>1. /\ Len(extended) = Len(old) + 1 - gone
        /\ Len(extended) \in Nat /\ Len(extended) >= 1
        /\ DOMAIN extended = 1..Len(extended)
        /\ \A k \in 1..Len(extended) :
              extended[k] = IF k = Len(extended) THEN s ELSE old[k + gone]
    BY <1>5, AuditedLog
  <2> HIDE DEF new, log, extended
  <2>2. log = extended
    BY <1>2 DEF extended
  <2>3. QED
    BY <2>1, <2>2
<1>7. \A k \in 1..Len(log) : k # Len(log) => k + gone \in 1..Len(old)
  BY <1>5, <1>6
<1>8. \A u \in Signals : state.handled[u].at <= t /\ state.handled[u].at \in Int
  BY DEF AuditSound, StampedBy, ScannerState, Records, NoTime
<1>9. \A u \in Signals : u # s => (Known(new, u) <=> Known(state, u))
  BY <1>3 DEF Known
<1> HIDE DEF new, log, old
<1>10. Len(log) <= RejectionLimit
  BY <1>5, <1>6, BoundsAssumption
<1>11. ListsRejections(new, w)
  BY <1>5, <1>6, <1>7 DEF ListsRejections, log
<1>12. ASSUME NEW j \in 1..Len(log), NEW k \in 1..Len(log), j <= k,
              Known(new, log[j]), Known(new, log[k])
       PROVE  new.handled[log[j]].at <= new.handled[log[k]].at
  <2>1. CASE k = Len(log)
    <3>1. new.handled[log[k]].at = t
      BY <1>3, <1>4, <1>6, <2>1
    <3>2. log[j] \in Signals
      BY <1>5, <1>6, <1>7
    <3>3. new.handled[log[j]].at <= t
      BY <1>3, <1>4, <1>8, <3>2
    <3>4. QED
      BY <3>1, <3>3
  <2>2. CASE k # Len(log)
    <3>1. j # Len(log)
      BY <1>6, <1>12, <2>2
    <3>2. /\ j + gone \in 1..Len(old) /\ k + gone \in 1..Len(old)
          /\ j + gone <= k + gone
          /\ log[j] = old[j + gone] /\ log[k] = old[k + gone]
      BY <1>6, <1>7, <1>12, <2>2, <3>1
    <3>3. /\ log[j] \in Signals /\ log[k] \in Signals
          /\ log[j] # s /\ log[k] # s
      BY <1>5, <3>2
    <3>4. Known(state, log[j]) /\ Known(state, log[k])
      BY <1>9, <1>12, <3>3
    <3>5. state.handled[log[j]].at <= state.handled[log[k]].at
      BY <1>5, <3>2, <3>4 DEF AuditSound, InOrder, old
    <3>6. QED
      BY <1>3, <3>3, <3>5
  <2>3. QED
    BY <2>1, <2>2
<1>13. InOrder(new)
  BY <1>6, <1>12 DEF InOrder, log
<1>14. StampedBy(new, t)
  BY <1>3, <1>4, <1>8 DEF StampedBy
<1>15. ASSUME NEW u \in Signals, u # s, PushedOut(state, u) \/ Listed(state, u),
              Known(state, u)
       PROVE  Listed(new, u) \/ PushedOut(new, u)
  <2>1. new.handled[u].at = state.handled[u].at /\ state.handled[u].at <= t
    BY <1>3, <1>8, <1>15
  <2>2. ASSUME Len(log) = RejectionLimit, gone = 1,
               \A k \in 1..Len(old) :
                  Known(state, old[k]) => state.handled[u].at <= state.handled[old[k]].at
        PROVE  PushedOut(new, u)
    <3>1. SUFFICES ASSUME NEW k \in 1..Len(log), Known(new, log[k])
                   PROVE  new.handled[u].at <= new.handled[log[k]].at
      BY <1>6, <2>2 DEF PushedOut, log
    <3>2. CASE k = Len(log)
      BY <1>3, <1>4, <1>6, <2>1, <3>2
    <3>3. CASE k # Len(log)
      <4>1. log[k] = old[k + 1] /\ k + 1 \in 1..Len(old)
        BY <1>6, <1>7, <2>2, <3>3
      <4>2. log[k] \in Signals /\ log[k] # s
        BY <1>5, <4>1
      <4>3. Known(state, log[k])
        BY <1>9, <3>1, <4>2
      <4>4. QED
        BY <1>3, <2>1, <2>2, <4>1, <4>2, <4>3
    <3>4. QED
      BY <3>2, <3>3
  <2>3. CASE PushedOut(state, u)
    <3>1. Len(old) = RejectionLimit
      BY <2>3 DEF PushedOut, old
    <3>2. gone = 1 /\ Len(log) = RejectionLimit
      BY <1>5, <1>6, <3>1, BoundsAssumption
    <3>3. \A k \in 1..Len(old) :
             Known(state, old[k]) => state.handled[u].at <= state.handled[old[k]].at
      BY <1>5, <2>3 DEF PushedOut, old
    <3>4. QED
      BY <2>2, <3>2, <3>3
  <2>4. CASE Listed(state, u)
    <3>1. PICK k \in 1..Len(old) : old[k] = u
      BY <1>5, <2>4 DEF Listed, old
    <3>2. CASE k - gone >= 1
      <4>1. k - gone \in 1..Len(log) /\ k - gone # Len(log) /\ (k - gone) + gone = k
        BY <1>5, <1>6, <3>2
      <4>2. log[k - gone] = u
        BY <1>6, <3>1, <4>1
      <4>3. QED
        BY <1>6, <4>1, <4>2 DEF Listed, log
    <3>3. CASE ~(k - gone >= 1)
      <4>1. k = 1 /\ gone = 1
        BY <1>5, <3>3
      <4>2. Len(log) = RejectionLimit
        BY <1>5, <1>6, <4>1, BoundsAssumption
      <4>3. \A m \in 1..Len(old) :
               Known(state, old[m]) => state.handled[u].at <= state.handled[old[m]].at
        BY <1>5, <1>15, <3>1, <4>1 DEF AuditSound, InOrder, old
      <4>4. QED
        BY <2>2, <4>1, <4>2, <4>3
    <3>4. QED
      BY <3>2, <3>3
  <2>5. QED
    BY <1>15, <2>3, <2>4
<1>16. Accounted(new)
  <2>1. SUFFICES ASSUME NEW u \in Signals, new.handled[u].status \in RejectionStatuses
                 PROVE  Listed(new, u) \/ PushedOut(new, u)
    BY DEF Accounted
  <2>2. CASE u = s
    BY <1>6, <2>2 DEF Listed, log
  <2>3. CASE u # s
    <3>1. state.handled[u].status \in RejectionStatuses
      BY <1>3, <2>1, <2>3
    <3>2. Known(state, u)
      BY <3>1 DEF Known, RejectionStatuses
    <3>3. Listed(state, u) \/ PushedOut(state, u)
      BY <3>1 DEF AuditSound, Accounted
    <3>4. QED
      BY <1>15, <2>3, <3>2, <3>3
  <2>4. QED
    BY <2>2, <2>3
<1>17. HeldByTrades(new, w)
  <2>1. \A i \in Instruments : state.positions[i] \in Signals \cup {NoSignal}
    BY DEF ScannerState
  <2>2. QED
    BY <1>3, <1>4, <2>1 DEF AuditSound, HeldByTrades
<1>18. AuditSound(new, w, t)
  BY <1>10, <1>11, <1>13, <1>14, <1>16, <1>17 DEF AuditSound, log
<1>19. QED
  BY <1>18 DEF new

(* The time at which the state file is current.                            *)
FileTime == IF pc = "idle" THEN now ELSE asOf

(* A scan that stops leaves an accounted state file behind.                *)
LEMMA AuditStopped ==
  ASSUME IInv, Stop, now' = now, AuditSound(disk', verdict', asOf), TypeOK'
  PROVE  AuditInv'
<1>1. asOf \in Nat /\ now \in Nat /\ asOf <= now /\ disk' \in ScannerState
  BY Types DEF IInv, ClockInv, TypeOK
<1>2. AuditSound(disk', verdict', now)
  BY <1>1, AuditLater
<1>3. FileTime' = now /\ ~InScan'
  BY DEF Stop, FileTime, InScan
<1>4. QED
  BY <1>2, <1>3 DEF AuditInv, AuditSound, ListsRejections, InOrder, StampedBy,
                    Accounted, HeldByTrades, Listed, PushedOut, Known, FileTime

(* A scan that saves what it has leaves it in both copies.                 *)
LEMMA AuditSaved ==
  ASSUME disk' = mem', InScan', AuditSound(mem', verdict', asOf'), pc' # "idle"
  PROVE  AuditInv'
  BY DEF AuditInv, AuditSound, ListsRejections, InOrder, StampedBy, Accounted,
         HeldByTrades, Listed, PushedOut, Known

(* The network call is about a signal that is not on the list.             *)
LEMMA AuditRecorded ==
  ASSUME IInv, AuditInv, NEW s \in Signals, pc \in {"posting", "posted"}, AtHead(s),
         NEW d \in {"SENT", "DRY_RUN", "DELIVERY_FAILED"},
         NEW new \in ScannerState, new.rejections = mem.rejections,
         \A u \in Signals :
            /\ new.handled[u].status = IF u = s THEN d ELSE mem.handled[u].status
            /\ new.handled[u].at = mem.handled[u].at,
         \A i \in Instruments : new.positions[i] # mem.positions[i] =>
            new.positions[i] = s /\ d \in {"SENT", "DRY_RUN"},
         NEW w, w = [verdict EXCEPT ![s] = d]
  PROVE  AuditSound(new, w, asOf)
<1>1. /\ mem \in ScannerState /\ asOf \in Nat
      /\ \A u \in Signals : w[u] = IF u = s THEN d ELSE verdict[u]
  BY Types DEF IInv, TypeOK
<1>2. AuditSound(mem, verdict, asOf)
  BY DEF AuditInv, InScan
<1>3. verdict[s] = "PUBLISHING"
  BY DEF IInv, PostingInv
<1>4. /\ verdict[s] \notin RejectionStatuses /\ d \notin RejectionStatuses
      /\ verdict[s] \notin {"SENT", "DRY_RUN"}
  BY <1>3 DEF RejectionStatuses
<1>5. new.handled[s].at <= asOf
  BY <1>2 DEF AuditSound, StampedBy
<1>6. HeldByTrades(new, w)
  <2>1. SUFFICES ASSUME NEW i \in Instruments, new.positions[i] # NoSignal
                 PROVE  w[new.positions[i]] \in {"SENT", "DRY_RUN"}
    BY DEF HeldByTrades
  <2>2. CASE new.positions[i] = mem.positions[i]
    <3>1. verdict[mem.positions[i]] \in {"SENT", "DRY_RUN"}
      BY <1>2, <2>1, <2>2 DEF AuditSound, HeldByTrades
    <3>2. mem.positions[i] \in Signals
      BY <1>1, <2>1, <2>2 DEF ScannerState
    <3>3. QED
      BY <1>1, <1>4, <2>2, <3>1, <3>2
  <2>3. CASE new.positions[i] # mem.positions[i]
    BY <1>1, <2>3
  <2>4. QED
    BY <2>2, <2>3
<1>7. \A u \in Signals : u # s => SameDecision(mem, new, u) /\ w[u] = verdict[u]
  BY <1>1 DEF SameDecision
<1>8. \A u \in Signals : verdict[u] \in RejectionStatuses =>
         /\ w[u] = verdict[u]
         /\ SameDecision(mem, new, u) \/ new.handled[u] = Absent
  BY <1>4, <1>7
<1>9. \A u \in Signals : verdict[u] \notin RejectionStatuses =>
         \/ SameDecision(mem, new, u) \/ new.handled[u] = Absent
         \/ /\ new.handled[u].status \notin RejectionStatuses
            /\ new.handled[u].at <= asOf
  BY <1>4, <1>5, <1>7
<1>10. asOf <= asOf
  BY <1>1
<1>11. QED
  BY <1>1, <1>2, <1>6, <1>8, <1>9, <1>10, AuditKept

(* What the loop does with one entry.                                      *)
LEMMA AuditHandled ==
  ASSUME IInv, AuditInv, TypeOK', NEW s \in Signals, Handle(s)
  PROVE  AuditInv'
<1>0. /\ TypeOK /\ mem \in ScannerState /\ asOf \in Nat
      /\ mem' \in ScannerState
  BY Types DEF IInv, TypeOK
<1>1. CASE SkipKnown(s) \/ DiscordAccepts(s)
  <2>1. UNCHANGED <<disk, mem, asOf, verdict>> /\ pc # "idle" /\ pc' # "idle" /\ InScan
    BY <1>1 DEF SkipKnown, DiscordAccepts, scan, InScan
  <2>2. QED
    BY <2>1 DEF AuditInv, AuditSound, ListsRejections, InOrder, StampedBy, Accounted,
                HeldByTrades, Listed, PushedOut, Known
<1>2. ASSUME NEW d \in RejectionStatuses, pc = "signals", pc' = pc, asOf' = asOf,
             AtHead(s), ~Known(mem, s),
             mem' = Marked(Audited(mem, s), s, Record(d, asOf)), disk' = mem',
             verdict' = [verdict EXCEPT ![s] = d]
      PROVE  AuditInv'
  <2>1. verdict[s] = "NONE"
    BY <1>2, UnknownIsUndecided DEF InScan, AtHead
  <2>2. verdict'[s] = d /\ \A u \in Signals : u # s => verdict'[u] = verdict[u]
    BY <1>0, <1>2 DEF TypeOK
  <2>3. AuditSound(mem, verdict, asOf)
    BY <1>2 DEF AuditInv, InScan
  <2>4. AuditSound(mem', verdict', asOf)
    BY <1>0, <1>2, <2>1, <2>2, <2>3, AuditDecided
  <2>5. QED
    BY <1>2, <2>4, AuditSaved DEF InScan
<1>3. CASE Reject(s)
  BY <1>2, <1>3 DEF Reject, Save, scan, RejectionStatuses
<1>4. CASE Filter(s)
  BY <1>2, <1>4 DEF Filter, Save, scan, RejectionStatuses
<1>5. CASE Claim(s)
  <2>1. /\ pc = "signals" /\ pc' = "posting" /\ asOf' = asOf
        /\ s \in queue /\ ~Known(mem, s)
        /\ mem' = Marked(mem, s, Record("PUBLISHING", asOf)) /\ disk' = mem'
        /\ verdict' = [verdict EXCEPT ![s] = "PUBLISHING"]
    BY <1>5 DEF Claim, Save, scan, AtHead
  <2>2. InScan /\ InScan' /\ pc' # "idle"
    BY <2>1 DEF InScan
  <2>3. verdict[s] = "NONE"
    BY <2>1, <2>2, UnknownIsUndecided
  <2>4. \A u \in Signals : u # s => verdict'[u] = verdict[u]
    BY <1>0, <2>1 DEF TypeOK
  <2>5. /\ mem'.positions = mem.positions
        /\ \A u \in Signals : mem'.handled[u] =
              IF u = s THEN Record("PUBLISHING", asOf) ELSE mem.handled[u]
    BY <1>0, <2>1, MarkedRecord
  <2>6. mem'.rejections = mem.rejections
    BY <1>0, <2>1 DEF Marked, ScannerState
  <2>7. /\ mem'.handled[s].status \notin RejectionStatuses
        /\ mem'.handled[s].at <= asOf
        /\ verdict[s] \notin RejectionStatuses
    BY <1>0, <2>3, <2>5 DEF Record, RejectionStatuses
  <2>8. \A u \in Signals : u # s => SameDecision(mem, mem', u)
    BY <2>5 DEF SameDecision
  <2>9. AuditSound(mem, verdict, asOf)
    BY <2>2 DEF AuditInv
  <2>10. HeldByTrades(mem', verdict')
    <3>1. \A i \in Instruments : mem.positions[i] \in Signals \cup {NoSignal}
      BY <1>0 DEF ScannerState
    <3>2. verdict[s] \notin {"SENT", "DRY_RUN"}
      BY <2>3
    <3>3. QED
      BY <2>4, <2>5, <2>9, <3>1, <3>2 DEF AuditSound, HeldByTrades
  <2>11. AuditSound(mem', verdict', asOf)
    BY <1>0, <2>4, <2>6, <2>7, <2>8, <2>9, <2>10, AuditKept
  <2>12. QED
    BY <2>1, <2>2, <2>11, AuditSaved
<1>6. CASE RecordSent(s)
  <2> DEFINE d == IF dry THEN "DRY_RUN" ELSE "SENT"
  <2>1. /\ pc \in {"posting", "posted"} /\ pc' = "signals" /\ asOf' = asOf /\ AtHead(s)
        /\ mem' = Opened(mem, s, d) /\ disk' = mem'
        /\ verdict' = [verdict EXCEPT ![s] = d]
    BY <1>6 DEF RecordSent, Save, scan
  <2>2. d \in {"SENT", "DRY_RUN"} /\ d \in Statuses
    BY DEF Statuses
  <2>3. mem'.rejections = mem.rejections
    BY <1>0, <2>1 DEF Opened, ScannerState
  <2>4. /\ \A u \in Signals :
             /\ mem'.handled[u].status = IF u = s THEN d ELSE mem.handled[u].status
             /\ mem'.handled[u].at = mem.handled[u].at
        /\ \A i \in Instruments :
             mem'.positions[i] = IF i = InstrumentOf[s] THEN s ELSE mem.positions[i]
    BY <1>0, <2>1, <2>2, OpenedRecord
  <2> HIDE DEF d
  <2>5. AuditSound(mem', verdict', asOf)
    BY <1>0, <2>1, <2>2, <2>3, <2>4, AuditRecorded
  <2>6. QED
    BY <2>1, <2>5, AuditSaved DEF InScan
<1>7. QED
  BY <1>1, <1>3, <1>4, <1>5, <1>6 DEF Handle

(* Every step keeps both copies accounted for.                             *)
LEMMA AuditStep == IInv /\ AuditInv /\ [Next]_vars => AuditInv'
<1> SUFFICES ASSUME IInv, AuditInv, [Next]_vars PROVE AuditInv'
  OBVIOUS
<1>0. /\ TypeOK /\ TypeOK' /\ disk \in ScannerState /\ mem \in ScannerState
      /\ now \in Nat /\ asOf \in Nat /\ asOf <= now
  BY TypeStep, Types DEF IInv, ClockInv
<1>1. AuditSound(disk, verdict, FileTime) /\ (InScan => AuditSound(mem, verdict, asOf))
  BY DEF AuditInv, FileTime
<1>2. ASSUME UNCHANGED <<disk, verdict>>, FileTime' \in Nat, FileTime <= FileTime',
             InScan' => AuditSound(mem', verdict', asOf')
      PROVE  AuditInv'
  <2>1. FileTime \in Nat
    BY <1>0 DEF FileTime
  <2>2. AuditSound(disk, verdict, FileTime')
    BY <1>0, <1>1, <1>2, <2>1, AuditLater
  <2>3. AuditSound(disk', verdict', FileTime')
    BY <1>2, <2>2
  <2>4. QED
    BY <1>2, <2>3 DEF AuditInv, FileTime, AuditSound, ListsRejections, InOrder,
                      StampedBy, Accounted, HeldByTrades, Listed, PushedOut, Known
<1>3. CASE Tick
  <2>1. /\ UNCHANGED <<disk, mem, pc, asOf, verdict>> /\ now' = now + 1
    BY <1>3 DEF Tick
  <2>2. FileTime' \in Nat /\ FileTime <= FileTime'
    BY <1>0, <2>1 DEF FileTime
  <2>3. InScan' => AuditSound(mem', verdict', asOf')
    BY <1>1, <2>1 DEF InScan
  <2>4. QED
    BY <1>2, <2>1, <2>2, <2>3
<1>4. CASE Wake
  <2>1. UNCHANGED <<disk, verdict>> /\ pc = "idle" /\ pc' = "refresh" /\ asOf' = now
    BY <1>4 DEF Wake
  <2>2. FileTime' \in Nat /\ FileTime <= FileTime' /\ ~InScan'
    BY <1>0, <2>1 DEF FileTime, InScan
  <2>3. QED
    BY <1>2, <2>1, <2>2
<1>5. ASSUME NEW R \in SUBSET Instruments, BeginScan(R) PROVE AuditInv'
  <2>1. /\ UNCHANGED <<disk, verdict>> /\ pc = "refresh" /\ pc' = "scan"
        /\ asOf' \in {asOf, now} /\ mem' = Pruned(disk, asOf')
    BY <1>5 DEF BeginScan
  <2>2. asOf' \in Nat /\ asOf <= asOf'
    BY <1>0, <2>1
  <2>3. FileTime' \in Nat /\ FileTime <= FileTime' /\ FileTime = asOf
    BY <2>1, <2>2 DEF FileTime
  <2>4. AuditSound(disk, verdict, asOf')
    BY <1>0, <1>1, <2>2, <2>3, AuditLater
  <2>5. AuditSound(Pruned(disk, asOf'), verdict, asOf')
    BY <1>0, <2>2, <2>4, AuditPruned
  <2>6. QED
    BY <1>2, <2>1, <2>3, <2>5
<1>6. ASSUME NEW i \in Instruments, LoadInstrument(i) PROVE AuditInv'
  <2>1. /\ UNCHANGED <<disk, verdict, asOf>> /\ pc = "scan" /\ pc' = "signals"
        /\ \E again \in BOOLEAN : mem' = Settled(mem, i, again)
    BY <1>6 DEF LoadInstrument
  <2>2. FileTime' \in Nat /\ FileTime <= FileTime'
    BY <1>0, <2>1 DEF FileTime
  <2>3. AuditSound(mem', verdict', asOf')
    BY <1>0, <1>1, <2>1, AuditSettled DEF InScan
  <2>4. QED
    BY <1>2, <2>1, <2>2, <2>3
<1>7. ASSUME NEW i \in Instruments, LoadFails(i) PROVE AuditInv'
  <2>1. Stop /\ now' = now /\ UNCHANGED <<disk, verdict>> /\ pc = "scan"
    BY <1>7 DEF LoadFails, world
  <2>2. QED
    BY <1>0, <1>1, <2>1, AuditStopped DEF FileTime
<1>8. ASSUME NEW s \in Signals, Handle(s) PROVE AuditInv'
  BY <1>0, <1>8, AuditHandled
<1>9. ASSUME NEW s \in Signals, DeliveryFails(s) PROVE AuditInv'
  <2>1. /\ Stop /\ now' = now /\ pc \in {"posting", "posted"} /\ AtHead(s)
        /\ disk' = [mem EXCEPT !.handled[s].status = "DELIVERY_FAILED"]
        /\ verdict' = [verdict EXCEPT ![s] = "DELIVERY_FAILED"]
    BY <1>9 DEF DeliveryFails, world
  <2>2. disk' \in ScannerState /\ disk'.rejections = mem.rejections
    BY <1>0, <2>1 DEF TypeOK, ScannerState
  <2>3. /\ disk'.positions = mem.positions
        /\ \A u \in Signals :
             /\ disk'.handled[u].status =
                  IF u = s THEN "DELIVERY_FAILED" ELSE mem.handled[u].status
             /\ disk'.handled[u].at = mem.handled[u].at
    BY <1>0, <2>1, FailedRecord
  <2>4. AuditSound(disk', verdict', asOf)
    BY <2>1, <2>2, <2>3, AuditRecorded
  <2>5. QED
    BY <1>0, <2>1, <2>4, AuditStopped
<1>10. CASE NextInstrument
  <2>1. UNCHANGED <<disk, mem, asOf, verdict>> /\ pc = "signals" /\ pc' = "scan"
    BY <1>10 DEF NextInstrument, scan
  <2>2. FileTime' \in Nat /\ FileTime <= FileTime'
    BY <1>0, <2>1 DEF FileTime
  <2>3. AuditSound(mem', verdict', asOf')
    BY <1>1, <2>1 DEF InScan
  <2>4. QED
    BY <1>2, <2>1, <2>2, <2>3
<1>11. CASE EndScan
  <2>1. Stop /\ now' = now /\ disk' = mem /\ verdict' = verdict /\ InScan
    BY <1>11 DEF EndScan, world, InScan
  <2>2. AuditSound(disk', verdict', asOf)
    BY <1>1, <2>1
  <2>3. QED
    BY <1>0, <2>1, <2>2, AuditStopped
<1>12. CASE Crash
  <2>1. Stop /\ now' = now /\ UNCHANGED <<disk, verdict>> /\ pc # "idle"
    BY <1>12 DEF Crash, world
  <2>2. QED
    BY <1>0, <1>1, <2>1, AuditStopped DEF FileTime
<1>13. CASE UNCHANGED vars
  <2>1. UNCHANGED <<disk, mem, pc, asOf, now, verdict>>
    BY <1>13 DEF vars
  <2>2. FileTime' = FileTime /\ FileTime \in Nat
    BY <1>0, <2>1 DEF FileTime
  <2>3. InScan' => AuditSound(mem', verdict', asOf')
    BY <1>1, <2>1 DEF InScan
  <2>4. QED
    BY <1>2, <2>1, <2>2, <2>3
<1>14. QED
  BY <1>3, <1>4, <1>5, <1>6, <1>7, <1>8, <1>9, <1>10, <1>11, <1>12, <1>13
     DEF Next, ScanStep

(* The first state file is empty.                                          *)
LEMMA AuditInit == Init => AuditInv
<1> SUFFICES ASSUME Init PROVE AuditInv
  OBVIOUS
<1>1. /\ disk = EmptyState /\ pc = "idle" /\ now = 0 /\ ~InScan
  BY DEF Init, InScan
<1>2. /\ EmptyState.rejections = <<>> /\ Len(EmptyState.rejections) = 0
      /\ DOMAIN EmptyState.rejections = {}
      /\ \A s \in Signals : EmptyState.handled[s] = Absent
      /\ \A i \in Instruments : EmptyState.positions[i] = NoSignal
  BY DEF EmptyState
<1>3. /\ Absent.status \notin RejectionStatuses /\ Absent.at <= 0
  BY DEF Absent, RejectionStatuses, NoTime
<1>4. Len(EmptyState.rejections) <= RejectionLimit
  BY <1>2, BoundsAssumption
<1>5. QED
  BY <1>1, <1>2, <1>3, <1>4 DEF AuditInv, AuditSound, ListsRejections, InOrder,
     StampedBy, Accounted, HeldByTrades

(* A rejection that is missing from the audit list of the state file was   *)
(* pushed out by as many as the list holds, none of them older.            *)
THEOREM RejectionsStayAudited == Spec => []RejectionsAudited
<1>1. AuditInv => RejectionsAudited
  BY DEF AuditInv, AuditSound, Accounted, Listed, PushedOut, RejectionsAudited,
         RejectionStatuses
<1>2. QED
  BY <1>1, AuditInit, AuditStep, Invariant, PTL DEF Spec

(***************************************************************************)
(* A market on file changes hands only through its release, and is         *)
(* released only when the price has ended its trade.                       *)
(***************************************************************************)

(* What the running scan has released, the market has ended.               *)
ReleaseInv ==
    InScan => \A i \in FreedByScan : resolvedAt[disk.positions[i]] <= now

Released(s) == s # NoSignal => resolvedAt[s] <= now

(* No save takes a market from a trade that is still open, a rehearsed one *)
(* included, and none hands it from one trade to the next: what a scan     *)
(* stops with may release it, and a later save may take it.                *)
MarketsAreReleased ==
    [][\A i \in Instruments :
          disk'.positions[i] # disk.positions[i] =>
              /\ Released(disk.positions[i])
              /\ disk'.positions[i] = NoSignal \/ disk.positions[i] = NoSignal]_vars

(* How a step changes the positions on file.                               *)
LEMMA PositionsSaved ==
  ASSUME IInv, [Next]_vars
  PROVE  \/ disk'.positions = disk.positions
         \/ InScan /\ disk'.positions = mem.positions
         \/ /\ disk'.positions = mem'.positions /\ mem.positions = disk.positions
            /\ \E s \in Signals :
                  /\ Free(s)
                  /\ \A i \in Instruments : disk'.positions[i] =
                        IF i = InstrumentOf[s] THEN s ELSE disk.positions[i]
<1>0. TypeOK /\ mem \in ScannerState /\ disk \in ScannerState
  BY Types DEF IInv
<1>1. CASE Tick \/ Wake \/ NextInstrument \/ Crash \/ UNCHANGED vars
  BY <1>1 DEF Tick, Wake, NextInstrument, Crash, vars
<1>2. ASSUME NEW R \in SUBSET Instruments, BeginScan(R) PROVE disk' = disk
  BY <1>2 DEF BeginScan
<1>3. ASSUME NEW i \in Instruments, LoadInstrument(i) \/ LoadFails(i) PROVE disk' = disk
  BY <1>3 DEF LoadInstrument, LoadFails
<1>4. ASSUME NEW s \in Signals, SkipKnown(s) \/ DiscordAccepts(s) PROVE disk' = disk
  BY <1>4 DEF SkipKnown, DiscordAccepts
<1>5. ASSUME NEW s \in Signals, Reject(s) \/ Filter(s) \/ Claim(s)
      PROVE  InScan /\ disk'.positions = mem.positions
  <2>1. InScan
    BY <1>5 DEF Reject, Filter, Claim, InScan
  <2>2. \A record : /\ Marked(mem, s, record).positions = mem.positions
                    /\ Marked(Audited(mem, s), s, record).positions = mem.positions
    BY <1>0, AuditedType, MarkedRecord
  <2>3. QED
    BY <1>5, <2>1, <2>2 DEF Reject, Filter, Claim, Save
<1>6. ASSUME NEW s \in Signals, RecordSent(s)
      PROVE  /\ disk'.positions = mem'.positions /\ mem.positions = disk.positions
             /\ Free(s)
             /\ \A i \in Instruments : disk'.positions[i] =
                   IF i = InstrumentOf[s] THEN s ELSE disk.positions[i]
  <2> DEFINE d == IF dry THEN "DRY_RUN" ELSE "SENT"
  <2>1. /\ pc \in {"posting", "posted"} /\ AtHead(s)
        /\ mem' = Opened(mem, s, d) /\ disk' = mem'
    BY <1>6 DEF RecordSent, Save
  <2>2. Free(s) /\ mem.positions = disk.positions
    BY <2>1 DEF IInv, PostingInv
  <2>3. d \in Statuses
    BY DEF Statuses
  <2>4. QED
    BY <1>0, <2>1, <2>2, <2>3, OpenedRecord
<1>7. ASSUME NEW s \in Signals, DeliveryFails(s)
      PROVE  InScan /\ disk'.positions = mem.positions
  BY <1>0, <1>7, FailedRecord DEF DeliveryFails, InScan
<1>8. CASE EndScan
  BY <1>8 DEF EndScan, InScan
<1>9. QED
  BY <1>1, <1>2, <1>3, <1>4, <1>5, <1>6, <1>7, <1>8 DEF Next, ScanStep, Handle

(* The step of the running scan that releases a market has seen the end of *)
(* its trade in the bars on file.                                          *)
LEMMA ReleaseLoaded ==
  ASSUME IInv, ReleaseInv, NEW i \in Instruments, LoadInstrument(i)
  PROVE  ReleaseInv'
<1>0. /\ TypeOK /\ mem \in ScannerState /\ InScan
      /\ \A j \in Instruments : mem.positions[j] \in {disk.positions[j], NoSignal}
  BY Types DEF IInv, MemInv, InScan, LoadInstrument
<1>1. UNCHANGED <<disk, now, resolvedAt>>
  BY DEF LoadInstrument, world
<1>2. PICK again \in BOOLEAN : mem' = Settled(mem, i, again)
  BY DEF LoadInstrument
<1>3. ASSUME NEW j \in Instruments, mem'.positions[j] # disk.positions[j]
      PROVE  resolvedAt[disk.positions[j]] <= now
  <2>1. CASE mem'.positions[j] = mem.positions[j]
    BY <1>0, <1>3, <2>1 DEF ReleaseInv, FreedByScan
  <2>2. CASE mem'.positions[j] # mem.positions[j]
    <3>1. j = i /\ mem.positions[i] \in EndedTrades(mem, i, again)
      BY <1>0, <1>2, <2>2, SettledRecord
    <3> DEFINE s == mem.positions[i]
    <3>2. s \in Signals /\ PathSeen(s, again)
      BY <3>1 DEF EndedTrades
    <3>3. s = disk.positions[j]
      BY <1>0, <3>1, <3>2, SetsAssumption
    <3>4. /\ resolvedAt[s] \in Nat /\ InstrumentOf[s] \in Instruments /\ now \in Nat
          /\ feedAt[InstrumentOf[s]] \in Nat
      BY <1>0, <3>2, Types
    <3>5. resolvedAt[s] <= feedAt[InstrumentOf[s]]
      BY <3>2 DEF PathSeen
    <3>6. feedAt[InstrumentOf[s]] <= now
      BY <3>4 DEF IInv, ClockInv
    <3> HIDE DEF s
    <3>7. QED
      BY <3>3, <3>4, <3>5, <3>6
  <2>3. QED
    BY <2>1, <2>2
<1>4. QED
  BY <1>1, <1>3 DEF ReleaseInv, FreedByScan

(* Every step keeps the invariant.                                         *)
LEMMA ReleaseStep == IInv /\ ReleaseInv /\ [Next]_vars => ReleaseInv'
<1> SUFFICES ASSUME IInv, ReleaseInv, [Next]_vars PROVE ReleaseInv'
  OBVIOUS
<1>0. TypeOK /\ TypeOK' /\ mem \in ScannerState /\ disk \in ScannerState /\ asOf \in Nat
  BY Types, TypeStep DEF IInv
<1>1. ASSUME mem'.positions = disk'.positions PROVE ReleaseInv'
  BY <1>1 DEF ReleaseInv, FreedByScan
<1>2. ASSUME ~InScan' PROVE ReleaseInv'
  BY <1>2 DEF ReleaseInv
<1>3. ASSUME InScan' => InScan, UNCHANGED <<mem, disk, now, resolvedAt>>
      PROVE  ReleaseInv'
  BY <1>3 DEF ReleaseInv, FreedByScan
<1>4. CASE Tick
  <2>1. /\ UNCHANGED <<mem, disk, pc>> /\ now' = now + 1 /\ now < MaxTime
        /\ now \in Nat /\ MaxTime \in Nat
    BY <1>0, <1>4, BoundsAssumption, Types DEF Tick
  <2>2. \A s \in Signals : resolvedAt[s] = Never \/ resolvedAt'[s] = resolvedAt[s]
    BY <1>4 DEF Tick
  <2>3. \A s \in Signals : resolvedAt[s] <= now => resolvedAt'[s] <= now'
    BY <1>0, <2>1, <2>2, Types DEF Never
  <2>4. InScan => \A i \in FreedByScan : disk.positions[i] \in Signals
    BY <1>0 DEF IInv, MemInv, FreedByScan, ScannerState
  <2>5. QED
    BY <2>1, <2>3, <2>4 DEF ReleaseInv, FreedByScan, InScan
<1>5. CASE Wake
  BY <1>2, <1>5 DEF Wake, InScan
<1>6. ASSUME NEW R \in SUBSET Instruments, BeginScan(R) PROVE ReleaseInv'
  <2>1. mem' = Pruned(disk, asOf') /\ disk' = disk /\ asOf' \in Nat
    BY <1>0, <1>6, BoundsAssumption DEF BeginScan, TypeOK
  <2>2. QED
    BY <1>0, <1>1, <2>1, PrunedType
<1>7. ASSUME NEW i \in Instruments, LoadInstrument(i) PROVE ReleaseInv'
  BY <1>7, ReleaseLoaded
<1>8. ASSUME NEW i \in Instruments, LoadFails(i) PROVE ReleaseInv'
  BY <1>2, <1>8 DEF LoadFails, Stop, InScan
<1>9. ASSUME NEW s \in Signals, SkipKnown(s) \/ DiscordAccepts(s) PROVE ReleaseInv'
  BY <1>3, <1>9 DEF SkipKnown, DiscordAccepts, InScan, world
<1>10. ASSUME NEW s \in Signals, Reject(s) \/ Filter(s) \/ Claim(s) \/ RecordSent(s)
       PROVE  ReleaseInv'
  BY <1>1, <1>10 DEF Reject, Filter, Claim, RecordSent, Save
<1>11. ASSUME NEW s \in Signals, DeliveryFails(s) PROVE ReleaseInv'
  BY <1>2, <1>11 DEF DeliveryFails, Stop, InScan
<1>12. CASE NextInstrument
  BY <1>3, <1>12 DEF NextInstrument, InScan, world
<1>13. CASE EndScan \/ Crash
  BY <1>2, <1>13 DEF EndScan, Crash, Stop, InScan
<1>14. CASE UNCHANGED vars
  BY <1>3, <1>14 DEF vars, InScan
<1>15. QED
  BY <1>4, <1>5, <1>6, <1>7, <1>8, <1>9, <1>10, <1>11, <1>12, <1>13, <1>14
     DEF Next, ScanStep, Handle

(* No market is taken from an open trade, in whatever way a scan ends, and *)
(* none passes from one trade to another in one save.                      *)
THEOREM MarketsReleasedFirst == Spec => MarketsAreReleased
<1>1. Init => ReleaseInv
  BY DEF Init, ReleaseInv, InScan
<1>2. IInv /\ ReleaseInv /\ [Next]_vars =>
        [\A i \in Instruments :
            disk'.positions[i] # disk.positions[i] =>
                /\ Released(disk.positions[i])
                /\ disk'.positions[i] = NoSignal \/ disk.positions[i] = NoSignal]_vars
  <2>1. SUFFICES ASSUME IInv, ReleaseInv, [Next]_vars, NEW i \in Instruments,
                        disk'.positions[i] # disk.positions[i]
                 PROVE  /\ Released(disk.positions[i])
                        /\ disk'.positions[i] = NoSignal \/ disk.positions[i] = NoSignal
    OBVIOUS
  <2>2. CASE InScan /\ disk'.positions = mem.positions
    <3>1. i \in FreedByScan /\ mem.positions[i] = NoSignal
      BY <2>1, <2>2 DEF FreedByScan, IInv, MemInv
    <3>2. QED
      BY <2>1, <2>2, <3>1 DEF ReleaseInv, Released
  <2>3. ASSUME NEW s \in Signals, Free(s), mem.positions = disk.positions,
               disk'.positions[i] = IF i = InstrumentOf[s] THEN s ELSE disk.positions[i]
        PROVE  disk.positions[i] = NoSignal
    BY <2>1, <2>3 DEF Free
  <2>4. CASE disk.positions[i] = NoSignal
    BY <2>4 DEF Released
  <2>5. \/ InScan /\ disk'.positions = mem.positions
        \/ \E s \in Signals :
              /\ Free(s) /\ mem.positions = disk.positions
              /\ disk'.positions[i] = IF i = InstrumentOf[s] THEN s ELSE disk.positions[i]
    BY <2>1, PositionsSaved
  <2>6. QED
    BY <2>2, <2>3, <2>4, <2>5
<1>3. QED
  BY <1>1, <1>2, ReleaseStep, Invariant, PTL DEF Spec, MarketsAreReleased

(***************************************************************************)
(* Overlap: what can go wrong when there are faults, and nothing else.     *)
(***************************************************************************)

(* What the protocol says of an alert that Discord shows.                  *)
ShownInv == \A s \in Signals : alerts[s] > 0 => verdict[s] \in ClaimStatuses

(* Two open trades of one market are shown together only when a claim was  *)
(* left without its confirmation: by a delivery that failed or by a scan   *)
(* that died in the network call, or while this call is under way.         *)
OverlapsAreUnconfirmed ==
    \A s, t \in Signals :
        (/\ InstrumentOf[s] = InstrumentOf[t] /\ s # t
         /\ alerts[s] > 0 /\ now < resolvedAt[s]
         /\ alerts[t] > 0 /\ now < resolvedAt[t])
            => \E u \in {s, t} : verdict[u] \in {"PUBLISHING", "DELIVERY_FAILED"}

(* Every step of the protocol keeps the invariant.                         *)
LEMMA ShownStep ==
  ASSUME IInv, ShownInv, Protocol!APNext
  PROVE  ShownInv'
<1>0. /\ verdict \in [Signals -> Verdicts] /\ alerts \in [Signals -> Nat]
  BY DEF IInv, TypeOK, Verdicts
<1>1. CASE Protocol!Release
  BY <1>1 DEF Protocol!Release, ShownInv
<1>2. ASSUME NEW s \in Signals, NEW d \in Protocol!Decisions, Protocol!Decide(s, d)
      PROVE  ShownInv'
  <2>1. ~(alerts[s] > 0)
    BY <1>2 DEF Protocol!Decide, IInv, AlertInv
  <2>2. \A u \in Signals : u # s => verdict'[u] = verdict[u]
    BY <1>0, <1>2 DEF Protocol!Decide
  <2>3. QED
    BY <1>2, <2>1, <2>2 DEF Protocol!Decide, ShownInv
<1>3. ASSUME NEW s \in Signals, Protocol!Deliver(s) PROVE ShownInv'
  <2>1. verdict'[s] \in ClaimStatuses /\ verdict' = verdict
    BY <1>3 DEF Protocol!Deliver, ClaimStatuses
  <2>2. \A u \in Signals : u # s => alerts'[u] = alerts[u]
    BY <1>0, <1>3 DEF Protocol!Deliver
  <2>3. QED
    BY <2>1, <2>2 DEF ShownInv
<1>4. ASSUME NEW s \in Signals, NEW v \in {"SENT", "DRY_RUN"}, Protocol!Confirm(s, v)
      PROVE  ShownInv'
  <2>1. alerts[s] > 0 => v \in ClaimStatuses
    BY <1>4 DEF Protocol!Confirm, ClaimStatuses
  <2>2. \A u \in Signals : verdict'[u] = IF u = s THEN v ELSE verdict[u]
    BY <1>0, <1>4 DEF Protocol!Confirm
  <2>3. QED
    BY <1>4, <2>1, <2>2 DEF Protocol!Confirm, ShownInv
<1>5. ASSUME NEW s \in Signals, Protocol!Fail(s) PROVE ShownInv'
  <2>1. \A u \in Signals : verdict'[u] = IF u = s THEN "DELIVERY_FAILED" ELSE verdict[u]
    BY <1>0, <1>5 DEF Protocol!Fail
  <2>2. QED
    BY <1>5, <2>1 DEF Protocol!Fail, ShownInv, ClaimStatuses
<1>6. QED
  BY <1>1, <1>2, <1>3, <1>4, <1>5 DEF Protocol!APNext

(* However many crashes and failures there are, no two trades whose alerts *)
(* were both confirmed are open in one market.                             *)
THEOREM OverlapNeedsFailure == Spec => []OverlapsAreUnconfirmed
<1>1. Init => ShownInv
  BY DEF Init, ShownInv
<1>2. IInv /\ ShownInv /\ [Next]_vars => ShownInv'
  <2>1. ASSUME UNCHANGED Protocol!apVars, ShownInv PROVE ShownInv'
    BY <2>1 DEF Protocol!apVars, ShownInv
  <2>2. QED
    BY <2>1, ProtocolStep, ShownStep
<1>3. IInv /\ ShownInv => OverlapsAreUnconfirmed
  <2>1. SUFFICES ASSUME IInv, ShownInv, NEW s \in Signals, NEW t \in Signals,
                        InstrumentOf[s] = InstrumentOf[t], s # t,
                        alerts[s] > 0, now < resolvedAt[s],
                        alerts[t] > 0, now < resolvedAt[t]
                 PROVE  \E u \in {s, t} : verdict[u] \in {"PUBLISHING", "DELIVERY_FAILED"}
    BY DEF OverlapsAreUnconfirmed
  <2>2. ~(verdict[s] = "SENT" /\ verdict[t] = "SENT")
    BY <2>1 DEF IInv, DiskInv, Holds
  <2>3. verdict[s] \in ClaimStatuses /\ verdict[t] \in ClaimStatuses
    BY <2>1 DEF ShownInv
  <2>4. QED
    BY <2>2, <2>3 DEF ClaimStatuses
<1>4. QED
  BY <1>1, <1>2, <1>3, Invariant, PTL DEF Spec
=============================================================================
