--------------------------- MODULE SignalScanner ---------------------------
(***************************************************************************)
(* The live scanner: scan_markets of wickless_bot.py, driven again and     *)
(* again by run_daemon.py or by the scheduled workflow, with the state     *)
(* file it survives on, the Discord channel it publishes to, the market    *)
(* whose prices end trades, and the ways one scan can end early.           *)
(*                                                                         *)
(* Time is counted in ticks. Prices are abstracted to the tick at which    *)
(* the stop or the target of a signal is first reached (resolvedAt); risk, *)
(* spread and entry-distance checks, and the score of the model, are free  *)
(* choices, because they depend on prices alone.                           *)
(***************************************************************************)
EXTENDS Integers, Sequences

CONSTANTS
    Instruments,
    Signals,        \* candidate entries: every gate of the engine but the
                    \* one-position gate lets them through
    InstrumentOf,
    FillTime,       \* close of the signal candle, when the entry exists
    NoSignal,
    MaxSignalAge,   \* max_signal_age_seconds
    MaxQuoteAge,    \* max_quote_age_seconds
    Lookback,       \* research_lookback_seconds
    Retention,      \* state_retention_days
    HistoryWindow,  \* LIVE_LOOKBACK_MINUTES, the bars a refresh downloads
    RejectionLimit, \* length of the audit list, 500 in the code
    Daemon,         \* TRUE: run_daemon; FALSE: live-signals.yml
    DryRuns,        \* the values of --dry-run in use
    MaxTime,        \* bound: last tick of the clock
    MaxFaults       \* bound: crashes, failed deliveries and failed refreshes

ASSUME SetsAssumption ==
    /\ InstrumentOf \in [Signals -> Instruments]
    /\ FillTime \in [Signals -> Nat]
    /\ NoSignal \notin Signals
    /\ Daemon \in BOOLEAN
    /\ DryRuns \subseteq BOOLEAN

ASSUME BoundsAssumption ==
    /\ MaxSignalAge \in Nat /\ MaxQuoteAge \in Nat
    /\ HistoryWindow \in Nat
    /\ RejectionLimit \in Nat \ {0}
    /\ MaxTime \in Nat /\ MaxFaults \in Nat

\* scan_markets refuses a lookback below the actionable age; the retention of
\* 14 days exceeds the 45-minute lookback in every entry point.
ASSUME WindowsAssumption ==
    /\ Lookback \in Nat /\ Retention \in Nat
    /\ MaxSignalAge <= Lookback
    /\ Lookback <= Retention

\* One candle of one market gives at most one entry.
ASSUME OneEntryPerBar ==
    \A s, t \in Signals :
        (InstrumentOf[s] = InstrumentOf[t] /\ FillTime[s] = FillTime[t]) => s = t

VARIABLES
    now,            \* wall clock
    resolvedAt,     \* when the price first reaches stop or target, or Never
    feedAt,         \* when the CSVs and the quote of a market were fetched
    disk,           \* the state file
    mem,            \* the ScannerState of the running scan
    pc,
    asOf,           \* the scan's clock reading
    todo,           \* markets the scan has not loaded yet
    queue,          \* entries of the current market still to be handled
    dry             \* this process runs with --dry-run

\* Auxiliary variables: what Discord shows, what was ever durably decided
\* about a signal, and how many faults have been spent.
VARIABLES alerts, verdict, faults

vars == <<now, resolvedAt, feedAt, disk, mem, pc, asOf, todo, queue, dry,
          alerts, verdict, faults>>

world == <<now, resolvedAt>>
scan == <<asOf, todo, dry>>

Never == MaxTime + 1
NoTime == -1

Statuses == {"REJECTED", "ML_FILTERED", "PUBLISHING", "SENT", "DRY_RUN",
             "DELIVERY_FAILED", "UNTRACKED"}

(***************************************************************************)
(* The state file and its in-memory copy have the same shape. UNTRACKED is *)
(* the record without status and timestamp that closing a position makes   *)
(* when the record of its signal has been pruned.                          *)
(***************************************************************************)
Absent == [status |-> "ABSENT", at |-> NoTime, closed |-> FALSE]

Record(status, at) == [status |-> status, at |-> at, closed |-> FALSE]

Records == [status : Statuses \cup {"ABSENT"}, at : {NoTime} \cup Nat,
            closed : BOOLEAN]

ScannerState ==
    [handled : [Signals -> Records],
     positions : [Instruments -> Signals \cup {NoSignal}],
     rejections : Seq(Signals)]

Known(state, s) == state.handled[s].status # "ABSENT"

EmptyState ==
    [handled |-> [s \in Signals |-> Absent],
     positions |-> [i \in Instruments |-> NoSignal],
     rejections |-> <<>>]

\* Faulty variant of Pruned: the boundary itself is dropped.
PrunedAtBoundary(state, t) ==
    [state EXCEPT !.handled =
        [s \in Signals |-> IF @[s].at # NoTime /\ @[s].at > t - Retention
                           THEN @[s] ELSE Absent]]

(* Loading drops the records older than the retention, those without a     *)
(* timestamp among them. Positions are never dropped by age.               *)
Pruned(state, t) ==
    [state EXCEPT !.handled =
        [s \in Signals |-> IF @[s].at # NoTime /\ @[s].at >= t - Retention
                           THEN @[s] ELSE Absent]]

Marked(state, s, record) == [state EXCEPT !.handled[s] = record]

\* Faulty variants of Opened: the market key is stored for the signal; the
\* position is forgotten.
OpenedByMarket(state, s, status) ==
    [state EXCEPT !.handled[s].status = status,
                  !.positions[InstrumentOf[s]] = InstrumentOf[s]]
OpenedNowhere(state, s, status) == [state EXCEPT !.handled[s].status = status]

(* A published entry takes its market.                                     *)
Opened(state, s, status) ==
    [state EXCEPT !.handled[s].status = status,
                  !.positions[InstrumentOf[s]] = s]

\* Faulty variant of Audited: keeps the oldest entries instead of the newest.
AuditedOldest(state, s) ==
    LET log == Append(state.rejections, s)
        last == IF Len(log) > RejectionLimit THEN RejectionLimit ELSE Len(log)
    IN  [state EXCEPT !.rejections = SubSeq(log, 1, last)]

(* The audit list of rejections keeps the last RejectionLimit of them.     *)
Audited(state, s) ==
    LET log == Append(state.rejections, s)
        first == IF Len(log) > RejectionLimit
                 THEN Len(log) - RejectionLimit + 1 ELSE 1
    IN  [state EXCEPT !.rejections = SubSeq(log, first, Len(log))]

----------------------------------------------------------------------------
(***************************************************************************)
(* What the scan can see.                                                  *)
(***************************************************************************)

(* r is a position of the replayed engine when the candle of s closes, so  *)
(* the one-position gate drops s.                                          *)
Blocks(r, s) == FillTime[r] < FillTime[s] /\ FillTime[s] < resolvedAt[r]

(* The entries of market i on the finalized candles of the downloaded      *)
(* window, and those that the one-position engine fills when it replays    *)
(* that window from its first candle.                                      *)
Window(i) ==
    {s \in Signals : /\ InstrumentOf[s] = i
                     /\ feedAt[i] - HistoryWindow <= FillTime[s]
                     /\ FillTime[s] <= feedAt[i]
                     /\ FillTime[s] <= asOf}

Replayed(i) ==
    CHOOSE F \in SUBSET Window(i) :
        \A s \in Window(i) : s \in F <=> \A r \in F : ~Blocks(r, s)

\* Faulty variant of InLookback: only the actionable age is searched.
InActionableAge(s) == asOf - MaxSignalAge <= FillTime[s] /\ FillTime[s] <= asOf

InLookback(s) == asOf - Lookback <= FillTime[s] /\ FillTime[s] <= asOf

Found(i) ==
    {s \in Signals : InstrumentOf[s] = i /\ InLookback(s) /\ s \in Replayed(i)}

(* The bars on file show the end of the trade. A touch older than the      *)
(* window is lost, unless the price has come back to the level (again).    *)
PathSeen(s, again) ==
    LET t == feedAt[InstrumentOf[s]]
    IN  /\ resolvedAt[s] <= t
        /\ again \/ t - HistoryWindow <= resolvedAt[s]

QuoteFresh(i) == feedAt[i] <= asOf /\ asOf - feedAt[i] <= MaxQuoteAge

(* validate_signal_actionability can answer ACTIONABLE only in this case,  *)
(* and the market must not be held by an earlier alert.                    *)
Executable(s) ==
    /\ asOf - FillTime[s] <= MaxSignalAge
    /\ QuoteFresh(InstrumentOf[s])
    /\ ~PathSeen(s, FALSE)

\* Faulty variants of Free: no look at the position; a position counts only
\* while the record of its signal is kept.
FreeAlways(s) == TRUE
FreeWhenForgotten(s) ==
    LET p == mem.positions[InstrumentOf[s]]
    IN  p # NoSignal => ~Known(mem, p)

Free(s) == mem.positions[InstrumentOf[s]] = NoSignal

\* Faulty variant of EndedTrades: a filtered entry is closed unfinished.
EndedWhenFiltered(state, i, again) ==
    {s \in Signals :
        \/ s = state.positions[i] /\ PathSeen(s, again)
        \/ state.handled[s].status = "ML_FILTERED" /\ InstrumentOf[s] = i}

(* The trades of market i whose outcome the bars just loaded decide: its   *)
(* position, and the entries the model filtered, which are followed as if  *)
(* they had been taken.                                                    *)
EndedTrades(state, i, again) ==
    {s \in Signals :
        /\ PathSeen(s, again)
        /\ \/ s = state.positions[i]
           \/ state.handled[s].status = "ML_FILTERED" /\ InstrumentOf[s] = i}

Closed(state, s) ==
    IF Known(state, s) THEN [state.handled[s] EXCEPT !.closed = TRUE]
    ELSE [status |-> "UNTRACKED", at |-> NoTime, closed |-> TRUE]

Settled(state, i, again) ==
    LET ended == EndedTrades(state, i, again)
    IN  [state EXCEPT
            !.positions[i] = IF @ \in ended THEN NoSignal ELSE @,
            !.handled = [s \in Signals |->
                            IF s \in ended THEN Closed(state, s) ELSE @[s]]]

(* The entry the loop is at: fills are replayed in the order of the bars.  *)
AtHead(s) ==
    /\ s \in queue
    /\ \A t \in queue : FillTime[s] <= FillTime[t]

----------------------------------------------------------------------------
(***************************************************************************)
(* One scan.                                                               *)
(***************************************************************************)

(* _save_state writes a temporary file and renames it: one atomic step.    *)
Save(state) == mem' = state /\ disk' = state

(* The process is gone with its locals; the file stays as disk' says.      *)
Stop ==
    /\ pc' = "idle"
    /\ mem' = disk'
    /\ queue' = {} /\ todo' = {}
    /\ UNCHANGED <<asOf, dry>>

Fault ==
    /\ faults < MaxFaults
    /\ faults' = faults + 1

Init ==
    /\ now = 0
    /\ resolvedAt = [s \in Signals |-> Never]
    /\ feedAt = [i \in Instruments |-> 0]
    /\ disk = EmptyState
    /\ mem = EmptyState
    /\ pc = "idle"
    /\ asOf = 0
    /\ todo = {}
    /\ queue = {}
    /\ dry = FALSE
    /\ alerts = [s \in Signals |-> 0]
    /\ verdict = [s \in Signals |-> "NONE"]
    /\ faults = 0

(* Time passes, and with it trades whose entry exists may end.             *)
Tick ==
    /\ now < MaxTime
    /\ now' = now + 1
    /\ \E R \in SUBSET {s \in Signals : FillTime[s] <= now /\ resolvedAt[s] = Never} :
          resolvedAt' = [s \in Signals |-> IF s \in R THEN now + 1 ELSE resolvedAt[s]]
    /\ UNCHANGED <<feedAt, disk, mem, pc, asOf, todo, queue, dry,
                   alerts, verdict, faults>>

(* run_once reads the clock before it refreshes.                           *)
Wake ==
    /\ pc = "idle"
    /\ pc' = "refresh"
    /\ asOf' = now
    /\ dry' \in DryRuns
    /\ UNCHANGED <<world, feedAt, disk, mem, todo, queue, alerts, verdict, faults>>

(* The refresh has brought complete data for the markets in R, and the     *)
(* scan loads its state. The workflow reads the clock only now and passes  *)
(* on the markets in R; the daemon scans every market it was given.        *)
BeginScan(R) ==
    /\ pc = "refresh"
    /\ R # {}
    /\ IF R = Instruments THEN UNCHANGED faults ELSE Fault
    /\ feedAt' = [i \in Instruments |-> IF i \in R THEN now ELSE feedAt[i]]
    /\ asOf' = IF Daemon THEN asOf ELSE now
    /\ todo' = IF Daemon THEN Instruments ELSE R
    /\ mem' = Pruned(disk, asOf')
    /\ pc' = "scan"
    /\ UNCHANGED <<world, disk, queue, dry, alerts, verdict>>

(* A market whose refresh has failed can lack a file, or have bid and ask  *)
(* bars that do not match: the exception ends the whole scan.              *)
LoadFails(i) ==
    /\ pc = "scan" /\ i \in todo
    /\ feedAt[i] < asOf
    /\ UNCHANGED <<world, feedAt, disk, alerts, verdict, faults>>
    /\ Stop

LoadInstrument(i) ==
    /\ pc = "scan" /\ i \in todo
    /\ \E again \in BOOLEAN : mem' = Settled(mem, i, again)
    /\ queue' = Found(i)
    /\ todo' = todo \ {i}
    /\ pc' = "signals"
    /\ UNCHANGED <<world, feedAt, disk, asOf, dry, alerts, verdict, faults>>

\* Faulty variant of SkipKnown: the entry stays in front of the loop.
SkipNothing(s) ==
    /\ pc = "signals" /\ AtHead(s)
    /\ Known(mem, s)
    /\ UNCHANGED vars

SkipKnown(s) ==
    /\ pc = "signals" /\ AtHead(s)
    /\ Known(mem, s)
    /\ queue' = queue \ {s}
    /\ UNCHANGED <<world, feedAt, disk, mem, pc, scan, alerts, verdict, faults>>

(* Any entry can fail on quote, risk or distance; see Executable and Free  *)
(* for what makes the rejection certain.                                   *)
Reject(s) ==
    /\ pc = "signals" /\ AtHead(s)
    /\ ~Known(mem, s)
    /\ Save(Marked(Audited(mem, s), s, Record("REJECTED", asOf)))
    /\ verdict' = [verdict EXCEPT ![s] = "REJECTED"]
    /\ queue' = queue \ {s}
    /\ UNCHANGED <<world, feedAt, pc, scan, alerts, faults>>

(* An applied model blocks the entry; its outcome is tracked all the same. *)
Filter(s) ==
    /\ pc = "signals" /\ AtHead(s)
    /\ ~Known(mem, s) /\ Free(s) /\ Executable(s)
    /\ Save(Marked(Audited(mem, s), s, Record("ML_FILTERED", asOf)))
    /\ verdict' = [verdict EXCEPT ![s] = "ML_FILTERED"]
    /\ queue' = queue \ {s}
    /\ UNCHANGED <<world, feedAt, pc, scan, alerts, faults>>

\* Faulty variant of Claim: the claim is saved only with the result.
ClaimInMemory(s) ==
    /\ pc = "signals" /\ AtHead(s)
    /\ ~Known(mem, s) /\ Free(s) /\ Executable(s)
    /\ mem' = Marked(mem, s, Record("PUBLISHING", asOf))
    /\ verdict' = [verdict EXCEPT ![s] = "PUBLISHING"]
    /\ pc' = "posting"
    /\ UNCHANGED <<world, feedAt, disk, queue, scan, alerts, faults>>

(* Claim before the network call.                                          *)
Claim(s) ==
    /\ pc = "signals" /\ AtHead(s)
    /\ ~Known(mem, s) /\ Free(s) /\ Executable(s)
    /\ Save(Marked(mem, s, Record("PUBLISHING", asOf)))
    /\ verdict' = [verdict EXCEPT ![s] = "PUBLISHING"]
    /\ pc' = "posting"
    /\ UNCHANGED <<world, feedAt, queue, scan, alerts, faults>>

(* Discord takes the message; the response is still under way.             *)
DiscordAccepts(s) ==
    /\ pc = "posting" /\ AtHead(s) /\ ~dry
    /\ alerts' = [alerts EXCEPT ![s] = @ + 1]
    /\ pc' = "posted"
    /\ UNCHANGED <<world, feedAt, disk, mem, queue, scan, verdict, faults>>

(* post_discord returned, or the rehearsal printed its message.            *)
RecordSent(s) ==
    /\ pc = (IF dry THEN "posting" ELSE "posted") /\ AtHead(s)
    /\ LET status == IF dry THEN "DRY_RUN" ELSE "SENT"
       IN  /\ Save(Opened(mem, s, status))
           /\ verdict' = [verdict EXCEPT ![s] = status]
    /\ pc' = "signals"
    /\ queue' = queue \ {s}
    /\ UNCHANGED <<world, feedAt, scan, alerts, faults>>

\* Faulty variant of DeliveryFails: the claim is dropped to try again later.
DeliveryForgotten(s) ==
    /\ pc \in {"posting", "posted"} /\ AtHead(s) /\ ~dry
    /\ Fault
    /\ disk' = Marked(mem, s, Absent)
    /\ verdict' = [verdict EXCEPT ![s] = "DELIVERY_FAILED"]
    /\ UNCHANGED <<world, feedAt, alerts>>
    /\ Stop

(* post_discord raised RuntimeError: an error answer, which says nothing   *)
(* sure about delivery, or no connection. The scan ends.                   *)
DeliveryFails(s) ==
    /\ pc \in {"posting", "posted"} /\ AtHead(s) /\ ~dry
    /\ Fault
    /\ disk' = [mem EXCEPT !.handled[s].status = "DELIVERY_FAILED"]
    /\ verdict' = [verdict EXCEPT ![s] = "DELIVERY_FAILED"]
    /\ UNCHANGED <<world, feedAt, alerts>>
    /\ Stop

NextInstrument ==
    /\ pc = "signals" /\ queue = {}
    /\ pc' = "scan"
    /\ UNCHANGED <<world, feedAt, disk, mem, queue, scan, alerts, verdict, faults>>

\* Faulty variant of EndScan: without the last save of scan_markets.
EndScanUnsaved ==
    /\ pc = "scan" /\ todo = {}
    /\ UNCHANGED <<world, feedAt, disk, alerts, verdict, faults>>
    /\ Stop

EndScan ==
    /\ pc = "scan" /\ todo = {}
    /\ disk' = mem
    /\ UNCHANGED <<world, feedAt, alerts, verdict, faults>>
    /\ Stop

(* The process dies between two steps: killed, cancelled with the workflow *)
(* run, or ended by an exception that nothing on the way saves for, such   *)
(* as a timeout while the response is read, or a refresh without markets.  *)
Crash ==
    /\ pc # "idle"
    /\ Fault
    /\ UNCHANGED <<world, feedAt, disk, alerts, verdict>>
    /\ Stop

Handle(s) ==
    \/ SkipKnown(s) \/ Reject(s) \/ Filter(s) \/ Claim(s)
    \/ DiscordAccepts(s) \/ RecordSent(s)

ScanStep ==
    \/ Wake
    \/ BeginScan(Instruments)
    \/ \E i \in Instruments : LoadInstrument(i)
    \/ \E s \in Signals : Handle(s)
    \/ NextInstrument
    \/ EndScan

Next ==
    \/ Tick
    \/ ScanStep
    \/ \E R \in SUBSET Instruments : R # Instruments /\ BeginScan(R)
    \/ \E i \in Instruments : LoadFails(i)
    \/ \E s \in Signals : DeliveryFails(s)
    \/ Crash

Spec == Init /\ [][Next]_vars

(* The daemon never stops scanning: it catches what one scan raises and    *)
(* Docker restarts it when it dies.                                        *)
FairSpec == Spec /\ WF_vars(ScanStep)

----------------------------------------------------------------------------
(***************************************************************************)
(* Properties.                                                             *)
(***************************************************************************)

(* Every variable keeps its type.                                          *)
TypeOK ==
    /\ now \in 0..MaxTime
    /\ resolvedAt \in [Signals -> 0..Never]
    /\ feedAt \in [Instruments -> 0..MaxTime]
    /\ disk \in ScannerState
    /\ mem \in ScannerState
    /\ pc \in {"idle", "refresh", "scan", "signals", "posting", "posted"}
    /\ asOf \in 0..MaxTime
    /\ todo \subseteq Instruments
    /\ queue \subseteq Signals
    /\ dry \in BOOLEAN
    /\ alerts \in [Signals -> Nat]
    /\ verdict \in [Signals -> Statuses \cup {"NONE"}]
    /\ faults \in 0..MaxFaults

(* No crash, failed delivery, pruning or repeated scan makes Discord show  *)
(* the same trade alert twice (the claim of scan_markets that is saved     *)
(* before post_discord is called).                                         *)
AtMostOneAlert == \A s \in Signals : alerts[s] <= 1

(* No running or later scan can find s: it is outside the lookback.        *)
Lapsed(s) == FillTime[s] + Lookback < now

(* Once something was decided about a signal, every later scan still finds *)
(* the decision in the state file for as long as the lookback can find the *)
(* signal: pruning by state_retention_days forgets no live decision.       *)
DecisionsRemembered ==
    \A s \in Signals : verdict[s] # "NONE" => (Known(disk, s) \/ Lapsed(s))

(* An alert Discord shows is covered by a claim in the state file, in      *)
(* whatever way the scan that sent it ended, for as long as the signal can *)
(* be found again ("Claim before the network call").                       *)
AlertsAreClaimed ==
    \A s \in Signals :
        alerts[s] > 0 =>
            \/ disk.handled[s].status \in {"PUBLISHING", "SENT", "DELIVERY_FAILED"}
            \/ Lapsed(s)

(* A trade whose alert was confirmed holds its market in the state file    *)
(* until the price has ended it: no crash, no pruning of its record and no *)
(* later signal takes the market away (the positions map of scan_markets). *)
ConfirmedTradeHoldsMarket ==
    \A s \in Signals :
        (verdict[s] = "SENT" /\ now < resolvedAt[s])
            => disk.positions[InstrumentOf[s]] = s

(* Discord never shows two open trades of one market: README item 10, and  *)
(* item 14 for retries and restarts.                                       *)
OneOpenAlertPerMarket ==
    \A s, t \in Signals :
        (/\ InstrumentOf[s] = InstrumentOf[t]
         /\ alerts[s] > 0 /\ now < resolvedAt[s]
         /\ alerts[t] > 0 /\ now < resolvedAt[t]) => s = t

(* It never does until a crash, a failed delivery or a failed refresh,     *)
(* even though trades outlive the downloaded window and rehearsals share   *)
(* the state file.                                                         *)
FaultlessTradesExclude == faults = 0 => OneOpenAlertPerMarket

(* The audit list keeps the newest rejections: a rejection missing from it *)
(* was pushed out by RejectionLimit others that are no older.              *)
RejectionsAudited ==
    \A s \in Signals :
        disk.handled[s].status \in {"REJECTED", "ML_FILTERED"} =>
            \/ \E k \in DOMAIN disk.rejections : disk.rejections[k] = s
            \/ /\ Len(disk.rejections) = RejectionLimit
               /\ \A k \in DOMAIN disk.rejections :
                      LET r == disk.rejections[k]
                      IN  Known(disk, r) => disk.handled[s].at <= disk.handled[r].at

(* An outcome recorded in the state file, for a position or for a filtered *)
(* entry, is the outcome of a trade that the market has really ended.      *)
OutcomesAreReal ==
    \A s \in Signals : disk.handled[s].closed => resolvedAt[s] <= now

(* Every scan that starts comes to an end.                                 *)
ScansEnd == pc # "idle" ~> pc = "idle"

(* An entry that some scan has found is decided durably, whatever crashes  *)
(* come between, as long as the lookback can still find it.                *)
FoundIsDecided ==
    \A s \in Signals :
        s \in queue ~> (verdict[s] # "NONE" \/ Lapsed(s))

(* A market whose trade has ended becomes free again in the state file.    *)
EndedTradeReleases ==
    \A i \in Instruments : \A s \in Signals :
        (disk.positions[i] = s /\ resolvedAt[s] <= now)
            ~> (disk.positions[i] # s)

(* The scanner implements the protocol of AlertProtocol: its verdicts are  *)
(* those saved in the state file, its holders the positions on file.       *)
Protocol == INSTANCE AlertProtocol WITH holder <- disk.positions
ImplementsProtocol == Protocol!APSpec

----------------------------------------------------------------------------
(***************************************************************************)
(* The inductive invariant behind the safety properties.                   *)
(***************************************************************************)

ClaimStatuses == {"PUBLISHING", "SENT", "DELIVERY_FAILED"}

InScan == pc \in {"scan", "signals", "posting", "posted"}

(* No scan whose clock reads t or later can find s.                        *)
LapsedAt(s, t) == FillTime[s] + Lookback < t

(* What a copy of the state that is current at t says of a signal with     *)
(* verdict v and n alerts. It lacks no decision a scan may need: what it   *)
(* lacks has lapsed, and what it has was stamped after the fill, so it     *)
(* will have lapsed before it is pruned. Undecided signals hold no market. *)
SoundFor(state, s, v, n, t) ==
    /\ v # "NONE" => (Known(state, s) \/ LapsedAt(s, t))
    /\ n > 0 => (state.handled[s].status \in ClaimStatuses \/ LapsedAt(s, t))
    /\ Known(state, s) => (state.handled[s].at >= FillTime[s] \/ LapsedAt(s, t))
    /\ state.positions[InstrumentOf[s]] = s => v # "NONE"

HoldsOwn(state) ==
    \A i \in Instruments :
        state.positions[i] # NoSignal => InstrumentOf[state.positions[i]] = i

Sound(state, t) ==
    /\ \A s \in Signals : SoundFor(state, s, verdict[s], alerts[s], t)
    /\ HoldsOwn(state)

(* The copy holds the market of every confirmed trade that is still open.  *)
Holds(state) ==
    \A s \in Signals :
        (verdict[s] = "SENT" /\ now < resolvedAt[s])
            => state.positions[InstrumentOf[s]] = s

ClockInv ==
    /\ asOf <= now
    /\ \A i \in Instruments : feedAt[i] <= now

DiskInv ==
    /\ Sound(disk, IF pc = "idle" THEN now ELSE asOf)
    /\ Holds(disk)

(* The running scan differs from the file only by what it knows on top:    *)
(* releases and outcomes, never a market taken.                            *)
MemInv ==
    InScan =>
        /\ Sound(mem, asOf)
        /\ Holds(mem)
        /\ \A i \in Instruments : mem.positions[i] \in {disk.positions[i], NoSignal}

QueueInv ==
    /\ pc \notin {"signals", "posting", "posted"} => queue = {}
    /\ \A s, t \in queue : InstrumentOf[s] = InstrumentOf[t]
    /\ \A s \in queue : InLookback(s)

(* While the network call is under way, the entry is claimed on file, its  *)
(* market is free, and Discord shows it exactly when it has accepted it.   *)
PostingInv ==
    pc \in {"posting", "posted"} =>
        /\ mem.positions = disk.positions
        /\ \A s \in Signals : AtHead(s) =>
              /\ verdict[s] = "PUBLISHING"
              /\ disk.handled[s].status = "PUBLISHING"
              /\ mem.handled[s].status = "PUBLISHING"
              /\ Free(s)
              /\ alerts[s] = (IF pc = "posted" THEN 1 ELSE 0)
        /\ pc = "posted" => ~dry

(* No copy holds an outcome before the market has ended the trade.         *)
OutcomeInv ==
    \A s \in Signals :
        (disk.handled[s].closed \/ mem.handled[s].closed) => resolvedAt[s] <= now

AlertInv ==
    \A s \in Signals : alerts[s] <= 1 /\ (alerts[s] > 0 => verdict[s] # "NONE")

(* What TypeOK, the protocol and the properties above rest on together.    *)
IInv ==
    /\ TypeOK
    /\ ClockInv
    /\ DiskInv
    /\ MemInv
    /\ QueueInv
    /\ PostingInv
    /\ OutcomeInv
    /\ AlertInv

----------------------------------------------------------------------------
(***************************************************************************)
(* The inductive invariants of the audit list and of exclusion.            *)
(***************************************************************************)

RejectionStatuses == {"REJECTED", "ML_FILTERED"}

Listed(state, s) == \E k \in DOMAIN state.rejections : state.rejections[k] = s

(* Those on a full list are no older than s.                               *)
PushedOut(state, s) ==
    /\ Len(state.rejections) = RejectionLimit
    /\ \A k \in DOMAIN state.rejections :
          LET r == state.rejections[k]
          IN  Known(state, r) => state.handled[s].at <= state.handled[r].at

(* What a copy of the state that is current at t says of rejections, with  *)
(* verdicts v: the list is in the order of the stamps and holds nothing    *)
(* but rejections. A position is of another signal, so closing one whose   *)
(* record is gone puts no unstamped record on the list.                    *)
ListsRejections(state, v) ==
    \A k \in DOMAIN state.rejections : v[state.rejections[k]] \in RejectionStatuses

InOrder(state) ==
    \A j, k \in DOMAIN state.rejections :
        LET r == state.rejections[j]
            u == state.rejections[k]
        IN  j <= k /\ Known(state, r) /\ Known(state, u)
                => state.handled[r].at <= state.handled[u].at

StampedBy(state, t) == \A s \in Signals : state.handled[s].at <= t

Accounted(state) ==
    \A s \in Signals :
        state.handled[s].status \in RejectionStatuses
            => Listed(state, s) \/ PushedOut(state, s)

HeldByTrades(state, v) ==
    \A i \in Instruments :
        state.positions[i] # NoSignal => v[state.positions[i]] \in {"SENT", "DRY_RUN"}

AuditSound(state, v, t) ==
    /\ Len(state.rejections) <= RejectionLimit
    /\ ListsRejections(state, v)
    /\ InOrder(state)
    /\ StampedBy(state, t)
    /\ Accounted(state)
    /\ HeldByTrades(state, v)

AuditInv ==
    /\ AuditSound(disk, verdict, IF pc = "idle" THEN now ELSE asOf)
    /\ InScan => AuditSound(mem, verdict, asOf)

(* Without a fault, what Discord shows is confirmed or just about to be.   *)
ConfirmInv ==
    faults = 0 => \A s \in Signals :
        alerts[s] > 0 => verdict[s] = "SENT" \/ (pc = "posted" /\ AtHead(s))
=============================================================================
