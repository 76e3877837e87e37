---------------------------- MODULE LiveRefresh ----------------------------
(***************************************************************************)
(* refresh of live_data.py and the two programs that scan what it leaves   *)
(* on disk: the daemon, cycle after cycle in one data directory, and       *)
(* live-signals.yml, up to three refreshes on a fresh runner.              *)
(*                                                                         *)
(* A file is the minute of its last candle. Minutes are counted by clock;  *)
(* 0 is a file that does not exist. Every file is written to a temporary   *)
(* one and renamed, whatever it replaces: the feed may answer with less    *)
(* than it did before. What a scan does with a market is SignalScanner's.  *)
(***************************************************************************)
EXTENDS Naturals, Sequences

CONSTANTS
    Callers,        \* who refreshes: "daemon", "workflow"
    Instruments,    \* the configured markets, in order
    Attempts,       \* refreshes of one workflow run
    CandleCloses,   \* the minutes at which the daemon wakes
    RefreshLimit,   \* minutes that a refresh takes at most
    MaxQuoteAge,    \* max_quote_age_seconds, in minutes
    MaxTime,        \* bound: minutes
    MaxKills        \* bound: processes that die

ASSUME RefreshAssumption ==
    /\ Callers \subseteq {"daemon", "workflow"}
    /\ \A i, j \in 1..Len(Instruments) : Instruments[i] = Instruments[j] => i = j
    /\ Len(Instruments) \in Nat \ {0}
    /\ RefreshLimit \in Nat /\ MaxQuoteAge \in Nat
    /\ CandleCloses \subseteq Nat \ {0}
    /\ Attempts \in Nat \ {0} /\ MaxTime \in Nat \ {0} /\ MaxKills \in Nat

(* Two candles close 15 minutes apart; a refresh of 8 markets takes five   *)
(* (four rounds of the pool, three requests of 25 seconds each) and a      *)
(* quote is current for two.                                               *)
ASSUME TimingAssumption ==
    \A c, d \in CandleCloses : c < d => c + RefreshLimit + MaxQuoteAge < d

Markets == {Instruments[i] : i \in 1..Len(Instruments)}
Sides == {"BID", "ASK"}

VARIABLES
    caller,
    clock,
    asOf,       \* the clock reading of the cycle, which its scan goes by
    pc,         \* "idle", "pool", "scan" or, the daemon, "stopped"
    csv,        \* the candles of each market and side
    quote,      \* <market>-quote-live.json
    status,     \* successful_instruments of --status-output
    waiting,    \* futures of the pool that are not handled
    rows,       \* market_rows: the sides this refresh has written
    outputs,    \* the markets this refresh has completed
    at,         \* position in the loop over the markets
    attempt,
    stop,       \* STOP
    kills

files == <<csv, quote>>
locals == <<waiting, rows, outputs>>
vars == <<caller, clock, asOf, pc, files, status, locals, at, attempt, stop, kills>>

Missing == [m \in Markets |-> [s \in Sides |-> 0]]

Init ==
    /\ caller \in Callers
    /\ clock = 1 /\ asOf = 0
    /\ pc = "idle"
    /\ csv = Missing /\ quote = [m \in Markets |-> 0]
    /\ status = {}
    /\ waiting = {} /\ rows = {} /\ outputs = {}
    /\ at = 1 /\ attempt = 0
    /\ stop = FALSE
    /\ kills = 0

(* Requests time out: the daemon's refresh ends within its limit.          *)
Tick ==
    /\ clock < MaxTime
    /\ caller = "daemon" /\ pc = "pool" => clock < asOf + RefreshLimit
    /\ clock' = clock + 1
    /\ UNCHANGED <<caller, asOf, pc, files, status, locals, at, attempt, stop, kills>>

BeginRefresh ==
    /\ pc' = "pool"
    /\ waiting' = Markets \X Sides
    /\ rows' = {} /\ outputs' = {}
    /\ at' = 1

\* What a process has in memory is gone.
Leave ==
    /\ pc' = "idle"
    /\ waiting' = {} /\ rows' = {} /\ outputs' = {}
    /\ at' = 1 /\ attempt' = 0

\* Faulty variant of Wake: it need not wait for the candle to close.
WakeAnyMinute ==
    /\ pc = "idle" /\ ~stop
    /\ asOf' = clock
    /\ BeginRefresh
    /\ attempt' = 1
    /\ IF caller = "workflow"
       THEN csv' = Missing /\ quote' = [m \in Markets |-> 0] /\ status' = {}
       ELSE UNCHANGED <<files, status>>
    /\ UNCHANGED <<caller, clock, stop, kills>>

(* The daemon sleeps to a candle close that is still ahead, reads the      *)
(* clock and refreshes what is there; a run of the workflow begins at any  *)
(* time with an empty directory.                                           *)
Wake ==
    /\ pc = "idle" /\ ~stop
    /\ caller = "daemon" => clock \in CandleCloses /\ asOf < clock
    /\ asOf' = clock
    /\ BeginRefresh
    /\ attempt' = 1
    /\ IF caller = "workflow"
       THEN csv' = Missing /\ quote' = [m \in Markets |-> 0] /\ status' = {}
       ELSE UNCHANGED <<files, status>>
    /\ UNCHANGED <<caller, clock, stop, kills>>

\* Faulty variants of GiveUpOrRetry: one attempt too many; none is counted.
RetryOnceMore ==
    IF caller = "workflow" /\ attempt <= Attempts
    THEN BeginRefresh /\ attempt' = attempt + 1
    ELSE Leave
RetryForever ==
    IF caller = "workflow" /\ attempt < Attempts
    THEN BeginRefresh /\ UNCHANGED attempt
    ELSE Leave

(* The daemon waits for the next candle; the workflow tries again.         *)
GiveUpOrRetry ==
    IF caller = "workflow" /\ attempt < Attempts
    THEN BeginRefresh /\ attempt' = attempt + 1
    ELSE Leave

----------------------------------------------------------------------------
(* The sides come back from the pool in any order, each at its own time    *)
(* and with candles up to any minute.                                      *)

SideDone(m, s) ==
    /\ pc = "pool" /\ <<m, s>> \in waiting
    /\ waiting' = waiting \ {<<m, s>>}
    /\ rows' = rows \cup {<<m, s>>}
    /\ \E t \in 1..clock : csv' = [csv EXCEPT ![m][s] = t]
    /\ UNCHANGED <<caller, clock, asOf, pc, quote, status, outputs, at, attempt, stop, kills>>

SideFails(m, s) ==
    /\ pc = "pool" /\ <<m, s>> \in waiting
    /\ waiting' = waiting \ {<<m, s>>}
    /\ UNCHANGED <<caller, clock, asOf, pc, files, status, rows, outputs, at, attempt, stop, kills>>

(* A malformed answer raises what refresh does not catch. Nor does the     *)
(* daemon, which dies and is started again.                                *)
SideAborts(m, s) ==
    /\ pc = "pool" /\ <<m, s>> \in waiting
    /\ GiveUpOrRetry
    /\ stop' = FALSE
    /\ UNCHANGED <<caller, clock, asOf, files, status, kills>>

AtMarket == pc = "pool" /\ waiting = {} /\ at <= Len(Instruments)

\* Faulty variant of Complete: one side is enough.
CompleteOneSided(m) == \E s \in Sides : <<m, s>> \in rows

(* Both sides are there and end with the same minute.                      *)
Complete(m) ==
    /\ \A s \in Sides : <<m, s>> \in rows
    /\ csv[m]["BID"] = csv[m]["ASK"]

PublishMarket ==
    LET m == Instruments[at]
    IN  /\ AtMarket /\ Complete(m)
        /\ quote' = [quote EXCEPT ![m] = csv[m]["BID"]]
        /\ outputs' = outputs \cup {m}
        /\ at' = at + 1
        /\ UNCHANGED <<caller, clock, asOf, pc, csv, status, waiting, rows, attempt, stop, kills>>

(* A market that is not complete, or has a negative spread, or whose quote *)
(* cannot be written.                                                      *)
SkipMarket ==
    /\ AtMarket
    /\ at' = at + 1
    /\ UNCHANGED <<caller, clock, asOf, pc, files, status, locals, attempt, stop, kills>>

AtEnd == pc = "pool" /\ waiting = {} /\ at > Len(Instruments)

FinishRefresh ==
    /\ AtEnd /\ outputs # {}
    /\ status' = (IF caller = "workflow" THEN outputs ELSE status)
    /\ asOf' = (IF caller = "workflow" THEN clock ELSE asOf)
    /\ pc' = "scan"
    /\ at' = 1
    /\ UNCHANGED <<caller, clock, files, locals, attempt, stop, kills>>

(* No market is complete, or the status cannot be written: the old one, or *)
(* an empty one, remains.                                                  *)
RefreshFails ==
    /\ AtEnd
    /\ \/ outputs = {} /\ status' = (IF caller = "workflow" THEN {} ELSE status)
       \/ caller = "workflow" /\ UNCHANGED status
    /\ GiveUpOrRetry
    /\ UNCHANGED <<caller, clock, asOf, files, stop, kills>>

----------------------------------------------------------------------------
(* The scan: the daemon goes through its markets, whatever the refresh     *)
(* returned; the workflow through those the status names.                  *)

Selected(m) == caller = "daemon" \/ m \in status

HasFiles(m) == quote[m] > 0 /\ \A s \in Sides : csv[m][s] > 0

(* Neither observed after the scan's reading of the clock nor too long     *)
(* before it: no entry is actionable with another quote.                   *)
Current(m) == quote[m] <= asOf /\ asOf <= quote[m] + MaxQuoteAge

Blocked(m) == Selected(m) /\ ~HasFiles(m)

AtScan == pc = "scan" /\ at <= Len(Instruments)

ScanMarket ==
    /\ AtScan /\ ~Blocked(Instruments[at])
    /\ at' = at + 1
    /\ UNCHANGED <<caller, clock, asOf, pc, files, status, locals, attempt, stop, kills>>

\* Faulty variant of ScanFails: a cycle that failed is repeated at once, whatever
\* was requested meanwhile.
ScanAgain ==
    /\ AtScan /\ Selected(Instruments[at])
    /\ BeginRefresh
    /\ UNCHANGED <<caller, clock, asOf, files, status, attempt, stop, kills>>

(* scan_markets raises when a file is missing, and the engine when the     *)
(* bars of the two sides have different times, as those of two refreshes   *)
(* mostly do.                                                              *)
ScanFails ==
    /\ AtScan /\ Selected(Instruments[at])
    /\ Leave
    /\ UNCHANGED <<caller, clock, asOf, files, status, stop, kills>>

EndScan ==
    /\ pc = "scan" /\ at > Len(Instruments)
    /\ Leave
    /\ UNCHANGED <<caller, clock, asOf, files, status, stop, kills>>

----------------------------------------------------------------------------
(* SIGTERM and SIGINT: the scan at work is completed first.                *)
RequestStop ==
    /\ caller = "daemon" /\ pc # "stopped" /\ ~stop
    /\ stop' = TRUE
    /\ UNCHANGED <<caller, clock, asOf, pc, files, status, locals, at, attempt, kills>>

Stop ==
    /\ pc = "idle" /\ stop
    /\ pc' = "stopped"
    /\ UNCHANGED <<caller, clock, asOf, files, status, locals, at, attempt, stop, kills>>

(* The process dies, or the workflow run is cancelled, at any step. The    *)
(* daemon's directory is a volume and survives.                            *)
Kill ==
    /\ pc \in {"pool", "scan"}
    /\ kills < MaxKills
    /\ kills' = kills + 1
    /\ Leave
    /\ stop' = FALSE
    /\ UNCHANGED <<caller, clock, asOf, files, status>>

Step ==
    \/ \E m \in Markets, s \in Sides : SideDone(m, s) \/ SideFails(m, s) \/ SideAborts(m, s)
    \/ PublishMarket \/ SkipMarket \/ FinishRefresh \/ RefreshFails
    \/ ScanMarket \/ ScanFails \/ EndScan
    \/ Stop

Next == Tick \/ Wake \/ Step \/ RequestStop \/ Kill

Spec == Init /\ [][Next]_vars

(* Requests time out, so every step ends.                                  *)
FairSpec == Spec /\ WF_vars(Step)

----------------------------------------------------------------------------
(* Every variable keeps its type.                                          *)
TypeOK ==
    /\ caller \in Callers
    /\ clock \in 1..MaxTime
    /\ asOf \in 0..MaxTime
    /\ pc \in {"idle", "pool", "scan", "stopped"}
    /\ csv \in [Markets -> [Sides -> 0..MaxTime]]
    /\ quote \in [Markets -> 0..MaxTime]
    /\ status \subseteq Markets
    /\ waiting \subseteq Markets \X Sides
    /\ rows \subseteq Markets \X Sides
    /\ outputs \subseteq Markets
    /\ at \in 1..Len(Instruments) + 1
    /\ attempt \in 0..Attempts
    /\ stop \in BOOLEAN
    /\ kills \in 0..MaxKills

(* A scan that meets a current quote has the candles of both sides that it *)
(* was made of beside it. The daemon scans a market whose refresh failed   *)
(* with what the refreshes before it have left; where the bars of its      *)
(* sides happen to have the same times, only the age of the quote keeps an *)
(* entry from being taken on sides of different refreshes.                 *)
CurrentQuoteIsWhole ==
    \A m \in Markets :
        pc = "scan" /\ Selected(m) /\ HasFiles(m) /\ Current(m) =>
            \A s \in Sides : csv[m][s] = quote[m]

(* What refresh reports as complete, and every market that a run of the    *)
(* workflow scans, is complete on disk: a quote and both sides that end    *)
(* with the same minute.                                                   *)
ReportedIsComplete ==
    \A m \in Markets :
        m \in outputs \/ (pc = "scan" /\ caller = "workflow" /\ Selected(m))
            => quote[m] > 0 /\ \A s \in Sides : csv[m][s] = quote[m]

(* Refreshes and their retries come to an end, and so do scans.            *)
CyclesEnd == pc \in {"pool", "scan"} ~> pc \in {"idle", "stopped"}

(* A request to stop ends the daemon, unless it dies before.               *)
StopEnds == stop ~> (pc = "stopped" \/ ~stop)

(* live_data.py, refresh: "A temporary failure for one instrument no       *)
(* longer blocks healthy markets."                                         *)
FailureBlocksNoOther ==
    AtScan /\ Blocked(Instruments[at]) =>
        \A i \in at + 1..Len(Instruments) : Instruments[i] \notin outputs

----------------------------------------------------------------------------
(***************************************************************************)
(* The inductive invariant.                                                *)
(***************************************************************************)

(* A refresh completes no market before all sides are back, so no file of  *)
(* a completed market changes until the scan is over.                      *)
OutputsInv ==
    /\ pc = "idle" => outputs = {}
    /\ waiting # {} => outputs = {}
    /\ \A m \in outputs : quote[m] > 0 /\ \A s \in Sides : csv[m][s] = quote[m]
    /\ pc = "scan" /\ caller = "workflow" => status = outputs

RowsInv == \A m \in Markets, s \in Sides : <<m, s>> \in rows => csv[m][s] > 0

(* The daemon's quotes are no younger than the refresh that wrote them, and *)
(* those of earlier refreshes have aged by the next candle close.          *)
AgeInv ==
    caller = "daemon" =>
        /\ asOf <= clock
        /\ asOf > 0 => asOf \in CandleCloses
        /\ pc \in {"pool", "scan"} => asOf > 0
        /\ pc = "pool" => clock <= asOf + RefreshLimit
        /\ \A m \in Markets : quote[m] > 0 =>
               /\ asOf > 0 /\ quote[m] <= asOf + RefreshLimit
               /\ pc \in {"pool", "scan"} /\ m \notin outputs =>
                      quote[m] + MaxQuoteAge < asOf

CsvInv == \A m \in Markets, s \in Sides : csv[m][s] <= clock

IInv == TypeOK /\ OutputsInv /\ RowsInv /\ CsvInv /\ AgeInv
=============================================================================
