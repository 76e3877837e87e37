# TLA+ verification of the Wickless candle scanner

This directory holds a TLA+ development of the repository: specifications of its
components, TLC configurations that check them on small instances, and proofs
that TLAPS checks for every value of the constants. `PROJECT.json` lists the
components, the runs, the hazards the properties are aimed at, the source lines
each definition stands for, and the theorems.

    tlasany M.tla                        parse a module
    tlc -workers 2 -config X.cfg M.tla   model-check module M under X.cfg
    tlapm M_proofs.tla                   check the proofs of a module

## The system

| Component | State | Operations | Interacts with |
|---|---|---|---|
| Live scanner (`wickless_bot.py`, `live_scan.py`) | state file: handled signals, one position per market, 500 last rejections | `scan_markets`: load and prune, settle positions and filtered entries, find entries, decide each, claim, post, record | market CSVs and quotes, Discord, ML runtime, state file |
| Scan daemon (`run_daemon.py`) | stop flag | sleep to the next candle close, refresh, scan, survive errors | live data, scanner, Docker restarts |
| Live workflow (`live-signals.yml`) | state cached between runs | restore, refresh, select complete markets, scan, save | GitHub cache, scanner, heartbeat dispatches |
| Live data (`live_data.py`) | CSVs per market and side, quote file, status file | download 14 days of minute bars in a thread pool, write each side when complete | scanner, daemon, workflow |
| Backtest engine (`no_wick_research.py`) | open positions, pending orders, counters | bar by bar: close, expire, invalidate, fill, gate | scanner (replay), backtests, research |
| Heartbeat (`scripts/scanner_health.py`) | none of its own; run history | evaluate, dispatch one recovery, wait, evaluate again | GitHub API, live workflow |
| ML (`wickless_ml/`) | `registry.json`, models, deployments | score, train, promote, canary, activate, roll back | scanner (filter and evidence), research data |
| Research ledger (`autoresearch/run_experiment.py`, `attempts.py`) | hash-chained ledger, incumbent, attempts | append, accept, synchronise | nightly batch, evaluator |
| Nightly research (`nightly_batch.py`, `coach.py`) | proposals, coach state | select, evaluate, coach every 15 to 25 attempts | ledger, evaluator |
| Evaluation (`evaluator.py`, `phase1_validation.py`, ...) | none | gates, lexicographic comparison, statistics | engine |
| Scripts, tools, Pine | reports | report, download, chart | - |

What makes them correct:

- **Scanner.** No alert twice, whatever crashes; no decision forgotten while a
  scan can still find its signal; a market with an open confirmed trade stays
  taken; no invented outcome; every found entry is decided; ended trades free
  their market.
- **Workflow.** The same across runs that share only a cache and may overlap.
- **Live data.** A market is offered to a scan only with matching sides and quote.
- **Engine.** Every setup is counted in exactly one outcome; one position per
  pair; exits are ordered pessimistically.
- **ML.** Only a model's own evidence lets it filter, for the release it was
  trained for, whichever checkouts scans, trainings and monitor runs work on; a
  model that drifts does not filter for ever.
- **Ledger.** Ledger, incumbent, log and checkpoint agree after every death; the
  promotions form a chain; no candidate is tested twice in a batch or after it.
- **Heartbeat.** A recovery is a new run that succeeded; the alarm is raised only
  when the dispatched recovery has ended in vain.

The hard behaviours: a process that may die between a file write and a network
call; a network call whose failure says nothing about delivery; retention,
lookback and history windows that have to cover each other; a scan that fails on
a later market after it changed memory for an earlier one; a clock that is read
before the data is fetched; trades that outlive the records of their signals;
workflows in different concurrency groups that publish the same file from
checkouts of different age; programs that keep five files in step without a
transaction; a monitor that counts itself among what it observes.

## Modules

### `AlertProtocol` (abstract)

What the scanner promises about an alert: one verdict per signal, an alert only
under its claim and only once, a market held by at most one confirmed signal and
claimed only when free. It knows no file, no process and no clock.

### `SignalScanner`

`scan_markets`, driven by the daemon (`Daemon = TRUE`) or the workflow
(`FALSE`).

| TLA+ | Code |
|---|---|
| `disk`, `mem` | `.signal-state/seen.json`, the `ScannerState` of the running scan |
| `pc`, `todo`, `queue` | where `scan_markets` is: markets left, entries of the market left |
| `asOf`, `now` | the scan's clock reading, the wall clock |
| `feedAt` | when the data of a market was fetched |
| `resolvedAt` | when the price first reached stop or target of a signal |
| `alerts`, `verdict`, `faults` | auxiliary: Discord's channel, what was durably decided, faults spent |
| `Wake`, `BeginScan` | `run_once` up to `_load_state` and the pruning |
| `LoadInstrument`, `LoadFails` | loading bars and quote, `_update_active_position`, `_update_filtered_outcomes`, `find_fresh_origin_limit_signals`; or an exception there |
| `SkipKnown`, `Reject`, `Filter`, `Claim` | the branches of the loop over signals, each with its save |
| `DiscordAccepts`, `RecordSent`, `DeliveryFails` | `post_discord` and what follows it |
| `EndScan`, `Crash` | the last save; the end of the process anywhere else |

Prices are abstracted to the time at which a trade ends. Whether an entry is
actionable depends on prices too, so rejection is always possible; `Executable`
and `Free` are the necessary conditions for anything else. `Replayed` is the
one-position gate of the engine, which replays the downloaded window and so
hides entries behind a trade it can still see. A decision and its `_save_state`
are one step because the code writes a temporary file and renames it.

Auxiliary variables never guard an action of the scanner. The bounds are
`MaxTime` (clock), `MaxFaults` (crashes, failed deliveries, failed refreshes),
and the small sets of markets and signals.

### `ActionsScan`

Runs of `live-signals.yml`, each on a fresh runner, that hand the state file on
through the Actions cache. Where `SignalScanner` asks what one process does to
one file, this module asks what many do to copies of it; of the file it keeps
the claims.

| TLA+ | Code |
|---|---|
| `pc` | where each workflow run is: pending in its group, restoring, scanning, saving |
| `work` | the claims in `.signal-state` on the runner (`NoState`: no directory) |
| `saved`, `newest` | cache entries by run id, and which of them is the latest |
| `Enqueue`, `Start` | `concurrency`: one pending and one running run per group |
| `Restore` | exact key of the run id first, then the latest entry with the prefix |
| `SkipScan`, `Decide`, `Post`, `Record`, `FinishScan` | the scan step, split where a cancellation can fall between |
| `Interrupt` | `cancel-in-progress`, `timeout-minutes`, a failing step: the `if: always()` steps remain |
| `Save` | `actions/cache/save`; entries are immutable |
| `Lose`, `Rerun` | a runner that vanishes; a run started again by hand |

What GitHub does is assumed, as its documentation has it and the workflow relies
on it: a newer run displaces the pending one of its group, waits until the
cancelled one has ended, and `always()` steps of a cancelled job still run.
A cancellation is not tied to a later trigger: any step may be interrupted at any
time, which includes every cancellation a newer run can cause.

| Run | Instance | Question |
|---|---|---|
| `actions_one_event` | 3 scheduled runs, 2 signals, 1 lost runner, 1 rerun, `FairSpec` | until a run is lost or started again no repost and every claim handed on; the cache never forgets; runs end |

Three runs are enough for one that saves, one that is displaced or cancelled and
one that restores what the others left. The runs are finitely many and stop when
all are done, hence `CHECK_DEADLOCK FALSE`.

### `MCSignalScanner` and its configurations

| Run | Instance | Question |
|---|---|---|
| `scanner_one_market` | 3 entries of 1 market one tick apart, lookback = retention = 1 tick, window 2 ticks, 1 fault, rehearsals allowed | all safety invariants; implements `AlertProtocol`; before the fault, never two open trades of the market |
| `scanner_live` | 2 markets, 3 entries, 1 fault, `FairSpec` | scans end, found entries are decided, ended trades are released |
| `scanner_overlap` | as the first, 4 ticks | **violated**: see findings |

Why the bounds are enough: with lookback and retention of one tick an entry can
be found, decided, retained, pruned, lapsed and outlived by its trade within
three or four ticks, which is every order of these events; the third entry lets
a record push another from an audit list of two; one fault can strike between
any two steps, and the second scan sees its effect.

Fairness. `FairSpec` requires that an enabled step of a scan is eventually
taken. The daemon's loop has no exit but its stop flag, catches what a scan
raises and is restarted by Docker. Time, price movements and faults are not
fair. In `ActionsScan` the steps of every triggered run are fair: GitHub starts a
pending run when its group is free, and every step ends, if only at the time
limit of the job. Triggers, cancellations, reruns and losses are not fair.

### `WicklessEngine`

`run_no_wick_backtest`, the bar-by-bar engine that backtests, research and the
scanner's replay share. One action per branch of the loop body; `pc` is the part
of it that is at work.

| TLA+ | Code |
|---|---|
| `entryModel` | `NoWickConfig.entry_model`, chosen at the start of a run |
| `index`, `clock` | the bar and the time it opens; bars can be missing between two bars |
| `history` | `bars` and `trends` up to this bar: when each opened, the trend at its close |
| `prior`, `trend` | `trends[index - 1]`, `trends[index]` |
| `positions`, `stillOpen` | `positions`, `still_open` |
| `pending`, `stillPending` | `pending`, `still_pending` |
| `positionWasOpen`, `filledThisBar` | the flags of the bar |
| `counts` | the counters of `NoWickResult`, all rejections in one |
| `CloseOldest`, `KeepOldest`, `ExitsDone` | the loop over positions |
| `InvalidateSetup` ... `FillSetup`, `SetupsDone` | the loop over setups, branch by branch |
| `NoSignal`, `RejectSignal`, `SignalBlocked`, `EnterAtClose`, `QueueSetup` | the bar's own candle |

Prices are abstracted to what the loop asks of them: whether a bar reaches the
stop, the target or the origin, whether a candle is eligible, whether the risk
passes. Every combination is possible, which is more than prices allow.

| Run | Instance | Question |
|---|---|---|
| `engine` | all three entry models, setups of 3 bars, 5 bars, one of which may be missing | one outcome per candle; a setup fills only on an unbroken history; one fate per fill; one trade at a time; nothing ends before it is entered |

The loop looks at one close per bar, so a setup that was passed over while the
trend was against it would not be noticed once the trend is back: the signals of
two bars, the position, the turn and the return take five bars, and setups that
live for three. That is also enough for a setup to be held, to outlive its bars and
to meet a second one. No action reads `history`: it is there for `FillsUnbroken`. A
history ends, hence `CHECK_DEADLOCK FALSE`.

### `LiveRefresh`

`refresh` of `live_data.py`, cycle after cycle under the daemon in one data
directory, and up to three times on the fresh runner of a workflow run.

| TLA+ | Code |
|---|---|
| `asOf` | `now` of `run_once`, read before the refresh; the workflow reads the clock after it |
| `csv`, `quote`, `status` | the files on disk, as the minute of their last candle; the status file as its `successful_instruments` |
| `waiting`, `rows`, `outputs` | the futures of the pool, `market_rows`, `outputs` |
| `SideDone`, `SideFails`, `SideAborts` | one future handled: written, an error caught, an error that `refresh` does not catch |
| `PublishMarket`, `SkipMarket` | the loop that compares the sides and writes quotes |
| `FinishRefresh`, `RefreshFails`, `GiveUpOrRetry` | status and result; the daemon waits for the next candle, the workflow tries again |
| `ScanMarket`, `ScanFails` | `scan_markets` loads each market; the daemon takes all, the workflow those of the status |
| `Current` | the two checks of the quote's age in `validate_signal_actionability` |
| `RequestStop`, `Stop`, `Kill` | `STOP`; deaths and cancellations |

A download and the write of its side are one step: nothing else reads between
them. Futures complete in any order, each with any minute up to now, also one
before that of the file it replaces, which `refresh` does not look at. The number
of pool workers only limits these orders and is left out.

So a refresh that brings one side and not the other leaves a market with sides of
different refreshes and the quote of an earlier one, in any order of their
minutes. The daemon scans it all the same. Two things keep an entry from being
taken there: the engine raises at bars with different times (`ScanFails`; the
choice is free, because sides of different refreshes may have the same bars, of
which only the last differs), and no quote is current that the cycle's own refresh
has not written. The second is `CurrentQuoteIsWhole`. It rests on
`TimingAssumption`: the daemon sleeps to a candle close (`CandleCloses`, 15 minutes
apart), a refresh ends within `RefreshLimit`, and a quote is current for
`MaxQuoteAge`, two minutes. Eight markets are four rounds of a pool of four, each
request with three tries of 25 seconds and three seconds between them, some five
minutes. The 25 seconds are those of one read: a feed that trickles, or a
`run_daemon.py --once` in the daemon's directory at another minute, is outside the
assumption. It is not used for the workflow, which starts with no files.

| Run | Instance | Question |
|---|---|---|
| `live_refresh` | both callers, 2 markets, 3 minutes, candle closes 2 apart, refreshes of up to 1, quotes current in their own minute, 2 attempts, 1 death, `FairSpec` | a current quote is that of the candles beside it; what is reported complete is complete; retries end; a stop request ends the daemon |
| `refresh_daemon` | the daemon, 2 markets, 2 minutes, one candle close, no deaths | **violated**: see findings |

Closes two minutes apart are as close as `TimingAssumption` allows with a refresh
of one: a quote of the first cycle may be of either of its minutes, a side of the
second cycle of any. A daemon that wakes at any minute (`WakeAnyMinute`) violates
`CurrentQuoteIsWhole`. Two attempts are one that is repeated and one that is not;
the workflow has three. `FairSpec`
requires the steps of a refresh and a scan: requests have time-outs of 25 seconds
and three tries. The daemon may stop, hence `CHECK_DEADLOCK FALSE`.

### `MlDeployment`

The registry that trainings (`phase3_training.py`), the daily monitor
(`monitor.py`) and the scans (`runtime.py`) meet in.

| TLA+ | Code |
|---|---|
| `main` | `registry.json` on `main`: release, champion, deployment, history |
| `release` | `PRODUCTION_RELEASE_SHA` of `main` |
| `models` | the release each model file was trained for |
| `scan` | the checkout a scan or the daemon's image scores with |
| `rows` | resolved signals in the scanner's state: model, release, drift, whether it was filtered |
| `monitor`, `trainer` | their runs: step, checkout, result |
| `behind` | the fields of `main` changed since the monitor's checkout: git merges the others |
| `earned` | auxiliary: which model has ever had the evidence for which mode |
| `CheckOut`, `Score` | `load_champion`, `score_signal` |
| `TrainStart`, `TrainPublish`, `TrainFails` | `train_and_register`, then `git pull --rebase -X theirs` |
| `MonitorStart`, `MonitorEvaluate`, `MonitorPublish`, `MonitorFails` | `monitor_and_transition`, then a rebase that fails on a conflict |

The statistics a model's data cannot decide (calibration, gains, the holdout)
are free choices; counts and the drift rate are exact. The registry's
challenger, which nothing reads, reports and messages are left out.

| Run | Instance | Question |
|---|---|---|
| `ml_deployment` | 2 models, 2 releases, 3 signals, thresholds and window of 1, history of 1, 1 lost monitor run, `FairSpec` | main and every scan filter only with what has earned it; drift ends filtering |
| `ml_publication` | as above with a history of 4 | **violated**: see findings |

Three signals are enough to earn the canary, earn activation and drift; two
models and two releases for a promotion between the monitor's checkout and its
publication. `FairSpec` requires monitor runs, which the schedule starts every
day; losses are bounded, and nothing else is fair. Signals, models and releases
run out, hence `CHECK_DEADLOCK FALSE`.

### `ResearchLedger`

The nightly search: `reference_benchmark.py`, `bootstrap_benchmark.py`,
`nightly_batch.py`, `run_experiment.py` and `coach.py` over the files they write
one after the other.

| TLA+ | Code |
|---|---|
| `main` | the five files on `main` |
| `ledger`, `attempts`, `incumbent`, `blocked`, `coached` | `results.jsonl`, `attempts.log`, `incumbent.json`, the playbook's "Do not try", `coach_state.json` where a program works on them |
| `stamp`, `work` | release and validation profile of `main` and of the checkout at work |
| `pc`, `mode`, `planned`, `plan`, `todo` | where the run is, its mode, the rest of its batch, what it is about to write |
| `Nightly`, `Request`, `Local` | the schedule; a refresh or bootstrap; `nightly_batch` by hand, on a clone or on what a killed one left |
| `Reference`, `Bootstrap` | `ensure_reference_benchmark`, `bootstrap_benchmark.main` |
| `Coach`, `Plan`, `Experiment` | `run_coach_if_due`, `plan_proposals`, `run_experiment.main` up to its writes |
| `AppendLedger`, `WriteIncumbent`, `Sync` | its writes |
| `Publish`, `Refuse`, `Die` | one commit to `main`; the refusals; the end of the process anywhere |

The hash chain is the order of the ledger. What a backtest finds is a free
choice of gates passed or missed and of a score; the diversified order and the
surrogate's choice within a plan are free as well. Release and profile are one
stamp, since the policy whose digest is the profile names the release. A local
batch and the workflow do not share files, so they are taken one at a time.

| Run | Instance | Question |
|---|---|---|
| `research` | 3 candidates of 2 categories, 2 scores, batches of 2, coach every 2 attempts, 2 stamps, 1 request, 1 death | the incumbent is the last kept record; promotions improve; log and checkpoint agree with the ledger; nothing is tested twice |
| `research_starved` | the same without stamps, requests and deaths, `FairSpec` | **violated**: see findings |

A batch of two and an interval of two let the coach fall due inside a batch and
between batches; the third candidate is left for a resumed or later batch; with
two scores a candidate can beat, tie and fall behind. A death falls between any
two writes. `FairSpec` requires the schedule and the steps of a started run.

### `ScannerHealth`

`main` of `scanner_health.py` against a history of live runs that changes between
any two of its requests.

| TLA+ | Code |
|---|---|
| `runs` | what the GitHub API says of `live-signals.yml`; the id is the place |
| `asked` | whether the dispatch was accepted and its run created |
| `started`, `asOf`, `checkpoint`, `seen`, `recovered` | the job's start, the last `datetime.now`, `checkpoint`, `before_ids`, what `wait_for_recovery` returned |
| `Verdict` and what it is made of | `evaluate_runs` |
| `Start`, `Assess`, `Dispatch`, `Poll`, `TimeUp`, `ReadClock`, `Reassess`, `Post` | `main` in order |
| `Trigger`, `Appear`, `Begin`, `End`, `Rerun` | GitHub and the live workflow |
| `Die`, a second `Start` | a request that fails, the job's limit; `cancel-in-progress` |

| Run | Instance | Question |
|---|---|---|
| `scanner_health` | 2 live runs, 2 heartbeats, 1 rerun, 6 ticks; fresh for 3, waiting 1, limited to 2 | a recovery is a new success; no alarm while a new run is at work or has succeeded |

A tick is some five minutes: the wait (5 minutes) is shorter than the job's limit
(15), and that than the freshness (20), which is what `UnhealthyIsEarned` rests
on. Two runs are enough for an old scan and a recovery, or a recovery and a
scheduled scan that outruns it. Clock and runs are bounded, hence
`CHECK_DEADLOCK FALSE`.

## Findings

- **A crash can lead to overlapping trades** (`scanner_overlap`). README items 10
  and 14 exclude overlap after a restart. The claim excludes a repost; the
  position, however, is written only after `post_discord` returns. If the
  process dies or the request times out after Discord accepted, nothing holds
  the market. While the trade's candle is inside the downloaded 14-day window
  the replayed engine still hides later entries; after that it does not, and a
  second alert of the same market goes out. The instance compresses the 14 days
  to two ticks.
- **In the daemon one market can block others** (`refresh_daemon`). `refresh`
  says that it no longer does. The daemon ignores which markets a refresh
  completed; until a market has been completed once, the scan of every cycle
  fails at its missing files, and the markets after it are not scanned. Later a
  refresh of one side alone has the same effect, through the engine's check of the
  bars' times.
- **A training can drop a transition from the history** (`ml_publication`). The
  workflow's comment means to keep main's registry on a conflict; in a rebase
  `-X theirs` keeps the training's. A transition that the monitor published
  since the training's checkout disappears from the history; the deployment it
  led to stays.
- **The search can stop by itself** (`research_starved`). Once the coach has
  blocked every category, each night plans an empty batch; without attempts the
  coach is never due again. The checked-in playbook is in that state. The
  instance blocks a category after one attempt instead of five.

Disagreements met while modelling that no run shows:

- `live-signals.yml:105` lets a run publish signals up to 900 seconds old where
  `README.md:81` and `:111-113` say 120. `SignalScanner` takes the age as a
  constant.
- `docs/AUTOMATION.md:18` says that only one scan may run at a time. Scheduled
  and dispatched runs have a concurrency group each (`live-signals.yml:21`), both
  restore the same state, and the later save replaces the earlier one.
  `ActionsScan` is proved for the runs of one event.
- A workflow run that is started again keeps its run id, so it restores the older
  state it saved itself (`live-signals.yml:44`) and can post again what a later
  run has posted, against `README.md:82-83`. Hence the condition `Undisturbed`.
- A drifting model that was rolled back can re-enter the canary at once: the
  evidence for the canary is all of its rows, the old ones included. It is rolled
  back again, which is all that `DriftEndsFiltering` says.
- A recovery scan that is merely slow is reported as "superseded by a fresh scan"
  (`scanner_health.py:413-416`), although no scan has finished.

Not a matter of these models, but of their premises: the `Dockerfile` copies
neither `production_session.py`, which `live_scan.py` imports, nor `wickless_ml`,
which `scan_markets` imports. The daemon is modelled as run from a checkout.

## What is proved

Every invariant and every action property of the passing runs is a theorem, and
so is the refinement; what remains to TLC alone is liveness.

`SignalScanner_proofs` proves type correctness and that `IInv` is inductive, and
derives `AtMostOneAlert`, `DecisionsRemembered`, `AlertsAreClaimed`,
`ConfirmedTradeHoldsMarket` and `OutcomesAreReal`. `SignalScannerPromises_proofs`
proves that `Spec` implements `AlertProtocol`, and `FaultlessTradesExclude`,
`OverlapsAreUnconfirmed`, `RejectionsAudited` and `MarketsAreReleased`. All hold for any sets of markets and
signals, any fill times and windows, any length of the audit list, any number of
faults.

Assumptions: the types of the constants; `MaxSignalAge <= Lookback` (checked by
`scan_markets`) and `Lookback <= Retention` (14 days against 45 minutes);
`OneEntryPerBar`, one entry per market and candle close.

The argument. None of the properties is inductive by itself: each depends on
the record of a signal being on file whenever a scan can find the signal.
`SoundFor` says for a copy of the state that is current at `t`: what was decided
is known or has lapsed at `t`; what is known was stamped no earlier than the
fill, or has lapsed; undecided signals hold no market. The second part is what
makes pruning safe: a record older than the retention belongs to a signal older
than the lookback. The file is sound at the clock of the scan, the memory of a
running scan too (`DiskInv`, `MemInv`); the memory differs from the file by
releases only, which is why saving it is a `Release` of the protocol.
`PostingInv` describes the network call: the entry at the head is claimed on
file, its market is free, and Discord shows it exactly when it accepted. With
these, `Claim` can only meet an undecided signal without alerts, and
`RecordSent` can only take a market no confirmed trade holds.

Four results need an invariant of their own beside `IInv`.
*Exclusion:* while no fault has been spent, every alert Discord shows is confirmed
or that of the entry at the head (`ConfirmInv`). The first kind holds its market
on file, the second was claimed when the market was free, and there is one head:
two open trades of a market cannot both be shown. The choice that `Replayed` makes
plays no part in it. With faults, `OverlapNeedsFailure` says that the overlap of
`scanner_overlap` has the one cause that the finding names: of two open trades of
a market one was claimed and never confirmed. It follows from the steps of
`AlertProtocol` (`ShownStep`) and the refinement. *The audit list* (`AuditInv`, of both copies): the list is
in the order of its stamps, holds rejections only, and every rejection on record
is listed or no younger than any record on a full list. A new rejection carries
the scan's clock, so it is the youngest, and what it pushes out was the oldest
(`AuditedLog`, `AuditDecided`). The delicate step is closing a trade whose record
was pruned: it leaves a record without a stamp, which would break the order if a
listed signal could be a position; `HeldByTrades` says that positions belong to
sent or rehearsed signals. *Release* (`ReleaseInv`): what the memory of a scan has
freed and the file still holds was ended by the price before, so no save, wherever
the scan stops, takes a market from an open trade, and none hands a market from
one trade to the next. No run states `MarketsAreReleased` and
`OverlapsAreUnconfirmed`; TLC checked them on the instances of `scanner_one_market`
and `scanner_overlap` before they were proved.

`ActionsScan_proofs` proves `TypeCorrect` for all faults and events, and
three results for any number of runs of one event (`OneGroup`) and any signals.
`OnceAcrossRuns` and `ClaimsHandedOn`: until a runner is lost or a run started
again (`Undisturbed`), no signal is posted twice and every posted claim is handed
on. `CacheGrows`: with any losses and reruns there is one scan at a time, and no
cache entry replaces a richer one. The argument: runs of a group exclude each other (`OneScanAtATime`), so between a run's restore and its save
nobody else changes the cache; hence a run that can still save knows what the
cache knows (`WorkInv`, `SaverInv`), and its save only adds. A signal that was
posted is in the cache or on the one runner at work (`AllHandedOn`), so the scan
that decides a signal cannot have missed its alert (`PostingInv`).

`WicklessEngine_proofs` proves type correctness, `Conservation`
(`SetupsConserved`), `OneTradeAtATime` (`OnePosition`, `TradesDisjoint`) and
`NothingBeforeEntry` for every entry model, expiry and history. Conservation is
inductive; each action moves both sides of the balance by the same amount
(`Moves`, `BalanceKept`). The others need to know that entries never lie more than
the current close ahead (`EntriesInv`), that a trade which ended on this bar shows
in the flags of the bar (`ExitsInv`), and that the loops leave nothing behind
(`LoopInv`): then an entry finds only trades that ended strictly before it.
`FillsStayUnbroken` (`FillsUnbroken`) needs `HistoryInv`: every setup that waits has
been good on each bar it was looked at (`GoodTo`), and one that is held or waits is
looked at on every bar, so the single close that the next bar adds extends an
unbroken history (`LiveIsGood`, `GoodExtends`); what comes later changes no bar of
the past (`PastStays`).
`OneFatePerFill` (`EveryFillHasOneFate`) needs `FateInv`: a fill is in exactly one
of the books, the open positions, those the loop over exits has passed and the
trades, and a candle that waits as a setup is in none of them (`Taken`, `Waiting`,
`TakenOnce`, `WaitingOnce`); every action moves at most one candle between them.

`LiveRefresh_proofs` proves type correctness and, for any markets and any
failures, `CurrentMarketsAreWhole` (`CurrentQuoteIsWhole`) and `ReportsAreTrue`
(`ReportedIsComplete`). A market is
completed only when no download is outstanding, so its files cannot change before
the scan (`OutputsInv`). A quote is no younger than the refresh that wrote it
(`CsvInv`, `AgeInv`); by `TimingAssumption`, which only this theorem uses, one that
an earlier refresh wrote has aged out at the next candle close, so a current quote
is that of a market this refresh has completed.

`MlDeployment_proofs` proves type correctness, `FilteringEarned` and
`AppliedEarned` for any models, releases, thresholds and lost runs. A merge could
give one champion another's mode; it cannot, because a training that changes the
champion changes the deployment with it (`CheckoutInv`): where the monitor's
transition does not conflict, main still has the champion that it is about
(`EvaluatedInv`). A scan filters by its own checkout, which was earned when it
was made (`ScanInv`), and evidence once earned stays. `LadderClimbed`
(`OneStepAtATime`) is about steps: main goes from shadow to canary to active
without leaving one out and with one champion, and falls back to shadow only.
The monitor decides on its checkout, so this needs `LadderInv`: as long as nothing
that main has changed conflicts with the publication, main's deployment is still
the one of the checkout, from which the evaluated one is a single step. No run
states it; it was checked on the instance of `ml_deployment` before it was proved.

`ResearchLedger_proofs` proves type correctness, `AuditAlwaysAgrees`,
`IncumbentCurrent`, `PromotionsChain` and `BatchesNeverRepeat` for any candidates,
batch sizes, intervals, requests and deaths, from the types of the constants
alone. `AuditInv` says of the files at work and of those on main that the log
matches a prefix of the ledger and the checkpoint does not pass the log; syncing
only adds rows (`SyncedCountsMore`). `PromotionInv` follows the incumbent through
the write that is about to be made: between the ledger's line and the incumbent's
file the last kept record is the one in `todo`. It is about the workflow's files
and main; a local batch that dies there is left out of it, and stays out, since
its files never reach main. `BatchInv` says that what is left of a plan is not in
the ledger and holds no candidate twice, wherever the batch is, so a resumed batch,
which plans from the ledger, cannot repeat one.

`ScannerHealth_proofs` proves type correctness, `RecoveriesReal`
(`RecoveryIsReal`) and `AlarmsEarned` (the action property `UnhealthyIsEarned`)
for any history of live runs, waits, limits and dispatches. `ClockInv` says
that a heartbeat ends within its job's limit; `WaitInv` that whoever waits has
asked for a recovery, and that what is not in `before_ids` was created since the
start; `RecoveredInv` that the run taken for the recovery is new and has
succeeded, if none was started again since. A run that is created
after the start is fresh for as long as the job may live (`NewerIsFresh`), which
is why the second evaluation, on a later history, cannot raise the alarm over it.

TLC checked every inductive invariant (`IInv`, `CalmInv`, `GrowInv`, `FateInv`,
`AuditInv`, `ConfirmInv`, `ShownInv`, `ReleaseInv`, `LadderInv`, `HistoryInv` and those of `ResearchLedger_proofs`) before it was proved. Only model-checked: `ScansEnd`,
`FoundIsDecided`, `EndedTradeReleases`, `RunsEnd`, `DriftEndsFiltering`,
`CyclesEnd` and `StopEnds`, all liveness under fairness, which TLAPS does not handle
here. No module that is proved about declares a RECURSIVE operator.

## Plan

Done: `AlertProtocol`, `SignalScanner`, `ActionsScan`, `WicklessEngine`,
`LiveRefresh`, `MlDeployment`, `ResearchLedger` and `ScannerHealth`, with their
proofs. Worth doing next: that what the scanner takes from the replay
(`Replayed`) is what the engine does; a composition of `ScannerHealth` with runs
of two events in `ActionsScan`; the pure algorithms (actionability reasons,
15-minute aggregation, wake-up time, pivots) against reference definitions.

## Not modelled

- Numbers: indicators, prices, features, model fitting and scores, bootstrap and
  surrogate statistics. They are free choices wherever a model branches on them.
- The arithmetic of `seconds_until_next_scan`, candle decoding and aggregation:
  pure functions that the repository's unit tests cover. `LiveRefresh` takes from the
  first that the daemon wakes at candle closes, `SignalScanner` leaves the time free.
- The pruning of resolved rows (`wickless_bot.py:1654-1662`) in `MlDeployment`,
  which keeps them; in `SignalScanner` it is modelled.
- A death between the two writes of `coach.py:241-257`, which `Coach` of
  `ResearchLedger` makes in one step.
- Within a research plan, priorities and order; `candidate.py`, run reports.
- Messages, logs, charts, report generation, `system_health.py`, the scripts and
  tools, and the Pine indicators, which keep no state of the system.
