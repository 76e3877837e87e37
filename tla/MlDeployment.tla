---------------------------- MODULE MlDeployment ----------------------------
(***************************************************************************)
(* The life of a meta-label model: the training that registers it, the     *)
(* scans that score signals with it, the monitor that lets it filter, step *)
(* by step, and takes that back, and the registry on main through which    *)
(* the three meet. Training and monitor run in different concurrency       *)
(* groups, each on a checkout that main may have left behind.              *)
(*                                                                         *)
(* Statistics that the model's data cannot decide (calibration, gains,     *)
(* gates on a holdout) are chosen freely; counts and the rate of signals   *)
(* outside the model's support are exact. Reports, notifications and the   *)
(* registry's challenger, which nothing reads, are left out.               *)
(***************************************************************************)
EXTENDS Integers, Sequences, FiniteSets

CONSTANTS
    Models,         \* the models that trainings can produce
    None,           \* null
    MinShadow,      \* minimum_shadow_outcomes
    MinCanary,      \* minimum_canary_outcomes
    Window,         \* rollback_window
    LiveOod,        \* maximum_live_ood_rate, in percent
    RollbackOod,    \* rollback_maximum_ood_rate, in percent
    HistoryLimit,   \* entries of history that the registry keeps
    MaxRelease,     \* bound: releases of the strategy
    MaxRows,        \* bound: signals that are scored
    MaxFaults       \* bound: monitor runs that are lost

ASSUME DeploymentAssumption ==
    /\ None \notin Models
    /\ MinShadow \in Nat \ {0} /\ MinCanary \in Nat \ {0} /\ Window \in Nat \ {0}
    /\ LiveOod \in 0..100 /\ RollbackOod \in 0..100
    /\ HistoryLimit \in Nat \ {0} /\ MaxRelease \in Nat \ {0}
    /\ MaxRows \in Nat /\ MaxFaults \in Nat

Modes == {"shadow", "canary", "active"}
Statuses == {"NO_CHAMPION", "COLLECTING_LIVE_EVIDENCE", "ROLLED_BACK", "CANARY", "ACTIVE"}
Fields == {"release", "champion", "deployment", "history"}

VARIABLES
    release,    \* PRODUCTION_RELEASE_SHA of main
    main,       \* registry.json on main
    models,     \* the release that each model file was trained for, or 0
    scan,       \* the checkout that a scan scores with
    rows,       \* resolved signals in the scanner's state, oldest first
    monitor,    \* the monitor's run: its step, checkout and result
    trainer,    \* the training's run: its step and checkout
    behind,     \* the fields main has changed since the monitor's checkout
    faults,
    earned      \* auxiliary: the evidence that each model has ever had

vars == <<release, main, models, scan, rows, monitor, trainer, behind, faults, earned>>

Shadow(status) == [mode |-> "shadow", status |-> status]

InitialRegistry(r) ==
    [release |-> r, champion |-> None, deployment |-> Shadow("NO_CHAMPION"), history |-> <<>>]

\* No run: nothing of a runner survives.
NoMonitor ==
    [pc |-> "idle", base |-> InitialRegistry(1), deployment |-> Shadow("NO_CHAMPION")]
NoTrainer == [pc |-> "idle", release |-> 1, base |-> InitialRegistry(1)]

\* Faulty variant of Latest: the history grows without limit.
LatestUnlimited(h) == h
Latest(h) == IF Len(h) > HistoryLimit THEN SubSeq(h, Len(h) - HistoryLimit + 1, Len(h)) ELSE h

Init ==
    /\ release = 1
    /\ main = InitialRegistry(1)
    /\ models = [m \in Models |-> 0]
    /\ scan = [release |-> 1, registry |-> main]
    /\ rows = <<>>
    /\ monitor = NoMonitor
    /\ trainer = NoTrainer
    /\ behind = {}
    /\ faults = 0
    /\ earned = {}

----------------------------------------------------------------------------
(* Git merges the lines of a commit into main: fields that both have       *)
(* changed since the checkout conflict.                                    *)

Merged(work, changed) ==
    [release    |-> IF "release" \in changed THEN work.release ELSE main.release,
     champion   |-> IF "champion" \in changed THEN work.champion ELSE main.champion,
     deployment |-> IF "deployment" \in changed THEN work.deployment ELSE main.deployment,
     history    |-> IF "history" \in changed THEN work.history ELSE main.history]

(* A release of the strategy leaves the registry as it is: stale.          *)
Release ==
    /\ release < MaxRelease
    /\ release' = release + 1
    /\ UNCHANGED <<main, models, scan, rows, monitor, trainer, behind, faults, earned>>

----------------------------------------------------------------------------
(* Runtime: a scan works on its own checkout, a daemon on that of its      *)
(* image.                                                                  *)

CheckOut ==
    /\ scan' = [release |-> release, registry |-> [main EXCEPT !.history = <<>>]]
    /\ UNCHANGED <<release, main, models, rows, monitor, trainer, behind, faults, earned>>

\* Faulty variant of Loaded: the release of registry and model is not compared.
LoadedAnyRelease(reg, r) == reg.champion # None

(* load_champion does not raise.                                           *)
Loaded(reg, r) ==
    /\ reg.release = r
    /\ reg.champion # None
    /\ models[reg.champion] = r

EffectiveMode(d) == IF d.status \in {"NO_CHAMPION", "ROLLED_BACK"} THEN "shadow" ELSE d.mode

(* A signal outside the model's support, or too uncertain, is left to the  *)
(* strategy; the canary cohort is a hash of model and signal.              *)
Scored(reg, ood, uncertain, selected) ==
    [model   |-> reg.champion,
     ood     |-> ood,
     applied |-> /\ ~ood /\ ~uncertain
                 /\ \/ EffectiveMode(reg.deployment) = "active"
                    \/ EffectiveMode(reg.deployment) = "canary" /\ selected,
     release |-> scan.release]

(* A signal that is scored, traded or not, becomes evidence when its       *)
(* position is closed: the row has the place of its closing time, and what *)
(* the checkout said when the signal was scored.                           *)
Score ==
    /\ Len(rows) < MaxRows
    /\ Loaded(scan.registry, scan.release)
    /\ \E ood, uncertain, selected \in BOOLEAN :
            rows' = Append(rows, Scored(scan.registry, ood, uncertain, selected))
    /\ UNCHANGED <<release, main, models, scan, monitor, trainer, behind, faults, earned>>

----------------------------------------------------------------------------
(* Training, one run at a time.                                            *)

TrainStart ==
    /\ trainer.pc = "idle"
    /\ trainer' = [pc |-> "training", release |-> release, base |-> main]
    /\ UNCHANGED <<release, main, models, scan, rows, monitor, behind, faults, earned>>

(* Not enough data, or a failure on the way: nothing of it is published.   *)
TrainFails ==
    /\ trainer.pc = "training"
    /\ trainer' = NoTrainer
    /\ UNCHANGED <<release, main, models, scan, rows, monitor, behind, faults, earned>>

Entry(event, m, mode) == [event |-> event, model |-> m, mode |-> mode]

Registered(reg, m, promoted) ==
    [release    |-> reg.release,
     champion   |-> IF promoted THEN m ELSE reg.champion,
     deployment |-> IF promoted THEN Shadow("COLLECTING_LIVE_EVIDENCE") ELSE reg.deployment,
     history    |-> Latest(Append(reg.history, Entry(
                        IF promoted THEN "CHAMPION_PROMOTED" ELSE "CHALLENGER_EVALUATED",
                        m, "shadow")))]

(* train_and_register works on its checkout; a stale registry is begun     *)
(* anew. The replayed commit wins a conflict (-X theirs).                  *)
TrainPublish(m, passed, better) ==
    LET r == trainer.release
        fresh == trainer.base.release = r
        reg == IF fresh THEN trainer.base ELSE InitialRegistry(r)
        promoted == passed /\ (reg.champion = None \/ better)
        changed == IF ~fresh THEN Fields
                   ELSE IF promoted THEN Fields \ {"release"} ELSE {"history"}
    IN  /\ trainer.pc = "training"
        /\ models[m] = 0
        /\ models' = [models EXCEPT ![m] = r]
        /\ main' = Merged(Registered(reg, m, promoted), changed)
        /\ behind' = (IF monitor.pc = "idle" THEN {} ELSE behind \cup changed)
        /\ trainer' = NoTrainer
        /\ UNCHANGED <<release, scan, rows, monitor, faults, earned>>

----------------------------------------------------------------------------
(* The monitor.                                                            *)

(* Every day; a run that is started by hand cancels the one in progress.   *)
MonitorStart ==
    /\ \/ monitor.pc = "idle" /\ UNCHANGED faults
       \/ monitor.pc # "idle" /\ faults < MaxFaults /\ faults' = faults + 1
    /\ \* a registry that is stale, or without a champion, is reported only
       monitor' = IF main.release = release /\ main.champion # None
                  THEN [pc |-> "checked_out", base |-> main, deployment |-> main.deployment]
                  ELSE NoMonitor
    /\ behind' = {}
    /\ UNCHANGED <<release, main, models, scan, rows, trainer, earned>>

(* _resolved_rows: positions in rows. The cached state may be gone.        *)
Evidence(m, cached) ==
    {i \in 1..Len(rows) : cached /\ rows[i].model = m}

Applied(ev) == {i \in ev : rows[i].applied}

Exceeds(ev, percent) == 100 * Cardinality({i \in ev : rows[i].ood}) > percent * Cardinality(ev)

Recent(ev) == {i \in ev : Cardinality({j \in ev : j > i}) < Window}

(* _evidence_gates: sound stands for those on probabilities and gains.     *)
Gates(ev, sound) == ev # {} /\ sound /\ ~Exceeds(ev, LiveOod)

\* Faulty variant of Rollback: only drift of the whole evidence counts.
RollbackAll(ev, calibrated) == ev # {} /\ (~calibrated \/ Exceeds(ev, RollbackOod))
Rollback(ev, calibrated) ==
    Recent(ev) # {} /\ (~calibrated \/ Exceeds(Recent(ev), RollbackOod))

Deployment(mode, ev, sound, soundApplied, calibrated) ==
    IF mode # "shadow" /\ Rollback(ev, calibrated)
    THEN Shadow("ROLLED_BACK")
    ELSE IF mode = "shadow"
    THEN IF Cardinality(ev) >= MinShadow /\ Gates(ev, sound)
         THEN [mode |-> "canary", status |-> "CANARY"]
         ELSE Shadow("COLLECTING_LIVE_EVIDENCE")
    ELSE IF mode = "active" \/ (Cardinality(Applied(ev)) >= MinCanary
                                  /\ Gates(Applied(ev), soundApplied))
    THEN [mode |-> "active", status |-> "ACTIVE"]
    ELSE [mode |-> "canary", status |-> "CANARY"]

MonitorEvaluate ==
    \E sound, soundApplied, calibrated, cached \in BOOLEAN :
        LET m == monitor.base.champion
            mine == {i \in 1..Len(rows) : rows[i].model = m}
        IN  /\ monitor.pc = "checked_out"
            /\ IF cached THEN UNCHANGED faults ELSE faults < MaxFaults /\ faults' = faults + 1
            /\ monitor' = [monitor EXCEPT !.pc = "evaluated",
                    !.deployment = Deployment(monitor.base.deployment.mode, Evidence(m, cached),
                                              sound, soundApplied, calibrated)]
            /\ earned' = earned
                 \cup (IF sound /\ Cardinality(mine) >= MinShadow THEN {<<m, "canary">>} ELSE {})
                 \cup (IF soundApplied /\ Cardinality({i \in mine : rows[i].applied}) >= MinCanary
                       THEN {<<m, "active">>} ELSE {})
            /\ UNCHANGED <<release, main, models, scan, rows, trainer, behind>>

(* A transition is one of the mode, or a rollback.                         *)
Transition ==
    \/ monitor.deployment.mode # monitor.base.deployment.mode
    \/ monitor.deployment.status = "ROLLED_BACK"

MonitorChanged == IF Transition THEN {"deployment", "history"} ELSE {"deployment"}

\* Faulty variant of Conflict: the monitor's lines win, as those of a training do.
NoConflict == FALSE
Conflict == MonitorChanged \cap behind # {}

MonitorPublish ==
    /\ monitor.pc = "evaluated" /\ ~Conflict
    /\ main' = Merged([monitor.base EXCEPT !.deployment = monitor.deployment,
                            !.history = Latest(Append(@, Entry("DEPLOYMENT_TRANSITION",
                                    monitor.base.champion, monitor.deployment.mode)))],
                       MonitorChanged)
    /\ behind' = {}
    /\ monitor' = NoMonitor
    /\ UNCHANGED <<release, models, scan, rows, trainer, faults, earned>>

(* A rebase that conflicts is given up; so is a run whose checks or pushes *)
(* fail.                                                                   *)
MonitorFails ==
    /\ \/ monitor.pc = "evaluated" /\ Conflict /\ UNCHANGED faults
       \/ monitor.pc # "idle" /\ faults < MaxFaults /\ faults' = faults + 1
    /\ monitor' = NoMonitor
    /\ behind' = {}
    /\ UNCHANGED <<release, main, models, scan, rows, trainer, earned>>

Next ==
    \/ Release
    \/ CheckOut \/ Score
    \/ TrainStart \/ TrainFails
    \/ \E m \in Models, passed, better \in BOOLEAN : TrainPublish(m, passed, better)
    \/ MonitorStart \/ MonitorEvaluate \/ MonitorPublish \/ MonitorFails

Spec == Init /\ [][Next]_vars

(* The monitor is scheduled every day and runs to its end.                 *)
FairSpec ==
    /\ Spec
    /\ WF_vars(MonitorStart /\ monitor.pc = "idle")
    /\ WF_vars(MonitorEvaluate)
    /\ WF_vars(MonitorPublish \/ MonitorFails)

----------------------------------------------------------------------------
DeploymentType == [mode : Modes, status : Statuses]

EntryType ==
    [event : {"CHAMPION_PROMOTED", "CHALLENGER_EVALUATED", "DEPLOYMENT_TRANSITION"},
     model : Models, mode : Modes]

RegistryType ==
    [release : 1..MaxRelease, champion : Models \cup {None},
     deployment : DeploymentType, history : Seq(EntryType)]

RowType == [model : Models, ood : BOOLEAN, applied : BOOLEAN, release : 1..MaxRelease]

(* Every variable keeps its type; the history keeps to its limit.          *)
TypeOK ==
    /\ release \in 1..MaxRelease
    /\ main \in RegistryType
    /\ Len(main.history) <= HistoryLimit
    /\ models \in [Models -> 0..MaxRelease]
    /\ scan \in [release : 1..MaxRelease, registry : RegistryType]
    /\ rows \in Seq(RowType)
    /\ monitor \in [pc : {"idle", "checked_out", "evaluated"}, base : RegistryType,
                    deployment : DeploymentType]
    /\ trainer \in [pc : {"idle", "training"}, release : 1..MaxRelease, base : RegistryType]
    /\ behind \in SUBSET Fields
    /\ faults \in 0..MaxFaults
    /\ earned \in SUBSET (Models \X Modes)

(* A deployment filters signals only with a model that has earned it, in   *)
(* this mode, by its own resolved signals. docs/ML_LEARNING.md:            *)
(* "Historical validation can never activate filtering directly."          *)
Earned(m, d) ==
    d.mode # "shadow" =>
        /\ <<m, "canary">> \in earned
        /\ d.mode = "active" => <<m, "active">> \in earned

(* However training and monitor interleave, main filters only with a       *)
(* champion that earned it: no merge gives one model another's mode.       *)
FilteringIsEarned == Earned(main.champion, main.deployment)

(* A signal that a model was applied to was scored by a model that is made *)
(* for the release that scored it, and had earned its cohort by then.      *)
AppliedIsEarned ==
    \A i \in 1..Len(rows) : rows[i].applied =>
        /\ models[rows[i].model] = rows[i].release
        /\ <<rows[i].model, "canary">> \in earned

(* A model whose recent signals drift beyond the rollback limit does not   *)
(* go on filtering for ever. It may come back in between: the evidence     *)
(* for the canary is all of its rows, the old ones included.               *)
Drifting ==
    LET ev == {i \in 1..Len(rows) : rows[i].model = main.champion}
    IN  /\ main.release = release
        /\ main.deployment.mode # "shadow"
        /\ Recent(ev) # {} /\ Exceeds(Recent(ev), RollbackOod)

DriftEndsFiltering == []<>~Drifting

(* ml-learning.yml, on a conflict with the monitor: "keep origin/main's    *)
(* registry (deployment counters and transitions)". So the mode that main  *)
(* deploys for a champion is the last one its history says of it.          *)
TransitionsKept ==
    main.deployment.mode # "shadow" =>
        \E i \in 1..Len(main.history) :
            /\ main.history[i] = Entry("DEPLOYMENT_TRANSITION", main.champion,
                                       main.deployment.mode)
            /\ \A j \in i + 1..Len(main.history) :
                    main.history[j].model # main.champion

----------------------------------------------------------------------------
(***************************************************************************)
(* The inductive invariant.                                                *)
(***************************************************************************)

(* A training that changes the champion changes the deployment with it:    *)
(* while main's deployment is that of the monitor's checkout, so is the    *)
(* champion.                                                               *)
CheckoutInv ==
    monitor.pc # "idle" =>
        /\ monitor.base.champion \in Models
        /\ "deployment" \notin behind =>
                main.champion = monitor.base.champion
        /\ Earned(monitor.base.champion, monitor.base.deployment)

(* What the monitor is about to publish is earned by what it has read.     *)
EvaluatedInv ==
    monitor.pc = "evaluated" =>
        Earned(monitor.base.champion, monitor.deployment)

ScanInv == Earned(scan.registry.champion, scan.registry.deployment)

IInv ==
    /\ TypeOK
    /\ FilteringIsEarned /\ AppliedIsEarned
    /\ CheckoutInv /\ EvaluatedInv /\ ScanInv

Climbs ==
    {<<"shadow", "canary">>, <<"canary", "canary">>,
     <<"canary", "active">>, <<"active", "active">>}

Follows(before, after) == after # "shadow" => <<before, after>> \in Climbs

(* Behind OneStepAtATime: what the monitor has evaluated is one step from  *)
(* its checkout, and its checkout is main's deployment until main moves.   *)
LadderInv ==
    monitor.pc # "idle" =>
        /\ "deployment" \notin behind => main.deployment = monitor.base.deployment
        /\ monitor.pc = "evaluated" =>
               Follows(monitor.base.deployment.mode, monitor.deployment.mode)

(* Main goes from shadow to canary to active one step at a time, with the  *)
(* same champion, and may fall back to shadow from anywhere: no champion   *)
(* inherits a mode, and no stale monitor skips the canary.                 *)
OneStepAtATime ==
    [][/\ Follows(main.deployment.mode, main'.deployment.mode)
       /\ main'.deployment.mode # "shadow" => main'.champion = main.champion]_vars
=============================================================================
