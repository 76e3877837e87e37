------------------------ MODULE MlDeployment_proofs ------------------------
(***************************************************************************)
(* For any number of models, releases, signals and lost runs, and however  *)
(* training, monitor and scans interleave: the registry on main filters    *)
(* only with a champion that has earned it, and so does every scan.        *)
(***************************************************************************)
EXTENDS MlDeployment, SequenceTheorems, TLAPS

(* The last entries of a history are a history within its limit.           *)
LEMMA LatestType ==
  ASSUME NEW h \in Seq(EntryType)
  PROVE  Latest(h) \in Seq(EntryType) /\ Len(Latest(h)) <= HistoryLimit
<1>1. HistoryLimit \in Nat \ {0} /\ Len(h) \in Nat
  BY DeploymentAssumption
<1>2. CASE Len(h) > HistoryLimit
  <2> DEFINE k == Len(h) - HistoryLimit + 1
  <2>1. k \in Int /\ Len(h) \in Int /\ k >= 1 /\ k <= Len(h)
    BY <1>1, <1>2
  <2>2. \A i \in k..Len(h) : h[i] \in EntryType
    BY <2>1
  <2>3. /\ SubSeq(h, k, Len(h)) \in Seq(EntryType)
        /\ Len(SubSeq(h, k, Len(h))) = Len(h) - k + 1
    <3> HIDE DEF k
    <3> QED
      BY <2>1, <2>2, SubSeqProperties
  <2>4. Len(h) - k + 1 = HistoryLimit
    BY <1>1
  <2>5. QED
    BY <1>1, <1>2, <2>3, <2>4 DEF Latest
<1>3. CASE ~(Len(h) > HistoryLimit)
  BY <1>1, <1>3 DEF Latest
<1>4. QED
  BY <1>2, <1>3

(* A history with one more entry.                                          *)
LEMMA AppendedType ==
  ASSUME NEW h \in Seq(EntryType), NEW e \in EntryType
  PROVE  /\ Latest(Append(h, e)) \in Seq(EntryType)
         /\ Len(Latest(Append(h, e))) <= HistoryLimit
<1>1. Append(h, e) \in Seq(EntryType)
  BY AppendProperties
<1>2. QED
  BY <1>1, LatestType

(* A new registry has its type.                                            *)
LEMMA InitialType ==
  ASSUME NEW r \in 1..MaxRelease
  PROVE  /\ InitialRegistry(r) \in RegistryType
         /\ InitialRegistry(r).champion = None
         /\ InitialRegistry(r).deployment.mode = "shadow"
         /\ InitialRegistry(r).history = <<>>
         /\ InitialRegistry(r).release = r
<1>1. <<>> \in Seq(EntryType)
  OBVIOUS
<1>2. Shadow("NO_CHAMPION") \in DeploymentType
  BY DEF Shadow, DeploymentType, Modes, Statuses
<1>3. QED
  BY <1>1, <1>2 DEF InitialRegistry, RegistryType, Shadow

(* Merging parts of a registry into main gives a registry.                 *)
LEMMA MergedType ==
  ASSUME NEW work \in RegistryType, NEW changed, main \in RegistryType
  PROVE  Merged(work, changed) \in RegistryType
BY DEF Merged, RegistryType

(* Idle runs have their types.                                             *)
LEMMA IdleType ==
  /\ NoMonitor \in [pc : {"idle", "checked_out", "evaluated"}, base : RegistryType,
                    deployment : DeploymentType]
  /\ NoTrainer \in [pc : {"idle", "training"}, release : 1..MaxRelease, base : RegistryType]
  /\ NoMonitor.pc = "idle"
<1>1. 1 \in 1..MaxRelease
  BY DeploymentAssumption
<1>2. InitialRegistry(1) \in RegistryType
  BY <1>1, InitialType
<1>3. Shadow("NO_CHAMPION") \in DeploymentType
  BY DEF Shadow, DeploymentType, Modes, Statuses
<1>4. QED
  BY <1>1, <1>2, <1>3 DEF NoMonitor, NoTrainer

(* The initial state satisfies the invariant.                              *)
LEMMA InitInv == Init => IInv
<1> SUFFICES ASSUME Init PROVE IInv
  OBVIOUS
<1>1. 1 \in 1..MaxRelease /\ 0 \in 0..MaxRelease /\ 0 \in 0..MaxFaults
  BY DeploymentAssumption
<1>2. /\ main \in RegistryType /\ main.history = <<>>
      /\ main.deployment.mode = "shadow"
  BY <1>1, InitialType DEF Init
<1>3. /\ scan \in [release : 1..MaxRelease, registry : RegistryType]
      /\ scan.registry = main
  BY <1>1, <1>2 DEF Init
<1>4. Len(<<>>) = 0 /\ <<>> \in Seq(RowType)
  OBVIOUS
<1>5. Len(main.history) <= HistoryLimit
  BY <1>2, <1>4, DeploymentAssumption
<1>6. TypeOK
  BY <1>1, <1>2, <1>3, <1>4, <1>5, IdleType DEF Init, TypeOK
<1>7. FilteringIsEarned /\ ScanInv
  BY <1>2, <1>3 DEF FilteringIsEarned, ScanInv, Earned
<1>8. AppliedIsEarned
  BY <1>4 DEF Init, AppliedIsEarned
<1>9. CheckoutInv /\ EvaluatedInv
  BY IdleType DEF Init, CheckoutInv, EvaluatedInv
<1>10. QED
  BY <1>6, <1>7, <1>8, <1>9 DEF IInv

----------------------------------------------------------------------------
(* What was earned stays earned.                                           *)
LEMMA EarnedStays ==
  ASSUME NEW m, NEW d, earned \subseteq earned', Earned(m, d)
  PROVE  Earned(m, d)'
BY DEF Earned

(* A release of the strategy changes nothing but itself.                   *)
LEMMA ReleaseInv == IInv /\ Release => IInv'
<1> SUFFICES ASSUME IInv, Release PROVE IInv'
  OBVIOUS
<1>1. release' \in 1..MaxRelease
  BY DeploymentAssumption DEF Release, IInv, TypeOK
<1>2. UNCHANGED <<main, models, scan, rows, monitor, trainer, behind, faults, earned>>
  BY DEF Release
<1>3. TypeOK'
  BY <1>1, <1>2 DEF IInv, TypeOK
<1>4. /\ FilteringIsEarned' /\ AppliedIsEarned'
      /\ CheckoutInv' /\ EvaluatedInv' /\ ScanInv'
  BY <1>2 DEF IInv, FilteringIsEarned, AppliedIsEarned, CheckoutInv, EvaluatedInv, ScanInv,
              Earned
<1>5. QED
  BY <1>3, <1>4 DEF IInv

(* A scan inherits what main has earned.                                   *)
LEMMA CheckOutInv == IInv /\ CheckOut => IInv'
<1> SUFFICES ASSUME IInv, CheckOut PROVE IInv'
  OBVIOUS
<1>1. UNCHANGED <<release, main, models, rows, monitor, trainer, behind, faults, earned>>
  BY DEF CheckOut
<1>2. main \in RegistryType /\ release \in 1..MaxRelease
  BY DEF IInv, TypeOK
<1>3. <<>> \in Seq(EntryType)
  OBVIOUS
<1>4. [main EXCEPT !.history = <<>>] \in RegistryType
  BY <1>2, <1>3 DEF RegistryType
<1>5. scan' \in [release : 1..MaxRelease, registry : RegistryType]
  BY <1>2, <1>4 DEF CheckOut
<1>6. /\ scan'.registry.champion = main.champion
      /\ scan'.registry.deployment = main.deployment
  BY <1>2 DEF CheckOut, RegistryType
<1>7. TypeOK'
  BY <1>1, <1>5 DEF IInv, TypeOK
<1>8. ScanInv'
  BY <1>1, <1>6 DEF IInv, FilteringIsEarned, ScanInv, Earned
<1>9. FilteringIsEarned' /\ AppliedIsEarned' /\ CheckoutInv' /\ EvaluatedInv'
  BY <1>1 DEF IInv, FilteringIsEarned, AppliedIsEarned, CheckoutInv, EvaluatedInv, Earned
<1>10. QED
  BY <1>7, <1>8, <1>9 DEF IInv

(* A row records what the checkout of its scan allowed.                    *)
LEMMA ScoreInv == IInv /\ Score => IInv'
<1> SUFFICES ASSUME IInv, Score PROVE IInv'
  OBVIOUS
<1>1. UNCHANGED <<release, main, models, scan, monitor, trainer, behind, faults, earned>>
  BY DEF Score
<1>2. PICK ood \in BOOLEAN, uncertain \in BOOLEAN, selected \in BOOLEAN :
         rows' = Append(rows, Scored(scan.registry, ood, uncertain, selected))
  BY DEF Score
<1> DEFINE row == Scored(scan.registry, ood, uncertain, selected)
<1>3. /\ scan \in [release : 1..MaxRelease, registry : RegistryType]
      /\ rows \in Seq(RowType)
  BY DEF IInv, TypeOK
<1>4. /\ scan.registry.champion \in Models
      /\ models[scan.registry.champion] = scan.release
      /\ scan.release \in 1..MaxRelease
  BY <1>3, DeploymentAssumption DEF Score, Loaded, RegistryType
<1>5. row \in RowType
  BY <1>4 DEF Scored, RowType
<1>6. row.model = scan.registry.champion /\ row.release = scan.release
  BY DEF Scored
<1>7. row.applied => scan.registry.deployment.mode \in {"active", "canary"}
  BY DEF Scored, EffectiveMode
<1>8. row.applied => <<row.model, "canary">> \in earned
  <2>1. Earned(scan.registry.champion, scan.registry.deployment)
    BY DEF IInv, ScanInv
  <2>2. QED
    BY <1>6, <1>7, <2>1 DEF Earned
<1> HIDE DEF row
<1>9. /\ rows' \in Seq(RowType) /\ Len(rows') = Len(rows) + 1
      /\ \A i \in 1..Len(rows) : rows'[i] = rows[i]
      /\ rows'[Len(rows) + 1] = row
  BY <1>2, <1>3, <1>5, AppendProperties DEF row
<1>10. AppliedIsEarned'
  <2> SUFFICES ASSUME NEW i \in 1..Len(rows'), rows'[i].applied
               PROVE  /\ models[rows'[i].model] = rows'[i].release
                      /\ <<rows'[i].model, "canary">> \in earned
    BY <1>1 DEF AppliedIsEarned
  <2>1. CASE i \in 1..Len(rows)
    BY <1>9, <2>1 DEF IInv, AppliedIsEarned
  <2>2. CASE i = Len(rows) + 1
    BY <1>4, <1>6, <1>8, <1>9, <2>2
  <2>3. QED
    BY <1>3, <1>9, <2>1, <2>2
<1>11. TypeOK'
  BY <1>1, <1>9 DEF IInv, TypeOK
<1>12. FilteringIsEarned' /\ CheckoutInv' /\ EvaluatedInv' /\ ScanInv'
  BY <1>1 DEF IInv, FilteringIsEarned, CheckoutInv, EvaluatedInv, ScanInv, Earned
<1>13. QED
  BY <1>10, <1>11, <1>12 DEF IInv

----------------------------------------------------------------------------
(* A training that begins or fails leaves main alone.                      *)
LEMMA TrainerInv == IInv /\ (TrainStart \/ TrainFails) => IInv'
<1> SUFFICES ASSUME IInv, TrainStart \/ TrainFails PROVE IInv'
  OBVIOUS
<1>1. UNCHANGED <<release, main, models, scan, rows, monitor, behind, faults, earned>>
  BY DEF TrainStart, TrainFails
<1>2. trainer' \in [pc : {"idle", "training"}, release : 1..MaxRelease, base : RegistryType]
  BY IdleType DEF IInv, TypeOK, TrainStart, TrainFails
<1>3. TypeOK'
  BY <1>1, <1>2 DEF IInv, TypeOK
<1>4. /\ FilteringIsEarned' /\ AppliedIsEarned'
      /\ CheckoutInv' /\ EvaluatedInv' /\ ScanInv'
  BY <1>1 DEF IInv, FilteringIsEarned, AppliedIsEarned, CheckoutInv, EvaluatedInv, ScanInv,
              Earned
<1>5. QED
  BY <1>3, <1>4 DEF IInv

(* A training publishes a champion in shadow, or leaves the deployment.    *)
LEMMA TrainPublishInv ==
  ASSUME NEW m \in Models, NEW passed \in BOOLEAN, NEW better \in BOOLEAN,
         IInv, TrainPublish(m, passed, better)
  PROVE  IInv'
<1> DEFINE r == trainer.release
           fresh == trainer.base.release = r
           reg == IF fresh THEN trainer.base ELSE InitialRegistry(r)
           promoted == passed /\ (reg.champion = None \/ better)
           changed == IF ~fresh THEN Fields
                      ELSE IF promoted THEN Fields \ {"release"} ELSE {"history"}
           work == Registered(reg, m, promoted)
<1>1. /\ models[m] = 0 /\ models' = [models EXCEPT ![m] = r]
      /\ main' = Merged(work, changed)
      /\ behind' = (IF monitor.pc = "idle" THEN {} ELSE behind \cup changed)
      /\ trainer' = NoTrainer
      /\ UNCHANGED <<release, scan, rows, monitor, faults, earned>>
  BY DEF TrainPublish
<1>2. TypeOK
  BY DEF IInv
<1>3. r \in 1..MaxRelease /\ trainer.base \in RegistryType
  BY <1>2 DEF TypeOK
<1>4. reg \in RegistryType
  BY <1>3, InitialType
<1>5. ~fresh => reg.deployment.mode = "shadow"
  BY <1>3, InitialType
<1>6. changed \in SUBSET Fields
  BY DEF Fields
<1> HIDE DEF reg, r
<1>7. /\ Shadow("COLLECTING_LIVE_EVIDENCE") \in DeploymentType
      /\ Shadow("COLLECTING_LIVE_EVIDENCE").mode = "shadow"
  BY DEF Shadow, DeploymentType, Modes, Statuses
<1>8. work \in RegistryType /\ Len(work.history) <= HistoryLimit
  <2> DEFINE e == Entry(IF promoted THEN "CHAMPION_PROMOTED" ELSE "CHALLENGER_EVALUATED",
                        m, "shadow")
  <2>1. e \in EntryType
    BY DEF Entry, EntryType, Modes
  <2>2. reg.history \in Seq(EntryType)
    BY <1>4 DEF RegistryType
  <2> HIDE DEF e
  <2>3. /\ Latest(Append(reg.history, e)) \in Seq(EntryType)
        /\ Len(Latest(Append(reg.history, e))) <= HistoryLimit
    BY <2>1, <2>2, AppendedType
  <2>4. work = [release    |-> reg.release,
                champion   |-> IF promoted THEN m ELSE reg.champion,
                deployment |-> IF promoted THEN Shadow("COLLECTING_LIVE_EVIDENCE")
                               ELSE reg.deployment,
                history    |-> Latest(Append(reg.history, e))]
    BY DEF Registered, e
  <2>5. QED
    BY <1>4, <1>7, <2>3, <2>4 DEF RegistryType
<1>9. (~fresh \/ promoted) => work.deployment.mode = "shadow"
  BY <1>5, <1>7 DEF Registered
<1>10. main \in RegistryType /\ Len(main.history) <= HistoryLimit
  BY <1>2 DEF TypeOK
<1> HIDE DEF work, promoted, fresh
<1>11. main' \in RegistryType /\ Len(main'.history) <= HistoryLimit
  <2>1. main'.history = work.history \/ main'.history = main.history
    BY <1>1 DEF Merged
  <2>2. main' \in RegistryType
    <3> HIDE DEF changed
    <3> QED
      BY <1>1, <1>8, <1>10, MergedType
  <2>3. QED
    BY <1>8, <1>10, <2>1, <2>2
<1>12. \/ main'.deployment.mode = "shadow" /\ "deployment" \in changed
       \/ /\ main'.champion = main.champion /\ main'.deployment = main.deployment
          /\ changed = {"history"}
  <2>1. CASE ~fresh \/ promoted
    BY <1>1, <1>9, <2>1 DEF Merged, Fields
  <2>2. CASE fresh /\ ~promoted
    BY <1>1, <2>2 DEF Merged
  <2>3. QED
    BY <2>1, <2>2
<1> HIDE DEF changed
<1>13. /\ models' \in [Models -> 0..MaxRelease]
       /\ \A n \in Models : models[n] > 0 => models'[n] = models[n]
  BY <1>1, <1>2, <1>3 DEF TypeOK
<1>14. TypeOK'
  BY <1>1, <1>2, <1>6, <1>11, <1>13, IdleType DEF TypeOK
<1>15. FilteringIsEarned'
  BY <1>1, <1>12 DEF IInv, FilteringIsEarned, Earned
<1>16. AppliedIsEarned'
  <2> SUFFICES ASSUME NEW i \in 1..Len(rows), rows[i].applied
               PROVE  /\ models'[rows[i].model] = rows[i].release
                      /\ <<rows[i].model, "canary">> \in earned
    BY <1>1 DEF AppliedIsEarned
  <2>1. rows[i].model \in Models /\ rows[i].release \in 1..MaxRelease
    <3>1. rows[i] \in RowType
      BY <1>2 DEF TypeOK
    <3>2. QED
      BY <3>1 DEF RowType
  <2>2. /\ models[rows[i].model] = rows[i].release
        /\ <<rows[i].model, "canary">> \in earned
    BY DEF IInv, AppliedIsEarned
  <2>3. QED
    BY <1>13, <2>1, <2>2
<1>17. CheckoutInv'
  BY <1>1, <1>12 DEF IInv, CheckoutInv, Earned
<1>18. EvaluatedInv' /\ ScanInv'
  BY <1>1 DEF IInv, EvaluatedInv, ScanInv, Earned
<1>19. QED
  BY <1>14, <1>15, <1>16, <1>17, <1>18 DEF IInv

----------------------------------------------------------------------------
(* A monitor that begins reads main as it is.                              *)
LEMMA MonitorStartInv == IInv /\ MonitorStart => IInv'
<1> SUFFICES ASSUME IInv, MonitorStart PROVE IInv'
  OBVIOUS
<1>1. /\ UNCHANGED <<release, main, models, scan, rows, trainer, earned>>
      /\ behind' = {}
  BY DEF MonitorStart
<1>2. faults' \in 0..MaxFaults
  BY DeploymentAssumption DEF MonitorStart, IInv, TypeOK
<1>3. main \in RegistryType
  BY DEF IInv, TypeOK
<1>4. \/ monitor' = NoMonitor
      \/ /\ monitor' = [pc |-> "checked_out", base |-> main, deployment |-> main.deployment]
         /\ main.champion # None
  BY DEF MonitorStart
<1>5. monitor' \in [pc : {"idle", "checked_out", "evaluated"}, base : RegistryType,
                    deployment : DeploymentType]
  BY <1>3, <1>4, IdleType DEF RegistryType
<1>6. TypeOK'
  BY <1>1, <1>2, <1>5 DEF IInv, TypeOK
<1>7. FilteringIsEarned' /\ AppliedIsEarned' /\ ScanInv'
  BY <1>1 DEF IInv, FilteringIsEarned, AppliedIsEarned, ScanInv, Earned
<1>8. CheckoutInv' /\ EvaluatedInv'
  <2>1. CASE monitor' = NoMonitor
    BY <2>1, IdleType DEF CheckoutInv, EvaluatedInv
  <2>2. CASE /\ monitor' = [pc |-> "checked_out", base |-> main, deployment |-> main.deployment]
             /\ main.champion # None
    BY <1>1, <1>3, <2>2 DEF IInv, FilteringIsEarned, CheckoutInv, EvaluatedInv, Earned,
                            RegistryType
  <2>3. QED
    BY <1>4, <2>1, <2>2
<1>9. QED
  BY <1>6, <1>7, <1>8 DEF IInv

(* A deployment that evaluation gives is of its type.                      *)
LEMMA DeploymentType1 ==
  ASSUME NEW mode, NEW ev, NEW sound, NEW soundApplied, NEW calibrated
  PROVE  Deployment(mode, ev, sound, soundApplied, calibrated) \in DeploymentType
BY DEF Deployment, Shadow, DeploymentType, Modes, Statuses

(* The evaluation gives what it has found to be earned.                    *)
LEMMA MonitorEvaluateInv == IInv /\ MonitorEvaluate => IInv'
<1> SUFFICES ASSUME IInv, MonitorEvaluate PROVE IInv'
  OBVIOUS
<1> DEFINE m == monitor.base.champion
           mine == {i \in 1..Len(rows) : rows[i].model = m}
<1>1. PICK sound \in BOOLEAN, soundApplied \in BOOLEAN, calibrated \in BOOLEAN,
           cached \in BOOLEAN :
        /\ IF cached THEN UNCHANGED faults ELSE faults < MaxFaults /\ faults' = faults + 1
        /\ monitor' = [monitor EXCEPT !.pc = "evaluated",
                !.deployment = Deployment(monitor.base.deployment.mode, Evidence(m, cached),
                                          sound, soundApplied, calibrated)]
        /\ earned' = earned
             \cup (IF sound /\ Cardinality(mine) >= MinShadow THEN {<<m, "canary">>} ELSE {})
             \cup (IF soundApplied /\ Cardinality({i \in mine : rows[i].applied}) >= MinCanary
                   THEN {<<m, "active">>} ELSE {})
  BY DEF MonitorEvaluate
<1>2. /\ monitor.pc = "checked_out"
      /\ UNCHANGED <<release, main, models, scan, rows, trainer, behind>>
  BY DEF MonitorEvaluate
<1>3. TypeOK /\ m \in Models /\ monitor.base.deployment.mode \in Modes
  BY <1>2 DEF IInv, TypeOK, CheckoutInv, RegistryType, DeploymentType
<1> DEFINE ev == Evidence(m, cached)
           d == Deployment(monitor.base.deployment.mode, ev, sound, soundApplied, calibrated)
<1>4. ev # {} => ev = mine
  BY DEF Evidence
<1>5. Applied(mine) = {i \in mine : rows[i].applied}
  BY DEF Applied
<1>6. Earned(m, monitor.base.deployment)
  BY <1>2 DEF IInv, CheckoutInv
<1>7. earned \subseteq earned' /\ earned' \in SUBSET (Models \X Modes)
  <2> HIDE DEF m, mine
  <2>1. <<m, "canary">> \in Models \X Modes /\ <<m, "active">> \in Models \X Modes
    BY <1>3 DEF Modes
  <2>2. earned \in SUBSET (Models \X Modes)
    BY <1>3 DEF TypeOK
  <2>3. QED
    BY <1>1, <2>1, <2>2
<1>8. d \in DeploymentType
  BY DeploymentType1
<1>9. d.mode # "shadow" => /\ <<m, "canary">> \in earned'
                           /\ d.mode = "active" => <<m, "active">> \in earned'
  <2> SUFFICES ASSUME d.mode # "shadow"
               PROVE  /\ <<m, "canary">> \in earned'
                      /\ d.mode = "active" => <<m, "active">> \in earned'
    OBVIOUS
  <2>1. /\ monitor.base.deployment.mode = "shadow" =>
             d.mode = "canary" /\ ev # {} /\ sound /\ Cardinality(ev) >= MinShadow
        /\ d.mode = "active" /\ monitor.base.deployment.mode # "active" =>
             ev # {} /\ soundApplied /\ Cardinality(Applied(ev)) >= MinCanary
    <3>1. /\ d = Deployment(monitor.base.deployment.mode, ev, sound, soundApplied, calibrated)
          /\ d.mode # "shadow"
      OBVIOUS
    <3> HIDE DEF ev, d, m
    <3>2. Applied(ev) # {} => ev # {}
      BY DEF Applied
    <3>3. QED
      BY <1>3, <3>1, <3>2 DEF Deployment, Shadow, Gates, Modes
  <2> HIDE DEF ev, mine, m, d
  <2>2. CASE monitor.base.deployment.mode = "shadow"
    BY <1>1, <1>4, <2>1, <2>2
  <2>3. CASE monitor.base.deployment.mode # "shadow"
    BY <1>1, <1>4, <1>5, <1>6, <1>7, <2>1, <2>3 DEF Earned
  <2>4. QED
    BY <2>2, <2>3
<1> HIDE DEF ev, mine
<1>10. /\ monitor' \in [pc : {"idle", "checked_out", "evaluated"}, base : RegistryType,
                         deployment : DeploymentType]
       /\ monitor'.deployment = d /\ monitor'.base = monitor.base
       /\ monitor'.pc = "evaluated"
  <2> HIDE DEF d, m
  <2>1. monitor' = [monitor EXCEPT !.pc = "evaluated", !.deployment = d]
    BY <1>1 DEF d, ev, m
  <2>2. QED
    BY <1>3, <1>8, <2>1 DEF TypeOK
<1>11. faults' \in 0..MaxFaults
  BY <1>1, <1>3, DeploymentAssumption DEF TypeOK
<1>12. TypeOK'
  BY <1>2, <1>3, <1>7, <1>10, <1>11 DEF TypeOK
<1>13. FilteringIsEarned' /\ ScanInv'
  BY <1>2, <1>7 DEF IInv, FilteringIsEarned, ScanInv, Earned
<1>14. AppliedIsEarned'
  BY <1>2, <1>7 DEF IInv, AppliedIsEarned
<1>15. CheckoutInv'
  BY <1>2, <1>7, <1>10 DEF IInv, CheckoutInv, Earned
<1>16. EvaluatedInv'
  <2>1. monitor'.base.champion = m
    BY <1>10
  <2> HIDE DEF d, m
  <2>2. QED
    BY <1>9, <1>10, <2>1 DEF EvaluatedInv, Earned
<1>17. QED
  BY <1>12, <1>13, <1>14, <1>15, <1>16 DEF IInv

(* Without a conflict the deployment that the monitor has judged is that   *)
(* of the champion on main.                                                *)
LEMMA MonitorPublishInv == IInv /\ MonitorPublish => IInv'
<1> SUFFICES ASSUME IInv, MonitorPublish PROVE IInv'
  OBVIOUS
<1> DEFINE e == Entry("DEPLOYMENT_TRANSITION", monitor.base.champion, monitor.deployment.mode)
           work == [monitor.base EXCEPT !.deployment = monitor.deployment,
                                        !.history = Latest(Append(@, e))]
<1>1. /\ monitor.pc = "evaluated" /\ ~Conflict
      /\ main' = Merged(work, MonitorChanged)
      /\ behind' = {} /\ monitor' = NoMonitor
      /\ UNCHANGED <<release, models, scan, rows, trainer, faults, earned>>
  BY DEF MonitorPublish
<1>2. /\ TypeOK /\ monitor.base \in RegistryType
      /\ monitor.deployment \in DeploymentType
      /\ monitor.base.champion \in Models
  BY <1>1 DEF IInv, TypeOK, CheckoutInv
<1>3. "deployment" \in MonitorChanged /\ "champion" \notin MonitorChanged
  BY DEF MonitorChanged
<1>4. main.champion = monitor.base.champion
  BY <1>1, <1>3 DEF IInv, CheckoutInv, Conflict
<1>5. e \in EntryType
  BY <1>2 DEF Entry, EntryType, DeploymentType
<1> HIDE DEF e
<1>6. /\ Latest(Append(monitor.base.history, e)) \in Seq(EntryType)
      /\ Len(Latest(Append(monitor.base.history, e))) <= HistoryLimit
  BY <1>2, <1>5, AppendedType DEF RegistryType
<1>7. /\ work \in RegistryType /\ work.deployment = monitor.deployment
      /\ Len(work.history) <= HistoryLimit
  BY <1>2, <1>6 DEF RegistryType
<1> HIDE DEF work
<1>8. main \in RegistryType /\ Len(main.history) <= HistoryLimit
  BY <1>2 DEF TypeOK
<1>9. /\ main' \in RegistryType
      /\ main'.champion = main.champion
      /\ main'.deployment = monitor.deployment
  BY <1>1, <1>3, <1>7, <1>8, MergedType DEF Merged
<1>10. Len(main'.history) <= HistoryLimit
  <2>1. main'.history = work.history \/ main'.history = main.history
    BY <1>1 DEF Merged
  <2>2. QED
    BY <1>7, <1>8, <2>1
<1>11. {} \in SUBSET Fields
  OBVIOUS
<1>12. TypeOK'
  BY <1>1, <1>2, <1>9, <1>10, <1>11, IdleType DEF TypeOK
<1>13. FilteringIsEarned'
  BY <1>1, <1>4, <1>9 DEF IInv, EvaluatedInv, FilteringIsEarned, Earned
<1>14. AppliedIsEarned' /\ ScanInv'
  BY <1>1 DEF IInv, AppliedIsEarned, ScanInv, Earned
<1>15. CheckoutInv' /\ EvaluatedInv'
  BY <1>1, IdleType DEF CheckoutInv, EvaluatedInv
<1>16. QED
  BY <1>12, <1>13, <1>14, <1>15 DEF IInv

(* A run that is lost leaves main alone.                                   *)
LEMMA MonitorFailsInv == IInv /\ MonitorFails => IInv'
<1> SUFFICES ASSUME IInv, MonitorFails PROVE IInv'
  OBVIOUS
<1>1. /\ UNCHANGED <<release, main, models, scan, rows, trainer, earned>>
      /\ monitor' = NoMonitor /\ behind' = {}
  BY DEF MonitorFails
<1>2. faults' \in 0..MaxFaults
  BY DeploymentAssumption DEF MonitorFails, IInv, TypeOK
<1>3. TypeOK'
  BY <1>1, <1>2, IdleType DEF IInv, TypeOK
<1>4. FilteringIsEarned' /\ AppliedIsEarned' /\ ScanInv'
  BY <1>1 DEF IInv, FilteringIsEarned, AppliedIsEarned, ScanInv, Earned
<1>5. CheckoutInv' /\ EvaluatedInv'
  BY <1>1, IdleType DEF CheckoutInv, EvaluatedInv
<1>6. QED
  BY <1>3, <1>4, <1>5 DEF IInv

----------------------------------------------------------------------------
(* The invariant is inductive.                                             *)
LEMMA NextInv == IInv /\ [Next]_vars => IInv'
<1> SUFFICES ASSUME IInv, [Next]_vars PROVE IInv'
  OBVIOUS
<1>1. CASE Next
  BY <1>1, ReleaseInv, CheckOutInv, ScoreInv, TrainerInv, TrainPublishInv, MonitorStartInv,
     MonitorEvaluateInv, MonitorPublishInv, MonitorFailsInv DEF Next
<1>2. CASE UNCHANGED vars
  BY <1>2 DEF vars, IInv, TypeOK, FilteringIsEarned, AppliedIsEarned, CheckoutInv,
              EvaluatedInv, ScanInv, Earned
<1>3. QED
  BY <1>1, <1>2

(* Registry, runs and signals keep their types, and the registry's history *)
(* its limit.                                                              *)
THEOREM TypeCorrect == Spec => []TypeOK
<1>1. IInv => TypeOK
  BY DEF IInv
<1>2. QED
  BY <1>1, InitInv, NextInv, PTL DEF Spec

(* However trainings, monitor runs and releases interleave, conflict or    *)
(* fail, main filters with a champion only in a mode that this champion's  *)
(* own resolved signals have earned.                                       *)
THEOREM FilteringEarned == Spec => []FilteringIsEarned
<1>1. IInv => FilteringIsEarned
  BY DEF IInv
<1>2. QED
  BY <1>1, InitInv, NextInv, PTL DEF Spec

(* No signal is ever filtered by a model of another release, or by one     *)
(* that had not earned its cohort, however old the scan's checkout is.     *)
THEOREM AppliedEarned == Spec => []AppliedIsEarned
<1>1. IInv => AppliedIsEarned
  BY DEF IInv
<1>2. QED
  BY <1>1, InitInv, NextInv, PTL DEF Spec

----------------------------------------------------------------------------
(* The ladder from shadow to active.                                       *)

(* The rules of the monitor never skip the canary.                         *)
LEMMA DeploymentFollows ==
  ASSUME NEW mode \in Modes, NEW ev, NEW sound, NEW soundApplied, NEW calibrated
  PROVE  Follows(mode, Deployment(mode, ev, sound, soundApplied, calibrated).mode)
<1> DEFINE d == Deployment(mode, ev, sound, soundApplied, calibrated)
<1>1. Shadow("ROLLED_BACK").mode = "shadow" /\ Shadow("COLLECTING_LIVE_EVIDENCE").mode = "shadow"
  BY DEF Shadow
<1>2. CASE mode # "shadow" /\ Rollback(ev, calibrated)
  BY <1>1, <1>2 DEF Deployment, Follows
<1>3. CASE mode = "shadow"
  <2>1. d.mode \in {"shadow", "canary"}
    BY <1>1, <1>3 DEF Deployment
  <2>2. QED
    BY <1>3, <2>1 DEF Follows, Climbs
<1>4. CASE mode # "shadow" /\ ~Rollback(ev, calibrated)
  <2>1. \/ d.mode = "active"
        \/ d.mode = "canary" /\ mode # "active"
    BY <1>4 DEF Deployment
  <2>2. mode \in {"canary", "active"}
    BY <1>4 DEF Modes
  <2>3. QED
    BY <2>1, <2>2 DEF Follows, Climbs
<1>5. QED
  BY <1>2, <1>3, <1>4

(* A training leaves the deployment alone or resets it to shadow, and then *)
(* the monitor's checkout is behind main.                                  *)
LEMMA TrainingResets ==
  ASSUME NEW m \in Models, NEW passed \in BOOLEAN, NEW better \in BOOLEAN,
         TypeOK, TrainPublish(m, passed, better)
  PROVE  \/ /\ main'.deployment.mode = "shadow"
            /\ monitor.pc # "idle" => "deployment" \in behind'
         \/ /\ main'.champion = main.champion /\ main'.deployment = main.deployment
            /\ monitor.pc # "idle" => behind \subseteq behind'
<1> DEFINE r == trainer.release
           fresh == trainer.base.release = r
           reg == IF fresh THEN trainer.base ELSE InitialRegistry(r)
           promoted == passed /\ (reg.champion = None \/ better)
           changed == IF ~fresh THEN Fields
                      ELSE IF promoted THEN Fields \ {"release"} ELSE {"history"}
           work == Registered(reg, m, promoted)
<1>1. /\ main' = Merged(work, changed)
      /\ behind' = (IF monitor.pc = "idle" THEN {} ELSE behind \cup changed)
  BY DEF TrainPublish
<1>2. ~fresh => reg.deployment.mode = "shadow"
  BY InitialType DEF TypeOK
<1>3. Shadow("COLLECTING_LIVE_EVIDENCE").mode = "shadow"
  BY DEF Shadow
<1> HIDE DEF reg, r
<1>4. (~fresh \/ promoted) => work.deployment.mode = "shadow"
  BY <1>2, <1>3 DEF Registered
<1> HIDE DEF work, promoted, fresh
<1>5. CASE ~fresh \/ promoted
  BY <1>1, <1>4, <1>5 DEF Merged, Fields
<1>6. CASE fresh /\ ~promoted
  BY <1>1, <1>6 DEF Merged
<1>7. QED
  BY <1>5, <1>6

(* Publishing changes main's deployment to what was evaluated, and no      *)
(* other field that this ladder is about.                                  *)
LEMMA PublishedFollows ==
  ASSUME IInv, LadderInv, MonitorPublish
  PROVE  /\ main'.champion = main.champion
         /\ Follows(main.deployment.mode, main'.deployment.mode)
<1> DEFINE work == [monitor.base EXCEPT !.deployment = monitor.deployment,
                        !.history = Latest(Append(@, Entry("DEPLOYMENT_TRANSITION",
                                monitor.base.champion, monitor.deployment.mode)))]
<1>1. /\ monitor.pc = "evaluated" /\ ~Conflict /\ main' = Merged(work, MonitorChanged)
  BY DEF MonitorPublish
<1>2. "deployment" \in MonitorChanged /\ "champion" \notin MonitorChanged
  BY DEF MonitorChanged
<1>3. monitor.base \in RegistryType
  BY DEF IInv, TypeOK
<1>4. work.deployment = monitor.deployment
  BY <1>3 DEF RegistryType
<1> HIDE DEF work
<1>5. main'.champion = main.champion /\ main'.deployment = monitor.deployment
  BY <1>1, <1>2, <1>4 DEF Merged
<1>6. main.deployment = monitor.base.deployment
  BY <1>1, <1>2 DEF LadderInv, Conflict
<1>7. QED
  BY <1>1, <1>5, <1>6 DEF LadderInv

(* A deployment that stays follows itself.                                 *)
LEMMA FollowsItself ==
  ASSUME NEW mode \in Modes
  PROVE  Follows(mode, mode)
BY DEF Follows, Climbs, Modes

(* Every step keeps the invariant.                                         *)
LEMMA LadderNext == IInv /\ LadderInv /\ [Next]_vars => LadderInv'
<1> SUFFICES ASSUME IInv, LadderInv, [Next]_vars PROVE LadderInv'
  OBVIOUS
<1>0. TypeOK
  BY DEF IInv
<1>1. CASE Release \/ CheckOut \/ Score \/ TrainStart \/ TrainFails \/ UNCHANGED vars
  BY <1>1 DEF Release, CheckOut, Score, TrainStart, TrainFails, vars, LadderInv
<1>2. ASSUME NEW m \in Models, NEW passed \in BOOLEAN, NEW better \in BOOLEAN,
             TrainPublish(m, passed, better)
      PROVE  LadderInv'
  <2>1. UNCHANGED monitor
    BY <1>2 DEF TrainPublish
  <2>2. QED
    BY <1>0, <1>2, <2>1, TrainingResets DEF LadderInv
<1>3. CASE MonitorStart
  <2>1. /\ main' = main
        /\ monitor' = NoMonitor
           \/ monitor' = [pc |-> "checked_out", base |-> main, deployment |-> main.deployment]
    BY <1>3 DEF MonitorStart
  <2>2. QED
    BY <2>1, IdleType DEF LadderInv
<1>4. CASE MonitorEvaluate
  <2>1. PICK sound \in BOOLEAN, soundApplied \in BOOLEAN, calibrated \in BOOLEAN,
             cached \in BOOLEAN :
          /\ monitor.pc = "checked_out" /\ UNCHANGED <<main, behind>>
          /\ monitor' = [monitor EXCEPT !.pc = "evaluated",
                !.deployment = Deployment(monitor.base.deployment.mode,
                                          Evidence(monitor.base.champion, cached),
                                          sound, soundApplied, calibrated)]
    BY <1>4 DEF MonitorEvaluate
  <2>2. monitor.base.deployment.mode \in Modes
    BY <1>0 DEF TypeOK, RegistryType, DeploymentType
  <2>3. /\ monitor'.base = monitor.base /\ monitor'.pc = "evaluated"
        /\ monitor'.deployment = Deployment(monitor.base.deployment.mode,
                                     Evidence(monitor.base.champion, cached),
                                     sound, soundApplied, calibrated)
    BY <1>0, <2>1 DEF TypeOK
  <2>4. Follows(monitor'.base.deployment.mode, monitor'.deployment.mode)
    BY <2>2, <2>3, DeploymentFollows
  <2>5. QED
    BY <2>1, <2>3, <2>4 DEF LadderInv
<1>5. CASE MonitorPublish \/ MonitorFails
  BY <1>5, IdleType DEF MonitorPublish, MonitorFails, LadderInv
<1>6. QED
  BY <1>1, <1>2, <1>3, <1>4, <1>5 DEF Next

(* Whatever trainings, monitor runs and releases do between them, main     *)
(* goes up the ladder one step at a time and keeps its champion as it does *)
THEOREM LadderClimbed == Spec => OneStepAtATime
<1>1. Init => LadderInv
  BY IdleType DEF Init, LadderInv
<1>2. IInv /\ LadderInv /\ [Next]_vars =>
        [/\ Follows(main.deployment.mode, main'.deployment.mode)
         /\ main'.deployment.mode # "shadow" => main'.champion = main.champion]_vars
  <2>1. SUFFICES ASSUME IInv, LadderInv, [Next]_vars
                 PROVE  /\ Follows(main.deployment.mode, main'.deployment.mode)
                        /\ main'.deployment.mode # "shadow"
                               => main'.champion = main.champion
    OBVIOUS
  <2>2. TypeOK /\ main.deployment.mode \in Modes
    BY <2>1 DEF IInv, TypeOK, RegistryType, DeploymentType
  <2>3. ASSUME main' = main \/ (main'.champion = main.champion /\ main'.deployment = main.deployment)
        PROVE  /\ Follows(main.deployment.mode, main'.deployment.mode)
               /\ main'.champion = main.champion
    BY <2>2, <2>3, FollowsItself
  <2>4. CASE \/ Release \/ CheckOut \/ Score \/ TrainStart \/ TrainFails
             \/ MonitorStart \/ MonitorEvaluate \/ MonitorFails \/ UNCHANGED vars
    <3>1. main' = main
      BY <2>4 DEF Release, CheckOut, Score, TrainStart, TrainFails, MonitorStart,
                  MonitorEvaluate, MonitorFails, vars
    <3>2. QED
      BY <2>3, <3>1
  <2>5. ASSUME NEW m \in Models, NEW passed \in BOOLEAN, NEW better \in BOOLEAN,
               TrainPublish(m, passed, better)
        PROVE  /\ Follows(main.deployment.mode, main'.deployment.mode)
               /\ main'.deployment.mode # "shadow" => main'.champion = main.champion
    <3>1. CASE main'.deployment.mode = "shadow"
      BY <3>1 DEF Follows
    <3>2. CASE main'.deployment.mode # "shadow"
      BY <2>2, <2>3, <2>5, <3>2, TrainingResets
    <3>3. QED
      BY <3>1, <3>2
  <2>6. CASE MonitorPublish
    BY <2>1, <2>6, PublishedFollows
  <2>7. QED
    BY <2>1, <2>4, <2>5, <2>6 DEF Next
<1>3. Spec => []IInv
  BY InitInv, NextInv, PTL DEF Spec
<1>4. QED
  BY <1>1, <1>2, <1>3, LadderNext, PTL DEF Spec, OneStepAtATime
=============================================================================
