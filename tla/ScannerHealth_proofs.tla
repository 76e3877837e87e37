------------------------ MODULE ScannerHealth_proofs ------------------------
(***************************************************************************)
(* What a heartbeat reports is true of the live runs, for any history,     *)
(* number of heartbeats and reruns.                                        *)
(***************************************************************************)
EXTENDS ScannerHealth, TLAPS

(* What every run of the history is.                                       *)
LEMMA RunFacts ==
  ASSUME NEW r \in Runs
  PROVE  /\ r.event \in Events /\ r.created \in Time
         /\ r.status \in Active \union {"completed"}
         /\ r.conclusion \in Conclusions \union {"none"}
         /\ r.conclusion = "none" <=> r.status \in Active
  BY DEF Runs, Active, Conclusions

(* A run keeps its time of creation while its status moves on.             *)
LEMMA RunMoves ==
  ASSUME NEW r \in Runs
  PROVE  /\ LET begun == [r EXCEPT !.status = "in_progress"]
            IN  /\ r.status = "queued" => begun \in Runs
                /\ begun.created = r.created
         /\ \A c \in Conclusions :
              LET ended == [r EXCEPT !.status = "completed", !.conclusion = c]
              IN  ended \in Runs /\ ended.created = r.created
         /\ LET again == [r EXCEPT !.status = "queued", !.conclusion = "none"]
            IN  again \in Runs /\ again.created = r.created
  BY DEF Runs, Active, Conclusions

(* The types used most often.                                              *)
LEMMA Basics ==
  ASSUME TypeOK
  PROVE  /\ runs \in Seq(Runs) /\ Len(runs) \in 0 .. MaxRuns
         /\ DOMAIN runs = 1 .. Len(runs) /\ DOMAIN runs \subseteq Ids
         /\ \A i \in DOMAIN runs : runs[i] \in Runs /\ runs[i].created \in Nat
         /\ now \in Nat /\ started \in Nat /\ asOf \in Nat /\ started <= now /\ asOf <= now
         /\ reruns \in Nat
<1>1. runs \in Seq(Runs) /\ Len(runs) <= MaxRuns /\ now \in 0 .. MaxClock
  BY DEF TypeOK, Time
<1>2. started \in 0 .. now /\ asOf \in 0 .. now
  BY DEF TypeOK
<1>3. Len(runs) \in Nat /\ DOMAIN runs = 1 .. Len(runs)
      /\ \A i \in DOMAIN runs : runs[i] \in Runs
  BY <1>1
<1>4. \A i \in DOMAIN runs : runs[i].created \in Nat
  BY <1>3, RunFacts DEF Time
<1>5. DOMAIN runs \subseteq Ids /\ Len(runs) \in 0 .. MaxRuns
  BY <1>1, <1>3, HealthAssumption DEF Ids
<1>6. reruns \in Nat
  BY HealthAssumption DEF TypeOK
<1>7. QED
  BY <1>1, <1>2, <1>3, <1>4, <1>5, <1>6

(***************************************************************************)
(* Steps of the live workflow.                                             *)
(***************************************************************************)

(* A new run comes last, and is created now.                               *)
LEMMA NewRunFacts ==
  ASSUME TypeOK, NEW event \in Events, NewRun(event)
  PROVE  /\ runs' \in Seq(Runs) /\ Len(runs') <= MaxRuns
         /\ DOMAIN runs' = DOMAIN runs \union {Len(runs) + 1}
         /\ \A i \in DOMAIN runs : runs'[i] = runs[i]
         /\ runs'[Len(runs) + 1].created = now
<1> DEFINE r == [event |-> event, created |-> now, status |-> "queued",
                 conclusion |-> "none"]
<1>1. r \in Runs
  BY DEF TypeOK, Runs, Active
<1>2. runs' = Append(runs, r) /\ Len(runs) < MaxRuns
  BY DEF NewRun
<1>3. runs \in Seq(Runs) /\ Len(runs) \in Nat
  BY Basics
<1> HIDE DEF r
<1>4. /\ runs' \in Seq(Runs) /\ Len(runs') = Len(runs) + 1
      /\ \A i \in 1 .. Len(runs) : runs'[i] = runs[i]
      /\ runs'[Len(runs) + 1] = r
  BY <1>1, <1>2, <1>3
<1>5. r.created = now
  BY DEF r
<1>6. QED
  BY <1>2, <1>3, <1>4, <1>5, HealthAssumption

(* A run that moves on stays where it is.                                  *)
LEMMA MovedFacts ==
  ASSUME TypeOK, NEW i \in DOMAIN runs, NEW r \in Runs,
         r.created = runs[i].created, runs' = [runs EXCEPT ![i] = r]
  PROVE  /\ runs' \in Seq(Runs) /\ Len(runs') = Len(runs)
         /\ DOMAIN runs' = DOMAIN runs
         /\ \A j \in DOMAIN runs : runs'[j].created = runs[j].created
         /\ \A j \in DOMAIN runs \ {i} : runs'[j] = runs[j]
         /\ runs'[i] = r
  BY Basics

(* What happens to the history: runs keep their ids and their times of     *)
(* creation, new ones are created now, and one that has succeeded is left  *)
(* alone unless it is started again.                                       *)
HistoryMoves ==
  /\ runs' \in Seq(Runs) /\ Len(runs') <= MaxRuns
  /\ DOMAIN runs \subseteq DOMAIN runs'
  /\ \A i \in DOMAIN runs : runs'[i].created = runs[i].created
  /\ \A i \in DOMAIN runs' \ DOMAIN runs : runs'[i].created = now
  /\ \A i \in DOMAIN runs : Succeeded(i) => runs'[i].conclusion = "success" \/ reruns' > 0

(* A new run leaves the others alone.                                      *)
LEMMA NewRunMoves ==
  ASSUME TypeOK, NEW event \in Events, NewRun(event)
  PROVE  HistoryMoves
  BY NewRunFacts DEF HistoryMoves, Succeeded

(* Only a run that is started again loses its success.                     *)
LEMMA StatusMoves ==
  ASSUME TypeOK, NEW i \in DOMAIN runs, NEW r \in Runs,
         r.created = runs[i].created, runs' = [runs EXCEPT ![i] = r],
         Succeeded(i) => reruns' > 0
  PROVE  HistoryMoves
  BY MovedFacts, Basics DEF HistoryMoves, Succeeded, TypeOK

(* The steps of the live workflow leave the heartbeat alone.               *)
LiveMoves ==
  /\ HistoryMoves
  /\ reruns' \in 0 .. MaxReruns /\ reruns' >= reruns
  /\ asked' = asked \/ (asked = "sent" /\ asked' = "created")
  /\ UNCHANGED <<now, heartbeat, report, beats>>

LEMMA LiveFacts ==
  ASSUME TypeOK, Live
  PROVE  LiveMoves
<1>1. reruns \in 0 .. MaxReruns /\ reruns \in Nat /\ reruns + 1 \in Nat
  BY HealthAssumption DEF TypeOK
<1>2. CASE \E event \in Events : Trigger(event)
  BY <1>1, <1>2, NewRunMoves DEF Trigger, LiveMoves
<1>3. CASE Appear
  BY <1>1, <1>3, NewRunMoves DEF Appear, Events, LiveMoves
<1>4. ASSUME NEW i \in DOMAIN runs
      PROVE  /\ runs[i] \in Runs
             /\ AtWork(i) => ~Succeeded(i)
             /\ runs[i].status = "queued" => ~Succeeded(i)
  BY <1>4, Basics, RunFacts DEF AtWork, Succeeded, Active
<1>5. ASSUME NEW i \in DOMAIN runs, Begin(i)
      PROVE  LiveMoves
  <2> DEFINE r == [runs[i] EXCEPT !.status = "in_progress"]
  <2>1. r \in Runs /\ r.created = runs[i].created
    BY <1>4, <1>5, RunMoves DEF Begin
  <2>2. runs' = [runs EXCEPT ![i] = r]
    BY <1>5 DEF Begin
  <2>5. ~Succeeded(i)
    BY <1>4, <1>5 DEF Begin
  <2> HIDE DEF r
  <2>3. HistoryMoves
    BY <2>1, <2>2, <2>5, StatusMoves
  <2>4. QED
    BY <1>1, <1>5, <2>3 DEF Begin, LiveMoves
<1>6. ASSUME NEW i \in DOMAIN runs, NEW c \in Conclusions, End(i, c)
      PROVE  LiveMoves
  <2> DEFINE r == [runs[i] EXCEPT !.status = "completed", !.conclusion = c]
  <2>1. r \in Runs /\ r.created = runs[i].created
    BY <1>4, RunMoves
  <2>2. runs' = [runs EXCEPT ![i] = r]
    BY <1>6 DEF End
  <2>5. ~Succeeded(i)
    BY <1>4, <1>6 DEF End
  <2> HIDE DEF r
  <2>3. HistoryMoves
    BY <2>1, <2>2, <2>5, StatusMoves
  <2>4. QED
    BY <1>1, <1>6, <2>3 DEF End, LiveMoves
<1>7. ASSUME NEW i \in DOMAIN runs, Rerun(i)
      PROVE  LiveMoves
  <2> DEFINE r == [runs[i] EXCEPT !.status = "queued", !.conclusion = "none"]
  <2>1. r \in Runs /\ r.created = runs[i].created
    BY <1>4, RunMoves
  <2>2. runs' = [runs EXCEPT ![i] = r]
    BY <1>7 DEF Rerun
  <2>5. reruns' > 0 /\ reruns' >= reruns /\ reruns' \in 0 .. MaxReruns
    BY <1>1, <1>7, HealthAssumption DEF Rerun
  <2> HIDE DEF r
  <2>3. HistoryMoves
    BY <2>1, <2>2, <2>5, StatusMoves
  <2>4. QED
    BY <1>7, <2>3, <2>5 DEF Rerun, heartbeat, LiveMoves
<1>8. QED
  BY <1>2, <1>3, <1>5, <1>6, <1>7 DEF Live

(***************************************************************************)
(* Type correctness.                                                       *)
(***************************************************************************)

(* What the second evaluation writes is a report.                          *)
LEMMA ReportType ==
  ASSUME TypeOK
  PROVE  /\ Verdict \in States /\ Outcome.run = recovered
         /\ [state |-> Verdict, recovery |-> Outcome] \in Reports
         /\ [state |-> Verdict, recovery |-> NoRecovery] \in Reports
<1>1. Verdict \in States
  BY DEF Verdict, States
<1>2. recovered \in {0} \union Ids
  BY Basics DEF TypeOK
<1>3. Outcome \in Recoveries /\ Outcome.run = recovered
  BY <1>2 DEF Outcome, Recoveries
<1>4. NoRecovery \in Recoveries
  BY DEF NoRecovery, Recoveries
<1>5. QED
  BY <1>1, <1>3, <1>4 DEF Reports

(* The initial state satisfies the invariant.                              *)
LEMMA InitInv == Init => IInv
<1> SUFFICES ASSUME Init PROVE IInv
  OBVIOUS
<1>1. runs \in Seq(Runs) /\ Len(runs) = 0
  BY DEF Init
<1>2. NoReport.recovery.run = 0
  BY DEF NoReport
<1>3. TypeOK
  BY <1>1, HealthAssumption DEF Init, TypeOK, Time, Stages
<1>4. QED
  BY <1>2, <1>3 DEF Init, IInv, ClockInv, WaitInv, RecoveredInv, ReportInv, RecoveryIsReal

(* Every step keeps the types.                                             *)
LEMMA TypeStep == TypeOK /\ [Next]_vars => TypeOK'
<1> SUFFICES ASSUME TypeOK, [Next]_vars PROVE TypeOK'
  OBVIOUS
<1> USE DEF heartbeat
<1>1. /\ now \in Nat /\ now \in Time /\ {started, asOf, checkpoint} \subseteq 0 .. now
      /\ runs \in Seq(Runs) /\ Len(runs) <= MaxRuns
  BY Basics DEF TypeOK
<1>2. CASE Tick
  <2>1. now' \in Time /\ 0 .. now \subseteq 0 .. now'
    BY <1>1, <1>2, HealthAssumption DEF Tick, Time
  <2>2. QED
    BY <1>1, <1>2, <2>1 DEF Tick, TypeOK
<1>3. CASE Live
  BY <1>3, LiveFacts DEF LiveMoves, HistoryMoves, TypeOK
<1>4. ASSUME NEW event \in Events, Start(event) PROVE TypeOK'
  <2>1. checkpoint' = now \/ (checkpoint' \in Checkpoints /\ LatestCheckpoint(checkpoint'))
    BY <1>4 DEF Start
  <2>2. checkpoint' \in 0 .. now
    <3>1. CASE checkpoint' = now
      BY <1>1, <3>1
    <3>2. CASE checkpoint' \in Checkpoints /\ LatestCheckpoint(checkpoint')
      <4>1. checkpoint' <= now
        BY <3>2 DEF LatestCheckpoint
      <4>2. checkpoint' \in Nat
        BY <3>2, HealthAssumption
      <4>3. QED
        BY <1>1, <4>1, <4>2
    <3>3. QED
      BY <2>1, <3>1, <3>2
  <2>3. beats' \in 0 .. MaxBeats
    BY <1>4, HealthAssumption DEF Start, TypeOK
  <2>4. /\ now' = now /\ runs' = runs /\ reruns' = reruns
        /\ started' = now /\ asOf' = now /\ pc' = "fetch" /\ seen' = {}
        /\ recovered' = 0 /\ asked' = "no" /\ report' = NoReport
    BY <1>4 DEF Start
  <2>5. {started, asOf, checkpoint}' \subseteq 0 .. now
    BY <1>1, <2>2, <2>4
  <2>6. QED
    BY <2>3, <2>4, <2>5 DEF TypeOK, Stages
<1>5. CASE Assess
  BY <1>5, ReportType DEF Assess, TypeOK, Stages
<1>6. CASE Dispatch
  BY <1>1, <1>6 DEF Dispatch, TypeOK, Stages
<1>7. CASE Poll \/ TimeUp \/ ReadClock
  BY <1>1, <1>7 DEF Poll, TimeUp, ReadClock, TypeOK, Stages
<1>8. CASE Reassess
  BY <1>8, ReportType DEF Reassess, TypeOK, Stages
<1>9. CASE Post \/ Die
  BY <1>1, <1>9 DEF Post, Die, Exit, TypeOK, Stages
<1>10. CASE UNCHANGED vars
  BY <1>10 DEF vars, TypeOK
<1>11. QED
  BY <1>2, <1>3, <1>4, <1>5, <1>6, <1>7, <1>8, <1>9, <1>10 DEF Next, Beat

(* Every reachable state is well typed, whatever the constants.            *)
THEOREM TypeCorrect == Spec => []TypeOK
<1>1. Init => TypeOK
  BY InitInv DEF IInv
<1>2. QED
  BY <1>1, TypeStep, PTL DEF Spec

(***************************************************************************)
(* The invariant.                                                          *)
(***************************************************************************)

(* The live runs cannot undo it: what they add is newer than the heartbeat,*)
(* and only a rerun takes a success away.                                  *)
LEMMA LiveInv == IInv /\ TypeOK' /\ Live => IInv'
<1> SUFFICES ASSUME IInv, TypeOK', Live PROVE IInv'
  OBVIOUS
<1>1. TypeOK /\ LiveMoves /\ HistoryMoves
  BY LiveFacts DEF IInv, LiveMoves
<1>2. /\ UNCHANGED <<now, pc, started, asOf, checkpoint, seen, recovered, report>>
      /\ reruns' >= reruns /\ asked' \in {asked, "created"}
  BY <1>1 DEF LiveMoves, heartbeat
<1>3. \A i \in DOMAIN runs' : \/ i \in DOMAIN runs /\ runs'[i].created = runs[i].created
                              \/ runs'[i].created >= started
  BY <1>1, Basics DEF HistoryMoves
<1>4. ClockInv' /\ WaitInv'
  BY <1>2, <1>3 DEF IInv, ClockInv, WaitInv
<1>5. reruns \in Nat /\ reruns' \in Nat /\ recovered \in {0} \union DOMAIN runs
  BY <1>1, Basics, HealthAssumption DEF TypeOK
<1>6. RecoveredInv'
  BY <1>1, <1>2, <1>5 DEF IInv, RecoveredInv, HistoryMoves, Succeeded
<1>7. ReportInv'
  BY <1>1, <1>2, <1>5 DEF IInv, ReportInv, RecoveryIsReal, HistoryMoves
<1>8. QED
  BY <1>4, <1>6, <1>7 DEF IInv

(* A run that the heartbeat calls fresh enough, if it succeeded, includes  *)
(* all those that are newer than it.                                       *)
LEMMA NewerIsFresh ==
  ASSUME IInv, pc # "idle", NeedsRecovery,
         NEW i \in DOMAIN runs, runs[i].created >= started
  PROVE  ~AtWork(i) /\ ~Succeeded(i)
<1>1. /\ runs[i].created \in Nat /\ asOf \in Nat /\ started \in Nat /\ now \in Nat
      /\ asOf <= now
  BY Basics DEF IInv
<1>2. now <= started + JobLimit /\ JobLimit < Fresh /\ JobLimit \in Nat /\ Fresh \in Nat
  BY HealthAssumption DEF IInv, ClockInv
<1>3. Age(i) <= Fresh
  BY <1>1, <1>2 DEF Age
<1>4. QED
  BY <1>3 DEF NeedsRecovery, CurrentFresh, RecentActive

(* The second evaluation: a run that recovered and is not a success any    *)
(* more was started again.                                                 *)
LEMMA ReassessInv == IInv /\ TypeOK' /\ Reassess => IInv'
<1> SUFFICES ASSUME IInv, TypeOK', Reassess PROVE IInv'
  OBVIOUS
<1>1. /\ TypeOK /\ pc = "refetch" /\ pc' = "post"
      /\ report' = [state |-> Verdict, recovery |-> Outcome]
      /\ UNCHANGED <<now, runs, started, seen, recovered, reruns>>
  BY DEF Reassess, IInv
<1>2. report'.recovery.run = recovered /\ report'.state = Verdict
  BY <1>1, ReportType
<1>3. recovered \in {0} \union DOMAIN runs
  BY <1>1 DEF TypeOK
<1>4. ReportInv'
  <2>1. CASE recovered = 0
    BY <1>1, <1>2, <1>3, <2>1 DEF ReportInv, RecoveryIsReal
  <2>2. CASE recovered # 0
    <3>1. runs[recovered].created >= started
      BY <2>2 DEF IInv, RecoveredInv
    <3>2. Verdict = "UNHEALTHY" => ~Succeeded(recovered)
      BY <1>1, <1>3, <2>2, <3>1, NewerIsFresh DEF Verdict
    <3>3. Verdict = "UNHEALTHY" => reruns > 0
      BY <2>2, <3>2 DEF IInv, RecoveredInv
    <3>4. QED
      BY <1>1, <1>2, <1>3, <3>1, <3>3 DEF ReportInv, RecoveryIsReal
  <2>3. QED
    BY <2>1, <2>2
<1>5. ClockInv' /\ WaitInv' /\ RecoveredInv'
  BY <1>1 DEF IInv, ClockInv, WaitInv, RecoveredInv, Succeeded
<1>6. QED
  BY <1>4, <1>5 DEF IInv

(* Every step keeps the invariant.                                         *)
LEMMA StepInv == IInv /\ [Next]_vars => IInv'
<1> SUFFICES ASSUME IInv, [Next]_vars PROVE IInv'
  OBVIOUS
<1>1. TypeOK /\ TypeOK'
  BY TypeStep DEF IInv
<1>2. /\ now \in Nat /\ started \in Nat /\ started <= now /\ JobLimit \in Nat
      /\ \A i \in DOMAIN runs : runs[i].created \in Nat
  BY <1>1, Basics, HealthAssumption
<1> USE DEF heartbeat, ClockInv, WaitInv, RecoveredInv, ReportInv, RecoveryIsReal, Succeeded
<1>3. CASE Tick
  BY <1>1, <1>2, <1>3 DEF Tick, IInv
<1>4. CASE Live
  BY <1>1, <1>4, LiveInv
<1>5. ASSUME NEW event \in Events, Start(event) PROVE IInv'
  <2>1. NoReport.recovery.run = 0
    BY DEF NoReport
  <2>2. QED
    BY <1>1, <1>2, <1>5, <2>1 DEF Start, IInv
<1>6. CASE Assess
  <2>1. NoRecovery.run = 0
    BY DEF NoRecovery
  <2>2. QED
    BY <1>1, <1>6, <2>1 DEF Assess, IInv
<1>7. CASE Dispatch
  BY <1>1, <1>7 DEF Dispatch, IInv
<1>8. CASE Poll
  <2>1. PICK i \in DOMAIN runs : i \notin seen /\ Succeeded(i) /\ recovered' = i
    BY <1>8 DEF Poll, Candidate
  <2>2. QED
    BY <1>1, <1>8, <2>1 DEF Poll, IInv
<1>9. CASE TimeUp \/ ReadClock
  BY <1>1, <1>9 DEF TimeUp, ReadClock, IInv
<1>10. CASE Reassess
  BY <1>1, <1>10, ReassessInv
<1>11. CASE Post \/ Die
  BY <1>1, <1>11 DEF Post, Die, Exit, IInv
<1>12. CASE UNCHANGED vars
  BY <1>1, <1>12 DEF vars, IInv
<1>13. QED
  BY <1>3, <1>4, <1>5, <1>6, <1>7, <1>8, <1>9, <1>10, <1>11, <1>12 DEF Next, Beat

(* A report that names a recovery names a new run that succeeded.          *)
THEOREM RecoveriesReal == Spec => []RecoveryIsReal
<1>1. IInv => RecoveryIsReal
  BY DEF IInv, ReportInv
<1>2. QED
  BY <1>1, InitInv, StepInv, PTL DEF Spec

(* The alarm is raised only after a recovery was asked for and every run   *)
(* since the heartbeat's start has ended without success.                  *)
THEOREM AlarmsEarned == Spec => UnhealthyIsEarned
<1> DEFINE Earned ==
      report' # report /\ report'.state = "UNHEALTHY" =>
        /\ asked # "no"
        /\ \A i \in DOMAIN runs : runs[i].created >= started => ~AtWork(i) /\ ~Succeeded(i)
<1>1. IInv /\ [Next]_vars => [Earned]_vars
  <2> SUFFICES ASSUME IInv, Next, report' # report, report'.state = "UNHEALTHY"
               PROVE  /\ asked # "no"
                      /\ \A i \in DOMAIN runs :
                           runs[i].created >= started => ~AtWork(i) /\ ~Succeeded(i)
    BY DEF vars
  <2>1. CASE Live
    BY <2>1, LiveFacts DEF LiveMoves, IInv
  <2>2. ASSUME NEW event \in Events, Start(event) PROVE FALSE
    BY <2>2 DEF Start, NoReport
  <2>3. CASE Assess
    BY <2>3 DEF Assess, Verdict
  <2>4. CASE Reassess
    <3>1. Verdict = "UNHEALTHY" /\ pc = "refetch"
      BY <2>4 DEF Reassess
    <3>2. NeedsRecovery
      BY <3>1 DEF Verdict
    <3>3. asked # "no"
      BY <3>1 DEF IInv, WaitInv
    <3>4. QED
      BY <3>1, <3>2, <3>3, NewerIsFresh
  <2>5. CASE Tick \/ Dispatch \/ Poll \/ TimeUp \/ ReadClock \/ Post \/ Die
    BY <2>5 DEF Tick, Dispatch, Poll, TimeUp, ReadClock, Post, Die, Exit
  <2>6. QED
    BY <2>1, <2>2, <2>3, <2>4, <2>5 DEF Next, Beat
<1>2. QED
  BY <1>1, InitInv, StepInv, PTL DEF Spec, UnhealthyIsEarned
=============================================================================
