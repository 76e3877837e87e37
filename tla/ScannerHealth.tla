--------------------------- MODULE ScannerHealth ---------------------------
(***************************************************************************)
(* The heartbeat of the live scanner (scripts/scanner_health.py and its    *)
(* workflow): it reads the history of live-signals runs, and when it finds *)
(* neither a recent success nor a recent run at work, it dispatches one    *)
(* recovery scan, waits for any newer run to succeed, reads the history    *)
(* again and reports the scanner as healthy, degraded or unhealthy.  The   *)
(* live runs it observes come and go between any two of its requests.      *)
(*                                                                         *)
(* A run is what the GitHub API tells of it; its id is its place in the    *)
(* history.  A run that is started again keeps its id and its time of      *)
(* creation.  Time is in ticks of a few minutes.                           *)
(***************************************************************************)
EXTENDS Integers, Sequences, FiniteSets

CONSTANTS
  Fresh,        \* FRESHNESS_MINUTES (20)
  Wait,         \* --recovery-timeout-seconds (300)
  JobLimit,     \* timeout-minutes of the heartbeat's job (15)
  Day,          \* the 24 hours that runs are counted over
  MinimumRuns,  \* MINIMUM_HEALTHY_RUNS_24H (5)
  Checkpoints,  \* the weekday 18:45s
  MaxClock,     \* bound: the clock
  MaxRuns,      \* bound: live runs
  MaxBeats,     \* bound: heartbeats
  MaxReruns     \* bound: runs started again

ASSUME HealthAssumption ==
  /\ {Fresh, Wait, JobLimit, Day, MinimumRuns} \subseteq Nat
  /\ {MaxClock, MaxRuns, MaxBeats, MaxReruns} \subseteq Nat
  /\ Checkpoints \subseteq Nat
  /\ Wait < JobLimit /\ JobLimit < Fresh /\ Fresh < Day

VARIABLES
  now,        \* the clock
  runs,       \* the history of the live workflow
  asked,      \* the recovery of the heartbeat at work: no, sent, or created
  pc,         \* the heartbeat at work
  started, asOf, checkpoint,   \* its start, its last reading of the clock
  seen,       \* before_ids
  recovered,  \* the run that wait_for_recovery returned, 0 for none
  report,     \* what the last heartbeat wrote
  beats, reruns

heartbeat == <<pc, started, asOf, checkpoint, seen, recovered>>
vars == <<now, runs, asked, heartbeat, report, beats, reruns>>

Time == 0 .. MaxClock
Ids == 1 .. MaxRuns
Events == {"schedule", "workflow_dispatch"}
Active == {"queued", "in_progress"}
Conclusions == {"success", "failure", "cancelled"}
Runs == [event : Events, created : Time, status : Active, conclusion : {"none"}]
          \union
        [event : Events, created : Time, status : {"completed"},
         conclusion : Conclusions]
States == {"HEALTHY", "DEGRADED", "UNHEALTHY"}
Stages == {"idle", "fetch", "dispatch", "wait", "clock", "refetch", "post"}

(* The recovery line of a report, and the run it names.                    *)
Recoveries == [status : {"none", "in vain", "superseded"}, run : {0}]
                \union
              [status : {"dispatch succeeded", "scheduled scan"}, run : Ids]
Reports == [state : States, recovery : Recoveries]
NoReport == [state |-> "none", recovery |-> [status |-> "none", run |-> 0]]
NoRecovery == [status |-> "none", run |-> 0]

Init ==
  /\ now = 0 /\ runs = <<>> /\ asked = "no"
  /\ pc = "idle" /\ started = 0 /\ asOf = 0 /\ checkpoint = 0
  /\ seen = {} /\ recovered = 0
  /\ report = NoReport
  /\ beats = 0 /\ reruns = 0

-----------------------------------------------------------------------------
(* What the history says.                                                  *)

Succeeded(i) == runs[i].conclusion = "success"
AtWork(i) == runs[i].status \in Active
Age(i) == asOf - runs[i].created

CurrentFresh == \E i \in DOMAIN runs : Succeeded(i) /\ Age(i) <= Fresh

\* Faulty variant of RecentActive: a queued run does not count.
RecentRunning == \E i \in DOMAIN runs :
                   runs[i].status = "in_progress" /\ Age(i) <= Fresh
RecentActive == \E i \in DOMAIN runs : AtWork(i) /\ Age(i) <= Fresh

NeedsRecovery == ~CurrentFresh /\ ~RecentActive

Covered == \E i \in DOMAIN runs :
             /\ Succeeded(i)
             /\ runs[i].created - checkpoint <= Fresh
             /\ checkpoint - runs[i].created <= Fresh

RecentRuns == {i \in DOMAIN runs : Age(i) <= Day}

Reasons == \/ NeedsRecovery
           \/ ~Covered
           \/ Cardinality(RecentRuns) < MinimumRuns
           \/ \E i \in RecentRuns : runs[i].conclusion \in {"failure", "cancelled"}

Verdict == IF NeedsRecovery THEN "UNHEALTHY"
           ELSE IF Reasons THEN "DEGRADED" ELSE "HEALTHY"

-----------------------------------------------------------------------------
(* The live workflow, which the heartbeat only observes.                   *)

Tick ==
  /\ now < MaxClock
  /\ pc = "idle" \/ now < started + JobLimit
  /\ now' = now + 1
  /\ UNCHANGED <<runs, asked, heartbeat, report, beats, reruns>>

NewRun(event) ==
  /\ Len(runs) < MaxRuns
  /\ runs' = Append(runs, [event |-> event, created |-> now,
                           status |-> "queued", conclusion |-> "none"])

(* A tick of the schedule, or somebody's own dispatch.                     *)
Trigger(event) ==
  /\ NewRun(event)
  /\ UNCHANGED <<now, asked, heartbeat, report, beats, reruns>>

(* GitHub creates the run of an accepted dispatch a little later.          *)
Appear ==
  /\ asked = "sent"
  /\ NewRun("workflow_dispatch")
  /\ asked' = "created"
  /\ UNCHANGED <<now, heartbeat, report, beats, reruns>>

Begin(i) ==
  /\ runs[i].status = "queued"
  /\ runs' = [runs EXCEPT ![i].status = "in_progress"]
  /\ UNCHANGED <<now, asked, heartbeat, report, beats, reruns>>

(* Cancelled by a newer run of its group, by hand, or by its time limit.   *)
End(i, conclusion) ==
  /\ AtWork(i)
  /\ conclusion = "cancelled" \/ runs[i].status = "in_progress"
  /\ runs' = [runs EXCEPT ![i].status = "completed", ![i].conclusion = conclusion]
  /\ UNCHANGED <<now, asked, heartbeat, report, beats, reruns>>

Rerun(i) ==
  /\ reruns < MaxReruns
  /\ runs[i].status = "completed"
  /\ runs' = [runs EXCEPT ![i].status = "queued", ![i].conclusion = "none"]
  /\ reruns' = reruns + 1
  /\ UNCHANGED <<now, asked, heartbeat, report, beats>>

-----------------------------------------------------------------------------
(* The heartbeat.                                                          *)

LatestCheckpoint(c) == c <= now /\ \A d \in Checkpoints : d <= now => d <= c

(* A new heartbeat cancels one that is still at work; it reads the clock   *)
(* before the history.  One started by hand is its own checkpoint.  What   *)
(* the one before has asked for can still appear, as somebody's dispatch.  *)
Start(event) ==
  /\ beats < MaxBeats
  /\ beats' = beats + 1
  /\ \/ event = "workflow_dispatch" /\ checkpoint' = now
     \/ event = "schedule" /\ checkpoint' \in {c \in Checkpoints : LatestCheckpoint(c)}
  /\ pc' = "fetch" /\ started' = now /\ asOf' = now
  /\ seen' = {} /\ recovered' = 0 /\ asked' = "no"
  /\ report' = NoReport
  /\ UNCHANGED <<now, runs, reruns>>

Assess ==
  /\ pc = "fetch"
  /\ \/ /\ NeedsRecovery
        /\ seen' = DOMAIN runs
        /\ pc' = "dispatch" /\ UNCHANGED report
     \/ /\ ~NeedsRecovery
        /\ report' = [state |-> Verdict, recovery |-> NoRecovery]
        /\ pc' = "post" /\ UNCHANGED seen
  /\ UNCHANGED <<now, runs, asked, started, asOf, checkpoint, recovered, beats,
                 reruns>>

Dispatch ==
  /\ pc = "dispatch" /\ pc' = "wait"
  /\ asked' = "sent" /\ asOf' = now
  /\ UNCHANGED <<now, runs, started, checkpoint, seen, recovered, report, beats,
                 reruns>>

\* Faulty variant of Candidate: a run that was at work before counts.
CandidateOrActive(i) == i \notin seen \/ runs[i].created < started
Candidate(i) == i \notin seen

(* A poll begun before the deadline finds the newest new run that          *)
(* succeeded; one that finds none is followed by the next.                 *)
Poll ==
  /\ pc = "wait" /\ now <= asOf + Wait
  /\ \E i \in DOMAIN runs :
       /\ Candidate(i) /\ Succeeded(i)
       /\ \A j \in DOMAIN runs : Candidate(j) /\ Succeeded(j) => j <= i
       /\ recovered' = i
  /\ pc' = "clock"
  /\ UNCHANGED <<now, runs, asked, started, asOf, checkpoint, seen, report,
                 beats, reruns>>

TimeUp ==
  /\ pc = "wait" /\ now >= asOf + Wait
  /\ pc' = "clock"
  /\ UNCHANGED <<now, runs, asked, started, asOf, checkpoint, seen, recovered,
                 report, beats, reruns>>

ReadClock ==
  /\ pc = "clock" /\ pc' = "refetch"
  /\ asOf' = now
  /\ UNCHANGED <<now, runs, asked, started, checkpoint, seen, recovered, report,
                 beats, reruns>>

\* Faulty variant of Outcome: whether a run recovered is not asked.
OutcomeByHistory ==
  [status |-> IF NeedsRecovery THEN "in vain" ELSE "superseded", run |-> recovered]
Outcome ==
  IF recovered # 0
  THEN [status |-> IF runs[recovered].event = "workflow_dispatch"
                   THEN "dispatch succeeded" ELSE "scheduled scan",
        run |-> recovered]
  ELSE [status |-> IF NeedsRecovery THEN "in vain" ELSE "superseded", run |-> 0]

Reassess ==
  /\ pc = "refetch" /\ pc' = "post"
  /\ report' = [state |-> Verdict, recovery |-> Outcome]
  /\ UNCHANGED <<now, runs, asked, started, asOf, checkpoint, seen, recovered,
                 beats, reruns>>

(* The process ends; the report stays.                                     *)
Exit == /\ pc' = "idle" /\ asOf' = 0 /\ checkpoint' = 0
        /\ seen' = {} /\ recovered' = 0
        /\ UNCHANGED <<now, runs, asked, started, report, beats, reruns>>

Post == pc = "post" /\ Exit

(* A request that fails, the job's time limit, a lost runner.              *)
Die == pc # "idle" /\ Exit

Live == \/ \E event \in Events : Trigger(event)
        \/ Appear
        \/ \E i \in DOMAIN runs :
             Begin(i) \/ Rerun(i) \/ \E c \in Conclusions : End(i, c)

Beat == Assess \/ Dispatch \/ Poll \/ TimeUp \/ ReadClock \/ Reassess \/ Post

Next == \/ Tick \/ Live
        \/ \E event \in Events : Start(event)
        \/ Beat \/ Die

Spec == Init /\ [][Next]_vars

-----------------------------------------------------------------------------
(* Properties.                                                             *)

TypeOK ==
  /\ now \in Time /\ runs \in Seq(Runs) /\ Len(runs) <= MaxRuns
  /\ asked \in {"no", "sent", "created"}
  /\ pc \in Stages
  /\ {started, asOf, checkpoint} \subseteq 0 .. now
  /\ seen \subseteq DOMAIN runs /\ recovered \in {0} \union DOMAIN runs
  /\ report \in Reports \union {NoReport}
  /\ beats \in 0 .. MaxBeats /\ reruns \in 0 .. MaxReruns

(* A report that names a run as the recovery names one created after the   *)
(* heartbeat started, never a scan that was at work before and ended while *)
(* it waited.  The same report calls the scanner unhealthy only if a run   *)
(* was started again: main's second evaluation agrees with                 *)
(* wait_for_recovery, although the history has moved on between the two.   *)
RecoveryIsReal ==
  report.recovery.run # 0 =>
    /\ runs[report.recovery.run].created >= started
    /\ report.state = "UNHEALTHY" => reruns > 0

(* The scanner is called unhealthy only by a heartbeat that has dispatched *)
(* a recovery, when every run created since it started has ended without   *)
(* success: a slow, queued or superseded recovery is no alarm              *)
(* (test_active_scan_never_forces_unhealthy). One that GitHub has accepted *)
(* and not created yet is not among them.                                  *)
UnhealthyIsEarned ==
  [][report' # report /\ report'.state = "UNHEALTHY" =>
       /\ asked # "no"
       /\ \A i \in DOMAIN runs :
            runs[i].created >= started => ~AtWork(i) /\ ~Succeeded(i)]_vars

-----------------------------------------------------------------------------
(***************************************************************************)
(* The inductive invariant.                                                *)
(***************************************************************************)

(* A heartbeat ends within its job's limit.                                *)
ClockInv == pc # "idle" => now <= started + JobLimit

(* What is not in before_ids is newer than the heartbeat, and whoever      *)
(* waits has asked for a recovery.                                         *)
WaitInv ==
  /\ pc \in {"dispatch", "wait", "clock", "refetch"} =>
       \A i \in DOMAIN runs : i \in seen \/ runs[i].created >= started
  /\ pc \in {"wait", "clock", "refetch"} => asked # "no"

(* The run that wait_for_recovery returned is newer than the heartbeat and *)
(* has succeeded, if no run was started again since.                       *)
RecoveredInv ==
  recovered # 0 =>
    /\ runs[recovered].created >= started
    /\ Succeeded(recovered) \/ reruns > 0

ReportInv ==
  /\ report.recovery.run \in {0} \union DOMAIN runs
  /\ RecoveryIsReal

IInv == TypeOK /\ ClockInv /\ WaitInv /\ RecoveredInv /\ ReportInv
=============================================================================
