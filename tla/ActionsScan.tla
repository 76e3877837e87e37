---------------------------- MODULE ActionsScan ----------------------------
(***************************************************************************)
(* The live scanner as GitHub Actions runs it: many short-lived runs of    *)
(* live-signals.yml, each on a fresh runner, that hand the state file on   *)
(* through the Actions cache.                                              *)
(*                                                                         *)
(* Of the state file only the claims matter here (which signals have a     *)
(* record); SignalScanner models what one scan does with the rest of it.   *)
(* How GitHub schedules runs of a concurrency group, cancels them and      *)
(* matches cache keys is the environment of the workflow.                  *)
(***************************************************************************)
EXTENDS Naturals

CONSTANTS
    Runs,       \* workflow runs; a run keeps its id when it is run again
    EventOf,    \* what triggered it: schedule or workflow_dispatch
    Signals,
    NoSignal,
    NoRun,
    NoState,    \* there is no state file (on a runner, under a key)
    MaxLosses,  \* bound: runners that vanish
    MaxReruns   \* bound: runs that are started again by hand

ASSUME RunsAssumption ==
    /\ NoSignal \notin Signals
    /\ NoRun \notin Runs
    /\ \A C \in SUBSET Signals : C # NoState
    /\ MaxLosses \in Nat /\ MaxReruns \in Nat

VARIABLES
    pc,         \* where each run is
    work,       \* the claims in .signal-state on its runner
    current,    \* the signal its scan is publishing
    saved,      \* cache entries: claims by the id of the run that saved them
    newest,     \* the run that created the latest cache entry
    alerts,     \* what Discord shows
    losses, reruns

vars == <<pc, work, current, saved, newest, alerts, losses, reruns>>

Claims(state) == IF state = NoState THEN {} ELSE state

Newest == IF newest = NoRun THEN NoState ELSE saved[newest]

InProgress(r) == pc[r] \in {"restore", "scan", "posting", "posted", "save"}

SameGroup(r, q) == EventOf[r] = EventOf[q]

Init ==
    /\ pc = [r \in Runs |-> "unstarted"]
    /\ work = [r \in Runs |-> NoState]
    /\ current = [r \in Runs |-> NoSignal]
    /\ saved = [r \in Runs |-> NoState]
    /\ newest = NoRun
    /\ alerts = [s \in Signals |-> 0]
    /\ losses = 0
    /\ reruns = 0

(* A run joins its concurrency group and displaces the one that waits      *)
(* there. cancel-in-progress ends the one at work too: Interrupt may take  *)
(* any running scan at any time, so the request itself is not kept.        *)
Enqueue(r) ==
    /\ pc' = [q \in Runs |-> IF q = r THEN "pending"
                             ELSE IF pc[q] = "pending" /\ SameGroup(q, r)
                             THEN "done" ELSE pc[q]]
    /\ work' = [work EXCEPT ![r] = NoState]
    /\ UNCHANGED <<current, saved, newest, alerts, losses>>

Trigger(r) ==
    /\ pc[r] = "unstarted"
    /\ UNCHANGED reruns
    /\ Enqueue(r)

Rerun(r) ==
    /\ pc[r] = "done"
    /\ reruns < MaxReruns
    /\ reruns' = reruns + 1
    /\ Enqueue(r)

\* Faulty variant of Start: the run enters a state no step leaves.
StartElsewhere(r) ==
    /\ pc[r] = "pending"
    /\ \A q \in Runs : SameGroup(q, r) => ~InProgress(q)
    /\ pc' = [pc EXCEPT ![r] = "requested"]
    /\ UNCHANGED <<work, current, saved, newest, alerts, losses, reruns>>

Start(r) ==
    /\ pc[r] = "pending"
    /\ \A q \in Runs : SameGroup(q, r) => ~InProgress(q)
    /\ pc' = [pc EXCEPT ![r] = "restore"]
    /\ UNCHANGED <<work, current, saved, newest, alerts, losses, reruns>>

\* Faulty variant of Restore: without restore-keys.
RestoreOwnKey(r) ==
    /\ pc[r] = "restore"
    /\ work' = [work EXCEPT ![r] = saved[r]]
    /\ pc' = [pc EXCEPT ![r] = "scan"]
    /\ UNCHANGED <<current, saved, newest, alerts, losses, reruns>>

(* The entry under the run's own key if there is one, else the latest.     *)
Restore(r) ==
    /\ pc[r] = "restore"
    /\ work' = [work EXCEPT ![r] = IF saved[r] # NoState THEN saved[r] ELSE Newest]
    /\ pc' = [pc EXCEPT ![r] = "scan"]
    /\ UNCHANGED <<current, saved, newest, alerts, losses, reruns>>

(* No market has complete data: the scan is skipped.                       *)
SkipScan(r) ==
    /\ pc[r] = "scan"
    /\ pc' = [pc EXCEPT ![r] = "save"]
    /\ UNCHANGED <<work, current, saved, newest, alerts, losses, reruns>>

(* The scan decides a signal it does not know. Claims and rejections are   *)
(* alike in what they leave in the file; only a claim is posted.           *)
Decide(r, s) ==
    /\ pc[r] = "scan"
    /\ s \notin Claims(work[r])
    /\ work' = [work EXCEPT ![r] = Claims(@) \cup {s}]
    /\ \/ pc' = [pc EXCEPT ![r] = "posting"] /\ current' = [current EXCEPT ![r] = s]
       \/ UNCHANGED <<pc, current>>
    /\ UNCHANGED <<saved, newest, alerts, losses, reruns>>

Post(r) ==
    /\ pc[r] = "posting"
    /\ alerts' = [alerts EXCEPT ![current[r]] = @ + 1]
    /\ pc' = [pc EXCEPT ![r] = "posted"]
    /\ UNCHANGED <<work, current, saved, newest, losses, reruns>>

Record(r) ==
    /\ pc[r] = "posted"
    /\ pc' = [pc EXCEPT ![r] = "scan"]
    /\ UNCHANGED <<work, current, saved, newest, alerts, losses, reruns>>

(* scan_markets ends with a save of its own, claims or not.                *)
FinishScan(r) ==
    /\ pc[r] = "scan"
    /\ work' = [work EXCEPT ![r] = Claims(@)]
    /\ pc' = [pc EXCEPT ![r] = "save"]
    /\ UNCHANGED <<current, saved, newest, alerts, losses, reruns>>

\* Faulty variant of Interrupt: the state is saved after a success only.
InterruptUnsaved(r) ==
    /\ pc[r] \in {"restore", "scan", "posting", "posted"}
    /\ pc' = [pc EXCEPT ![r] = "done"]
    /\ UNCHANGED <<work, current, saved, newest, alerts, losses, reruns>>

(* A step fails, the job reaches its 12 minutes, or a newer run of the     *)
(* group cancels this one: what remains are the steps marked always().     *)
Interrupt(r) ==
    /\ pc[r] \in {"restore", "scan", "posting", "posted"}
    /\ pc' = [pc EXCEPT ![r] = "save"]
    /\ UNCHANGED <<work, current, saved, newest, alerts, losses, reruns>>

\* Faulty variants of Save: a runner without state saves an empty one; the
\* step insists on a state to save.
SaveAnything(r) ==
    /\ pc[r] = "save"
    /\ IF saved[r] = NoState
       THEN saved' = [saved EXCEPT ![r] = Claims(work[r])] /\ newest' = r
       ELSE UNCHANGED <<saved, newest>>
    /\ pc' = [pc EXCEPT ![r] = "done"]
    /\ UNCHANGED <<work, current, alerts, losses, reruns>>
SaveInsists(r) ==
    /\ pc[r] = "save"
    /\ work[r] # NoState
    /\ saved' = [saved EXCEPT ![r] = work[r]] /\ newest' = r
    /\ pc' = [pc EXCEPT ![r] = "done"]
    /\ UNCHANGED <<work, current, alerts, losses, reruns>>

(* Entries are immutable: a run started again cannot save under its key a  *)
(* second time. Without a .signal-state there is nothing to save.          *)
Save(r) ==
    /\ pc[r] = "save"
    /\ IF work[r] # NoState /\ saved[r] = NoState
       THEN saved' = [saved EXCEPT ![r] = work[r]] /\ newest' = r
       ELSE UNCHANGED <<saved, newest>>
    /\ pc' = [pc EXCEPT ![r] = "done"]
    /\ UNCHANGED <<work, current, alerts, losses, reruns>>

(* The runner vanishes with its disk.                                      *)
Lose(r) ==
    /\ InProgress(r)
    /\ losses < MaxLosses
    /\ losses' = losses + 1
    /\ pc' = [pc EXCEPT ![r] = "done"]
    /\ UNCHANGED <<work, current, saved, newest, alerts, reruns>>

RunStep(r) ==
    \/ Start(r) \/ Restore(r) \/ SkipScan(r)
    \/ \E s \in Signals : Decide(r, s)
    \/ Post(r) \/ Record(r) \/ FinishScan(r) \/ Save(r)

Next == \E r \in Runs :
    \/ Trigger(r) \/ Rerun(r) \/ RunStep(r) \/ Interrupt(r) \/ Lose(r)

Spec == Init /\ [][Next]_vars

(* Runners make progress: every step of a job ends or the job times out.   *)
FairSpec == Spec /\ \A r \in Runs : WF_vars(RunStep(r))

----------------------------------------------------------------------------
(* Every variable keeps its type.                                          *)
TypeOK ==
    /\ pc \in [Runs -> {"unstarted", "pending", "restore", "scan", "posting",
                        "posted", "save", "done"}]
    /\ work \in [Runs -> {NoState} \cup SUBSET Signals]
    /\ current \in [Runs -> Signals \cup {NoSignal}]
    /\ saved \in [Runs -> {NoState} \cup SUBSET Signals]
    /\ newest \in Runs \cup {NoRun}
    /\ alerts \in [Signals -> Nat]
    /\ losses \in Nat /\ reruns \in Nat

(* No runner has vanished and no run was started again.                    *)
Undisturbed == losses = 0 /\ reruns = 0

AtMostOneAlert == \A s \in Signals : alerts[s] <= 1

(* No signal is posted twice, by whichever runs, as long as no runner is   *)
(* lost and no run started again: the claims of one run reach the next     *)
(* through the cache ("Restore/Save cross-run signal state").              *)
PostedOnce == Undisturbed => AtMostOneAlert

AllHandedOn ==
    \A s \in Signals : alerts[s] > 0 =>
        \/ s \in Claims(Newest)
        \/ \E r \in Runs : InProgress(r) /\ s \in Claims(work[r])

(* Under the same condition the claim of an alert that Discord shows is in *)
(* the latest cache entry, or on a runner that has still to save it.       *)
AlertsAreHandedOn == Undisturbed => AllHandedOn

(* What one cache entry knows, the next one knows: no run replaces the     *)
(* latest state by an older or an empty one.                               *)
CacheNeverForgets == [][Claims(Newest) \subseteq Claims(Newest)']_vars

(* Every run that was triggered comes to an end, displaced, cancelled or   *)
(* completed, and so leaves its group to the next.                         *)
RunsEnd == \A r \in Runs : pc[r] = "pending" ~> pc[r] = "done"

(* Runs of one group exclude each other; docs/AUTOMATION.md:18 says it of  *)
(* all runs, but the group holds the event's name.                         *)
OneScanAtATime == \A r, q \in Runs : InProgress(r) /\ InProgress(q) => r = q

----------------------------------------------------------------------------
(***************************************************************************)
(* The inductive invariants, for runs of one event.                        *)
(***************************************************************************)

OneGroup == \A r, q \in Runs : SameGroup(r, q)

(* Only a run that is done has a cache entry, and the latest is one.       *)
CacheInv ==
    /\ \A r \in Runs : saved[r] # NoState => pc[r] = "done"
    /\ newest # NoRun => saved[newest] # NoState

(* A run that has restored its state knows all that the cache knows.       *)
WorkInv ==
    \A r \in Runs :
        /\ pc[r] \in {"unstarted", "pending", "restore"} => work[r] = NoState
        /\ \/ pc[r] \in {"scan", "posting", "posted"}
           \/ pc[r] = "save" /\ work[r] # NoState
           => Claims(Newest) \subseteq Claims(work[r])

(* A run that posts has claimed the signal, which nobody has posted yet.   *)
PostingInv ==
    \A r \in Runs :
        /\ pc[r] \in {"posting", "posted"} => current[r] \in Claims(work[r])
        /\ pc[r] = "posting" => alerts[current[r]] = 0

IInv ==
    /\ TypeOK
    /\ OneScanAtATime
    /\ CacheInv
    /\ WorkInv
    /\ PostingInv
    /\ AllHandedOn
    /\ AtMostOneAlert

(* All of this holds until a runner is lost or a run is started again.     *)
CalmInv == TypeOK /\ (Undisturbed => IInv)

(* What remains then: a run that can still save knows what the cache       *)
(* knows once it has restored. A run with an entry of its own cannot save. *)
SaverInv ==
    \A r \in Runs : saved[r] = NoState =>
        /\ pc[r] \in {"pending", "restore"} => work[r] = NoState
        /\ \/ pc[r] \in {"scan", "posting", "posted"}
           \/ pc[r] = "save" /\ work[r] # NoState
           => Claims(Newest) \subseteq Claims(work[r])

GrowInv ==
    /\ TypeOK
    /\ OneScanAtATime
    /\ newest # NoRun => saved[newest] # NoState
    /\ SaverInv
=============================================================================
