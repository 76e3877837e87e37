------------------------ MODULE ActionsScan_proofs ------------------------
(***************************************************************************)
(* Runs of one event hand their claims on: until a runner is lost or a run *)
(* started again, no signal is posted twice, for any number of runs and    *)
(* signals and wherever runs are cancelled or fail.                        *)
(***************************************************************************)
EXTENDS ActionsScan, TLAPS

(* The initial state is well typed.                                        *)
LEMMA InitType == Init => TypeOK
  BY DEF Init, TypeOK

(* Every step keeps the types.                                             *)
LEMMA TypeStep == TypeOK /\ [Next]_vars => TypeOK'
<1> SUFFICES ASSUME TypeOK, [Next]_vars PROVE TypeOK'
  OBVIOUS
<1>1. \A r \in Runs : Claims(work[r]) \in SUBSET Signals
  BY DEF TypeOK, Claims
<1>2. ASSUME NEW r \in Runs, Enqueue(r), reruns' \in Nat PROVE TypeOK'
  BY <1>2 DEF Enqueue, TypeOK
<1>3. ASSUME NEW r \in Runs, Trigger(r) \/ Rerun(r) PROVE TypeOK'
  <2>1. Enqueue(r) /\ reruns' \in Nat
    BY <1>3 DEF Trigger, Rerun, TypeOK
  <2>2. QED
    BY <1>2, <2>1
<1>4. ASSUME NEW r \in Runs, Start(r) PROVE TypeOK'
  BY <1>4 DEF Start, TypeOK
<1>5. ASSUME NEW r \in Runs, Restore(r) PROVE TypeOK'
  <2>1. Newest \in {NoState} \cup SUBSET Signals
    BY DEF Newest, TypeOK
  <2>2. QED
    BY <1>5, <2>1 DEF Restore, TypeOK
<1>6. ASSUME NEW r \in Runs, SkipScan(r) \/ Record(r) \/ Interrupt(r) PROVE TypeOK'
  BY <1>6 DEF SkipScan, Record, Interrupt, TypeOK
<1>7. ASSUME NEW r \in Runs, NEW s \in Signals, Decide(r, s) PROVE TypeOK'
  <2>1. work' \in [Runs -> {NoState} \cup SUBSET Signals]
    BY <1>1, <1>7 DEF Decide, TypeOK
  <2>2. QED
    BY <1>7, <2>1 DEF Decide, TypeOK
<1>8. ASSUME NEW r \in Runs, Post(r) PROVE TypeOK'
  <2>1. /\ alerts' = [alerts EXCEPT ![current[r]] = alerts[current[r]] + 1]
        /\ alerts \in [Signals -> Nat]
    BY <1>8 DEF Post, TypeOK
  <2>2. alerts' \in [Signals -> Nat]
    <3>1. alerts' = [s \in Signals |->
                       IF s = current[r] THEN alerts[s] + 1 ELSE alerts[s]]
      BY <2>1
    <3>2. \A s \in Signals : alerts[s] \in Nat
      BY <2>1
    <3>3. QED
      BY <3>1, <3>2
  <2>3. QED
    BY <1>8, <2>2 DEF Post, TypeOK
<1>9. ASSUME NEW r \in Runs, FinishScan(r) PROVE TypeOK'
  BY <1>1, <1>9 DEF FinishScan, TypeOK
<1>10. ASSUME NEW r \in Runs, Save(r) PROVE TypeOK'
  BY <1>10 DEF Save, TypeOK
<1>11. ASSUME NEW r \in Runs, Lose(r) PROVE TypeOK'
  BY <1>11 DEF Lose, TypeOK
<1>12. CASE UNCHANGED vars
  BY <1>12 DEF vars, TypeOK
<1>13. QED
  BY <1>3, <1>4, <1>5, <1>6, <1>7, <1>8, <1>9, <1>10, <1>11, <1>12
     DEF Next, RunStep

(***************************************************************************)
(* The inductive invariant.                                                *)
(***************************************************************************)

(* The initial state satisfies it.                                         *)
LEMMA InitInv == Init => IInv
<1> SUFFICES ASSUME Init PROVE IInv
  OBVIOUS
<1>1. TypeOK
  BY InitType
<1>2. OneScanAtATime /\ CacheInv /\ WorkInv /\ PostingInv
  BY DEF Init, OneScanAtATime, InProgress, CacheInv, WorkInv, PostingInv
<1>3. AllHandedOn /\ AtMostOneAlert
  BY DEF Init, AllHandedOn, AtMostOneAlert
<1>4. QED
  BY <1>1, <1>2, <1>3 DEF IInv

(* The types the steps below need.                                         *)
LEMMA Types ==
  ASSUME IInv
  PROVE  /\ TypeOK
         /\ \A s \in Signals : alerts[s] \in Nat
         /\ \A r \in Runs : Claims(work[r]) \subseteq Signals
  BY DEF IInv, TypeOK, Claims

(* A run that waits, or is displaced, had nothing to hand on.              *)
LEMMA TriggerInv ==
  ASSUME NEW r \in Runs, IInv, TypeOK', Trigger(r)
  PROVE  IInv'
<1>1. /\ UNCHANGED <<current, saved, newest, alerts>>
      /\ pc[r] = "unstarted" /\ work[r] = NoState
      /\ work' = [work EXCEPT ![r] = NoState]
      /\ pc' = [q \in Runs |-> IF q = r THEN "pending"
                               ELSE IF pc[q] = "pending" /\ SameGroup(q, r)
                               THEN "done" ELSE pc[q]]
  BY DEF Trigger, Enqueue, IInv, WorkInv
<1>2. \A q \in Runs : work'[q] = work[q]
  BY <1>1, Types DEF TypeOK
<1>3. ASSUME NEW q \in Runs
      PROVE  \/ pc'[q] = pc[q]
             \/ pc[q] \in {"unstarted", "pending"} /\ pc'[q] \in {"pending", "done"}
  BY <1>1
<1>4. OneScanAtATime'
  BY <1>3 DEF IInv, OneScanAtATime, InProgress
<1>5. CacheInv'
  BY <1>1, <1>3 DEF IInv, CacheInv
<1>6. WorkInv'
  <2>1. Newest' = Newest
    BY <1>1 DEF Newest
  <2>2. SUFFICES ASSUME NEW q \in Runs
                 PROVE  /\ pc'[q] \in {"unstarted", "pending", "restore"}
                             => work'[q] = NoState
                        /\ (\/ pc'[q] \in {"scan", "posting", "posted"}
                            \/ pc'[q] = "save" /\ work'[q] # NoState)
                             => Claims(Newest') \subseteq Claims(work'[q])
    BY DEF WorkInv
  <2>3. CASE pc'[q] = pc[q]
    BY <1>2, <2>1, <2>3 DEF IInv, WorkInv
  <2>4. CASE pc[q] \in {"unstarted", "pending"} /\ pc'[q] \in {"pending", "done"}
    BY <1>2, <2>4 DEF IInv, WorkInv
  <2>5. QED
    BY <1>3, <2>3, <2>4
<1>7. PostingInv'
  BY <1>1, <1>2, <1>3 DEF IInv, PostingInv
<1>8. AllHandedOn'
  BY <1>1, <1>2, <1>3 DEF IInv, AllHandedOn, InProgress, Newest
<1>9. AtMostOneAlert'
  BY <1>1 DEF IInv, AtMostOneAlert
<1>10. QED
  BY <1>4, <1>5, <1>6, <1>7, <1>8, <1>9 DEF IInv

(* A run starts only when its group is free.                               *)
LEMMA StartInv ==
  ASSUME OneGroup, NEW r \in Runs, IInv, TypeOK', Start(r)
  PROVE  IInv'
<1>1. /\ UNCHANGED <<work, current, saved, newest, alerts>>
      /\ pc[r] = "pending"
      /\ \A q \in Runs : ~InProgress(q)
      /\ \A q \in Runs : pc'[q] = IF q = r THEN "restore" ELSE pc[q]
  BY Types DEF Start, OneGroup, TypeOK
<1>2. OneScanAtATime'
  BY <1>1 DEF OneScanAtATime, InProgress
<1>3. CacheInv' /\ WorkInv' /\ PostingInv'
  BY <1>1 DEF IInv, CacheInv, WorkInv, PostingInv, Newest
<1>4. AllHandedOn' /\ AtMostOneAlert'
  BY <1>1 DEF IInv, AllHandedOn, AtMostOneAlert, Newest
<1>5. QED
  BY <1>2, <1>3, <1>4 DEF IInv

(* A run that restores gets all that the cache knows, having no entry of   *)
(* its own.                                                                *)
LEMMA RestoreInv ==
  ASSUME NEW r \in Runs, IInv, TypeOK', Restore(r)
  PROVE  IInv'
<1>1. /\ UNCHANGED <<current, saved, newest, alerts>>
      /\ pc[r] = "restore" /\ work[r] = NoState /\ saved[r] = NoState
      /\ \A q \in Runs : pc'[q] = IF q = r THEN "scan" ELSE pc[q]
      /\ \A q \in Runs : work'[q] = IF q = r THEN Newest ELSE work[q]
  BY Types DEF Restore, TypeOK, IInv, CacheInv, WorkInv
<1>2. OneScanAtATime' /\ CacheInv'
  BY <1>1 DEF IInv, OneScanAtATime, InProgress, CacheInv
<1>3. Newest' = Newest
  BY <1>1 DEF Newest
<1>4. WorkInv'
  BY <1>1, <1>3 DEF IInv, WorkInv
<1>5. PostingInv'
  BY <1>1 DEF IInv, PostingInv
<1>6. AllHandedOn'
  <2>1. SUFFICES ASSUME NEW s \in Signals, alerts[s] > 0, s \notin Claims(Newest)
                 PROVE  \E q \in Runs : InProgress(q)' /\ s \in Claims(work'[q])
    BY <1>1, <1>3 DEF AllHandedOn
  <2>2. PICK q \in Runs : InProgress(q) /\ s \in Claims(work[q])
    BY <2>1 DEF IInv, AllHandedOn
  <2>3. q # r
    BY <1>1, <2>2 DEF Claims
  <2>4. QED
    BY <1>1, <2>2, <2>3 DEF InProgress
<1>7. AtMostOneAlert'
  BY <1>1 DEF IInv, AtMostOneAlert
<1>8. QED
  BY <1>2, <1>4, <1>5, <1>6, <1>7 DEF IInv

(* A run that goes on with its claims, one way or the other.               *)
LEMMA MoveInv ==
  ASSUME NEW r \in Runs, IInv, TypeOK',
         UNCHANGED <<current, saved, newest, alerts>>,
         pc[r] \in {"restore", "scan", "posting", "posted"},
         pc[r] = "restore" => work'[r] = NoState,
         Claims(work'[r]) = Claims(work[r]),
         NEW where \in {"scan", "save"}, where = "scan" => pc[r] = "posted",
         \A q \in Runs : pc'[q] = IF q = r THEN where ELSE pc[q],
         \A q \in Runs : q # r => work'[q] = work[q]
  PROVE  IInv'
<1>1. OneScanAtATime' /\ CacheInv'
  BY DEF IInv, OneScanAtATime, InProgress, CacheInv
<1>2. Newest' = Newest
  BY DEF Newest
<1>3. WorkInv'
  BY <1>2 DEF IInv, WorkInv
<1>4. PostingInv'
  BY DEF IInv, PostingInv
<1>5. AllHandedOn'
  <2>1. SUFFICES ASSUME NEW s \in Signals, alerts[s] > 0, s \notin Claims(Newest)
                 PROVE  \E q \in Runs : InProgress(q)' /\ s \in Claims(work'[q])
    BY <1>2 DEF AllHandedOn
  <2>2. PICK q \in Runs : InProgress(q) /\ s \in Claims(work[q])
    BY <2>1 DEF IInv, AllHandedOn
  <2>3. InProgress(q)' /\ s \in Claims(work'[q])
    BY <2>2 DEF InProgress
  <2>4. QED
    BY <2>3
<1>6. AtMostOneAlert'
  BY DEF IInv, AtMostOneAlert
<1>7. QED
  BY <1>1, <1>3, <1>4, <1>5, <1>6 DEF IInv

(* The steps that move a run on without a decision or a save.              *)
LEMMA MovesInv ==
  ASSUME NEW r \in Runs, IInv, TypeOK',
         SkipScan(r) \/ Record(r) \/ FinishScan(r) \/ Interrupt(r)
  PROVE  IInv'
<1>1. UNCHANGED <<current, saved, newest, alerts>>
  BY DEF SkipScan, Record, FinishScan, Interrupt
<1>2. CASE Record(r)
  <2>1. /\ pc[r] = "posted" /\ work' = work
        /\ \A q \in Runs : pc'[q] = IF q = r THEN "scan" ELSE pc[q]
    BY <1>2, Types DEF Record, TypeOK
  <2>2. QED
    BY <1>1, <2>1, MoveInv
<1>3. CASE SkipScan(r) \/ Interrupt(r)
  <2>1. /\ pc[r] \in {"restore", "scan", "posting", "posted"} /\ work' = work
        /\ \A q \in Runs : pc'[q] = IF q = r THEN "save" ELSE pc[q]
    BY <1>3, Types DEF SkipScan, Interrupt, TypeOK
  <2>2. pc[r] = "restore" => work'[r] = NoState
    BY <2>1 DEF IInv, WorkInv
  <2>3. QED
    BY <1>1, <2>1, <2>2, MoveInv
<1>4. CASE FinishScan(r)
  <2>1. /\ pc[r] = "scan"
        /\ \A q \in Runs : pc'[q] = IF q = r THEN "save" ELSE pc[q]
        /\ \A q \in Runs : work'[q] = IF q = r THEN Claims(work[r]) ELSE work[q]
    BY <1>4, Types DEF FinishScan, TypeOK
  <2>2. Claims(work'[r]) = Claims(work[r])
    BY <2>1 DEF Claims
  <2>3. QED
    BY <1>1, <2>1, <2>2, MoveInv
<1>5. QED
  BY <1>2, <1>3, <1>4

(* A run decides only what it does not know, and nobody else is at work,   *)
(* so nobody has posted it.                                                *)
LEMMA DecideInv ==
  ASSUME NEW r \in Runs, NEW s \in Signals, IInv, TypeOK', Decide(r, s)
  PROVE  IInv'
<1>1. /\ UNCHANGED <<saved, newest, alerts>>
      /\ pc[r] = "scan" /\ s \notin Claims(work[r])
      /\ \A q \in Runs : work'[q] = IF q = r THEN Claims(work[r]) \cup {s} ELSE work[q]
      /\ \A q \in Runs : q # r => pc'[q] = pc[q] /\ current'[q] = current[q]
      /\ \/ pc'[r] = "posting" /\ current'[r] = s
         \/ pc'[r] = "scan"
  BY Types DEF Decide, TypeOK
<1>2. Newest' = Newest
  BY <1>1 DEF Newest
<1>3. Claims(work'[r]) = Claims(work[r]) \cup {s}
  BY <1>1, Types, RunsAssumption DEF Claims
<1>4. alerts[s] = 0
  <2>1. s \notin Claims(Newest)
    BY <1>1 DEF IInv, WorkInv
  <2>2. \A q \in Runs : InProgress(q) => q = r
    BY <1>1 DEF IInv, OneScanAtATime, InProgress
  <2>3. ~(alerts[s] > 0)
    BY <1>1, <2>1, <2>2 DEF IInv, AllHandedOn
  <2>4. QED
    BY <2>3, Types
<1>5. OneScanAtATime' /\ CacheInv'
  BY <1>1 DEF IInv, OneScanAtATime, InProgress, CacheInv
<1>6. WorkInv'
  BY <1>1, <1>2, <1>3 DEF IInv, WorkInv
<1>7. PostingInv'
  BY <1>1, <1>3, <1>4 DEF IInv, PostingInv
<1>8. AllHandedOn'
  <2>1. SUFFICES ASSUME NEW t \in Signals, alerts[t] > 0, t \notin Claims(Newest)
                 PROVE  \E q \in Runs : InProgress(q)' /\ t \in Claims(work'[q])
    BY <1>1, <1>2 DEF AllHandedOn
  <2>2. PICK q \in Runs : InProgress(q) /\ t \in Claims(work[q])
    BY <2>1 DEF IInv, AllHandedOn
  <2>3. t \in Claims(work'[q])
    BY <1>1, <1>3, <2>2
  <2>4. InProgress(q)'
    BY <1>1, <2>2 DEF InProgress
  <2>5. QED
    BY <2>3, <2>4
<1>9. AtMostOneAlert'
  BY <1>1 DEF IInv, AtMostOneAlert
<1>10. QED
  BY <1>5, <1>6, <1>7, <1>8, <1>9 DEF IInv

(* A run posts a signal it has claimed and nobody has posted.              *)
LEMMA PostInv ==
  ASSUME NEW r \in Runs, IInv, TypeOK', Post(r)
  PROVE  IInv'
<1>1. /\ UNCHANGED <<work, current, saved, newest>>
      /\ pc[r] = "posting" /\ current[r] \in Claims(work[r]) /\ current[r] \in Signals
      /\ alerts[current[r]] = 0
      /\ \A q \in Runs : pc'[q] = IF q = r THEN "posted" ELSE pc[q]
  BY Types DEF Post, TypeOK, IInv, PostingInv
<1>2. \A s \in Signals : alerts'[s] = IF s = current[r] THEN 1 ELSE alerts[s]
  BY <1>1, Types DEF Post, TypeOK
<1>3. Newest' = Newest
  BY <1>1 DEF Newest
<1>4. OneScanAtATime' /\ CacheInv'
  BY <1>1 DEF IInv, OneScanAtATime, InProgress, CacheInv
<1>5. WorkInv'
  BY <1>1, <1>3 DEF IInv, WorkInv
<1>6. PostingInv'
  <2>1. \A q \in Runs : pc'[q] = "posting" => q = r
    BY <1>1 DEF IInv, OneScanAtATime, InProgress
  <2>2. QED
    BY <1>1, <2>1 DEF IInv, PostingInv
<1>7. AllHandedOn'
  <2>1. SUFFICES ASSUME NEW s \in Signals, alerts'[s] > 0, s \notin Claims(Newest)
                 PROVE  \E q \in Runs : InProgress(q)' /\ s \in Claims(work[q])
    BY <1>1, <1>3 DEF AllHandedOn
  <2>2. CASE s = current[r]
    BY <1>1, <2>2 DEF InProgress
  <2>3. CASE s # current[r]
    <3>1. PICK q \in Runs : InProgress(q) /\ s \in Claims(work[q])
      BY <1>2, <2>1, <2>3 DEF IInv, AllHandedOn
    <3>2. InProgress(q)'
      BY <1>1, <3>1 DEF InProgress
    <3>3. QED
      BY <3>1, <3>2
  <2>4. QED
    BY <2>2, <2>3
<1>8. AtMostOneAlert'
  BY <1>2 DEF IInv, AtMostOneAlert
<1>9. QED
  BY <1>4, <1>5, <1>6, <1>7, <1>8 DEF IInv

(* A run saves all that the cache knew and all that it claimed.            *)
LEMMA SaveInv ==
  ASSUME NEW r \in Runs, IInv, TypeOK', Save(r)
  PROVE  IInv'
<1>1. /\ UNCHANGED <<work, current, alerts>>
      /\ pc[r] = "save" /\ saved[r] = NoState
      /\ \A q \in Runs : pc'[q] = IF q = r THEN "done" ELSE pc[q]
  BY Types DEF Save, TypeOK, IInv, CacheInv
<1>2. \A q \in Runs : InProgress(q) => q = r
  BY <1>1 DEF IInv, OneScanAtATime, InProgress
<1>3. OneScanAtATime' /\ PostingInv'
  BY <1>1 DEF IInv, OneScanAtATime, InProgress, PostingInv
<1>4. AtMostOneAlert'
  BY <1>1 DEF IInv, AtMostOneAlert
<1>5. \A q \in Runs : pc'[q] \in {"unstarted", "pending", "restore"} => work'[q] = NoState
  BY <1>1 DEF IInv, WorkInv
<1>6. \A q \in Runs : pc'[q] \notin {"scan", "posting", "posted", "save"}
  BY <1>1, <1>2 DEF InProgress
<1>7. WorkInv'
  BY <1>5, <1>6 DEF WorkInv
<1>8. CASE work[r] # NoState
  <2>1. newest' = r /\ \A q \in Runs : saved'[q] = IF q = r THEN work[r] ELSE saved[q]
    BY <1>1, <1>8, Types DEF Save, TypeOK
  <2>2. Newest' = work[r] /\ Claims(Newest) \subseteq Claims(work[r])
    BY <1>1, <1>8, <2>1, RunsAssumption DEF Newest, IInv, WorkInv
  <2>3. CacheInv'
    BY <1>1, <1>8, <2>1 DEF IInv, CacheInv
  <2>4. AllHandedOn'
    BY <1>1, <1>2, <2>2 DEF IInv, AllHandedOn
  <2>5. QED
    BY <1>3, <1>4, <1>7, <2>3, <2>4 DEF IInv
<1>9. CASE work[r] = NoState
  <2>1. UNCHANGED <<saved, newest>> /\ Claims(work[r]) = {}
    BY <1>9 DEF Save, Claims
  <2>2. CacheInv'
    BY <1>1, <2>1 DEF IInv, CacheInv
  <2>3. AllHandedOn'
    BY <1>1, <1>2, <2>1 DEF IInv, AllHandedOn, Newest
  <2>4. QED
    BY <1>3, <1>4, <1>7, <2>2, <2>3 DEF IInv
<1>10. QED
  BY <1>8, <1>9

(* Every step keeps the invariant, until a runner is lost or a run is      *)
(* started again.                                                          *)
LEMMA CalmStep == OneGroup /\ CalmInv /\ [Next]_vars => CalmInv'
<1> SUFFICES ASSUME OneGroup, CalmInv, [Next]_vars PROVE CalmInv'
  OBVIOUS
<1>1. TypeOK /\ TypeOK'
  BY TypeStep DEF CalmInv
<1>2. SUFFICES ASSUME Undisturbed' PROVE IInv'
  BY <1>1 DEF CalmInv
<1>3. ASSUME NEW r \in Runs PROVE ~Rerun(r) /\ ~Lose(r)
  BY <1>1, <1>2 DEF Rerun, Lose, Undisturbed, TypeOK
<1>4. losses' = losses /\ reruns' = reruns
  BY <1>3 DEF Next, vars, Trigger, Enqueue, RunStep, Start, Restore, SkipScan, Decide,
              Post, Record, FinishScan, Interrupt, Save
<1>5. IInv
  BY <1>2, <1>4 DEF CalmInv, Undisturbed
<1>6. ASSUME NEW r \in Runs, Trigger(r) \/ RunStep(r) \/ Interrupt(r)
      PROVE  IInv'
  BY <1>1, <1>5, <1>6, TriggerInv, StartInv, RestoreInv, MovesInv, DecideInv,
     PostInv, SaveInv DEF RunStep
<1>7. CASE UNCHANGED vars
  BY <1>5, <1>7 DEF vars, IInv, TypeOK, OneScanAtATime, InProgress, CacheInv, WorkInv,
              PostingInv, AllHandedOn, Newest, AtMostOneAlert
<1>8. QED
  BY <1>3, <1>6, <1>7 DEF Next

(* The invariant holds throughout.                                         *)
LEMMA CalmAlways ==
  ASSUME OneGroup
  PROVE  Spec => []CalmInv
<1>1. Init => CalmInv
  BY InitInv, InitType DEF CalmInv
<1>2. CalmInv /\ [Next]_vars => CalmInv'
  BY CalmStep
<1>3. QED
  BY <1>1, <1>2, PTL DEF Spec

(* Runs of one event post no signal twice, as long as no runner is lost    *)
(* and no run started again.                                               *)
THEOREM OnceAcrossRuns ==
  ASSUME OneGroup
  PROVE  Spec => []PostedOnce
<1>1. CalmInv => PostedOnce
  BY DEF CalmInv, IInv, PostedOnce
<1>2. QED
  BY <1>1, CalmAlways, PTL

(* Then the claim of an alert that Discord shows is in the latest cache    *)
(* entry, or on a runner that has still to save it.                        *)
THEOREM ClaimsHandedOn ==
  ASSUME OneGroup
  PROVE  Spec => []AlertsAreHandedOn
<1>1. CalmInv => AlertsAreHandedOn
  BY DEF CalmInv, IInv, AlertsAreHandedOn
<1>2. QED
  BY <1>1, CalmAlways, PTL

(* Every reachable state is well typed, with any faults and events.        *)
THEOREM TypeCorrect == Spec => []TypeOK
  BY InitType, TypeStep, PTL DEF Spec

----------------------------------------------------------------------------
(* Whatever is lost or run again, the cache never forgets.                 *)

LEMMA InitGrow == Init => GrowInv
  BY InitType DEF Init, GrowInv, OneScanAtATime, InProgress, SaverInv

(* Joining the group forgets what the runner of an earlier attempt had.    *)
LEMMA EnqueueGrow ==
  ASSUME NEW r \in Runs, GrowInv, TypeOK', Enqueue(r), ~InProgress(r)
  PROVE  GrowInv'
<1>1. /\ UNCHANGED <<saved, newest>>
      /\ \A q \in Runs : work'[q] = IF q = r THEN NoState ELSE work[q]
      /\ pc' = [q \in Runs |-> IF q = r THEN "pending"
                               ELSE IF pc[q] = "pending" /\ SameGroup(q, r)
                               THEN "done" ELSE pc[q]]
  BY DEF Enqueue, GrowInv, TypeOK
<1>2. ASSUME NEW q \in Runs
      PROVE  \/ q # r /\ pc'[q] = pc[q]
             \/ q # r /\ pc'[q] = "done"
             \/ q = r /\ pc'[q] = "pending"
  BY <1>1
<1>3. OneScanAtATime'
  BY <1>2 DEF GrowInv, OneScanAtATime, InProgress
<1>4. Newest' = Newest
  BY <1>1 DEF Newest
<1>5. ASSUME NEW q \in Runs, saved'[q] = NoState
      PROVE  /\ pc'[q] \in {"pending", "restore"} => work'[q] = NoState
             /\ (\/ pc'[q] \in {"scan", "posting", "posted"}
                 \/ pc'[q] = "save" /\ work'[q] # NoState)
                  => Claims(Newest') \subseteq Claims(work'[q])
  <2>1. CASE q # r /\ pc'[q] = pc[q]
    BY <1>1, <1>4, <1>5, <2>1 DEF GrowInv, SaverInv
  <2>2. CASE pc'[q] = "done"
    BY <2>2
  <2>3. CASE q = r /\ pc'[q] = "pending"
    BY <1>1, <2>3
  <2>4. QED
    BY <1>2, <2>1, <2>2, <2>3
<1>6. SaverInv'
  BY <1>5 DEF SaverInv
<1>7. QED
  BY <1>1, <1>3, <1>6 DEF GrowInv

(* A run starts alone in its group.                                        *)
LEMMA StartGrow ==
  ASSUME OneGroup, NEW r \in Runs, GrowInv, TypeOK', Start(r)
  PROVE  GrowInv'
<1>1. /\ UNCHANGED <<work, saved, newest>>
      /\ pc[r] = "pending"
      /\ \A q \in Runs : ~InProgress(q)
      /\ \A q \in Runs : pc'[q] = IF q = r THEN "restore" ELSE pc[q]
  BY DEF Start, OneGroup, GrowInv, TypeOK
<1>2. OneScanAtATime'
  BY <1>1 DEF OneScanAtATime, InProgress
<1>3. SaverInv'
  BY <1>1 DEF GrowInv, SaverInv, Newest
<1>4. QED
  BY <1>1, <1>2, <1>3 DEF GrowInv

(* A run at work moves on without touching the cache, with at least what   *)
(* the cache knows if it could save.                                       *)
LEMMA WorkGrow ==
  ASSUME NEW r \in Runs, GrowInv, TypeOK',
         UNCHANGED <<saved, newest>>,
         InProgress(r), pc'[r] # "pending", pc'[r] # "restore",
         \A q \in Runs : q # r => pc'[q] = pc[q] /\ work'[q] = work[q],
         \/ saved[r] # NoState \/ pc'[r] = "done"
         \/ pc'[r] = "save" /\ work'[r] = NoState
         \/ Claims(Newest) \subseteq Claims(work'[r])
  PROVE  GrowInv'
<1>1. OneScanAtATime'
  BY DEF GrowInv, OneScanAtATime, InProgress
<1>2. Newest' = Newest
  BY DEF Newest
<1>3. SaverInv'
  BY <1>2 DEF GrowInv, SaverInv
<1>4. QED
  BY <1>1, <1>3 DEF GrowInv

(* What a run does between its start and its save.                         *)
LEMMA AtWorkGrow ==
  ASSUME NEW r \in Runs, GrowInv, TypeOK',
         \/ Restore(r) \/ SkipScan(r) \/ Post(r) \/ Record(r) \/ FinishScan(r)
         \/ Interrupt(r) \/ Lose(r) \/ \E s \in Signals : Decide(r, s)
  PROVE  GrowInv'
<1>1. CASE Restore(r)
  <2>1. /\ UNCHANGED <<saved, newest>> /\ InProgress(r)
        /\ pc'[r] = "scan" /\ \A q \in Runs : q # r => pc'[q] = pc[q] /\ work'[q] = work[q]
        /\ saved[r] = NoState => work'[r] = Newest
    BY <1>1 DEF Restore, GrowInv, TypeOK, InProgress
  <2>2. QED
    BY <2>1, WorkGrow
<1>2. CASE SkipScan(r) \/ Post(r) \/ Record(r) \/ Interrupt(r) \/ Lose(r)
  <2>1. /\ UNCHANGED <<saved, newest, work>> /\ InProgress(r)
        /\ \A q \in Runs : q # r => pc'[q] = pc[q]
        /\ \/ pc'[r] = "done"
           \/ pc[r] = "restore" /\ pc'[r] = "save"
           \/ pc[r] \in {"scan", "posting", "posted"}
              /\ pc'[r] \in {"scan", "posting", "posted", "save"}
    BY <1>2 DEF SkipScan, Post, Record, Interrupt, Lose, GrowInv, TypeOK, InProgress
  <2>2. \/ saved[r] # NoState \/ pc'[r] = "done"
        \/ pc'[r] = "save" /\ work'[r] = NoState
        \/ Claims(Newest) \subseteq Claims(work'[r])
    BY <2>1 DEF GrowInv, SaverInv
  <2>3. QED
    BY <2>1, <2>2, WorkGrow
<1>3. CASE FinishScan(r) \/ \E s \in Signals : Decide(r, s)
  <2>1. /\ UNCHANGED <<saved, newest>> /\ InProgress(r) /\ pc[r] = "scan"
        /\ pc'[r] \in {"scan", "posting", "save"}
        /\ \A q \in Runs : q # r => pc'[q] = pc[q] /\ work'[q] = work[q]
        /\ \/ work'[r] = Claims(work[r])
           \/ \E s \in Signals : work'[r] = Claims(work[r]) \cup {s}
    BY <1>3 DEF FinishScan, Decide, GrowInv, TypeOK, InProgress
  <2>2. Claims(work[r]) \subseteq Claims(work'[r])
    <3>1. work'[r] \in SUBSET Signals
      BY <2>1 DEF GrowInv, TypeOK, Claims
    <3>2. QED
      BY <2>1, <3>1, RunsAssumption DEF Claims
  <2>3. saved[r] = NoState => Claims(Newest) \subseteq Claims(work[r])
    BY <2>1 DEF GrowInv, SaverInv
  <2>4. QED
    BY <2>1, <2>2, <2>3, WorkGrow
<1>4. QED
  BY <1>1, <1>2, <1>3

(* A run that saves is the only one at work.                               *)
LEMMA SaveGrow ==
  ASSUME NEW r \in Runs, GrowInv, TypeOK', Save(r)
  PROVE  GrowInv' /\ Claims(Newest) \subseteq Claims(Newest)'
<1>1. /\ UNCHANGED work /\ pc[r] = "save"
      /\ \A q \in Runs : pc'[q] = IF q = r THEN "done" ELSE pc[q]
  BY DEF Save, GrowInv, TypeOK
<1>2. \A q \in Runs : InProgress(q) => q = r
  BY <1>1 DEF GrowInv, OneScanAtATime, InProgress
<1>3. OneScanAtATime'
  BY <1>1 DEF GrowInv, OneScanAtATime, InProgress
<1>4. CASE work[r] # NoState /\ saved[r] = NoState
  <2>1. newest' = r /\ \A q \in Runs : saved'[q] = IF q = r THEN work[r] ELSE saved[q]
    BY <1>4 DEF Save, GrowInv, TypeOK
  <2>2. r # NoRun
    BY RunsAssumption
  <2>3. Newest' = work[r]
    BY <2>1, <2>2 DEF Newest
  <2>4. Claims(Newest)' = Claims(work[r])
    BY <2>3 DEF Claims
  <2>5. Claims(Newest) \subseteq Claims(work[r])
    BY <1>1, <1>4 DEF GrowInv, SaverInv
  <2>6. SaverInv'
    <3>1. ASSUME NEW q \in Runs, saved'[q] = NoState
          PROVE  q # r /\ pc'[q] = pc[q] /\ saved[q] = NoState /\ ~InProgress(q)
      BY <1>1, <1>2, <1>4, <2>1, <3>1
    <3>2. QED
      BY <1>1, <3>1 DEF GrowInv, SaverInv, InProgress
  <2>7. QED
    BY <1>3, <1>4, <2>1, <2>4, <2>5, <2>6 DEF GrowInv
<1>5. CASE ~(work[r] # NoState /\ saved[r] = NoState)
  <2>1. UNCHANGED <<saved, newest>>
    BY <1>5 DEF Save
  <2>2. Newest' = Newest
    BY <2>1 DEF Newest
  <2>3. SaverInv'
    BY <1>1, <2>1, <2>2 DEF GrowInv, SaverInv
  <2>4. QED
    BY <1>3, <2>1, <2>2, <2>3 DEF GrowInv, Claims
<1>6. QED
  BY <1>4, <1>5

(* Every step keeps the invariant and forgets nothing.                     *)
LEMMA GrowStep ==
  ASSUME OneGroup, GrowInv, [Next]_vars
  PROVE  GrowInv' /\ Claims(Newest) \subseteq Claims(Newest)'
<1>1. TypeOK'
  BY TypeStep DEF GrowInv
<1>2. ASSUME UNCHANGED <<saved, newest>> PROVE Claims(Newest) \subseteq Claims(Newest)'
  BY <1>2 DEF Newest, Claims
<1>3. ASSUME NEW r \in Runs, Trigger(r) \/ Rerun(r)
      PROVE  GrowInv' /\ UNCHANGED <<saved, newest>>
  <2>1. Enqueue(r) /\ ~InProgress(r)
    BY <1>3 DEF Trigger, Rerun, InProgress
  <2>2. QED
    BY <1>1, <2>1, EnqueueGrow DEF Enqueue
<1>4. ASSUME NEW r \in Runs, Start(r)
      PROVE  GrowInv' /\ UNCHANGED <<saved, newest>>
  BY <1>1, <1>4, StartGrow DEF Start
<1>5. ASSUME NEW r \in Runs,
             \/ Restore(r) \/ SkipScan(r) \/ Post(r) \/ Record(r) \/ FinishScan(r)
             \/ Interrupt(r) \/ Lose(r) \/ \E s \in Signals : Decide(r, s)
      PROVE  GrowInv' /\ UNCHANGED <<saved, newest>>
  <2>1. GrowInv'
    BY <1>1, <1>5, AtWorkGrow
  <2>2. UNCHANGED <<saved, newest>>
    BY <1>5 DEF Restore, SkipScan, Post, Record, FinishScan, Interrupt, Lose, Decide
  <2>3. QED
    BY <2>1, <2>2
<1>6. CASE UNCHANGED vars
  <2>1. UNCHANGED <<saved, newest>> /\ GrowInv'
    BY <1>1, <1>6 DEF vars, GrowInv, OneScanAtATime, InProgress, SaverInv, Newest
  <2>2. QED
    BY <1>2, <2>1
<1>7. QED
  BY <1>1, <1>2, <1>3, <1>4, <1>5, <1>6, SaveGrow DEF Next, RunStep

(* For any number of runs of one event, whatever is lost or run again: one *)
(* scan at a time, and each cache entry knows what the one before it knew. *)
THEOREM CacheGrows ==
  ASSUME OneGroup
  PROVE  Spec => CacheNeverForgets /\ []OneScanAtATime
<1>1. GrowInv => OneScanAtATime
  BY DEF GrowInv
<1>2. GrowInv /\ [Next]_vars => GrowInv'
  BY GrowStep
<1>3. GrowInv /\ [Next]_vars => [Claims(Newest) \subseteq Claims(Newest)']_vars
  BY GrowStep
<1>4. QED
  BY <1>1, <1>2, <1>3, InitGrow, PTL DEF Spec, CacheNeverForgets
=============================================================================
