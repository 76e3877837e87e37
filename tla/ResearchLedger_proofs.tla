----------------------- MODULE ResearchLedger_proofs -----------------------
(***************************************************************************)
(* For any proposal space, batch size, coach interval, number of nights    *)
(* and of runs that die at any step: the files of the search agree with    *)
(* one another, promotions improve on what they replace, and a batch never *)
(* repeats a test.                                                         *)
(***************************************************************************)
EXTENDS ResearchLedger, FiniteSetTheorems, TLAPS

-----------------------------------------------------------------------------
(* Lemmas about the files.                                                 *)

(* A row of the log is an attempt.                                         *)
LEMMA AttemptType ==
  ASSUME NEW r \in Records
  PROVE  AttemptOf(r) \in Attempts
BY DEF AttemptOf, Records, Attempts, Reports

(* The synced log has the ledger's length and its rows.                    *)
LEMMA SyncedType ==
  ASSUME NEW l \in Seq(Records)
  PROVE  /\ Synced(l) \in Seq(Attempts)
         /\ Len(Synced(l)) = Len(l)
         /\ DOMAIN Synced(l) = 1 .. Len(l)
         /\ \A i \in 1 .. Len(l) : Synced(l)[i] = AttemptOf(l[i])
<1>1. DOMAIN l = 1 .. Len(l) /\ Len(l) \in Nat
  OBVIOUS
<1>2. \A i \in 1 .. Len(l) : AttemptOf(l[i]) \in Attempts
  BY AttemptType
<1>3. Synced(l) = [i \in 1 .. Len(l) |-> AttemptOf(l[i])]
  BY <1>1 DEF Synced
<1>4. Synced(l) \in [1 .. Len(l) -> Attempts]
  BY <1>2, <1>3
<1>5. Synced(l) \in Seq(Attempts) /\ Len(Synced(l)) = Len(l)
  BY <1>1, <1>4
<1>6. QED
  BY <1>3, <1>5

(* A synced log matches its ledger.                                        *)
LEMMA SyncedMatches ==
  ASSUME NEW l \in Seq(Records)
  PROVE  Matches(Synced(l), l)
<1>1. Len(l) \in Nat
  OBVIOUS
<1>2. QED
  BY <1>1, SyncedType DEF Matches

(* The coach counts finitely many attempts.                                *)
LEMMA WorkersFinite ==
  ASSUME NEW a \in Seq(Attempts)
  PROVE  IsFiniteSet(Workers(a)) /\ Cardinality(Workers(a)) \in Nat
<1>1. Len(a) \in Nat /\ DOMAIN a = 1 .. Len(a)
  OBVIOUS
<1>2. IsFiniteSet(1 .. Len(a))
  BY <1>1, FS_Interval
<1>3. Workers(a) \subseteq 1 .. Len(a)
  BY <1>1 DEF Workers
<1>4. IsFiniteSet(Workers(a))
  BY <1>2, <1>3, FS_Subset
<1>5. QED
  BY <1>4, FS_CardinalityType

(* Syncing a log that matches never lowers the coach's count.              *)
LEMMA SyncedCountsMore ==
  ASSUME NEW l \in Seq(Records), NEW a \in Seq(Attempts), Matches(a, l)
  PROVE  Cardinality(Workers(a)) <= Cardinality(Workers(Synced(l)))
<1>1. /\ Len(a) \in Nat /\ Len(l) \in Nat
      /\ DOMAIN a = 1 .. Len(a) /\ Len(a) <= Len(l)
      /\ \A i \in 1 .. Len(a) : a[i] = AttemptOf(l[i])
  BY DEF Matches
<1>2. Workers(a) \subseteq Workers(Synced(l))
  BY <1>1, SyncedType DEF Workers
<1>3. IsFiniteSet(Workers(Synced(l)))
  BY SyncedType, WorkersFinite
<1>4. QED
  BY <1>2, <1>3, FS_Subset

(* A log still matches when the ledger grows.                              *)
LEMMA AppendMatches ==
  ASSUME NEW l \in Seq(Records), NEW r \in Records,
         NEW a \in Seq(Attempts), Matches(a, l)
  PROVE  Matches(a, Append(l, r))
<1>1. /\ Len(a) \in Nat /\ Len(l) \in Nat
      /\ Len(Append(l, r)) = Len(l) + 1
      /\ \A i \in 1 .. Len(l) : Append(l, r)[i] = l[i]
      /\ DOMAIN a = 1 .. Len(a)
  OBVIOUS
<1>2. QED
  BY <1>1 DEF Matches

(* The rows and the promotions of a ledger with one more record.           *)
LEMMA AppendRows ==
  ASSUME NEW l \in Seq(Records), NEW r \in Records
  PROVE  /\ Append(l, r) \in Seq(Records)
         /\ DOMAIN l = 1 .. Len(l) /\ Len(l) \in Nat
         /\ DOMAIN Append(l, r) = 1 .. (Len(l) + 1)
         /\ Append(l, r)[Len(l) + 1] = r
         /\ \A i \in 1 .. Len(l) : Append(l, r)[i] = l[i]
  OBVIOUS

LEMMA AppendKeptIn ==
  ASSUME NEW l \in Seq(Records), NEW r \in Records
  PROVE  /\ r.kept => KeptIn(Append(l, r)) = KeptIn(l) \union {Len(l) + 1}
         /\ ~r.kept => KeptIn(Append(l, r)) = KeptIn(l)
         /\ KeptIn(l) \subseteq 1 .. Len(l)
<1>1. KeptIn(l) \subseteq 1 .. Len(l)
  BY AppendRows DEF KeptIn
<1>2. ASSUME NEW i \in 1 .. (Len(l) + 1)
      PROVE  i \in 1 .. Len(l) \/ i = Len(l) + 1
  BY AppendRows
<1>3. CASE r.kept
  BY <1>1, <1>2, <1>3, AppendRows DEF KeptIn
<1>4. CASE ~r.kept
  BY <1>1, <1>2, <1>4, AppendRows DEF KeptIn
<1>5. QED
  BY <1>1, <1>3, <1>4

(* A record that is kept brings its own report, any other leaves the last. *)
LEMMA AppendLastKept ==
  ASSUME NEW l \in Seq(Records), NEW r \in Records,
         NEW old, LastKept(l, old)
  PROVE  /\ r.kept => LastKept(Append(l, r), r.report)
         /\ ~r.kept => LastKept(Append(l, r), old)
<1>1. CASE r.kept
  <2>1. Len(l) + 1 \in KeptIn(Append(l, r))
    BY <1>1, AppendKeptIn
  <2>2. \A k \in KeptIn(Append(l, r)) : k <= Len(l) + 1
    BY <1>1, AppendKeptIn, AppendRows
  <2>3. Append(l, r)[Len(l) + 1].report = r.report
    BY AppendRows
  <2>4. QED
    BY <1>1, <2>1, <2>2, <2>3 DEF LastKept
<1>2. CASE ~r.kept
  <2>1. KeptIn(Append(l, r)) = KeptIn(l) /\ KeptIn(l) \subseteq 1 .. Len(l)
    BY <1>2, AppendKeptIn
  <2>2. \A i \in KeptIn(l) : Append(l, r)[i] = l[i]
    BY <2>1, AppendRows
  <2>3. QED
    BY <1>2, <2>1, <2>2 DEF LastKept
<1>3. QED
  BY <1>1, <1>2

(* The chain grows by a reference, or by a report that improves on the last. *)
LEMMA AppendChained ==
  ASSUME NEW l \in Seq(Records), NEW r \in Records, NEW old,
         LastKept(l, old), Chained(l),
         (r.kept /\ ~r.baseline) => old # None /\ Improves(r.report, old)
  PROVE  Chained(Append(l, r))
<1> DEFINE m == Append(l, r)
<1>1. KeptIn(l) \subseteq 1 .. Len(l) /\ \A i \in KeptIn(l) : m[i] = l[i]
  BY AppendKeptIn, AppendRows
<1>2. KeptIn(l) \subseteq KeptIn(m) /\ KeptIn(m) \subseteq KeptIn(l) \union {Len(l) + 1}
  BY AppendKeptIn
<1>3. Len(l) \in Nat /\ m[Len(l) + 1] = r
  BY AppendRows
<1>4. ASSUME NEW i \in KeptIn(l)
      PROVE  \/ m[i].baseline
             \/ \E j \in KeptIn(m) :
                  /\ j < i /\ \A k \in KeptIn(m) : k < i => k <= j
                  /\ Improves(m[i].report, m[j].report)
  <2>1. CASE l[i].baseline
    BY <1>1, <1>4, <2>1
  <2>2. CASE ~l[i].baseline
    <3>1. PICK j \in KeptIn(l) :
            /\ j < i /\ \A k \in KeptIn(l) : k < i => k <= j
            /\ Improves(l[i].report, l[j].report)
      BY <1>4, <2>2 DEF Chained
    <3>2. ~(Len(l) + 1 < i)
      BY <1>1, <1>3, <1>4
    <3>3. \A k \in KeptIn(m) : k < i => k <= j
      BY <1>2, <3>1, <3>2
    <3>4. m[i] = l[i] /\ m[j] = l[j] /\ j \in KeptIn(m)
      BY <1>1, <1>2, <1>4, <3>1
    <3>5. QED
      BY <3>1, <3>3, <3>4
  <2>3. QED
    BY <2>1, <2>2
<1>5. ASSUME Len(l) + 1 \in KeptIn(m), ~r.baseline
      PROVE  \E j \in KeptIn(m) :
               /\ j < Len(l) + 1
               /\ \A k \in KeptIn(m) : k < Len(l) + 1 => k <= j
               /\ Improves(r.report, m[j].report)
  <2>1. r.kept
    BY <1>3, <1>5 DEF KeptIn
  <2>2. PICK j \in KeptIn(l) : old = l[j].report /\ \A k \in KeptIn(l) : k <= j
    BY <1>5, <2>1 DEF LastKept
  <2>3. j < Len(l) + 1
    BY <1>1, <1>3, <2>2
  <2>4. \A k \in KeptIn(m) : k < Len(l) + 1 => k <= j
    BY <1>2, <1>3, <2>2, AppendRows
  <2>5. Improves(r.report, m[j].report) /\ j \in KeptIn(m)
    BY <1>1, <1>2, <1>5, <2>1, <2>2
  <2>6. QED
    BY <2>3, <2>4, <2>5
<1>6. QED
  BY <1>2, <1>3, <1>4, <1>5 DEF Chained

-----------------------------------------------------------------------------
(* Types.  A write is prepared whenever one is due, and an experiment has  *)
(* a candidate to take.                                                    *)

WriteReady == pc \in {"append", "incumbent", "sync"} => todo \in Writes
PlanReady == pc = "experiment" => plan # <<>>
TypeInv == TypeOK /\ WriteReady /\ PlanReady

(* Evaluating gives a report of the run's own stamp.                       *)
LEMMA EvaluateType ==
  ASSUME work \in Stamps, NEW c \in Candidates \union {Defaults},
         NEW r \in Evaluate(c)
  PROVE  r \in Reports /\ r.candidate = c /\ r.stamp = work
BY DEF Evaluate, Reports

(* A promoted report is written as the incumbent.                          *)
LEMMA PromoteType ==
  ASSUME NEW r \in Reports, Promote(r)
  PROVE  todo' \in Writes
BY DEF Promote, Writes, Records

(* The batch is a number of candidates.                                    *)
LEMMA PlanType ==
  /\ IsFiniteSet(Eligible) /\ Eligible \subseteq Candidates
  /\ PlanSize \in Nat
<1>1. Eligible \subseteq Candidates
  BY DEF Eligible
<1>2. IsFiniteSet(Eligible)
  BY <1>1, ResearchAssumption, FS_Subset
<1>3. Cardinality(Eligible) \in Nat
  BY <1>2, FS_CardinalityType
<1>4. QED
  BY <1>1, <1>2, <1>3, ResearchAssumption DEF PlanSize

(* The files of main have their types at work too.                         *)
LEMMA CheckOutType ==
  ASSUME main \in Files, CheckOut
  PROVE  /\ ledger' \in Seq(Records) /\ attempts' \in Seq(Attempts)
         /\ incumbent' \in Reports \union {None}
         /\ blocked' \subseteq Categories /\ coached' \in Nat
BY DEF CheckOut, Files

(* A refused or dead local run leaves attempts.                            *)
LEMMA SyncedOrLeft ==
  ASSUME ledger \in Seq(Records), attempts \in Seq(Attempts)
  PROVE  (IF pc = "experiment" /\ Matches(attempts, ledger)
          THEN Synced(ledger) ELSE attempts) \in Seq(Attempts)
BY SyncedType

(* An abandoned run and one that starts have no batch.                     *)
LEMMA NoPlan == <<>> \in Seq(Candidates)
  OBVIOUS

(* The first state has its types.                                          *)
LEMMA InitType == Init => TypeInv
<1>1. <<>> \in Seq(Records) /\ <<>> \in Seq(Attempts) /\ <<>> \in Seq(Candidates)
  OBVIOUS
<1>2. 1 \in Stamps /\ 0 \in 0 .. MaxRequests /\ 0 \in 0 .. MaxFaults
  BY ResearchAssumption DEF Stamps
<1>3. NoFiles \in Files
  BY <1>1 DEF NoFiles, Files
<1>4. /\ "idle" \in Steps /\ "nightly" \in Modes
      /\ "idle" \notin {"append", "incumbent", "sync", "experiment"}
      /\ 0 \in Nat /\ {} \subseteq Categories /\ FALSE \in BOOLEAN
  BY DEF Steps, Modes
<1>5. Init => TypeOK
  BY <1>1, <1>2, <1>3, <1>4 DEF Init, TypeOK
<1>6. QED
  BY <1>4, <1>5 DEF Init, TypeInv, WriteReady, PlanReady

(* Every step keeps the types.                                             *)
LEMMA NextType == TypeInv /\ [Next]_vars => TypeInv'
<1> SUFFICES ASSUME TypeOK, WriteReady, PlanReady, [Next]_vars
             PROVE  TypeInv'
  BY DEF TypeInv
<1> USE DEF Steps, Modes
<1>1. CASE Push
  BY <1>1, ResearchAssumption DEF Push, TypeInv, TypeOK, WriteReady, PlanReady, files, bounds, Stamps
<1>2. CASE Nightly
  BY <1>2, CheckOutType, NoPlan
  DEF Nightly, Start, TypeInv, TypeOK, WriteReady, PlanReady
<1>3. CASE Request("refresh", "reference")
  <2>1. requests' \in 0 .. MaxRequests
    BY <1>3, ResearchAssumption DEF Request, TypeOK
  <2>2. QED
    BY <1>3, <2>1, CheckOutType, NoPlan
    DEF Request, Start, TypeInv, TypeOK, WriteReady, PlanReady
<1>4. CASE Request("bootstrap", "bootstrap")
  <2>1. requests' \in 0 .. MaxRequests
    BY <1>4, ResearchAssumption DEF Request, TypeOK
  <2>2. QED
    BY <1>4, <2>1, CheckOutType, NoPlan
    DEF Request, Start, TypeInv, TypeOK, WriteReady, PlanReady
<1>5. CASE Local
  BY <1>5, CheckOutType, NoPlan
  DEF Local, Start, TypeInv, TypeOK, WriteReady, PlanReady, files
<1>6. CASE Reference
  <2>1. CASE pc' = "coach" /\ UNCHANGED todo
    BY <1>6, <2>1 DEF Reference, TypeInv, TypeOK, WriteReady, PlanReady, files, bounds
  <2>2. CASE pc' = "append"
    <3>1. PICK r \in Evaluate(Defaults) : Promote(r)
      BY <1>6, <2>2 DEF Reference
    <3>2. todo' \in Writes
      BY <3>1, EvaluateType, PromoteType DEF TypeOK
    <3>3. QED
      BY <1>6, <2>2, <3>2
      DEF Reference, TypeInv, TypeOK, WriteReady, PlanReady, files, bounds
  <2>3. QED
    BY <1>6, <2>1, <2>2 DEF Reference
<1>7. CASE Bootstrap
  <2>1. CASE pc' = "publish" /\ UNCHANGED todo
    BY <1>7, <2>1 DEF Bootstrap, TypeInv, TypeOK, WriteReady, PlanReady, files, bounds
  <2>2. CASE pc' = "append"
    <3>1. PICK c \in Candidates \union {Defaults} :
            \E r \in Evaluate(c) : r.passed /\ Promote(r)
      BY <1>7, <2>2 DEF Bootstrap
    <3>2. PICK r \in Evaluate(c) : Promote(r)
      BY <3>1
    <3>3. todo' \in Writes
      BY <3>2, EvaluateType, PromoteType DEF TypeOK
    <3>4. QED
      BY <1>7, <2>2, <3>3
      DEF Bootstrap, TypeInv, TypeOK, WriteReady, PlanReady, files, bounds
  <2>3. QED
    BY <1>7, <2>1, <2>2 DEF Bootstrap
<1>8. CASE Coach
  <2>1. Reviewed \in Nat
    BY WorkersFinite DEF Reviewed, TypeOK
  <2>2. blocked' \subseteq Categories
    BY <1>8 DEF Coach, Exhausted, TypeOK
  <2>3. coached' \in Nat
    BY <1>8, <2>1 DEF Coach, TypeOK
  <2>4. pc' \in {"plan", "publish", "experiment"} /\ (pc' = "experiment" => plan # <<>>)
    BY <1>8 DEF Coach
  <2>5. QED
    BY <1>8, <2>2, <2>3, <2>4
    DEF Coach, TypeInv, TypeOK, WriteReady, PlanReady, bounds
<1>9. CASE Plan
  <2>1. plan' \in Seq(Candidates) /\ Len(plan') = PlanSize
    BY <1>9, PlanType DEF Plan
  <2>2. pc' = "experiment" => plan' # <<>>
    BY <1>9, <2>1 DEF Plan
  <2>3. pc' \in {"publish", "experiment"}
    BY <1>9 DEF Plan
  <2>4. QED
    BY <1>9, <2>1, <2>2, <2>3
    DEF Plan, TypeInv, TypeOK, WriteReady, PlanReady, files, bounds
<1>10. CASE Experiment
  <2>1. plan # <<>> /\ plan \in Seq(Candidates)
    BY <1>10 DEF Experiment, PlanReady, TypeOK
  <2>2. Head(plan) \in Candidates /\ Tail(plan) \in Seq(Candidates)
    BY <2>1
  <2>3. PICK r \in Evaluate(Head(plan)) :
          todo' = [record |-> [report |-> r, baseline |-> FALSE,
                               kept |-> Beats(r)],
                   incumbent |-> IF Beats(r) THEN r ELSE incumbent]
    BY <1>10 DEF Experiment
  <2>4. r \in Reports
    BY <2>2, EvaluateType DEF TypeOK
  <2>5. Beats(r) \in BOOLEAN
    BY <2>4 DEF Beats, Reports
  <2>6. todo' \in Writes
    BY <2>3, <2>4, <2>5 DEF Writes, Records, TypeOK
  <2>7. attempts' \in Seq(Attempts)
    BY <1>10, SyncedType DEF Experiment, TypeOK
  <2>8. QED
    BY <1>10, <2>2, <2>6, <2>7
    DEF Experiment, TypeInv, TypeOK, WriteReady, PlanReady, bounds
<1>11. CASE AppendLedger
  <2>1. todo \in Writes /\ todo.record \in Records
    BY <1>11 DEF AppendLedger, WriteReady, Writes
  <2>2. ledger' \in Seq(Records)
    BY <1>11, <2>1, AppendRows DEF AppendLedger, TypeOK
  <2>3. QED
    BY <1>11, <2>1, <2>2
    DEF AppendLedger, TypeInv, TypeOK, WriteReady, PlanReady, bounds
<1>12. CASE WriteIncumbent
  <2>1. todo \in Writes
    BY <1>12 DEF WriteIncumbent, WriteReady
  <2>2. incumbent' \in Reports \union {None}
    BY <1>12, <2>1 DEF WriteIncumbent, Writes
  <2>3. QED
    BY <1>12, <2>1, <2>2
    DEF WriteIncumbent, TypeInv, TypeOK, WriteReady, PlanReady, bounds
<1>13. CASE Sync
  <2>1. attempts' \in Seq(Attempts)
    BY <1>13, SyncedType DEF Sync, TypeOK
  <2>2. pc' \in {"coach", "publish"}
    BY <1>13 DEF Sync
  <2>3. QED
    BY <1>13, <2>1, <2>2
    DEF Sync, TypeInv, TypeOK, WriteReady, PlanReady, bounds
<1>14. CASE Publish
  <2>1. main' \in Files
    BY <1>14 DEF Publish, Files, TypeOK
  <2>2. QED
    BY <1>14, <2>1
    DEF Publish, TypeInv, TypeOK, WriteReady, PlanReady, files, bounds
<1>15. CASE Refuse
  <2>1. /\ ledger' \in Seq(Records) /\ attempts' \in Seq(Attempts)
        /\ incumbent' \in Reports \union {None}
        /\ blocked' \subseteq Categories /\ coached' \in Nat
    <3>1. CASE mode # "local" /\ CheckOut
      BY <3>1, CheckOutType DEF TypeOK
    <3>2. CASE mode = "local"
      BY <1>15, <3>2, SyncedOrLeft DEF Refuse, TypeOK
    <3>3. QED
      BY <1>15, <3>1, <3>2 DEF Refuse
  <2>2. QED
    BY <1>15, <2>1, NoPlan
    DEF Refuse, Abandon, TypeInv, TypeOK, WriteReady, PlanReady
<1>16. CASE Die
  <2>1. /\ ledger' \in Seq(Records) /\ attempts' \in Seq(Attempts)
        /\ incumbent' \in Reports \union {None}
        /\ blocked' \subseteq Categories /\ coached' \in Nat
    BY <1>16, CheckOutType DEF Die, TypeOK, files
  <2>2. faults' \in 0 .. MaxFaults
    BY <1>16, ResearchAssumption DEF Die, TypeOK
  <2>3. QED
    BY <1>16, <2>1, <2>2, NoPlan
    DEF Die, Abandon, TypeInv, TypeOK, WriteReady, PlanReady
<1>17. CASE UNCHANGED vars
  BY <1>17 DEF vars, TypeInv, TypeOK, WriteReady, PlanReady, files, bounds
<1>18. QED
  BY <1>1, <1>2, <1>3, <1>4, <1>5, <1>6, <1>7, <1>8, <1>9, <1>10, <1>11, <1>12,
     <1>13, <1>14, <1>15, <1>16, <1>17 DEF Next

(* The five files, on main and at work, and the run always have the        *)
(* structure the programs read back.                                       *)
THEOREM TypeCorrect == Spec => []TypeOK
<1>1. TypeInv => TypeOK
  BY DEF TypeInv
<1>2. QED
  BY <1>1, InitType, NextType, PTL DEF Spec

-----------------------------------------------------------------------------
(* The log and the checkpoint.  What main holds is what a run starts from, *)
(* so the agreement has to hold there as well.                             *)

Agree(a, l, n) == Matches(a, l) /\ n <= Cardinality(Workers(a))
AuditInv == /\ Agree(attempts, ledger, coached)
            /\ Agree(main.attempts, main.ledger, main.coached)

(* A synced log still covers the coach's checkpoint.                       *)
LEMMA SyncedAgrees ==
  ASSUME NEW l \in Seq(Records), NEW a \in Seq(Attempts), NEW n \in Nat,
         Agree(a, l, n)
  PROVE  Agree(Synced(l), l, n)
<1>1. Matches(a, l) /\ n <= Cardinality(Workers(a))
  BY DEF Agree
<1>2. Cardinality(Workers(a)) \in Nat /\ Cardinality(Workers(Synced(l))) \in Nat
  BY SyncedType, WorkersFinite
<1>3. Cardinality(Workers(a)) <= Cardinality(Workers(Synced(l)))
  BY <1>1, SyncedCountsMore
<1>4. n <= Cardinality(Workers(Synced(l)))
  BY <1>1, <1>2, <1>3
<1>5. QED
  BY <1>4, SyncedMatches DEF Agree

LEMMA InitAudit == Init => AuditInv
<1> SUFFICES ASSUME Init PROVE AuditInv
  OBVIOUS
<1>1. <<>> \in Seq(Attempts) /\ Len(<<>>) = 0 /\ DOMAIN <<>> = {}
  OBVIOUS
<1>2. Matches(<<>>, <<>>)
  BY <1>1 DEF Matches
<1>3. Cardinality(Workers(<<>>)) \in Nat
  BY <1>1, WorkersFinite
<1>4. Agree(<<>>, <<>>, 0)
  BY <1>2, <1>3 DEF Agree
<1>5. QED
  BY <1>4 DEF Init, NoFiles, AuditInv

LEMMA NextAudit == TypeInv /\ AuditInv /\ [Next]_vars => AuditInv'
<1> SUFFICES ASSUME TypeOK, WriteReady, AuditInv, [Next]_vars
             PROVE  AuditInv'
  BY DEF TypeInv
<1>1. ASSUME UNCHANGED <<attempts, ledger, coached, main>>
      PROVE  AuditInv'
  BY <1>1 DEF AuditInv
<1>2. ASSUME CheckOut, main' = main
      PROVE  AuditInv'
  BY <1>2 DEF AuditInv, CheckOut
<1>3. CASE Coach
  <2>1. Reviewed \in Nat
    BY WorkersFinite DEF Reviewed, TypeOK
  <2>2. coached' <= Cardinality(Workers(attempts))
    BY <1>3, <2>1 DEF Coach, Reviewed, AuditInv, Agree
  <2>3. Agree(attempts, ledger, coached')
    BY <2>2 DEF AuditInv, Agree
  <2>4. attempts' = attempts /\ ledger' = ledger /\ main' = main
    BY <1>3 DEF Coach
  <2>5. QED
    BY <2>3, <2>4 DEF AuditInv
<1>4. CASE Experiment \/ Sync
  <2>1. /\ attempts' = Synced(ledger) /\ ledger' = ledger
        /\ coached' = coached /\ main' = main
    BY <1>4 DEF Experiment, Sync
  <2>2. Agree(Synced(ledger), ledger, coached)
    BY SyncedAgrees DEF AuditInv, TypeOK
  <2>3. QED
    BY <2>1, <2>2 DEF AuditInv
<1>5. CASE AppendLedger
  <2>1. todo.record \in Records
    BY <1>5 DEF AppendLedger, WriteReady, Writes
  <2>2. Matches(attempts, Append(ledger, todo.record))
    BY <2>1, AppendMatches DEF AuditInv, Agree, TypeOK
  <2>3. /\ ledger' = Append(ledger, todo.record) /\ attempts' = attempts
        /\ coached' = coached /\ main' = main
    BY <1>5 DEF AppendLedger
  <2>4. Agree(attempts, Append(ledger, todo.record), coached)
    BY <2>2 DEF AuditInv, Agree
  <2>5. QED
    BY <2>3, <2>4 DEF AuditInv
<1>6. CASE Publish
  <2>1. UNCHANGED <<attempts, ledger, coached>>
    BY <1>6 DEF Publish, files
  <2>2. CASE mode = "local"
    BY <1>1, <1>6, <2>1, <2>2 DEF Publish
  <2>3. CASE mode # "local"
    <3>1. /\ main'.attempts = attempts /\ main'.ledger = ledger
          /\ main'.coached = coached
      BY <1>6, <2>3 DEF Publish
    <3>2. QED
      BY <2>1, <3>1 DEF AuditInv
  <2>4. QED
    BY <2>2, <2>3
<1>7. CASE Refuse
  <2>1. main' = main
    BY <1>7 DEF Refuse, Abandon
  <2>2. CASE CheckOut
    BY <1>2, <2>1, <2>2
  <2>3. CASE /\ attempts' = IF pc = "experiment" /\ Matches(attempts, ledger)
                            THEN Synced(ledger) ELSE attempts
             /\ UNCHANGED <<ledger, incumbent, blocked, coached>>
    <3>1. Agree(Synced(ledger), ledger, coached)
      BY SyncedAgrees DEF AuditInv, TypeOK
    <3>2. Agree(attempts', ledger, coached)
      BY <2>3, <3>1 DEF AuditInv
    <3>3. QED
      BY <2>1, <2>3, <3>2 DEF AuditInv
  <2>4. QED
    BY <1>7, <2>2, <2>3 DEF Refuse
<1>8. CASE Push \/ Reference \/ Bootstrap \/ Plan \/ WriteIncumbent
  BY <1>1, <1>8 DEF Push, Reference, Bootstrap, Plan, WriteIncumbent, files
<1>9. CASE \/ Nightly \/ Local
           \/ Request("refresh", "reference") \/ Request("bootstrap", "bootstrap")
  BY <1>1, <1>2, <1>9 DEF Nightly, Local, Request, Start, files
<1>10. CASE Die
  BY <1>1, <1>2, <1>10 DEF Die, Abandon, files
<1>11. CASE UNCHANGED vars
  BY <1>1, <1>11 DEF vars, files
<1>12. QED
  BY <1>3, <1>4, <1>5, <1>6, <1>7, <1>8, <1>9, <1>10, <1>11 DEF Next

(* Wherever a batch was killed between the ledger, the incumbent and the   *)
(* log, the log is a prefix of what the ledger says and no shorter than    *)
(* the coach has read: neither is ever refused as altered or truncated.    *)
THEOREM AuditAlwaysAgrees == Spec => []AuditAgrees
<1>1. AuditInv => AuditAgrees
  BY DEF AuditInv, Agree, AuditAgrees
<1>2. QED
  BY <1>1, InitType, NextType, InitAudit, NextAudit, PTL DEF Spec

-----------------------------------------------------------------------------
(* Promotions.  Between the ledger and the incumbent a run of the workflow *)
(* holds what makes them agree in what it is about to write; a local batch *)
(* killed there does not, but nothing publishes its files.                 *)

WriteFits ==
  /\ todo.record.kept => todo.incumbent = todo.record.report
  /\ ~todo.record.kept => todo.incumbent = incumbent
  /\ (todo.record.kept /\ ~todo.record.baseline)
       => incumbent # None /\ Improves(todo.record.report, incumbent)
WorkFits ==
  mode # "local" =>
    /\ Chained(ledger)
    /\ LastKept(ledger, IF pc = "incumbent" THEN todo.incumbent ELSE incumbent)
MainFits == Chained(main.ledger) /\ LastKept(main.ledger, main.incumbent)
PromotionInv == MainFits /\ WorkFits /\ (pc = "append" => WriteFits)

LEMMA InitPromotion == Init => PromotionInv
<1> SUFFICES ASSUME Init PROVE PromotionInv
  OBVIOUS
<1>1. KeptIn(<<>>) = {}
  BY DEF KeptIn
<1>2. Chained(<<>>) /\ LastKept(<<>>, None)
  BY <1>1 DEF Chained, LastKept
<1>3. ledger = <<>> /\ incumbent = None /\ pc = "idle"
  BY DEF Init
<1>4. main.ledger = <<>> /\ main.incumbent = None
  BY DEF Init, NoFiles
<1>5. QED
  BY <1>2, <1>3, <1>4 DEF PromotionInv, MainFits, WorkFits

LEMMA NextPromotion == TypeInv /\ PromotionInv /\ [Next]_vars => PromotionInv'
<1> SUFFICES ASSUME TypeOK, WriteReady, PlanReady, PromotionInv, [Next]_vars
             PROVE  PromotionInv'
  BY DEF TypeInv
<1>1. ASSUME UNCHANGED <<ledger, incumbent, main, mode>>,
             pc # "incumbent", pc' \notin {"incumbent", "append"}
      PROVE  PromotionInv'
  BY <1>1 DEF PromotionInv, MainFits, WorkFits
<1>2. ASSUME CheckOut, main' = main, pc' \notin {"incumbent", "append"}
      PROVE  PromotionInv'
  BY <1>2 DEF PromotionInv, MainFits, WorkFits, CheckOut
<1>3. CASE Reference \/ Bootstrap
  <2>1. /\ UNCHANGED <<ledger, incumbent, main, mode>>
        /\ pc # "incumbent" /\ pc' # "incumbent"
    BY <1>3 DEF Reference, Bootstrap, files
  <2>2. CASE pc' # "append"
    BY <1>1, <2>1, <2>2
  <2>3. CASE pc' = "append"
    <3>1. \E r : Promote(r)
      BY <1>3, <2>3 DEF Reference, Bootstrap
    <3>2. WriteFits'
      BY <3>1 DEF Promote, WriteFits
    <3>3. QED
      BY <2>1, <2>3, <3>2 DEF PromotionInv, MainFits, WorkFits
  <2>4. QED
    BY <2>2, <2>3
<1>4. CASE Experiment
  <2>1. plan # <<>> /\ plan \in Seq(Candidates)
    BY <1>4 DEF Experiment, PlanReady, TypeOK
  <2>2. Head(plan) \in Candidates
    BY <2>1
  <2>3. PICK r \in Evaluate(Head(plan)) :
          todo' = [record |-> [report |-> r, baseline |-> FALSE,
                               kept |-> Beats(r)],
                   incumbent |-> IF Beats(r) THEN r ELSE incumbent]
    BY <1>4 DEF Experiment
  <2>4. r \in Reports /\ r.candidate # Defaults /\ r.stamp = work
    BY <2>2, EvaluateType, ResearchAssumption DEF TypeOK
  <2>5. Beats(r) => incumbent # None /\ Improves(r, incumbent)
    <3>1. incumbent # None => incumbent.stamp = work
      BY <1>4 DEF Experiment, Stale
    <3>2. SUFFICES ASSUME Beats(r)
                   PROVE  incumbent # None /\ Improves(r, incumbent)
      OBVIOUS
    <3>3. incumbent # None
      BY <2>4, <3>2 DEF Beats
    <3>4. incumbent.score \in Nat /\ r.score \in Nat
      BY <2>4, <3>3, ResearchAssumption DEF TypeOK, Reports
    <3>5. QED
      BY <2>4, <3>1, <3>2, <3>3, <3>4 DEF Beats, Improves
  <2>6. incumbent' = incumbent
    BY <1>4 DEF Experiment
  <2>7. WriteFits'
    BY <2>3, <2>5, <2>6 DEF WriteFits
  <2>8. UNCHANGED <<ledger, main, mode>> /\ pc = "experiment" /\ pc' = "append"
    BY <1>4 DEF Experiment
  <2>9. QED
    BY <2>6, <2>7, <2>8 DEF PromotionInv, MainFits, WorkFits
<1>5. CASE AppendLedger
  <2>1. todo.record \in Records /\ WriteFits
    BY <1>5 DEF AppendLedger, WriteReady, Writes, PromotionInv
  <2>2. /\ pc = "append" /\ pc' = "incumbent"
        /\ ledger' = Append(ledger, todo.record)
        /\ UNCHANGED <<main, mode, todo>>
    BY <1>5 DEF AppendLedger
  <2>3. ASSUME mode # "local"
        PROVE  /\ Chained(Append(ledger, todo.record))
               /\ LastKept(Append(ledger, todo.record), todo.incumbent)
    <3>1. Chained(ledger) /\ LastKept(ledger, incumbent) /\ ledger \in Seq(Records)
      BY <2>2, <2>3 DEF PromotionInv, WorkFits, TypeOK
    <3>2. Chained(Append(ledger, todo.record))
      BY <2>1, <3>1, AppendChained DEF WriteFits
    <3>3. LastKept(Append(ledger, todo.record), todo.incumbent)
      BY <2>1, <3>1, AppendLastKept DEF WriteFits
    <3>4. QED
      BY <3>2, <3>3
  <2>4. QED
    BY <2>2, <2>3 DEF PromotionInv, MainFits, WorkFits
<1>6. CASE WriteIncumbent
  BY <1>6 DEF WriteIncumbent, PromotionInv, MainFits, WorkFits
<1>7. CASE Publish
  <2>1. UNCHANGED <<ledger, incumbent, mode>> /\ pc = "publish" /\ pc' = "idle"
    BY <1>7 DEF Publish, files
  <2>2. CASE mode = "local"
    BY <1>1, <1>7, <2>1, <2>2 DEF Publish
  <2>3. CASE mode # "local"
    <3>1. main'.ledger = ledger /\ main'.incumbent = incumbent
      BY <1>7, <2>3 DEF Publish
    <3>2. Chained(ledger) /\ LastKept(ledger, incumbent)
      BY <2>1, <2>3 DEF PromotionInv, WorkFits
    <3>3. QED
      BY <2>1, <3>1, <3>2 DEF PromotionInv, MainFits, WorkFits
  <2>4. QED
    BY <2>2, <2>3
<1>8. CASE Refuse \/ Die
  <2>1. main' = main /\ mode' = mode /\ pc' = "idle"
    BY <1>8 DEF Refuse, Die, Abandon
  <2>2. CASE mode # "local"
    BY <1>2, <1>8, <2>1, <2>2 DEF Refuse, Die
  <2>3. CASE mode = "local"
    BY <2>1, <2>3 DEF PromotionInv, MainFits, WorkFits
  <2>4. QED
    BY <2>2, <2>3
<1>9. CASE \/ Nightly \/ Local
           \/ Request("refresh", "reference") \/ Request("bootstrap", "bootstrap")
  <2>1. main' = main /\ pc' \notin {"incumbent", "append"}
    BY <1>9 DEF Nightly, Local, Request, Start
  <2>2. CASE CheckOut
    BY <1>2, <2>1, <2>2
  <2>3. CASE ~CheckOut
    <3>1. mode' = "local"
      BY <1>9, <2>3 DEF Nightly, Local, Request, Start
    <3>2. QED
      BY <2>1, <3>1 DEF PromotionInv, MainFits, WorkFits
  <2>4. QED
    BY <2>2, <2>3
<1>10. CASE Coach \/ Plan \/ Sync
  <2>1. pc' \notin {"incumbent", "append"}
    BY <1>10 DEF Coach, Plan, Sync
  <2>2. QED
    BY <1>1, <1>10, <2>1 DEF Coach, Plan, Sync, files
<1>11. CASE Push \/ UNCHANGED vars
  BY <1>11 DEF Push, vars, files, PromotionInv, MainFits, WorkFits, WriteFits
<1>12. QED
  BY <1>3, <1>4, <1>5, <1>6, <1>7, <1>8, <1>9, <1>10, <1>11 DEF Next

(* Whatever run was published, lost or overtaken by a push, the incumbent  *)
(* on main is the report of the ledger's last promotion or reference.      *)
THEOREM IncumbentCurrent == Spec => []IncumbentIsLastKept
<1>1. PromotionInv => IncumbentIsLastKept
  BY DEF PromotionInv, MainFits, IncumbentIsLastKept
<1>2. QED
  BY <1>1, InitType, NextType, InitPromotion, NextPromotion, PTL DEF Spec

(* Every candidate the ledger on main calls kept passed its gates and beat *)
(* the report kept before it, which has the same release and policy.       *)
THEOREM PromotionsChain == Spec => []PromotionsImprove
<1>1. PromotionInv => PromotionsImprove
  BY DEF PromotionInv, MainFits, PromotionsImprove
<1>2. QED
  BY <1>1, InitType, NextType, InitPromotion, NextPromotion, PTL DEF Spec

-----------------------------------------------------------------------------
(* Tests.  What is left of a batch is new to the ledger, and so is the     *)
(* result about to be appended.                                            *)

NoRepeat(l) ==
  \A i, j \in DOMAIN l :
    (~l[i].baseline /\ ~l[j].baseline /\ i # j)
      => l[i].report.candidate # l[j].report.candidate
PlanDistinct == \A i, j \in DOMAIN plan : plan[i] = plan[j] => i = j
PlanNew == \A i \in DOMAIN plan : plan[i] \notin Tested(ledger)
WriteNew ==
  /\ ~todo.record.baseline => todo.record.report.candidate \notin Tested(ledger)
  /\ \A i \in DOMAIN plan : plan[i] # todo.record.report.candidate
BatchInv == /\ NoRepeat(main.ledger) /\ NoRepeat(ledger)
            /\ PlanDistinct /\ PlanNew
            /\ pc = "append" => WriteNew
            /\ pc \in {"reference", "bootstrap"} => plan = <<>>

(* A ledger with one more record.                                          *)
LEMMA AppendTested ==
  ASSUME NEW l \in Seq(Records), NEW r \in Records
  PROVE  Tested(Append(l, r)) \subseteq Tested(l) \union {r.report.candidate}
<1> SUFFICES ASSUME NEW i \in DOMAIN Append(l, r)
             PROVE  Append(l, r)[i].report.candidate
                      \in Tested(l) \union {r.report.candidate}
  BY DEF Tested
<1>1. CASE i = Len(l) + 1
  BY <1>1, AppendRows
<1>2. CASE i # Len(l) + 1
  <2>1. i \in DOMAIN l /\ Append(l, r)[i] = l[i]
    BY <1>2, AppendRows
  <2>2. QED
    BY <2>1 DEF Tested
<1>3. QED
  BY <1>1, <1>2

LEMMA AppendNoRepeat ==
  ASSUME NEW l \in Seq(Records), NEW r \in Records, NoRepeat(l),
         ~r.baseline => r.report.candidate \notin Tested(l)
  PROVE  NoRepeat(Append(l, r))
<1> DEFINE m == Append(l, r)
<1> SUFFICES ASSUME NEW i \in DOMAIN m, NEW j \in DOMAIN m,
                    ~m[i].baseline, ~m[j].baseline, i # j
             PROVE  m[i].report.candidate # m[j].report.candidate
  BY DEF NoRepeat
<1>1. /\ i \in DOMAIN l => m[i] = l[i]
      /\ j \in DOMAIN l => m[j] = l[j]
      /\ i \notin DOMAIN l => i = Len(l) + 1
      /\ j \notin DOMAIN l => j = Len(l) + 1
      /\ m[Len(l) + 1] = r
  BY AppendRows
<1>2. CASE i \in DOMAIN l /\ j \in DOMAIN l
  BY <1>1, <1>2 DEF NoRepeat
<1>3. CASE i \notin DOMAIN l
  <2>1. j \in DOMAIN l /\ m[i] = r
    BY <1>1, <1>3
  <2>2. l[j].report.candidate \in Tested(l)
    BY <2>1 DEF Tested
  <2>3. QED
    BY <1>1, <2>1, <2>2
<1>4. CASE j \notin DOMAIN l
  <2>1. i \in DOMAIN l /\ m[j] = r
    BY <1>1, <1>4
  <2>2. l[i].report.candidate \in Tested(l)
    BY <2>1 DEF Tested
  <2>3. QED
    BY <1>1, <2>1, <2>2
<1>5. QED
  BY <1>2, <1>3, <1>4

LEMMA InitBatch == Init => BatchInv
<1>1. DOMAIN <<>> = {}
  OBVIOUS
<1>2. QED
  BY <1>1 DEF Init, NoFiles, BatchInv, NoRepeat, PlanDistinct, PlanNew

LEMMA NextBatch == TypeInv /\ BatchInv /\ [Next]_vars => BatchInv'
<1> SUFFICES ASSUME TypeOK, WriteReady, PlanReady, BatchInv, [Next]_vars
             PROVE  BatchInv'
  BY DEF TypeInv
<1>1. ASSUME UNCHANGED <<ledger, main, plan>>,
             pc' \notin {"append", "reference", "bootstrap"}
      PROVE  BatchInv'
  BY <1>1 DEF BatchInv, PlanDistinct, PlanNew
<1>2. ASSUME ledger' \in {ledger, main.ledger}, main' = main, plan' = <<>>,
             pc' # "append"
      PROVE  BatchInv'
  <2>1. DOMAIN plan' = {}
    BY <1>2
  <2>2. PlanDistinct' /\ PlanNew'
    BY <2>1 DEF PlanDistinct, PlanNew
  <2>3. NoRepeat(ledger') /\ NoRepeat(main'.ledger)
    BY <1>2 DEF BatchInv
  <2>4. QED
    BY <1>2, <2>2, <2>3 DEF BatchInv
<1>3. CASE Reference \/ Bootstrap
  <2>1. UNCHANGED <<ledger, main, plan>> /\ plan = <<>>
    BY <1>3 DEF Reference, Bootstrap, files, BatchInv
  <2>2. CASE pc' # "append"
    BY <1>1, <1>3, <2>1, <2>2 DEF Reference, Bootstrap
  <2>3. CASE pc' = "append"
    <3>1. \E r : Promote(r)
      BY <1>3, <2>3 DEF Reference, Bootstrap
    <3>2. todo'.record.baseline = TRUE /\ DOMAIN plan' = {}
      BY <2>1, <3>1 DEF Promote
    <3>3. WriteNew'
      BY <3>2 DEF WriteNew
    <3>4. PlanDistinct' /\ PlanNew'
      BY <3>2 DEF PlanDistinct, PlanNew
    <3>5. QED
      BY <2>1, <2>3, <3>3, <3>4 DEF BatchInv
  <2>4. QED
    BY <2>2, <2>3
<1>4. CASE Plan
  <2>1. plan' \in [1 .. PlanSize -> Eligible] /\ DOMAIN plan' = 1 .. PlanSize
    BY <1>4 DEF Plan
  <2>2. ledger' = ledger /\ main' = main /\ pc' \in {"publish", "experiment"}
    BY <1>4 DEF Plan, files
  <2>3. PlanDistinct'
    BY <1>4, <2>1 DEF Plan, PlanDistinct
  <2>4. PlanNew'
    BY <2>1, <2>2 DEF PlanNew, Eligible
  <2>5. QED
    BY <2>2, <2>3, <2>4 DEF BatchInv
<1>5. CASE Experiment
  <2>1. plan # <<>> /\ plan \in Seq(Candidates)
    BY <1>5 DEF Experiment, PlanReady, TypeOK
  <2>2. /\ 1 \in DOMAIN plan /\ Head(plan) = plan[1]
        /\ \A i \in DOMAIN Tail(plan) :
             /\ i + 1 \in DOMAIN plan /\ i \in Nat /\ i >= 1
             /\ Tail(plan)[i] = plan[i + 1]
    BY <2>1
  <2>3. /\ plan' = Tail(plan) /\ UNCHANGED <<ledger, main>>
        /\ pc' = "append"
    BY <1>5 DEF Experiment
  <2>4. PICK r \in Evaluate(Head(plan)) :
          todo' = [record |-> [report |-> r, baseline |-> FALSE,
                               kept |-> Beats(r)],
                   incumbent |-> IF Beats(r) THEN r ELSE incumbent]
    BY <1>5 DEF Experiment
  <2>5. todo'.record.report.candidate = plan[1]
    <3>1. Head(plan) \in Candidates
      BY <2>1
    <3>2. r.candidate = plan[1]
      BY <2>2, <3>1, EvaluateType DEF TypeOK
    <3>3. QED
      BY <2>4, <3>2
  <2>6. WriteNew'
    <3>1. plan[1] \notin Tested(ledger)
      BY <2>2 DEF BatchInv, PlanNew
    <3>2. ASSUME NEW i \in DOMAIN Tail(plan)
          PROVE  Tail(plan)[i] # plan[1]
      <4>1. i + 1 # 1
        BY <2>2, <3>2
      <4>2. QED
        BY <2>2, <3>2, <4>1 DEF BatchInv, PlanDistinct
    <3>3. QED
      BY <2>3, <2>5, <3>1, <3>2 DEF WriteNew
  <2>7. PlanDistinct'
    <3>1. ASSUME NEW i \in DOMAIN Tail(plan), NEW j \in DOMAIN Tail(plan),
                 Tail(plan)[i] = Tail(plan)[j]
          PROVE  i = j
      <4>1. i + 1 = j + 1
        BY <2>2, <3>1 DEF BatchInv, PlanDistinct
      <4>2. QED
        BY <2>2, <4>1
    <3>2. QED
      BY <2>3, <3>1 DEF PlanDistinct
  <2>8. PlanNew'
    BY <2>2, <2>3 DEF PlanNew, BatchInv
  <2>9. QED
    BY <2>3, <2>6, <2>7, <2>8 DEF BatchInv
<1>6. CASE AppendLedger
  <2>1. todo.record \in Records /\ WriteNew /\ ledger \in Seq(Records)
    BY <1>6 DEF AppendLedger, WriteReady, Writes, BatchInv, TypeOK
  <2>2. /\ ledger' = Append(ledger, todo.record) /\ pc' = "incumbent"
        /\ UNCHANGED <<main, plan>>
    BY <1>6 DEF AppendLedger
  <2>3. NoRepeat(Append(ledger, todo.record))
    BY <2>1, AppendNoRepeat DEF BatchInv, WriteNew
  <2>4. \A i \in DOMAIN plan : plan[i] \notin Tested(Append(ledger, todo.record))
    BY <2>1, AppendTested DEF BatchInv, PlanNew, WriteNew
  <2>5. QED
    BY <2>2, <2>3, <2>4 DEF BatchInv, PlanDistinct, PlanNew
<1>7. CASE Publish
  <2>1. UNCHANGED <<ledger, plan>> /\ pc' = "idle"
    BY <1>7 DEF Publish, files
  <2>2. main'.ledger \in {ledger, main.ledger}
    BY <1>7 DEF Publish
  <2>3. QED
    BY <2>1, <2>2 DEF BatchInv, PlanDistinct, PlanNew
<1>8. CASE Refuse \/ Die
  <2>1. main' = main /\ plan' = <<>> /\ pc' = "idle"
    BY <1>8 DEF Refuse, Die, Abandon
  <2>2. ledger' \in {ledger, main.ledger}
    BY <1>8 DEF Refuse, Die, CheckOut, files
  <2>3. QED
    BY <1>2, <2>1, <2>2
<1>9. CASE \/ Nightly \/ Local
           \/ Request("refresh", "reference") \/ Request("bootstrap", "bootstrap")
  <2>1. main' = main /\ plan' = <<>> /\ pc' # "append"
    BY <1>9 DEF Nightly, Local, Request, Start
  <2>2. ledger' \in {ledger, main.ledger}
    BY <1>9 DEF Nightly, Local, Request, CheckOut, files
  <2>3. QED
    BY <1>2, <2>1, <2>2
<1>10. CASE Coach \/ WriteIncumbent \/ Sync
  <2>1. /\ UNCHANGED <<ledger, main, plan>>
        /\ pc' \notin {"append", "reference", "bootstrap"}
    BY <1>10 DEF Coach, WriteIncumbent, Sync
  <2>2. QED
    BY <1>1, <2>1
<1>11. CASE Push \/ UNCHANGED vars
  BY <1>11 DEF Push, vars, files, BatchInv, PlanDistinct, PlanNew, WriteNew
<1>12. QED
  BY <1>3, <1>4, <1>5, <1>6, <1>7, <1>8, <1>9, <1>10, <1>11 DEF Next

(* No batch evaluates a candidate twice on one ledger, whichever steps of  *)
(* earlier batches were lost.                                              *)
THEOREM BatchesNeverRepeat == Spec => []TestedOnce
<1>1. BatchInv => TestedOnce
  BY DEF BatchInv, NoRepeat, TestedOnce
<1>2. QED
  BY <1>1, InitType, NextType, InitBatch, NextBatch, PTL DEF Spec
=============================================================================
