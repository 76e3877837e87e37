--------------------------- MODULE ResearchLedger ---------------------------
(***************************************************************************)
(* The nightly search for better parameters (src/autoresearch): the hash-  *)
(* chained ledger results.jsonl, the log attempts.log that is derived from *)
(* it, the incumbent a candidate has to beat, the coach's playbook and     *)
(* checkpoint, and the programs that write these five files one after the  *)
(* other.  A scheduled run works on a checkout of main and publishes all   *)
(* files in one commit or, when it fails, none of them; nightly_batch on a *)
(* developer's directory keeps whatever it had written when it died.       *)
(*                                                                         *)
(* A candidate stands for a set of changed parameters and a score for the  *)
(* rank of its objective tuple.  What the evaluator finds is a free choice *)
(* of gates passed or missed and of the score.  The release and the        *)
(* validation profile are one stamp: the policy whose digest is the        *)
(* profile names the release (evaluator.py:108-117).                       *)
(***************************************************************************)
EXTENDS Integers, Sequences, FiniteSets

CONSTANTS
  Candidates,   \* the proposal space, without the production defaults
  Defaults,     \* the candidate that changes no parameter
  Categories,   \* CATEGORY_DIRECTIONS
  CategoryOf,   \* the categories of a candidate's parameters
  Scores,       \* ranks of objective tuples
  None,         \* no incumbent yet
  BatchSize,    \* --batch-size (1-20)
  Interval,     \* --coach-interval (20): worker attempts between two reviews
  Recent,       \* attempts without improvement that count as flat (10)
  Enough,       \* attempts without improvement that exhaust a category (5)
  MaxStamp,     \* bound: releases and policies pushed to main
  MaxRequests,  \* bound: refreshes and bootstraps asked for
  MaxFaults     \* bound: runs that die

Stamps == 1 .. MaxStamp
Reports == [candidate : Candidates \union {Defaults}, passed : BOOLEAN,
            score : Scores, stamp : Stamps]

ASSUME ResearchAssumption ==
  /\ IsFiniteSet(Candidates)
  /\ CategoryOf \in [Candidates -> SUBSET Categories]
  /\ Defaults \notin Candidates
  /\ Scores \subseteq Nat
  /\ BatchSize \in Nat \ {0}
  /\ Interval \in Nat \ {0}
  /\ Recent \in Nat
  /\ Enough \in Nat
  /\ MaxStamp \in Nat \ {0}
  /\ MaxRequests \in Nat
  /\ MaxFaults \in Nat
  /\ None \notin Reports

VARIABLES
  stamp,      \* release and policy on main
  main,       \* the five files on main
  ledger, attempts, incumbent, blocked, coached,   \* the same, at work
  pc, mode, work,   \* the run: its next step, what it was asked, its stamp
  planned, plan,    \* whether the batch is planned, what is left of it
  todo,             \* the record and the incumbent about to be written
  requests, faults

files == <<ledger, attempts, incumbent, blocked, coached>>
bounds == <<requests, faults>>
vars == <<stamp, main, files, pc, mode, work, planned, plan, todo, bounds>>

Modes == {"nightly", "refresh", "bootstrap", "local"}
Steps == {"idle", "reference", "bootstrap", "coach", "plan", "experiment",
          "append", "incumbent", "sync", "publish"}

Records == [report : Reports, baseline : BOOLEAN, kept : BOOLEAN]
Attempts == [candidate : Candidates \union {Defaults}, baseline : BOOLEAN,
             score : Scores, kept : BOOLEAN]
Files == [ledger : Seq(Records), attempts : Seq(Attempts),
          incumbent : Reports \union {None}, blocked : SUBSET Categories,
          coached : Nat]
Writes == [record : Records, incumbent : Reports \union {None}]
NoFiles == [ledger |-> <<>>, attempts |-> <<>>, incumbent |-> None,
            blocked |-> {}, coached |-> 0]
NoWrite == [record |-> [report |-> None, baseline |-> FALSE, kept |-> FALSE],
            incumbent |-> None]

Init ==
  /\ stamp = 1 /\ main = NoFiles
  /\ ledger = <<>> /\ attempts = <<>> /\ incumbent = None
  /\ blocked = {} /\ coached = 0
  /\ pc = "idle" /\ mode = "nightly" /\ work = 1
  /\ planned = FALSE /\ plan = <<>> /\ todo = NoWrite
  /\ requests = 0 /\ faults = 0

-----------------------------------------------------------------------------
(* What the files say.                                                     *)

\* Faulty variant of AttemptOf: the row holds the whole report.
AttemptOfReport(r) == [candidate |-> r.report, baseline |-> r.baseline,
                       score |-> r.report.score, kept |-> r.kept]
AttemptOf(r) == [candidate |-> r.report.candidate, baseline |-> r.baseline,
                 score |-> r.report.score, kept |-> r.kept]

(* attempts.log brought up to the ledger, which it must be a prefix of.    *)
Synced(l) == [i \in DOMAIN l |-> AttemptOf(l[i])]
Matches(a, l) == Len(a) <= Len(l) /\ \A i \in DOMAIN a : a[i] = AttemptOf(l[i])

\* Faulty variant of Tested: the log says what was tested.
TestedInLog(l) == {attempts[i].candidate : i \in DOMAIN attempts}
Tested(l) == {l[i].report.candidate : i \in DOMAIN l}

Workers(a) == {i \in DOMAIN a : ~a[i].baseline}
WorkersIn(a, c) == {i \in Workers(a) : c \in CategoryOf[a[i].candidate]}
Exhausted(a) == {c \in Categories : /\ Cardinality(WorkersIn(a, c)) >= Enough
                                    /\ \A i \in WorkersIn(a, c) : ~a[i].kept}
Improving(a) == \E i \in Workers(a) :
                  a[i].kept /\ Cardinality({j \in Workers(a) : j > i}) < Recent

(* The promotions and references of a ledger.                              *)
KeptIn(l) == {i \in DOMAIN l : l[i].kept}

(* r is the report of the last one, None when there is none.               *)
LastKept(l, r) ==
  \/ r = None /\ KeptIn(l) = {}
  \/ \E i \in KeptIn(l) :
       r = l[i].report /\ \A k \in KeptIn(l) : k <= i

(* new may follow old: it passed and beat it under the same stamp.         *)
Improves(new, old) == /\ new.passed
                      /\ old.stamp = new.stamp /\ old.score < new.score

(* Every promotion follows a last one before it that it improves on.       *)
Chained(l) ==
  \A i \in KeptIn(l) :
    \/ l[i].baseline
    \/ \E j \in KeptIn(l) :
         /\ j < i /\ \A k \in KeptIn(l) : k < i => k <= j
         /\ Improves(l[i].report, l[j].report)

-----------------------------------------------------------------------------
(* Runs of the workflow, which its concurrency group serialises.           *)

(* Somebody pushes a new release or policy; a run at work does not see it. *)
Push == /\ stamp < MaxStamp
        /\ stamp' = stamp + 1
        /\ UNCHANGED <<main, files, pc, mode, work, planned, plan, todo, bounds>>

CheckOut == /\ ledger' = main.ledger /\ attempts' = main.attempts
            /\ incumbent' = main.incumbent /\ blocked' = main.blocked
            /\ coached' = main.coached

Start(m, step) == /\ pc = "idle" /\ pc' = step
                  /\ mode' = m
                  /\ planned' = FALSE /\ plan' = <<>>
                  /\ UNCHANGED <<stamp, main, todo, faults>>

Nightly == /\ Start("nightly", "reference")
           /\ CheckOut /\ work' = stamp
           /\ UNCHANGED requests

Request(m, step) == /\ requests < MaxRequests
                    /\ requests' = requests + 1
                    /\ Start(m, step)
                    /\ CheckOut /\ work' = stamp

(* nightly_batch by hand, on a clone or on the directory a killed one left. *)
Local == /\ MaxFaults > 0
         /\ Start("local", "coach")
         /\ \/ CheckOut /\ work' = stamp
            \/ mode = "local" /\ UNCHANGED <<files, work>>
         /\ UNCHANGED requests

-----------------------------------------------------------------------------
(* Reference and bootstrap.                                                *)

Evaluate(c) == [candidate : {c}, passed : BOOLEAN, score : Scores,
                stamp : {work}]

Usable == incumbent # None /\ incumbent.stamp = work

\* Faulty variant of Promote: an incumbent that exists is left alone.
PromoteFirst(r) == todo' = [record |-> [report |-> r, baseline |-> TRUE,
                                        kept |-> TRUE],
                            incumbent |-> IF incumbent = None THEN r
                                          ELSE incumbent]
Promote(r) == todo' = [record |-> [report |-> r, baseline |-> TRUE,
                                   kept |-> TRUE],
                       incumbent |-> r]

Reference ==
  /\ pc = "reference"
  /\ \/ /\ mode = "nightly" /\ Usable
        /\ pc' = "coach" /\ UNCHANGED todo
     \/ /\ mode = "refresh" \/ ~Usable
        /\ \E r \in Evaluate(Defaults) : Promote(r)
        /\ pc' = "append"
  /\ UNCHANGED <<stamp, main, files, mode, work, planned, plan, bounds>>

(* The whole space is evaluated: the best that passes is the new incumbent. *)
Bootstrap ==
  /\ pc = "bootstrap"
  /\ \/ /\ \E c \in Candidates \union {Defaults} :
             \E r \in Evaluate(c) : r.passed /\ Promote(r)
        /\ pc' = "append"
     \/ pc' = "publish" /\ UNCHANGED todo
  /\ UNCHANGED <<stamp, main, files, mode, work, planned, plan, bounds>>

-----------------------------------------------------------------------------
(* The batch.                                                              *)

\* Faulty variant of Reviewed: the ledger is counted, which may be ahead.
ReviewedLedger == Cardinality({i \in DOMAIN ledger : ~ledger[i].baseline})
Reviewed == Cardinality(Workers(attempts))
Due == Reviewed - coached >= Interval

Coach ==
  /\ pc = "coach"
  /\ Reviewed >= coached
  /\ blocked' = IF Due /\ ~Improving(attempts) THEN Exhausted(attempts)
                                               ELSE blocked
  /\ coached' = IF Due THEN Reviewed ELSE coached
  /\ pc' = IF ~planned THEN "plan"
           ELSE IF plan = <<>> THEN "publish" ELSE "experiment"
  /\ UNCHANGED <<stamp, main, ledger, attempts, incumbent, mode, work, planned,
                 plan, todo, bounds>>

Eligible == {c \in Candidates : /\ c \notin Tested(ledger)
                                /\ CategoryOf[c] \intersect blocked = {}}
PlanSize == IF Cardinality(Eligible) < BatchSize THEN Cardinality(Eligible)
                                                 ELSE BatchSize

(* Both planners, the diversified one and the surrogate, return as many    *)
(* different eligible proposals as the batch takes; only their order and   *)
(* choice differ.                                                          *)
Plan ==
  /\ pc = "plan"
  /\ planned' = TRUE
  /\ plan' \in [1 .. PlanSize -> Eligible]
  /\ \A i, j \in 1 .. PlanSize : plan'[i] = plan'[j] => i = j
  /\ pc' = IF PlanSize = 0 THEN "publish" ELSE "experiment"
  /\ UNCHANGED <<stamp, main, files, mode, work, todo, bounds>>

\* Faulty variant of Beats: a tie is kept.
BeatsOrTies(r) == incumbent # None /\ r.passed /\ r.score >= incumbent.score
Beats(r) == IF incumbent = None
            THEN r.candidate = Defaults /\ r.passed
            ELSE r.passed /\ r.score > incumbent.score

Stale == incumbent # None /\ incumbent.stamp # work

Experiment ==
  /\ pc = "experiment"
  /\ Matches(attempts, ledger) /\ ~Stale
  /\ attempts' = Synced(ledger)
  /\ \E r \in Evaluate(Head(plan)) :
       todo' = [record |-> [report |-> r, baseline |-> FALSE,
                            kept |-> Beats(r)],
                incumbent |-> IF Beats(r) THEN r ELSE incumbent]
  /\ plan' = Tail(plan)
  /\ pc' = "append"
  /\ UNCHANGED <<stamp, main, ledger, incumbent, blocked, coached, mode, work,
                 planned, bounds>>

-----------------------------------------------------------------------------
(* The three writes that every result ends in.                             *)

AppendLedger ==
  /\ pc = "append"
  /\ ledger' = Append(ledger, todo.record)
  /\ pc' = "incumbent"
  /\ UNCHANGED <<stamp, main, attempts, incumbent, blocked, coached, mode, work,
                 planned, plan, todo, bounds>>

WriteIncumbent ==
  /\ pc = "incumbent"
  /\ incumbent' = todo.incumbent
  /\ pc' = "sync"
  /\ UNCHANGED <<stamp, main, ledger, attempts, blocked, coached, mode, work,
                 planned, plan, todo, bounds>>

Sync ==
  /\ pc = "sync"
  /\ Matches(attempts, ledger)
  /\ attempts' = Synced(ledger)
  /\ todo' = NoWrite
  /\ pc' = IF mode \in {"nightly", "local"} THEN "coach" ELSE "publish"
  /\ UNCHANGED <<stamp, main, ledger, incumbent, blocked, coached, mode, work,
                 planned, plan, bounds>>

-----------------------------------------------------------------------------
(* The end of a run.                                                       *)

Publish ==
  /\ pc = "publish"
  /\ mode # "local" \/ incumbent # None
  /\ main' = IF mode = "local" THEN main
             ELSE [ledger |-> ledger, attempts |-> attempts,
                   incumbent |-> incumbent, blocked |-> blocked,
                   coached |-> coached]
  /\ pc' = "idle" /\ planned' = FALSE
  /\ UNCHANGED <<stamp, files, mode, work, plan, todo, bounds>>

(* The programs refuse: a log that does not fit the ledger, one that looks *)
(* truncated, a reference of another profile, no incumbent to report.      *)
Refused ==
  \/ pc \in {"experiment", "sync"} /\ ~Matches(attempts, ledger)
  \/ pc = "coach" /\ Reviewed < coached
  \/ pc = "experiment" /\ Stale
  \/ pc = "publish" /\ mode = "local" /\ incumbent = None

Abandon == /\ pc' = "idle" /\ planned' = FALSE /\ plan' = <<>>
           /\ todo' = NoWrite
           /\ UNCHANGED <<stamp, main, mode, work, requests>>

(* Only the workflow throws away what a run that fails has written.  An    *)
(* experiment repairs the log before it finds the reference stale.         *)
Refuse ==
  /\ Refused /\ Abandon
  /\ UNCHANGED faults
  /\ \/ mode # "local" /\ CheckOut
     \/ /\ mode = "local"
        /\ attempts' = IF pc = "experiment" /\ Matches(attempts, ledger)
                       THEN Synced(ledger) ELSE attempts
        /\ UNCHANGED <<ledger, incumbent, blocked, coached>>

Die ==
  /\ pc # "idle" /\ faults < MaxFaults
  /\ faults' = faults + 1
  /\ Abandon
  /\ \/ mode # "local" /\ CheckOut
     \/ mode = "local" /\ UNCHANGED files

Step == \/ Reference \/ Bootstrap \/ Coach \/ Plan \/ Experiment
        \/ AppendLedger \/ WriteIncumbent \/ Sync \/ Publish \/ Refuse

Next == \/ Push \/ Nightly \/ Request("refresh", "reference")
        \/ Request("bootstrap", "bootstrap") \/ Local
        \/ Reference \/ Bootstrap \/ Coach \/ Plan \/ Experiment
        \/ AppendLedger \/ WriteIncumbent \/ Sync \/ Publish \/ Refuse \/ Die

Spec == Init /\ [][Next]_vars

(* GitHub starts the schedule every night and runs a started job's steps.  *)
FairSpec == Spec /\ WF_vars(Nightly) /\ WF_vars(Step)

-----------------------------------------------------------------------------
(* Properties.                                                             *)

TypeOK ==
  /\ stamp \in Stamps /\ main \in Files
  /\ ledger \in Seq(Records) /\ attempts \in Seq(Attempts)
  /\ incumbent \in Reports \union {None}
  /\ blocked \subseteq Categories /\ coached \in Nat
  /\ pc \in Steps /\ mode \in Modes /\ work \in Stamps
  /\ planned \in BOOLEAN /\ plan \in Seq(Candidates)
  /\ todo \in Writes \union {NoWrite}
  /\ requests \in 0 .. MaxRequests /\ faults \in 0 .. MaxFaults

(* The incumbent on main is the report of the last record of the ledger    *)
(* that was kept, and there is none while nothing was kept: the two files  *)
(* that run_experiment.py, reference_benchmark.py and                      *)
(* bootstrap_benchmark.py write one after the other agree whatever run was *)
(* published, lost, or overtaken by a push.                                *)
IncumbentIsLastKept == LastKept(main.ledger, main.incumbent)

(* A candidate that main's ledger says the batch kept passed the gates and *)
(* beat the promotion or reference kept before it, which was evaluated     *)
(* under the same release and policy: promotions are a chain, whatever     *)
(* references were refreshed between two nights (docs/AUTOMATION.md:91).   *)
PromotionsImprove == Chained(main.ledger)

(* The log never says anything but what the ledger says, and the coach has *)
(* never reviewed more than the log holds, wherever a batch was killed     *)
(* between two of its writes and resumed: no later run refuses either file *)
(* (attempts.py:230-239, coach.py:183-184).                                *)
AuditAgrees ==
  /\ Matches(attempts, ledger)
  /\ coached <= Cardinality(Workers(attempts))

(* No batch evaluates a candidate that its ledger has, although the batch  *)
(* is planned once, coached in between, and may have been killed and       *)
(* resumed by another one before the log knew of its last result.          *)
TestedOnce ==
  \A i, j \in DOMAIN ledger :
    (~ledger[i].baseline /\ ~ledger[j].baseline /\ i # j)
      => ledger[i].report.candidate # ledger[j].report.candidate

(* autoresearch/README.md:17 and docs/AUTOMATION.md:73: every night plans   *)
(* and tests a batch.  While main's ledger lacks a candidate, some later   *)
(* night tests one.                                                        *)
Untested == Candidates \ Tested(main.ledger)
NightsTest == \A n \in 1 .. Cardinality(Candidates) :
                Cardinality(Untested) = n ~> Cardinality(Untested) < n
=============================================================================
