--------------------------- MODULE AlertProtocol ---------------------------
(***************************************************************************)
(* What the live scanner promises about one trade alert, with no file, no  *)
(* process and no clock: a signal gets one verdict, an alert goes out only *)
(* under the verdict that claims it and only once, and a market is held by *)
(* at most the one signal whose alert was confirmed.                       *)
(*                                                                         *)
(* SignalScanner implements this module: verdict is what the scanner has   *)
(* durably decided, alerts is what Discord shows, holder is the position   *)
(* map of the state file.                                                  *)
(***************************************************************************)
EXTENDS Naturals

CONSTANTS
    Signals,        \* the deterministic signal ids
    Instruments,    \* the markets
    InstrumentOf,   \* the market of each signal
    NoSignal        \* "this market is not held"

VARIABLES verdict, alerts, holder

apVars == <<verdict, alerts, holder>>

(* The verdicts that end a signal without an alert, and the one that       *)
(* reserves the right to send it.                                          *)
Decisions == {"REJECTED", "ML_FILTERED", "PUBLISHING"}

APInit ==
    /\ verdict = [s \in Signals |-> "NONE"]
    /\ alerts = [s \in Signals |-> 0]
    /\ holder = [i \in Instruments |-> NoSignal]

(* Markets in C are given up: the trade they were held for is over.        *)
Released(C) == [i \in Instruments |-> IF i \in C THEN NoSignal ELSE holder[i]]

Release ==
    /\ \E C \in SUBSET Instruments : holder' = Released(C)
    /\ UNCHANGED <<verdict, alerts>>

(* An undecided signal is decided, together with the releases that became  *)
(* known since the last durable step. Only a free market can be claimed.   *)
Decide(s, d) ==
    /\ verdict[s] = "NONE"
    /\ verdict' = [verdict EXCEPT ![s] = d]
    /\ \E C \in SUBSET Instruments :
          /\ holder' = Released(C)
          /\ d = "PUBLISHING" => Released(C)[InstrumentOf[s]] = NoSignal
    /\ UNCHANGED alerts

Deliver(s) ==
    /\ verdict[s] = "PUBLISHING"
    /\ alerts[s] = 0
    /\ alerts' = [alerts EXCEPT ![s] = 1]
    /\ UNCHANGED <<verdict, holder>>

(* The market is taken by a claimed signal: by a delivered one, or by a    *)
(* rehearsal that was never to be delivered.                               *)
Confirm(s, v) ==
    /\ verdict[s] = "PUBLISHING"
    /\ holder[InstrumentOf[s]] = NoSignal
    /\ alerts[s] = (IF v = "SENT" THEN 1 ELSE 0)
    /\ verdict' = [verdict EXCEPT ![s] = v]
    /\ holder' = [holder EXCEPT ![InstrumentOf[s]] = s]
    /\ UNCHANGED alerts

Fail(s) ==
    /\ verdict[s] = "PUBLISHING"
    /\ verdict' = [verdict EXCEPT ![s] = "DELIVERY_FAILED"]
    /\ UNCHANGED <<alerts, holder>>

APNext ==
    \/ Release
    \/ \E s \in Signals :
          \/ \E d \in Decisions : Decide(s, d)
          \/ Deliver(s)
          \/ \E v \in {"SENT", "DRY_RUN"} : Confirm(s, v)
          \/ Fail(s)

APSpec == APInit /\ [][APNext]_apVars
=============================================================================
