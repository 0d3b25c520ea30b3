---------------------------- MODULE ControlPromise ----------------------------
(***************************************************************************)
(* What the control of inverters promises, without commands, locks, jobs   *)
(* or retries: an inverter starts only while its owner is subscribed, and  *)
(* when the subscription is lost a switch-off is owed for every inverter   *)
(* and stays owed until that inverter is off (or control is allowed again).*)
(***************************************************************************)
EXTENDS TLAPS

CONSTANT Inverters

VARIABLES
  subscribed,  \* a loss event is still to come
  running,     \* inverters that run or may be about to
  owed         \* inverters that a live deactivation job has yet to confirm

vars == <<subscribed, running, owed>>

TypeOK ==
  /\ subscribed \in BOOLEAN
  /\ running \subseteq Inverters
  /\ owed \subseteq Inverters

Init ==
  /\ subscribed \in BOOLEAN
  /\ running = {}
  /\ owed = {}

Grant ==
  /\ subscribed' = TRUE
  /\ UNCHANGED <<running, owed>>

Lose ==
  /\ subscribed' = FALSE
  /\ owed' = Inverters
  /\ UNCHANGED running

Start(i) ==
  /\ subscribed
  /\ running' = running \cup {i}
  /\ UNCHANGED <<subscribed, owed>>

Stop(i) ==
  /\ running' = running \ {i}
  /\ UNCHANGED <<subscribed, owed>>

\* Another loss event, or a worker that gives up a job it held for obsolete.
Owe ==
  /\ owed \subseteq owed'
  /\ owed' \subseteq Inverters
  /\ UNCHANGED <<subscribed, running>>

Discharge ==
  /\ owed' \subseteq owed
  /\ subscribed \/ (owed \ owed') \cap running = {}
  /\ UNCHANGED <<subscribed, running>>

Next ==
  \/ Grant \/ Lose \/ Owe \/ Discharge
  \/ \E i \in Inverters : Start(i) \/ Stop(i)

Spec == Init /\ [][Next]_vars

\* Nothing runs unsubscribed unless its switch-off is still owed.
Covered == subscribed \/ running \subseteq owed

\* The promise is worth making: whatever implements it never runs an inverter
\* of an unsubscribed owner without a switch-off that is still to be confirmed.
THEOREM PromiseKept == Spec => []Covered
<1> DEFINE Inv == TypeOK /\ Covered
<1>1. Init => Inv
  BY DEF Init, TypeOK, Covered
<1>2. Inv /\ [Next]_vars => Inv'
  <2> SUFFICES ASSUME Inv, [Next]_vars PROVE Inv'
    OBVIOUS
  <2>1. CASE Grant
    BY <2>1 DEF Grant, TypeOK, Covered
  <2>2. CASE Lose
    BY <2>2 DEF Lose, TypeOK, Covered
  <2>3. CASE Owe
    BY <2>3 DEF Owe, TypeOK, Covered
  <2>4. CASE Discharge
    BY <2>4 DEF Discharge, TypeOK, Covered
  <2>5. ASSUME NEW i \in Inverters, Start(i) \/ Stop(i) PROVE Inv'
    BY <2>5 DEF Start, Stop, TypeOK, Covered
  <2>6. CASE UNCHANGED vars
    BY <2>6 DEF vars, TypeOK, Covered
  <2>7. QED BY <2>1, <2>2, <2>3, <2>4, <2>5, <2>6 DEF Next
<1>3. QED BY <1>1, <1>2, PTL DEF Spec
===============================================================================
