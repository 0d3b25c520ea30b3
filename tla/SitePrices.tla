------------------------------ MODULE SitePrices ------------------------------
(***************************************************************************)
(* The technical profile of a site and the price curves made from it       *)
(* (src/src/lib/energy/technical-profile.ts, src/src/lib/pricing/          *)
(* materialize.ts, src/src/lib/pricing/hdo-calendar.ts).                   *)
(*                                                                         *)
(* Whoever asks for an analysis first materializes the curves: the site's  *)
(* current tariff, the modelled standard, the products of the catalog.  A  *)
(* curve is known by the fingerprint of what it was made from.  Meanwhile  *)
(* the customer saves the profile, which supersedes the curves and voids   *)
(* the confirmations, the vendor's cloud fills what is missing, the        *)
(* customer confirms the values or turns the control on, and an            *)
(* administrator imports the exact calendar of the low tariff.             *)
(*                                                                         *)
(* The values of a profile are one number, 0 while they are incomplete;    *)
(* what a curve costs is left out, and the window and the market series    *)
(* are fixed.                                                              *)
(***************************************************************************)
EXTENDS Integers, FiniteSets

CONSTANTS
  Askers,         \* calls of enqueueAnalysis
  Writers,        \* requests that save the profile or turn the control on
  MaxValue,       \* values a profile may have
  MaxCalendars,   \* bound: imports of an exact calendar
  MaxChanges      \* bound: questions, saves, refreshes and failures, together

ASSUME PricesAssumption == MaxValue \in Nat \ {0} /\ MaxCalendars \in Nat /\ MaxChanges \in Nat

VARIABLES
  profile,    \* EnergySiteTechnicalProfile: its values
  hdo,        \* the newest exact EnergyHdoCalendar of the window, 0 when there is none
  confirmed,  \* controlConfirmedAt: the values it was given for (analysisConfirmedAt goes the same way)
  curve,      \* status of the EnergyPriceCurve of each fingerprint
  pricing,    \* what each asker holds
  writer,     \* what each writer holds
  refresh,    \* the refresh from the cloud: "idle", or what it read
  backend,    \* the values the control backend has acknowledged
  changes

siteVars == <<profile, hdo, confirmed, curve>>
pricesVars == <<siteVars, pricing, writer, refresh, backend, changes>>

Value == 1 .. MaxValue
Incomplete == 0
Unconfirmed == -1

\* A curve is the one of what it prices and of the calendar it was made with (0: a modelled one).
\* That of the current tariff depends on the values of the profile, the others do not.
Calendar == 0 .. MaxCalendars
Standard == <<MaxValue + 1, 0>>
Catalog == {MaxValue + 2} \X Calendar
CurrentBaseline == Value \X Calendar
Fingerprint == CurrentBaseline \cup {Standard} \cup Catalog

Unasked == [pc |-> "idle", key |-> Standard, failed |-> FALSE]
NotWriting == [pc |-> "idle", saw |-> Incomplete, new |-> Incomplete, confirms |-> FALSE]

PricesInit ==
  /\ profile = Incomplete
  /\ hdo = 0
  /\ confirmed = Unconfirmed
  /\ curve = [f \in Fingerprint |-> "NONE"]
  /\ pricing = [a \in Askers |-> Unasked]
  /\ writer = [w \in Writers |-> NotWriting]
  /\ refresh = "idle"
  /\ backend = Incomplete
  /\ changes = 0

Counted == changes < MaxChanges /\ changes' = changes + 1

SupersededCurves == [f \in Fingerprint |-> IF curve[f] = "READY" THEN "SUPERSEDED" ELSE curve[f]]

\* The transaction of a save: other values supersede every curve and void the confirmations (and the
\* analyses, see AnalysisQueue).
ChangeProfile(saw, new) ==
  IF saw = new
    THEN UNCHANGED siteVars
    ELSE /\ profile' = new
         /\ confirmed' = Unconfirmed
         /\ curve' = SupersededCurves
         /\ UNCHANGED hdo

(***************************************************************************)
(* Materialization                                                         *)
(***************************************************************************)

Hold(a, rec) == pricing' = [pricing EXCEPT ![a] = rec]

\* A question begins with the values that are missing.
Ask(a) ==
  /\ pricing[a].pc = "idle"
  /\ Counted
  /\ Hold(a, [Unasked EXCEPT !.pc = IF profile = Incomplete THEN "defaults" ELSE "profile"])
  /\ UNCHANGED <<siteVars, writer, refresh, backend>>

\* Values found missing get their default whatever they have become; what the tariff costs has none.
PrepareAnalysisDefaults(a) ==
  /\ pricing[a].pc = "defaults"
  /\ profile' \in {profile} \cup Value
  /\ Hold(a, [pricing[a] EXCEPT !.pc = "profile"])
  /\ UNCHANGED <<hdo, confirmed, curve, writer, refresh, backend, changes>>

\* Without the values there is no current tariff; the standard follows.
ReadProfile(a) ==
  /\ pricing[a].pc = "profile"
  /\ Hold(a, [pricing[a] EXCEPT !.pc = "find", !.key = IF profile = Incomplete THEN Standard ELSE <<profile, hdo>>])
  /\ UNCHANGED <<siteVars, writer, refresh, backend, changes>>

\* The current tariff, the standard, the catalog, and then the selection.
Onward(a) ==
  LET key == pricing[a].key IN
  IF key \in Catalog THEN [pricing[a] EXCEPT !.pc = "select"]
  ELSE [pricing[a] EXCEPT !.pc = "find", !.key = IF key = Standard THEN <<MaxValue + 2, 0>> ELSE Standard]

\* A product of the catalog is skipped while any curve of it is READY, with whatever calendar.
Skipped(a) == pricing[a].key \in Catalog /\ \E f \in Catalog : curve[f] = "READY"

FindCurve(a) ==
  LET key == IF pricing[a].key \in Catalog THEN <<MaxValue + 2, hdo>> ELSE pricing[a].key IN
  /\ pricing[a].pc = "find"
  /\ Hold(a, IF Skipped(a) \/ curve[key] = "READY" THEN Onward(a)
             ELSE [pricing[a] EXCEPT !.pc = IF curve[key] = "NONE" THEN "create" ELSE "revive", !.key = key])
  /\ UNCHANGED <<siteVars, writer, refresh, backend, changes>>

Revived(key) == [curve EXCEPT ![key] = "READY"]

\* By its id, outside any transaction; the other curves of its purpose stay.
ReviveIdenticalCurve(a) ==
  /\ pricing[a].pc = "revive"
  /\ curve' = Revived(pricing[a].key)
  /\ Hold(a, Onward(a))
  /\ UNCHANGED <<profile, hdo, confirmed, writer, refresh, backend, changes>>

\* Each product of the catalog has its own purpose.
Purpose(key) == IF key \in CurrentBaseline THEN CurrentBaseline ELSE {key}

\* Mutant: the curves of the purpose are superseded after the new one has been created.
CreatedFirst(key) == [f \in Fingerprint |->
  IF f = key THEN "SUPERSEDED" ELSE IF f \in Purpose(key) THEN SupersededCurves[f] ELSE curve[f]]

Created(key) == [f \in Fingerprint |->
  IF f = key THEN "READY" ELSE IF f \in Purpose(key) THEN SupersededCurves[f] ELSE curve[f]]

\* A new curve supersedes those of its purpose.  The fingerprint is unique: the second of two
\* creations fails and the caller goes on.
CreateCurve(a) ==
  LET key == pricing[a].key IN
  /\ pricing[a].pc = "create"
  /\ curve' = IF curve[key] # "NONE" THEN curve ELSE Created(key)
  /\ Hold(a, Onward(a))
  /\ UNCHANGED <<profile, hdo, confirmed, writer, refresh, backend, changes>>

\* A price, a product or a distribution is missing, or the database fails: on to the next curve.
CurveFails(a) ==
  /\ pricing[a].pc \in {"find", "create"}
  /\ Counted
  /\ Hold(a, [Onward(a) EXCEPT !.failed = TRUE])
  /\ UNCHANGED <<siteVars, writer, refresh, backend>>

\* The READY curves are what the analysis is made from (see AnalysisQueue); the standard one only when
\* there is nothing better.
SelectCurves(a) ==
  /\ pricing[a].pc = "select"
  /\ Hold(a, Unasked)
  /\ UNCHANGED <<siteVars, writer, refresh, backend, changes>>

(***************************************************************************)
(* The profile                                                             *)
(***************************************************************************)

Write(w, rec) == writer' = [writer EXCEPT ![w] = rec]

\* PATCH of the technical profile: the values are compared with the profile read before.
OpenSave(w) ==
  /\ writer[w].pc = "idle"
  /\ Counted
  /\ \E new \in Value, confirms \in BOOLEAN :
       Write(w, [pc |-> "save", saw |-> profile, new |-> new, confirms |-> confirms])
  /\ UNCHANGED <<siteVars, pricing, refresh, backend>>

SaveProfile(w) ==
  /\ writer[w].pc = "save"
  /\ ChangeProfile(writer[w].saw, writer[w].new)
  /\ Write(w, IF writer[w].confirms THEN [writer[w] EXCEPT !.pc = "ready"] ELSE NotWriting)
  /\ UNCHANGED <<pricing, refresh, backend, changes>>

\* The readiness is read again; what is missing is an error after the values are saved.
CheckReadiness(w) ==
  /\ writer[w].pc = "ready"
  /\ Write(w, IF profile = Incomplete THEN NotWriting ELSE [writer[w] EXCEPT !.pc = "confirm"])
  /\ UNCHANGED <<siteVars, pricing, refresh, backend, changes>>

\* A second transaction, which compares nothing.
ConfirmValues(w) ==
  /\ writer[w].pc = "confirm"
  /\ confirmed' = writer[w].new
  /\ Write(w, NotWriting)
  /\ UNCHANGED <<profile, hdo, curve, pricing, refresh, backend, changes>>

\* The turnon of the control reads the values, gives them to the backend, checks that they came
\* back, and confirms them.
OpenTurnon(w) ==
  /\ writer[w].pc = "idle" /\ profile # Incomplete
  /\ Counted
  /\ Write(w, [pc |-> "sync", saw |-> profile, new |-> profile, confirms |-> TRUE])
  /\ UNCHANGED <<siteVars, pricing, refresh, backend>>

SyncLegacyControlProfile(w) ==
  /\ writer[w].pc = "sync"
  /\ \/ backend' = writer[w].new /\ Write(w, [writer[w] EXCEPT !.pc = "confirm"]) /\ UNCHANGED changes
     \/ backend' = backend /\ Write(w, NotWriting) /\ Counted
  /\ UNCHANGED <<siteVars, pricing, refresh>>

\* A view of the profile asks the cloud for what is missing, and fills it in a day later at the
\* latest: values found missing are written whatever they have become.
OpenRefresh ==
  /\ refresh = "idle" /\ profile = Incomplete
  /\ Counted
  /\ refresh' = "missing"
  /\ UNCHANGED <<siteVars, pricing, writer, backend>>

RefreshLegacyValues ==
  /\ refresh = "missing"
  /\ refresh' = "idle"
  /\ profile' \in {profile} \cup Value
  /\ UNCHANGED <<hdo, confirmed, curve, pricing, writer, backend, changes>>

\* The import of an exact calendar supersedes the curves made with a modelled one (and the analyses,
\* see AnalysisQueue); those of an earlier calendar stay.
ImportExactHdoCalendar ==
  /\ hdo < MaxCalendars
  /\ Counted
  /\ hdo' = hdo + 1
  /\ curve' = [f \in Fingerprint |-> IF f[2] = 0 THEN SupersededCurves[f] ELSE curve[f]]
  /\ UNCHANGED <<profile, confirmed, pricing, writer, refresh, backend>>

(***************************************************************************)
(* The specification                                                       *)
(***************************************************************************)

AskerStep(a) ==
  PrepareAnalysisDefaults(a) \/ ReadProfile(a) \/ FindCurve(a) \/ ReviveIdenticalCurve(a) \/ CreateCurve(a) \/ SelectCurves(a)

WriterStep(w) ==
  OpenSave(w) \/ SaveProfile(w) \/ CheckReadiness(w) \/ ConfirmValues(w) \/ OpenTurnon(w) \/ SyncLegacyControlProfile(w)

PricesNext ==
  \/ \E a \in Askers : Ask(a) \/ AskerStep(a) \/ CurveFails(a)
  \/ \E w \in Writers : WriterStep(w)
  \/ OpenRefresh \/ RefreshLegacyValues \/ ImportExactHdoCalendar

\* A request that has begun goes on.
PricesFairness == \A a \in Askers : WF_pricesVars(AskerStep(a))

PricesSpec == PricesInit /\ [][PricesNext]_pricesVars /\ PricesFairness

(***************************************************************************)
(* Properties                                                              *)
(***************************************************************************)

PricesTypeOK ==
  /\ profile \in Value \cup {Incomplete} /\ hdo \in Calendar
  /\ confirmed \in Value \cup {Unconfirmed}
  /\ curve \in [Fingerprint -> {"NONE", "READY", "SUPERSEDED"}]
  /\ backend \in Value \cup {Incomplete} /\ refresh \in {"idle", "missing"}

\* Whoever asks is priced: once the current values have been looked up, their curve is in service,
\* unless the values or the calendar change or the lookup fails; also for values the site had before,
\* and while others edit and price the same site ("an identical curve is put back into service",
\* src/src/lib/pricing/materialize.ts:163-167).
CurrentIsPriced ==
  \A a \in Askers, f \in CurrentBaseline :
    (pricing[a].pc = "find" /\ pricing[a].key = f)
      ~> (curve[f] = "READY" \/ <<profile, hdo>> # f \/ pricing[a].failed)

=============================================================================
