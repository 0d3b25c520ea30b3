----------------------------- MODULE Onboarding -----------------------------
(***************************************************************************)
(* Connecting a plant: the dialog of the dashboard (EnergyDashboard.tsx),  *)
(* the route that serves both of its steps (api/app/energy/connect) and    *)
(* connectLegacyEnergyAccount.  The first step finds the plants of an      *)
(* account of the manufacturer's cloud, the second one registers those     *)
(* selected; the handle of the first lives for an hour, the password only  *)
(* in the page.  The users compete for one plant.                          *)
(*                                                                         *)
(* Each user has one browser page and at most one request on the server;   *)
(* the values of the profile and the coverage of devices are left out.     *)
(***************************************************************************)
EXTENDS Naturals, FiniteSets

CONSTANTS
  Users,
  MaxFailures,   \* bound: requests and transactions that fail for once
  MaxReloads,    \* bound: reloads of a page
  MaxExpiries    \* bound: handles that expire

VARIABLES
  dialog,        \* ConnectLegacyAccount
  selection,     \* sessionStorage: whether the found plants are kept, by user
  alive,         \* external: the handle of the user's discovery is known to the backend
  server,        \* the request of a user in the route
  registered,    \* external: users whose registration the backend has committed
  owner,         \* EnergySite: userId, or "none"
  connection,    \* users with an EnergyConnection that is CONNECTED
  imports,       \* requestHistoryImport was called for the plant
  beaten,        \* users who found the plant free, and wrote when another one had taken it
  failures, reloads, expiries

onboardingVars == <<dialog, selection, alive, server, registered, owner, connection, imports,
                    beaten, failures, reloads, expiries>>
bounds == <<failures, reloads, expiries>>
database == <<registered, owner, connection, imports, beaten>>

-----------------------------------------------------------------------------
ClosedDialog == [phase |-> "idle", plants |-> FALSE, password |-> FALSE, needed |-> FALSE, failure |-> "none"]

OnboardingInit ==
  /\ dialog = [u \in Users |-> ClosedDialog]
  /\ selection = [u \in Users |-> FALSE]
  /\ alive = [u \in Users |-> FALSE]
  /\ server = [u \in Users |-> [pc |-> "none", heard |-> FALSE]]
  /\ registered = {} /\ owner = "none" /\ connection = {} /\ imports = FALSE
  /\ beaten = {}
  /\ failures = 0 /\ reloads = 0 /\ expiries = 0

To(u, pc) == server' = [server EXCEPT ![u].pc = pc]
FailsOnce == failures < MaxFailures /\ failures' = failures + 1

-----------------------------------------------------------------------------
(* The dialog.                                                              *)

Send(u, phase, pc) ==
  /\ server[u].pc = "none"
  /\ server' = [server EXCEPT ![u] = [pc |-> pc, heard |-> TRUE]]
  /\ dialog' = [dialog EXCEPT ![u].phase = phase, ![u].failure = "none"]

SubmitCredentials(u) ==
  /\ dialog[u].phase = "idle"
  /\ Send(u, "discovering", "discover")
  /\ UNCHANGED <<selection, alive, database, bounds>>

\* A page that was reloaded has lost the password and asks for it again.
SubmitSelection(u) ==
  /\ dialog[u].phase = "selecting" /\ dialog[u].failure # "expired"
  /\ IF dialog[u].password \/ dialog[u].needed
     THEN Send(u, "connecting", "register")
     ELSE /\ dialog' = [dialog EXCEPT ![u].needed = TRUE, ![u].failure = "password"]
          /\ UNCHANGED server
  /\ UNCHANGED <<selection, alive, database, bounds>>

SelectionStays(u) ==  \* mutant: changeAccount keeps the plants it has found
  dialog' = [dialog EXCEPT ![u].password = FALSE, ![u].needed = FALSE]
SelectionForgotten(u) == dialog' = [dialog EXCEPT ![u] = ClosedDialog]

ChangeAccount(u) ==
  /\ dialog[u].phase = "selecting"
  /\ SelectionForgotten(u)
  /\ selection' = [selection EXCEPT ![u] = FALSE]
  /\ UNCHANGED <<alive, server, database, bounds>>

\* The clock of the selection and that of the backend agree: what has expired is not restored.
Reload(u) ==
  /\ reloads < MaxReloads /\ reloads' = reloads + 1
  /\ dialog[u].phase # "history"
  /\ dialog' = [dialog EXCEPT ![u] =
       IF selection[u] /\ alive[u]
       THEN [ClosedDialog EXCEPT !.phase = "selecting", !.plants = TRUE, !.needed = TRUE]
       ELSE ClosedDialog]
  /\ selection' = [selection EXCEPT ![u] = @ /\ alive[u]]
  /\ server' = [server EXCEPT ![u].heard = FALSE]
  /\ UNCHANGED <<alive, database, failures, expiries>>

\* The answer of the route, if the page that asked is still there.
AnswerDialog(u) ==
  LET pc == server[u].pc
      d == dialog[u] IN
  /\ pc \in {"found", "connected", "expired", "taken", "failed"}
  /\ server' = [server EXCEPT ![u] = [pc |-> "none", heard |-> FALSE]]
  /\ IF ~server[u].heard THEN UNCHANGED <<dialog, selection>>
     ELSE CASE pc = "found" ->
                 /\ dialog' = [dialog EXCEPT ![u] =
                      [ClosedDialog EXCEPT !.phase = "selecting", !.plants = TRUE, !.password = TRUE]]
                 /\ selection' = [selection EXCEPT ![u] = TRUE]
            [] pc = "connected" ->
                 /\ dialog' = [dialog EXCEPT ![u] = [ClosedDialog EXCEPT !.phase = "history"]]
                 /\ selection' = [selection EXCEPT ![u] = FALSE]
            [] OTHER ->
                 /\ dialog' = [dialog EXCEPT ![u].failure = pc,
                      ![u].phase = IF d.plants THEN "selecting" ELSE "idle"]
                 /\ UNCHANGED selection
  /\ UNCHANGED <<alive, database, bounds>>

-----------------------------------------------------------------------------
(* The route and the backend.                                               *)

DiscoverLegacyEnergyPlants(u) ==
  /\ server[u].pc = "discover"
  /\ \/ To(u, "found") /\ alive' = [alive EXCEPT ![u] = TRUE] /\ UNCHANGED failures
     \/ To(u, "failed") /\ FailsOnce /\ UNCHANGED alive
  /\ UNCHANGED <<dialog, selection, database, reloads, expiries>>

HandleExpires(u) ==
  /\ alive[u] /\ expiries < MaxExpiries
  /\ alive' = [alive EXCEPT ![u] = FALSE]
  /\ expiries' = expiries + 1
  /\ UNCHANGED <<dialog, selection, server, database, failures, reloads>>

\* What the backend has committed stays, though its answer is lost or unreadable.
RegisterPlants(u) ==
  /\ server[u].pc = "register"
  /\ \/ /\ ~alive[u] /\ To(u, "expired")       \* 410
        /\ UNCHANGED <<registered, failures>>
     \/ /\ alive[u] /\ To(u, "check")
        /\ registered' = registered \cup {u}
        /\ UNCHANGED failures
     \/ /\ alive[u] /\ FailsOnce /\ To(u, "failed")
        /\ registered' \in {registered, registered \cup {u}}
  /\ UNCHANGED <<dialog, selection, alive, owner, connection, imports, beaten, reloads, expiries>>

CheckOwnership(u) ==
  /\ server[u].pc = "check"
  /\ IF owner \in {"none", u} THEN To(u, "write") ELSE To(u, "taken")
  /\ UNCHANGED <<dialog, selection, alive, database, bounds>>

\* The rows of a plant are written with an upsert, which leaves the owner as it is.
Upserted(u) == IF owner = "none" THEN u ELSE owner

ConnectLegacyEnergyAccount(u) ==
  /\ server[u].pc = "write"
  /\ \/ /\ To(u, "history")
        /\ owner' = Upserted(u)
        /\ connection' = connection \cup {u}
        /\ beaten' = IF Upserted(u) = u THEN beaten ELSE beaten \cup {u}
        /\ UNCHANGED failures
     \/ /\ To(u, "failed") /\ FailsOnce
        /\ UNCHANGED <<owner, connection, beaten>>
  /\ UNCHANGED <<dialog, selection, alive, registered, imports, reloads, expiries>>

\* connectedSiteIds: the selected plants that are the user's.
Connected(u) == owner = u

\* An import that fails is not told.
RequestHistoryImports(u) ==
  /\ server[u].pc = "history"
  /\ To(u, "connected")
  /\ \/ Connected(u) /\ imports' = TRUE /\ UNCHANGED failures
     \/ ~Connected(u) /\ UNCHANGED <<imports, failures>>
     \/ Connected(u) /\ FailsOnce /\ UNCHANGED imports
  /\ UNCHANGED <<dialog, selection, alive, registered, owner, connection, beaten, reloads, expiries>>

Route(u) ==
  \/ DiscoverLegacyEnergyPlants(u) \/ RegisterPlants(u) \/ CheckOwnership(u)
  \/ ConnectLegacyEnergyAccount(u) \/ RequestHistoryImports(u) \/ AnswerDialog(u)

\* With an expired selection the dialog tells the user to find the plants again.
StartOver(u) == dialog[u].failure = "expired" /\ ChangeAccount(u)

OnboardingNext ==
  \E u \in Users : SubmitCredentials(u) \/ SubmitSelection(u) \/ ChangeAccount(u) \/ Reload(u)
                   \/ Route(u) \/ HandleExpires(u)

\* A user follows what the dialog says, and does not change the account for ever.
OnboardingSpec ==
  /\ OnboardingInit /\ [][OnboardingNext]_onboardingVars
  /\ \A u \in Users :
       /\ WF_onboardingVars(Route(u))
       /\ WF_onboardingVars(SubmitCredentials(u)) /\ WF_onboardingVars(StartOver(u))
       /\ SF_onboardingVars(SubmitSelection(u))

OnboardingTypeOK ==
  /\ dialog \in [Users -> [phase: {"idle", "discovering", "selecting", "connecting", "history"},
       plants: BOOLEAN, password: BOOLEAN, needed: BOOLEAN,
       failure: {"none", "password", "expired", "taken", "failed"}]]
  /\ selection \in [Users -> BOOLEAN] /\ alive \in [Users -> BOOLEAN]
  /\ server \in [Users -> [pc: {"none", "discover", "found", "register", "check", "write", "history",
       "connected", "expired", "taken", "failed"}, heard: BOOLEAN]]
  /\ registered \subseteq Users /\ owner \in Users \cup {"none"} /\ connection \subseteq Users
  /\ beaten \subseteq Users /\ imports \in BOOLEAN
  /\ failures \in 0..MaxFailures /\ reloads \in 0..MaxReloads /\ expiries \in 0..MaxExpiries

\* A user who has begun and goes on ends as the owner of the plant, or refused for good, whatever
\* is reloaded, expires, fails or is committed by the backend and lost on the way
\* back; and a plant that has an owner keeps it (EnergyDashboard.tsx:104-300,
\* connect/route.ts, service.ts:689-945).  One user is told of a success that is
\* none: who passed the check of the owner before another one wrote (service.ts:740-770),
\* as the transaction does not check again.  Nobody else is, and the first of the two is the owner.
OnboardingEnds ==
  /\ []OnboardingTypeOK
  /\ [][owner # "none" => owner' = owner]_onboardingVars
  /\ \A u \in Users :
       dialog[u].phase # "idle" ~> (\/ dialog[u].phase = "history" /\ (owner = u \/ u \in beaten)
                                    \/ dialog[u].failure = "taken")

=============================================================================
