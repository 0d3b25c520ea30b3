------------------------------ MODULE MCPlants ------------------------------
(***************************************************************************)
(* A plant from its connection to the screens that show it, for TLC: five  *)
(* modules that share no state, so a behaviour plays one part.  The pair   *)
(* of tokens is played six times, with the clients that appear together    *)
(* and what may befall them.                                               *)
(***************************************************************************)
EXTENDS LegacyAccount, Telemetry, Simulation, Onboarding, Screens

CONSTANTS Scenes, Home, Importer
VARIABLE scene

allVars == <<scene, accountVars, roundVars, qualityVars, simulationVars, onboardingVars, formVars, pageVars>>

\* The scenes of the account: their clients, tokens, requests that are not answered, and connections.
Accounts == [
  clients |-> [kinds |-> {"dashboard", "command"}, tokens |-> 3, unanswered |-> 0, connects |-> 0],
  orders |-> [kinds |-> {"import", "command"}, tokens |-> 2, unanswered |-> 1, connects |-> 0],
  others |-> [kinds |-> {"market", "profile", "sync"}, tokens |-> 2, unanswered |-> 1, connects |-> 0],
  reads |-> [kinds |-> {"dashboard", "import"}, tokens |-> 3, unanswered |-> 1, connects |-> 0],
  failures |-> [kinds |-> {"backfill", "dashboard"}, tokens |-> 2, unanswered |-> 2, connects |-> 0],
  reconnect |-> [kinds |-> {"import", "profile"}, tokens |-> 4, unanswered |-> 0, connects |-> 1]]

\* What is open in the initial states of a module is fixed where the module is not played.  The
\* plants are interchangeable: the one that is down is the same.
MCInit ==
  /\ scene \in Scenes
  /\ AccountInit /\ (scene \notin DOMAIN Accounts => rotates)
  /\ RoundsInit
  /\ scene # "rounds" => order = (CHOOSE o \in Orders : TRUE) /\ old = 0 /\ \A p \in Plants : ~Down(p)
  /\ \A p \in Plants \ {CHOOSE q \in Plants : TRUE} : ~Down(p)
  /\ QualityInit
  /\ SimulationInit /\ (scene # "simulation" => due)
  /\ OnboardingInit
  /\ FormInit
  /\ PageInit
  /\ scene # "pages" => page = "dashboard" /\ address = CHOOSE p \in Addresses : TRUE

\* While the account is connected again, an import runs beside another client.
Account ==
  /\ AccountNext
  /\ scene = "reconnect" =>
       \A c \in Clients : client'[c].kind \in IF c = Importer THEN {"import", "none"} ELSE {"profile", "none"}
  /\ \A c \in Clients : client'[c].kind \in Accounts[scene].kinds \cup {"none"}
  /\ issued' <= Accounts[scene].tokens
  /\ unanswered' <= Accounts[scene].unanswered
  /\ connects' <= Accounts[scene].connects

\* One of the writes is in the process that is asked.  Requests are interchangeable: the first is
\* always the same.
Quality ==
  /\ QualityNext
  /\ LET w == CHOOSE x \in Writes : TRUE IN write'[w].pc # "idle" => write'[w].server = Home
  /\ \A r \in Summaries : request'[r].pc # "idle" => request'[r].server = Home
  /\ (\A r \in Summaries : request[r].pc = "idle") =>
       \A r \in Summaries \ {CHOOSE q \in Summaries : TRUE} : UNCHANGED request[r]

\* The users are interchangeable: the first failure, reload or expiry befalls the same one.
Connecting ==
  /\ OnboardingNext
  /\ bounds = <<0, 0, 0>> /\ bounds' # bounds =>
       \A u \in Users \ {CHOOSE v \in Users : TRUE} : UNCHANGED <<dialog[u], server[u], alive[u]>>

Rest == <<simulationVars, onboardingVars>>
Shown == <<formVars, pageVars>>
MCNext ==
  /\ UNCHANGED scene
  /\ \/ scene \in DOMAIN Accounts /\ Account /\ UNCHANGED <<roundVars, qualityVars, Rest, Shown>>
     \/ scene = "rounds" /\ RoundsNext /\ UNCHANGED <<accountVars, qualityVars, Rest, Shown>>
     \/ scene = "quality" /\ Quality /\ UNCHANGED <<accountVars, roundVars, Rest, Shown>>
     \/ scene = "simulation" /\ SimulationNext
        /\ UNCHANGED <<accountVars, roundVars, qualityVars, onboardingVars, Shown>>
     \/ scene = "onboarding" /\ Connecting
        /\ UNCHANGED <<accountVars, roundVars, qualityVars, simulationVars, Shown>>
     \/ scene = "form" /\ FormNext /\ UNCHANGED <<accountVars, roundVars, qualityVars, Rest, pageVars>>
     \/ scene = "pages" /\ PageNext /\ UNCHANGED <<accountVars, roundVars, qualityVars, Rest, formVars>>

\* The fairness of each part, in its own scene.
Played(s, A) == scene = s /\ A

MCSpec ==
  /\ MCInit /\ [][MCNext]_allVars
  /\ WF_roundVars(Played("rounds", SyncConnectedEnergySites))
  /\ WF_roundVars(Played("rounds", ReadNext))
  /\ \A r \in Runners : WF_simulationVars(Played("simulation", RunnerStep(r)))
  /\ \A j \in Jobs : /\ WF_simulationVars(Played("simulation", Take(j)))
                     /\ WF_simulationVars(Played("simulation", RecoverDead(j)))
  /\ \A u \in Users : /\ WF_onboardingVars(Played("onboarding", Route(u)))
                      /\ WF_onboardingVars(Played("onboarding", SubmitCredentials(u)))
                      /\ WF_onboardingVars(Played("onboarding", StartOver(u)))
                      /\ SF_onboardingVars(Played("onboarding", SubmitSelection(u)))
  /\ SF_pageVars(Played("pages", Poll))
  /\ \A i \in Slots : /\ SF_pageVars(Played("pages", HandleGet(i)))
                      /\ WF_pageVars(Played("pages", Deliver(i)))

=============================================================================
