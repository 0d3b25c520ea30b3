----------------------------- MODULE MCServices -----------------------------
(***************************************************************************)
(* The services every part of the platform leans on, for TLC: the email    *)
(* outbox, the job runner, the rate limit, the accounts and the agent that *)
(* reads keys from the portal.  They share no variable, so a behaviour     *)
(* plays one of them; the accounts are played twice, the recovery of       *)
(* passwords and the change of access.                                     *)
(***************************************************************************)
EXTENDS EmailOutbox, JobRunner, RateLimit, Accounts, KeyAgent

CONSTANT Scenes
VARIABLE scene

allVars == <<scene, mailVars, runnerVars, rateVars, accountVars, agentVars>>

MCInit ==
  /\ scene \in Scenes
  /\ MailInit
  /\ RunnerInit
  /\ RateInit
  /\ AccountsInit
  /\ AgentInit

\* A wrong password matters to the recovery alone.
AccessNext ==
  /\ Cookies \/ Access
  /\ \A c \in Sessions : sessions'[c].pc # "none" => sessions'[c].given = sessions'[c].hash

Others(vars) == UNCHANGED <<vars, agentVars>>

MCNext ==
  /\ UNCHANGED scene
  /\ \/ scene = "mail" /\ MailNext /\ Others(<<runnerVars, rateVars, accountVars>>)
     \/ scene = "runner" /\ RunnerNext /\ Others(<<mailVars, rateVars, accountVars>>)
     \/ scene = "rate" /\ RateNext /\ Others(<<mailVars, runnerVars, accountVars>>)
     \/ scene = "passwords" /\ (Passwords \/ Cookies) /\ Others(<<mailVars, runnerVars, rateVars>>)
     \/ scene = "access" /\ AccessNext /\ Others(<<mailVars, runnerVars, rateVars>>)
     \/ scene = "agent" /\ AgentNext /\ UNCHANGED <<mailVars, runnerVars, rateVars, accountVars>>

\* Progress is owed by the mail and by the runner, each in its own scene.
MCSpec ==
  /\ MCInit /\ [][MCNext]_allVars
  /\ scene = "mail" => MailFairness
  /\ scene = "runner" => RunnerFairness

=============================================================================
