------------------------------ MODULE MCSites ------------------------------
(***************************************************************************)
(* A site of two inverters, and a job that two workers contend for, for    *)
(* TLC: with both at once the state space is out of reach.  In the scene   *)
(* of the inverters only one worker ever claims the job; in the scene of   *)
(* the workers the fault is spent on the recovery that takes a job away    *)
(* from a worker that is still alive.                                      *)
(***************************************************************************)
EXTENDS InverterControl

CONSTANTS Scenes, Lone
VARIABLE scene

allVars == <<vars, scene>>

MCInit == Init /\ scene \in Scenes

MCNext ==
  /\ UNCHANGED scene
  /\ Next
  /\ scene = "inverters" => \A w \in Workers \ {Lone} : work'[w] = IdleWork
  /\ scene = "workers" /\ faults' # faults => \E e \in Events : JobRecover(e)

Played(w) == scene = "workers" \/ w = Lone

\* FairSpec of InverterControl, for the workers that are played.
MCSpec ==
  /\ MCInit /\ [][MCNext]_allVars
  /\ \A p \in Procs : WF_vars(IssueInverterCommand(p)) /\ WF_vars(Sweep(p))
  /\ \A u \in Users : WF_vars(SiteCommand(u))
  /\ \A w \in Workers : WF_vars(Played(w) /\ (Worker(w) \/ \E e \in Events : JobSelect(w, e)))
  /\ \A e \in Events : WF_vars(JobRecover(e))
  /\ \A s \in Subs : WF_vars(Expire(s))
=============================================================================
