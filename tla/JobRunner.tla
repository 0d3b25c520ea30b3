------------------------------ MODULE JobRunner ------------------------------
(***************************************************************************)
(* The internal job runner (src/src/app/api/internal/jobs/run/route.ts).   *)
(*                                                                         *)
(* A call of the endpoint takes a lease (one row, claimed by a conditional *)
(* update), runs a cycle of stages with a heartbeat before each, and frees *)
(* the lease when the cycle ends, an exception included.  The lease of a   *)
(* runner not heard of for 50 minutes may be taken over.                   *)
(*                                                                         *)
(* Of the stages the model keeps what outlives a cycle: the subscriptions  *)
(* that expire, the durable jobs that switch their inverters off, and the  *)
(* failures that are only reported while the cycle's variables are alive.  *)
(***************************************************************************)
EXTENDS Integers, FiniteSets, Sequences

CONSTANTS
  Runners,         \* concurrent calls of the endpoint
  Subscriptions,   \* ACTIVE subscriptions whose end is in sight
  RunnerFaults,    \* bound: exceptions, crashes and stalls
  MaxFailures      \* bound: work that fails for good and is to be reported

ASSUME RunnerFaultsAssumption == RunnerFaults \in Nat /\ MaxFailures \in Nat

Nobody == "nobody"

ASSUME RunnersAssumption == IsFiniteSet(Runners) /\ Nobody \notin Runners

VARIABLES
  lease,      \* the INTERNAL_JOB_RUNNER_LEASE row: owner, and whether it is older than 50 minutes
  runner,     \* what each call holds
  subs,       \* subscriptions: "active", "lapsed" (endsAt has passed), "charging" (it has, and the
              \* renewal is being charged), "CANCELED", "EXPIRED"
  switchOff,  \* subscriptions with a durable deactivation job
  told,       \* subscriptions whose expiry mail is queued
  failures,   \* failures for good, in the calendar and payment stages: how many so far
  alerted,    \* how many of them an operations alert has named
  runnerFaults

runnerVars == <<lease, runner, subs, switchOff, told, failures, alerted, runnerFaults>>

\* The stages of a cycle in order.  "work" stands for the deactivations, the synchronisations,
\* the imports and the simulations: this cycle keeps nothing of them.
Stages == <<"calendarAndPayments", "findExpiring", "expire", "work", "mailExpired", "alert">>

Out == [pc |-> "out", stage |-> 0, found |-> {}, expired |-> {}, failed |-> 0, overtaken |-> FALSE]

InCycle == {r \in Runners : runner[r].pc = "stage"}
StageOf(r) == Stages[runner[r].stage]

RunnerInit ==
  /\ lease = [owner |-> Nobody, stale |-> FALSE]
  /\ runner = [r \in Runners |-> Out]
  /\ subs = [s \in Subscriptions |-> "active"]
  /\ switchOff = {}
  /\ told = {}
  /\ failures = 0
  /\ alerted = 0
  /\ runnerFaults = 0

(***************************************************************************)
(* The lease                                                               *)
(***************************************************************************)

\* Mutant: a lease is never taken over.
Unclaimed == lease.owner = Nobody

Free == lease.owner = Nobody \/ lease.stale

\* A call that finds the lease taken answers 409 and changes nothing.
AcquireRunnerLease(r) ==
  /\ runner[r].pc = "out"
  /\ Free
  /\ lease' = [owner |-> r, stale |-> FALSE]
  /\ runner' = [q \in Runners |->
                  IF q = r THEN [Out EXCEPT !.pc = "heartbeat", !.stage = 1]
                  ELSE IF q = lease.owner THEN [runner[q] EXCEPT !.overtaken = TRUE]
                  ELSE runner[q]]
  /\ UNCHANGED <<subs, switchOff, told, failures, alerted, runnerFaults>>

OwnsLease(r) == lease.owner = r

\* heartbeatRunnerLease: the next stage begins, or the cycle ends with LEASE_LOST.
HeartbeatRunnerLease(r) ==
  /\ runner[r].pc = "heartbeat"
  /\ IF OwnsLease(r)
     THEN /\ lease' = [lease EXCEPT !.stale = FALSE]
          /\ runner' = [runner EXCEPT ![r].pc =
                          IF runner[r].stage > Len(Stages) THEN "release" ELSE "stage"]
     ELSE /\ runner' = [runner EXCEPT ![r].pc = "release"]
          /\ UNCHANGED lease
  /\ UNCHANGED <<subs, switchOff, told, failures, alerted, runnerFaults>>

\* Mutant: whoever holds the lease, it is freed.
ReleaseAnyLease(r) ==
  /\ runner[r].pc = "release"
  /\ lease' = [owner |-> Nobody, stale |-> FALSE]
  /\ runner' = [runner EXCEPT ![r] = Out]
  /\ UNCHANGED <<subs, switchOff, told, failures, alerted, runnerFaults>>

\* The finally block: only the owner's own lease is freed.
ReleaseRunnerLease(r) ==
  /\ runner[r].pc = "release"
  /\ lease' = IF OwnsLease(r) THEN [owner |-> Nobody, stale |-> FALSE] ELSE lease
  /\ runner' = [runner EXCEPT ![r] = Out]
  /\ UNCHANGED <<subs, switchOff, told, failures, alerted, runnerFaults>>

(***************************************************************************)
(* The stages of runJobs                                                   *)
(***************************************************************************)

\* The stage is done; the heartbeat before the next follows.
Done(r, state) ==
  runner' = [runner EXCEPT ![r] = [state EXCEPT !.pc = "heartbeat", !.stage = @ + 1]]

AtStage(r, name) == runner[r].pc = "stage" /\ StageOf(r) = name

\* processConsultationCalendarJobs, flagUnlinkedGopayCheckoutsForReview and their like give
\* work up for good and count it; the row that failed is not met again by a later cycle.
CalendarAndPayments(r) ==
  /\ AtStage(r, "calendarAndPayments")
  /\ \E n \in 0..1 :
       /\ failures + n <= MaxFailures
       /\ failures' = failures + n
       /\ Done(r, [runner[r] EXCEPT !.failed = n])
  /\ UNCHANGED <<lease, subs, switchOff, told, alerted, runnerFaults>>

Work(r) ==
  /\ AtStage(r, "work")
  /\ Done(r, runner[r])
  /\ UNCHANGED <<lease, subs, switchOff, told, failures, alerted, runnerFaults>>

\* A subscription whose renewal is being charged is spared for seven days.
FindExpiring(r) ==
  /\ AtStage(r, "findExpiring")
  /\ \E spared \in SUBSET {s \in Subscriptions : subs[s] = "charging"} :
       Done(r, [runner[r] EXCEPT !.found =
                  {s \in Subscriptions : subs[s] \in {"lapsed", "charging"}} \ spared])
  /\ UNCHANGED <<lease, subs, switchOff, told, failures, alerted, runnerFaults>>

\* Mutant: the subscriptions found are expired without looking at them again.
FoundOver(r) == runner[r].found

StillOver(r) == {s \in runner[r].found : subs[s] \in {"lapsed", "charging"}}

\* One transaction: the end is checked again, the subscription expires and the durable job of
\* the safety OFF is written with it.
Expire(r) ==
  /\ AtStage(r, "expire")
  /\ subs' = [s \in Subscriptions |-> IF s \in StillOver(r) THEN "EXPIRED" ELSE subs[s]]
  /\ switchOff' = switchOff \cup StillOver(r)
  /\ Done(r, [runner[r] EXCEPT !.expired = StillOver(r)])
  /\ UNCHANGED <<lease, told, failures, alerted, runnerFaults>>

\* Only the subscriptions this cycle expired are written to.
MailExpired(r) ==
  /\ AtStage(r, "mailExpired")
  /\ told' = told \cup runner[r].expired
  /\ Done(r, runner[r])
  /\ UNCHANGED <<lease, subs, switchOff, failures, alerted, runnerFaults>>

Alert(r) ==
  /\ AtStage(r, "alert")
  /\ alerted' = alerted + runner[r].failed
  /\ Done(r, runner[r])
  /\ UNCHANGED <<lease, subs, switchOff, told, failures, runnerFaults>>

Stage(r) == CalendarAndPayments(r) \/ Work(r) \/ FindExpiring(r) \/ Expire(r) \/ MailExpired(r) \/ Alert(r)

(***************************************************************************)
(* What goes wrong                                                         *)
(***************************************************************************)

\* A stage throws: the stages after it are left to the next cycle.
Throws(r) ==
  /\ runner[r].pc = "stage"
  /\ runnerFaults < RunnerFaults
  /\ runnerFaults' = runnerFaults + 1
  /\ runner' = [runner EXCEPT ![r].pc = "release"]
  /\ UNCHANGED <<lease, subs, switchOff, told, failures, alerted>>

\* The process dies, or cannot write the release: the lease stays as it is.
Crash(r) ==
  /\ runner[r].pc # "out"
  /\ runnerFaults < RunnerFaults
  /\ runnerFaults' = runnerFaults + 1
  /\ runner' = [runner EXCEPT ![r] = Out]
  /\ UNCHANGED <<lease, subs, switchOff, told, failures, alerted>>

\* 50 minutes pass since the last heartbeat of an owner that died.
LeaseOutlives ==
  /\ lease.owner # Nobody
  /\ ~lease.stale
  /\ runner[lease.owner].pc = "out"
  /\ lease' = [lease EXCEPT !.stale = TRUE]
  /\ UNCHANGED <<runner, subs, switchOff, told, failures, alerted, runnerFaults>>

\* They pass while the owner is stuck in a stage, and it goes on afterwards.
OwnerIsStuck ==
  /\ lease.owner # Nobody
  /\ ~lease.stale
  /\ runner[lease.owner].pc # "out"
  /\ runnerFaults < RunnerFaults
  /\ runnerFaults' = runnerFaults + 1
  /\ lease' = [lease EXCEPT !.stale = TRUE]
  /\ UNCHANGED <<runner, subs, switchOff, told, failures, alerted>>

(***************************************************************************)
(* Subscriptions end, are charged for the next year, and are canceled      *)
(***************************************************************************)
Lapse(s) ==
  /\ subs[s] = "active"
  /\ \E state \in {"lapsed", "charging"} : subs' = [subs EXCEPT ![s] = state]
  /\ UNCHANGED <<lease, runner, switchOff, told, failures, alerted, runnerFaults>>

\* The renewal is paid (with a subscription of its own), given up, or seven days late: the one
\* that has ended is spared no longer.
Settle(s) ==
  /\ subs[s] = "charging"
  /\ subs' = [subs EXCEPT ![s] = "lapsed"]
  /\ UNCHANGED <<lease, runner, switchOff, told, failures, alerted, runnerFaults>>

\* The customer or an administrator cancels it, or its payment is refunded: one transaction
\* ends it and writes a durable job of its own.
Cancel(s) ==
  /\ subs[s] \in {"active", "lapsed", "charging"}
  /\ subs' = [subs EXCEPT ![s] = "CANCELED"]
  /\ switchOff' = switchOff \cup {s}
  /\ UNCHANGED <<lease, runner, told, failures, alerted, runnerFaults>>

RunnerStep(r) ==
  \/ AcquireRunnerLease(r)
  \/ HeartbeatRunnerLease(r)
  \/ Stage(r)
  \/ ReleaseRunnerLease(r)

RunnerNext ==
  \/ \E r \in Runners : RunnerStep(r) \/ Throws(r) \/ Crash(r)
  \/ LeaseOutlives
  \/ OwnerIsStuck
  \/ \E s \in Subscriptions : Lapse(s) \/ Settle(s) \/ Cancel(s)

(***************************************************************************)
(* Properties                                                              *)
(***************************************************************************)
RunnerTypeOK ==
  /\ lease \in [owner : Runners \cup {Nobody}, stale : BOOLEAN]
  /\ runner \in [Runners -> [pc : {"out", "heartbeat", "stage", "release"},
                            stage : 0..(Len(Stages) + 1),
                            found : SUBSET Subscriptions, expired : SUBSET Subscriptions,
                            failed : 0..1, overtaken : BOOLEAN]]
  /\ subs \in [Subscriptions -> {"active", "lapsed", "charging", "CANCELED", "EXPIRED"}]
  /\ switchOff \subseteq Subscriptions
  /\ told \subseteq Subscriptions
  /\ failures \in 0..MaxFailures
  /\ alerted \in 0..failures
  /\ runnerFaults \in 0..RunnerFaults

\* Two cycles are under way at once only where one of them was stuck for 50 minutes and has
\* been overtaken; it ends at its next heartbeat and does not free the lease of the other.
OneCycle ==
  /\ RunnerTypeOK
  /\ \A r, q \in InCycle : r # q => runner[r].overtaken \/ runner[q].overtaken

\* A subscription that is canceled between the search of a cycle and its transaction keeps the
\* end its customer gave it: no cycle, not even one that was overtaken, expires it a second time
\* or mails that it has run out.
CanceledIsKept ==
  [][\A s \in Subscriptions :
       subs[s] = "CANCELED" => subs'[s] = "CANCELED" /\ s \notin told']_runnerVars

\* Whatever is thrown, dies or hangs, a lapsed subscription ends and the job that switches its
\* inverters off is written.
LapsedIsSwitchedOff ==
  \A s \in Subscriptions :
    (subs[s] = "lapsed") ~> (subs[s] \in {"EXPIRED", "CANCELED"} /\ s \in switchOff)

\* The jobs container calls every 30 seconds; a process that lives goes on; the lease of one
\* that died ages.
RunnerFairness ==
  /\ WF_runnerVars(\E r \in Runners : AcquireRunnerLease(r))
  /\ \A r \in Runners : WF_runnerVars(HeartbeatRunnerLease(r) \/ Stage(r) \/ ReleaseRunnerLease(r))
  /\ WF_runnerVars(LeaseOutlives)

RunnerSpec == RunnerInit /\ [][RunnerNext]_runnerVars /\ RunnerFairness

=============================================================================
