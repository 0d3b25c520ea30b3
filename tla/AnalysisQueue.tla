---------------------------- MODULE AnalysisQueue ----------------------------
(***************************************************************************)
(* The queue of energy analyses (src/src/lib/analysis/service.ts,          *)
(* invalidation.ts, pro-checkout.ts; src/scripts/analysis-worker.ts).      *)
(*                                                                         *)
(* A customer's request is a preparation job.  The worker that claims it   *)
(* turns the site's current inputs into a run - one per fingerprint of the *)
(* inputs - with a job of its own; a paid run waits as DRAFT until it is   *)
(* paid.  A worker claims the job, computes the scenarios one by one, each *)
(* persisted as it is done, enriches them together, completes the run,     *)
(* offers the service and queues the mail.  Meanwhile the inputs may       *)
(* change, which supersedes the site's runs; the customer may cancel; the  *)
(* worker may fail, run out of its budget, be shut down or die.            *)
(*                                                                         *)
(* What a scenario computes is left out; a scenario without enough supply  *)
(* (INELIGIBLE) counts as COMPLETED.                                       *)
(***************************************************************************)
EXTENDS Integers, FiniteSets

CONSTANTS
  Workers,        \* processes of analysis-worker
  Scenarios,      \* the scenarios of a run
  MaxInputs,      \* bound: how often the inputs of the site change, plus one
  MaxEvents,      \* bound: requests, changes, cancellations, payments, errors, shutdowns and deaths, together
  SignalAt,       \* the steps of a worker at which a shutdown may find it
  MaxAttempts,    \* ANALYSIS_MAX_ATTEMPTS
  MaxConcurrent   \* ANALYSIS_MAX_CONCURRENT_JOBS

ASSUME QueueAssumption ==
  /\ MaxInputs \in Nat \ {0} /\ MaxEvents \in Nat
  /\ MaxAttempts \in Nat \ {0} /\ MaxConcurrent \in Nat \ {0}

VARIABLES
  inputs,     \* the version of the measurements, the profile and the prices of the site
  run,        \* status of the run of each fingerprint
  scenario,   \* status of its scenarios
  result,     \* its scenarios with a persisted result
  job,        \* the ScheduledJob rows of runs and of preparations
  asker,      \* what each caller of enqueueAnalysis has read
  worker,     \* what each worker holds
  paid,       \* the runs that are paid for
  offers,     \* service offers made of a run
  mailed,     \* runs whose completion mail is queued
  events

runVars == <<run, scenario, result>>
outcomeVars == <<paid, offers, mailed>>
queueVars == <<inputs, runVars, job, asker, worker, outcomeVars, events>>

Kinds == {"BASE", "PRO"}
Run == Kinds \X (1 .. MaxInputs)

\* <<kind, 0>> is the job that prepares a run of that kind, any other one computes the run.
Job == Kinds \X (0 .. MaxInputs)
IsPreparation(j) == j[2] = 0

NotHeld == "not held"
NoJob == [status |-> "NONE", attempts |-> 0, owner |-> NotHeld, stale |-> FALSE]
FreshJob == [NoJob EXCEPT !.status = "PENDING"]

Callers == Workers \cup {"web"}
NotAsking == [step |-> "none", kind |-> "BASE", version |-> 0, saw |-> "NONE"]

Idle == [pc |-> "idle", found |-> {}, job |-> <<"BASE", 0>>, seen |-> 0, left |-> {}, fresh |-> FALSE,
         retryable |-> TRUE, stopping |-> FALSE, back |-> {}]

QueueInit ==
  /\ inputs = 1
  /\ run = [r \in Run |-> "NONE"]
  /\ scenario = [r \in Run |-> [s \in Scenarios |-> "NONE"]]
  /\ result = [r \in Run |-> {}]
  /\ job = [j \in Job |-> NoJob]
  /\ asker = [c \in Callers |-> NotAsking]
  /\ worker = [w \in Workers |-> Idle]
  /\ paid = {}
  /\ offers = [r \in Run |-> 0]
  /\ mailed = {}
  /\ events = 0

At(w, pc) == worker[w].pc = pc
Put(w, rec) == worker' = [worker EXCEPT ![w] = rec]
Goto(w, pc) == Put(w, [worker[w] EXCEPT !.pc = pc])

Finished(w) == Put(w, [Idle EXCEPT !.stopping = worker[w].stopping, !.back = worker[w].back])

\* updateMany where status RUNNING and lastError = owner.
Held(w) == LET j == worker[w].job IN job[j].status = "RUNNING" /\ job[j].owner = w
Settle(w, rec) == job' = IF Held(w) THEN [job EXCEPT ![worker[w].job] = rec] ELSE job
Ended(w, status) == [job[worker[w].job] EXCEPT !.status = status, !.owner = NotHeld, !.stale = FALSE]
Again(j, attempts) == [job[j] EXCEPT !.status = "PENDING", !.owner = NotHeld, !.stale = FALSE,
                                     !.attempts = attempts]

(***************************************************************************)
(* Requests                                                                *)
(***************************************************************************)

\* POST /api/app/analyses: a request already waiting or running is handed back.
QueuePreparation(k) ==
  /\ events < MaxEvents
  /\ job[<<k, 0>>].status \notin {"PENDING", "RUNNING"}
  /\ job' = [job EXCEPT ![<<k, 0>>] = FreshJob]
  /\ events' = events + 1
  /\ UNCHANGED <<inputs, runVars, asker, worker, outcomeVars>>

\* enqueueAnalysis called directly: by an import, a confirmed profile or a renewal.
AskDirectly ==
  /\ events < MaxEvents
  /\ asker["web"].step = "none"
  /\ asker' = [asker EXCEPT !["web"] = [NotAsking EXCEPT !.step = "inputs"]]
  /\ events' = events + 1
  /\ UNCHANGED <<inputs, runVars, job, worker, outcomeVars>>

\* The quality of the data, the profile, the prices and the variants make the fingerprint.
ReadInputs(c) ==
  /\ asker[c].step = "inputs"
  /\ asker' = [asker EXCEPT ![c].step = "existing", ![c].version = inputs]
  /\ UNCHANGED <<inputs, runVars, job, worker, outcomeVars, events>>

ReadExisting(c) ==
  /\ asker[c].step = "existing"
  /\ LET r == <<asker[c].kind, asker[c].version>> IN
       asker' = [asker EXCEPT ![c].saw = run[r],
                   ![c].step = IF run[r] \in {"NONE", "SUPERSEDED", "FAILED"} THEN "write" ELSE "done"]
  /\ UNCHANGED <<inputs, runVars, job, worker, outcomeVars, events>>

\* One transaction.  A run found SUPERSEDED or FAILED is reset by its id, whatever it has become; a
\* new one is created unless another caller was faster (the fingerprint is unique).  A run with a
\* price waits for its payment.
WriteRun(c) ==
  LET r == <<asker[c].kind, asker[c].version>> IN
  /\ asker[c].step = "write"
  /\ IF asker[c].saw = "NONE" /\ run[r] # "NONE"
       THEN /\ asker' = [asker EXCEPT ![c].step = "failed"]
            /\ UNCHANGED <<runVars, job>>
       ELSE /\ run' = [run EXCEPT ![r] = IF r[1] = "PRO" THEN "DRAFT" ELSE "QUEUED"]
            /\ scenario' = [scenario EXCEPT ![r] = [s \in Scenarios |-> "QUEUED"]]
            /\ result' = [result EXCEPT ![r] = {}]
            /\ job' = IF r[1] = "PRO" THEN job ELSE [job EXCEPT ![r] = FreshJob]
            /\ asker' = [asker EXCEPT ![c].step = "done"]
  /\ UNCHANGED <<inputs, worker, outcomeVars, events>>

\* Missing history, prices or an unconfirmed profile: an error before anything is written.
InputsMissing(c) ==
  /\ asker[c].step \in {"inputs", "existing"}
  /\ events < MaxEvents
  /\ asker' = [asker EXCEPT ![c].step = "failed"]
  /\ events' = events + 1
  /\ UNCHANGED <<inputs, runVars, job, worker, outcomeVars>>

\* The direct callers go on whatever the outcome.
Answered ==
  /\ asker["web"].step \in {"done", "failed"}
  /\ asker' = [asker EXCEPT !["web"] = NotAsking]
  /\ UNCHANGED <<inputs, runVars, job, worker, outcomeVars, events>>

(***************************************************************************)
(* What happens to runs from outside                                       *)
(***************************************************************************)

\* A transaction changes the measurements, the profile or the prices and supersedes the runs.
SupersedeSiteAnalyses ==
  LET live == {r \in Run : run[r] \in {"DRAFT", "QUEUED", "RUNNING", "COMPLETED"}} IN
  /\ inputs < MaxInputs
  /\ inputs' = inputs + 1
  /\ run' = [r \in Run |-> IF r \in live THEN "SUPERSEDED" ELSE run[r]]
  /\ job' = [j \in Job |-> IF j \in live /\ job[j].status \in {"PENDING", "RUNNING"}
                             THEN [job[j] EXCEPT !.status = "CANCELED", !.owner = NotHeld, !.stale = FALSE]
                             ELSE job[j]]
  /\ events < MaxEvents /\ events' = events + 1
  /\ UNCHANGED <<scenario, result, asker, worker, outcomeVars>>

CancelQueuedAnalysis(r) ==
  /\ run[r] \in {"DRAFT", "QUEUED"}
  /\ run' = [run EXCEPT ![r] = "SUPERSEDED"]
  /\ job' = IF job[r].status = "PENDING" THEN [job EXCEPT ![r].status = "CANCELED"] ELSE job
  /\ events < MaxEvents /\ events' = events + 1
  /\ UNCHANGED <<inputs, scenario, result, asker, worker, outcomeVars>>

\* A DRAFT is sold once: an earlier payment of the run, PAID included, is handed back and its cart
\* cannot be checked out again.  Its settlement creates the job, whose key must be new.
PayDraft(r) ==
  /\ r[1] = "PRO" /\ run[r] = "DRAFT" /\ r \notin paid
  /\ job[r].status = "NONE"
  /\ run' = [run EXCEPT ![r] = "QUEUED"]
  /\ job' = [job EXCEPT ![r] = FreshJob]
  /\ paid' = paid \cup {r}
  /\ events < MaxEvents /\ events' = events + 1
  /\ UNCHANGED <<inputs, scenario, result, asker, worker, offers, mailed>>

(***************************************************************************)
(* Recovery of stale locks, by whoever polls the queue                     *)
(***************************************************************************)

\* An hour passes without a heartbeat: certain for the lock of a worker that is gone, possible for
\* one that is stuck.
LockAges(j) ==
  /\ job[j].status = "RUNNING" /\ ~job[j].stale
  /\ job' = [job EXCEPT ![j].stale = TRUE]
  /\ UNCHANGED <<inputs, runVars, asker, worker, outcomeVars, events>>

FindStale(w) ==
  LET stale == {j \in Job : job[j].status = "RUNNING" /\ job[j].stale} IN
  /\ At(w, "idle") /\ ~worker[w].stopping
  /\ \E j \in Job : job[j].status = "PENDING" \/ j \in stale      \* otherwise nothing happens
  /\ Put(w, [worker[w] EXCEPT !.pc = "recover", !.found = {<<j, job[j].attempts>> : j \in stale}])
  /\ UNCHANGED <<inputs, runVars, job, asker, outcomeVars, events>>

\* Mutant: the job goes back to the queue and its run stays RUNNING.
RunKept(r, retry) == UNCHANGED runVars

\* A RUNNING run goes back to the queue, or fails, with its scenarios.
RunBack(r, retry) ==
  /\ run' = IF run[r] = "RUNNING" THEN [run EXCEPT ![r] = IF retry THEN "QUEUED" ELSE "FAILED"] ELSE run
  /\ scenario' = [scenario EXCEPT ![r] = [s \in Scenarios |->
                    IF @[s] = "RUNNING" THEN IF retry THEN "QUEUED" ELSE "FAILED" ELSE @[s]]]
  /\ UNCHANGED result

\* One transaction per job; the job is written by its id.
Recover(j, attempts, force) ==
  LET retry == force \/ attempts < MaxAttempts IN
  /\ job' = [job EXCEPT ![j] =
               IF retry THEN Again(j, IF force /\ job[j].attempts > 0 THEN job[j].attempts - 1 ELSE job[j].attempts)
               ELSE [job[j] EXCEPT !.status = "FAILED", !.owner = NotHeld, !.stale = FALSE]]
  /\ IF IsPreparation(j) THEN UNCHANGED runVars ELSE RunBack(j, retry)

RecoverStaleJob(w) ==
  /\ At(w, "recover")
  /\ \E f \in worker[w].found :
       /\ Recover(f[1], f[2], FALSE)
       /\ Put(w, [worker[w] EXCEPT !.found = @ \ {f}])
  /\ UNCHANGED <<inputs, asker, outcomeVars, events>>

(***************************************************************************)
(* The worker                                                              *)
(***************************************************************************)

\* The job that is due first; retries wait longer, so any pending one may be it.
SelectJob(w) ==
  /\ At(w, "recover") /\ worker[w].found = {}
  /\ IF \E j \in Job : job[j].status = "PENDING"
       THEN \E j \in {i \in Job : job[i].status = "PENDING"} :
              Put(w, [worker[w] EXCEPT !.pc = "claim", !.job = j, !.seen = job[j].attempts])
       ELSE Goto(w, "idle")
  /\ UNCHANGED <<inputs, runVars, job, asker, outcomeVars, events>>

\* Under an advisory lock: the running jobs are counted and the pending one is taken.  The owner is
\* new with every claim, so no older claim of this worker is its own any more.
ClaimJob(w) ==
  LET j == worker[w].job
      running == {i \in Job : job[i].status = "RUNNING"} IN
  /\ At(w, "claim")
  /\ IF Cardinality(running) < MaxConcurrent /\ job[j].status = "PENDING"
       THEN /\ job' = [i \in Job |->
                         IF i = j THEN [job[j] EXCEPT !.status = "RUNNING", !.attempts = @ + 1, !.owner = w,
                                                      !.stale = FALSE]
                         ELSE IF job[i].owner = w THEN [job[i] EXCEPT !.owner = NotHeld] ELSE job[i]]
            /\ Put(w, [worker[w] EXCEPT !.fresh = FALSE,
                                        !.pc = IF IsPreparation(j) THEN "prepare" ELSE "start"])
            /\ asker' = IF IsPreparation(j)
                          THEN [asker EXCEPT ![w] = [NotAsking EXCEPT !.step = "inputs", !.kind = j[1]]]
                          ELSE asker
       ELSE /\ Finished(w)
            /\ UNCHANGED <<job, asker>>
  /\ UNCHANGED <<inputs, runVars, outcomeVars, events>>

Prepared(w) ==
  /\ At(w, "prepare") /\ asker[w].step = "done"
  /\ asker' = [asker EXCEPT ![w] = NotAsking]
  /\ Settle(w, Ended(w, "SUCCEEDED"))
  /\ Finished(w)
  /\ UNCHANGED <<inputs, runVars, outcomeVars, events>>

\* A retry is counted by the attempts read with the list.
Retries(w) == worker[w].retryable /\ worker[w].seen + 1 < MaxAttempts

NotPrepared(w) ==
  /\ At(w, "prepare") /\ asker[w].step = "failed"
  /\ asker' = [asker EXCEPT ![w] = NotAsking]
  /\ Settle(w, IF Retries(w) THEN Again(worker[w].job, job[worker[w].job].attempts) ELSE Ended(w, "FAILED"))
  /\ Finished(w)
  /\ UNCHANGED <<inputs, runVars, outcomeVars, events>>

\* QUEUED -> RUNNING, or the job is canceled: ANALYSIS_NOT_QUEUED.
StartRun(w) ==
  LET r == worker[w].job IN
  /\ At(w, "start")
  /\ IF run[r] = "QUEUED"
       THEN run' = [run EXCEPT ![r] = "RUNNING"] /\ job' = job /\ Goto(w, "read")
       ELSE run' = run /\ Settle(w, Ended(w, "CANCELED")) /\ Finished(w)
  /\ UNCHANGED <<inputs, scenario, result, asker, outcomeVars, events>>

\* Mutant: a run begins anew whenever it is taken up.
Everything(r) == IF result[r] = Scenarios THEN {} ELSE Scenarios

Left(r) == Scenarios \ result[r]

\* executeRun: the scenarios with a persisted result are resumed; one of them left RUNNING by an
\* interrupted worker is COMPLETED again.
ReadRun(w) ==
  LET r == worker[w].job IN
  /\ At(w, "read")
  /\ Put(w, [worker[w] EXCEPT !.pc = "heartbeat", !.left = Left(r)])
  /\ scenario' = [scenario EXCEPT ![r] = [s \in Scenarios |->
                    IF s \in result[r] /\ @[s] = "RUNNING" THEN "COMPLETED" ELSE @[s]]]
  /\ UNCHANGED <<inputs, run, result, job, asker, outcomeVars, events>>

\* The heartbeat before and after a scenario: no row means the lease is lost.
Heartbeat(w) ==
  /\ At(w, "heartbeat")
  /\ IF Held(w)
       THEN /\ job' = [job EXCEPT ![worker[w].job].stale = FALSE]
            /\ Put(w, [worker[w] EXCEPT !.pc = IF worker[w].left = {} THEN "enrich" ELSE "check",
                                        !.found = IF worker[w].left = {} THEN Scenarios ELSE {}])
       ELSE /\ job' = job
            /\ Put(w, [worker[w] EXCEPT !.pc = "catch", !.retryable = TRUE])
  /\ UNCHANGED <<inputs, runVars, asker, outcomeVars, events>>

\* ANALYSIS_CANCELED is not retried.
CheckRunning(w) ==
  /\ At(w, "check")
  /\ IF run[worker[w].job] = "RUNNING" THEN Goto(w, "begin")
       ELSE Put(w, [worker[w] EXCEPT !.pc = "catch", !.retryable = FALSE])
  /\ UNCHANGED <<inputs, runVars, job, asker, outcomeVars, events>>

BeginScenario(w) ==
  /\ At(w, "begin")
  /\ \E s \in worker[w].left :
       /\ scenario' = [scenario EXCEPT ![worker[w].job][s] = "RUNNING"]
       /\ Put(w, [worker[w] EXCEPT !.pc = "compute", !.found = {s}])
  /\ UNCHANGED <<inputs, run, result, job, asker, outcomeVars, events>>

\* By the scenario's id, and before the others are computed.
PersistResult(r, done) ==
  /\ scenario' = [scenario EXCEPT ![r] = [s \in Scenarios |-> IF s \in done THEN "COMPLETED" ELSE @[s]]]
  /\ result' = [result EXCEPT ![r] = @ \cup done]

FinishScenario(w) ==
  /\ At(w, "compute")
  /\ PersistResult(worker[w].job, worker[w].found)
  /\ Put(w, [worker[w] EXCEPT !.pc = "heartbeat", !.left = @ \ worker[w].found, !.found = {}, !.fresh = TRUE])
  /\ UNCHANGED <<inputs, run, job, asker, outcomeVars, events>>

\* A measurement, a price or a fee is missing, the solver fails: some errors are not retried.
ScenarioFails(w) ==
  /\ At(w, "compute")
  /\ events < MaxEvents
  /\ events' = events + 1
  /\ \E retryable \in BOOLEAN :
       Put(w, [worker[w] EXCEPT !.pc = "catch", !.found = {}, !.retryable = retryable])
  /\ UNCHANGED <<inputs, runVars, job, asker, outcomeVars>>

\* The second pass: every row once more, whatever it has become, with the savings against the others.
PersistSavings(r, s) ==
  /\ scenario' = [scenario EXCEPT ![r][s] = "COMPLETED"]
  /\ result' = [result EXCEPT ![r] = @ \cup {s}]

Enrich(w) ==
  /\ At(w, "enrich")
  /\ \E s \in worker[w].found :
       /\ PersistSavings(worker[w].job, s)
       /\ Put(w, [worker[w] EXCEPT !.found = @ \ {s},
                                   !.pc = IF worker[w].found = {s} THEN "complete" ELSE "enrich"])
  /\ UNCHANGED <<inputs, run, job, asker, outcomeVars, events>>

Completable(r) == run[r] = "RUNNING"

Complete(w) ==
  LET r == worker[w].job IN
  /\ At(w, "complete")
  /\ IF Completable(r)
       THEN run' = [run EXCEPT ![r] = "COMPLETED"] /\ job' = job /\ Goto(w, "offer")
       ELSE run' = run /\ Settle(w, Ended(w, "CANCELED")) /\ Finished(w)
  /\ UNCHANGED <<inputs, scenario, result, asker, outcomeVars, events>>

\* A BASE run offers the service when it saves anything.
MakeOffer(w) ==
  LET r == worker[w].job IN
  /\ At(w, "offer")
  /\ offers' = IF r[1] = "BASE" THEN [offers EXCEPT ![r] = @ + 1] ELSE offers
  /\ Goto(w, "mail")
  /\ UNCHANGED <<inputs, runVars, job, asker, paid, mailed, events>>

QueueCompletionMail(w) ==
  /\ At(w, "mail")
  /\ mailed' = mailed \cup {worker[w].job}
  /\ Goto(w, "succeed")
  /\ UNCHANGED <<inputs, runVars, job, asker, paid, offers, events>>

Succeed(w) ==
  /\ At(w, "succeed")
  /\ Settle(w, Ended(w, "SUCCEEDED"))
  /\ Finished(w)
  /\ UNCHANGED <<inputs, runVars, asker, outcomeVars, events>>

\* The run goes back or fails whoever runs it now; only the job is guarded by its owner.
Catch(w) ==
  LET j == worker[w].job IN
  /\ At(w, "catch")
  /\ RunBack(j, Retries(w))
  /\ Settle(w, IF Retries(w) THEN Again(j, job[j].attempts) ELSE Ended(w, "FAILED"))
  /\ Finished(w)
  /\ UNCHANGED <<inputs, asker, outcomeVars, events>>

\* 45 minutes are over, which one scenario at least has taken: the rest goes on in another cycle,
\* and no attempt is spent.
BudgetExceeded(w) ==
  LET j == worker[w].job IN
  /\ At(w, "heartbeat") /\ worker[w].fresh /\ worker[w].left # {}
  /\ RunBack(j, TRUE)
  /\ Settle(w, Again(j, job[j].attempts - 1))
  /\ Finished(w)
  /\ UNCHANGED <<inputs, asker, outcomeVars, events>>

(***************************************************************************)
(* Shutdown and death                                                      *)
(***************************************************************************)

\* SIGTERM: the handler notes the job of the loop and runs between the steps of the loop, which
\* goes on until the process exits.
Signal(w) ==
  /\ ~worker[w].stopping /\ worker[w].pc \in SignalAt
  /\ events < MaxEvents
  /\ events' = events + 1
  /\ Put(w, [worker[w] EXCEPT !.stopping = TRUE,
              !.back = IF worker[w].pc \in {"recover", "claim"} THEN {} ELSE {worker[w].job}])
  /\ UNCHANGED <<inputs, runVars, job, asker, outcomeVars>>

\* That job is handed back, with its attempt, if it is still RUNNING.
HandBack(w) ==
  /\ \E j \in worker[w].back :
       IF job[j].status = "RUNNING" THEN Recover(j, job[j].attempts, TRUE) ELSE UNCHANGED <<runVars, job>>
  /\ Put(w, [worker[w] EXCEPT !.back = {}])
  /\ UNCHANGED <<inputs, asker, outcomeVars, events>>

Gone(w) ==
  /\ Put(w, Idle)
  /\ asker' = [asker EXCEPT ![w] = NotAsking]
  /\ UNCHANGED <<inputs, runVars, outcomeVars>>

Disowned(w) == [j \in Job |-> IF job[j].owner = w THEN [job[j] EXCEPT !.owner = NotHeld] ELSE job[j]]

Exit(w) ==
  /\ worker[w].stopping /\ worker[w].back = {}
  /\ Gone(w) /\ job' = Disowned(w) /\ UNCHANGED events

\* An exception outside the try (the database is away) or the death of the process.
WorkerDies(w) ==
  /\ ~At(w, "idle")
  /\ events < MaxEvents
  /\ events' = events + 1
  /\ Gone(w) /\ job' = Disowned(w)

(***************************************************************************)
(* The specification                                                       *)
(***************************************************************************)

PrepareStep(c) == ReadInputs(c) \/ ReadExisting(c) \/ WriteRun(c)

WorkerStep(w) ==
  \/ FindStale(w) \/ RecoverStaleJob(w) \/ SelectJob(w) \/ ClaimJob(w)
  \/ PrepareStep(w) \/ Prepared(w) \/ NotPrepared(w)
  \/ StartRun(w) \/ ReadRun(w) \/ Heartbeat(w) \/ CheckRunning(w) \/ BeginScenario(w) \/ FinishScenario(w)
  \/ Enrich(w) \/ Complete(w) \/ MakeOffer(w) \/ QueueCompletionMail(w) \/ Succeed(w) \/ Catch(w)
  \/ HandBack(w) \/ Exit(w)

Outside ==
  \/ \E k \in Kinds : QueuePreparation(k)
  \/ AskDirectly \/ PrepareStep("web") \/ Answered
  \/ \E c \in Callers : InputsMissing(c)
  \/ SupersedeSiteAnalyses
  \/ \E r \in Run : CancelQueuedAnalysis(r) \/ PayDraft(r)

QueueNext ==
  \/ Outside
  \/ \E j \in Job : LockAges(j)
  \/ \E w \in Workers : WorkerStep(w) \/ ScenarioFails(w) \/ BudgetExceeded(w) \/ Signal(w) \/ WorkerDies(w)

\* The worker is restarted and polls; a lock nobody renews gets old.
QueueFairness ==
  /\ \A w \in Workers : WF_queueVars(WorkerStep(w))
  /\ \A j \in Job : WF_queueVars(LockAges(j) /\ job[j].owner = NotHeld)

QueueSpec == QueueInit /\ [][QueueNext]_queueVars /\ QueueFairness

(***************************************************************************)
(* Properties                                                              *)
(***************************************************************************)

RunStatuses == {"NONE", "DRAFT", "QUEUED", "RUNNING", "COMPLETED", "FAILED", "SUPERSEDED"}

QueueTypeOK ==
  /\ inputs \in 1 .. MaxInputs
  /\ run \in [Run -> RunStatuses]
  /\ scenario \in [Run -> [Scenarios -> {"NONE", "QUEUED", "RUNNING", "COMPLETED", "FAILED"}]]
  /\ result \in [Run -> SUBSET Scenarios]
  /\ \A j \in Job : job[j].attempts \in 0 .. MaxAttempts + MaxEvents /\ job[j].owner \in Workers \cup {NotHeld}
  /\ \A w \in Workers : worker[w].left \subseteq Scenarios
  /\ mailed \subseteq Run /\ paid \subseteq {r \in Run : r[1] = "PRO"}

\* A scenario that is persisted is not computed again: a run resumed after a death, a shutdown or a
\* spent budget goes on with the scenarios that are missing (src/src/lib/analysis/service.ts:1827).
NotComputedTwice ==
  /\ []QueueTypeOK
  /\ [][\A r \in Run, s \in Scenarios :
          (scenario[r][s] # "RUNNING" /\ scenario'[r][s] = "RUNNING") => s \notin result[r]]_queueVars

\* Every request that made it into the queue is answered - completed, failed, or void - although
\* the worker is killed, shut down or out of budget in the middle ("interrupted jobs return to the
\* queue after their lock expires", src/README.md:110).
AnalysisSettles ==
  \A r \in Run : run[r] \in {"QUEUED", "RUNNING"} ~> run[r] \notin {"QUEUED", "RUNNING"}

=============================================================================
