----------------------------- MODULE Simulation -----------------------------
(***************************************************************************)
(* The jobs that compute an estimate of savings (simulation/service.ts),   *)
(* taken up by the runner of the jobs.  After the runner's lease is taken  *)
(* over two of them may be at work.  What a job computes is left out.      *)
(***************************************************************************)
EXTENDS Naturals, FiniteSets

CONSTANTS
  Jobs,
  Runners,
  MaxStops,      \* bound: deaths of a runner
  MaxOvertakes   \* bound: jobs of a runner that is still alive that get stale

VARIABLES
  job,           \* ScheduledJob: status, owner (lastError) and the result in its payload
  due,           \* external: the history of the plant is enough for an estimate
  mail,          \* EmailDelivery with the job's idempotency key
  runner,        \* processSimulationJobs
  stops, overtakes

simulationVars == <<job, due, mail, runner, stops, overtakes>>

-----------------------------------------------------------------------------
NoJobYet == [status |-> "NONE", owner |-> "none", result |-> FALSE]
AtRest == [pc |-> "idle", job |-> "none"]

SimulationInit ==
  /\ job = [j \in Jobs |-> NoJobYet]
  /\ due \in BOOLEAN
  /\ mail = {}
  /\ runner = [r \in Runners |-> AtRest]
  /\ stops = 0 /\ overtakes = 0

\* enqueueSimulation: refused while getEnergyDataQuality finds the history too short.
EnqueueSimulation(j) ==
  /\ job[j].status = "NONE" /\ due
  /\ job' = [job EXCEPT ![j].status = "PENDING"]
  /\ UNCHANGED <<due, mail, runner, stops, overtakes>>

\* Later the intervals may be fewer (a plant was connected anew), or enough.
HistoryChanges ==
  /\ due' = ~due
  /\ UNCHANGED <<job, mail, runner, stops, overtakes>>

HeldBy(j) == {r \in Runners : runner[r].pc # "idle" /\ runner[r].job = j /\ job[j].owner = r}

Back(j) == [job EXCEPT ![j].status = "PENDING", ![j].owner = "none"]
ForgetLock(j) == [job EXCEPT ![j].owner = "none"]  \* mutant: a stale job is unlocked and stays RUNNING
Requeued(j) == Back(j)

\* lockedAt is older than 30 minutes: the runner has died, or it is very slow.
RecoverStaleSimulation(j) ==
  /\ job[j].status = "RUNNING"
  /\ IF HeldBy(j) = {} THEN UNCHANGED overtakes
     ELSE overtakes < MaxOvertakes /\ overtakes' = overtakes + 1
  /\ job' = Requeued(j)
  /\ UNCHANGED <<due, mail, runner, stops>>

FindPending(r, j) ==
  /\ runner[r].pc = "idle" /\ job[j].status = "PENDING"
  /\ runner' = [runner EXCEPT ![r] = [pc |-> "found", job |-> j]]
  /\ UNCHANGED <<job, due, mail, stops, overtakes>>

Claim(r) ==
  LET j == runner[r].job IN
  /\ runner[r].pc = "found"
  /\ IF job[j].status = "PENDING"
     THEN /\ job' = [job EXCEPT ![j].status = "RUNNING", ![j].owner = r]
          /\ runner' = [runner EXCEPT ![r].pc = "claimed"]
     ELSE runner' = [runner EXCEPT ![r] = AtRest] /\ UNCHANGED job
  /\ UNCHANGED <<due, mail, stops, overtakes>>

Owned(r) == LET j == runner[r].job IN job[j].status = "RUNNING" /\ job[j].owner = r

\* loadPoints: the plant is still the user's and has enough points.
LoadPoints == due

\* What runSimulation computes is left out.
Computed == [status |-> "SUCCEEDED", owner |-> "none", result |-> TRUE]

\* The transaction that completes the job; another runner may have it by now.
Execute(r) ==
  LET j == runner[r].job IN
  /\ runner[r].pc = "claimed"
  /\ \/ /\ LoadPoints /\ Owned(r)
        /\ job' = [job EXCEPT ![j] = Computed]
        /\ runner' = [runner EXCEPT ![r].pc = "completed"]
     \/ /\ LoadPoints /\ ~Owned(r)        \* SIMULATION_JOB_CLAIM_LOST
        /\ runner' = [runner EXCEPT ![r] = AtRest]
        /\ UNCHANGED job
     \/ /\ runner' = [runner EXCEPT ![r].pc = "caught"]   \* too little data, or an error
        /\ UNCHANGED job
  /\ UNCHANGED <<due, mail, stops, overtakes>>

\* queueEmail is outside the transaction; when it throws, the catch finds the job succeeded.
QueueMail(r) ==
  /\ runner[r].pc = "completed"
  /\ \/ mail' = mail \cup {runner[r].job} /\ runner' = [runner EXCEPT ![r] = AtRest]
     \/ mail' = mail /\ runner' = [runner EXCEPT ![r].pc = "caught"]
  /\ UNCHANGED <<job, due, stops, overtakes>>

CatchFailure(r) ==
  LET j == runner[r].job IN
  /\ runner[r].pc = "caught"
  /\ job' = IF Owned(r)
            THEN [job EXCEPT ![j] = [status |-> "FAILED", owner |-> "none", result |-> FALSE]]
            ELSE job
  /\ runner' = [runner EXCEPT ![r] = AtRest]
  /\ UNCHANGED <<due, mail, stops, overtakes>>

RunnerStops(r) ==
  /\ runner[r].pc # "idle" /\ stops < MaxStops
  /\ stops' = stops + 1
  /\ runner' = [runner EXCEPT ![r] = AtRest]
  /\ UNCHANGED <<job, due, mail, overtakes>>

RunnerStep(r) == Claim(r) \/ Execute(r) \/ QueueMail(r) \/ CatchFailure(r)
Take(j) == \E r \in Runners : FindPending(r, j)
RecoverDead(j) == HeldBy(j) = {} /\ RecoverStaleSimulation(j)

SimulationNext ==
  \/ \E j \in Jobs : EnqueueSimulation(j) \/ RecoverStaleSimulation(j) \/ Take(j)
  \/ \E r \in Runners : RunnerStep(r) \/ RunnerStops(r)
  \/ HistoryChanges

SimulationSpec ==
  /\ SimulationInit /\ [][SimulationNext]_simulationVars
  /\ \A r \in Runners : WF_simulationVars(RunnerStep(r))
  /\ \A j \in Jobs : WF_simulationVars(Take(j)) /\ WF_simulationVars(RecoverDead(j))

SimulationTypeOK ==
  /\ job \in [Jobs -> [status: {"NONE", "PENDING", "RUNNING", "SUCCEEDED", "FAILED"},
                       owner: Runners \cup {"none"}, result: BOOLEAN]]
  /\ due \in BOOLEAN /\ mail \subseteq Jobs
  /\ runner \in [Runners -> [pc: {"idle", "found", "claimed", "completed", "caught"},
                             job: Jobs \cup {"none"}]]
  /\ stops \in 0..MaxStops /\ overtakes \in 0..MaxOvertakes

Settled(j) == job[j].status \in {"SUCCEEDED", "FAILED"}

\* Every estimate a user asks for ends with a result or a failure and keeps it;
\* a message that it is ready is only sent for one that has a result, whichever
\* of two runners is late or dies (simulation/service.ts:192-303).
SimulationSettles ==
  /\ [](SimulationTypeOK /\ \A j \in mail : job[j].result)
  /\ [][\A j \in Jobs : Settled(j) => job'[j] = job[j]]_simulationVars
  /\ \A j \in Jobs : job[j].status # "NONE" ~> Settled(j)

=============================================================================
