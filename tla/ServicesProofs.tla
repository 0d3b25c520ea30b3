---------------------------- MODULE ServicesProofs ----------------------------
(***************************************************************************)
(* The services, for every number of processes, rows and requests: the job *)
(* runner (JobRunner), the email outbox (EmailOutbox), the rate limit      *)
(* (RateLimit), the accounts (Accounts) and the agent that reads keys from *)
(* the portal (KeyAgent).                                                  *)
(***************************************************************************)
EXTENDS EmailOutbox, JobRunner, RateLimit, Accounts, KeyAgent, FiniteSetTheorems, TLAPS

-----------------------------------------------------------------------------
(* Finite sets                                                             *)

\* A set that gains one element at the most.
LEMMA GainsOne ==
  ASSUME NEW S, NEW T, NEW x, IsFiniteSet(S), T \subseteq S \cup {x}
  PROVE  IsFiniteSet(T) /\ Cardinality(T) \in Nat /\ Cardinality(S) \in Nat
         /\ Cardinality(T) <= Cardinality(S) + 1
<1>1. IsFiniteSet(S \cup {x}) /\ Cardinality(S) \in Nat
      /\ Cardinality(S \cup {x}) = IF x \in S THEN Cardinality(S) ELSE Cardinality(S) + 1
  BY FS_AddElement, FS_CardinalityType
<1>2. IsFiniteSet(T) /\ Cardinality(T) <= Cardinality(S \cup {x})
  BY <1>1, FS_Subset
<1>3. Cardinality(T) \in Nat
  BY <1>2, FS_CardinalityType
<1>4. QED BY <1>1, <1>2, <1>3

LEMMA GainsNone ==
  ASSUME NEW S, NEW T, IsFiniteSet(S), T \subseteq S
  PROVE  IsFiniteSet(T) /\ Cardinality(T) \in Nat /\ Cardinality(S) \in Nat
         /\ Cardinality(T) <= Cardinality(S)
BY FS_Subset, FS_CardinalityType

LEMMA LosesOne ==
  ASSUME NEW S, NEW T, NEW x, IsFiniteSet(S), x \in S, T \subseteq S \ {x}
  PROVE  IsFiniteSet(T) /\ Cardinality(T) \in Nat /\ Cardinality(S) \in Nat
         /\ Cardinality(T) + 1 <= Cardinality(S)
<1>1. IsFiniteSet(S \ {x}) /\ Cardinality(S) \in Nat /\ Cardinality(S \ {x}) = Cardinality(S) - 1
  BY FS_RemoveElement, FS_CardinalityType
<1>2. IsFiniteSet(T) /\ Cardinality(T) \in Nat /\ Cardinality(T) <= Cardinality(S \ {x})
  BY <1>1, GainsNone
<1>3. QED BY <1>1, <1>2

-----------------------------------------------------------------------------
(* The job runner                                                          *)

Cycle == [pc : {"out", "heartbeat", "stage", "release"}, stage : 0 .. 7,
          found : SUBSET Subscriptions, expired : SUBSET Subscriptions,
          failed : 0 .. 1, overtaken : BOOLEAN]

\* The cycles that will still name their failure in an alert.
ToTell == {r \in Runners : /\ runner[r].pc \in {"heartbeat", "stage"}
                           /\ runner[r].stage <= 6
                           /\ runner[r].failed = 1}

\* A cycle that has not been overtaken holds the lease; a failure that no alert has named is
\* that of a cycle still under way, or of one that did not come to its end.
RunnerInv ==
  /\ lease \in [owner : Runners \cup {Nobody}, stale : BOOLEAN]
  /\ runner \in [Runners -> Cycle]
  /\ subs \in [Subscriptions -> {"active", "lapsed", "charging", "CANCELED", "EXPIRED"}]
  /\ switchOff \subseteq Subscriptions
  /\ told \subseteq Subscriptions
  /\ failures \in 0 .. MaxFailures
  /\ alerted \in Nat
  /\ runnerFaults \in 0 .. RunnerFaults
  /\ \A r \in Runners :
       /\ runner[r].pc = "stage" => runner[r].stage \in 1 .. 6
       /\ runner[r].pc = "heartbeat" => runner[r].stage \in 1 .. 7
       /\ runner[r].pc # "out" /\ ~runner[r].overtaken => lease.owner = r
  /\ IsFiniteSet(ToTell) /\ alerted + Cardinality(ToTell) <= failures

LEMMA StageNames ==
  /\ Len(Stages) = 6
  /\ Stages[1] = "calendarAndPayments" /\ Stages[2] = "findExpiring" /\ Stages[3] = "expire"
  /\ Stages[4] = "work" /\ Stages[5] = "mailExpired" /\ Stages[6] = "alert"
BY DEF Stages

LEMMA RunnerInitially == RunnerInit => RunnerInv
<1> SUFFICES ASSUME RunnerInit PROVE RunnerInv
  OBVIOUS
<1>1. ToTell = {}
  BY DEF RunnerInit, ToTell, Out
<1>2. IsFiniteSet(ToTell) /\ Cardinality(ToTell) = 0
  BY <1>1, FS_EmptySet
<1>3. runner \in [Runners -> Cycle]
  BY DEF RunnerInit, Out, Cycle
<1>4. QED BY <1>2, <1>3, RunnerFaultsAssumption DEF RunnerInit, RunnerInv, Out

\* A cycle that begins.
LEMMA BegunType ==
  LET begun == [Out EXCEPT !.pc = "heartbeat", !.stage = 1] IN
  begun \in Cycle /\ begun.pc = "heartbeat" /\ begun.stage = 1 /\ begun.failed = 0 /\ ~begun.overtaken
<1> DEFINE begun == [Out EXCEPT !.pc = "heartbeat", !.stage = 1]
<1>1. Out \in Cycle
  BY DEF Out, Cycle
<1>2. [Out EXCEPT !.pc = "heartbeat"] \in Cycle
  BY <1>1 DEF Cycle
<1>3. ASSUME NEW c \in Cycle PROVE [c EXCEPT !.stage = 1] \in Cycle
  BY DEF Cycle
<1>4. [[Out EXCEPT !.pc = "heartbeat"] EXCEPT !.stage = 1] \in Cycle
  BY <1>2, <1>3
<1>5. begun \in Cycle
  BY <1>4
<1>6. begun.pc = "heartbeat" /\ begun.stage = 1 /\ begun.failed = 0 /\ ~begun.overtaken
  BY DEF Out
<1>7. QED BY <1>5, <1>6

\* The runners that change neither their place nor their failure are to tell as before.
LEMMA ToldByNobodyNew ==
  ASSUME RunnerInv, NEW r \in Runners, runner' \in [Runners -> Cycle],
         \A q \in Runners \ {r} : /\ runner'[q].pc = runner[q].pc /\ runner'[q].stage = runner[q].stage
                                  /\ runner'[q].failed = runner[q].failed,
         r \in ToTell' => r \in ToTell
  PROVE  IsFiniteSet(ToTell') /\ Cardinality(ToTell') \in Nat /\ Cardinality(ToTell) \in Nat
         /\ Cardinality(ToTell') <= Cardinality(ToTell)
<1>1. ToTell' \subseteq ToTell
  BY DEF ToTell
<1>2. QED BY <1>1, GainsNone DEF RunnerInv

\* What a stage leaves behind: the next heartbeat.
LEMMA DoneType ==
  ASSUME RunnerInv, NEW r \in Runners, NEW state \in Cycle, Done(r, state),
         runner[r].pc = "stage", state.stage = runner[r].stage, state.overtaken = runner[r].overtaken
  PROVE  /\ runner' \in [Runners -> Cycle]
         /\ \A q \in Runners \ {r} : runner'[q] = runner[q]
         /\ runner'[r].pc = "heartbeat" /\ runner'[r].stage = runner[r].stage + 1
         /\ runner'[r].overtaken = runner[r].overtaken /\ runner'[r].failed = state.failed
         /\ runner'[r].stage \in 1 .. 7
<1>1. runner[r].stage \in 1 .. 6
  BY DEF RunnerInv
<1> DEFINE done == [[state EXCEPT !.pc = "heartbeat"] EXCEPT !.stage = state.stage + 1]
<1>2. /\ done \in Cycle /\ done.pc = "heartbeat" /\ done.stage = runner[r].stage + 1
      /\ done.overtaken = state.overtaken /\ done.failed = state.failed
  <2>1. state.stage + 1 \in 0 .. 7
    BY <1>1
  <2>2. [state EXCEPT !.pc = "heartbeat"] \in Cycle
    BY DEF Cycle
  <2>3. QED BY <2>1, <2>2 DEF Cycle
<1>3. runner' = [runner EXCEPT ![r] = done]
  BY DEF Done
<1> HIDE DEF done
<1>4. QED BY <1>1, <1>2, <1>3 DEF RunnerInv

\* A stage that neither fails nor alerts.
LEMMA QuietStage ==
  ASSUME RunnerInv, NEW r \in Runners, NEW state \in Cycle, Done(r, state),
         runner[r].pc = "stage", state.stage = runner[r].stage, state.overtaken = runner[r].overtaken,
         state.failed = runner[r].failed,
         UNCHANGED <<lease, failures, alerted, runnerFaults>>,
         subs' \in [Subscriptions -> {"active", "lapsed", "charging", "CANCELED", "EXPIRED"}],
         switchOff' \subseteq Subscriptions, told' \subseteq Subscriptions
  PROVE  RunnerInv'
<1>1. /\ runner' \in [Runners -> Cycle]
      /\ \A q \in Runners \ {r} : runner'[q] = runner[q]
      /\ runner'[r].pc = "heartbeat" /\ runner'[r].stage = runner[r].stage + 1
      /\ runner'[r].overtaken = runner[r].overtaken /\ runner'[r].failed = runner[r].failed
      /\ runner'[r].stage \in 1 .. 7
  BY DoneType
<1>2. r \in ToTell' => r \in ToTell
  BY <1>1 DEF ToTell, RunnerInv, Cycle
<1>3. IsFiniteSet(ToTell') /\ Cardinality(ToTell') \in Nat /\ Cardinality(ToTell) \in Nat
      /\ Cardinality(ToTell') <= Cardinality(ToTell)
  BY <1>1, <1>2, ToldByNobodyNew
<1>4. alerted + Cardinality(ToTell') <= failures
  BY <1>3 DEF RunnerInv
<1>5. \A q \in Runners :
        /\ runner'[q].pc = "stage" => runner'[q].stage \in 1 .. 6
        /\ runner'[q].pc = "heartbeat" => runner'[q].stage \in 1 .. 7
        /\ runner'[q].pc # "out" /\ ~runner'[q].overtaken => lease'.owner = q
  BY <1>1 DEF RunnerInv
<1>6. QED BY <1>1, <1>3, <1>4, <1>5 DEF RunnerInv

LEMMA StageKeeps ==
  ASSUME RunnerInv, NEW r \in Runners, Stage(r)
  PROVE  RunnerInv'
<1>1. ASSUME CalendarAndPayments(r) PROVE RunnerInv'
  <2>1. PICK n \in 0 .. 1 : /\ failures + n <= MaxFailures
                            /\ failures' = failures + n
                            /\ Done(r, [runner[r] EXCEPT !.failed = n])
    BY <1>1 DEF CalendarAndPayments
  <2>2. [runner[r] EXCEPT !.failed = n] \in Cycle
    BY <2>1 DEF RunnerInv, Cycle
  <2>3. runner[r].pc = "stage" /\ runner[r] \in Cycle
    BY <1>1 DEF CalendarAndPayments, AtStage, RunnerInv
  <2>4. /\ runner' \in [Runners -> Cycle]
        /\ \A q \in Runners \ {r} : runner'[q] = runner[q]
        /\ runner'[r].pc = "heartbeat" /\ runner'[r].stage = runner[r].stage + 1
        /\ runner'[r].overtaken = runner[r].overtaken /\ runner'[r].failed = n
        /\ runner'[r].stage \in 1 .. 7
    BY <2>1, <2>2, <2>3, DoneType DEF Cycle
  <2>5. /\ IsFiniteSet(ToTell') /\ Cardinality(ToTell') \in Nat /\ Cardinality(ToTell) \in Nat
        /\ Cardinality(ToTell') <= Cardinality(ToTell) + n
    <3>1. CASE n = 0
      <4>1. r \notin ToTell'
        BY <2>4, <3>1 DEF ToTell
      <4>2. QED BY <4>1, <2>4, <3>1, ToldByNobodyNew
    <3>2. CASE n = 1
      <4>1. ToTell' \subseteq ToTell \cup {r}
        BY <2>4 DEF ToTell
      <4>2. QED BY <4>1, <3>2, GainsOne DEF RunnerInv
    <3>3. QED BY <3>1, <3>2
  <2>6. alerted + Cardinality(ToTell') <= failures'
    BY <2>1, <2>5 DEF RunnerInv
  <2>7. UNCHANGED <<lease, subs, switchOff, told, alerted, runnerFaults>>
    BY <1>1 DEF CalendarAndPayments
  <2>8. failures' \in 0 .. MaxFailures
    BY <2>1, RunnerFaultsAssumption DEF RunnerInv
  <2>9. \A q \in Runners :
          /\ runner'[q].pc = "stage" => runner'[q].stage \in 1 .. 6
          /\ runner'[q].pc = "heartbeat" => runner'[q].stage \in 1 .. 7
          /\ runner'[q].pc # "out" /\ ~runner'[q].overtaken => lease'.owner = q
    BY <2>3, <2>4, <2>7 DEF RunnerInv
  <2>10. QED BY <2>4, <2>5, <2>6, <2>7, <2>8, <2>9 DEF RunnerInv
<1>2. ASSUME Work(r) PROVE RunnerInv'
  <2>1. runner[r] \in Cycle
    BY DEF RunnerInv
  <2>2. QED BY <1>2, <2>1, QuietStage DEF Work, AtStage, RunnerInv
<1>3. ASSUME FindExpiring(r) PROVE RunnerInv'
  <2>1. PICK spared \in SUBSET {s \in Subscriptions : subs[s] = "charging"} :
          Done(r, [runner[r] EXCEPT !.found =
                    {s \in Subscriptions : subs[s] \in {"lapsed", "charging"}} \ spared])
    BY <1>3 DEF FindExpiring
  <2> DEFINE state == [runner[r] EXCEPT !.found =
                        {s \in Subscriptions : subs[s] \in {"lapsed", "charging"}} \ spared]
  <2>2. /\ state \in Cycle /\ state.stage = runner[r].stage
        /\ state.overtaken = runner[r].overtaken /\ state.failed = runner[r].failed
    BY DEF RunnerInv, Cycle
  <2>3. QED BY <1>3, <2>1, <2>2, QuietStage DEF FindExpiring, AtStage, RunnerInv
<1>4. ASSUME Expire(r) PROVE RunnerInv'
  <2> DEFINE state == [runner[r] EXCEPT !.expired = StillOver(r)]
  <2>1. StillOver(r) \subseteq Subscriptions
    BY DEF StillOver, RunnerInv, Cycle
  <2>2. /\ state \in Cycle /\ state.stage = runner[r].stage
        /\ state.overtaken = runner[r].overtaken /\ state.failed = runner[r].failed
    BY <2>1 DEF RunnerInv, Cycle
  <2>3. subs' \in [Subscriptions -> {"active", "lapsed", "charging", "CANCELED", "EXPIRED"}]
    BY <1>4 DEF Expire, RunnerInv
  <2>4. switchOff' \subseteq Subscriptions /\ told' \subseteq Subscriptions
    BY <1>4, <2>1 DEF Expire, RunnerInv
  <2>5. QED BY <1>4, <2>2, <2>3, <2>4, QuietStage DEF Expire, AtStage
<1>5. ASSUME MailExpired(r) PROVE RunnerInv'
  <2>1. runner[r] \in Cycle
    BY DEF RunnerInv
  <2>2. told' \subseteq Subscriptions
    BY <1>5, <2>1 DEF MailExpired, RunnerInv, Cycle
  <2>3. QED BY <1>5, <2>1, <2>2, QuietStage DEF MailExpired, AtStage, RunnerInv
<1>6. ASSUME Alert(r) PROVE RunnerInv'
  <2>1. runner[r] \in Cycle /\ runner[r].pc = "stage" /\ runner[r].stage = 6
    BY <1>6, StageNames DEF Alert, AtStage, StageOf, RunnerInv
  <2>2. /\ runner' \in [Runners -> Cycle]
        /\ \A q \in Runners \ {r} : runner'[q] = runner[q]
        /\ runner'[r].pc = "heartbeat" /\ runner'[r].stage = 7
        /\ runner'[r].overtaken = runner[r].overtaken
    BY <1>6, <2>1, DoneType DEF Alert
  <2>3. /\ IsFiniteSet(ToTell') /\ Cardinality(ToTell') \in Nat /\ Cardinality(ToTell) \in Nat
        /\ Cardinality(ToTell') + runner[r].failed <= Cardinality(ToTell)
    <3>1. ToTell' \subseteq ToTell \ {r}
      BY <2>2 DEF ToTell
    <3>2. CASE runner[r].failed = 1
      <4>1. r \in ToTell
        BY <2>1, <3>2 DEF ToTell
      <4>2. QED BY <3>1, <3>2, <4>1, LosesOne DEF RunnerInv
    <3>3. CASE runner[r].failed = 0
      <4>1. ToTell' \subseteq ToTell
        BY <3>1
      <4>2. QED BY <4>1, <3>3, GainsNone DEF RunnerInv
    <3>4. QED BY <2>1, <3>2, <3>3 DEF Cycle
  <2>4. alerted' = alerted + runner[r].failed /\ UNCHANGED <<lease, subs, switchOff, told, failures, runnerFaults>>
    BY <1>6 DEF Alert
  <2>5. alerted' \in Nat /\ alerted' + Cardinality(ToTell') <= failures'
    BY <2>1, <2>3, <2>4 DEF RunnerInv, Cycle
  <2>6. \A q \in Runners :
          /\ runner'[q].pc = "stage" => runner'[q].stage \in 1 .. 6
          /\ runner'[q].pc = "heartbeat" => runner'[q].stage \in 1 .. 7
          /\ runner'[q].pc # "out" /\ ~runner'[q].overtaken => lease'.owner = q
    BY <2>1, <2>2, <2>4 DEF RunnerInv
  <2>7. QED BY <2>2, <2>3, <2>4, <2>5, <2>6 DEF RunnerInv
<1>7. QED BY <1>1, <1>2, <1>3, <1>4, <1>5, <1>6 DEF Stage

\* What happens to one runner outside its stages tells nothing new.
LEMMA RunnerFrame ==
  ASSUME RunnerInv, NEW r \in Runners, runner' \in [Runners -> Cycle],
         \A q \in Runners \ {r} : /\ runner'[q].pc = runner[q].pc /\ runner'[q].stage = runner[q].stage
                                  /\ runner'[q].failed = runner[q].failed,
         r \in ToTell' => r \in ToTell,
         UNCHANGED <<subs, switchOff, told, failures, alerted>>,
         runnerFaults' \in 0 .. RunnerFaults,
         lease' \in [owner : Runners \cup {Nobody}, stale : BOOLEAN],
         \A q \in Runners :
           /\ runner'[q].pc = "stage" => runner'[q].stage \in 1 .. 6
           /\ runner'[q].pc = "heartbeat" => runner'[q].stage \in 1 .. 7
           /\ runner'[q].pc # "out" /\ ~runner'[q].overtaken => lease'.owner = q
  PROVE  RunnerInv'
<1>1. IsFiniteSet(ToTell') /\ Cardinality(ToTell') \in Nat /\ Cardinality(ToTell) \in Nat
      /\ Cardinality(ToTell') <= Cardinality(ToTell)
  BY ToldByNobodyNew
<1>2. alerted + Cardinality(ToTell') <= failures
  BY <1>1 DEF RunnerInv
<1>3. QED BY <1>1, <1>2 DEF RunnerInv

LEMMA LeaseKeeps ==
  ASSUME RunnerInv, NEW r \in Runners,
         AcquireRunnerLease(r) \/ HeartbeatRunnerLease(r) \/ ReleaseRunnerLease(r)
  PROVE  RunnerInv'
<1>1. ASSUME AcquireRunnerLease(r) PROVE RunnerInv'
  <2>1. lease' = [owner |-> r, stale |-> FALSE] /\ UNCHANGED <<subs, switchOff, told, failures, alerted, runnerFaults>>
    BY <1>1 DEF AcquireRunnerLease
  <2> DEFINE begun == [Out EXCEPT !.pc = "heartbeat", !.stage = 1]
  <2>a. /\ begun \in Cycle /\ begun.pc = "heartbeat" /\ begun.stage = 1 /\ begun.failed = 0
        /\ ~begun.overtaken
    BY BegunType
  <2>b. ASSUME NEW q \in Runners
        PROVE  /\ [runner[q] EXCEPT !.overtaken = TRUE] \in Cycle
               /\ [runner[q] EXCEPT !.overtaken = TRUE].overtaken
               /\ [runner[q] EXCEPT !.overtaken = TRUE].pc = runner[q].pc
               /\ [runner[q] EXCEPT !.overtaken = TRUE].stage = runner[q].stage
               /\ [runner[q] EXCEPT !.overtaken = TRUE].failed = runner[q].failed
    <3>1. runner[q] \in Cycle
      BY DEF RunnerInv
    <3>2. QED BY <3>1 DEF Cycle
  <2>c. runner' = [q \in Runners |-> IF q = r THEN begun
                     ELSE IF q = lease.owner THEN [runner[q] EXCEPT !.overtaken = TRUE] ELSE runner[q]]
    BY <1>1 DEF AcquireRunnerLease
  <2> HIDE DEF begun
  <2>2. runner' \in [Runners -> Cycle]
    BY <2>a, <2>b, <2>c DEF RunnerInv
  <2>3. /\ runner'[r] = begun
        /\ \A q \in Runners \ {r} :
             runner'[q] = IF q = lease.owner THEN [runner[q] EXCEPT !.overtaken = TRUE] ELSE runner[q]
    BY <2>c
  <2>4. \A q \in Runners \ {r} : /\ runner'[q].pc = runner[q].pc /\ runner'[q].stage = runner[q].stage
                                 /\ runner'[q].failed = runner[q].failed
                                 /\ ~runner'[q].overtaken => q # lease.owner /\ ~runner[q].overtaken
    BY <2>3, <2>b
  <2>5. r \notin ToTell'
    BY <2>a, <2>3 DEF ToTell
  <2>6. \A q \in Runners :
          /\ runner'[q].pc = "stage" => runner'[q].stage \in 1 .. 6
          /\ runner'[q].pc = "heartbeat" => runner'[q].stage \in 1 .. 7
          /\ runner'[q].pc # "out" /\ ~runner'[q].overtaken => lease'.owner = q
    BY <2>1, <2>3, <2>4, <2>a DEF RunnerInv
  <2>7. QED BY <2>1, <2>2, <2>4, <2>5, <2>6, RunnerFrame DEF RunnerInv
<1>2. ASSUME HeartbeatRunnerLease(r) PROVE RunnerInv'
  <2>1. /\ runner[r].pc = "heartbeat"
        /\ \/ /\ OwnsLease(r) /\ lease' = [lease EXCEPT !.stale = FALSE]
              /\ runner' = [runner EXCEPT ![r].pc = IF runner[r].stage > Len(Stages) THEN "release" ELSE "stage"]
           \/ /\ lease' = lease
              /\ runner' = [runner EXCEPT ![r].pc = "release"]
        /\ UNCHANGED <<subs, switchOff, told, failures, alerted, runnerFaults>>
    BY <1>2 DEF HeartbeatRunnerLease
  <2>2. PICK pc \in {"release", "stage"} : /\ runner' = [runner EXCEPT ![r].pc = pc]
                                           /\ pc = "stage" => runner[r].stage <= 6
    BY <2>1, StageNames DEF RunnerInv, Cycle
  <2>3. /\ runner' \in [Runners -> Cycle] /\ runner'[r].pc = pc /\ runner'[r].stage = runner[r].stage
        /\ runner'[r].failed = runner[r].failed /\ runner'[r].overtaken = runner[r].overtaken
        /\ \A q \in Runners \ {r} : runner'[q] = runner[q]
    BY <2>2 DEF RunnerInv, Cycle
  <2>4. lease' \in [owner : Runners \cup {Nobody}, stale : BOOLEAN] /\ lease'.owner = lease.owner
    BY <2>1 DEF RunnerInv
  <2>5. r \in ToTell' => r \in ToTell
    BY <2>1, <2>3 DEF ToTell
  <2>7. \A q \in Runners :
          /\ runner'[q].pc = "stage" => runner'[q].stage \in 1 .. 6
          /\ runner'[q].pc = "heartbeat" => runner'[q].stage \in 1 .. 7
          /\ runner'[q].pc # "out" /\ ~runner'[q].overtaken => lease'.owner = q
    BY <2>1, <2>2, <2>3, <2>4 DEF RunnerInv
  <2>8. QED BY <2>1, <2>3, <2>4, <2>5, <2>7, RunnerFrame DEF RunnerInv
<1>3. ASSUME ReleaseRunnerLease(r) PROVE RunnerInv'
  <2>1. /\ lease' = IF OwnsLease(r) THEN [owner |-> Nobody, stale |-> FALSE] ELSE lease
        /\ runner' = [runner EXCEPT ![r] = Out]
        /\ UNCHANGED <<subs, switchOff, told, failures, alerted, runnerFaults>>
    BY <1>3 DEF ReleaseRunnerLease
  <2>2. runner' \in [Runners -> Cycle] /\ runner'[r] = Out /\ \A q \in Runners \ {r} : runner'[q] = runner[q]
    BY <2>1 DEF RunnerInv, Cycle, Out
  <2>3. lease' \in [owner : Runners \cup {Nobody}, stale : BOOLEAN]
    BY <2>1 DEF RunnerInv
  <2>4. r \notin ToTell'
    BY <2>2 DEF ToTell, Out
  <2>5. \A q \in Runners :
          /\ runner'[q].pc = "stage" => runner'[q].stage \in 1 .. 6
          /\ runner'[q].pc = "heartbeat" => runner'[q].stage \in 1 .. 7
          /\ runner'[q].pc # "out" /\ ~runner'[q].overtaken => lease'.owner = q
    BY <2>1, <2>2 DEF RunnerInv, OwnsLease, Out
  <2>6. QED BY <2>1, <2>2, <2>3, <2>4, <2>5, RunnerFrame DEF RunnerInv
<1>4. QED BY <1>1, <1>2, <1>3

LEMMA MishapKeeps ==
  ASSUME RunnerInv, NEW r \in Runners, Throws(r) \/ Crash(r)
  PROVE  RunnerInv'
<1>1. /\ \/ runner' = [runner EXCEPT ![r].pc = "release"] /\ runner[r].pc = "stage"
         \/ runner' = [runner EXCEPT ![r] = Out]
      /\ UNCHANGED <<lease, subs, switchOff, told, failures, alerted>>
      /\ runnerFaults' \in 0 .. RunnerFaults
  BY RunnerFaultsAssumption DEF Throws, Crash, RunnerInv
<1>2. /\ runner' \in [Runners -> Cycle] /\ \A q \in Runners \ {r} : runner'[q] = runner[q]
      /\ runner'[r].pc \in {"release", "out"}
      /\ runner'[r].pc = "release" => runner'[r].overtaken = runner[r].overtaken /\ runner[r].pc = "stage"
  <2>1. Out \in Cycle /\ Out.pc = "out"
    BY DEF Cycle, Out
  <2>2. CASE runner' = [runner EXCEPT ![r].pc = "release"] /\ runner[r].pc = "stage"
    BY <2>2 DEF RunnerInv, Cycle
  <2>3. CASE runner' = [runner EXCEPT ![r] = Out]
    BY <2>1, <2>3 DEF RunnerInv
  <2>4. QED BY <1>1, <2>2, <2>3
<1>3. r \notin ToTell'
  BY <1>2 DEF ToTell
<1>4. \A q \in Runners :
        /\ runner'[q].pc = "stage" => runner'[q].stage \in 1 .. 6
        /\ runner'[q].pc = "heartbeat" => runner'[q].stage \in 1 .. 7
        /\ runner'[q].pc # "out" /\ ~runner'[q].overtaken => lease'.owner = q
  BY <1>1, <1>2 DEF RunnerInv
<1>5. QED BY <1>1, <1>2, <1>3, <1>4, RunnerFrame DEF RunnerInv

\* Every step of the runners and of the world around them.
LEMMA RunnerStepKeeps ==
  ASSUME RunnerInv, [RunnerNext]_runnerVars
  PROVE  RunnerInv'
<1>1. ASSUME NEW r \in Runners, RunnerStep(r) \/ Throws(r) \/ Crash(r) PROVE RunnerInv'
  BY <1>1, StageKeeps, LeaseKeeps, MishapKeeps DEF RunnerStep
<1>2. ASSUME UNCHANGED runner, UNCHANGED <<told, failures, alerted>>, switchOff' \subseteq Subscriptions,
             lease' \in [owner : Runners \cup {Nobody}, stale : BOOLEAN], lease'.owner = lease.owner,
             subs' \in [Subscriptions -> {"active", "lapsed", "charging", "CANCELED", "EXPIRED"}],
             runnerFaults' \in 0 .. RunnerFaults
      PROVE RunnerInv'
  <2>1. ToTell' = ToTell
    BY <1>2 DEF ToTell
  <2>2. QED BY <1>2, <2>1 DEF RunnerInv
<1>3. ASSUME LeaseOutlives \/ OwnerIsStuck PROVE RunnerInv'
  <2>1. /\ lease' = [lease EXCEPT !.stale = TRUE]
        /\ UNCHANGED <<runner, subs, switchOff, told, failures, alerted>>
        /\ runnerFaults' \in 0 .. RunnerFaults
    BY <1>3, RunnerFaultsAssumption DEF LeaseOutlives, OwnerIsStuck, RunnerInv
  <2>2. lease' \in [owner : Runners \cup {Nobody}, stale : BOOLEAN] /\ lease'.owner = lease.owner
    BY <2>1 DEF RunnerInv
  <2>3. QED BY <2>1, <2>2, <1>2 DEF RunnerInv
<1>4. ASSUME NEW s \in Subscriptions, Lapse(s) \/ Settle(s) \/ Cancel(s) PROVE RunnerInv'
  <2>1. UNCHANGED <<lease, runner, told, failures, alerted, runnerFaults>>
        /\ switchOff' \subseteq Subscriptions
    BY <1>4 DEF Lapse, Settle, Cancel, RunnerInv
  <2>2. subs' \in [Subscriptions -> {"active", "lapsed", "charging", "CANCELED", "EXPIRED"}]
    BY <1>4 DEF Lapse, Settle, Cancel, RunnerInv
  <2>3. QED BY <2>1, <2>2, <1>2 DEF RunnerInv
<1>5. ASSUME UNCHANGED runnerVars PROVE RunnerInv'
  BY <1>5, <1>2 DEF runnerVars, RunnerInv
<1>6. QED BY <1>1, <1>3, <1>4, <1>5 DEF RunnerNext

LEMMA RunnerInvariance == RunnerSpec => []RunnerInv
BY RunnerInitially, RunnerStepKeeps, PTL DEF RunnerSpec

\* However many calls of the endpoint there are: two cycles are under way at once only where one
\* was stuck and has been overtaken, and no failure is named in more alerts than it happened.
THEOREM CyclesExclude == RunnerSpec => []OneCycle
<1>1. RunnerInv => OneCycle
  <2> SUFFICES ASSUME RunnerInv PROVE OneCycle
    OBVIOUS
  <2>1. Cardinality(ToTell) \in Nat
    BY FS_CardinalityType DEF RunnerInv
  <2>2. alerted \in 0 .. failures
    BY <2>1 DEF RunnerInv
  <2>3. RunnerTypeOK
    BY <2>2, StageNames DEF RunnerInv, RunnerTypeOK, Cycle
  <2>4. \A r, q \in InCycle : r # q => runner[r].overtaken \/ runner[q].overtaken
    BY DEF RunnerInv, InCycle
  <2>5. QED BY <2>3, <2>4 DEF OneCycle
<1>2. QED BY <1>1, RunnerInvariance, PTL

\* The subscriptions a cycle will mail about, and those it has mailed about, have run out.
MailedHaveExpired ==
  /\ \A s \in told : subs[s] = "EXPIRED"
  /\ \A r \in Runners : \A s \in runner[r].expired : subs[s] = "EXPIRED"

\* What has ended stays as it ended.
LEMMA EndIsKept ==
  ASSUME RunnerInv, [RunnerNext]_runnerVars,
         NEW s \in Subscriptions, subs[s] \in {"CANCELED", "EXPIRED"}
  PROVE  subs'[s] = subs[s]
<1>1. ASSUME NEW r \in Runners, Expire(r) PROVE subs'[s] = subs[s]
  BY <1>1 DEF Expire, StillOver
<1>2. ASSUME NEW q \in Subscriptions, Lapse(q) \/ Settle(q) \/ Cancel(q) PROVE subs'[s] = subs[s]
  BY <1>2 DEF Lapse, Settle, Cancel, RunnerInv
<1>3. ASSUME NEW r \in Runners, RunnerStep(r) \/ Throws(r) \/ Crash(r), ~Expire(r)
      PROVE  subs' = subs
  BY <1>3 DEF RunnerStep, Stage, AcquireRunnerLease, HeartbeatRunnerLease,
     ReleaseRunnerLease, CalendarAndPayments, Work, FindExpiring, MailExpired, Alert, Throws, Crash
<1>4. QED BY <1>1, <1>2, <1>3 DEF RunnerNext, LeaseOutlives, OwnerIsStuck, runnerVars

LEMMA MailedStepKeeps ==
  ASSUME RunnerInv, MailedHaveExpired, [RunnerNext]_runnerVars
  PROVE  MailedHaveExpired'
<1>1. ASSUME told' \subseteq told \cup {s \in Subscriptions : subs'[s] = "EXPIRED"},
             \A r \in Runners : runner'[r].expired
                \subseteq runner[r].expired \cup {s \in Subscriptions : subs'[s] = "EXPIRED"}
      PROVE  MailedHaveExpired'
  <2>1. told \subseteq Subscriptions /\ \A r \in Runners : runner[r].expired \subseteq Subscriptions
    BY DEF RunnerInv, Cycle
  <2>2. QED BY <1>1, <2>1, EndIsKept DEF MailedHaveExpired
<1>2. ASSUME NEW r \in Runners, Expire(r) PROVE MailedHaveExpired'
  <2>1. StillOver(r) \subseteq Subscriptions
    BY DEF StillOver, RunnerInv, Cycle
  <2>2. \A s \in StillOver(r) : subs'[s] = "EXPIRED"
    BY <1>2, <2>1 DEF Expire
  <2>3. \A q \in Runners : runner'[q].expired = IF q = r THEN StillOver(r) ELSE runner[q].expired
    BY <1>2 DEF Expire, Done, RunnerInv, Cycle
  <2>4. told' = told
    BY <1>2 DEF Expire
  <2>5. QED BY <1>1, <2>1, <2>2, <2>3, <2>4
<1>3. ASSUME NEW r \in Runners, MailExpired(r) PROVE MailedHaveExpired'
  <2>1. told' = told \cup runner[r].expired
    BY <1>3 DEF MailExpired
  <2>2. \A q \in Runners : runner'[q].expired = runner[q].expired
    BY <1>3 DEF MailExpired, Done, RunnerInv, Cycle
  <2>3. runner[r].expired \subseteq {s \in Subscriptions : subs'[s] = "EXPIRED"}
    BY <1>3, EndIsKept DEF MailExpired, MailedHaveExpired, RunnerInv, Cycle
  <2>4. QED BY <1>1, <2>1, <2>2, <2>3
<1>4. ASSUME NEW r \in Runners, RunnerStep(r) \/ Throws(r) \/ Crash(r), ~Expire(r), ~MailExpired(r)
      PROVE  MailedHaveExpired'
  <2>1. told' = told
    BY <1>4 DEF RunnerStep, Stage, AcquireRunnerLease, HeartbeatRunnerLease,
       ReleaseRunnerLease, CalendarAndPayments, Work, FindExpiring, Alert, Throws, Crash
  <2>2. \A q \in Runners : runner'[q].expired \subseteq runner[q].expired
    <3>1. ASSUME Stage(r) PROVE \A q \in Runners : runner'[q].expired \subseteq runner[q].expired
      <4>1. ASSUME NEW state \in Cycle, Done(r, state), state.expired = runner[r].expired
            PROVE  \A q \in Runners : runner'[q].expired \subseteq runner[q].expired
        BY <4>1 DEF Done, RunnerInv, Cycle
      <4>2. runner[r] \in Cycle
        BY DEF RunnerInv
      <4>3. CASE CalendarAndPayments(r)
        <5>1. PICK n \in 0 .. 1 : Done(r, [runner[r] EXCEPT !.failed = n])
          BY <4>3 DEF CalendarAndPayments
        <5>2. [runner[r] EXCEPT !.failed = n] \in Cycle
              /\ [runner[r] EXCEPT !.failed = n].expired = runner[r].expired
          BY <4>2 DEF Cycle
        <5>3. QED BY <5>1, <5>2, <4>1
      <4>4. CASE FindExpiring(r)
        <5>1. PICK spared \in SUBSET {s \in Subscriptions : subs[s] = "charging"} :
                Done(r, [runner[r] EXCEPT !.found =
                          {s \in Subscriptions : subs[s] \in {"lapsed", "charging"}} \ spared])
          BY <4>4 DEF FindExpiring
        <5> DEFINE state == [runner[r] EXCEPT !.found =
                              {s \in Subscriptions : subs[s] \in {"lapsed", "charging"}} \ spared]
        <5>2. state \in Cycle /\ state.expired = runner[r].expired
          BY <4>2 DEF Cycle
        <5>3. QED BY <5>1, <5>2, <4>1
      <4>5. CASE Work(r) \/ Alert(r)
        BY <4>1, <4>2, <4>5 DEF Work, Alert
      <4>6. QED BY <1>4, <3>1, <4>3, <4>4, <4>5 DEF Stage
    <3>2. ASSUME AcquireRunnerLease(r)
          PROVE  \A q \in Runners : runner'[q].expired \subseteq runner[q].expired
      BY <3>2 DEF AcquireRunnerLease, Out, RunnerInv, Cycle
    <3>3. ASSUME HeartbeatRunnerLease(r) \/ ReleaseRunnerLease(r) \/ Throws(r) \/ Crash(r)
          PROVE  \A q \in Runners : runner'[q].expired \subseteq runner[q].expired
      BY <3>3 DEF HeartbeatRunnerLease, ReleaseRunnerLease, Throws, Crash, Out, RunnerInv, Cycle
    <3>4. QED BY <1>4, <3>1, <3>2, <3>3 DEF RunnerStep
  <2>3. QED BY <1>1, <2>1, <2>2
<1>5. ASSUME UNCHANGED <<runner, told>> PROVE MailedHaveExpired'
  BY <1>1, <1>5
<1>6. QED BY <1>2, <1>3, <1>4, <1>5 DEF RunnerNext, LeaseOutlives, OwnerIsStuck, Lapse, Settle, Cancel, runnerVars

LEMMA MailedInvariance == RunnerSpec => []MailedHaveExpired
<1>1. RunnerInit => MailedHaveExpired
  BY DEF RunnerInit, MailedHaveExpired, Out
<1>2. RunnerInv /\ MailedHaveExpired /\ [RunnerNext]_runnerVars => MailedHaveExpired'
  BY MailedStepKeeps
<1>3. QED BY <1>1, <1>2, RunnerInvariance, PTL DEF RunnerSpec

\* The search and the transaction of a cycle, and the mails at its end, may be any number of
\* steps of others apart: a subscription canceled in between is neither expired nor written to.
THEOREM CancellationStays == RunnerSpec => CanceledIsKept
<1>1. ASSUME RunnerInv, MailedHaveExpired, MailedHaveExpired', [RunnerNext]_runnerVars,
             NEW s \in Subscriptions, subs[s] = "CANCELED"
      PROVE  subs'[s] = "CANCELED" /\ s \notin told'
  BY <1>1, EndIsKept DEF MailedHaveExpired
<1>2. RunnerInv /\ MailedHaveExpired /\ MailedHaveExpired' /\ [RunnerNext]_runnerVars
        => [\A s \in Subscriptions :
              subs[s] = "CANCELED" => subs'[s] = "CANCELED" /\ s \notin told']_runnerVars
  BY <1>1
<1>3. QED BY <1>2, RunnerInvariance, MailedInvariance, PTL DEF RunnerSpec, CanceledIsKept

-----------------------------------------------------------------------------
(* The email outbox                                                        *)

Row == [status : MailStatus \cup {"ABSENT"}, attempts : Nat, redacted : BOOLEAN]
Sending == [pc : {"claim", "send", "sent", "failed"}, key : Messages, attempts : Nat, redacted : BOOLEAN]

\* Runs that may still deliver a message: now, or by leaving it to another run.
AtWork(k) == {m \in Mailers : mailer[m].pc \in {"send", "failed"} /\ mailer[m].key = k}

\* A message that waits for the next run, which is also what a run that died has left.
Waiting(k) ==
  IF outbox[k].status = "PENDING" \/ (outbox[k].status = "RUNNING" /\ ~Held(k)) THEN 1 ELSE 0

\* Copies delivered and copies to come: one, and one for each fault.
Accounted(k) ==
  /\ outbox[k].status = "ABSENT" => deliveries[k] = 0 /\ ~Held(k)
  /\ outbox[k].status = "SUCCEEDED" => deliveries[k] > 0
  /\ \A m \in Mailers : mailer[m].pc = "sent" /\ mailer[m].key = k => deliveries[k] > 0
  /\ deliveries[k] + Cardinality(AtWork(k)) + Waiting(k) <= 1 + mailFaults

MailRows ==
  /\ outbox \in [Messages -> Row]
  /\ mailer \in [Mailers -> {Resting} \cup Sending]
  /\ deliveries \in [Messages -> Nat]
  /\ blank \subseteq Messages
  /\ mailFaults \in 0 .. MailFaults

MailInv == MailRows /\ \A k \in Messages : Accounted(k)

LEMMA RestingRests == Resting.pc = "idle" /\ Resting \notin Sending
<1>1. Resting.pc = "idle"
  BY DEF Resting
<1>2. QED BY <1>1 DEF Sending

LEMMA AtWorkFinite ==
  ASSUME NEW k
  PROVE  IsFiniteSet(AtWork(k)) /\ Cardinality(AtWork(k)) \in Nat
<1>1. AtWork(k) \subseteq Mailers
  BY DEF AtWork
<1>2. QED BY <1>1, MessagesAssumption, FS_Subset, FS_CardinalityType

\* The key a run holds.
LEMMA Holding ==
  ASSUME MailRows, NEW m \in Mailers, mailer[m].pc # "idle"
  PROVE  mailer[m] \in Sending /\ mailer[m].key \in Messages
BY RestingRests DEF MailRows, Sending

\* A message whose row and deliveries stay as they are, and for which no run begins to work.
LEMMA OtherMessage ==
  ASSUME MailRows, NEW k \in Messages, Accounted(k), outbox'[k] = outbox[k],
         deliveries'[k] = deliveries[k], mailFaults' \in Nat, mailFaults' >= mailFaults,
         AtWork(k)' \subseteq AtWork(k), Held(k)' <=> Held(k),
         \A m \in Mailers : mailer'[m].pc = "sent" /\ mailer'[m].key = k
                              => mailer[m].pc = "sent" /\ mailer[m].key = k
  PROVE  Accounted(k)'
<1>1. Waiting(k)' = Waiting(k)
  BY DEF Waiting
<1>2. Cardinality(AtWork(k)') \in Nat /\ Cardinality(AtWork(k)') <= Cardinality(AtWork(k))
      /\ Cardinality(AtWork(k)) \in Nat
  BY AtWorkFinite, GainsNone
<1>3. Waiting(k) \in {0, 1} /\ deliveries[k] \in Nat /\ mailFaults \in Nat
  BY MailFaultsAssumption DEF Waiting, MailRows
<1>4. deliveries'[k] + Cardinality(AtWork(k)') + Waiting(k)' <= 1 + mailFaults'
  BY <1>1, <1>2, <1>3 DEF Accounted
<1>5. QED BY <1>4 DEF Accounted

\* What one run does is nothing to the messages it does not hold.
LEMMA OtherRun ==
  ASSUME MailInv, NEW m \in Mailers, NEW k \in Messages,
         \A n \in Mailers \ {m} : mailer'[n] = mailer[n],
         mailer[m].pc # "idle" => mailer[m].key # k,
         mailer'[m].pc \in {"send", "sent", "failed"} => mailer'[m].key # k,
         outbox'[k] = outbox[k], deliveries'[k] = deliveries[k],
         mailFaults' \in Nat, mailFaults' >= mailFaults
  PROVE  Accounted(k)'
<1>1. AtWork(k)' \subseteq AtWork(k)
  BY DEF AtWork
<1>2. Held(k)' <=> Held(k)
  BY DEF Held
<1>3. QED BY <1>1, <1>2, OtherMessage DEF MailInv

LEMMA MailInitially == MailInit => MailInv
<1> SUFFICES ASSUME MailInit PROVE MailInv
  OBVIOUS
<1>1. MailRows
  BY MailFaultsAssumption DEF MailInit, MailRows, NoMail, Row
<1>2. ASSUME NEW k \in Messages PROVE Accounted(k)
  <2>1. AtWork(k) = {} /\ ~Held(k)
    BY RestingRests DEF MailInit, AtWork, Held
  <2>2. outbox[k].status = "ABSENT" /\ deliveries[k] = 0 /\ mailFaults = 0
    BY DEF MailInit, NoMail
  <2>3. Cardinality(AtWork(k)) = 0 /\ Waiting(k) = 0
    BY <2>1, <2>2, FS_EmptySet DEF Waiting
  <2>4. QED BY <2>1, <2>2, <2>3, RestingRests DEF Accounted, MailInit
<1>3. QED BY <1>1, <1>2 DEF MailInv

\* Rows of the outbox: a new one, and those whose claim is too old.
LEMMA QueueKeeps ==
  ASSUME MailInv, NEW k \in Messages, QueueEmail(k)
  PROVE  MailInv'
<1>1. /\ outbox' \in [Messages -> Row] /\ outbox[k].status = "ABSENT" /\ outbox'[k].status = "PENDING"
      /\ \A j \in Messages \ {k} : outbox'[j] = outbox[j]
      /\ UNCHANGED <<mailer, deliveries, blank, mailFaults>>
  <2>1. Queued \in Row /\ Queued.status = "PENDING"
    BY DEF Queued, NoMail, Row, MailStatus
  <2>2. QED BY <2>1 DEF QueueEmail, WithQueued, MailInv, MailRows
<1>2. MailRows'
  BY <1>1 DEF MailInv, MailRows
<1>3. ASSUME NEW j \in Messages \ {k} PROVE Accounted(j)'
  BY <1>1, OtherMessage, MailFaultsAssumption DEF MailInv, MailRows, AtWork, Held
<1>4. Accounted(k)'
  <2>1. deliveries[k] = 0 /\ ~Held(k) /\ AtWork(k)' = {}
    BY <1>1 DEF MailInv, Accounted, Held, AtWork
  <2>2. Cardinality(AtWork(k)') = 0 /\ Waiting(k)' = 1
    BY <1>1, <2>1, FS_EmptySet DEF Waiting
  <2>3. mailFaults \in Nat
    BY MailFaultsAssumption DEF MailInv, MailRows
  <2>4. QED BY <1>1, <2>1, <2>2, <2>3 DEF Accounted, Held
<1>5. QED BY <1>2, <1>3, <1>4 DEF MailInv

LEMMA RecoverKeeps ==
  ASSUME MailInv, RecoverMail
  PROVE  MailInv'
<1> DEFINE stale == {k \in Messages : Stale(k)}
           slow == {k \in Messages : outbox[k].status = "RUNNING" /\ Held(k)}
<1>1. PICK late \in SUBSET slow :
        /\ mailFaults + Cardinality(late) <= MailFaults
        /\ mailFaults' = mailFaults + Cardinality(late)
        /\ outbox' = [k \in Messages |-> IF k \in stale \cup late THEN Recovered(outbox[k]) ELSE outbox[k]]
        /\ UNCHANGED <<mailer, deliveries, blank>>
  BY DEF RecoverMail
<1>2. IsFiniteSet(late) /\ Cardinality(late) \in Nat
  <2>1. late \subseteq Messages
    OBVIOUS
  <2>2. QED BY <2>1, MessagesAssumption, FS_Subset, FS_CardinalityType
<1>3. mailFaults' \in 0 .. MailFaults /\ mailFaults' >= mailFaults /\ mailFaults \in Nat
  BY <1>1, <1>2, MailFaultsAssumption DEF MailInv, MailRows
<1>4. ASSUME NEW k \in Messages
      PROVE  Recovered(outbox[k]) \in Row /\ Recovered(outbox[k]).status \in {"PENDING", "FAILED"}
  BY DEF Recovered, MailInv, MailRows, Row, MailStatus
<1>5. MailRows'
  BY <1>1, <1>3, <1>4 DEF MailInv, MailRows
<1>6. ASSUME NEW k \in Messages PROVE Accounted(k)'
  <2>1. AtWork(k)' = AtWork(k) /\ (Held(k)' <=> Held(k))
    BY <1>1 DEF AtWork, Held
  <2>2. CASE k \notin stale \cup late
    <3>1. outbox'[k] = outbox[k]
      BY <1>1, <2>2
    <3>2. QED BY <1>1, <1>3, <2>1, <3>1, OtherMessage DEF MailInv
  <2>3. CASE k \in stale \cup late
    <3>1. outbox[k].status = "RUNNING" /\ outbox'[k].status \in {"PENDING", "FAILED"}
      BY <1>1, <1>4, <2>3 DEF Stale
    <3>2. Waiting(k)' \in {0, 1} /\ Waiting(k) \in {0, 1} /\ (k \in stale => Waiting(k) = 1)
      BY <3>1 DEF Waiting, Stale
    <3>3. k \in late => mailFaults' >= mailFaults + 1
      <4>1. SUFFICES ASSUME k \in late PROVE Cardinality(late) >= 1
        BY <1>1, <1>2, <1>3
      <4>2. Cardinality(late) # 0
        BY <1>2, <4>1, FS_EmptySet
      <4>3. QED BY <1>2, <4>2
    <3>4. Cardinality(AtWork(k)) \in Nat /\ deliveries[k] \in Nat
      BY AtWorkFinite DEF MailInv, MailRows
    <3>5. deliveries[k] + Cardinality(AtWork(k)) + Waiting(k) <= 1 + mailFaults
      BY DEF MailInv, Accounted
    <3>6. deliveries'[k] + Cardinality(AtWork(k)') + Waiting(k)' <= 1 + mailFaults'
      BY <1>1, <1>3, <2>1, <2>3, <3>2, <3>3, <3>4, <3>5
    <3>7. QED BY <1>1, <3>1, <3>6 DEF MailInv, Accounted
  <2>4. QED BY <2>2, <2>3
<1>7. QED BY <1>5, <1>6 DEF MailInv

LEMMA PurgeKeeps ==
  ASSUME MailInv, NEW k \in Messages, PurgeMail(k)
  PROVE  MailInv'
<1>1. /\ outbox' \in [Messages -> Row] /\ outbox'[k].status = "ABSENT" /\ ~Held(k)
      /\ deliveries' \in [Messages -> Nat] /\ deliveries'[k] = 0
      /\ \A j \in Messages \ {k} : outbox'[j] = outbox[j] /\ deliveries'[j] = deliveries[j]
      /\ UNCHANGED <<mailer, blank, mailFaults>>
  <2>1. NoMail \in Row /\ NoMail.status = "ABSENT"
    BY DEF NoMail, Row
  <2>2. QED BY <2>1 DEF PurgeMail, MailInv, MailRows
<1>2. MailRows'
  BY <1>1 DEF MailInv, MailRows
<1>3. ASSUME NEW j \in Messages \ {k} PROVE Accounted(j)'
  BY <1>1, OtherMessage, MailFaultsAssumption DEF MailInv, MailRows, AtWork, Held
<1>4. Accounted(k)'
  <2>1. AtWork(k)' = {}
    BY <1>1 DEF Held, AtWork
  <2>2. Cardinality(AtWork(k)') = 0 /\ Waiting(k)' = 0
    BY <1>1, <2>1, FS_EmptySet DEF Waiting
  <2>3. mailFaults \in Nat
    BY MailFaultsAssumption DEF MailInv, MailRows
  <2>4. QED BY <1>1, <2>2, <2>3 DEF Accounted, Held
<1>5. QED BY <1>2, <1>3, <1>4 DEF MailInv

\* A run takes hold of a message it has read, or lets go of one it has not claimed.
LEMMA SelectKeeps ==
  ASSUME MailInv, NEW m \in Mailers, NEW k \in Messages, MailSelect(m, k)
  PROVE  MailInv'
<1>1. /\ mailer' = [mailer EXCEPT ![m] = Snapshot(k)] /\ mailer[m].pc = "idle"
      /\ UNCHANGED <<outbox, deliveries, blank, mailFaults>>
  BY DEF MailSelect
<1>2. Snapshot(k) \in Sending /\ Snapshot(k).pc = "claim"
  BY DEF Snapshot, Sending, MailInv, MailRows, Row
<1>3. MailRows'
  BY <1>1, <1>2 DEF MailInv, MailRows
<1>4. ASSUME NEW j \in Messages PROVE Accounted(j)'
  BY <1>1, <1>2, OtherRun, MailFaultsAssumption DEF MailInv, MailRows
<1>5. QED BY <1>3, <1>4 DEF MailInv

\* A run goes on with the message it holds: what is left to show is the account of that message.
LEMMA RunKeeps ==
  ASSUME MailInv, NEW m \in Mailers, mailer[m].pc # "idle",
         NEW k \in Messages, k = mailer[m].key,
         NEW run \in {Resting} \cup Sending, mailer' = [mailer EXCEPT ![m] = run],
         run = Resting \/ run.key = k,
         NEW row \in Row, outbox' = [outbox EXCEPT ![k] = row],
         NEW n \in Nat, deliveries' = [deliveries EXCEPT ![k] = n],
         blank' \subseteq Messages,
         mailFaults' \in 0 .. MailFaults, mailFaults' >= mailFaults,
         Accounted(k)'
  PROVE  MailInv'
<1>1. MailRows'
  BY DEF MailInv, MailRows
<1>2. ASSUME NEW j \in Messages, j # k PROVE Accounted(j)'
  BY <1>2, OtherRun, RestingRests, MailFaultsAssumption DEF MailInv, MailRows
<1>3. QED BY <1>1, <1>2 DEF MailInv

\* The account of the message a run holds, before it goes on.
LEMMA Account ==
  ASSUME MailInv, NEW m \in Mailers, mailer[m].pc # "idle"
  PROVE  \E k \in Messages :
           /\ k = mailer[m].key
           /\ mailer[m] \in Sending /\ outbox[k] \in Row
           /\ deliveries[k] \in Nat /\ mailFaults \in Nat
           /\ Cardinality(AtWork(k)) \in Nat /\ IsFiniteSet(AtWork(k)) /\ Cardinality(AtWork(k)') \in Nat
           /\ Waiting(k) \in {0, 1} /\ Waiting(k)' \in {0, 1} /\ Accounted(k)
           /\ deliveries[k] + Cardinality(AtWork(k)) + Waiting(k) <= 1 + mailFaults
<1>1. mailer[m] \in Sending /\ mailer[m].key \in Messages
  BY Holding DEF MailInv
<1>2. PICK k \in Messages : k = mailer[m].key
  BY <1>1
<1>3. Cardinality(AtWork(k)') \in Nat
  <2>1. AtWork(k)' \subseteq Mailers
    BY DEF AtWork
  <2>2. QED BY <2>1, MessagesAssumption, FS_Subset, FS_CardinalityType
<1>4. Accounted(k)
  BY DEF MailInv
<1>5. Waiting(k) \in {0, 1} /\ Waiting(k)' \in {0, 1}
  BY DEF Waiting
<1>6. outbox[k] \in Row /\ deliveries[k] \in Nat /\ mailFaults \in Nat
  BY MailFaultsAssumption DEF MailInv, MailRows
<1>7. QED BY <1>1, <1>2, <1>3, <1>4, <1>5, <1>6, AtWorkFinite DEF Accounted

LEMMA ClaimKeeps ==
  ASSUME MailInv, NEW m \in Mailers, MailClaim(m)
  PROVE  MailInv'
<1>1. mailer[m].pc = "claim" /\ UNCHANGED <<deliveries, blank, mailFaults>>
  BY DEF MailClaim
<1>2. PICK k \in Messages :
      /\ k = mailer[m].key
      /\ mailer[m] \in Sending /\ outbox[k] \in Row
      /\ deliveries[k] \in Nat /\ mailFaults \in Nat
      /\ Cardinality(AtWork(k)) \in Nat /\ IsFiniteSet(AtWork(k)) /\ Cardinality(AtWork(k)') \in Nat
      /\ Accounted(k)
      /\ deliveries[k] + Cardinality(AtWork(k)) + Waiting(k) <= 1 + mailFaults
  BY <1>1, Account
<1>3. CASE outbox[k].status = "PENDING"
  <2>1. /\ outbox' = [outbox EXCEPT ![k].status = "RUNNING", ![k].attempts = @ + 1]
        /\ mailer' = [mailer EXCEPT ![m].pc = "send"]
    BY <1>2, <1>3 DEF MailClaim
  <2> DEFINE row == [[outbox[k] EXCEPT !.status = "RUNNING"] EXCEPT !.attempts = outbox[k].attempts + 1]
             run == [mailer[m] EXCEPT !.pc = "send"]
  <2>2. row \in Row /\ row.status = "RUNNING"
    <3>1. [outbox[k] EXCEPT !.status = "RUNNING"] \in Row
      BY <1>2 DEF Row, MailStatus
    <3>2. outbox[k].attempts + 1 \in Nat
      BY <1>2 DEF Row
    <3>3. QED BY <3>1, <3>2 DEF Row
  <2>3. run \in Sending /\ run.key = k /\ run.pc = "send"
    BY <1>2 DEF Sending
  <2>4. outbox' = [outbox EXCEPT ![k] = row] /\ mailer' = [mailer EXCEPT ![m] = run]
    BY <2>1, <1>2 DEF MailInv, MailRows
  <2> HIDE DEF row, run
  <2>5. outbox'[k] = row /\ mailer'[m] = run /\ \A n \in Mailers \ {m} : mailer'[n] = mailer[n]
    BY <2>4, <1>2 DEF MailInv, MailRows
  <2>6. Held(k)' /\ Waiting(k) = 1 /\ Waiting(k)' = 0
    BY <1>3, <2>2, <2>3, <2>5 DEF Held, Waiting
  <2>7. AtWork(k)' \subseteq AtWork(k) \cup {m}
    BY <2>5 DEF AtWork
  <2>8. Cardinality(AtWork(k)') <= Cardinality(AtWork(k)) + 1
    BY <1>2, <2>7, GainsOne
  <2>9. Accounted(k)'
    <3>1. deliveries'[k] + Cardinality(AtWork(k)') + Waiting(k)' <= 1 + mailFaults'
      BY <1>1, <1>2, <2>6, <2>8
    <3>2. \A n \in Mailers : mailer'[n].pc = "sent" /\ mailer'[n].key = k => deliveries'[k] > 0
      BY <1>1, <1>2, <2>3, <2>5 DEF Accounted
    <3>3. QED BY <3>1, <3>2, <2>2, <2>5 DEF Accounted
  <2>10. deliveries' = [deliveries EXCEPT ![k] = deliveries[k]]
    BY <1>1, <1>2 DEF MailInv, MailRows
  <2>11. mailer[m].pc # "idle" /\ blank' \subseteq Messages /\ mailFaults' \in 0 .. MailFaults
         /\ mailFaults' >= mailFaults
    BY <1>1, <1>2 DEF MailInv, MailRows
  <2>12. QED BY <1>2, <2>2, <2>3, <2>4, <2>9, <2>10, <2>11, RunKeeps
<1>4. CASE outbox[k].status # "PENDING"
  <2>1. mailer' = [mailer EXCEPT ![m] = Resting] /\ UNCHANGED outbox
    BY <1>2, <1>4 DEF MailClaim
  <2>2. mailer'[m] = Resting /\ \A n \in Mailers \ {m} : mailer'[n] = mailer[n]
    BY <2>1 DEF MailInv, MailRows
  <2>3. MailRows'
    BY <1>1, <2>1 DEF MailInv, MailRows
  <2>4. ASSUME NEW j \in Messages PROVE Accounted(j)'
    <3>1. AtWork(j)' \subseteq AtWork(j) /\ (Held(j)' <=> Held(j))
      BY <1>1, <2>2, RestingRests DEF AtWork, Held
    <3>2. QED BY <1>1, <1>2, <2>1, <2>2, <3>1, RestingRests, OtherMessage DEF MailInv
  <2>5. QED BY <2>3, <2>4 DEF MailInv
<1>5. QED BY <1>3, <1>4

LEMMA DeliverKeeps ==
  ASSUME MailInv, NEW m \in Mailers, DeliverEmail(m)
  PROVE  MailInv'
<1>1. mailer[m].pc = "send" /\ UNCHANGED outbox
  BY DEF DeliverEmail
<1>2. PICK k \in Messages :
      /\ k = mailer[m].key
      /\ mailer[m] \in Sending /\ outbox[k] \in Row
      /\ deliveries[k] \in Nat /\ mailFaults \in Nat
      /\ Cardinality(AtWork(k)) \in Nat /\ IsFiniteSet(AtWork(k)) /\ Cardinality(AtWork(k)') \in Nat
      /\ Waiting(k) \in {0, 1} /\ Accounted(k)
      /\ deliveries[k] + Cardinality(AtWork(k)) + Waiting(k) <= 1 + mailFaults
  BY <1>1, Account
<1>3. PICK pc \in {"sent", "failed"}, n \in {deliveries[k], deliveries[k] + 1} :
        /\ mailer' = [mailer EXCEPT ![m].pc = pc]
        /\ deliveries' = [deliveries EXCEPT ![k] = n]
        /\ blank' \subseteq Messages
        /\ mailFaults' \in 0 .. MailFaults
        /\ pc = "sent" => n = deliveries[k] + 1
        /\ mailFaults' = IF pc = "failed" /\ n = deliveries[k] + 1 THEN mailFaults + 1 ELSE mailFaults
  <2>1. deliveries = [deliveries EXCEPT ![k] = deliveries[k]]
    BY <1>2 DEF MailInv, MailRows
  <2>2. Arrives(m) => deliveries' = [deliveries EXCEPT ![k] = deliveries[k] + 1] /\ blank' \subseteq Messages
    BY <1>2 DEF Arrives, MailInv, MailRows
  <2>3. mailFaults \in 0 .. MailFaults /\ blank \subseteq Messages
    BY DEF MailInv, MailRows
  <2>4. \/ Arrives(m) /\ mailer' = [mailer EXCEPT ![m].pc = "sent"] /\ mailFaults' = mailFaults
        \/ /\ mailer' = [mailer EXCEPT ![m].pc = "failed"]
           /\ UNCHANGED <<deliveries, blank, mailFaults>>
        \/ /\ Arrives(m) /\ mailer' = [mailer EXCEPT ![m].pc = "failed"]
           /\ mailFaults < MailFaults /\ mailFaults' = mailFaults + 1
    BY DEF DeliverEmail
  <2>5. deliveries[k] + 1 # deliveries[k]
    BY <1>2
  <2>6. QED BY <2>1, <2>2, <2>3, <2>4, <2>5, MailFaultsAssumption
<1> DEFINE run == [mailer[m] EXCEPT !.pc = pc]
<1>4. run \in Sending /\ run.key = k /\ run.pc = pc
  BY <1>2 DEF Sending
<1>5. mailer' = [mailer EXCEPT ![m] = run]
  BY <1>3
<1> HIDE DEF run
<1>6. mailer'[m] = run /\ \A j \in Mailers \ {m} : mailer'[j] = mailer[j]
  BY <1>5 DEF MailInv, MailRows
<1>7. deliveries'[k] = n
  BY <1>2, <1>3 DEF MailInv, MailRows
<1>8. Held(k) /\ Held(k)' /\ Waiting(k)' = Waiting(k)
  BY <1>2, <1>1, <1>4, <1>6 DEF Held, Waiting
<1>9. deliveries'[k] + Cardinality(AtWork(k)') + Waiting(k)' <= 1 + mailFaults'
  <2>1. CASE pc = "sent"
    <3>1. AtWork(k)' \subseteq AtWork(k) \ {m} /\ m \in AtWork(k)
      BY <1>2, <1>1, <1>4, <1>6, <2>1 DEF AtWork
    <3>2. Cardinality(AtWork(k)') + 1 <= Cardinality(AtWork(k))
      BY <1>2, <3>1, LosesOne
    <3>3. QED BY <1>2, <1>3, <1>7, <1>8, <2>1, <3>2
  <2>2. CASE pc = "failed"
    <3>1. AtWork(k)' \subseteq AtWork(k)
      BY <1>2, <1>1, <1>4, <1>6 DEF AtWork
    <3>2. Cardinality(AtWork(k)') <= Cardinality(AtWork(k))
      BY <1>2, <3>1, GainsNone
    <3>3. QED BY <1>2, <1>3, <1>7, <1>8, <2>2, <3>2
  <2>3. QED BY <2>1, <2>2
<1>10. Accounted(k)'
  <2>1. outbox[k].status # "ABSENT" /\ (outbox[k].status = "SUCCEEDED" => deliveries[k] > 0)
    BY <1>2, <1>8 DEF Accounted
  <2>2. deliveries'[k] >= deliveries[k] /\ (pc = "sent" => deliveries'[k] > 0)
    BY <1>2, <1>3, <1>7
  <2>3. \A j \in Mailers : mailer'[j].pc = "sent" /\ mailer'[j].key = k => deliveries'[k] > 0
    BY <1>2, <1>4, <1>6, <1>7, <2>2, <1>3 DEF Accounted
  <2>4. outbox'[k].status = "SUCCEEDED" => deliveries'[k] > 0
    BY <1>1, <1>2, <1>7, <1>3, <2>1, <2>2
  <2>5. QED BY <1>1, <1>9, <2>1, <2>3, <2>4 DEF Accounted
<1>11. outbox' = [outbox EXCEPT ![k] = outbox[k]] /\ n \in Nat /\ mailFaults' >= mailFaults
       /\ mailer[m].pc # "idle"
  BY <1>1, <1>2, <1>3 DEF MailInv, MailRows
<1>12. QED BY <1>2, <1>3, <1>4, <1>5, <1>10, <1>11, RunKeeps

LEMMA MarkKeeps ==
  ASSUME MailInv, NEW m \in Mailers, MarkSent(m) \/ MarkFailed(m)
  PROVE  MailInv'
<1>1. mailer[m].pc \in {"sent", "failed"} /\ UNCHANGED <<deliveries, blank, mailFaults>>
      /\ mailer' = [mailer EXCEPT ![m] = Resting]
  BY DEF MarkSent, MarkFailed
<1>2. PICK k \in Messages :
      /\ k = mailer[m].key
      /\ mailer[m] \in Sending /\ outbox[k] \in Row
      /\ deliveries[k] \in Nat /\ mailFaults \in Nat
      /\ Cardinality(AtWork(k)) \in Nat /\ IsFiniteSet(AtWork(k)) /\ Cardinality(AtWork(k)') \in Nat
      /\ Waiting(k) \in {0, 1} /\ Waiting(k)' \in {0, 1} /\ Accounted(k)
      /\ deliveries[k] + Cardinality(AtWork(k)) + Waiting(k) <= 1 + mailFaults
  BY <1>1, Account
<1>3. PICK row \in Row : /\ outbox' = [outbox EXCEPT ![k] = row]
                         /\ \/ mailer[m].pc = "sent" /\ row.status = "SUCCEEDED"
                            \/ mailer[m].pc = "failed" /\ row.status \in {"FAILED", "PENDING"}
  <2>1. CASE MarkSent(m)
    <3> DEFINE row == [[outbox[k] EXCEPT !.status = "SUCCEEDED"] EXCEPT !.redacted = TRUE]
    <3>1. [outbox[k] EXCEPT !.status = "SUCCEEDED"] \in Row
      BY <1>2 DEF Row, MailStatus
    <3>2. row \in Row /\ row.status = "SUCCEEDED"
      BY <3>1 DEF Row
    <3>3. outbox' = [outbox EXCEPT ![k] = row] /\ mailer[m].pc = "sent"
      BY <2>1, <1>2 DEF MarkSent, MailInv, MailRows
    <3>4. QED BY <3>2, <3>3
  <2>2. CASE MarkFailed(m)
    <3>1. PICK s \in {"FAILED", "PENDING"} : outbox' = [outbox EXCEPT ![k].status = s]
      BY <1>2, <2>2 DEF MarkFailed
    <3>2. [outbox[k] EXCEPT !.status = s] \in Row /\ [outbox[k] EXCEPT !.status = s].status = s
      BY <1>2 DEF Row, MailStatus
    <3>3. QED BY <2>2, <3>1, <3>2 DEF MarkFailed
  <2>3. QED BY <2>1, <2>2
<1>4. /\ mailer'[m] = Resting /\ outbox'[k] = row /\ deliveries'[k] = deliveries[k]
      /\ \A j \in Mailers \ {m} : mailer'[j] = mailer[j]
  BY <1>1, <1>2, <1>3 DEF MailInv, MailRows
<1>5. deliveries'[k] + Cardinality(AtWork(k)') + Waiting(k)' <= 1 + mailFaults'
  <2>1. CASE mailer[m].pc = "sent"
    <3>1. AtWork(k)' \subseteq AtWork(k) /\ Waiting(k)' = 0
      BY <1>3, <1>4, <2>1, RestingRests DEF AtWork, Waiting
    <3>2. Cardinality(AtWork(k)') <= Cardinality(AtWork(k))
      BY <1>2, <3>1, GainsNone
    <3>3. QED BY <1>1, <1>2, <1>4, <3>1, <3>2
  <2>2. CASE mailer[m].pc = "failed"
    <3>1. AtWork(k)' \subseteq AtWork(k) \ {m} /\ m \in AtWork(k)
      BY <1>2, <1>4, <2>2, RestingRests DEF AtWork
    <3>2. Cardinality(AtWork(k)') + 1 <= Cardinality(AtWork(k))
      BY <1>2, <3>1, LosesOne
    <3>3. QED BY <1>1, <1>2, <1>4, <3>2
  <2>3. QED BY <1>1, <2>1, <2>2
<1>6. Accounted(k)'
  <2>1. \A j \in Mailers : mailer'[j].pc = "sent" /\ mailer'[j].key = k => deliveries'[k] > 0
    BY <1>2, <1>4, RestingRests DEF Accounted
  <2>2. row.status = "SUCCEEDED" => deliveries'[k] > 0
    BY <1>2, <1>3, <1>4 DEF Accounted
  <2>3. QED BY <1>3, <1>4, <1>5, <2>1, <2>2 DEF Accounted
<1>7. deliveries' = [deliveries EXCEPT ![k] = deliveries[k]] /\ blank' \subseteq Messages
      /\ mailFaults' \in 0 .. MailFaults /\ mailFaults' >= mailFaults /\ mailer[m].pc # "idle"
  BY <1>1, <1>2 DEF MailInv, MailRows
<1>8. QED BY <1>1, <1>2, <1>3, <1>6, <1>7, RunKeeps

LEMMA MailCrashKeeps ==
  ASSUME MailInv, NEW m \in Mailers, MailCrash(m)
  PROVE  MailInv'
<1>1. /\ mailer[m].pc # "idle" /\ UNCHANGED <<outbox, deliveries, blank>>
      /\ mailer' = [mailer EXCEPT ![m] = Resting]
      /\ mailFaults < MailFaults /\ mailFaults' = mailFaults + 1
  BY DEF MailCrash
<1>2. PICK k \in Messages :
      /\ k = mailer[m].key
      /\ mailer[m] \in Sending /\ outbox[k] \in Row
      /\ deliveries[k] \in Nat /\ mailFaults \in Nat
      /\ Cardinality(AtWork(k)) \in Nat /\ IsFiniteSet(AtWork(k)) /\ Cardinality(AtWork(k)') \in Nat
      /\ Waiting(k) \in {0, 1} /\ Waiting(k)' \in {0, 1} /\ Accounted(k)
      /\ deliveries[k] + Cardinality(AtWork(k)) + Waiting(k) <= 1 + mailFaults
  BY <1>1, Account
<1>3. mailer'[m] = Resting /\ \A j \in Mailers \ {m} : mailer'[j] = mailer[j]
  BY <1>1 DEF MailInv, MailRows
<1>4. AtWork(k)' \subseteq AtWork(k)
  BY <1>3, RestingRests DEF AtWork
<1>5. Cardinality(AtWork(k)') <= Cardinality(AtWork(k))
  BY <1>2, <1>4, GainsNone
<1>6. deliveries'[k] + Cardinality(AtWork(k)') + Waiting(k)' <= 1 + mailFaults'
  <2>1. CASE outbox[k].status = "PENDING" \/ ~Held(k)
    <3>1. Waiting(k)' <= Waiting(k)
      BY <1>1, <1>3, <2>1, RestingRests DEF Waiting, Held
    <3>2. QED BY <1>1, <1>2, <1>5, <3>1
  <2>2. QED BY <1>1, <1>2, <1>5
<1>7. Accounted(k)'
  <2>1. Held(k)' => Held(k)
    BY <1>3, RestingRests DEF Held
  <2>2. QED BY <1>1, <1>2, <1>3, <1>6, <2>1, RestingRests DEF Accounted
<1>8. /\ deliveries' = [deliveries EXCEPT ![k] = deliveries[k]] /\ outbox' = [outbox EXCEPT ![k] = outbox[k]]
      /\ blank' \subseteq Messages /\ mailFaults' \in 0 .. MailFaults /\ mailFaults' >= mailFaults
  BY <1>1, <1>2, MailFaultsAssumption DEF MailInv, MailRows
<1>9. QED BY <1>1, <1>2, <1>7, <1>8, RunKeeps

LEMMA MailStepKeeps ==
  ASSUME MailInv, [MailNext]_mailVars
  PROVE  MailInv'
<1>1. CASE UNCHANGED mailVars
  <2>1. MailRows'
    BY <1>1 DEF mailVars, MailInv, MailRows
  <2>2. ASSUME NEW k \in Messages PROVE Accounted(k)'
    <3>1. AtWork(k)' \subseteq AtWork(k) /\ (Held(k)' <=> Held(k))
      BY <1>1 DEF mailVars, AtWork, Held
    <3>2. QED BY <1>1, <3>1, OtherMessage, MailFaultsAssumption DEF mailVars, MailInv, MailRows
  <2>3. QED BY <2>1, <2>2 DEF MailInv
<1>2. CASE MailNext
  BY <1>2, QueueKeeps, PurgeKeeps, RecoverKeeps, SelectKeeps, ClaimKeeps, DeliverKeeps, MarkKeeps,
     MailCrashKeeps DEF MailNext, MailRun
<1>3. QED BY <1>1, <1>2

\* For every number of mailers and of messages: each copy of a message beyond the first is one of
\* the faults, and a message marked as sent has reached its recipient.
THEOREM CopiesExplained == MailSpec => []DeliveriesExplained
<1>1. MailInv => DeliveriesExplained
  <2> SUFFICES ASSUME MailInv PROVE DeliveriesExplained
    OBVIOUS
  <2>1. MailTypeOK
    BY DEF MailInv, MailRows, MailTypeOK, Row, Sending
  <2>2. ASSUME NEW k \in Messages PROVE deliveries[k] <= 1 + mailFaults
    <3>1. Cardinality(AtWork(k)) \in Nat /\ Waiting(k) \in Nat /\ deliveries[k] \in Nat /\ mailFaults \in Nat
      BY AtWorkFinite, MailFaultsAssumption DEF MailInv, MailRows, Waiting
    <3>2. deliveries[k] + Cardinality(AtWork(k)) + Waiting(k) <= 1 + mailFaults
      BY DEF MailInv, Accounted
    <3>3. QED BY <3>1, <3>2
  <2>3. QED BY <2>1, <2>2 DEF DeliveriesExplained, MailInv, Accounted
<1>2. QED BY <1>1, MailInitially, MailStepKeeps, PTL DEF MailSpec

-----------------------------------------------------------------------------
(* The agent that reads keys from the portal                               *)

Steps == {"idle", "receiving", "ensure", "copy", "locate", "discover", "author", "validate",
          "archive", "open", "write", "rename"}
Extracting == [pc : Steps, logins : 0 .. 2, attempt : 0 .. MaxAttempts + 1, saw : Locators, script : Locators]

\* How far an extraction is bounds what it has done, and what it promotes has found the key.
Progress(e) ==
  /\ extraction[e].pc \in {"idle", "receiving", "ensure", "copy", "locate"} => extraction[e].logins = 0
  /\ extraction[e].pc = "discover" => extraction[e].logins <= 1
  /\ extraction[e].pc = "validate" => extraction[e].attempt <= MaxAttempts
  /\ extraction[e].pc \in {"archive", "open", "write", "rename"} => extraction[e].script \in validated

\* What the one extraction under way makes of the files.
Alone ==
  /\ \A e, f \in UnderWay : e = f
  /\ \A e \in Extractions :
       /\ e \in current.open => extraction[e].pc = "copy"
       /\ e \in next.open => extraction[e].pc = "write"
       /\ extraction[e].pc = "copy" => promoted = {}
       /\ extraction[e].pc = "write" => next.state = "empty" /\ e \in next.open
       /\ extraction[e].pc = "rename" => next.state = "whole" /\ next.script \in validated
       /\ extraction[e].pc \in {"open", "write", "rename"} /\ current.state = "whole"
            => current.script \in history
  /\ promoted # {} => current.state = "whole" /\ current.script \in promoted
  /\ promoted \subseteq validated
  /\ superseded \subseteq history

AgentInv == AgentTypeOK /\ (\A e \in Extractions : Progress(e)) /\ (~overlapped => Alone)

\* The updates of one field of an extraction.
LEMMA PcUpdate ==
  ASSUME NEW x \in Extracting, NEW p \in Steps
  PROVE  /\ [x EXCEPT !.pc = p] \in Extracting /\ [x EXCEPT !.pc = p].pc = p
         /\ [x EXCEPT !.pc = p].logins = x.logins /\ [x EXCEPT !.pc = p].attempt = x.attempt
         /\ [x EXCEPT !.pc = p].saw = x.saw /\ [x EXCEPT !.pc = p].script = x.script
BY DEF Extracting

LEMMA LoginsUpdate ==
  ASSUME NEW x \in Extracting, NEW n \in 0 .. 2
  PROVE  /\ [x EXCEPT !.logins = n] \in Extracting /\ [x EXCEPT !.logins = n].pc = x.pc
         /\ [x EXCEPT !.logins = n].logins = n
BY DEF Extracting

LEMMA AttemptUpdate ==
  ASSUME NEW x \in Extracting, NEW n \in 0 .. MaxAttempts + 1
  PROVE  /\ [x EXCEPT !.attempt = n] \in Extracting /\ [x EXCEPT !.attempt = n].pc = x.pc
         /\ [x EXCEPT !.attempt = n].logins = x.logins /\ [x EXCEPT !.attempt = n].attempt = n
BY DEF Extracting

LEMMA SawUpdate ==
  ASSUME NEW x \in Extracting, NEW s \in Locators
  PROVE  /\ [x EXCEPT !.saw = s] \in Extracting /\ [x EXCEPT !.saw = s].pc = x.pc
         /\ [x EXCEPT !.saw = s].logins = x.logins
BY DEF Extracting

LEMMA ScriptUpdate ==
  ASSUME NEW x \in Extracting, NEW s \in Locators
  PROVE  /\ [x EXCEPT !.script = s] \in Extracting /\ [x EXCEPT !.script = s].pc = x.pc
         /\ [x EXCEPT !.script = s].attempt = x.attempt /\ [x EXCEPT !.script = s].script = s
BY DEF Extracting

LEMMA NotExtractingType ==
  /\ Default \in Locators
  /\ NotExtracting \in Extracting /\ NotExtracting.pc = "idle" /\ NotExtracting.logins = 0
  /\ Missing \in Files /\ Missing.state = "missing" /\ Missing.open = {}
<1>1. Default \in Locators
  BY KeyAgentAssumption DEF Default, Locators
<1>2. NotExtracting \in Extracting
  BY <1>1, KeyAgentAssumption DEF NotExtracting, Extracting, Steps
<1>3. Missing \in Files
  BY <1>1 DEF Missing, Files
<1>4. QED BY <1>1, <1>2, <1>3 DEF NotExtracting, Missing

LEMMA ExtractMoves ==
  ASSUME AgentInv, NEW e \in Extractions, NEW p \in Steps, Extract(e, p)
  PROVE  \E rec \in Extracting :
           /\ extraction' = [extraction EXCEPT ![e] = rec]
           /\ rec.pc = p /\ rec.logins = extraction[e].logins /\ rec.attempt = extraction[e].attempt
           /\ rec.script = extraction[e].script
<1>1. extraction[e] \in Extracting
  BY DEF AgentInv, AgentTypeOK, Extracting, Steps
<1>2. extraction' = [extraction EXCEPT ![e] = [extraction[e] EXCEPT !.pc = p]]
  BY DEF Extract
<1>3. QED BY <1>1, <1>2, PcUpdate

\* An extraction moves, and the files stay as they are.
LEMMA QuietMove ==
  ASSUME AgentInv, NEW e \in Extractions, NEW rec \in Extracting,
         extraction' = [extraction EXCEPT ![e] = rec],
         UNCHANGED <<portal, current, next, history, promoted, superseded, overlapped, agentFaults>>,
         validated \subseteq validated', validated' \subseteq Locators, active' \in BOOLEAN,
         extraction[e].pc \notin {"copy", "write"},
         rec.pc \notin {"copy", "open", "write", "rename"},
         rec.pc \in {"idle", "receiving"} \/ extraction[e].pc \notin {"idle", "receiving"},
         rec.pc \in {"idle", "receiving", "ensure", "locate"} => rec.logins = 0,
         rec.pc = "discover" => rec.logins <= 1,
         rec.pc = "validate" => rec.attempt <= MaxAttempts,
         rec.pc = "archive" => rec.script \in validated'
  PROVE  AgentInv'
<1>1. extraction' \in [Extractions -> Extracting] /\ extraction'[e] = rec
      /\ \A f \in Extractions \ {e} : extraction'[f] = extraction[f]
  BY DEF AgentInv, AgentTypeOK, Extracting, Steps
<1>2. AgentTypeOK'
  BY <1>1 DEF AgentInv, AgentTypeOK, Extracting, Steps
<1>3. ASSUME NEW f \in Extractions PROVE Progress(f)'
  BY <1>1 DEF AgentInv, Progress
<1>4. ASSUME ~overlapped' PROVE Alone'
  <2>1. Alone
    BY <1>4 DEF AgentInv
  <2>2. UnderWay' \subseteq UnderWay
    BY <1>1 DEF UnderWay
  <2>3. QED BY <1>1, <2>1, <2>2 DEF Alone
<1>5. QED BY <1>2, <1>3, <1>4 DEF AgentInv

LEMMA AnswerMoves ==
  ASSUME AgentInv, NEW e \in Extractions, Answer(e), extraction[e].pc \notin {"copy", "write"},
         UNCHANGED <<portal, current, next, history, validated, promoted, superseded, overlapped, agentFaults>>
  PROVE  AgentInv'
BY QuietMove, NotExtractingType DEF Answer, AgentInv, AgentTypeOK

LEMMA RequestKeeps ==
  ASSUME AgentInv, NEW e \in Extractions, HandleRequest(e) \/ DestroyRequest(e)
  PROVE  AgentInv'
<1>1. PICK p \in {"receiving", "idle"} :
        /\ Extract(e, p)
        /\ extraction[e].pc \in {"idle", "receiving"}
        /\ UNCHANGED <<portal, active, current, next, history, validated, promoted, superseded, overlapped, agentFaults>>
  BY DEF HandleRequest, DestroyRequest
<1>2. PICK rec \in Extracting : /\ extraction' = [extraction EXCEPT ![e] = rec]
                                /\ rec.pc = p /\ rec.logins = extraction[e].logins
  BY <1>1, ExtractMoves DEF Steps
<1>3. rec.logins = 0
  BY <1>1, <1>2 DEF AgentInv, Progress
<1>4. QED BY <1>1, <1>2, <1>3, QuietMove DEF AgentInv, AgentTypeOK

LEMMA EndOfRequestKeeps ==
  ASSUME AgentInv, NEW e \in Extractions, EndOfRequest(e)
  PROVE  AgentInv'
<1>1. extraction[e].pc = "receiving"
      /\ UNCHANGED <<portal, current, next, history, validated, promoted, superseded, agentFaults>>
  BY DEF EndOfRequest
<1>2. CASE Answer(e) /\ UNCHANGED overlapped
  BY <1>1, <1>2, AnswerMoves
<1>3. CASE active' = TRUE /\ Extract(e, "ensure") /\ overlapped' = (overlapped \/ UnderWay # {})
  <2>1. PICK rec \in Extracting : /\ extraction' = [extraction EXCEPT ![e] = rec]
                                  /\ rec.pc = "ensure" /\ rec.logins = extraction[e].logins
    BY <1>3, ExtractMoves DEF Steps
  <2>2. extraction' \in [Extractions -> Extracting] /\ extraction'[e] = rec
        /\ \A f \in Extractions \ {e} : extraction'[f] = extraction[f]
    BY <2>1 DEF AgentInv, AgentTypeOK, Extracting, Steps
  <2>3. AgentTypeOK'
    BY <1>1, <1>3, <2>2 DEF AgentInv, AgentTypeOK, Extracting, Steps
  <2>4. ASSUME NEW f \in Extractions PROVE Progress(f)'
    BY <1>1, <2>1, <2>2 DEF AgentInv, Progress
  <2>5. ASSUME ~overlapped' PROVE Alone'
    <3>1. Alone /\ UnderWay = {}
      BY <1>3, <2>5 DEF AgentInv
    <3>2. UnderWay' \subseteq {e}
      BY <2>2, <3>1 DEF UnderWay
    <3>3. QED BY <1>1, <2>1, <2>2, <3>1, <3>2 DEF Alone
  <2>6. QED BY <2>3, <2>4, <2>5 DEF AgentInv
<1>4. QED BY <1>2, <1>3 DEF EndOfRequest

\* A login: the first of the current locator, the second of the discovery.
LEMMA LogInMoves ==
  ASSUME NEW e \in Extractions, NEW rec \in Extracting, rec.logins \in 0 .. 1, LogIn(e, rec)
  PROVE  \E r \in Extracting : /\ extraction' = [extraction EXCEPT ![e] = r]
                               /\ r.pc = rec.pc /\ r.logins = rec.logins + 1
<1>1. rec.logins + 1 \in 0 .. 2
  OBVIOUS
<1>2. extraction' = [extraction EXCEPT ![e] = [rec EXCEPT !.logins = rec.logins + 1]]
  BY DEF LogIn
<1>3. QED BY <1>1, <1>2, LoginsUpdate

LEMMA SessionKeeps ==
  ASSUME AgentInv, NEW e \in Extractions, RunExtraction(e) \/ ExploreForToken(e)
  PROVE  AgentInv'
<1>1. extraction[e].pc \in {"locate", "discover"}
      /\ UNCHANGED <<portal, current, next, history, validated, promoted, superseded, overlapped, agentFaults>>
  BY DEF RunExtraction, ExploreForToken
<1>2. CASE Answer(e)
  BY <1>1, <1>2, AnswerMoves
<1>3. extraction[e] \in Extracting /\ portal \in Locators
  BY DEF AgentInv, AgentTypeOK, Extracting, Steps
<1>4. CASE RunExtraction(e) /\ ~Answer(e)
  <2>1. LogIn(e, [extraction[e] EXCEPT !.pc = "discover"]) /\ UNCHANGED active /\ extraction[e].pc = "locate"
    BY <1>4 DEF RunExtraction
  <2>a. extraction[e].logins = 0 /\ "discover" \in Steps
    BY <2>1 DEF AgentInv, Progress, Steps
  <2> DEFINE rec == [extraction[e] EXCEPT !.pc = "discover"]
  <2>b. LogIn(e, rec)
    BY <2>1
  <2>2. rec \in Extracting /\ rec.pc = "discover" /\ rec.logins = 0
    BY <1>3, <2>a, PcUpdate
  <2> HIDE DEF rec
  <2>3. PICK r \in Extracting : extraction' = [extraction EXCEPT ![e] = r] /\ r.pc = "discover" /\ r.logins = 1
    BY <2>b, <2>2, LogInMoves
  <2>4. active' \in BOOLEAN /\ validated \subseteq validated' /\ validated' \subseteq Locators
    BY <1>1, <2>1 DEF AgentInv, AgentTypeOK
  <2>5. r.logins <= 1
    BY <2>3
  <2>6. r.pc \notin {"idle", "receiving", "ensure", "copy", "locate", "validate", "archive", "open", "write", "rename"}
    BY <2>3
  <2>7. QED BY <1>1, <2>1, <2>3, <2>4, <2>5, <2>6, QuietMove
<1>5. CASE ExploreForToken(e) /\ ~Answer(e)
  <2>1. /\ LogIn(e, [extraction[e] EXCEPT !.pc = "author", !.attempt = 1, !.saw = portal])
        /\ UNCHANGED active /\ extraction[e].pc = "discover"
    BY <1>5 DEF ExploreForToken
  <2> DEFINE a == [extraction[e] EXCEPT !.pc = "author"]
             b == [a EXCEPT !.attempt = 1]
             rec == [b EXCEPT !.saw = portal]
  <2>a. extraction[e].logins \in 0 .. 1 /\ "author" \in Steps
    <3>1. extraction[e].logins <= 1 /\ "author" \in Steps
      BY <2>1 DEF AgentInv, Progress, Steps
    <3>2. extraction[e].logins \in 0 .. 2
      BY <1>3 DEF Extracting
    <3>3. QED BY <3>1, <3>2
  <2>2. a \in Extracting /\ a.pc = "author" /\ a.logins \in 0 .. 1
    BY <1>3, <2>a, PcUpdate
  <2>3. LogIn(e, rec)
    BY <2>1
  <2> HIDE DEF a
  <2>4. b \in Extracting /\ b.pc = "author" /\ b.logins \in 0 .. 1
    BY <2>2, AttemptUpdate, KeyAgentAssumption
  <2> HIDE DEF b
  <2>5. rec \in Extracting /\ rec.pc = "author" /\ rec.logins \in 0 .. 1
    BY <1>3, <2>4, SawUpdate
  <2> HIDE DEF rec
  <2>6. PICK r \in Extracting : extraction' = [extraction EXCEPT ![e] = r] /\ r.pc = "author"
    BY <2>3, <2>5, LogInMoves
  <2>7. QED BY <1>1, <2>1, <2>6, QuietMove DEF AgentInv, AgentTypeOK
<1>6. QED BY <1>2, <1>4, <1>5

LEMMA NextAttemptMoves ==
  ASSUME AgentInv, NEW e \in Extractions, NextAttempt(e), extraction[e].attempt <= MaxAttempts
  PROVE  \E r \in Extracting : extraction' = [extraction EXCEPT ![e] = r] /\ r.pc = "author"
<1>1. extraction[e] \in Extracting
  BY DEF AgentInv, AgentTypeOK, Extracting, Steps
<1> DEFINE a == [extraction[e] EXCEPT !.pc = "author"]
<1>2. a \in Extracting /\ a.pc = "author" /\ a.attempt = extraction[e].attempt
  BY <1>1, PcUpdate DEF Steps
<1>3. extraction' = [extraction EXCEPT ![e] = [a EXCEPT !.attempt = extraction[e].attempt + 1]]
  BY DEF NextAttempt, AgentInv, AgentTypeOK
<1> HIDE DEF a
<1>4. extraction[e].attempt + 1 \in 0 .. MaxAttempts + 1
  BY <1>1, KeyAgentAssumption DEF Extracting
<1> DEFINE n == extraction[e].attempt + 1
           r == [a EXCEPT !.attempt = n]
<1>5. extraction' = [extraction EXCEPT ![e] = r]
  BY <1>3
<1> HIDE DEF n
<1>6. r \in Extracting /\ r.pc = "author"
  BY <1>2, <1>4, AttemptUpdate DEF n
<1> HIDE DEF r
<1>7. QED BY <1>5, <1>6

LEMMA DiscoveryKeeps ==
  ASSUME AgentInv, NEW e \in Extractions, InvokeCodexDiscovery(e) \/ RunLocatorOnPage(e)
  PROVE  AgentInv'
<1>1. extraction[e].pc \in {"author", "validate"}
      /\ UNCHANGED <<portal, current, next, history, promoted, superseded, overlapped, agentFaults>>
  BY DEF InvokeCodexDiscovery, RunLocatorOnPage
<1>2. extraction[e] \in Extracting /\ validated \subseteq Locators /\ active \in BOOLEAN
  BY DEF AgentInv, AgentTypeOK, Extracting, Steps
<1>3. CASE Answer(e) /\ UNCHANGED validated
  BY <1>1, <1>3, AnswerMoves
<1>4. CASE NextAttempt(e) /\ extraction[e].attempt <= MaxAttempts /\ UNCHANGED <<active, validated>>
  <2>1. PICK r \in Extracting : extraction' = [extraction EXCEPT ![e] = r] /\ r.pc = "author"
    BY <1>4, NextAttemptMoves
  <2>2. QED BY <1>1, <1>2, <1>4, <2>1, QuietMove
<1>5. ASSUME NEW s \in 0 .. extraction[e].saw, UNCHANGED <<active, validated>>,
             extraction[e].attempt <= MaxAttempts,
             extraction' = [extraction EXCEPT ![e].pc = "validate", ![e].script = s]
      PROVE  AgentInv'
  <2> DEFINE a == [extraction[e] EXCEPT !.pc = "validate"]
  <2>1. a \in Extracting /\ a.pc = "validate" /\ a.attempt = extraction[e].attempt
    BY <1>2, PcUpdate DEF Steps
  <2>2. extraction' = [extraction EXCEPT ![e] = [a EXCEPT !.script = s]]
    BY <1>5 DEF AgentInv, AgentTypeOK
  <2> HIDE DEF a
  <2>3. s \in Locators
    BY <1>2, <1>5, KeyAgentAssumption DEF Extracting, Locators
  <2> DEFINE r == [a EXCEPT !.script = s]
  <2>4. r \in Extracting /\ r.pc = "validate" /\ r.attempt = extraction[e].attempt
    BY <2>1, <2>3, ScriptUpdate
  <2>5. extraction' = [extraction EXCEPT ![e] = r]
    BY <2>2
  <2> HIDE DEF r
  <2>6. QED BY <1>1, <1>2, <1>5, <2>4, <2>5, QuietMove
<1>6. CASE /\ RunLocatorOnPage(e)
           /\ extraction' = [extraction EXCEPT ![e] =
                               [NotExtracting EXCEPT !.pc = "archive", !.script = extraction[e].script]]
           /\ validated' = validated \cup {extraction[e].script}
  <2> DEFINE a == [NotExtracting EXCEPT !.pc = "archive"]
  <2>1. a \in Extracting /\ a.pc = "archive"
    BY NotExtractingType, PcUpdate DEF Steps
  <2>2. extraction' = [extraction EXCEPT ![e] = [a EXCEPT !.script = extraction[e].script]]
    BY <1>6
  <2> HIDE DEF a
  <2>3. extraction[e].script \in Locators
    BY <1>2 DEF Extracting
  <2> DEFINE r == [a EXCEPT !.script = extraction[e].script]
  <2>4. extraction' = [extraction EXCEPT ![e] = r]
    BY <2>2
  <2>a. r \in Extracting /\ r.pc = "archive" /\ r.script = extraction[e].script
    BY <2>1, <2>3, ScriptUpdate
  <2> HIDE DEF r
  <2>5. active' = active /\ validated \subseteq validated' /\ validated' \subseteq Locators
    BY <1>2, <1>6, <2>3 DEF RunLocatorOnPage
  <2>6. QED BY <1>1, <1>2, <1>6, <2>4, <2>a, <2>5, QuietMove
<1>7. CASE InvokeCodexDiscovery(e)
  <2>1. UNCHANGED validated
    BY <1>7 DEF InvokeCodexDiscovery
  <2>2. CASE extraction[e].attempt > MaxAttempts
    BY <1>3, <1>7, <2>1, <2>2 DEF InvokeCodexDiscovery
  <2>3. CASE extraction[e].attempt <= MaxAttempts
    <3>1. ~(extraction[e].attempt > MaxAttempts)
      BY <1>2, <2>3, KeyAgentAssumption DEF Extracting
    <3>2. QED BY <1>4, <1>5, <1>7, <2>1, <2>3, <3>1 DEF InvokeCodexDiscovery
  <2>4. QED BY <1>2, <2>2, <2>3, KeyAgentAssumption DEF Extracting
<1>8. CASE RunLocatorOnPage(e)
  <2>1. extraction[e].pc = "validate" /\ extraction[e].attempt <= MaxAttempts /\ UNCHANGED active
    BY <1>8 DEF RunLocatorOnPage, AgentInv, Progress
  <2>2. QED BY <1>4, <1>6, <1>8, <2>1 DEF RunLocatorOnPage
<1>9. QED BY <1>7, <1>8

\* The files.
LEMMA OpenedType ==
  ASSUME NEW file \in Files, NEW e \in Extractions
  PROVE  Opened(file, e) \in Files /\ Opened(file, e).state = "empty" /\ Opened(file, e).open = file.open \cup {e}
<1>1. [file EXCEPT !.state = "empty"] \in Files
  BY DEF Files
<1>2. Opened(file, e) = [[file EXCEPT !.state = "empty"] EXCEPT !.open = file.open \cup {e}]
  BY DEF Opened, Files
<1>3. file.open \cup {e} \in SUBSET Extractions
  BY DEF Files
<1>4. QED BY <1>1, <1>2, <1>3 DEF Files

LEMMA WrittenType ==
  ASSUME NEW file \in Files, NEW e \in Extractions, NEW s \in Locators, NEW new \in Written(file, e, s)
  PROVE  /\ new \in Files /\ new.open = file.open \ {e} /\ new.script = s
         /\ file.state = "empty" => new.state = "whole"
BY DEF Files, Written

\* The extraction e moves to p and does something to the files.
LEMMA FileMove ==
  ASSUME AgentInv, NEW e \in Extractions, NEW p \in Steps, Extract(e, p),
         extraction[e].pc \notin {"idle", "receiving"},
         UNCHANGED <<portal, active, validated, promoted, superseded, overlapped, agentFaults>>,
         current' \in Files, next' \in Files, history \subseteq history', history' \subseteq Locators,
         p \in {"copy", "locate"} => extraction[e].logins = 0,
         p \in {"open", "write", "rename"} => extraction[e].script \in validated,
         p \notin {"idle", "receiving", "ensure", "discover", "validate", "archive"},
         ASSUME Alone, UnderWay \subseteq {e}
         PROVE  /\ \A f \in current'.open : f = e /\ p = "copy"
                /\ \A f \in next'.open : f = e /\ p = "write"
                /\ p = "copy" => promoted = {}
                /\ p = "write" => next'.state = "empty" /\ e \in next'.open
                /\ p = "rename" => next'.state = "whole" /\ next'.script \in validated
                /\ p \in {"open", "write", "rename"} /\ current'.state = "whole" => current'.script \in history'
                /\ promoted # {} => current'.state = "whole" /\ current'.script \in promoted
  PROVE  AgentInv'
<1>1. PICK rec \in Extracting :
           /\ extraction' = [extraction EXCEPT ![e] = rec]
           /\ rec.pc = p /\ rec.logins = extraction[e].logins /\ rec.script = extraction[e].script
  BY ExtractMoves
<1>2. extraction' \in [Extractions -> Extracting] /\ extraction'[e] = rec
      /\ \A f \in Extractions \ {e} : extraction'[f] = extraction[f]
  BY <1>1 DEF AgentInv, AgentTypeOK, Extracting, Steps
<1>3. AgentTypeOK'
  BY <1>2 DEF AgentInv, AgentTypeOK, Extracting, Steps
<1>4. ASSUME NEW f \in Extractions PROVE Progress(f)'
  BY <1>1, <1>2 DEF AgentInv, Progress
<1>5. ASSUME ~overlapped' PROVE Alone'
  <2>1. Alone /\ UnderWay \subseteq {e}
    BY <1>5 DEF AgentInv, Alone, UnderWay
  <2>2. UnderWay' \subseteq {e}
    BY <1>2, <2>1 DEF UnderWay
  <2>3. \A f \in Extractions \ {e} : extraction'[f].pc \in {"idle", "receiving"}
    BY <2>2 DEF UnderWay
  <2>4. /\ \A f \in current'.open : f = e /\ p = "copy"
        /\ \A f \in next'.open : f = e /\ p = "write"
        /\ p = "copy" => promoted = {}
        /\ p = "write" => next'.state = "empty" /\ e \in next'.open
        /\ p = "rename" => next'.state = "whole" /\ next'.script \in validated
        /\ p \in {"open", "write", "rename"} /\ current'.state = "whole" => current'.script \in history'
        /\ promoted # {} => current'.state = "whole" /\ current'.script \in promoted
    BY <2>1
  <2>5. promoted \subseteq validated /\ superseded \subseteq history'
    BY <2>1 DEF Alone
  <2>6. QED BY <1>1, <1>2, <2>2, <2>3, <2>4, <2>5 DEF Alone
<1>6. QED BY <1>3, <1>4, <1>5 DEF AgentInv

LEMMA EnsureKeeps ==
  ASSUME AgentInv, NEW e \in Extractions, EnsureCurrent(e) \/ CopyDefault(e)
  PROVE  AgentInv'
<1>1. current \in Files /\ next \in Files /\ history \subseteq Locators /\ Default \in Locators
  BY NotExtractingType DEF AgentInv, AgentTypeOK
<1>2. CASE EnsureCurrent(e)
  <2>1. extraction[e].pc = "ensure" /\ extraction[e].logins = 0
        /\ UNCHANGED <<portal, active, next, history, validated, promoted, superseded, overlapped, agentFaults>>
    BY <1>2 DEF EnsureCurrent, AgentInv, Progress
  <2>2. CASE current.state = "missing"
    <3>1. current' = Opened(current, e) /\ Extract(e, "copy")
      BY <1>2, <2>2 DEF EnsureCurrent
    <3>2. ASSUME Alone PROVE promoted = {} /\ current.open = {} /\ next.open = {}
      <4>1. e \in UnderWay
        BY <2>1 DEF UnderWay
      <4>2. \A f \in Extractions \ {e} : extraction[f].pc \in {"idle", "receiving"}
        BY <3>2, <4>1 DEF Alone, UnderWay
      <4>3. QED BY <1>1, <2>1, <2>2, <3>2, <4>2 DEF Alone, Files
    <3>3. current' \in Files /\ current'.open = current.open \cup {e}
      BY <1>1, <3>1, OpenedType
    <3>4. QED BY <1>1, <2>1, <3>1, <3>2, <3>3, FileMove DEF Steps
  <2>3. CASE current.state # "missing"
    <3>1. Extract(e, "locate") /\ UNCHANGED current
      BY <1>2, <2>3 DEF EnsureCurrent
    <3>2. ASSUME Alone, UnderWay \subseteq {e} PROVE current.open = {} /\ next.open = {}
      <4>1. \A f \in Extractions \ {e} : extraction[f].pc \in {"idle", "receiving"}
        BY <3>2 DEF UnderWay
      <4>2. QED BY <1>1, <2>1, <3>2, <4>1 DEF Alone, Files
    <3>3. QED BY <1>1, <2>1, <3>1, <3>2, FileMove DEF Steps, Alone
  <2>4. QED BY <2>2, <2>3
<1>3. CASE CopyDefault(e)
  <2>1. extraction[e].pc = "copy" /\ extraction[e].logins = 0 /\ Extract(e, "locate")
        /\ UNCHANGED <<portal, active, next, history, validated, promoted, superseded, overlapped, agentFaults>>
    BY <1>3 DEF CopyDefault, AgentInv, Progress
  <2>2. current' \in Files /\ current'.open = current.open \ {e}
    <3>1. CASE e \in current.open
      BY <1>1, <1>3, <3>1, WrittenType DEF CopyDefault
    <3>2. CASE e \notin current.open
      BY <1>1, <1>3, <3>2 DEF CopyDefault
    <3>3. QED BY <3>1, <3>2
  <2>3. ASSUME Alone, UnderWay \subseteq {e} PROVE current'.open = {} /\ next.open = {} /\ promoted = {}
    <3>1. \A f \in Extractions \ {e} : extraction[f].pc \in {"idle", "receiving"}
      BY <2>3 DEF UnderWay
    <3>2. QED BY <1>1, <2>1, <2>2, <2>3, <3>1 DEF Alone, Files
  <2>4. QED BY <1>1, <2>1, <2>2, <2>3, FileMove DEF Steps
<1>4. QED BY <1>2, <1>3

LEMMA PromoteKeeps ==
  ASSUME AgentInv, NEW e \in Extractions, Archive(e) \/ OpenNext(e) \/ WriteNext(e)
  PROVE  AgentInv'
<1>1. current \in Files /\ next \in Files /\ history \subseteq Locators
  BY DEF AgentInv, AgentTypeOK
<1>2. extraction[e].pc \in {"archive", "open", "write"} /\ extraction[e].script \in validated
      /\ extraction[e].script \in Locators
      /\ UNCHANGED <<portal, active, validated, promoted, superseded, overlapped, agentFaults>>
  BY DEF Archive, OpenNext, WriteNext, AgentInv, AgentTypeOK, Progress
<1>3. ASSUME Alone, UnderWay \subseteq {e}
      PROVE  /\ current.open = {}
             /\ \A f \in next.open : f = e /\ extraction[e].pc = "write"
             /\ promoted # {} => current.state = "whole" /\ current.script \in promoted
  <2>1. \A f \in Extractions \ {e} : extraction[f].pc \in {"idle", "receiving"}
    BY <1>3 DEF UnderWay
  <2>2. QED BY <1>1, <1>2, <1>3, <2>1 DEF Alone, Files
<1>4. CASE Archive(e)
  <2>1. extraction[e].pc = "archive" /\ Extract(e, "open") /\ UNCHANGED <<current, next>>
        /\ history' = IF current.state = "whole" THEN history \cup {current.script} ELSE history
    BY <1>4 DEF Archive
  <2>2. current.script \in Locators
    BY <1>1 DEF Files
  <2>3. history \subseteq history' /\ history' \subseteq Locators
        /\ (current.state = "whole" => current.script \in history')
    BY <1>1, <2>1, <2>2
  <2>4. QED BY <1>1, <1>2, <1>3, <2>1, <2>3, FileMove DEF Steps
<1>5. CASE OpenNext(e)
  <2>1. extraction[e].pc = "open" /\ Extract(e, "write") /\ UNCHANGED <<current, history>>
        /\ next' = Opened(next, e)
    BY <1>5 DEF OpenNext
  <2>2. next' \in Files /\ next'.state = "empty" /\ next'.open = next.open \cup {e}
    BY <1>1, <2>1, OpenedType
  <2>3. ASSUME Alone PROVE current.state = "whole" => current.script \in history
    BY <2>1, <2>3 DEF Alone
  <2>4. QED BY <1>1, <1>2, <1>3, <2>1, <2>2, <2>3, FileMove DEF Steps
<1>6. CASE WriteNext(e)
  <2>1. extraction[e].pc = "write" /\ Extract(e, "rename") /\ UNCHANGED history
    BY <1>6 DEF WriteNext
  <2>a. /\ e \in next.open => next' \in Written(next, e, extraction[e].script)
        /\ e \notin next.open => next' = next
    BY <1>6 DEF WriteNext
  <2>b. /\ e \in current.open => current' \in Written(current, e, extraction[e].script)
        /\ e \notin current.open => current' = current
    BY <1>6 DEF WriteNext
  <2>2. /\ next' \in Files /\ next'.open = next.open \ {e}
        /\ e \in next.open /\ next.state = "empty" => next'.state = "whole" /\ next'.script = extraction[e].script
    <3>1. CASE e \in next.open
      <4>1. next' \in Written(next, e, extraction[e].script)
        BY <2>a, <3>1
      <4>2. QED BY <1>1, <1>2, <4>1, WrittenType
    <3>2. CASE e \notin next.open
      <4>1. next.open = next.open \ {e}
        BY <3>2
      <4>2. QED BY <1>1, <2>a, <3>2, <4>1
    <3>3. QED BY <3>1, <3>2
  <2>3. current' \in Files /\ (e \notin current.open => current' = current)
    <3>1. CASE e \in current.open
      <4>1. current' \in Written(current, e, extraction[e].script)
        BY <2>b, <3>1
      <4>2. QED BY <1>1, <1>2, <3>1, <4>1, WrittenType
    <3>2. CASE e \notin current.open
      BY <1>1, <2>b, <3>2
    <3>3. QED BY <3>1, <3>2
  <2>4. ASSUME Alone
        PROVE  /\ current.state = "whole" => current.script \in history
               /\ next.state = "empty" /\ e \in next.open
    BY <2>1, <2>4 DEF Alone
  <2>5. QED BY <1>1, <1>2, <1>3, <2>1, <2>2, <2>3, <2>4, FileMove DEF Steps
<1>7. QED BY <1>4, <1>5, <1>6

LEMMA RenameKeeps ==
  ASSUME AgentInv, NEW e \in Extractions, Rename(e)
  PROVE  AgentInv'
<1>1. /\ current \in Files /\ next \in Files /\ promoted \subseteq Locators /\ superseded \subseteq Locators
      /\ validated \subseteq Locators
  BY DEF AgentInv, AgentTypeOK
<1>2. extraction[e].pc = "rename" /\ Answer(e) /\ UNCHANGED <<portal, history, validated, overlapped, agentFaults>>
  BY DEF Rename
<1>3. CASE next.state = "missing"
  BY <1>2, <1>3, AnswerMoves DEF Rename
<1>4. CASE next.state # "missing"
  <2>1. /\ current' = next /\ next' = Missing
        /\ promoted' = promoted \cup {next.script}
        /\ superseded' = IF current.state = "whole" THEN superseded \cup {current.script} ELSE superseded
    BY <1>4 DEF Rename
  <2>2. /\ extraction' = [extraction EXCEPT ![e] = NotExtracting] /\ active' = FALSE
        /\ extraction' \in [Extractions -> Extracting] /\ extraction'[e].pc = "idle" /\ extraction'[e].logins = 0
        /\ \A f \in Extractions \ {e} : extraction'[f] = extraction[f]
    BY <1>2, NotExtractingType DEF Answer, AgentInv, AgentTypeOK, Extracting, Steps
  <2>3. AgentTypeOK'
    <3>1. next.script \in Locators /\ current.script \in Locators
      BY <1>1 DEF Files
    <3>2. /\ current' \in Files /\ next' \in Files /\ promoted' \subseteq Locators
          /\ superseded' \subseteq Locators
      BY <1>1, <2>1, <3>1, NotExtractingType
    <3>3. QED BY <1>2, <2>2, <3>2 DEF AgentInv, AgentTypeOK, Extracting, Steps
  <2>4. ASSUME NEW f \in Extractions PROVE Progress(f)'
    BY <1>2, <2>2 DEF AgentInv, Progress
  <2>5. ASSUME ~overlapped' PROVE Alone'
    <3>1. Alone /\ UnderWay \subseteq {e}
      BY <1>2, <2>5 DEF AgentInv, Alone, UnderWay
    <3>2. \A f \in Extractions : extraction'[f].pc \in {"idle", "receiving"}
      BY <2>2, <3>1 DEF UnderWay
    <3>3. next.state = "whole" /\ next.script \in validated /\ next.open = {}
      <4>1. \A f \in Extractions : extraction[f].pc # "write"
        BY <1>2, <3>1 DEF UnderWay
      <4>2. QED BY <1>1, <1>2, <3>1, <4>1 DEF Alone, Files
    <3>4. current.state = "whole" => current.script \in history
      BY <1>2, <3>1 DEF Alone
    <3>5. promoted' \subseteq validated /\ superseded' \subseteq history
      BY <2>1, <3>1, <3>3, <3>4 DEF Alone
    <3>6. QED BY <1>2, <2>1, <3>2, <3>3, <3>5, NotExtractingType DEF Alone, UnderWay
  <2>6. QED BY <2>3, <2>4, <2>5 DEF AgentInv
<1>5. QED BY <1>3, <1>4

LEMMA WorldKeeps ==
  ASSUME AgentInv, PortalMoves \/ AgentCrash
  PROVE  AgentInv'
<1>1. CASE PortalMoves
  <2>1. portal' \in Locators
    BY <1>1, KeyAgentAssumption DEF PortalMoves, AgentInv, AgentTypeOK, Locators
  <2>2. UNCHANGED <<active, extraction, current, next, history, validated, promoted, superseded, overlapped, agentFaults>>
    BY <1>1 DEF PortalMoves
  <2>3. QED BY <2>1, <2>2 DEF AgentInv, AgentTypeOK, Alone, UnderWay, Progress
<1>2. CASE AgentCrash
  <2>1. /\ extraction' = [e \in Extractions |-> NotExtracting] /\ active' = FALSE
        /\ current' = [current EXCEPT !.open = {}] /\ next' = [next EXCEPT !.open = {}]
        /\ UNCHANGED <<portal, history, validated, promoted, superseded, overlapped>>
        /\ agentFaults' \in 0 .. AgentFaults
    BY <1>2, KeyAgentAssumption DEF AgentCrash, AgentInv, AgentTypeOK
  <2>2. /\ current' \in Files /\ next' \in Files
        /\ current'.open = {} /\ current'.state = current.state /\ current'.script = current.script
        /\ next'.open = {}
    BY <2>1 DEF AgentInv, AgentTypeOK, Files
  <2>3. \A e \in Extractions : extraction'[e] = NotExtracting
    BY <2>1
  <2>4. AgentTypeOK'
    BY <2>1, <2>2, NotExtractingType DEF AgentInv, AgentTypeOK, Extracting, Steps
  <2>5. ASSUME NEW e \in Extractions PROVE Progress(e)'
    BY <2>3, NotExtractingType DEF Progress
  <2>6. ASSUME ~overlapped' PROVE Alone'
    BY <2>1, <2>2, <2>3, <2>6, NotExtractingType DEF AgentInv, Alone, UnderWay
  <2>7. QED BY <2>4, <2>5, <2>6 DEF AgentInv
<1>3. QED BY <1>1, <1>2

LEMMA AgentInitially == AgentInit => AgentInv
<1> SUFFICES ASSUME AgentInit PROVE AgentInv
  OBVIOUS
<1>1. AgentTypeOK
  <2>1. portal \in Locators /\ agentFaults \in 0 .. AgentFaults
    BY KeyAgentAssumption DEF AgentInit, Locators
  <2>2. extraction \in [Extractions -> Extracting]
    BY NotExtractingType DEF AgentInit
  <2>3. QED BY <2>1, <2>2, NotExtractingType DEF AgentInit, AgentTypeOK, Extracting, Steps
<1>2. QED BY <1>1, NotExtractingType DEF AgentInit, AgentInv, Alone, Progress, UnderWay

LEMMA AgentStepKeeps ==
  ASSUME AgentInv, [AgentNext]_agentVars
  PROVE  AgentInv'
<1>1. CASE UNCHANGED agentVars
  BY <1>1 DEF agentVars, AgentInv, AgentTypeOK, Alone, UnderWay, Progress
<1>2. ASSUME NEW e \in Extractions, AgentStep(e) PROVE AgentInv'
  BY <1>2, RequestKeeps, EndOfRequestKeeps, EnsureKeeps, SessionKeeps, DiscoveryKeeps, PromoteKeeps, RenameKeeps
     DEF AgentStep, Promote
<1>3. QED BY <1>1, <1>2, WorldKeeps DEF AgentNext

\* For every number of requests, attempts, moves of the key and deaths of the agent: the locator in
\* use is whole and has found the key, none that was in use is lost, and the account is logged into
\* twice at the most.
THEOREM LocatorsAreKept == AgentSpec => []LocatorIsKept
<1>1. AgentInv => LocatorIsKept
  BY DEF AgentInv, Alone, LocatorIsKept
<1>2. QED BY <1>1, AgentInitially, AgentStepKeeps, PTL DEF AgentSpec

-----------------------------------------------------------------------------
(* The accounts                                                            *)

Persons == [status : {"ABSENT", "PENDING_VERIFICATION", "ACTIVE", "DISABLED"}, role : {"USER", "ADMIN"},
            verified : BOOLEAN, version : 0 .. MaxVersion, password : 0 .. MaxVersion + 1]
Mailed == [kind : {"verify", "reset"}, user : Users, state : {"live", "consumed", "expired", "gone"}]
Logins == [pc : {"comparing", "token"}, user : Users, version : 0 .. MaxVersion,
           hash : 1 .. MaxVersion + 1, given : 0 .. MaxVersion + 1]
Patches == [pc : {"tx"}, by : Users, user : Users, role : Roles, state : States]

AccountRows ==
  /\ users \in [Users -> Persons]
  /\ links \in [Links -> {NoLink} \cup Mailed]
  /\ sessions \in [Sessions -> {NoSession} \cup Logins]
  /\ recovery \subseteq Links
  /\ changes \in [Changes -> {NoChange} \cup Patches]

\* A version stands for one password.
Known(c) ==
  LET row == users[sessions[c].user] IN
  /\ row.status # "ABSENT"
  /\ sessions[c].version <= row.version
  /\ sessions[c].version = row.version => sessions[c].hash = row.password
  /\ sessions[c].pc = "token" => sessions[c].given = sessions[c].hash

SomeAdmin == \E u \in Users : users[u].role = "ADMIN" /\ users[u].status = "ACTIVE"

AccountsInv ==
  /\ AccountRows
  /\ \A u \in Users : users[u].status # "ABSENT" => users[u].password \in 1 .. users[u].version + 1
  /\ \A l \in Links : links[l].kind = "reset" => users[links[l].user].status # "ABSENT"
  /\ \A l \in recovery : links[l].kind = "reset"
  /\ \A c \in Sessions : sessions[c].pc # "none" => Known(c)
  /\ \A x \in Changes : changes[x].pc = "tx" => users[changes[x].user].status # "ABSENT"
  /\ SomeAdmin

LEMMA EmptyRows ==
  /\ NoLink.kind = "none" /\ NoLink.state = "none"
  /\ NoSession.pc = "none" /\ NoSession \notin Logins
  /\ NoChange.pc = "none" /\ NoChange \notin Patches
<1>1. NoLink.kind = "none" /\ NoLink.state = "none" /\ NoSession.pc = "none" /\ NoChange.pc = "none"
  BY DEF NoLink, NoSession, NoChange
<1>2. \A x \in Logins : x.pc # "none"
  BY DEF Logins
<1>3. \A x \in Patches : x.pc # "none"
  BY DEF Patches
<1>4. QED BY <1>1, <1>2, <1>3

LEMMA MailedLinks ==
  ASSUME AccountRows, NEW l \in Links, links[l].kind # "none"
  PROVE  links[l] \in Mailed /\ links[l].user \in Users
<1>1. links[l] \in Mailed
  BY EmptyRows DEF AccountRows
<1>2. QED BY <1>1 DEF Mailed

LEMMA OpenSessions ==
  ASSUME AccountRows, NEW c \in Sessions, sessions[c].pc # "none"
  PROVE  sessions[c] \in Logins /\ sessions[c].user \in Users /\ sessions[c].version \in 0 .. MaxVersion
<1>1. sessions[c] \in Logins
  BY EmptyRows DEF AccountRows
<1>2. QED BY <1>1 DEF Logins

LEMMA OpenChanges ==
  ASSUME AccountRows, NEW x \in Changes, changes[x].pc # "none"
  PROVE  changes[x] \in Patches /\ changes[x].user \in Users
<1>1. changes[x] \in Patches
  BY EmptyRows DEF AccountRows
<1>2. QED BY <1>1 DEF Patches

\* Only links move; a link for a recovery is of an account.
LEMMA LinksKeep ==
  ASSUME AccountsInv, UNCHANGED <<users, sessions, changes>>,
         links' \in [Links -> {NoLink} \cup Mailed], recovery' \subseteq Links,
         \A l \in Links : links'[l].kind = "reset" => users[links'[l].user].status # "ABSENT",
         \A l \in recovery' : links'[l].kind = "reset"
  PROVE  AccountsInv'
BY DEF AccountsInv, AccountRows, Known, SomeAdmin

\* An account moves: another password takes another version, and an administrator is left.
LEMMA UserKeeps ==
  ASSUME AccountsInv, UNCHANGED sessions,
         NEW u \in Users, NEW row \in Persons, users' = [users EXCEPT ![u] = row],
         row.status # "ABSENT", row.password \in 1 .. row.version + 1,
         \/ users[u].status = "ABSENT"
         \/ users[u].version <= row.version /\ (users[u].version = row.version => users[u].password = row.password),
         links' \in [Links -> {NoLink} \cup Mailed],
         \A l \in Links : links'[l].kind = "reset" => links[l].kind = "reset" /\ links[l].user = links'[l].user,
         recovery' \subseteq recovery, \A l \in recovery' : links'[l].kind = "reset",
         changes' \in [Changes -> {NoChange} \cup Patches],
         \A x \in Changes : changes'[x].pc = "tx" => changes[x].pc = "tx" /\ changes'[x].user = changes[x].user,
         \/ row.role = "ADMIN" /\ row.status = "ACTIVE"
         \/ ~(users[u].role = "ADMIN" /\ users[u].status = "ACTIVE")
         \/ \E v \in Users \ {u} : users[v].role = "ADMIN" /\ users[v].status = "ACTIVE"
  PROVE  AccountsInv'
<1>1. /\ users' \in [Users -> Persons] /\ users'[u] = row
      /\ \A v \in Users \ {u} : users'[v] = users[v]
  BY DEF AccountsInv, AccountRows
<1>2. \A v \in Users : users[v].status # "ABSENT" => users'[v].status # "ABSENT"
  BY <1>1
<1>3. AccountRows'
  BY <1>1 DEF AccountsInv, AccountRows
<1>4. ASSUME NEW v \in Users, users'[v].status # "ABSENT" PROVE users'[v].password \in 1 .. users'[v].version + 1
  BY <1>1, <1>4 DEF AccountsInv
<1>5. ASSUME NEW l \in Links, links'[l].kind = "reset" PROVE users'[links'[l].user].status # "ABSENT"
  <2>1. links[l].kind = "reset" /\ links[l].user = links'[l].user
    BY <1>5
  <2>2. links[l].user \in Users
    BY <2>1, MailedLinks DEF AccountsInv
  <2>3. QED BY <1>2, <2>1, <2>2 DEF AccountsInv
<1>6. ASSUME NEW c \in Sessions, sessions'[c].pc # "none" PROVE Known(c)'
  <2>1. Known(c) /\ sessions[c].user \in Users /\ sessions[c].version \in 0 .. MaxVersion
    BY <1>6, OpenSessions DEF AccountsInv
  <2>2. CASE sessions[c].user # u
    BY <1>1, <2>1, <2>2 DEF Known
  <2>3. CASE sessions[c].user = u
    <3>1. /\ users[u].version <= row.version
          /\ users[u].version = row.version => users[u].password = row.password
      BY <2>1, <2>3 DEF Known
    <3>2. users[u].version \in 0 .. MaxVersion /\ row.version \in 0 .. MaxVersion
      BY DEF AccountsInv, AccountRows, Persons
    <3>3. sessions[c].version <= users[u].version
          /\ (sessions[c].version = users[u].version => sessions[c].hash = users[u].password)
          /\ (sessions[c].pc = "token" => sessions[c].given = sessions[c].hash)
      BY <2>1, <2>3 DEF Known
    <3>4. sessions[c].version <= row.version
      BY <2>1, <3>1, <3>2, <3>3
    <3>5. sessions[c].version = row.version => sessions[c].hash = row.password
      BY <2>1, <3>1, <3>2, <3>3
    <3>6. QED BY <1>1, <2>3, <3>3, <3>4, <3>5 DEF Known
  <2>4. QED BY <2>2, <2>3
<1>7. ASSUME NEW x \in Changes, changes'[x].pc = "tx" PROVE users'[changes'[x].user].status # "ABSENT"
  <2>1. changes[x].pc = "tx" /\ changes'[x].user = changes[x].user
    BY <1>7
  <2>2. changes[x].user \in Users
    BY <2>1, OpenChanges DEF AccountsInv
  <2>3. QED BY <1>2, <2>1, <2>2 DEF AccountsInv
<1>8. SomeAdmin'
  <2>1. PICK v \in Users : users[v].role = "ADMIN" /\ users[v].status = "ACTIVE"
    BY DEF AccountsInv, SomeAdmin
  <2>2. CASE v # u
    BY <1>1, <2>1, <2>2 DEF SomeAdmin
  <2>3. CASE v = u
    BY <1>1, <2>1, <2>3 DEF SomeAdmin
  <2>4. QED BY <2>2, <2>3
<1>9. QED BY <1>3, <1>4, <1>5, <1>6, <1>7, <1>8 DEF AccountsInv

LEMMA IssuedType ==
  ASSUME NEW l, NEW kind \in {"verify", "reset"}, NEW u \in Users
  PROVE  Issued(l, kind, u) \in Mailed /\ Issued(l, kind, u).kind = kind /\ Issued(l, kind, u).user = u
BY DEF Issued, Mailed

LEMMA RetiredType ==
  ASSUME AccountRows, NEW kind \in {"verify", "reset"}, NEW u, NEW state \in {"gone", "consumed"}
  PROVE  /\ Retired(kind, u, state) \in [Links -> {NoLink} \cup Mailed]
         /\ \A l \in Links : /\ Retired(kind, u, state)[l].kind = links[l].kind
                             /\ Retired(kind, u, state)[l].user = links[l].user
<1>1. ASSUME NEW l \in Links
      PROVE  /\ Retired(kind, u, state)[l] \in {NoLink} \cup Mailed
             /\ Retired(kind, u, state)[l].kind = links[l].kind
             /\ Retired(kind, u, state)[l].user = links[l].user
  <2>1. CASE Usable(l, kind) /\ links[l].user = u
    <3>1. links[l] \in Mailed
      BY <2>1, MailedLinks DEF Usable
    <3>2. Retired(kind, u, state)[l] = [links[l] EXCEPT !.state = state]
      BY <2>1 DEF Retired
    <3>3. QED BY <3>1, <3>2 DEF Mailed
  <2>2. CASE ~(Usable(l, kind) /\ links[l].user = u)
    BY <2>2 DEF Retired, AccountRows
  <2>3. QED BY <2>1, <2>2
<1>2. QED BY <1>1 DEF Retired

LEMMA StateOfLink ==
  ASSUME AccountRows, NEW l \in Links, links[l].kind # "none", NEW state \in {"consumed", "expired"}
  PROVE  /\ [links EXCEPT ![l].state = state] \in [Links -> {NoLink} \cup Mailed]
         /\ \A k \in Links : /\ [links EXCEPT ![l].state = state][k].kind = links[k].kind
                             /\ [links EXCEPT ![l].state = state][k].user = links[k].user
<1>1. links[l] \in Mailed
  BY MailedLinks
<1> DEFINE link == [links[l] EXCEPT !.state = state]
<1>2. link \in Mailed /\ link.kind = links[l].kind /\ link.user = links[l].user
  BY <1>1 DEF Mailed
<1>3. [links EXCEPT ![l].state = state] = [links EXCEPT ![l] = link]
  BY DEF AccountRows
<1> HIDE DEF link
<1>4. QED BY <1>2, <1>3 DEF AccountRows

\* The updates of one field of an account.
LEMMA VersionUpdate ==
  ASSUME NEW row \in Persons, NEW n \in 0 .. MaxVersion
  PROVE  LET new == [row EXCEPT !.version = n]
         IN  /\ new \in Persons /\ new.version = n /\ new.password = row.password
             /\ new.status = row.status /\ new.role = row.role
BY DEF Persons

LEMMA PasswordUpdate ==
  ASSUME NEW row \in Persons, NEW n \in 0 .. MaxVersion + 1
  PROVE  LET new == [row EXCEPT !.password = n]
         IN  /\ new \in Persons /\ new.version = row.version /\ new.password = n
             /\ new.status = row.status /\ new.role = row.role
BY DEF Persons

LEMMA StatusUpdate ==
  ASSUME NEW row \in Persons, NEW s \in {"ABSENT", "PENDING_VERIFICATION", "ACTIVE", "DISABLED"}
  PROVE  LET new == [row EXCEPT !.status = s]
         IN  /\ new \in Persons /\ new.version = row.version /\ new.password = row.password
             /\ new.status = s /\ new.role = row.role
BY DEF Persons

LEMMA VerifiedUpdate ==
  ASSUME NEW row \in Persons
  PROVE  LET new == [row EXCEPT !.verified = TRUE]
         IN  /\ new \in Persons /\ new.version = row.version /\ new.password = row.password
             /\ new.status = row.status /\ new.role = row.role
BY DEF Persons

LEMMA RoleUpdate ==
  ASSUME NEW row \in Persons, NEW r \in {"USER", "ADMIN"}
  PROVE  LET new == [row EXCEPT !.role = r]
         IN  /\ new \in Persons /\ new.version = row.version /\ new.password = row.password
             /\ new.status = row.status /\ new.role = r
BY DEF Persons

LEMMA RegisterKeeps ==
  ASSUME AccountsInv, NEW u \in Users, NEW l \in Links, Register(u, l)
  PROVE  AccountsInv'
<1> DEFINE a == [NoUser EXCEPT !.status = "PENDING_VERIFICATION"]
           row == [a EXCEPT !.password = 1]
<1>1. NoUser \in Persons /\ NoUser.version = 0 /\ 1 \in 0 .. MaxVersion + 1
  BY AccountsAssumption DEF NoUser, Persons
<1>a. a \in Persons /\ a.status = "PENDING_VERIFICATION" /\ a.version = 0
  BY <1>1, StatusUpdate
<1> HIDE DEF a
<1>2. row \in Persons /\ row.status = "PENDING_VERIFICATION" /\ row.password = 1 /\ row.version = 0
  BY <1>1, <1>a, PasswordUpdate
<1> USE DEF a
<1>3. users[u].status = "ABSENT" /\ users' = [users EXCEPT ![u] = row] /\ UNCHANGED <<sessions, recovery, changes>>
      /\ links' = [links EXCEPT ![l] = Issued(l, "verify", u)] /\ links[l].kind = "none"
  BY EmptyRows DEF Register, Fresh
<1> HIDE DEF a, row
<1>4. /\ links' \in [Links -> {NoLink} \cup Mailed]
      /\ \A k \in Links : links'[k].kind = "reset" => links[k].kind = "reset" /\ links[k].user = links'[k].user
  BY <1>3, IssuedType DEF AccountsInv, AccountRows
<1>5. \A k \in recovery : links'[k].kind = "reset"
  <2>1. \A k \in recovery : links[k].kind = "reset" /\ k \in Links /\ k # l
    BY <1>3 DEF AccountsInv, AccountRows
  <2>2. QED BY <1>3, <2>1 DEF AccountsInv, AccountRows
<1>6. row.status # "ABSENT" /\ row.password \in 1 .. row.version + 1
  BY <1>2
<1>7. ~(users[u].role = "ADMIN" /\ users[u].status = "ACTIVE")
  BY <1>3
<1>8. /\ changes' \in [Changes -> {NoChange} \cup Patches]
      /\ \A x \in Changes : changes'[x].pc = "tx" => changes[x].pc = "tx" /\ changes'[x].user = changes[x].user
  BY <1>3 DEF AccountsInv, AccountRows
<1>9. QED BY <1>2, <1>3, <1>4, <1>5, <1>6, <1>7, <1>8, UserKeeps

\* A new link is sent in the place of those before it.
LEMMA LinkIsSent ==
  ASSUME AccountsInv, NEW u \in Users, NEW l \in Links, NEW kind \in {"verify", "reset"},
         NEW state \in {"gone", "consumed"}, Fresh(l), users[u].status # "ABSENT",
         links' = [Retired(kind, u, state) EXCEPT ![l] = Issued(l, kind, u)],
         UNCHANGED <<users, sessions, recovery, changes>>
  PROVE  AccountsInv'
<1>1. /\ Retired(kind, u, state) \in [Links -> {NoLink} \cup Mailed]
      /\ \A k \in Links : /\ Retired(kind, u, state)[k].kind = links[k].kind
                          /\ Retired(kind, u, state)[k].user = links[k].user
  BY RetiredType DEF AccountsInv
<1>2. links' \in [Links -> {NoLink} \cup Mailed]
  BY <1>1, IssuedType
<1>3. /\ links'[l].kind = kind /\ links'[l].user = u
      /\ \A k \in Links \ {l} : links'[k].kind = links[k].kind /\ links'[k].user = links[k].user
  BY <1>1, IssuedType
<1>4. \A k \in recovery : links[k].kind = "reset" /\ k \in Links /\ k # l
  BY EmptyRows DEF Fresh, AccountsInv, AccountRows
<1>5. \A k \in recovery : links'[k].kind = "reset"
  BY <1>3, <1>4
<1>6. \A k \in Links : links'[k].kind = "reset" => users[links'[k].user].status # "ABSENT"
  BY <1>3 DEF AccountsInv
<1>7. recovery' \subseteq Links
  BY DEF AccountsInv, AccountRows
<1>8. QED BY <1>2, <1>5, <1>6, <1>7, LinksKeep

LEMMA LinkKeeps ==
  ASSUME AccountsInv, NEW l \in Links, LinkExpires(l) \/ OpenReset(l)
  PROVE  AccountsInv'
<1>1. CASE LinkExpires(l)
  <2>1. links[l].kind # "none" /\ links' = [links EXCEPT ![l].state = "expired"]
        /\ UNCHANGED <<users, sessions, recovery, changes>>
    <3>1. links[l] # NoLink
      BY <1>1, EmptyRows DEF LinkExpires
    <3>2. links[l] \in Mailed
      BY <3>1 DEF AccountsInv, AccountRows
    <3>3. QED BY <1>1, <3>2 DEF LinkExpires, Mailed
  <2>2. /\ links' \in [Links -> {NoLink} \cup Mailed]
        /\ \A k \in Links : links'[k].kind = links[k].kind /\ links'[k].user = links[k].user
    BY <2>1, StateOfLink DEF AccountsInv
  <2>3. QED BY <2>1, <2>2, LinksKeep DEF AccountsInv, AccountRows
<1>2. CASE OpenReset(l)
  BY <1>2, LinksKeep DEF OpenReset, AccountsInv, AccountRows
<1>3. QED BY <1>1, <1>2

LEMMA VerifyEmailKeeps ==
  ASSUME AccountsInv, NEW l \in Links, VerifyEmail(l)
  PROVE  AccountsInv'
<1> DEFINE u == links[l].user
           a == [users[u] EXCEPT !.status = "ACTIVE"]
           b == [a EXCEPT !.verified = TRUE]
           row == [b EXCEPT !.version = users[u].version + 1]
<1>1. /\ links[l].kind = "verify" /\ users[u].status = "PENDING_VERIFICATION"
      /\ users[u].version < MaxVersion /\ UNCHANGED <<sessions, recovery, changes>>
      /\ links' = [links EXCEPT ![l].state = "consumed"]
  BY DEF VerifyEmail, Usable
<1>2. u \in Users
  BY <1>1, MailedLinks DEF AccountsInv
<1>3. users[u] \in Persons
  BY <1>2 DEF AccountsInv, AccountRows
<1>4. users' = [users EXCEPT ![u] = row]
  <2>1. users' = [users EXCEPT ![u] = AsVerified(users[u])]
    BY DEF VerifyEmail
  <2>2. AsVerified(users[u]) = row
    BY <1>3 DEF AsVerified, Persons
  <2>3. QED BY <2>1, <2>2
<1>5. /\ links' \in [Links -> {NoLink} \cup Mailed]
      /\ \A k \in Links : links'[k].kind = links[k].kind /\ links'[k].user = links[k].user
  BY <1>1, StateOfLink DEF AccountsInv
<1>6. users[u].version + 1 \in 0 .. MaxVersion /\ users[u].version \in 0 .. MaxVersion
  BY <1>1, <1>3, AccountsAssumption DEF Persons
<1>7. users[u].password \in 1 .. users[u].version + 1
  BY <1>1, <1>2 DEF AccountsInv
<1> HIDE DEF u
<1>8. a \in Persons /\ a.status = "ACTIVE" /\ a.password = users[u].password
  BY <1>3, StatusUpdate
<1> HIDE DEF a
<1>9. b \in Persons /\ b.status = "ACTIVE" /\ b.password = users[u].password
  BY <1>8, VerifiedUpdate
<1> HIDE DEF b
<1>10. row \in Persons /\ row.status = "ACTIVE" /\ row.password = users[u].password /\ row.version = users[u].version + 1
  BY <1>6, <1>9, VersionUpdate
<1> HIDE DEF row
<1>11. /\ row.status # "ABSENT" /\ row.password \in 1 .. row.version + 1
       /\ users[u].version <= row.version /\ users[u].version # row.version
  BY <1>6, <1>7, <1>10
<1>12. ~(users[u].role = "ADMIN" /\ users[u].status = "ACTIVE")
  BY <1>1
<1>13. /\ changes' \in [Changes -> {NoChange} \cup Patches] /\ recovery' \subseteq recovery
       /\ \A k \in recovery' : links'[k].kind = "reset"
       /\ \A x \in Changes : changes'[x].pc = "tx" => changes[x].pc = "tx" /\ changes'[x].user = changes[x].user
  BY <1>1, <1>5 DEF AccountsInv, AccountRows
<1>14. QED BY <1>1, <1>2, <1>4, <1>5, <1>10, <1>11, <1>12, <1>13, UserKeeps

LEMMA ResetPasswordKeeps ==
  ASSUME AccountsInv, NEW l \in Links, ResetPassword(l)
  PROVE  AccountsInv'
<1> DEFINE u == links[l].user
<1>1. /\ l \in recovery /\ recovery' = recovery \ {l} /\ UNCHANGED <<sessions, changes>>
      /\ links[l].kind = "reset"
  BY DEF ResetPassword, AccountsInv
<1>2. CASE links[l].state = "live"
  <2> DEFINE a == [users[u] EXCEPT !.password = users[u].password + 1]
             row == [a EXCEPT !.version = users[u].version + 1]
  <2>1. /\ users[u].version < MaxVersion /\ links' = Retired("reset", u, "consumed")
        /\ users' = [users EXCEPT ![u] = WithPassword(users[u])]
    BY <1>2 DEF ResetPassword
  <2>2. u \in Users /\ users[u].status # "ABSENT"
    BY <1>1, MailedLinks DEF AccountsInv
  <2>3. users[u] \in Persons
    BY <2>2 DEF AccountsInv, AccountRows
  <2>4. users' = [users EXCEPT ![u] = row]
    BY <2>1, <2>3 DEF WithPassword, Persons
  <2>5. /\ links' \in [Links -> {NoLink} \cup Mailed]
        /\ \A k \in Links : links'[k].kind = links[k].kind /\ links'[k].user = links[k].user
    BY <2>1, RetiredType DEF AccountsInv
  <2>6. /\ users[u].version + 1 \in 0 .. MaxVersion /\ users[u].version \in 0 .. MaxVersion
    BY <2>1, <2>3, AccountsAssumption DEF Persons
  <2>7. users[u].password \in 1 .. users[u].version + 1
    BY <2>2 DEF AccountsInv
  <2>8. users[u].password + 1 \in 0 .. MaxVersion + 1
    BY <2>6, <2>7, AccountsAssumption
  <2> HIDE DEF u
  <2>9. a \in Persons /\ a.status = users[u].status /\ a.role = users[u].role /\ a.password = users[u].password + 1
    BY <2>3, <2>8, PasswordUpdate
  <2> HIDE DEF a
  <2>10. /\ row \in Persons /\ row.status = users[u].status /\ row.role = users[u].role
         /\ row.password = users[u].password + 1 /\ row.version = users[u].version + 1
    BY <2>6, <2>9, VersionUpdate
  <2> HIDE DEF row
  <2>11. /\ row.status # "ABSENT" /\ row.password \in 1 .. row.version + 1
         /\ users[u].version <= row.version /\ users[u].version # row.version
    BY <2>2, <2>6, <2>7, <2>10
  <2>12. /\ changes' \in [Changes -> {NoChange} \cup Patches] /\ recovery' \subseteq recovery
         /\ \A k \in recovery' : links'[k].kind = "reset"
         /\ \A x \in Changes : changes'[x].pc = "tx" => changes[x].pc = "tx" /\ changes'[x].user = changes[x].user
    BY <1>1, <2>5 DEF AccountsInv, AccountRows
  <2>13. QED BY <1>1, <2>2, <2>4, <2>5, <2>10, <2>11, <2>12, UserKeeps
<1>3. CASE links[l].state # "live"
  <2>1. UNCHANGED <<links, users>>
    BY <1>3 DEF ResetPassword
  <2>2. QED BY <1>1, <2>1, LinksKeep DEF AccountsInv, AccountRows
<1>4. QED BY <1>2, <1>3

\* Where more than one is active, one is left when an administrator is taken away.
LEMMA AnotherAdmin ==
  ASSUME NEW u, Cardinality(ActiveAdmins) > 1
  PROVE  \E v \in Users \ {u} : users[v].role = "ADMIN" /\ users[v].status = "ACTIVE"
<1> SUFFICES ASSUME ActiveAdmins \subseteq {u} PROVE FALSE
  BY DEF ActiveAdmins
<1>1. IsFiniteSet({u}) /\ Cardinality({u}) = 1
  BY FS_Singleton
<1>2. Cardinality(ActiveAdmins) \in Nat /\ Cardinality(ActiveAdmins) <= 1
  BY <1>1, FS_Subset, FS_CardinalityType
<1>3. QED BY <1>2

LEMMA ChangeAccessKeeps ==
  ASSUME AccountsInv, NEW x \in Changes, ChangeAccess(x)
  PROVE  AccountsInv'
<1> DEFINE r == changes[x]
           u == r.user
<1>1. /\ r.pc = "tx" /\ changes' = [changes EXCEPT ![x] = NoChange] /\ UNCHANGED <<links, sessions, recovery>>
  BY DEF ChangeAccess
<1>2. r \in Patches /\ u \in Users /\ users[u].status # "ABSENT"
  BY <1>1, OpenChanges DEF AccountsInv
<1>3. /\ changes' \in [Changes -> {NoChange} \cup Patches]
      /\ \A y \in Changes : changes'[y].pc = "tx" => changes[y].pc = "tx" /\ changes'[y].user = changes[y].user
  BY <1>1, EmptyRows DEF AccountsInv, AccountRows
<1>4. CASE Allowed(r)
  <2> DEFINE role == IF r.role = "same" THEN users[u].role ELSE r.role
             status == IF r.state = "same" THEN users[u].status ELSE r.state
             a == [users[u] EXCEPT !.role = role]
             b == [a EXCEPT !.status = status]
             row == [b EXCEPT !.version = users[u].version + 1]
  <2>1. users[u] \in Persons
    BY <1>2 DEF AccountsInv, AccountRows
  <2>a. users' = [users EXCEPT ![u] = AsPatched(users[u], r)]
    BY <1>4 DEF ChangeAccess
  <2>b. AsPatched(users[u], r) = row
    BY <2>1 DEF AsPatched, Persons
  <2>c. users[u].version < MaxVersion
    BY <1>4 DEF ChangeAccess
  <2>2. users[u].version < MaxVersion /\ users' = [users EXCEPT ![u] = row]
    BY <2>a, <2>b, <2>c
  <2>3. /\ role \in {"USER", "ADMIN"}
        /\ status \in {"ABSENT", "PENDING_VERIFICATION", "ACTIVE", "DISABLED"} /\ status # "ABSENT"
    BY <1>2, <2>1 DEF Patches, Persons, Roles, States
  <2>4. users[u].version + 1 \in 0 .. MaxVersion /\ users[u].version \in 0 .. MaxVersion
    BY <2>1, <2>2, AccountsAssumption DEF Persons
  <2>5. users[u].password \in 1 .. users[u].version + 1
    BY <1>2 DEF AccountsInv
  <2>6. \/ role = "ADMIN" /\ status = "ACTIVE"
        \/ ~(users[u].role = "ADMIN" /\ users[u].status = "ACTIVE")
        \/ Cardinality(ActiveAdmins) > 1
    <3>1. CASE TakesAway(r)
      BY <1>4, <3>1 DEF Allowed
    <3>2. CASE ~TakesAway(r)
      BY <1>2, <3>2 DEF TakesAway, Patches, Roles, States
    <3>3. QED BY <3>1, <3>2
  <2>7. \/ role = "ADMIN" /\ status = "ACTIVE"
        \/ ~(users[u].role = "ADMIN" /\ users[u].status = "ACTIVE")
        \/ \E v \in Users \ {u} : users[v].role = "ADMIN" /\ users[v].status = "ACTIVE"
    BY <2>6, AnotherAdmin
  <2> HIDE DEF u, role, status
  <2>8. a \in Persons /\ a.role = role /\ a.password = users[u].password
    BY <2>1, <2>3, RoleUpdate
  <2> HIDE DEF a
  <2>9. b \in Persons /\ b.role = role /\ b.status = status /\ b.password = users[u].password
    BY <2>3, <2>8, StatusUpdate
  <2> HIDE DEF b
  <2>10. /\ row \in Persons /\ row.role = role /\ row.status = status /\ row.password = users[u].password
         /\ row.version = users[u].version + 1
    BY <2>4, <2>9, VersionUpdate
  <2> HIDE DEF row
  <2>11. /\ row.status # "ABSENT" /\ row.password \in 1 .. row.version + 1
         /\ users[u].version <= row.version /\ users[u].version # row.version
    BY <2>3, <2>4, <2>5, <2>10
  <2>12. /\ links' \in [Links -> {NoLink} \cup Mailed] /\ recovery' \subseteq recovery
         /\ \A k \in recovery' : links'[k].kind = "reset"
         /\ \A k \in Links : links'[k].kind = links[k].kind /\ links'[k].user = links[k].user
    BY <1>1 DEF AccountsInv, AccountRows
  <2>13. \/ row.role = "ADMIN" /\ row.status = "ACTIVE"
         \/ ~(users[u].role = "ADMIN" /\ users[u].status = "ACTIVE")
         \/ \E v \in Users \ {u} : users[v].role = "ADMIN" /\ users[v].status = "ACTIVE"
    BY <2>7, <2>10
  <2>14. u \in Users
    BY <1>2 DEF u
  <2>15. UNCHANGED sessions
    BY <1>1
  <2>16. QED BY <1>3, <2>2, <2>10, <2>11, <2>12, <2>13, <2>14, <2>15, UserKeeps
<1>5. CASE ~Allowed(r)
  <2>1. UNCHANGED users
    BY <1>5 DEF ChangeAccess
  <2>2. QED BY <1>1, <1>3, <2>1 DEF AccountsInv, AccountRows, Known, SomeAdmin
<1>6. QED BY <1>4, <1>5

\* Only the sessions move.
LEMMA SessionsKeep ==
  ASSUME AccountsInv, NEW c \in Sessions, NEW s \in {NoSession} \cup Logins,
         sessions' = [sessions EXCEPT ![c] = s], UNCHANGED <<users, links, recovery, changes>>,
         \/ s.pc = "none"
         \/ LET row == users[s.user]
            IN  /\ row.status # "ABSENT" /\ s.version <= row.version
                /\ s.version = row.version => s.hash = row.password
                /\ s.pc = "token" => s.given = s.hash
  PROVE  AccountsInv'
<1>1. /\ sessions' \in [Sessions -> {NoSession} \cup Logins] /\ sessions'[c] = s
      /\ \A d \in Sessions \ {c} : sessions'[d] = sessions[d]
  BY DEF AccountsInv, AccountRows
<1>2. AccountRows'
  BY <1>1 DEF AccountsInv, AccountRows
<1>3. ASSUME NEW d \in Sessions, sessions'[d].pc # "none" PROVE Known(d)'
  <2>1. CASE d = c
    BY <1>1, <1>3, <2>1 DEF Known
  <2>2. CASE d # c
    BY <1>1, <1>3, <2>2 DEF AccountsInv, Known
  <2>3. QED BY <2>1, <2>2
<1>4. QED BY <1>2, <1>3 DEF AccountsInv, SomeAdmin

LEMMA AuthorizeKeeps ==
  ASSUME AccountsInv, NEW c \in Sessions, NEW u \in Users, NEW p \in {users[u].password, users[u].password - 1},
         Authorize(c, u, p)
  PROVE  AccountsInv'
<1> DEFINE s == [pc |-> "comparing", user |-> u, version |-> users[u].version,
                 hash |-> users[u].password, given |-> p]
<1>1. users[u].status = "ACTIVE" /\ sessions' = [sessions EXCEPT ![c] = s] /\ UNCHANGED <<users, links, recovery, changes>>
  BY DEF Authorize
<1>2. users[u].version \in 0 .. MaxVersion /\ users[u].password \in 1 .. users[u].version + 1
  BY <1>1 DEF AccountsInv, AccountRows, Persons
<1>3. users[u].password \in 1 .. MaxVersion + 1 /\ p \in 0 .. MaxVersion + 1
  BY <1>2, AccountsAssumption
<1>4. s \in Logins
  BY <1>2, <1>3 DEF Logins
<1>5. users[s.user].status # "ABSENT" /\ s.version <= users[s.user].version /\ s.hash = users[s.user].password
      /\ s.pc # "token"
  BY <1>1, <1>2
<1> HIDE DEF s
<1>6. QED BY <1>1, <1>4, <1>5, SessionsKeep

LEMMA CookieKeeps ==
  ASSUME AccountsInv, NEW c \in Sessions, Compare(c) \/ SignOut(c)
  PROVE  AccountsInv'
<1>1. UNCHANGED <<users, links, recovery, changes>> /\ sessions[c].pc # "none"
  BY DEF Compare, SignOut
<1>2. sessions[c] \in Logins /\ Known(c)
  BY <1>1, OpenSessions DEF AccountsInv
<1>3. CASE sessions' = [sessions EXCEPT ![c] = NoSession]
  BY <1>1, <1>3, EmptyRows, SessionsKeep
<1>4. CASE Compare(c) /\ sessions[c].given = sessions[c].hash
  <2> DEFINE s == [sessions[c] EXCEPT !.pc = "token"]
  <2>1. sessions' = [sessions EXCEPT ![c] = s]
    BY <1>4 DEF Compare
  <2>2. /\ s \in Logins /\ s.user = sessions[c].user /\ s.version = sessions[c].version
        /\ s.hash = sessions[c].hash /\ s.given = sessions[c].given
    BY <1>2 DEF Logins
  <2> HIDE DEF s
  <2>3. QED BY <1>1, <1>2, <1>4, <2>1, <2>2, SessionsKeep DEF Known
<1>5. QED BY <1>3, <1>4 DEF Compare, SignOut

LEMMA BeginChangeKeeps ==
  ASSUME AccountsInv, NEW x \in Changes, NEW c \in Sessions, NEW u \in Users, NEW role \in Roles, NEW state \in States,
         BeginChange(x, c, u, role, state)
  PROVE  AccountsInv'
<1> DEFINE r == [pc |-> "tx", by |-> sessions[c].user, user |-> u, role |-> role, state |-> state]
<1>1. users[u].status # "ABSENT" /\ changes' = [changes EXCEPT ![x] = r] /\ UNCHANGED <<users, links, sessions, recovery>>
      /\ sessions[c].pc # "none"
  BY DEF BeginChange, Accepted
<1>2. r \in Patches
  BY <1>1, OpenSessions DEF Patches, AccountsInv
<1>3. r.user = u
  OBVIOUS
<1> HIDE DEF r
<1>4. /\ changes' \in [Changes -> {NoChange} \cup Patches] /\ changes'[x] = r
      /\ \A y \in Changes \ {x} : changes'[y] = changes[y]
  BY <1>1, <1>2 DEF AccountsInv, AccountRows
<1>5. QED BY <1>1, <1>3, <1>4 DEF AccountsInv, AccountRows, Known, SomeAdmin

LEMMA AccountsInitially == AccountsInit => AccountsInv
<1> SUFFICES ASSUME AccountsInit PROVE AccountsInv
  OBVIOUS
<1> DEFINE row == [status |-> "ACTIVE", role |-> "ADMIN", verified |-> TRUE, version |-> 0, password |-> 1]
<1>1. row \in Persons /\ NoUser \in Persons
  BY AccountsAssumption DEF NoUser, Persons
<1>2. \A u \in Users : users[u] = IF u \in Seeded THEN row ELSE NoUser
  BY DEF AccountsInit
<1>3. AccountRows
  BY <1>1 DEF AccountsInit, AccountRows
<1>4. \A u \in Users : users[u].status # "ABSENT" => users[u].password \in 1 .. users[u].version + 1
  <2> SUFFICES ASSUME NEW u \in Users, users[u].status # "ABSENT" PROVE users[u].password \in 1 .. users[u].version + 1
    OBVIOUS
  <2>1. users[u] = row
    BY <1>2 DEF NoUser
  <2>2. users[u].password = 1 /\ users[u].version = 0
    BY <2>1
  <2>3. QED BY <2>2
<1>5. SomeAdmin
  <2>1. PICK u \in Seeded : u \in Users
    BY AccountsAssumption
  <2>2. users[u] = row
    BY <1>2, <2>1
  <2>3. QED BY <2>1, <2>2 DEF SomeAdmin
<1>6. QED BY <1>3, <1>4, <1>5, EmptyRows DEF AccountsInit, AccountsInv

LEMMA AccountsStepKeeps ==
  ASSUME AccountsInv, [AccountsNext]_accountVars
  PROVE  AccountsInv'
<1>1. CASE UNCHANGED accountVars
  BY <1>1 DEF accountVars, AccountsInv, AccountRows, Known, SomeAdmin
<1>2. ASSUME NEW u \in Users, NEW l \in Links, ResendVerification(u, l) \/ ForgotPassword(u, l) PROVE AccountsInv'
  BY <1>2, LinkIsSent DEF ResendVerification, ForgotPassword
<1>3. CASE Passwords
  BY <1>2, <1>3, RegisterKeeps, VerifyEmailKeeps, LinkKeeps, ResetPasswordKeeps DEF Passwords
<1>4. CASE Cookies
  BY <1>4, AuthorizeKeeps, CookieKeeps DEF Cookies
<1>5. CASE Access
  BY <1>5, BeginChangeKeeps, ChangeAccessKeeps DEF Access
<1>6. QED BY <1>1, <1>3, <1>4, <1>5 DEF AccountsNext

LEMMA AccountsAreSound == AccountsSpec => []AccountsInv
BY AccountsInitially, AccountsStepKeeps, PTL DEF AccountsSpec

\* For every number of accounts, sessions, links and requests under way: the administrators cannot
\* take away each other's access until none is left.
THEOREM AdminsRemain == AccountsSpec => []SomeAdminRemains
<1>1. ASSUME AccountsInv PROVE SomeAdminRemains
  <2>1. users \in [Users -> Persons] /\ recovery \subseteq Links /\ SomeAdmin
    BY <1>1 DEF AccountsInv, AccountRows
  <2>2. \A l \in Links : links[l] = NoLink \/ links[l] \in Mailed
    BY <1>1 DEF AccountsInv, AccountRows
  <2>3. \A c \in Sessions : sessions[c] = NoSession \/ sessions[c] \in Logins
    BY <1>1 DEF AccountsInv, AccountRows
  <2>4. \A x \in Changes : changes[x] = NoChange \/ changes[x] \in Patches
    BY <1>1 DEF AccountsInv, AccountRows
  <2>5. AccountsTypeOK
    BY <2>1, <2>2, <2>3, <2>4 DEF AccountsTypeOK, Persons, Mailed, Logins, Patches
  <2>6. QED BY <2>1, <2>5 DEF SomeAdminRemains, SomeAdmin
<1>2. AccountsInv => SomeAdminRemains
  BY <1>1
<1>3. QED BY <1>2, AccountsAreSound, PTL

\* For every interleaving of logins, recoveries and changes of access: an accepted session was
\* opened with the password the account has now.
THEOREM SessionsKnow == AccountsSpec => []SessionKnowsPassword
<1>1. ASSUME AccountsInv, NEW c \in Sessions, Accepted(c) PROVE sessions[c].given = users[sessions[c].user].password
  <2>1. sessions[c].pc = "token" /\ users[sessions[c].user].version = sessions[c].version
    BY <1>1 DEF Accepted
  <2>2. Known(c)
    BY <1>1, <2>1 DEF AccountsInv
  <2>3. QED BY <2>1, <2>2 DEF Known
<1>2. AccountsInv => SessionKnowsPassword
  BY <1>1 DEF SessionKnowsPassword
<1>3. QED BY <1>2, AccountsAreSound, PTL

-----------------------------------------------------------------------------
(* The rate limit                                                          *)

\* No request waits longer than it may.
WaitsAreShort == \A t \in Instants : waiting[t] > 0 => t <= now /\ now <= t + MaxDelay

\* Without a bucket the requests of the last window are those of one bucket at the most, and
\* none was let through by a time that is still to come.
CountedBefore ==
  bucket = NoBucket =>
    \A a \in Instants : /\ a >= now => admitted[a] = 0
                        /\ a >= now - Window + MaxDelay => admitted[a] <= Limit

\* The bucket counts what was let through since it was opened, and more: its window may have
\* begun before the request that opened it was heard.  Earlier in the last window there was one
\* bucket at the most.
CountedByBucket ==
  bucket # NoBucket =>
    /\ bucket.count > 0
    /\ \A a \in Instants :
         /\ a >= bucket.expires => admitted[a] = 0
         /\ a >= bucket.expires - Window + MaxDelay => admitted[a] <= bucket.count
         /\ a >= now - Window + MaxDelay => admitted[a] <= Limit + bucket.count

BurstSmall == \A t \in Instants : Through(t, t + Window - 2 * MaxDelay) <= 2 * Limit

RateInv == RateTypeOK /\ WaitsAreShort /\ CountedBefore /\ CountedByBucket /\ BurstSmall

LEMMA RateStarts == RateInit => RateInv
<1> SUFFICES ASSUME RateInit PROVE RateInv
  OBVIOUS
<1> USE RateAssumption DEF RateInit, Instants, NoBucket
<1>1. RateTypeOK
  BY DEF RateTypeOK
<1>2. WaitsAreShort /\ CountedBefore /\ CountedByBucket
  BY DEF WaitsAreShort, CountedBefore, CountedByBucket
<1>3. BurstSmall
  BY DEF BurstSmall, Through
<1>4. QED BY <1>1, <1>2, <1>3 DEF RateInv

\* A request that is let through when the requests of the last window are few enough.
LEMMA AdmitKeepsBurst ==
  ASSUME RateInv, NEW t \in Instants, t <= now, now <= t + MaxDelay, Admit(t),
         \A a \in Instants : a >= now - Window + MaxDelay => admitted[a] + 1 <= 2 * Limit
  PROVE  BurstSmall'
<1> USE RateAssumption DEF Instants
<1> DEFINE S == Window - 2 * MaxDelay
<1>1. admitted \in [Instants -> Nat] /\ now \in Int /\ S \in Nat
  BY DEF RateInv, RateTypeOK
<1>2. \A s \in Instants : admitted'[s] = IF s <= t THEN admitted[s] + 1 ELSE admitted[s]
  BY DEF Admit
<1>3. SUFFICES ASSUME NEW s \in Instants PROVE Through(s, s + S)' <= 2 * Limit
  BY DEF BurstSmall
<1>4. Through(s, s + S) <= 2 * Limit
  BY DEF RateInv, BurstSmall
<1>5. CASE t < s
  <2>1. admitted'[s] = admitted[s]
    BY <1>1, <1>2, <1>5
  <2>2. s + S + 1 \in Instants => admitted'[s + S + 1] = admitted[s + S + 1]
    BY <1>1, <1>2, <1>5
  <2>3. QED BY <1>4, <2>1, <2>2 DEF Through
<1>6. CASE s <= t /\ t <= s + S
  <2>1. admitted'[s] <= 2 * Limit
    BY <1>1, <1>2, <1>6
  <2>2. s + S + 1 \in Instants => admitted'[s + S + 1] \in Nat
    BY <1>1, <1>2
  <2>3. admitted'[s] \in Nat
    BY <1>1, <1>2
  <2>4. QED BY <2>1, <2>2, <2>3 DEF Through
<1>7. CASE s + S < t
  <2>1. admitted'[s] = admitted[s] + 1
    BY <1>1, <1>2, <1>7
  <2>2. s + S + 1 \in Instants
    BY <1>1, <1>7
  <2>3. admitted'[s + S + 1] = admitted[s + S + 1] + 1
    BY <1>1, <1>2, <1>7, <2>2
  <2>4. admitted[s] \in Nat /\ admitted[s + S + 1] \in Nat
    BY <1>1, <2>2
  <2>5. QED BY <1>4, <2>1, <2>2, <2>3, <2>4 DEF Through
<1>8. QED BY <1>1, <1>5, <1>6, <1>7

\* A request of t that is let through is counted at the instants up to t.
LEMMA AdmitCounts ==
  ASSUME RateAssumption, admitted \in [Instants -> Nat], NEW t \in Instants, Admit(t)
  PROVE  /\ admitted' \in [Instants -> Nat]
         /\ \A a \in Instants : /\ admitted'[a] <= admitted[a] + 1
                                /\ a > t => admitted'[a] = admitted[a]
<1>1. /\ admitted' \in [Instants -> Nat]
      /\ \A a \in Instants : admitted'[a] = IF a <= t THEN admitted[a] + 1 ELSE admitted[a]
  BY DEF Admit, Instants, RateAssumption
<1>2. ASSUME NEW a \in Instants
      PROVE  admitted'[a] <= admitted[a] + 1 /\ (a > t => admitted'[a] = admitted[a])
  <2>1. admitted[a] \in Nat /\ a \in Int /\ t \in Int
    BY DEF Instants, RateAssumption
  <2>2. QED BY <1>1, <2>1
<1>3. QED BY <1>1, <1>2

LEMMA ConsumeKeepsRate ==
  ASSUME RateInv, NEW t \in Instants, Consume(t)
  PROVE  RateInv'
<1> USE RateAssumption DEF Instants
<1>1. /\ now \in 0..Horizon /\ made \in 0..MaxRequests
      /\ bucket \in [count : 0..Limit, expires : 0..(Horizon + Window)]
      /\ admitted \in [Instants -> Nat] /\ waiting \in [Instants -> Nat]
  BY DEF RateInv, RateTypeOK
<1>2. /\ bucket.count \in 0..Limit /\ bucket.expires \in Nat
      /\ \A a \in Instants : a \in Int /\ admitted[a] \in Nat
  BY <1>1
<1>3. now \in Int /\ t \in Int /\ Window \in Int /\ MaxDelay \in Int /\ Limit \in Int
  BY <1>1
<1>4. waiting[t] > 0 /\ now' = now /\ made' = made
  BY DEF Consume
<1>5. t <= now /\ now <= t + MaxDelay
  BY <1>4 DEF RateInv, WaitsAreShort
<1>6. WaitsAreShort' /\ waiting' \in [Instants -> Nat]
  <2>1. waiting' = [waiting EXCEPT ![t] = @ - 1]
    BY DEF Consume
  <2>2. waiting' \in [Instants -> Nat] /\ \A a \in Instants : waiting'[a] > 0 => waiting[a] > 0
    BY <1>1, <1>4, <2>1
  <2>3. QED BY <1>4, <2>2 DEF RateInv, WaitsAreShort
<1>7. ASSUME WindowOver(t), bucket' = [count |-> 1, expires |-> t + Window], Admit(t) PROVE RateInv'
  <2>1. admitted' \in [Instants -> Nat]
    BY <1>1, <1>7, AdmitCounts
  <2>2. \A a \in Instants : admitted'[a] \in Nat
    BY <2>1
  <2>3. \A a \in Instants : /\ admitted'[a] <= admitted[a] + 1
                            /\ a > t => admitted'[a] = admitted[a]
    BY <1>1, <1>7, AdmitCounts
  <2>4. bucket'.count = 1 /\ bucket'.expires = t + Window
    BY <1>7
  <2>5. bucket' \in [count : 0..Limit, expires : 0..(Horizon + Window)] /\ bucket' # NoBucket
    <3>1. 1 \in 0..Limit /\ t + Window \in 0..(Horizon + Window)
      OBVIOUS
    <3>2. QED BY <1>7, <2>4, <3>1 DEF NoBucket
  <2>6. RateTypeOK'
    BY <1>1, <1>4, <1>6, <2>1, <2>5 DEF RateTypeOK
  <2>7. \A a \in Instants : /\ a >= t + MaxDelay => admitted[a] = 0
                            /\ a >= now - Window + MaxDelay => admitted[a] <= Limit
    <3>1. CASE bucket = NoBucket
      BY <1>1, <1>5, <3>1 DEF RateInv, CountedBefore
    <3>2. CASE bucket # NoBucket
      <4>1. bucket.expires <= t
        BY <1>7, <3>2 DEF WindowOver
      <4>2. \A a \in Instants : /\ a >= bucket.expires => admitted[a] = 0
                                /\ a >= bucket.expires - Window + MaxDelay => admitted[a] <= bucket.count
        BY <3>2 DEF RateInv, CountedByBucket
      <4>3. ASSUME NEW a \in Instants
            PROVE  /\ a >= t + MaxDelay => admitted[a] = 0
                   /\ a >= now - Window + MaxDelay => admitted[a] <= Limit
        <5>1. a >= t + MaxDelay => a >= bucket.expires
          BY <1>2, <1>3, <4>1
        <5>2. a >= now - Window + MaxDelay => a >= bucket.expires - Window + MaxDelay
          BY <1>2, <1>3, <1>5, <4>1
        <5>3. QED BY <1>2, <4>2, <5>1, <5>2
      <4>4. QED BY <4>3
    <3>3. QED BY <3>1, <3>2
  <2>8. CountedByBucket'
    <3>1. ASSUME NEW a \in Instants, a >= t + Window PROVE admitted'[a] = 0
      <4>1. a >= t + MaxDelay /\ a > t
        BY <1>2, <1>3, <3>1
      <4>2. QED BY <2>3, <2>7, <4>1
    <3>2. \A a \in Instants : a >= t + MaxDelay => admitted'[a] <= 1
      BY <1>2, <2>2, <2>3, <2>7
    <3>3. ASSUME NEW a \in Instants, a >= now - Window + MaxDelay PROVE admitted'[a] <= Limit + 1
      <4>1. admitted[a] <= Limit
        BY <2>7, <3>3
      <4>2. QED BY <1>2, <1>3, <2>2, <2>3, <4>1
    <3>4. t + Window - Window + MaxDelay = t + MaxDelay
      BY <1>1
    <3>5. QED BY <1>4, <2>4, <3>1, <3>2, <3>3, <3>4 DEF CountedByBucket
  <2>9. BurstSmall'
    <3>1. ASSUME NEW a \in Instants, a >= now - Window + MaxDelay PROVE admitted[a] + 1 <= 2 * Limit
      <4>1. admitted[a] <= Limit
        BY <2>7, <3>1
      <4>2. QED BY <1>2, <4>1
    <3>2. QED BY <1>5, <1>7, <3>1, AdmitKeepsBurst
  <2>10. QED BY <1>6, <2>5, <2>6, <2>8, <2>9 DEF RateInv, CountedBefore
<1>8. ASSUME UNCHANGED <<bucket, admitted>> PROVE RateInv'
  <2>1. RateTypeOK'
    BY <1>1, <1>4, <1>6, <1>8 DEF RateTypeOK
  <2>2. QED
    BY <1>4, <1>6, <1>8, <2>1
    DEF RateInv, CountedBefore, CountedByBucket, BurstSmall, Through, NoBucket
<1>9. ASSUME ~WindowOver(t), bucket.count < Limit, bucket' = [bucket EXCEPT !.count = @ + 1], Admit(t)
      PROVE  RateInv'
  <2>1. admitted' \in [Instants -> Nat]
    BY <1>1, <1>9, AdmitCounts
  <2>2. \A a \in Instants : admitted'[a] \in Nat
    BY <2>1
  <2>3. \A a \in Instants : /\ admitted'[a] <= admitted[a] + 1
                            /\ a > t => admitted'[a] = admitted[a]
    BY <1>1, <1>9, AdmitCounts
  <2>4. bucket # NoBucket /\ bucket.expires > t
    BY <1>1, <1>2, <1>9 DEF WindowOver
  <2>5. bucket'.count = bucket.count + 1 /\ bucket'.expires = bucket.expires
    BY <1>1, <1>9
  <2>6. bucket' \in [count : 0..Limit, expires : 0..(Horizon + Window)] /\ bucket' # NoBucket
    <3>1. bucket.count + 1 \in 0..Limit
      BY <1>2, <1>9
    <3>2. bucket' \in [count : 0..Limit, expires : 0..(Horizon + Window)]
      BY <1>1, <1>9, <3>1
    <3>3. QED BY <1>2, <2>5, <3>2 DEF NoBucket
  <2>7. RateTypeOK'
    BY <1>1, <1>4, <1>6, <2>1, <2>6 DEF RateTypeOK
  <2>8. /\ bucket.count > 0
        /\ \A a \in Instants :
             /\ a >= bucket.expires => admitted[a] = 0
             /\ a >= bucket.expires - Window + MaxDelay => admitted[a] <= bucket.count
             /\ a >= now - Window + MaxDelay => admitted[a] <= Limit + bucket.count
    BY <2>4 DEF RateInv, CountedByBucket
  <2>9. CountedByBucket'
    <3>1. ASSUME NEW a \in Instants, a >= bucket.expires PROVE admitted'[a] = 0
      <4>1. a > t
        BY <1>2, <1>3, <2>4, <3>1
      <4>2. QED BY <2>3, <2>8, <3>1, <4>1
    <3>2. ASSUME NEW a \in Instants, a >= bucket.expires - Window + MaxDelay
          PROVE  admitted'[a] <= bucket.count + 1
      <4>1. admitted[a] <= bucket.count
        BY <2>8, <3>2
      <4>2. QED BY <1>2, <2>2, <2>3, <4>1
    <3>3. ASSUME NEW a \in Instants, a >= now - Window + MaxDelay
          PROVE  admitted'[a] <= Limit + (bucket.count + 1)
      <4>1. admitted[a] <= Limit + bucket.count
        BY <2>8, <3>3
      <4>2. QED BY <1>2, <1>3, <2>2, <2>3, <4>1
    <3>4. bucket.count + 1 > 0
      BY <1>2
    <3>5. QED BY <1>4, <2>5, <3>1, <3>2, <3>3, <3>4 DEF CountedByBucket
  <2>10. BurstSmall'
    <3>1. \A a \in Instants : a >= now - Window + MaxDelay => admitted[a] + 1 <= 2 * Limit
      BY <1>2, <1>3, <1>9, <2>8
    <3>2. QED BY <1>5, <1>9, <3>1, AdmitKeepsBurst
  <2>11. QED BY <1>6, <2>6, <2>7, <2>9, <2>10 DEF RateInv, CountedBefore
<1>10. QED BY <1>7, <1>8, <1>9 DEF Consume

LEMMA RateKeeps == RateInv /\ [RateNext]_rateVars => RateInv'
<1> SUFFICES ASSUME RateInv, [RateNext]_rateVars PROVE RateInv'
  OBVIOUS
<1> USE RateAssumption DEF Instants
<1>1. /\ now \in Instants /\ bucket.count \in 0..Limit /\ bucket.expires \in Nat
      /\ admitted \in [Instants -> Nat] /\ waiting \in [Instants -> Nat]
  BY DEF RateInv, RateTypeOK
<1>2. CASE Ask
  <2>1. /\ made < MaxRequests /\ made' = made + 1 /\ UNCHANGED <<now, bucket, admitted>>
        /\ waiting' = [waiting EXCEPT ![now] = @ + 1]
    BY <1>2 DEF Ask
  <2>2. waiting[now] + 1 \in Nat
    BY <1>1
  <2>3. waiting' \in [Instants -> Nat] /\ \A t \in Instants \ {now} : waiting'[t] = waiting[t]
    <3> HIDE DEF Instants
    <3>1. QED BY <1>1, <2>1, <2>2
  <2>4. RateTypeOK'
    <3> HIDE DEF Instants
    <3>1. made' \in 0..MaxRequests
      BY <2>1 DEF RateInv, RateTypeOK
    <3>2. QED BY <2>1, <2>3, <3>1 DEF RateInv, RateTypeOK
  <2>5. WaitsAreShort'
    BY <1>1, <2>1, <2>3 DEF RateInv, WaitsAreShort
  <2>6. QED
    BY <2>1, <2>4, <2>5
    DEF RateInv, CountedBefore, CountedByBucket, BurstSmall, Through, NoBucket
<1>3. CASE \E t \in Instants : Consume(t)
  BY <1>3, ConsumeKeepsRate
<1>4. CASE PurgeBuckets
  <2>1. RateTypeOK'
    <3>1. NoBucket \in [count : 0..Limit, expires : 0..(Horizon + Window)]
      BY DEF NoBucket
    <3> HIDE DEF Instants
    <3>2. QED BY <1>4, <3>1 DEF RateInv, RateTypeOK, PurgeBuckets
  <2>2. \A a \in Instants : /\ a >= now => admitted[a] = 0
                            /\ a >= now - Window + MaxDelay => admitted[a] <= Limit
    <3>1. /\ bucket.expires < now /\ now \in Int /\ bucket.expires \in Int
          /\ \A a \in Instants : /\ a >= bucket.expires => admitted[a] = 0
                                 /\ a >= bucket.expires - Window + MaxDelay => admitted[a] <= bucket.count
      BY <1>1, <1>4 DEF RateInv, PurgeBuckets, CountedByBucket
    <3>2. ASSUME NEW a \in Instants
          PROVE  /\ a >= now => admitted[a] = 0
                 /\ a >= now - Window + MaxDelay => admitted[a] <= Limit
      <4>1. admitted[a] \in Nat /\ a \in Int
        BY <1>1
      <4>2. bucket.expires < now /\ now \in Int /\ bucket.expires \in Int
        BY <3>1
      <4>3. /\ a >= now => a >= bucket.expires
            /\ a >= now - Window + MaxDelay => a >= bucket.expires - Window + MaxDelay
        BY <4>1, <4>2
      <4>4. a >= now => admitted[a] = 0
        BY <3>1, <4>3
      <4>5. a >= now - Window + MaxDelay => admitted[a] <= bucket.count
        BY <3>1, <4>3
      <4>6. bucket.count \in Nat /\ bucket.count <= Limit
        BY <1>1
      <4>7. QED BY <4>1, <4>4, <4>5, <4>6
    <3>3. QED BY <3>2
  <2>3. CountedBefore'
    BY <1>4, <2>2 DEF PurgeBuckets, CountedBefore
  <2>4. QED
    BY <1>4, <2>1, <2>3
    DEF RateInv, PurgeBuckets, WaitsAreShort, CountedByBucket, BurstSmall, Through, NoBucket
<1>5. CASE Tick
  <2>1. RateTypeOK'
    BY <1>1, <1>5 DEF RateInv, RateTypeOK, Tick
  <2>2. WaitsAreShort'
    BY <1>1, <1>5 DEF RateInv, WaitsAreShort, Tick
  <2>3. CountedBefore'
    BY <1>1, <1>5 DEF RateInv, CountedBefore, Tick, NoBucket
  <2>4. CountedByBucket'
    BY <1>1, <1>5 DEF RateInv, CountedByBucket, Tick, NoBucket
  <2>5. BurstSmall'
    BY <1>5 DEF RateInv, BurstSmall, Through, Tick
  <2>6. QED BY <2>1, <2>2, <2>3, <2>4, <2>5 DEF RateInv
<1>6. CASE UNCHANGED rateVars
  BY <1>6 DEF rateVars, RateInv, RateTypeOK, WaitsAreShort, CountedBefore, CountedByBucket,
              BurstSmall, Through, NoBucket
<1>7. QED BY <1>2, <1>3, <1>4, <1>5, <1>6 DEF RateNext

\* However requests lie against the windows, however long each waits for the lock and whenever
\* the retention deletes the bucket, no more than two windows' worth of them is let through
\* within a window's length, less twice the wait.
THEOREM BurstsAreBounded == RateSpec => []BurstBounded
<1>1. RateInv => BurstBounded
  BY DEF RateInv, BurstSmall, BurstBounded
<1>2. QED BY <1>1, RateStarts, RateKeeps, PTL DEF RateSpec

=============================================================================
