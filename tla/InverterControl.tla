--------------------------- MODULE InverterControl ---------------------------
(***************************************************************************)
(* Remote control of the inverters of one site and the durable safety OFF  *)
(* (src/src/lib/energy/service.ts, deactivation-jobs.ts).                  *)
(*                                                                         *)
(* A command to an inverter is one row with a unique idempotency key.  It  *)
(* is recorded in a first transaction and carried out in a second one that *)
(* keeps a per-inverter advisory lock while the vendor is called.  Control *)
(* needs an entitlement; every event that takes the entitlement away       *)
(* enqueues, in its own transaction, a job that switches every inverter of *)
(* the user OFF and is retried until the vendor confirms it.               *)
(*                                                                         *)
(* Callers of issueInverterCommand: users (a request for the whole site),  *)
(* workers (the job processor, run by the internal runner and by the       *)
(* cancellation routes) and the reconciler of unresolved commands.         *)
(***************************************************************************)
EXTENDS Integers, Sequences, FiniteSets

CONSTANTS
  N,            \* inverters of the site, handled in the order of their ids
  OnRequests,   \* idempotency keys of the users' turnon requests
  OffRequests,  \* idempotency keys of the users' turnoff requests
  Users, Workers, Reconcilers,
  Subs,         \* subscriptions to INVERTER_CONTROL
  Refunds, Disablings,  \* refunds of their payments, disablings of the account
  MaxFaults     \* bound on crashes, timeouts, vendor failures, profile edits

Inverters == 1..N
Requests == OnRequests \cup OffRequests
Procs == Users \cup Workers \cup Reconcilers

\* The keys of the entitlement-loss events.  A subscription ends once, whether
\* it is cancelled (by the user or an administrator) or expires.
Events == Subs \cup Refunds \cup Disablings

ASSUME NAssumption == N \in Nat \ {0}
ASSUME RequestsAssumption == OnRequests \cap OffRequests = {}
ASSUME FaultsAssumption == MaxFaults \in Nat
\* No process plays two parts, and no key of an event is a request's key.
ASSUME DisjointAssumption ==
  /\ Users \cap Workers = {}
  /\ Users \cap Reconcilers = {}
  /\ Workers \cap Reconcilers = {}
  /\ Requests \cap Events = {}
  /\ Subs \cap (Refunds \cup Disablings) = {}
  /\ Refunds \cap Disablings = {}

VARIABLES
  subs,           \* subscription -> NONE, ACTIVE, LAPSED (endsAt passed), ENDED
  userActive,     \* User.status = ACTIVE
  jobs,           \* loss event -> its ScheduledJob row
  cmds,           \* inverter -> its InverterCommand rows, by requestedAt
  physical,       \* inverter -> the vendor runs the optimization on it
  optimizationOn, \* EnergySite.optimizationOn, the local cache
  requiredInfo,   \* EnergySite.requiredInfo
  call,           \* process -> its issueInverterCommand call
  sweep,          \* process -> its deactivateInverterControl call
  site,           \* user -> its issueSiteControlCommand call
  work,           \* worker -> its processInverterDeactivationJobs call
  faults          \* adverse events so far

vars == <<subs, userActive, jobs, cmds, physical, optimizationOn, requiredInfo,
          call, sweep, site, work, faults>>

commerce == <<subs, userActive, jobs>>
flags == <<optimizationOn, requiredInfo>>

-----------------------------------------------------------------------------
(* Rows and local states *)

Settled == {"ACKNOWLEDGED", "FAILED", "CANCELED"}

\* The idempotency key of a command.  The key of a user's request is derived
\* from the request, the inverter and the type; a rollback has its own key; a
\* safety OFF has a key per reason (the job and its attempt, or the unresolved
\* turnon on inverter att), "stable" at the first try and random at the second.
Keys == [kind: {"user", "rollback", "job", "unresolved"}, ref: Requests \cup Events,
         att: Nat, nonce: {"stable", "random"}]

UserKey(r) == [kind |-> "user", ref |-> r, att |-> 0, nonce |-> "stable"]
RollbackKey(r) == [kind |-> "rollback", ref |-> r, att |-> 0, nonce |-> "stable"]

Type(k) == IF k.kind = "user" /\ k.ref \in OnRequests THEN "turnon" ELSE "turnoff"
IsSafetyTurnoff(k) == k.kind # "user"

\* SENT is only ever written inside phase 2 and overwritten or rolled back there.
Command == [key: Keys, status: {"PENDING"} \cup Settled]

NoJob == [status |-> "NONE", owner |-> "nobody", attempts |-> 0]
IdleCall == [pc |-> "idle"]
NoSweep == [on |-> FALSE]
IdleSite == [pc |-> "idle"]
IdleWork == [pc |-> "idle"]

Live(e) == jobs[e].status \in {"PENDING", "RUNNING"}

\* hasInverterControlEntitlement and hasLockedInverterControlEntitlement.
EntitledThoughDisabled == \E s \in Subs : subs[s] = "ACTIVE"  \* mutant
Entitled == userActive /\ \E s \in Subs : subs[s] = "ACTIVE"

\* Status still ACTIVE or TRIAL in the database: the loss event, and with it
\* the deactivation job, is still to come.
Subscribed == userActive /\ \E s \in Subs : subs[s] \in {"ACTIVE", "LAPSED"}

Holding(p) == call[p].pc \in {"held", "applied"}
LockIgnored(i) == TRUE  \* mutant: the advisory lock is taken per process
LockFree(i) == \A p \in Procs : Holding(p) => call[p].inv # i

\* The row of a command is locked by the uncommitted SENT of phase 2.
RowFree(i, n) == \A p \in Procs : Holding(p) => call[p].inv # i \/ call[p].n # n

Pending(i, n) == cmds[i][n].status = "PENDING"
\* The rows with this idempotency key; a random key is never found again.
Existing(i, k) ==
  {n \in DOMAIN cmds[i] : k.nonce = "stable" /\ cmds[i][n].key = k}

Init ==
  /\ subs \in [Subs -> {"NONE", "ACTIVE"}]
  /\ userActive = TRUE
  /\ jobs = [e \in Events |-> NoJob]
  /\ cmds = [i \in Inverters |-> <<>>]
  /\ physical = [i \in Inverters |-> FALSE]
  /\ optimizationOn = FALSE
  /\ requiredInfo = FALSE
  /\ call = [p \in Procs |-> IdleCall]
  /\ sweep = [p \in Procs |-> NoSweep]
  /\ site = [u \in Users |-> IdleSite]
  /\ work = [w \in Workers |-> IdleWork]
  /\ faults = 0

Fault == faults < MaxFaults /\ faults' = faults + 1

-----------------------------------------------------------------------------
(* issueInverterCommand.  A call goes precheck, phase1, phase2, held (lock  *)
(* taken, guards passed), applied (the vendor carried the command out) and  *)
(* done; fail and unknown are the two branches of its catch block.          *)

NewCall(i, k) == [pc |-> "precheck", inv |-> i, key |-> k]
Call(p, new) == call' = [call EXCEPT ![p] = new]
Done(p, result) ==
  Call(p, [pc |-> "done", inv |-> call[p].inv, key |-> call[p].key, res |-> result])
Execute(p, i, k, n, repeated) ==
  Call(p, [pc |-> "phase2", inv |-> i, key |-> k, n |-> n, rep |-> repeated])

SetStatus(i, n, status) == cmds' = [cmds EXCEPT ![i][n].status = status]

\* An intent found under its key: settled ones are returned, others carried out.
FoundIntent(p, n) ==
  LET i == call[p].inv IN
  IF Pending(i, n) THEN Execute(p, i, call[p].key, n, TRUE)
                   ELSE Done(p, cmds[i][n].status)

\* Reads before any lock is taken.
Precheck(p) ==
  LET i == call[p].inv  k == call[p].key IN
  /\ call[p].pc = "precheck"
  /\ \/ \E n \in Existing(i, k) : FoundIntent(p, n)
     \/ /\ Existing(i, k) = {}
        /\ \/ ~IsSafetyTurnoff(k) /\ ~Entitled
           \/ Type(k) = "turnon" /\ requiredInfo
        /\ Done(p, "REJECTED")
     \/ /\ Existing(i, k) = {}
        /\ IsSafetyTurnoff(k) \/ Entitled
        /\ Type(k) = "turnon" => ~requiredInfo
        /\ Call(p, [call[p] EXCEPT !.pc = "phase1"])
  /\ UNCHANGED <<commerce, cmds, physical, flags, sweep, site, work, faults>>

\* Mutant: the entitlement is not read again under the lock.
CreateIntentUnchecked(p) ==
  LET i == call[p].inv  k == call[p].key IN
  /\ cmds' = [cmds EXCEPT ![i] = Append(@, [key |-> k, status |-> "PENDING"])]
  /\ Execute(p, i, k, Len(cmds[i]) + 1, FALSE)

\* The entitlement is read again under the lock, then the intent is committed.
CreateIntent(p) ==
  LET i == call[p].inv  k == call[p].key IN
  /\ IsSafetyTurnoff(k) \/ Entitled
  /\ cmds' = [cmds EXCEPT ![i] = Append(@, [key |-> k, status |-> "PENDING"])]
  /\ Execute(p, i, k, Len(cmds[i]) + 1, FALSE)

\* Refused: no entitlement, or a turnon less than 10 s after another command.
RefuseIntent(p) ==
  LET i == call[p].inv  k == call[p].key IN
  /\ \/ ~IsSafetyTurnoff(k) /\ ~Entitled
     \/ Type(k) = "turnon" /\ cmds[i] # <<>>
  /\ Done(p, "REJECTED")
  /\ UNCHANGED cmds

Phase1(p) ==
  LET i == call[p].inv  k == call[p].key IN
  /\ call[p].pc = "phase1"
  /\ LockFree(i)
  /\ \/ \E n \in Existing(i, k) : FoundIntent(p, n) /\ UNCHANGED cmds
     \/ Existing(i, k) = {} /\ (CreateIntent(p) \/ RefuseIntent(p))
  /\ UNCHANGED <<commerce, physical, flags, sweep, site, work, faults>>

\* The wait for the lock times out, or the database fails: nothing is recorded.
Phase1Error(p) ==
  /\ call[p].pc = "phase1"
  /\ Fault
  /\ Done(p, "ERROR")
  /\ UNCHANGED <<commerce, cmds, physical, flags, sweep, site, work>>

(* Phase 2: one transaction, one lock.                                      *)

\* A turnon that may already have reached the vendor is not failed but left
\* PENDING, and the process sweeps the user's inverters OFF (see Sweep).
Refused(p) ==
  LET k == call[p].key IN
  \/ ~Entitled /\ ~IsSafetyTurnoff(k) /\ ~(call[p].rep /\ Type(k) = "turnoff")
  \/ Type(k) = "turnon" /\ requiredInfo

\* Mutant: the first inverter of the site only, as without an inverterId.
OneTarget(kind, ref, att) ==
  [on |-> TRUE, kind |-> kind, ref |-> ref, att |-> att, inv |-> N, try |-> 1,
   failed |-> FALSE]
NewSweep(kind, ref, att) ==
  [on |-> TRUE, kind |-> kind, ref |-> ref, att |-> att, inv |-> 1, try |-> 1,
   failed |-> FALSE]
SweepKey(s, nonce) == [kind |-> s.kind, ref |-> s.ref, att |-> s.att, nonce |-> nonce]

FailOrSweep(p) ==
  LET i == call[p].inv  n == call[p].n  k == call[p].key
      s == NewSweep("unresolved", k.ref, i) IN
  IF call[p].rep /\ Type(k) = "turnon"
  THEN /\ sweep' = [sweep EXCEPT ![p] = s]
       /\ Call(p, NewCall(1, SweepKey(s, "stable")))
       /\ UNCHANGED cmds
  ELSE /\ SetStatus(i, n, "FAILED")
       /\ Done(p, "FAILED")
       /\ UNCHANGED sweep

\* Under the lock: settled meanwhile, refused, or cleared for dispatch.
Phase2Begin(p) ==
  LET i == call[p].inv  n == call[p].n IN
  /\ call[p].pc = "phase2"
  /\ LockFree(i)
  /\ \/ ~Pending(i, n) /\ Done(p, cmds[i][n].status) /\ UNCHANGED <<cmds, sweep>>
     \/ Pending(i, n) /\ Refused(p) /\ FailOrSweep(p)
     \/ /\ Pending(i, n) /\ ~Refused(p)
        /\ Call(p, [call[p] EXCEPT !.pc = "held"])
        /\ UNCHANGED <<cmds, sweep>>
  /\ UNCHANGED <<commerce, physical, flags, site, work, faults>>

\* The connection to the vendor is missing or its tokens cannot be decrypted.
ConnectionUnusable(p) ==
  /\ call[p].pc = "phase2"
  /\ LockFree(call[p].inv)
  /\ Pending(call[p].inv, call[p].n)
  /\ Fault
  /\ FailOrSweep(p)
  /\ UNCHANGED <<commerce, physical, flags, site, work>>

\* Phase 2 fails before the vendor is called: the lock is not obtained in time,
\* the database fails, the transaction is rolled back.
Phase2Error(p) ==
  /\ call[p].pc \in {"phase2", "held"}
  /\ Fault
  /\ Call(p, [call[p] EXCEPT !.pc = "fail"])
  /\ UNCHANGED <<commerce, cmds, physical, flags, sweep, site, work>>

\* The vendor carries the command out: it sets a state, so repeating is safe.
Vendor(p) ==
  /\ call[p].pc = "held"
  /\ physical' = [physical EXCEPT ![call[p].inv] = (Type(call[p].key) = "turnon")]
  /\ Call(p, [call[p] EXCEPT !.pc = "applied"])
  /\ UNCHANGED <<commerce, cmds, flags, sweep, site, work, faults>>

\* The request or its answer is lost, the state read back is not the desired
\* one, or the commit fails: rolled back, the command stays PENDING.
OutcomeLost(p) ==
  /\ Holding(p)
  /\ Fault
  /\ Call(p, [call[p] EXCEPT !.pc = "unknown"])
  /\ UNCHANGED <<commerce, cmds, physical, flags, sweep, site, work>>

\* The commands that an acknowledged turnoff makes obsolete.
Superseded(i, n, k, m) == Type(k) = "turnoff" /\ m < n /\ Pending(i, m)

\* The vendor's state was read back and matches: commit.
Acknowledge(p) ==
  LET i == call[p].inv  n == call[p].n  k == call[p].key IN
  /\ call[p].pc = "applied"
  /\ cmds' = [cmds EXCEPT ![i] =
        [m \in DOMAIN cmds[i] |->
           IF m = n THEN [cmds[i][m] EXCEPT !.status = "ACKNOWLEDGED"]
           ELSE IF Superseded(i, n, k, m) THEN [cmds[i][m] EXCEPT !.status = "CANCELED"]
           ELSE cmds[i][m]]]
  /\ optimizationOn' = (Type(k) = "turnon")
  /\ Done(p, "ACKNOWLEDGED")
  /\ UNCHANGED <<commerce, physical, requiredInfo, sweep, site, work, faults>>

\* The catch block, after a dispatch: the status is only read.
RecordUnknownOutcome(p) ==
  LET i == call[p].inv  n == call[p].n IN
  /\ call[p].pc = "unknown"
  /\ RowFree(i, n)
  /\ Done(p, cmds[i][n].status)
  /\ UNCHANGED <<commerce, cmds, physical, flags, sweep, site, work, faults>>

\* The catch block, without a dispatch in this execution: FAILED if unsettled.
FailedAnyway(i, n) == "FAILED"  \* mutant: updated whatever its status is
FailureStatus(i, n) == IF Pending(i, n) THEN "FAILED" ELSE cmds[i][n].status

RecordExecutionFailure(p) ==
  LET i == call[p].inv  n == call[p].n IN
  /\ call[p].pc = "fail"
  /\ RowFree(i, n)
  /\ SetStatus(i, n, FailureStatus(i, n))
  /\ Done(p, FailureStatus(i, n))
  /\ UNCHANGED <<commerce, physical, flags, sweep, site, work, faults>>

IssueInverterCommand(p) ==
  \/ Precheck(p) \/ Phase1(p) \/ Phase2Begin(p) \/ Vendor(p) \/ Acknowledge(p)
  \/ RecordUnknownOutcome(p) \/ RecordExecutionFailure(p)

CommandFault(p) ==
  \/ Phase1Error(p) \/ ConnectionUnusable(p) \/ Phase2Error(p) \/ OutcomeLost(p)

-----------------------------------------------------------------------------
(* deactivateInverterControl: two tries per inverter, in the order of ids.  *)
(* A sweep serves a job (kind "job": ref is the event, att the attempt) or  *)
(* an unresolved turnon (kind "unresolved": the turnon of request ref on    *)
(* inverter att), and in the latter case its process returns to that call.  *)

Owns(w) == jobs[work[w].job].status = "RUNNING" /\ jobs[work[w].job].owner = w

\* readSafetyConvergence after a try, and the loop's exit condition.
Converged(p) ==
  LET i == call[p].inv IN
  /\ call[p].res = "ACKNOWLEDGED"
  /\ ~optimizationOn
  /\ \A n \in DOMAIN cmds[i] : ~Pending(i, n)

TriesLeft(p) == sweep[p].try < 2
TargetDone(p) == Converged(p) \/ ~TriesLeft(p)

SweepFailed(p) == sweep[p].failed \/ ~Converged(p)

\* onProgress: the job processor renews its claim before and after a target.
ClaimKept(p) == sweep[p].kind = "job" => Owns(p)

SweepAgain(p) ==
  /\ ~TargetDone(p)
  /\ sweep' = [sweep EXCEPT ![p].try = @ + 1]
  /\ Call(p, NewCall(sweep[p].inv, SweepKey(sweep[p], "random")))
  /\ UNCHANGED work

SweepNext(p) ==
  /\ TargetDone(p) /\ ClaimKept(p)
  /\ sweep[p].inv < N
  /\ sweep' = [sweep EXCEPT ![p].inv = @ + 1, ![p].try = 1, ![p].failed = SweepFailed(p)]
  /\ Call(p, NewCall(sweep[p].inv + 1, SweepKey(sweep[p], "stable")))
  /\ UNCHANGED work

\* The result of the unresolved turnon is its status after the sweep.
SweepEnd(p) ==
  /\ TargetDone(p) /\ ClaimKept(p)
  /\ sweep[p].inv = N
  /\ sweep' = [sweep EXCEPT ![p] = NoSweep]
  /\ \/ /\ sweep[p].kind = "job"
        /\ Call(p, IdleCall)
        /\ work' = [work EXCEPT ![p].pc = IF SweepFailed(p) THEN "failed" ELSE "confirmed"]
     \/ /\ sweep[p].kind = "unresolved"
        /\ \E n \in Existing(sweep[p].att, UserKey(sweep[p].ref)) :
             Call(p, [pc |-> "done", inv |-> sweep[p].att, key |-> UserKey(sweep[p].ref),
                      res |-> cmds[sweep[p].att][n].status])
        /\ UNCHANGED work

\* The heartbeat of a lost claim throws; the job is left to its new owner.
SweepClaimLost(p) ==
  /\ TargetDone(p) /\ ~ClaimKept(p)
  /\ sweep' = [sweep EXCEPT ![p] = NoSweep]
  /\ Call(p, IdleCall)
  /\ work' = [work EXCEPT ![p] = IdleWork]

Sweep(p) ==
  /\ sweep[p].on /\ call[p].pc = "done"
  /\ SweepAgain(p) \/ SweepNext(p) \/ SweepEnd(p) \/ SweepClaimLost(p)
  /\ UNCHANGED <<commerce, cmds, physical, flags, site, faults>>

-----------------------------------------------------------------------------
(* issueSiteControlCommand: one request for every inverter of the site.     *)

Turnon(u) == site[u].req \in OnRequests

\* The route's entitlement check; a turnon confirms the profile at the vendor.
SiteRequest(u, r) ==
  /\ site[u].pc = "idle"
  /\ Entitled
  /\ site' = [site EXCEPT ![u] = [pc |-> "loop", req |-> r, acked |-> {}]]
  /\ Call(u, NewCall(1, UserKey(r)))
  /\ requiredInfo' = IF r \in OnRequests THEN FALSE ELSE requiredInfo
  /\ UNCHANGED <<commerce, cmds, physical, optimizationOn, sweep, work, faults>>

SiteEnd(u, on) ==
  /\ site' = [site EXCEPT ![u] = IdleSite]
  /\ Call(u, IdleCall)
  /\ optimizationOn' = on

\* The safety OFF of the inverters in acked, lowest id first.
Rollback(u, acked) ==
  \/ acked = {} /\ SiteEnd(u, FALSE)
  \/ \E i \in acked :
       /\ \A j \in acked : i <= j
       /\ site' = [site EXCEPT ![u].pc = "rollback", ![u].acked = acked \ {i}]
       /\ Call(u, NewCall(i, RollbackKey(site[u].req)))
       /\ UNCHANGED optimizationOn

SiteAdvance(u) ==
  LET i == call[u].inv IN
  /\ call[u].res = "ACKNOWLEDGED"
  /\ \/ /\ i < N
        /\ site' = [site EXCEPT ![u].acked = IF Turnon(u) THEN @ \cup {i} ELSE @]
        /\ Call(u, NewCall(i + 1, UserKey(site[u].req)))
        /\ UNCHANGED optimizationOn
     \/ i = N /\ SiteEnd(u, Turnon(u))

\* Any other result or an error: a turnon rolls back what was acknowledged.
SiteFail(u) ==
  /\ call[u].res # "ACKNOWLEDGED"
  /\ IF Turnon(u) THEN Rollback(u, site[u].acked) ELSE SiteEnd(u, TRUE)

SiteCommand(u) ==
  /\ site[u].pc # "idle" /\ call[u].pc = "done" /\ ~sweep[u].on
  /\ \/ site[u].pc = "loop" /\ (SiteAdvance(u) \/ SiteFail(u))
     \/ site[u].pc = "rollback" /\ Rollback(u, site[u].acked)
  /\ UNCHANGED <<commerce, cmds, physical, requiredInfo, sweep, work, faults>>

(* reconcileEntitledInverterCommands, one unresolved command at a time.     *)

ReconcilePick(c, i, n) ==
  /\ call[c].pc = "idle"
  /\ n \in DOMAIN cmds[i] /\ Pending(i, n)
  /\ Entitled
  /\ Execute(c, i, cmds[i][n].key, n, TRUE)
  /\ UNCHANGED <<commerce, cmds, physical, flags, sweep, site, work, faults>>

ReconcileDone(c) ==
  /\ call[c].pc = "done" /\ ~sweep[c].on
  /\ Call(c, IdleCall)
  /\ UNCHANGED <<commerce, cmds, physical, flags, sweep, site, work, faults>>

-----------------------------------------------------------------------------
(* processInverterDeactivationJobs, one job at a time.                      *)

\* The snapshot of due jobs; the attempt is computed from it at the claim.
JobSelect(w, e) ==
  /\ work[w].pc = "idle"
  /\ jobs[e].status = "PENDING"
  /\ work' = [work EXCEPT ![w] = [pc |-> "selected", job |-> e, att |-> jobs[e].attempts + 1]]
  /\ UNCHANGED <<commerce, cmds, physical, flags, call, sweep, site, faults>>

JobClaim(w) ==
  LET e == work[w].job IN
  /\ work[w].pc = "selected"
  /\ \/ /\ jobs[e].status = "PENDING"
        /\ jobs' = [jobs EXCEPT ![e] =
              [status |-> "RUNNING", owner |-> w, attempts |-> @.attempts + 1]]
        /\ work' = [work EXCEPT ![w].pc = "claimed"]
     \/ /\ jobs[e].status # "PENDING"
        /\ work' = [work EXCEPT ![w] = IdleWork]
        /\ UNCHANGED jobs
  /\ UNCHANGED <<subs, userActive, cmds, physical, flags, call, sweep, site, faults>>

\* executeDeactivationJob: heartbeat, then nothing to do, or the sweep.
JobBegin(w) ==
  LET s == NewSweep("job", work[w].job, work[w].att) IN
  /\ work[w].pc = "claimed"
  /\ \/ /\ ~Owns(w)
        /\ work' = [work EXCEPT ![w] = IdleWork]
        /\ UNCHANGED <<call, sweep>>
     \/ /\ Owns(w) /\ Entitled
        /\ work' = [work EXCEPT ![w].pc = "obsolete"]
        /\ UNCHANGED <<call, sweep>>
     \/ /\ Owns(w) /\ ~Entitled
        /\ work' = [work EXCEPT ![w].pc = "sweeping"]
        /\ sweep' = [sweep EXCEPT ![w] = s]
        /\ Call(w, NewCall(1, SweepKey(s, "stable")))
  /\ UNCHANGED <<commerce, cmds, physical, flags, site, faults>>

\* The outcome is written only by the owner of the claim.
JobEnd(w) ==
  LET e == work[w].job
      status == IF work[w].pc = "failed" THEN "PENDING" ELSE "SUCCEEDED" IN
  /\ work[w].pc \in {"obsolete", "confirmed", "failed"}
  /\ work' = [work EXCEPT ![w] = IdleWork]
  /\ jobs' = IF Owns(w)
             THEN [jobs EXCEPT ![e].status = status, ![e].owner = "nobody"]
             ELSE jobs
  /\ UNCHANGED <<subs, userActive, cmds, physical, flags, call, sweep, site, faults>>

NeverAbandoned(e) == FALSE  \* mutant: stale claims are not released
Abandoned(e) == ~ \E w \in Workers :
  jobs[e].owner = w /\ work[w].pc \notin {"idle", "selected"} /\ work[w].job = e

\* A claim without a heartbeat for ten minutes: its worker died, or (a fault)
\* it is alive but stalled.
JobRecover(e) ==
  /\ jobs[e].status = "RUNNING"
  /\ \/ Abandoned(e) /\ UNCHANGED faults
     \/ ~Abandoned(e) /\ Fault
  /\ jobs' = [jobs EXCEPT ![e].status = "PENDING", ![e].owner = "nobody"]
  /\ UNCHANGED <<subs, userActive, cmds, physical, flags, call, sweep, site, work>>

Worker(w) == JobClaim(w) \/ JobBegin(w) \/ JobEnd(w)

-----------------------------------------------------------------------------
(* Entitlement: subscriptions begin and end, the user is disabled.  Every   *)
(* loss enqueues its deactivation job in the transaction of the loss.       *)

\* enqueueInverterDeactivationJob: an upsert that leaves an existing job alone.
Enqueue(e) ==
  jobs' = IF jobs[e] = NoJob THEN [jobs EXCEPT ![e].status = "PENDING"] ELSE jobs

NotCommerce == <<cmds, physical, flags, call, sweep, site, work, faults>>

Subscribe(s) ==
  /\ subs[s] = "NONE"
  /\ subs' = [subs EXCEPT ![s] = "ACTIVE"]
  /\ UNCHANGED <<userActive, jobs, NotCommerce>>

\* endsAt passes.  Until the runner notices (and for up to seven days while a
\* renewal payment is tried) the row is ACTIVE without giving an entitlement.
Lapse(s) ==
  /\ subs[s] = "ACTIVE"
  /\ subs' = [subs EXCEPT ![s] = "LAPSED"]
  /\ UNCHANGED <<userActive, jobs, NotCommerce>>

\* The runner marks it EXPIRED.
Expire(s) ==
  /\ subs[s] = "LAPSED"
  /\ subs' = [subs EXCEPT ![s] = "ENDED"]
  /\ Enqueue(s)
  /\ UNCHANGED <<userActive, NotCommerce>>

\* Cancelled by the user or an administrator, even after it lapsed.
Cancel(s) ==
  /\ subs[s] \in {"ACTIVE", "LAPSED"}
  /\ subs' = [subs EXCEPT ![s] = "ENDED"]
  /\ Enqueue(s)
  /\ UNCHANGED <<userActive, NotCommerce>>

\* The payment is refunded, whatever became of the subscription it bought.
Refund(s, e) ==
  /\ subs[s] # "NONE"
  /\ jobs[e] = NoJob
  /\ subs' = [subs EXCEPT ![s] = "ENDED"]
  /\ Enqueue(e)
  /\ UNCHANGED <<userActive, NotCommerce>>

\* Disabled by an administrator; authVersion makes the event's key a new one.
Disable(e) ==
  /\ userActive
  /\ jobs[e] = NoJob
  /\ userActive' = FALSE
  /\ Enqueue(e)
  /\ UNCHANGED <<subs, NotCommerce>>

Enable ==
  /\ ~userActive
  /\ userActive' = TRUE
  /\ UNCHANGED <<subs, jobs, NotCommerce>>

Commerce ==
  \/ \E s \in Subs : Subscribe(s) \/ Lapse(s) \/ Expire(s) \/ Cancel(s)
  \/ \E s \in Subs, e \in Refunds : Refund(s, e)
  \/ \E e \in Disablings : Disable(e)
  \/ Enable

\* A saved technical profile is no longer complete (technical-profile.ts), or
\* the account is connected again and what the vendor answered some time ago
\* overwrites both flags, without the inverter lock.
FlagsOverwritten ==
  /\ Fault
  /\ \/ requiredInfo' = TRUE /\ UNCHANGED optimizationOn
     \/ optimizationOn' \in BOOLEAN /\ requiredInfo' \in BOOLEAN
  /\ UNCHANGED <<commerce, cmds, physical, call, sweep, site, work>>

\* A process dies: its transaction is rolled back, its locks are released.
Crash(p) ==
  /\ call[p].pc # "idle" \/ (p \in Workers /\ work[p].pc # "idle")
  /\ Fault
  /\ Call(p, IdleCall)
  /\ sweep' = [sweep EXCEPT ![p] = NoSweep]
  /\ site' = [u \in Users |-> IF u = p THEN IdleSite ELSE site[u]]
  /\ work' = [w \in Workers |-> IF w = p THEN IdleWork ELSE work[w]]
  /\ UNCHANGED <<commerce, cmds, physical, flags>>

Next ==
  \/ \E p \in Procs : IssueInverterCommand(p) \/ CommandFault(p) \/ Sweep(p) \/ Crash(p)
  \/ \E u \in Users : SiteCommand(u) \/ \E r \in Requests : SiteRequest(u, r)
  \/ \E c \in Reconcilers : ReconcileDone(c)
                           \/ \E i \in Inverters : \E n \in DOMAIN cmds[i] : ReconcilePick(c, i, n)
  \/ \E w \in Workers : Worker(w) \/ \E e \in Events : JobSelect(w, e)
  \/ \E e \in Events : JobRecover(e)
  \/ Commerce
  \/ FlagsOverwritten

Spec == Init /\ [][Next]_vars

-----------------------------------------------------------------------------
(* Properties *)

Calls ==
  {IdleCall}
  \cup [pc: {"precheck", "phase1"}, inv: Inverters, key: Keys]
  \cup [pc: {"phase2", "held", "applied", "unknown", "fail"},
        inv: Inverters, key: Keys, n: Nat \ {0}, rep: BOOLEAN]
  \cup [pc: {"done"}, inv: Inverters, key: Keys, res: Settled \cup {"PENDING", "REJECTED", "ERROR"}]

Sweeps ==
  {NoSweep}
  \cup [on: {TRUE}, kind: {"job"}, ref: Events, att: Nat,
        inv: Inverters, try: {1, 2}, failed: BOOLEAN]
  \cup [on: {TRUE}, kind: {"unresolved"}, ref: OnRequests, att: Inverters,
        inv: Inverters, try: {1, 2}, failed: BOOLEAN]

Jobs == [status: {"NONE", "PENDING", "RUNNING", "SUCCEEDED"},
         owner: Workers \cup {"nobody"}, attempts: Nat]

\* Every variable stays in its type.
TypeOK ==
  /\ subs \in [Subs -> {"NONE", "ACTIVE", "LAPSED", "ENDED"}]
  /\ userActive \in BOOLEAN
  /\ jobs \in [Events -> Jobs]
  /\ cmds \in [Inverters -> Seq(Command)]
  /\ physical \in [Inverters -> BOOLEAN]
  /\ optimizationOn \in BOOLEAN
  /\ requiredInfo \in BOOLEAN
  /\ call \in [Procs -> Calls]
  /\ sweep \in [Procs -> Sweeps]
  /\ site \in [Users -> {IdleSite} \cup
        [pc: {"loop", "rollback"}, req: Requests, acked: SUBSET Inverters]]
  /\ work \in [Workers -> {IdleWork} \cup
        [pc: {"selected", "claimed", "sweeping", "obsolete", "confirmed", "failed"},
         job: Events, att: Nat]]
  /\ faults \in 0..MaxFaults

\* A turnon has passed the guards of phase 2 and may reach the inverter.
TurningOn(i) ==
  \E p \in Procs : Holding(p) /\ call[p].inv = i /\ Type(call[p].key) = "turnon"
Off(i) == ~physical[i] /\ ~TurningOn(i)

\* Once no subscription is left and no deactivation job is live, no inverter is
\* left running or about to be started: neither a command that had passed its
\* checks, nor a retry, a rollback, the reconciler or a worker that lost its
\* claim can leave one on (deactivation-jobs.ts, service.ts:1200-1205).
SafeOff == ~Subscribed /\ (\A e \in Events : ~Live(e)) => \A i \in Inverters : Off(i)

\* When all is settled that way no turnon waits to be carried out either: the
\* reconciler could otherwise switch an inverter on, without a new request, as
\* soon as the user is entitled again.
NoStaleTurnon ==
  ~Subscribed /\ (\A e \in Events : ~Live(e)) =>
    \A i \in Inverters : \A n \in DOMAIN cmds[i] :
      Pending(i, n) => Type(cmds[i][n].key) = "turnoff"

\* A settled command never changes its status again, whoever retries it.
SettledIsFinal ==
  [][\A i \in Inverters : \A n \in DOMAIN cmds[i] :
       ~Pending(i, n) => cmds'[i][n].status = cmds[i][n].status]_vars

\* A command is acknowledged only in the state it asked for.
AcknowledgedIsPhysical ==
  [][\A i \in Inverters : \A n \in DOMAIN cmds[i] :
       Pending(i, n) /\ cmds'[i][n].status = "ACKNOWLEDGED" =>
         physical'[i] = (Type(cmds[i][n].key) = "turnon")]_vars

\* "A partially acknowledged ON is immediately compensated with verified OFF"
\* (service.ts:1703): when the last command of a rollback is acknowledged, no
\* inverter of the site is left running.
PartialOnCompensated ==
  \A u \in Users :
    (/\ site[u].pc = "rollback" /\ site[u].acked = {}
     /\ call[u].pc = "done" /\ call[u].res = "ACKNOWLEDGED") =>
      \A i \in Inverters : ~physical[i]

-----------------------------------------------------------------------------
(* The abstract promise, and the inductive invariant behind SafeOff         *)

IsJobKey(k, e) == k.kind = "job" /\ k.ref = e
\* Some command of this job was acknowledged on the inverter.
Acked(e, i) ==
  \E n \in DOMAIN cmds[i] : IsJobKey(cmds[i][n].key, e) /\ cmds[i][n].status = "ACKNOWLEDGED"
\* A worker has found the user entitled and is about to close the job.
Obsolete(e) == \E w \in Workers : work[w].pc = "obsolete" /\ work[w].job = e
Owed(i) == \E e \in Events : Live(e) /\ ~Acked(e, i) /\ ~Obsolete(e)

Cover == \A i \in Inverters : Off(i) \/ Subscribed \/ Owed(i)

\* Two calls never hold the lock of one inverter.
Mutex == \A p, q \in Procs :
  Holding(p) /\ Holding(q) /\ call[p].inv = call[q].inv => p = q

CallInv == \A p \in Procs :
  /\ call[p].pc \in {"phase2", "held", "applied", "unknown", "fail"} =>
       call[p].n \in DOMAIN cmds[call[p].inv] /\ cmds[call[p].inv][call[p].n].key = call[p].key
  /\ call[p].pc = "applied" =>
       physical[call[p].inv] = (Type(call[p].key) = "turnon")
  /\ call[p].pc = "done" /\ call[p].key.kind = "job" /\ call[p].res = "ACKNOWLEDGED" =>
       Acked(call[p].key.ref, call[p].inv)

\* Nobody settles the command that a holder of the lock is carrying out.
HeldInv == \A p \in Procs : Holding(p) => Pending(call[p].inv, call[p].n)

\* An event that has not happened has left no trace.
FreshInv == \A e \in Events : jobs[e].status = "NONE" =>
  /\ jobs[e] = NoJob
  /\ \A i \in Inverters : \A n \in DOMAIN cmds[i] : ~IsJobKey(cmds[i][n].key, e)
  /\ \A p \in Procs : call[p].pc # "idle" => ~IsJobKey(call[p].key, e)
  /\ \A p \in Procs : sweep[p].on => ~IsJobKey(sweep[p], e)
  /\ \A w \in Workers : work[w].pc # "idle" => work[w].job # e

SubsInv == \A s \in Subs : subs[s] # "ENDED" => jobs[s].status = "NONE"

\* What a worker has behind it, inverter by inverter.
WorkInv == \A w \in Workers :
  /\ call[w].pc # "idle" => sweep[w].on
  /\ sweep[w].on =>
       /\ work[w].pc = "sweeping"
       /\ call[w].pc # "idle"
       /\ IsJobKey(sweep[w], work[w].job)
       /\ IsJobKey(call[w].key, work[w].job)
       /\ call[w].inv = sweep[w].inv
       /\ ~sweep[w].failed => \A i \in 1..(sweep[w].inv - 1) : Acked(work[w].job, i)
  /\ work[w].pc = "confirmed" => \A i \in Inverters : Acked(work[w].job, i)

IInv == TypeOK /\ Cover /\ Mutex /\ CallInv /\ HeldInv /\ FreshInv /\ SubsInv /\ WorkInv

\* The control implements the abstract promise.
Promise == INSTANCE ControlPromise WITH
  subscribed <- Subscribed,
  running <- {i \in Inverters : ~Off(i)},
  owed <- {i \in Inverters : Owed(i)}
PromiseSpec == Promise!Spec

-----------------------------------------------------------------------------
(* Fairness and liveness                                                    *)

\* Requests are served, the runner is called again and again, a lock that is
\* free is granted.  Nothing obliges users to act, vendors or calls to fail.
FairSpec ==
  /\ Spec
  /\ \A p \in Procs : WF_vars(IssueInverterCommand(p)) /\ WF_vars(Sweep(p))
  /\ \A u \in Users : WF_vars(SiteCommand(u))
  /\ \A c \in Reconcilers : WF_vars(ReconcileDone(c))
  /\ \A w \in Workers : WF_vars(Worker(w)) /\ WF_vars(\E e \in Events : JobSelect(w, e))
  /\ \A e \in Events : WF_vars(JobRecover(e))
  /\ \A s \in Subs : WF_vars(Expire(s))

\* After the entitlement is lost every inverter is eventually off, unless it is
\* granted again: whatever fails along the way is retried.
LossStopsInverters ==
  ~Entitled ~> (Entitled \/ \A i \in Inverters : ~physical[i])

=============================================================================
