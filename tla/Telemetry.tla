----------------------------- MODULE Telemetry -----------------------------
(***************************************************************************)
(* The reading of the plants (energy/service.ts, interval-write.ts) and    *)
(* the cache of what is known about their data (data-quality.ts).          *)
(*                                                                         *)
(* Rounds: every 30 seconds a job reads the plants whose last successful   *)
(* reading is too old, a few of them, the oldest first.  A plant keeps its *)
(* place when its reading fails.                                           *)
(*                                                                         *)
(* Data: readings and imports write the intervals of a plant; each process *)
(* caches the promise of a summary and forgets it after its own writes.    *)
(* One plant stands for all of them.  What is written is left out: a       *)
(* summary contains the transactions committed before its query.           *)
(***************************************************************************)
EXTENDS Naturals, FiniteSets, Sequences

CONSTANTS
  Plants,
  Limit,          \* plants of one round (3 in the route of the jobs)
  MaxDown,        \* bound: plants that do not answer
  MaxFaults,      \* bound: readings, writes and decryptions that fail for once
  Servers,        \* processes of the application
  Summaries,      \* requests for a summary
  Writes,         \* transactions that write intervals
  MaxPromises     \* bound: summaries computed

ASSUME SummariesAssumption == Servers # {} /\ MaxPromises \in Nat

VARIABLES
  order,          \* the plants by lastSyncedAt, the oldest (or never read) first
  old,            \* how many of them are older than staleBefore
  status,         \* EnergySite: status
  account,        \* EnergyConnection of the plant's owner: status
  answers,        \* external: what the cloud has of a plant
  round,          \* syncConnectedEnergySites: the plants still to be read
  faults

roundVars == <<order, old, status, account, answers, round, faults>>

VARIABLES
  commits,        \* transactions committed
  write,          \* persistLiveSnapshot and importChunk
  promise,        \* the promises of computeEnergyDataQuality
  qualityCache,   \* of each process: the promise kept, or 0
  request,        \* getEnergyDataQuality
  visible         \* ghost: the commits a process has invalidated its cache for

qualityVars == <<commits, write, promise, qualityCache, request, visible>>

-----------------------------------------------------------------------------
(* Rounds.                                                                  *)

Orders == {o \in [1..Cardinality(Plants) -> Plants] : \A i, j \in DOMAIN o : o[i] = o[j] => i = j}
Late(p) == \E i \in 1..old : order[i] = p
Down(p) == answers[p] # "values"

\* connectLegacyEnergyAccount creates a plant with lastSyncedAt null; others were read before.
RoundsInit ==
  /\ order \in Orders
  /\ old \in 0..Len(order)
  /\ status = [p \in Plants |-> "ONLINE"]
  /\ account = [p \in Plants |-> "CONNECTED"]
  /\ answers \in {a \in [Plants -> {"values", "nothing", "error"}] :
                    Cardinality({p \in Plants : a[p] # "values"}) <= MaxDown}
  /\ round = <<>>
  /\ faults = 0

\* The next plant reaches staleBefore.
TimePasses ==
  /\ old < Len(order)
  /\ old' = old + 1
  /\ UNCHANGED <<order, status, account, answers, round, faults>>

DueInAnyOrder ==  \* mutant: the plants are not ordered by their last reading
  SelectSeq(CHOOSE o \in Orders : TRUE, LAMBDA p : Late(p) /\ account[p] = "CONNECTED")
Due == SelectSeq(order, LAMBDA p : Late(p) /\ account[p] = "CONNECTED")

FirstOf(s) == SubSeq(s, 1, IF Len(s) < Limit THEN Len(s) ELSE Limit)

SyncConnectedEnergySites ==
  /\ round = <<>> /\ Due # <<>>
  /\ round' = FirstOf(Due)
  /\ UNCHANGED <<order, old, status, account, answers, faults>>

\* persistSiteSnapshot: only telemetry counts as a reading.
Moved(p) ==
  /\ order' = Append(SelectSeq(order, LAMBDA q : q # p), p)
  /\ old' = IF Late(p) THEN old - 1 ELSE old

\* getEnergyDashboard, for a job's round or for the owner.
Live(p) ==
  /\ answers[p] # "error"
  /\ IF answers[p] = "values" THEN Moved(p) ELSE UNCHANGED <<order, old>>
  /\ status' = [status EXCEPT ![p] = "ONLINE"]
  /\ account' = [account EXCEPT ![p] = "CONNECTED"]
  /\ UNCHANGED faults

\* The values are shown and not stored (ENERGY_LIVE_SNAPSHOT_PERSIST_FAILED).
NotPersisted(p) ==
  /\ answers[p] # "error" /\ faults < MaxFaults /\ faults' = faults + 1
  /\ account' = [account EXCEPT ![p] = "CONNECTED"]
  /\ UNCHANGED <<order, old, status>>

ReadFails(p) ==
  /\ \/ answers[p] = "error" /\ UNCHANGED faults
     \/ answers[p] # "error" /\ faults < MaxFaults /\ faults' = faults + 1
  /\ status' = [status EXCEPT ![p] = "ERROR"]
  /\ UNCHANGED <<order, old, account>>

\* tokensFromConnection: the pair is missing or cannot be decrypted.
NoTokens(p) ==
  /\ faults < MaxFaults /\ faults' = faults + 1
  /\ account' = [account EXCEPT ![p] = "ACTION_REQUIRED"]
  /\ UNCHANGED <<order, old, status>>

ReadDashboard(p) ==
  /\ Live(p) \/ NotPersisted(p) \/ ReadFails(p) \/ NoTokens(p)
  /\ UNCHANGED answers

ReadNext ==
  /\ round # <<>>
  /\ ReadDashboard(Head(round))
  /\ round' = Tail(round)

ViewDashboard(p) ==
  /\ ReadDashboard(p)
  /\ UNCHANGED round

RoundsNext ==
  \/ TimePasses
  \/ SyncConnectedEnergySites
  \/ ReadNext
  \/ \E p \in Plants : ViewDashboard(p)

RoundsSpec ==
  /\ RoundsInit /\ [][RoundsNext]_roundVars
  /\ WF_roundVars(SyncConnectedEnergySites) /\ WF_roundVars(ReadNext)

RoundsTypeOK ==
  /\ order \in Orders /\ old \in 0..Len(order)
  /\ status \in [Plants -> {"ONLINE", "ERROR"}]
  /\ account \in [Plants -> {"CONNECTED", "ACTION_REQUIRED"}]
  /\ answers \in [Plants -> {"values", "nothing", "error"}]
  /\ Len(round) <= Limit /\ faults \in 0..MaxFaults

\* A plant that answers is read again and again, whatever the others do: those
\* that fail keep the first places of the order, and a round is short
\* (service.ts:342-359).  It holds while fewer plants are down than a round takes.
EveryPlantIsRead ==
  /\ []RoundsTypeOK
  /\ \A p \in Plants : (Late(p) /\ ~Down(p)) ~> (~Late(p) \/ account[p] # "CONNECTED")

-----------------------------------------------------------------------------
(* Data and their summary.                                                  *)

NoWrite == [pc |-> "idle", server |-> CHOOSE s \in Servers : TRUE, at |-> 0]
NoPromise == [state |-> "none", commits |-> 0]
NoRequest == [pc |-> "idle", server |-> CHOOSE s \in Servers : TRUE, on |-> 0, atLeast |-> 0]

QualityInit ==
  /\ commits = 0
  /\ write = [w \in Writes |-> NoWrite]
  /\ promise = [i \in 1..MaxPromises |-> NoPromise]
  /\ qualityCache = [s \in Servers |-> 0]
  /\ request = [r \in Summaries |-> NoRequest]
  /\ visible = [s \in Servers |-> 0]

\* persistLiveSnapshot, or the store of a chunk: one transaction.
WriteIntervals(w, s) ==
  /\ write[w].pc = "idle"
  /\ commits' = commits + 1
  /\ write' = [write EXCEPT ![w] = [pc |-> "committed", server |-> s, at |-> commits']]
  /\ UNCHANGED <<promise, qualityCache, request, visible>>

InvalidateSettled(s) ==  \* mutant: a summary that is being computed stays in the cache
  [qualityCache EXCEPT ![s] = IF @ # 0 /\ promise[@].state = "queried" THEN @ ELSE 0]
InvalidateEnergyDataQualityCache(s) == [qualityCache EXCEPT ![s] = 0]

Invalidate(w) ==
  LET s == write[w].server IN
  /\ write[w].pc = "committed"
  /\ qualityCache' = InvalidateEnergyDataQualityCache(s)
  /\ visible' = [visible EXCEPT ![s] = IF write[w].at > @ THEN write[w].at ELSE @]
  /\ write' = [write EXCEPT ![w] = [NoWrite EXCEPT !.pc = "done"]]
  /\ UNCHANGED <<commits, promise, request>>

\* The promise goes into the cache before it is awaited.
GetEnergyDataQuality(r, s) ==
  /\ request[r].pc = "idle"
  /\ IF qualityCache[s] # 0
     THEN /\ request' = [request EXCEPT ![r] =
               [pc |-> "awaiting", server |-> s, on |-> qualityCache[s], atLeast |-> visible[s]]]
          /\ UNCHANGED <<promise, qualityCache>>
     ELSE \E i \in 1..MaxPromises :
          /\ \A j \in 1..MaxPromises : (promise[j].state = "none") <=> (j >= i)
          /\ promise' = [promise EXCEPT ![i].state = "pending"]
          /\ qualityCache' = [qualityCache EXCEPT ![s] = i]
          /\ request' = [request EXCEPT ![r] =
               [pc |-> "awaiting", server |-> s, on |-> i, atLeast |-> visible[s]]]
  /\ UNCHANGED <<commits, write, visible>>

\* computeEnergyDataQuality: the query sees what is committed, its answer takes time.
QueryIntervals(i) ==
  /\ promise[i].state = "pending"
  /\ promise' = [promise EXCEPT ![i] = [state |-> "queried", commits |-> commits]]
  /\ UNCHANGED <<commits, write, qualityCache, request, visible>>

ComputeEnergyDataQuality(i) ==
  /\ \/ promise[i].state = "queried" /\ promise' = [promise EXCEPT ![i].state = "fulfilled"]
     \/ promise[i].state = "pending" /\ promise' = [promise EXCEPT ![i].state = "rejected"]
  /\ UNCHANGED <<commits, write, qualityCache, request, visible>>

\* A rejected promise is removed by each that awaited it, if it is still there.
AnswerQuality(r) ==
  LET i == request[r].on
      s == request[r].server IN
  /\ request[r].pc = "awaiting" /\ promise[i].state \in {"fulfilled", "rejected"}
  /\ qualityCache' = [qualityCache EXCEPT ![s] =
       IF promise[i].state = "rejected" /\ @ = i THEN 0 ELSE @]
  /\ request' = [request EXCEPT ![r] = NoRequest]
  /\ UNCHANGED <<commits, write, promise, visible>>

\* QUALITY_CACHE_MS
CacheExpires(s) ==
  /\ qualityCache[s] # 0
  /\ qualityCache' = [qualityCache EXCEPT ![s] = 0]
  /\ UNCHANGED <<commits, write, promise, request, visible>>

QualityNext ==
  \/ \E w \in Writes : Invalidate(w) \/ \E s \in Servers : WriteIntervals(w, s)
  \/ \E r \in Summaries : AnswerQuality(r) \/ \E s \in Servers : GetEnergyDataQuality(r, s)
  \/ \E i \in 1..MaxPromises : QueryIntervals(i) \/ ComputeEnergyDataQuality(i)
  \/ \E s \in Servers : CacheExpires(s)

QualitySpec == QualityInit /\ [][QualityNext]_qualityVars

QualityTypeOK ==
  /\ commits \in Nat
  /\ write \in [Writes -> [pc: {"idle", "committed", "done"}, server: Servers, at: Nat]]
  /\ promise \in [1..MaxPromises -> [state: {"none", "pending", "queried", "fulfilled", "rejected"},
                                     commits: Nat]]
  /\ qualityCache \in [Servers -> 0..MaxPromises]
  /\ request \in [Summaries -> [pc: {"idle", "awaiting"}, server: Servers, on: 0..MaxPromises,
                                atLeast: Nat]]
  /\ visible \in [Servers -> Nat]

\* A request that begins after a write of its own process has invalidated the
\* cache never gets a summary computed from what was there before the write: the
\* page of an import that has just ended shows its data (data-quality.ts:310-323,
\* 409-429).  The promises are shared, may be pending while the write commits,
\* and may be rejected.  Another process may show the old summary until it expires.
QualityIsFresh ==
  /\ QualityTypeOK
  /\ \A r \in Summaries :
       request[r].pc = "awaiting" /\ promise[request[r].on].state = "fulfilled"
         => promise[request[r].on].commits >= request[r].atLeast

=============================================================================
