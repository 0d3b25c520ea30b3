---------------------------- MODULE HistoryImport ----------------------------
(***************************************************************************)
(* The import of a plant's history (src/src/lib/energy/history-import.ts). *)
(*                                                                         *)
(* A request makes one import per inverter, split into chunks of twenty    *)
(* days, each with a durable job.  The runner claims a job, marks its      *)
(* chunk, fetches the range and stores it in one transaction, which also   *)
(* supersedes the analyses of the site; then it derives the import's       *)
(* status from its chunks and, when every import of the request has ended, *)
(* starts a BASE analysis.  The vendor's cloud answers ranges it has not   *)
(* prepared yet with an empty list, which is believed only when a later    *)
(* range has data or the attempts are used up.  A site whose history stays *)
(* sparse is imported again: by a visit, by the schedule, or by hand.      *)
(***************************************************************************)
EXTENDS Integers, FiniteSets

CONSTANTS
  Inverters,      \* the inverters of the site
  LastChunk,      \* chunks of an import: the twenty-day ranges, oldest first
  MaxBatches,     \* bound: requests for an import
  MaxTries,       \* maxAttempts of a chunk
  HistoryFaults,  \* bound: errors of the cloud, deaths of the runner and retries by hand
  ThrowsAt,       \* the steps of the runner at which an error may be thrown
  DiesAt          \* the steps of the runner at which it may die

ASSUME HistoryAssumption ==
  /\ LastChunk \in Nat \ {0} /\ MaxBatches \in Nat \ {0} /\ MaxTries \in Nat \ {0} /\ HistoryFaults \in Nat

VARIABLES
  import,     \* EnergyHistoryImport.status of each request and inverter
  chunk,      \* EnergyHistoryImportChunk: status, attempts, whether it brought intervals
  chunkJob,   \* the ScheduledJob of each chunk: status, and whether its lock is 30 minutes old
  importer,   \* what the runner holds
  closed,     \* metadata.historyClosedAt: the cloud has nothing more
  analysis,   \* the site's BASE analysis: "none", "queued", or "superseded" by new data
  historyFaults

historyVars == <<import, chunk, chunkJob, importer, closed, analysis, historyFaults>>

Batch == 1 .. MaxBatches
ImportId == Batch \X Inverters
Chunk == Batch \X Inverters \X (1 .. LastChunk)
ImportOf(c) == <<c[1], c[2]>>
ChunksOf(i) == {c \in Chunk : ImportOf(c) = i}

NoChunk == [status |-> "NONE", attempts |-> 0, points |-> FALSE]
NoChunkJob == [status |-> "NONE", stale |-> FALSE]
Waiting == [NoChunkJob EXCEPT !.status = "PENDING"]

Resting == [pc |-> "idle", chunk |-> <<1, CHOOSE i \in Inverters : TRUE, 1>>, empty |-> FALSE,
            verdict |-> "NONE", then |-> "idle"]

HistoryInit ==
  /\ import = [i \in ImportId |-> "NONE"]
  /\ chunk = [c \in Chunk |-> NoChunk]
  /\ chunkJob = [c \in Chunk |-> NoChunkJob]
  /\ importer = Resting
  /\ closed = FALSE
  /\ analysis = "none"
  /\ historyFaults = 0

(***************************************************************************)
(* Requests                                                                *)
(***************************************************************************)

Active == {i \in ImportId : import[i] \in {"QUEUED", "RUNNING"}}
Requested == {b \in Batch : \E i \in Inverters : import[<<b, i>>] # "NONE"}

\* requestHistoryImport: an import that is QUEUED or RUNNING is handed back.
RequestHistoryImport ==
  LET b == Cardinality(Requested) + 1 IN
  /\ Active = {} /\ b <= MaxBatches
  /\ import' = [i \in ImportId |-> IF i[1] = b THEN "QUEUED" ELSE import[i]]
  /\ chunk' = [c \in Chunk |-> IF c[1] = b THEN [NoChunk EXCEPT !.status = "PENDING"] ELSE chunk[c]]
  /\ chunkJob' = [c \in Chunk |-> IF c[1] = b THEN Waiting ELSE chunkJob[c]]

\* Ranges of which no import has brought anything: less than 75 % of the year.
Sparse == \E i \in Inverters, n \in 1 .. LastChunk : \A b \in Batch : ~chunk[<<b, i, n>>].points

\* The connection of a plant, and the import asked for by hand while nothing is known.
ConnectPlant ==
  /\ Requested = {}
  /\ RequestHistoryImport
  /\ UNCHANGED <<importer, closed, analysis, historyFaults>>

\* A visit, or a check by hand, asks the backend to fill its gaps and imports once more.
RefreshIfSparse(manual) ==
  /\ Requested # {} /\ Sparse
  /\ manual \/ ~closed
  /\ closed' \in BOOLEAN            \* every inverter's backfill answered "complete"
  /\ RequestHistoryImport
  /\ UNCHANGED <<importer, analysis, historyFaults>>

\* The schedule does the same, unless somebody canceled the last request.
RequeueSparse ==
  /\ Requested # {}
  /\ \A i \in Inverters : import[<<Cardinality(Requested), i>>] \in {"COMPLETED", "PARTIAL", "FAILED"}
  /\ RefreshIfSparse(FALSE)

\* An administrator puts the failed chunks back, with their attempts.
RetryHistoryImport(i) ==
  LET failed == {c \in ChunksOf(i) : chunk[c].status = "FAILED"} IN
  /\ historyFaults < HistoryFaults
  /\ failed # {}
  /\ chunk' = [c \in Chunk |-> IF c \in failed THEN [chunk[c] EXCEPT !.status = "PENDING", !.attempts = 0] ELSE chunk[c]]
  /\ chunkJob' = [c \in Chunk |-> IF c \in failed THEN Waiting ELSE chunkJob[c]]
  /\ import' = [import EXCEPT ![i] = "QUEUED"]
  /\ historyFaults' = historyFaults + 1
  /\ UNCHANGED <<importer, closed, analysis>>

(***************************************************************************)
(* Recovery of stale locks                                                 *)
(***************************************************************************)

ChunkLockAges(c) ==
  /\ chunkJob[c].status = "RUNNING" /\ ~chunkJob[c].stale
  /\ importer.pc = "idle" \/ importer.chunk # c
  /\ chunkJob' = [chunkJob EXCEPT ![c].stale = TRUE]
  /\ UNCHANGED <<import, chunk, importer, closed, analysis, historyFaults>>

\* Only a chunk that is RUNNING goes back; otherwise its job is FAILED for good.
RecoverChunkJob(c) ==
  LET retry == chunk[c].attempts < MaxTries IN
  IF chunk[c].status # "RUNNING"
    THEN /\ chunkJob' = [chunkJob EXCEPT ![c] = [NoChunkJob EXCEPT !.status = "FAILED"]]
         /\ UNCHANGED chunk
    ELSE /\ chunk' = [chunk EXCEPT ![c].status = IF retry THEN "PENDING" ELSE "FAILED"]
         /\ chunkJob' = [chunkJob EXCEPT ![c] = IF retry THEN Waiting ELSE [NoChunkJob EXCEPT !.status = "FAILED"]]

\* The import of a chunk that went back is refreshed (one runner has one stale job at a time).
RecoverStale ==
  LET stale == {c \in Chunk : chunkJob[c].status = "RUNNING" /\ chunkJob[c].stale} IN
  /\ importer.pc = "idle"
  /\ \E c \in stale :
       /\ RecoverChunkJob(c)
       /\ importer' = IF chunk[c].status = "RUNNING"
                        THEN [importer EXCEPT !.pc = "refresh", !.chunk = c, !.then = "idle"]
                        ELSE importer
  /\ UNCHANGED <<import, closed, analysis, historyFaults>>

(***************************************************************************)
(* The runner                                                              *)
(***************************************************************************)

ImporterAt(pc) == importer.pc = pc
GoOn(pc) == importer' = IF pc = "idle" THEN Resting ELSE [importer EXCEPT !.pc = pc]

ClaimChunkJob ==
  /\ ImporterAt("idle")
  /\ \A c \in Chunk : ~(chunkJob[c].status = "RUNNING" /\ chunkJob[c].stale)
  /\ \E c \in {d \in Chunk : chunkJob[d].status = "PENDING"} :
       /\ chunkJob' = [chunkJob EXCEPT ![c].status = "RUNNING"]
       /\ importer' = [importer EXCEPT !.pc = "mark", !.chunk = c]
  /\ UNCHANGED <<import, chunk, closed, analysis, historyFaults>>

MarkChunk ==
  /\ ImporterAt("mark")
  /\ chunk' = [chunk EXCEPT ![importer.chunk].status = "RUNNING", ![importer.chunk].attempts = @ + 1]
  /\ GoOn("markImport")
  /\ UNCHANGED <<import, chunkJob, closed, analysis, historyFaults>>

MarkImport ==
  LET i == ImportOf(importer.chunk) IN
  /\ ImporterAt("markImport")
  /\ import' = IF import[i] = "QUEUED" THEN [import EXCEPT ![i] = "RUNNING"] ELSE import
  /\ GoOn("fetch")
  /\ UNCHANGED <<chunk, chunkJob, closed, analysis, historyFaults>>

HasLaterData(c) ==
  \E d \in ChunksOf(ImportOf(c)) : d[3] > c[3] /\ chunk[d].status = "SUCCEEDED" /\ chunk[d].points

\* An empty answer is a wait, not the end: it is retried unless nothing speaks for it any more.
Fetch ==
  LET c == importer.chunk IN
  /\ ImporterAt("fetch")
  /\ \E empty \in BOOLEAN :
       importer' = [importer EXCEPT !.empty = empty,
                      !.pc = IF empty /\ chunk[c].attempts < MaxTries /\ ~HasLaterData(c) THEN "catch" ELSE "store"]
  /\ UNCHANGED <<import, chunk, chunkJob, closed, analysis, historyFaults>>

\* One transaction: the intervals, the supersession of the site's analyses, the chunk.
StoreChunk ==
  LET c == importer.chunk IN
  /\ ImporterAt("store")
  /\ chunk' = [chunk EXCEPT ![c].status = "SUCCEEDED", ![c].points = ~importer.empty]
  /\ analysis' = IF analysis = "queued" THEN "superseded" ELSE analysis
  /\ importer' = [importer EXCEPT !.pc = "refresh", !.then = "finish", !.empty = FALSE]
  /\ UNCHANGED <<import, chunkJob, closed, historyFaults>>

\* Mutant: an import that brought nothing has not ended.
EndlessVerdict(i) ==
  IF \E c \in ChunksOf(i) : chunk[c].status = "SUCCEEDED" THEN "COMPLETED" ELSE "RUNNING"

\* The status of an import is derived from its chunks and written afterwards.
Verdict(i) ==
  LET with(status) == {c \in ChunksOf(i) : chunk[c].status = status} IN
  IF with("PENDING") \cup with("RUNNING") # {} THEN "RUNNING"
  ELSE IF with("FAILED") = {} THEN "COMPLETED"
  ELSE IF with("SUCCEEDED") = {} THEN "FAILED" ELSE "PARTIAL"

RefreshRun ==
  /\ ImporterAt("refresh")
  /\ importer' = [importer EXCEPT !.pc = "write", !.verdict = Verdict(ImportOf(importer.chunk))]
  /\ UNCHANGED <<import, chunk, chunkJob, closed, analysis, historyFaults>>

WriteVerdict ==
  /\ ImporterAt("write")
  /\ import' = [import EXCEPT ![ImportOf(importer.chunk)] = importer.verdict]
  /\ GoOn(IF importer.verdict = "RUNNING" THEN importer.then ELSE "analyse")
  /\ UNCHANGED <<chunk, chunkJob, closed, analysis, historyFaults>>

\* Mutant: an import with failed chunks is of no use.
UsefulWhenWhole(batch) == batch = {"COMPLETED"}

Useful(batch) == batch \cap {"QUEUED", "RUNNING"} = {} /\ batch \cap {"COMPLETED", "PARTIAL"} # {}

\* Every import of the request has ended and one of them is of use: analyse.  The history may still
\* be too short, and then nothing is queued.
MaybeEnqueueBaseAnalysis ==
  LET batch == {import[<<importer.chunk[1], i>>] : i \in Inverters} IN
  /\ ImporterAt("analyse")
  /\ analysis' = IF Useful(batch) THEN "queued" ELSE analysis
  /\ GoOn(importer.then)
  /\ UNCHANGED <<import, chunk, chunkJob, closed, historyFaults>>

FinishJob ==
  /\ ImporterAt("finish")
  /\ chunkJob' = [chunkJob EXCEPT ![importer.chunk] = [NoChunkJob EXCEPT !.status = "SUCCEEDED"]]
  /\ importer' = Resting
  /\ UNCHANGED <<import, chunk, closed, analysis, historyFaults>>

\* An error of the cloud, its tokens or its answer; or of the database, after the chunk was stored.
ImporterThrows ==
  /\ importer.pc \in ThrowsAt
  /\ historyFaults < HistoryFaults
  /\ historyFaults' = historyFaults + 1
  /\ GoOn("catch")
  /\ UNCHANGED <<import, chunk, chunkJob, closed, analysis>>

\* The catch does not look whether the chunk was stored.
CatchChunk ==
  LET c == importer.chunk
      retry == chunk[c].attempts < MaxTries IN
  /\ ImporterAt("catch")
  /\ chunk' = [chunk EXCEPT ![c].status = IF retry THEN "PENDING" ELSE "FAILED"]
  /\ chunkJob' = [chunkJob EXCEPT ![c] = IF retry THEN Waiting ELSE [NoChunkJob EXCEPT !.status = "FAILED"]]
  /\ importer' = [importer EXCEPT !.pc = "refresh", !.then = "idle"]
  /\ UNCHANGED <<import, closed, analysis, historyFaults>>

ImporterDies ==
  /\ importer.pc \in DiesAt
  /\ historyFaults < HistoryFaults
  /\ historyFaults' = historyFaults + 1
  /\ importer' = Resting
  /\ UNCHANGED <<import, chunk, chunkJob, closed, analysis>>

(***************************************************************************)
(* The specification                                                       *)
(***************************************************************************)

RunnerStepH ==
  \/ RecoverStale \/ ClaimChunkJob \/ MarkChunk \/ MarkImport \/ Fetch \/ StoreChunk
  \/ RefreshRun \/ WriteVerdict \/ MaybeEnqueueBaseAnalysis \/ FinishJob \/ CatchChunk

HistoryNext ==
  \/ ConnectPlant \/ RefreshIfSparse(TRUE) \/ RefreshIfSparse(FALSE) \/ RequeueSparse
  \/ \E i \in ImportId : RetryHistoryImport(i)
  \/ RunnerStepH \/ ImporterThrows \/ ImporterDies
  \/ \E c \in Chunk : ChunkLockAges(c)

\* The job runner is called again and again, and a lock that nobody renews gets old.
HistoryFairness ==
  /\ WF_historyVars(RunnerStepH)
  /\ \A c \in Chunk : WF_historyVars(ChunkLockAges(c))

HistorySpec == HistoryInit /\ [][HistoryNext]_historyVars /\ HistoryFairness

(***************************************************************************)
(* Properties                                                              *)
(***************************************************************************)

HistoryTypeOK ==
  /\ import \in [ImportId -> {"NONE", "QUEUED", "RUNNING", "PARTIAL", "FAILED", "COMPLETED"}]
  /\ \A c \in Chunk : chunk[c].attempts \in 0 .. MaxTries
  /\ analysis \in {"none", "queued", "superseded"}

\* Every import comes to an end, through errors and deaths of the runner: one that does not also
\* keeps every later request from importing anything.
ImportSettles ==
  /\ []HistoryTypeOK
  /\ \A i \in ImportId : import[i] \in {"QUEUED", "RUNNING"} ~> import[i] \notin {"QUEUED", "RUNNING"}

\* Data that supersede the site's analysis lead to a new one: the supersession of the last chunk
\* is followed by the request, however the chunks of the inverters end.
HistoryIsAnalysed ==
  analysis = "superseded" ~> (analysis = "queued" \/ Active # {})

=============================================================================
