----------------------------- MODULE MCAnalysis -----------------------------
(***************************************************************************)
(* The queue of analyses and the import of history, for TLC.  They share   *)
(* no variable, so a behaviour plays one of them; the queue is played      *)
(* twice, with requests from the web that wait as preparations and with    *)
(* direct calls, and so is the history: from the start with one request,   *)
(* and, with fewer faults, with a second request after one that brought    *)
(* nothing.  It is in the second request that the runner dies.             *)
(***************************************************************************)
EXTENDS AnalysisQueue, HistoryImport

CONSTANT Scenes
VARIABLE scene

allVars == <<scene, queueVars, historyVars>>

\* A first request whose ranges all stayed empty has been analysed as far as it goes.
NothingBrought ==
  /\ import = [i \in ImportId |-> IF i[1] = 1 THEN "COMPLETED" ELSE "NONE"]
  /\ chunk = [c \in Chunk |-> IF c[1] = 1 THEN [status |-> "SUCCEEDED", attempts |-> MaxTries, points |-> FALSE]
                             ELSE NoChunk]
  /\ chunkJob = [c \in Chunk |-> IF c[1] = 1 THEN [NoChunkJob EXCEPT !.status = "SUCCEEDED"] ELSE NoChunkJob]
  /\ importer = Resting
  /\ closed = FALSE
  /\ analysis = "queued"
  /\ historyFaults = HistoryFaults - 1

MCInit ==
  /\ scene \in Scenes
  /\ QueueInit
  /\ IF scene = "again" THEN NothingBrought ELSE HistoryInit

\* The inverters are interchangeable: the first fault befalls a chunk of the same one.
FirstFault ==
  LET none == IF scene = "again" THEN HistoryFaults - 1 ELSE 0 IN
  historyFaults = none /\ historyFaults' # none => importer.chunk[2] = CHOOSE i \in Inverters : TRUE

MCNext ==
  /\ UNCHANGED scene
  /\ \/ scene = "history" /\ HistoryNext /\ FirstFault /\ ~ImporterDies /\ Requested' \subseteq {1} /\ UNCHANGED queueVars
     \/ scene = "again" /\ HistoryNext /\ FirstFault /\ UNCHANGED queueVars
     \/ /\ scene \in {"requests", "direct"} /\ QueueNext /\ UNCHANGED historyVars
        /\ scene = "requests" => UNCHANGED asker["web"]
        /\ scene = "direct" => \A k \in Kinds : UNCHANGED job[<<k, 0>>]

\* The fairness of each part, in its own scene.  It is stated action by action: as implications TLC
\* would multiply it out.
Queue(A) == scene \in {"requests", "direct"} /\ A
History(A) == scene \in {"history", "again"} /\ A

MCSpec ==
  /\ MCInit /\ [][MCNext]_allVars
  /\ \A w \in Workers : WF_queueVars(Queue(WorkerStep(w)))
  /\ \A j \in Job : WF_queueVars(Queue(LockAges(j) /\ job[j].owner = NotHeld))
  /\ WF_historyVars(History(RunnerStepH))
  /\ \A c \in Chunk : WF_historyVars(History(ChunkLockAges(c)))

=============================================================================
