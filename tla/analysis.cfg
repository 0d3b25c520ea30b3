SPECIFICATION MCSpec
CHECK_DEADLOCK FALSE
CONSTANTS
  Workers = {w1}
  Scenarios = {s1, s2}
  MaxInputs = 2
  MaxEvents = 3
  SignalAt = {"recover", "claim", "prepare", "read", "heartbeat", "check", "begin", "compute", "enrich", "complete", "offer", "mail", "succeed", "catch"}
  MaxAttempts = 3
  MaxConcurrent = 1
  Inverters = {i1, i2}
  LastChunk = 2
  MaxBatches = 2
  MaxTries = 2
  HistoryFaults = 2
  DiesAt = {"markImport", "store"}
  ThrowsAt = {"fetch"}
  Scenes = {"requests", "direct", "history", "again"}
PROPERTIES NotComputedTwice AnalysisSettles ImportSettles HistoryIsAnalysed
