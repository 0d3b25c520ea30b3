SPECIFICATION HistorySpec
CHECK_DEADLOCK FALSE
CONSTANTS
  Inverters = {i1}
  LastChunk = 2
  MaxBatches = 1
  MaxTries = 2
  HistoryFaults = 1
  DiesAt = {"mark"}
  ThrowsAt = {"fetch"}
PROPERTIES ImportSettles
