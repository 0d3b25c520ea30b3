SPECIFICATION MCSpec
CHECK_DEADLOCK FALSE
CONSTANTS
  Clients = {c1, c2}
  Kinds = {"dashboard", "import", "backfill", "profile", "market", "command", "sync"}
  MaxTokens = 4
  MaxUnanswered = 2
  MaxConnects = 1
  Plants = {1, 2, 3}
  Limit = 2
  MaxDown = 1
  MaxFaults = 1
  Servers = {x, y}
  Home = x
  Importer = c1
  Summaries = {r1, r2}
  Writes = {w1, w2}
  MaxPromises = 2
  Jobs = {j1, j2}
  Runners = {n1, n2}
  MaxStops = 1
  MaxOvertakes = 1
  Users = {u1, u2}
  MaxFailures = 1
  MaxReloads = 1
  MaxExpiries = 1
  Addresses = {a, b}
  MaxEdits = 2
  MaxSaves = 3
  MaxChanges = 2
  MaxVisits = 2
  MaxInFlight = 2
  Scenes = {"clients", "orders", "others", "reads", "failures", "reconnect", "rounds", "quality", "simulation", "onboarding", "form", "pages"}
INVARIANTS PairIsKept QualityIsFresh SavedIsLatest
PROPERTIES EveryPlantIsRead SimulationSettles OnboardingEnds PagesAreTrue
