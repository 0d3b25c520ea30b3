CONSTANTS
  Messages = {k1}
  Mailers = {m1, m2}
  MaxDeliveries = 2
  MailFaults = 2
  Runners = {r1, r2}
  Subscriptions = {s1}
  RunnerFaults = 2
  MaxFailures = 1
  MaxRequests = 6
  Limit = 2
  Window = 4
  MaxDelay = 1
  Horizon = 9
  Users = {u1, u2}
  Seeded = {u1, u2}
  Links = {l1, l2}
  Sessions = {c1}
  Changes = {x1, x2}
  MaxVersion = 2
  Extractions = {e1, e2}
  MaxAttempts = 1
  MaxMoves = 1
  AgentFaults = 1
  Scenes = {"mail", "runner", "rate", "passwords", "access", "agent"}
SPECIFICATION MCSpec
INVARIANTS DeliveriesExplained OneCycle BurstBounded SomeAdminRemains SessionKnowsPassword LocatorIsKept
PROPERTIES MailSettles CanceledIsKept LapsedIsSwitchedOff
CHECK_DEADLOCK FALSE
