\* Two inverters of a site, or two workers on one job.
SPECIFICATION MCSpec
CONSTANTS
  N = 2
  OnRequests = {on1}
  OffRequests = {}
  Users = {u1}
  Workers = {w1, w2}
  Reconcilers = {}
  Subs = {s1}
  Refunds = {}
  Disablings = {}
  MaxFaults = 1
  Scenes = {"inverters", "workers"}
  Lone = w1
INVARIANTS SafeOff
PROPERTIES LossStopsInverters
\* Once nothing is subscribed and no job is live the system may rest.
CHECK_DEADLOCK FALSE
