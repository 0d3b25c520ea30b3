\* One inverter: the requests of a user with a reconciler, and all the losses of the entitlement.
SPECIFICATION MCSpec
CONSTANTS
  N = 1
  OnRequests = {on1}
  OffRequests = {off1}
  Users = {u1}
  Workers = {w1}
  Reconcilers = {c1}
  Subs = {s1}
  Refunds = {r1}
  Disablings = {d1}
  MaxFaults = 1
  Scenes = {"requests", "losses"}
INVARIANTS IInv NoStaleTurnon
PROPERTIES PromiseSpec
\* Once nothing is subscribed and no job is live the system may rest.
CHECK_DEADLOCK FALSE
