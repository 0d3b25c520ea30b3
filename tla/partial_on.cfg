\* The inverter whose turnon is unresolved is not rolled back.
SPECIFICATION Spec
CONSTANTS
  N = 2
  OnRequests = {on1}
  OffRequests = {}
  Users = {u1}
  Workers = {}
  Reconcilers = {}
  Subs = {s1}
  Refunds = {}
  Disablings = {}
  MaxFaults = 1
INVARIANTS PartialOnCompensated
\* Once nothing is subscribed and no job is live the system may rest.
CHECK_DEADLOCK FALSE
