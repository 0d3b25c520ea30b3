\* A served customer, two attempts at one renewal and one failing update.
SPECIFICATION Spec
CONSTANTS
  Payments = {p1, p2, p3}
  Carts = {k1, k2, k3}
  Offers = {}
  FreeAccess = FALSE
  Served = TRUE
  Shoppers = {}
  Runners = {r1}
  Notifiers = {n1}
  MaxAttempts = 2
  MaxFaults = 1
  None = None
  Product = Product
  Empty = Empty
INVARIANTS ChargedOnce
\* Everything may be settled and the bounded rows used up.
CHECK_DEADLOCK FALSE
