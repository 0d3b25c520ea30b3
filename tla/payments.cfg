\* Two orders, also of one cart or of one offer, and the trial, with one failing update.
SPECIFICATION Spec
CONSTANTS
  Payments = {p1, p2}
  Carts = {k1, k2}
  Offers = {o1}
  FreeAccess = TRUE
  Served = FALSE
  Shoppers = {u1}
  Runners = {r1}
  Notifiers = {n1}
  MaxAttempts = 1
  MaxFaults = 1
  None = None
  Product = Product
  Empty = Empty
INVARIANTS ServiceIsFunded SoldOnce
SYMMETRY Symmetry
\* Everything may be settled and the bounded rows used up.
CHECK_DEADLOCK FALSE
