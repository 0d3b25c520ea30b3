CONSTANTS
  Messages <- ReminderKeys
  Mailers = {m1}
  MaxDeliveries = 2
  MailFaults = 0
  Slots = {s1, s2}
  Bookings = {b1, b2}
  MaxRevision = 3
  MaxAttempts = 2
  CalendarWorkers = {w1}
  CalendarFaults = 1
  Disconnects = {d1, d2}
  MaxGrants = 2
  Scenes = {"guests", "reminders", "calendar", "connection"}
SYMMETRY SlotSymmetry
SPECIFICATION MCSpec
INVARIANTS NoDoubleBooking SlotsAccounted EventsAccounted PendingReminderIsTrue
PROPERTIES DisconnectLosesNoDelete
CHECK_DEADLOCK FALSE
