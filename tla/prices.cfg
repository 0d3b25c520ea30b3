SPECIFICATION MCSpec
CHECK_DEADLOCK FALSE
CONSTANTS
  Askers = {a1, a2}
  Writers = {p1}
  MaxValue = 2
  MaxCalendars = 1
  MaxChanges = 4
  Docs = {d1, d2, d3}
  MaxDocuments = 2
  MaxDeaths = 1
  MaxByHand = 1
  Items = {t1, t2}
  ReviewedItem = t1
  FirstReviewer = r1
  LoneAsker = a1
  OneDoc = d1
  Reviewers = {r1, r2}
  LastStart = 3
  MaxReviews = 8
  MaxSnapshots = 2
  MaxSyncDeaths = 1
  LastDay = 3
  MaxSeries = 4
  MaxCoverages = 1
  MaxOutages = 1
  Scenes = {"prices", "calendars", "profile", "invoices", "reviews", "costs", "market"}
INVARIANTS ParsesExplained VersionsDoNotOverlap
PROPERTIES EveryDocumentIsRead CurrentIsPriced SnapshotReachesCatalog MarketCatchesUp
