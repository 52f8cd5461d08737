SPECIFICATION Spec
CONSTANTS
  r1 = r1
  r2 = r2
  crawl = crawl
  routeA = routeA
  routeB = routeB
  Order = Order
  Other = Other
  Absent = Absent
  Dir = Dir
  Runs = {r1, r2}
  Collections <- MCCollections
  Routes <- MCRoutes
  IndexRequestBudget = 2
  Indexes <- MCIndexes
  Ranges <- MCRanges
  Totals = {8, 9}
  MaxOutages = 1
INVARIANTS ManifestMeansVerified RawBeforeParsed
PROPERTIES NothingRewritten
CHECK_DEADLOCK FALSE
