SPECIFICATION Spec
CONSTANTS
  r1 = r1
  r2 = r2
  d1 = d1
  d2 = d2
  Order = Order
  Absent = Absent
  Runs = {r1, r2}
  Outputs = {d1, d2}
  NotBefore = 2
  Expires = 6
  RangeBytes = 2
  MaximumRequests = 3
  RequestInterval = 1
  Objects <- MCObjects
  MaxTime = 6
  MaxBack = 1
INVARIANTS PublishedVerifies StoredBeforeArchived BudgetHolds
PROPERTIES PublishedIsFinal ImplementsOneShot
CHECK_DEADLOCK FALSE
