SPECIFICATION Spec
CONSTANTS
  r1 = r1
  r2 = r2
  d1 = d1
  d2 = d2
  Order = Order
  Absent = Absent
  Runs = {r1}
  Outputs = {d1}
  NotBefore = 2
  Expires = 6
  RangeBytes = 2
  MaximumRequests = 3
  RequestInterval = 1
  Objects <- MCSameSize
  MaxTime = 6
  MaxBack = 0
INVARIANTS ArchiveIsOneObject
CHECK_DEADLOCK FALSE
