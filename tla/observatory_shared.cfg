SPECIFICATION Spec
CONSTANTS
  r1 = r1
  r2 = r2
  allow = allow
  deny = deny
  broken = broken
  missing = missing
  Absent = Absent
  Dir = Dir
  Job = Job
  Leftover = Leftover
  Runs = {r1, r2}
  Bodies = {allow, deny, broken, missing}
  Successful = {allow, deny, broken}
  Parses = {allow, deny, missing}
  Decision <- MCDecision
  Overlapping = TRUE
  MaxOutages = 0
PROPERTIES EvidenceNotReplaced
CHECK_DEADLOCK FALSE
