SPECIFICATION Spec
CONSTANTS
  r1 = r1
  r2 = r2
  o1 = o1
  Runners = {r1, r2}
  Owners = {o1}
  Owner <- MCOwner
  Effects = {e1}
  Payloads = {p1, p2}
  None = None
  TTL = 2
  MaxFence = 3
  MaxSeq = 4
INVARIANTS OnePayloadPerKey FenceIsExclusive OneReport
PROPERTIES OrphanIsTakenOver
CHECK_DEADLOCK FALSE
