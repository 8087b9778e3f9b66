SPECIFICATION Spec
CONSTANTS
  a1 = a1
  a2 = a2
  b1 = b1
  A = A
  B = B
  s1 = s1
  s2 = s2
  Clients = {A, B}
  Conns = {a1, a2, b1}
  ClientOf <- MCClientOf
  Sessions = {s1, s2}
  MaxFaults = 0
  NoSession = NoSession
INVARIANTS
  LastEventCurrent
