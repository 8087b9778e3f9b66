SPECIFICATION FairSpec
CONSTANTS
  a1 = a1
  a2 = a2
  b1 = b1
  A = A
  B = B
  s1 = s1
  s2 = s2
  Clients = {A, B}
  Conns = {a1, a2, b1}
  ClientOf <- MCClientOf
  Sessions = {s1, s2}
  MaxFaults = 1
  NoSession = NoSession
INVARIANTS
  ListedWhileConnected
  StateOfSoleConnection
  ChangesAnnounced
PROPERTIES
  TerminalStays
  SessionsEnd
