SPECIFICATION Spec
CONSTANTS
  NoClient = NoClient
  Absent = Absent
  NoProc = NoProc
  Procs = {p1, p2}
  Gateways = {p1}
  Readers = {p1}
  Mortal = {}
  Clients = {}
  Legacy = {l1}
  MaxFails = 0
  MaxReads = 1
CHECK_DEADLOCK FALSE
PROPERTIES CommitIsAtomic
