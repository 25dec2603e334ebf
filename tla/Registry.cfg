SPECIFICATION FairSpec
CONSTANTS
  NoClient = NoClient
  Absent = Absent
  NoProc = NoProc
  Procs = {p1, p2}
  Gateways = {p1}
  Readers = {}
  Mortal = {p2}
  Clients = {c1}
  Legacy = {}
  MaxFails = 1
  MaxReads = 0
CHECK_DEADLOCK FALSE
PROPERTIES CommitIsAtomic PruneSparesTheLiving RowComesBack GhostsGo
