CONSTANTS
  Recipient = {r1, r2, r3}
  Start = {s1}
  Job = {j1, j2, j3}
  Worker = {w1, w2}
  NoWorker = NoWorker
  NoJob = NoJob
  Nobody = Nobody
  MaxStalled = 0
  BatchSize = 2
  Connector = "stub"
  Faults = {"refuse", "api", "queue", "db", "delete", "crash"}
  MaxMail = 4
  Limit = {1, 2}
  Ticket = {t1, t2}
  DayJob = {k1, k2}
SPECIFICATION AllSpec
INVARIANTS
  SideBySideTypeOK
  SkipsAreDeletions
  RepeatsAreArrivals
  StatsAreRecent
PROPERTY EveryStartCompletes
CHECK_DEADLOCK FALSE
