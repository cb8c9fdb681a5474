CONSTANTS
  Recipient = {r1}
  Start = {s1}
  Job = {j1, j2}
  Worker = {w1}
  NoWorker = NoWorker
  NoJob = NoJob
  Nobody = Nobody
  MaxStalled = 0
  BatchSize = 1
  Connector = "blank"
  Faults = {}
SPECIFICATION Spec
INVARIANT CompletedReachedAll
CHECK_DEADLOCK FALSE
