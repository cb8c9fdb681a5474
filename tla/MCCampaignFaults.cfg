CONSTANTS
  Recipient = {r1, r2}
  Start = {s1, s2}
  Job = {j1, j2}
  Worker = {w1, w2}
  NoWorker = NoWorker
  NoJob = NoJob
  Nobody = Nobody
  MaxStalled = 1
  BatchSize = 1
  Connector = "ready"
  Faults = {"api", "crash", "db", "queue", "refuse", "lostAnswer", "lateAdd", "delete"}
SPECIFICATION Spec
SYMMETRY Interchangeable
INVARIANTS
  TypeOK
  SentUnlessStub
  CompletedIsDrained
  NotStuck
  SendsAreExplained
  FailureHasReason
PROPERTY ImplementsMailing
CHECK_DEADLOCK FALSE
