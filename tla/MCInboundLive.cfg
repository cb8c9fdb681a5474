CONSTANTS
  Channel = {c1}
  Thread = {t1, t2}
  ChanOf <- MCChanOf
  User = {}
  NoUser = NoUser
  Event = {e1, e2}
  ThreadOf <- MCThreadApart
  Worker = {w1, w2}
  NoWorker = NoWorker
  NoEvent = NoEvent
  MaxStalled = 2
  Faults = {"crash"}
SPECIFICATION FairInbound
INVARIANT LostOnlyByStalls
PROPERTY EveryMessageStored
CHECK_DEADLOCK FALSE
