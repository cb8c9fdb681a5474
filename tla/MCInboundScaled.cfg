CONSTANTS
  Channel = {c1}
  Thread = {t1}
  ChanOf <- MCChanOf
  User = {}
  NoUser = NoUser
  Event = {e1, e2}
  ThreadOf <- MCThreadOf
  Worker = {w1, w2}
  NoWorker = NoWorker
  NoEvent = NoEvent
  MaxStalled = 1
  Faults = {}
SPECIFICATION InboundSpec
INVARIANT NoMessageLost
CHECK_DEADLOCK FALSE
