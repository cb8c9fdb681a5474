CONSTANTS
  Channel = {c1}
  Thread = {t1}
  ChanOf <- MCChanOf
  User = {ann, bob}
  NoUser = NoUser
  Admins = {ann}
  Request = {p1}
  Keep = Keep
  Event = {e1}
  ThreadOf <- MCThreadOf
  Worker = {w1}
  NoWorker = NoWorker
  NoEvent = NoEvent
  MaxStalled = 0
  Faults = {"delete", "staff"}
  Reply = {r1}
  ReplyTo <- MCReplyTo
  Sender = {s1}
  NoSender = NoSender
  NoReply = NoReply
  MaxResend = 0
  StubChannel = {c1}
  Mishaps = {"refuse", "delete", "others"}
SPECIFICATION ConversationSpec
INVARIANTS
  ConversationTypeOK
  NotLeftClosed
PROPERTIES
  ImplementsInbound
  ImplementsOutbound
CHECK_DEADLOCK FALSE
