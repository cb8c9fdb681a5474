CONSTANTS
  Channel = {c1}
  Thread = {t1}
  ChanOf <- MCChanOf
  User = {}
  NoUser = NoUser
  Reply = {r1}
  ReplyTo <- MCReplyTo
  Sender = {s1, s2}
  NoSender = NoSender
  NoReply = NoReply
  MaxResend = 1
  StubChannel = {}
  Mishaps = {"api", "crash", "expire", "db", "queue", "refuse", "lostAnswer", "delete", "others"}
SPECIFICATION FairOutbound
INVARIANTS
  OutboundTypeInvariant
  SentUnlessStub
  ReceivedIsOnRecord
  OneSendPerDelivery
  DoneIsMarked
  StoredIsQueued
  ErrorWasNotReceived
PROPERTY EveryReplySettles
CHECK_DEADLOCK FALSE
