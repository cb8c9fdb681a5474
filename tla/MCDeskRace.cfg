CONSTANTS
  Channel = {c1}
  Thread = {t1}
  ChanOf <- MCChanOf
  User = {ann, bob}
  NoUser = NoUser
  Admins = {ann}
  Request = {p1, p2}
  Keep = Keep
SPECIFICATION DeskSpec
PROPERTY AgentsEditOwnTickets
CHECK_DEADLOCK FALSE
