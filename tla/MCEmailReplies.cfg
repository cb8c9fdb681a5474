CONSTANTS
  Org = {o1}
  Person = {p1, p2}
  Post = {x1}
  Subject = {s1, s2}
  AddressIn <- MCAddressIn
  Nowhere = Nowhere
  NoConfig = NoConfig
  Chan = {c1}
  NoChan = NoChan
  Type = {"EMAIL"}
  Request = {q1}
  Events <- MCEvents
  Production = TRUE
  Mishaps = {"refuse", "lose", "api"}
SPECIFICATION ChannelsSpec
INVARIANT MailsAnswered
CHECK_DEADLOCK FALSE
