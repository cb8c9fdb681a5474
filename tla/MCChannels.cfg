CONSTANTS
  Org = {o1, o2}
  Person = {p1}
  Post = {x1}
  Subject = {s1}
  AddressIn <- MCAddressIn
  Nowhere = Nowhere
  NoConfig = NoConfig
  Chan = {c1, c2}
  NoChan = NoChan
  Type = {"FACEBOOK", "TELEGRAM"}
  Request = {q1, q2}
  Events <- MCEvents
  Production = TRUE
  Mishaps = {"refuse", "lose", "api"}
SPECIFICATION ChannelsSpec
INVARIANTS
  ChannelsTypeOK
  SetupSticks
  RepliesGoBack
CONSTRAINT MCBound
SYMMETRY MCSymmetry
CHECK_DEADLOCK FALSE
