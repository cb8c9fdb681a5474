CONSTANTS
  Person = {p1, p2}
  Nobody = Nobody
  Org = {o1, o2}
  NoOrg = NoOrg
  First = o1
  Request = {q1, q2}
  Faults = {"api", "mail"}
SPECIFICATION BoundedSpec
INVARIANTS
  AccountsTypeOK
  MembersCameIn
  AcceptedMeansMember
  OneMailPerInvite
  OrgCanBeEntered
PROPERTY ShutOut
CHECK_DEADLOCK FALSE
