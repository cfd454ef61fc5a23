SPECIFICATION Spec
CONSTANTS
  a = a
  b = b
  c = c
  p = p
  User = {a, b, c}
  Vault = {c}
  Gifted = {a}
  Pair = {p}
  Block = {1, 2}
  First = 1
  After = 2
  MaxRows = 1
  MaxInvites = 2
  MaxOther = 1
  MaxFaults = 1
INVARIANTS
  TypeOK
  ReferralIsATenth
PROPERTIES
  OtherRowsSurvive
  SeasonSettles
CHECK_DEADLOCK FALSE
