SPECIFICATION LivePartSpec
CONSTANTS
  Models = {a, b}
  Default = a
  Workers = {w1, w2}
  Requests = {q1, q2}
  KeyOf <- OwnKeys
  FailAt = {"load", "kv"}
  Marked = {TRUE}
  MaxSwitches = 3
  MaxSleeps = 1
  WakeTags <- BothTags
  MayArrive = FALSE
  NONE = NONE
CHECK_DEADLOCK FALSE
INVARIANT
  Agreed
  Ready
  RanOnOwn
PROPERTY
  Answered
