CONSTANTS
  Calls = {c1, c2}
  Accounts = {a1, a2}
  PlainTokens = {t1}
  BearerTokens = {bearer}
  IllegalTokens = {illegal}
  Pointers = {p1}
  BadPointers = {bad}
  Amounts = {1, 2}
  MaxBalance = 2
  Prepaid = 1
  MaxChanges = 2
  None = None
SPECIFICATION ILPSpec
SYMMETRY CallSymmetry
INVARIANTS ILPTypeOK RefusedIsUnpaid ResultIsTheAnswer
CHECK_DEADLOCK FALSE
