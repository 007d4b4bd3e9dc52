CONSTANTS
  Calls = {c1, c2}
  a1 = a1
  a2 = a2
  Accounts = {a1, a2}
  None = None
  Addresses = {a1, None}
  Texts <- MCTexts
  Transactions <- MCTransactions
  PageSize = 2
  isTest = TRUE
SPECIFICATION QuerySpec
SYMMETRY CallSymmetry
INVARIANTS QueryTypeOK QueryInv AskedHashIsAnswered
PROPERTIES HistoryIsWhole AbsenceIsTrue ValidatedIsFinal
CHECK_DEADLOCK FALSE
