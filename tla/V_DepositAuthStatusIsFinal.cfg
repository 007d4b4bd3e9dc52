CONSTANTS
  Calls = {c1, c2}
  Wallets = {w1}
  Destinations = {d1, bad}
  XAddresses = {w1, d1}
  OpenLead = 1
  maxLedgerVersionOffset = 1
  MaxLedger = 5
  AccountSet = AccountSet
  NoTx = NoTx
  NoRequest = NoRequest
SPECIFICATION Spec
CHECK_DEADLOCK FALSE
PROPERTY DepositAuthStatusIsFinal
