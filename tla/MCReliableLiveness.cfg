CONSTANTS
  Calls = {c1, c2}
  Wallets = {w1}
  Destinations = {d1, bad}
  XAddresses = {w1, d1}
  OpenLead = 1
  maxLedgerVersionOffset = 1
  MaxLedger = 4
  AccountSet = AccountSet
  NoTx = NoTx
  NoRequest = NoRequest
SPECIFICATION FairSpec
CHECK_DEADLOCK FALSE
PROPERTY EveryCallEnds
