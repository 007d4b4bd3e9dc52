CONSTANTS
  Calls = {c1, c2}
  Wallets = {w1}
  Destinations = {d1}
  XAddresses = {w1, d1}
  OpenLead = 1
  maxLedgerVersionOffset = 1
  MaxLedger = 5
  AccountSet = AccountSet
  NoTx = NoTx
  NoRequest = NoRequest
  NoCall = NoCall
  CallbackQueues = {main}
  SerialQueues = {main}
  main = main
SPECIFICATION XpringSpec
SYMMETRY XpringSymmetry
INVARIANTS XpringInv AsyncSendsAreDistinct
PROPERTIES UsesReliableClient SuccessIsFinal
CHECK_DEADLOCK FALSE
