CONSTANTS
  Calls = {c1, c2}
  Wallets = {w1}
  Destinations = {d1}
  XAddresses = {w1, d1}
  OpenLead = 1
  maxLedgerVersionOffset = 0
  MaxLedger = 3
  AccountSet = AccountSet
  NoTx = NoTx
  NoRequest = NoRequest
  NoCall = NoCall
  CallbackQueues = {main, concurrent}
  SerialQueues = {main}
  main = main
SPECIFICATION FairXpringSpec
INVARIANT AsyncSendsInOrder
PROPERTY EverySendEnds
CHECK_DEADLOCK FALSE
