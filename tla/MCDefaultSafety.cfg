CONSTANTS
  Calls = {c1, c2, c3}
  Wallets = {w1}
  Destinations = {d1, bad}
  XAddresses = {w1, d1}
  OpenLead = 1
  maxLedgerVersionOffset = 1
  MaxLedger = 4
  AccountSet = AccountSet
  NoTx = NoTx
  NoRequest = NoRequest
SPECIFICATION DefaultSpec
SYMMETRY CallSymmetry
INVARIANTS DefaultInv PaymentStatusIsTrue
PROPERTIES NoSequenceReuse
CHECK_DEADLOCK FALSE
