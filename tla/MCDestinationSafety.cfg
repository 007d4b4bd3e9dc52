CONSTANTS
  ByteValues = 3
  a1 = a1
  a2 = a2
  Accounts = {a1, a2}
  None = None
  NotANumber = NotANumber
  Calls = {c1, c2}
  Requests <- RequestsMC
  Owners <- OwnersMC
  Entries <- EntriesMC
  Listings <- ListingsMC
  Unavailable = Unavailable
  NonASCII = {"e'"}
  networkIsTest = TRUE
  MaxPublished = 2
SPECIFICATION DestinationSpec
SYMMETRY CallSymmetry
INVARIANTS DestinationTypeOK PaidAsPublished ReadsBackAsSent RefusalIsDeserved
CHECK_DEADLOCK FALSE
