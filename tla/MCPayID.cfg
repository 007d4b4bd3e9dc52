CONSTANTS
  Calls = {c1, c2}
  ClientQueues = {main, worker}
  networkQueue = networkQueue
  asyncQueue = asyncQueue
  Responses = {"xAddress", "classic", "malformed", "notOne",
               "status404", "status415", "status503", "failed"}
  NoCall = NoCall
  NoRequest = NoRequest
SPECIFICATION FairSpec
INVARIANTS TypeOK ResultIsTheAnswer XRPAddressesInOrder NoDeadlock
CHECK_DEADLOCK FALSE
PROPERTIES EveryCallEnds EveryStepAdvances
