SPECIFICATION PushSpec
CONSTANTS
  a1 = a1
  a2 = a2
  a3 = a3
  a4 = a4
  a5 = a5
  k1 = k1
  k2 = k2
  n1 = n1
  Agents = {a1, a2, a4, a5}
  Runs = {a1, a2, a4, a5}
  MaxAttempts = 3
  Scenarios <- MCScenarios
  Requests <- MCRequests
  Keys = {k1, k2}
  Names = {n1}
  RunOf <- MCRunOf
  Payload <- MCPayload
  Authorized <- MCAuthorized
INVARIANTS PushTypeOK PushOkStored RejectedNeverStored StoredOnce OneFaultTolerated
PROPERTY EveryPushReturns
CHECK_DEADLOCK FALSE
