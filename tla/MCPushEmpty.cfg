SPECIFICATION PushSpec
CONSTANTS
  a1 = a1
  a2 = a2
  a3 = a3
  a4 = a4
  a5 = a5
  k1 = k1
  k2 = k2
  n1 = n1
  Agents = {a3}
  Runs = {a3}
  MaxAttempts = 3
  Scenarios <- MCEmptyBatch
  Requests <- MCRequests
  Keys = {k1, k2}
  Names = {n1}
  RunOf <- MCRunOf
  Payload <- MCPayload
  Authorized <- MCAuthorized
INVARIANT GapIsNotRejection
CHECK_DEADLOCK FALSE
