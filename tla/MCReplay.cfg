SPECIFICATION Spec
CONSTANTS
  h1 = h1
  h2 = h2
  h3 = h3
  h4 = h4
  h5 = h5
  r1 = r1
  r2 = r2
  r3 = r3
  k1 = k1
  k2 = k2
  n1 = n1
  n2 = n2
  Requests = {h1, h2, h3, h4, h5}
  Runs = {r1, r2, r3}
  Keys = {k1, k2}
  Names = {n1, n2}
  RunOf <- MCRunOf
  Payload <- MCPayload
  Authorized = {h1, h2, h3, h5}
INVARIANT ReplayAnswersDuplicate
CHECK_DEADLOCK FALSE
