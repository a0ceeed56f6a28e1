CONSTANTS
  a = a b = b v1 = v1 v2 = v2 r1 = r1 r2 = r2
  Customers = {a}
  OtpVCs = {v1, v2}
  ReqIds = {r1, r2}
  SessionSeconds = 2
  HttpCodes = {0, 200, 301, 400, 500}
  AnswerKinds = {"garbled", "object"}
  Statuses = {200, 204, 403}
  Nets = {"notReachable", "reachable"}
SPECIFICATION FairSpec
INVARIANTS
  SpinnerIffPending
PROPERTIES
  SpinnerEnds
  CountdownEnds
