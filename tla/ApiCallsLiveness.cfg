CONSTANTS
  a = a b = b v1 = v1 r1 = r1 r2 = r2 c1 = c1
  Customers = {a}
  OtpVCs = {v1}
  ReqIds = {r1}
  CallIds = {c1}
  SessionSeconds = 1
  HttpCodes = {0, 200, 301, 404, 500}
  AnswerKinds = {"garbled", "object"}
  Statuses = {200, 403}
  Nets = {"notReachable", "unknown", "reachable"}
SPECIFICATION CFairSpec
INVARIANTS
  NoCallDropped
PROPERTIES
  CallerTold
