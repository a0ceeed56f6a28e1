CONSTANTS
  a = a b = b v1 = v1 r1 = r1 r2 = r2 c1 = c1
  Customers = {a, b}
  OtpVCs = {v1}
  ReqIds = {r1, r2}
  CallIds = {c1}
  SessionSeconds = 1
  HttpCodes = {0, 200, 401}
  AnswerKinds = {"empty", "object"}
  Statuses = {200, 403}
  Nets = {"notReachable", "reachable", "nil"}
SPECIFICATION CSpec
SYMMETRY Symm
INVARIANTS
  CallsTypeOK
  CallsOfOneCustomer
