CONSTANTS
  a = a b = b v1 = v1 v2 = v2 r1 = r1 r2 = r2
  Customers = {a}
  OtpVCs = {v1}
  ReqIds = {r1}
  SessionSeconds = 1
  HttpCodes = {200}
  AnswerKinds = {"object"}
  Statuses = {200, 204}
  Nets = {"reachable"}
SPECIFICATION Spec
INVARIANTS
  ProfileAfterVerification
