CONSTANTS
  a = a v1 = v1 r1 = r1 r2 = r2
  Customers = {a}
  OtpVCs = {v1}
  ReqIds = {r1, r2}
  SessionSeconds = 61
  HttpCodes = {0, 200}
  AnswerKinds = {"object"}
  Statuses = {200, 204, 403}
  Nets = {"notReachable", "reachable"}
SPECIFICATION LSpec
INVARIANTS
  LabelShowsTimer
PROPERTIES
  LabelCountsDown
