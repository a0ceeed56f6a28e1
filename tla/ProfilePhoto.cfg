CONSTANTS
  a = a v1 = v1 r1 = r1 r2 = r2 p = p q = q
  Customers = {a}
  OtpVCs = {v1}
  ReqIds = {r1, r2}
  SessionSeconds = 1
  HttpCodes = {0, 200, 301, 401}
  AnswerKinds = {"empty", "fragment", "object"}
  Statuses = {200, 204, 403}
  Nets = {"notReachable", "reachable", "nil"}
  Photos = {p, q}
SPECIFICATION HSpec
SYMMETRY Symm
INVARIANTS
  PhotoTypeOK
  PickerAlone
  PhotoKept
