CONSTANTS
  a = a b = b v1 = v1 r1 = r1 d1 = d1 d2 = d2 x = x y = y
  Customers = {a, b}
  OtpVCs = {v1}
  ReqIds = {r1}
  SessionSeconds = 1
  HttpCodes = {0, 200, 301}
  AnswerKinds = {"empty", "object", "fragment"}
  Statuses = {200, 204, 403}
  Nets = {"notReachable", "reachable"}
  Digits = {d1, d2}
  Countries = {x, y}
  DefaultCountry = x
  NumberLength = 1
  MaxInsert = 2
  MaxText = 2
SPECIFICATION PSpec
SYMMETRY Symm
INVARIANTS
  PhoneTypeOK
  NumberOfCustomer
