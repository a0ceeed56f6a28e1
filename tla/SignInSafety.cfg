CONSTANTS
  a = a b = b v1 = v1 v2 = v2 r1 = r1 r2 = r2
  Customers = {a, b}
  OtpVCs = {v1, v2}
  ReqIds = {r1, r2}
  SessionSeconds = 2
  HttpCodes = {0, 200, 300, 301, 302, 400, 401, 404, 500}
  AnswerKinds = {"empty", "garbled", "fragment", "object"}
  Statuses = {0, 200, 204, 400, 401, 403, 422}
  Nets = {"notReachable", "unknown", "reachable", "nil"}
SPECIFICATION Spec
SYMMETRY Symm
INVARIANTS
  TypeOK
  FlagMeansConfirmed
  CustomerAgrees
  ScreenOutlivesRequest
  LoneRequests
  PendingCovered
  SpinnerLeftBehind
  ResendOffered
  OneSignInPath
  IInv
PROPERTIES
  ImplementsSession
  SignedInForGood
