------------------------------ MODULE ApiClient ------------------------------
(***************************************************************************)
(* The HTTP layer of ThorChat: Sources/Wrapping_APIs.swift over Alamofire.  *)
(*                                                                         *)
(* A view controller hands APIRequest a completion closure.  Whether that   *)
(* closure runs, and with which (status, response) pair, is decided first   *)
(* by the reachability check and then by responseData's switch on the HTTP  *)
(* status code.  The message argument is left out: every handler does the   *)
(* same thing whatever the wording.                                        *)
(***************************************************************************)
EXTENDS Integers

\* What NetworkReachabilityManager() answers; "nil" is its failable initialiser
\* returning nil.  WiFi and cellular are both "reachable".
NetStatuses == {"notReachable", "unknown", "reachable", "nil"}

\* ObjectMapper leaves a property at its default when the key is missing or of
\* another type, so an object without an integer "status" decodes to this.
DefaultStatus == 0

\* A response body, as far as the app tells bodies apart: no data at all, data
\* that is not JSON, JSON that is not an object, or an object whose "status"
\* member decodes to the given integer.
BodyKinds == {"empty", "garbled", "fragment", "object"}
Body(kind, status) == [kind |-> kind, status |-> status]
Bodies(Statuses) ==
  {Body(k, DefaultStatus) : k \in BodyKinds \ {"object"}} \cup {Body("object", s) : s \in Statuses}

\* Alamofire's JSON serialiser: .success exactly for a body that parses as JSON
\* (fragments allowed).
responseJSONSucceeds(body) == body.kind \in {"fragment", "object"}

\* The pair a completion closure is called with, or that it is never called.
Completed(status, response) == [called |-> TRUE, status |-> status, response |-> response]
NeverCalled == [called |-> FALSE, status |-> FALSE, response |-> Body("empty", DefaultStatus)]

\* The literals "Success" and "Failure" become JSON strings: not objects.
JSONString == Body("fragment", DefaultStatus)

\* Slip: the branch for 404 is empty as well.
responseData_Silent404(http, body) ==
  CASE http \in {401, 404}                       -> NeverCalled
    [] http = 200 /\ responseJSONSucceeds(body)  -> Completed(TRUE, body)
    [] http = 301 /\ responseJSONSucceeds(body)  -> Completed(TRUE, JSONString)
    [] OTHER                                     -> Completed(FALSE, JSONString)

\* responseData, by HTTP status code (0 when there was no response): the body
\* reaches the caller only with HTTP 200; 301 replaces it by the string "Success";
\* the branch for 401 is empty, so nobody is told.
responseData(http, body) ==
  CASE http = 401                                -> NeverCalled
    [] http = 200 /\ responseJSONSucceeds(body)  -> Completed(TRUE, body)
    [] http = 301 /\ responseJSONSucceeds(body)  -> Completed(TRUE, JSONString)
    [] OTHER                                     -> Completed(FALSE, JSONString)

\* isNetworkAvailable: the answer its handler is called with, if it is called.
isNetworkAvailable(net) ==
  CASE net = "reachable"                    -> "yes"
    [] net \in {"notReachable", "unknown"}  -> "no"
    [] OTHER                                -> "never"

\* APIRequest: what happens synchronously, before any answer from the server.
\* "send" leaves a request in flight, "fail" has already called the completion
\* with status false, "never" has dropped it.
APIRequest(method, net) ==
  CASE isNetworkAvailable(net) = "no"     -> "fail"
    [] isNetworkAvailable(net) = "never"  -> "never"
    [] OTHER -> IF method \in {"post", "get", "put", "delete"} THEN "send" ELSE "never"

=============================================================================
