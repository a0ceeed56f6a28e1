------------------------------- MODULE Session -------------------------------
(***************************************************************************)
(* What the sign-in flow promises, without screens, requests or spinners:   *)
(* a session belongs to one customer, it is opened by a challenge, it       *)
(* becomes a signed-in session only once the server has confirmed the       *)
(* challenge for that very customer, and then it stays as it is.            *)
(***************************************************************************)
CONSTANTS Customers,   \* customers the server knows
          CustomerIDs, \* ids a challenge can carry (the default id included)
          Unset        \* no customer yet

VARIABLES phase,      \* "signedOut", "challenged" or "signedIn"
          customer,   \* the customer of the last challenge
          tried,      \* customers for whom a code was sent to the server
          confirmed   \* customers for whom the server has confirmed one

svars == <<phase, customer, tried, confirmed>>

Init == phase = "signedOut" /\ customer = Unset /\ tried = {} /\ confirmed = {}

\* The server has issued a code and the app waits for it.
Challenge(c) ==
  /\ phase = "signedOut"
  /\ phase' = "challenged" /\ customer' = c
  /\ UNCHANGED <<tried, confirmed>>

\* A code is tried, always for the customer of the challenge.
Try ==
  /\ phase = "challenged"
  /\ tried' = tried \cup {customer}
  /\ UNCHANGED <<phase, customer, confirmed>>

\* The server confirms a code that was tried, at any time after: the challenge may
\* be over, or be another customer's by then.
Confirm(c) ==
  /\ c \in tried \cap Customers
  /\ confirmed' = confirmed \cup {c}
  /\ UNCHANGED <<phase, customer, tried>>

\* The app learns of a confirmation for its own challenge.
Open ==
  /\ phase = "challenged" /\ customer \in confirmed
  /\ phase' = "signedIn"
  /\ UNCHANGED <<customer, tried, confirmed>>

\* The user goes back, or the process ends, before that.
Abandon ==
  /\ phase = "challenged"
  /\ phase' = "signedOut"
  /\ UNCHANGED <<customer, tried, confirmed>>

Next ==
  \/ Try \/ Open \/ Abandon
  \/ \E c \in CustomerIDs : Challenge(c)
  \/ \E c \in Customers : Confirm(c)

Spec == Init /\ [][Next]_svars
=============================================================================
