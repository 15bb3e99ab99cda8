--------------------------- MODULE SignInContract ---------------------------
(***************************************************************************)
(* What signing in promises an application, without state, codes, tokens   *)
(* or calls: a browser asks, and each request is settled at most once,     *)
(* either without effect or by signing the browser that made it in to the  *)
(* organization it asked for.                                              *)
(***************************************************************************)
CONSTANTS Browsers, Requests, Organizations, Strings, Empty, None

VARIABLES
  asked,   \* per request: the browser and the organization it binds to
  settled, \* the requests that can no longer sign anybody in
  session  \* per browser: the request that signed it in, and to what

vars == <<asked, settled, session>>

Init ==
  /\ asked = [r \in Requests |-> None]
  /\ settled = {}
  /\ session = [b \in Browsers |-> None]

Ask(b, r, organization) ==
  /\ asked[r] = None
  /\ asked' = [asked EXCEPT ![r] = [browser |-> b, organization |-> organization]]
  /\ UNCHANGED <<settled, session>>

Settle(r) ==
  /\ asked[r] # None
  /\ r \notin settled
  /\ settled' = settled \cup {r}
  /\ UNCHANGED asked

Fail(r) == Settle(r) /\ UNCHANGED session

(* An unbound request may end in any organization, or in none.             *)
SignIn(r, organization) ==
  /\ Settle(r)
  /\ asked[r].organization \in {Empty, organization}
  /\ session' = [session EXCEPT ![asked[r].browser] =
                   [request |-> r, organization |-> organization]]

Next ==
  \E r \in Requests :
    \/ \E b \in Browsers, organization \in Organizations \cup {Empty} :
         Ask(b, r, organization)
    \/ Fail(r)
    \/ \E organization \in Strings \cup {Empty} : SignIn(r, organization)

Spec == Init /\ [][Next]_vars
=============================================================================
