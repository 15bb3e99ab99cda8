------------------------------ MODULE MCSignIn ------------------------------
(***************************************************************************)
(* SignIn for TLC: several tabs and browsers, and an instance that may     *)
(* ignore the organization parameter or answer with another one.           *)
(***************************************************************************)
EXTENDS SignIn

CONSTANTS acme, \* an organization
          ada  \* a person

MCClaimNames == {"sub", "org", "sid"}

Signed(org) == [k \in MCClaimNames |-> CASE k = "sub" -> ada
                                         [] k = "org" -> org
                                         [] k = "sid" -> Absent]

(* The organization asked for, and no organization at all.  What UserInfo  *)
(* adds is the question of MCClaims.                                       *)
MCIdTokenClaims == {Signed(org) : org \in {Absent, acme}}

Symmetry == Permutations(Browsers) \cup Permutations(Requests) \cup Permutations(Calls)
=============================================================================
