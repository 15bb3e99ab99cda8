------------------------------ MODULE MCClaims ------------------------------
(***************************************************************************)
(* SignIn for TLC: one browser and one request, and every way the signed   *)
(* and the unsigned claims can agree, disagree, or fail to be strings.     *)
(***************************************************************************)
EXTENDS SignIn

CONSTANTS acme, globex,  \* organizations
          ada, grace,    \* people; as an email, the email of that person
          signedSid, profileSid

MCClaimNames == {"sub", "org", "sid", "email"}

ClaimsOf(sub, org, sid, email) ==
  [k \in MCClaimNames |-> CASE k = "sub"   -> sub
                            [] k = "org"   -> org
                            [] k = "sid"   -> sid
                            [] k = "email" -> email]

(* Tokens for ada, or with a subject that is empty or no string; a token   *)
(* that names nobody carries no email either.                              *)
MCIdTokenClaims ==
  {ClaimsOf(sub, org, sid, email) :
     sub \in {ada, Empty, NonString}, org \in {Absent, acme, NonString},
     sid \in {Absent, signedSid}, email \in {Absent, ada}}
  \cup {ClaimsOf(Absent, org, Absent, Absent) : org \in {Absent, acme}}

(* Profiles of either person, each carrying the sub it is about.           *)
MCProfileClaims ==
  {ClaimsOf(sub, org, sid, sub) :
     sub \in {ada, grace}, org \in {Absent, acme, globex}, sid \in {Absent, profileSid}}
  \cup {ClaimsOf(Empty, acme, Absent, Absent)}

(* Profiles without a sub, which only the last of the runs allows.         *)
ProfilesWithoutSub == {ClaimsOf(Absent, Absent, Absent, grace)}
=============================================================================
