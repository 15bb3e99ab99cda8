------------------------------- MODULE Claims -------------------------------
(***************************************************************************)
(* The claim helpers (claims.go): what an application learns from a claim  *)
(* set about the organization, the roles and the actor of a session.       *)
(* Pure.                                                                   *)
(*                                                                         *)
(* A claim set is a record of the claims the helpers read.  A claim that   *)
(* is absent or null is Null; any other value a helper has no use for (a   *)
(* number, an object in place of a string) is Other.  A roles or           *)
(* permissions claim is any of these or a sequence; an act claim is the    *)
(* chain of the sub claims of the objects nested in it, and what the       *)
(* innermost one holds as its own act: Null, or a value that is no object. *)
(***************************************************************************)
EXTENDS GoValues, Ordering, SequencesExt

CONSTANTS Names, \* the non-empty strings a claim can hold
          Tiers, \* those of them that are OrganizationRole constants
          Null,  \* a claim that is absent or null: a Go nil
          Other  \* a value of no use

ASSUME NamesAssumption ==
  /\ Tiers \subseteq Names
  /\ {Empty, Null, Other} \cap Names = {}
  /\ Empty # Null /\ Empty # Other /\ Null # Other

text(value) == IF value \in Names THEN value ELSE Empty

parseOrganizationRole(value) == IF value \in Tiers THEN value ELSE Empty

organizationFrom(claims) ==
  IF text(claims.org) = Empty
  THEN Null
  ELSE [id |-> text(claims.org), name |-> text(claims.org_name),
        role |-> parseOrganizationRole(claims.org_role)]

maxActorDepth == 8

Act(subjects, innermost) == [subjects |-> subjects, innermost |-> innermost]

(* An actor is the sequence of its subject and those of the prior actors;  *)
(* no actor is <<>>.  The first definition is a mutation.                  *)
actorOfObjectsOnly(claim) ==
  LET from[depth \in 0..maxActorDepth] ==
        IF depth = Len(claim.subjects) THEN <<>>
        ELSE <<text(claim.subjects[depth + 1])>> \o
               (IF depth + 1 < maxActorDepth THEN from[depth + 1] ELSE <<>>)
  IN  from[0]

actorFrom(claim) ==
  LET from[depth \in 0..maxActorDepth] ==
        IF depth = Len(claim.subjects)
        THEN IF claim.innermost = Null THEN <<>> ELSE <<Empty>>
        ELSE <<text(claim.subjects[depth + 1])>> \o
               (IF depth + 1 < maxActorDepth THEN from[depth + 1] ELSE <<>>)
  IN  from[0]

(* Mutation.                                                               *)
stringListOfOne(claim) ==
  IF claim \in Names THEN <<claim>>
  ELSE IF claim \in {Null, Other, Empty} THEN <<>>
  ELSE Picked(claim, {i \in DOMAIN claim : claim[i] \in Names})

stringList(claim) ==
  IF claim \in Names \cup {Null, Other, Empty}
  THEN <<>>
  ELSE Picked(claim, {i \in DOMAIN claim : claim[i] \in Names})

-----------------------------------------------------------------------------
(* The helpers.  A source is a claim set, a user, or the nil user.         *)

NoClaims == [org |-> Null, org_name |-> Null, org_role |-> Null,
             act |-> Act(<<>>, Null), roles |-> Null, permissions |-> Null]

claimsOf(source) ==
  CASE source.type = "map"  -> source.claims
    [] source.type = "user" -> source.claims
    [] source.type = "nil"  -> NoClaims

OrganizationOf(source)   == organizationFrom(claimsOf(source))
ActorOf(source)          == actorFrom(claimsOf(source).act)
IsSupportSession(source) == ActorOf(source) # <<>>
RolesOf(source)          == stringList(claimsOf(source).roles)
PermissionsOf(source)    == stringList(claimsOf(source).permissions)

HasRole(source, role)             == Contains(RolesOf(source), role)
HasPermission(source, permission) == Contains(PermissionsOf(source), permission)
=============================================================================
