--------------------------- MODULE MCClaimHelpers ---------------------------
(***************************************************************************)
(* Every helper over bounded claim sets: one initial state per source, one *)
(* step that asks all of them.                                             *)
(***************************************************************************)
EXTENDS Claims, FiniteSets

CONSTANTS MaxList,      \* bound: elements of a roles or permissions claim
          SubjectLists  \* the sub claims of the act chains enumerated

Values == Names \cup {Empty, Null, Other}

ASSUME SubjectListsAssumption == SubjectLists \subseteq Seq(Values)

(* Chains around the bound on their depth, with a sub that cannot be read  *)
(* first, last or nowhere.                                                 *)
Subjects(n, unreadable) ==
  [i \in 1..n |-> IF i = unreadable THEN Other ELSE CHOOSE name \in Names : TRUE]
MCSubjectLists ==
  {Subjects(n, unreadable) :
     n \in {0, 1, 2, maxActorDepth - 1, maxActorDepth, maxActorDepth + 1, 3 * maxActorDepth},
     unreadable \in {0, 1, maxActorDepth}}

VARIABLES source, answers

helperVars == <<source, answers>>

Lists  == Values \cup UNION {[1..n -> Names \cup {Empty, Other}] : n \in 0..MaxList}
Chains == {Act(subjects, innermost) : subjects \in SubjectLists, innermost \in {Null, Other}}

(* The claims a helper reads vary together, the others do not matter to it. *)
WithOrganization(org, name, role) ==
  [NoClaims EXCEPT !.org = org, !.org_name = name, !.org_role = role]
WithActor(act) == [NoClaims EXCEPT !.act = act]
WithLists(roles, permissions) ==
  [NoClaims EXCEPT !.roles = roles, !.permissions = permissions]

ClaimSets ==
  {WithOrganization(org, name, role) : org \in Values, name \in Values, role \in Values}
  \cup {WithActor(act) : act \in Chains}
  \cup {WithLists(roles, permissions) : roles \in Lists, permissions \in Lists}

HelperInit == /\ source \in [type : {"map", "user", "nil"}, claims : ClaimSets]
              /\ answers = Null

Ask == /\ answers = Null
       /\ answers' = [organization |-> OrganizationOf(source),
                      actor        |-> ActorOf(source),
                      support      |-> IsSupportSession(source),
                      roles        |-> {name \in Names : HasRole(source, name)},
                      permissions  |-> {name \in Names : HasPermission(source, name)}]
       /\ UNCHANGED source

HelperSpec == HelperInit /\ [][Ask]_helperVars

Asked == answers # Null /\ source.type # "nil"

(* claims.go 80-89, 149-152: a session with any act claim that is not null *)
(* is a support session, whatever the shape of the claim and however deep  *)
(* it nests; the actors reported are the outermost eight, in order.        *)
DelegationIsNeverHidden ==
  Asked =>
    LET act == source.claims.act IN
    /\ answers.support <=> (act.subjects # <<>> \/ act.innermost # Null)
    /\ Len(answers.actor) =
         LET depth == Len(act.subjects) + (IF act.innermost = Null THEN 0 ELSE 1) IN
         IF depth < 8 THEN depth ELSE 8
    /\ \A i \in (DOMAIN answers.actor) \cap (DOMAIN act.subjects) :
         answers.actor[i] \in Names => answers.actor[i] = act.subjects[i]

(* claims.go 20-31, 91-112, 140-147, 174-191: a role or a permission is    *)
(* held exactly when it is a string in the list of its own claim; a claim  *)
(* that is no list grants nothing.  The organization is the one of the org *)
(* claim or none, its tier the one of the org_role claim or none: an       *)
(* unknown tier never becomes one that grants something.                   *)
GrantsAreThoseListed ==
  Asked =>
    LET listed(claim) == IF claim \in Values THEN {} ELSE ToSet(claim) \cap Names IN
    /\ answers.roles = listed(source.claims.roles)
    /\ answers.permissions = listed(source.claims.permissions)
    /\ IF source.claims.org \in Names
       THEN /\ answers.organization.id = source.claims.org
            /\ answers.organization.role \in {Empty, source.claims.org_role} \cap (Tiers \cup {Empty})
       ELSE answers.organization = Null
=============================================================================
