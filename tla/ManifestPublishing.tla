------------------------- MODULE ManifestPublishing -------------------------
(***************************************************************************)
(* PublishManifest (manifest.go 256-315), run by deploys that may overlap: *)
(* a machine token is minted (backchannel.go 21-41), then the manifest is  *)
(* pushed, and the instance compares its version with what it holds.  The  *)
(* network may lose the request or the answer, or answer in the place of   *)
(* the instance; a request that was given up may still arrive.             *)
(***************************************************************************)
EXTENDS Manifest

CONSTANTS
  Deploys,    \* programs that publish, one call at a time each
  Catalogs,   \* Config.Permissions and Config.Roles, keys unique in a list
  MaxStrays,  \* bound: requests given up that may still arrive
  None

DeclaredCatalogs == {Declared(catalog) : catalog \in Catalogs}

ASSUME PublishingAssumption ==
  /\ MaxStrays \in Nat
  /\ None \notin Catalogs /\ None \notin DeclaredCatalogs
  /\ Null # Empty

(* Of Go's types, what the proofs need; and no key twice in a list.        *)
ASSUME CatalogsAssumption ==
  \A catalog \in Catalogs :
    /\ catalog = [permissions |-> catalog.permissions, roles |-> catalog.roles]
    /\ \A entries \in {catalog.permissions, catalog.roles} :
         /\ entries \in Seq(ToSet(entries))
         /\ \A i \in DOMAIN entries : entries[i].key \in Int
         /\ \A i, j \in DOMAIN entries : entries[i].key = entries[j].key => i = j
    /\ \A p \in ToSet(catalog.permissions) : p.tenantAssignable \in BOOLEAN
    /\ \A r \in ToSet(catalog.roles) :
         /\ r = [key         |-> r.key,
                 name        |-> r.name,
                 description |-> r.description,
                 permissions |-> r.permissions,
                 staffOnly   |-> r.staffOnly]
         /\ r.permissions \in Seq(Int)
         /\ r.staffOnly \in BOOLEAN /\ r.name # Null /\ r.description # Null

VARIABLES
  held,   \* external: the catalog the instance holds, as it parsed it
  calls,  \* the calls of PublishManifest
  strays  \* external: manifests on their way that nobody waits for

vars == <<held, calls, strays>>

NoCall == [pc        |-> "none",
           catalog   |-> None,
           push      |-> "none", \* what has become of it
           unchanged |-> FALSE,  \* in the answer, and in the Summary returned
           err       |-> "none"]

Init ==
  /\ held = None
  /\ calls = [d \in Deploys |-> NoCall]
  /\ strays = {}

Set(d, call) == calls' = [calls EXCEPT ![d] = call]

Return(d, err) ==
  Set(d, [NoCall EXCEPT !.pc        = "returned",
                        !.err       = err,
                        !.unchanged = (err = "nil" /\ calls[d].unchanged)])

-----------------------------------------------------------------------------
(* The call begins, of a catalog the program declares in its code, or with *)
(* roles it has read from the manifest of that catalog.                    *)

ReadFromManifest(catalog) ==
  [permissions |-> catalog.permissions,
   roles       |-> [i \in DOMAIN catalog.roles |->
                      UnmarshalRole(ManifestOf(catalog).roles[i])]]

PublishManifest(d) ==
  /\ calls[d].pc = "none"
  /\ \E declared \in Catalogs, clientSecret, read \in BOOLEAN :
       LET catalog == IF read THEN ReadFromManifest(declared) ELSE declared IN
       IF \/ ~ clientSecret
          \/ catalog.permissions = <<>> /\ catalog.roles = <<>>
       THEN Return(d, "ErrConfiguration")
       ELSE Set(d, [NoCall EXCEPT !.pc = "minting", !.catalog = catalog])
  /\ UNCHANGED <<held, strays>>

(* MachineToken returns: with a token, or an error that is ErrAuthentication*)
(* whatever the token endpoint or the network did.                         *)
MachineToken(d) ==
  /\ calls[d].pc = "minting"
  /\ \/ Set(d, [calls[d] EXCEPT !.pc = "pushing"])
     \/ Return(d, "ErrAuthentication")
  /\ UNCHANGED <<held, strays>>

-----------------------------------------------------------------------------
(* External: the instance, and the network in between.                     *)

Unchanged(manifest) == held # None /\ manifest.version = Checksum(held)

Apply(manifest) == held' = IF Unchanged(manifest) THEN held ELSE Parsed(manifest)

Accept(d) ==
  /\ calls[d].pc = "pushing" /\ calls[d].push = "none"
  /\ LET manifest == ManifestOf(calls[d].catalog) IN
     /\ Apply(manifest)
     /\ Set(d, [calls[d] EXCEPT !.push      = "accepted",
                                !.unchanged = Unchanged(manifest)])
  /\ UNCHANGED strays

(* A token without the scope, a manifest it does not accept, an outage.    *)
Refuse(d) ==
  /\ calls[d].pc = "pushing" /\ calls[d].push = "none"
  /\ Set(d, [calls[d] EXCEPT !.push = "error status"])
  /\ UNCHANGED <<held, strays>>

(* The push is given up, or its answer does not get through: none comes,   *)
(* an intermediary answers with an error, or the body is cut off.          *)
Lose(d) ==
  /\ calls[d].pc = "pushing" /\ calls[d].push \in {"none", "accepted"}
  /\ \/ /\ calls[d].push = "none"
        /\ Cardinality(strays) < MaxStrays
        /\ strays' = strays \cup {calls[d].catalog}
     \/ UNCHANGED strays
  /\ \E push \in {"no answer", "error status"}
                   \cup (IF calls[d].push = "accepted" THEN {"unreadable"} ELSE {}) :
       Set(d, [calls[d] EXCEPT !.push = push, !.unchanged = FALSE])
  /\ UNCHANGED held

LateArrival ==
  \E catalog \in strays :
    /\ Apply(ManifestOf(catalog))
    /\ strays' = strays \ {catalog}
    /\ UNCHANGED calls

-----------------------------------------------------------------------------
(* The call ends.                                                          *)

(* Mutation: the status of the answer is not looked at.                    *)
ErrorOfTheBodyOnly(push) ==
  IF push \in {"no answer", "unreadable"} THEN "ErrManifestRejected" ELSE "nil"

ErrorOf(push) == IF push = "accepted" THEN "nil" ELSE "ErrManifestRejected"

Receive(d) ==
  /\ calls[d].pc = "pushing" /\ calls[d].push # "none"
  /\ Return(d, ErrorOf(calls[d].push))
  /\ UNCHANGED <<held, strays>>

(* External: the deploy ends, or publishes again.                          *)
AppResumes(d) ==
  /\ calls[d].pc = "returned"
  /\ Set(d, NoCall)
  /\ UNCHANGED <<held, strays>>

Next ==
  \/ LateArrival
  \/ \E d \in Deploys :
       \/ PublishManifest(d) \/ MachineToken(d)
       \/ Accept(d) \/ Refuse(d) \/ Lose(d)
       \/ Receive(d) \/ AppResumes(d)

Spec == Init /\ [][Next]_vars

-----------------------------------------------------------------------------
(* Types, and the inductive invariant.                                     *)

Call ==
  [pc        : {"none", "minting", "pushing", "returned"},
   catalog   : Catalogs \cup {None},
   push      : {"none", "accepted", "error status", "no answer", "unreadable"},
   unchanged : BOOLEAN,
   err       : {"none", "nil", "ErrConfiguration", "ErrAuthentication", "ErrManifestRejected"}]

TypeOK ==
  /\ held \in DeclaredCatalogs \cup {None}
  /\ calls \in [Deploys -> Call]
  /\ strays \subseteq Catalogs

(* A push is begun by a call with a token, and ended by an answer.         *)
CallOK(call) ==
  /\ call.pc \in {"minting", "pushing"} <=> call.catalog # None
  /\ call.pc = "returned" <=> call.err # "none"
  /\ call.push # "none" => call.pc = "pushing"
  /\ call.unchanged => call.push = "accepted" \/ call.err = "nil"

Inv == TypeOK /\ \A d \in Deploys : CallOK(calls[d])

-----------------------------------------------------------------------------
(* Properties.                                                             *)

(* manifest.go 111-114, 258-259: the instance takes a push for unchanged   *)
(* exactly when it declares what the instance holds, whichever order and   *)
(* repetitions the lists have: no deploy looks like a change that is none, *)
(* and no change looks like none.                                          *)
RepublishIsNoOp ==
  \A d \in Deploys :
    calls[d].pc = "pushing" /\ calls[d].push = "none" /\ held # None =>
      (Unchanged(ManifestOf(calls[d].catalog)) <=> Declared(calls[d].catalog) = held)

(* manifest.go 256-265: publishing implements its contract: a nil error    *)
(* means that the instance held this catalog while the call ran, and that  *)
(* Unchanged is true; an error other than ErrManifestRejected that the     *)
(* push never reaches the instance.                                        *)
PhaseOf(call) ==
  CASE call.pc = "none" -> "none"
    [] call.pc = "minting" -> "open"
    [] call.pc = "pushing" /\ call.push = "none" -> "open"
    [] call.pc = "pushing" /\ call.push = "accepted" -> "taken"
    [] call.err = "nil" -> "published"
    [] call.err \in {"ErrConfiguration", "ErrAuthentication"} -> "refused"
    [] OTHER -> "rejected"

PublishOf(call) ==
  [phase     |-> PhaseOf(call),
   catalog   |-> IF PhaseOf(call) \in {"open", "taken"}
                 THEN Declared(call.catalog) ELSE None,
   unchanged |-> call.unchanged]

Contract == INSTANCE CatalogContract WITH
  Catalogs  <- DeclaredCatalogs,
  publishes <- [d \in Deploys |-> PublishOf(calls[d])],
  strays    <- {Declared(catalog) : catalog \in strays}

ImplementsContract == Contract!Spec
=============================================================================
