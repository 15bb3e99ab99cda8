------------------------------ MODULE Manifest ------------------------------
(***************************************************************************)
(* The authorization catalog an app declares (manifest.go): the manifest   *)
(* that goes over the wire, and its version, a hash of the catalog in a    *)
(* canonical form that every SDK and the instance compute alike.           *)
(*                                                                         *)
(* A catalog is two sequences, [permissions, roles], of records            *)
(*    [key, description, tenantAssignable]                                 *)
(*    [key, name, description, permissions, staffOnly]                     *)
(* with integers for keys, in the place of strings and in their order.     *)
(* The hash is ideal: it is the canonical form itself.  How the bytes of   *)
(* that form are spelled (escapeLikePHP) makes no difference between two   *)
(* catalogs and is left out.                                               *)
(***************************************************************************)
EXTENDS GoValues, Ordering, SequencesExt

CONSTANT Null  \* JSON's null, and what a key left out reads as

emptyToNull(description) == IF description = Empty THEN Null ELSE description

(* tenant_assignable is written only where it departs from its default.    *)
SelfServe(permission) == IF permission.tenantAssignable THEN "true" ELSE "omitted"

Assignable(role) == IF role.staffOnly THEN "false" ELSE "omitted"

-----------------------------------------------------------------------------
(* The version.                                                            *)

(* Mutation: the references of a role are sorted and not compacted.        *)
SortedRefsWithRepeats(refs) == SortSeq(refs, LAMBDA a, b : a < b)

SortedRefs(refs) == Ascending(ToSet(refs))

(* sort.Slice keeps the order of entries with equal keys in short lists.   *)
SortedByKey(entries) ==
  LET UpTo(i, j) == \/ entries[i].key < entries[j].key
                    \/ entries[i].key = entries[j].key /\ i <= j IN
  [n \in DOMAIN entries |-> entries[InOrder(DOMAIN entries, UpTo)[n]]]

CanonicalPermission(permission) ==
  [key               |-> permission.key,
   description       |-> emptyToNull(permission.description),
   tenant_assignable |-> SelfServe(permission)]

CanonicalRole(role) ==
  [key               |-> role.key,
   name              |-> role.name,
   description       |-> emptyToNull(role.description),
   permissions       |-> SortedRefs(role.permissions),
   tenant_assignable |-> Assignable(role)]

canonicalManifestJSON(permissions, roles) ==
  LET sortedPermissions == SortedByKey(permissions)
      sortedRoles       == SortedByKey(roles) IN
  [permissions |-> [i \in DOMAIN permissions |-> CanonicalPermission(sortedPermissions[i])],
   roles       |-> [i \in DOMAIN roles |-> CanonicalRole(sortedRoles[i])]]

-----------------------------------------------------------------------------
(* The wire.                                                               *)

(* Mutation: an empty string is written as one.                            *)
omitemptyNot(string) == string

(* A description, or a role's name, is written unless it is empty.         *)
omitempty(string) == IF string = Empty THEN Null ELSE string

(* Go reads a string that is left out, or null, as the empty one.          *)
StringOf(wire) == IF wire = Null THEN Empty ELSE wire

MarshalPermission(permission) ==
  [key               |-> permission.key,
   description       |-> omitempty(permission.description),
   tenant_assignable |-> SelfServe(permission)]

MarshalRole(role) ==
  [key               |-> role.key,
   name              |-> omitempty(role.name),
   description       |-> omitempty(role.description),
   permissions       |-> role.permissions,
   tenant_assignable |-> Assignable(role)]

(* A tenant_assignable that is neither a boolean nor null is refused, and  *)
(* MarshalRole writes none.                                                *)
UnmarshalRole(wire) ==
  [key         |-> wire.key,
   name        |-> StringOf(wire.name),
   description |-> StringOf(wire.description),
   permissions |-> wire.permissions,
   staffOnly   |-> wire.tenant_assignable \in {"false", "null"}]

ManifestOf(catalog) ==
  [permissions |-> [i \in DOMAIN catalog.permissions |->
                      MarshalPermission(catalog.permissions[i])],
   roles       |-> [i \in DOMAIN catalog.roles |-> MarshalRole(catalog.roles[i])],
   version     |-> canonicalManifestJSON(catalog.permissions, catalog.roles)]

-----------------------------------------------------------------------------
(* External: how the instance reads a manifest, as sets without the order  *)
(* and the repetitions of lists, and the version it computes of that: the  *)
(* entries by key, each with what departs from its default.  That a name   *)
(* left out reads as the empty one is assumed: the version of a role       *)
(* without a name is the instance's only then, for it hashes an empty name.*)

ParsedPermission(p) ==
  [key |-> p.key, description |-> p.description, selfServe |-> p.tenant_assignable = "true"]

ParsedRole(r) ==
  [key         |-> r.key,
   name        |-> StringOf(r.name),
   description |-> r.description,
   permissions |-> ToSet(r.permissions),
   staffOnly   |-> r.tenant_assignable = "false"]

Parsed(manifest) ==
  [permissions |-> {ParsedPermission(p) : p \in ToSet(manifest.permissions)},
   roles       |-> {ParsedRole(r) : r \in ToSet(manifest.roles)}]

ChecksumPermission(p) ==
  [key               |-> p.key,
   description       |-> p.description,
   tenant_assignable |-> IF p.selfServe THEN "true" ELSE "omitted"]

ChecksumRole(r) ==
  [key               |-> r.key,
   name              |-> r.name,
   description       |-> r.description,
   permissions       |-> Ascending(r.permissions),
   tenant_assignable |-> IF r.staffOnly THEN "false" ELSE "omitted"]

ByKey(entries) == InOrder(entries, LAMBDA a, b : a.key <= b.key)

Checksum(parsed) ==
  [permissions |-> ByKey({ChecksumPermission(p) : p \in parsed.permissions}),
   roles       |-> ByKey({ChecksumRole(r) : r \in parsed.roles})]

-----------------------------------------------------------------------------
(* What an app declares by a catalog, whatever order it lists things in.   *)

Described(description) == IF description = Empty THEN Null ELSE description

DeclaredPermission(p) ==
  [key |-> p.key, description |-> Described(p.description), selfServe |-> p.tenantAssignable]

DeclaredRole(r) ==
  [key         |-> r.key,
   name        |-> r.name,
   description |-> Described(r.description),
   permissions |-> ToSet(r.permissions),
   staffOnly   |-> r.staffOnly]

Declared(catalog) ==
  [permissions |-> {DeclaredPermission(p) : p \in ToSet(catalog.permissions)},
   roles       |-> {DeclaredRole(r) : r \in ToSet(catalog.roles)}]
=============================================================================
