--------------------------- MODULE ManifestProofs ---------------------------
(***************************************************************************)
(* Proofs about ManifestPublishing, for any deploys and catalogs.  First   *)
(* what sorting by key does, of which the version makes use: it is the     *)
(* same for two catalogs exactly when they declare the same.  Then the     *)
(* invariant, and publishing as its contract has it.                       *)
(***************************************************************************)
EXTENDS ManifestPublishing, OrderingProofs

-----------------------------------------------------------------------------
(* Sets whose elements correspond, key by key, have the same places.       *)
Corresponds(f, S, key, T, keyOf) ==
  /\ f \in [S -> T]
  /\ \A x, y \in S : f[x] = f[y] => x = y
  /\ \A z \in T : \E x \in S : f[x] = z
  /\ \A x \in S : keyOf[f[x]] = key[x]

LEMMA SamePlaces ==
  ASSUME NEW S, IsFiniteSet(S), NEW T, NEW key, NEW keyOf,
         NEW f, Corresponds(f, S, key, T, keyOf)
  PROVE  /\ IsFiniteSet(T) /\ Cardinality(T) = Cardinality(S)
         /\ \A x \in S : Place(T, keyOf, f[x]) = Place(S, key, x)
<1> USE DEF Corresponds
<1>1. f \in Bijection(S, T)
  BY DEF Bijection, Injection, IsInjective, Surjection
<1>2. IsFiniteSet(T) /\ Cardinality(T) = Cardinality(S)
  BY <1>1, FS_Bijection DEF ExistsBijection
<1>3. ASSUME NEW x \in S PROVE Place(T, keyOf, f[x]) = Place(S, key, x)
  <2> DEFINE below == {y \in S : key[y] <= key[x]}
             upTo == {z \in T : keyOf[z] <= keyOf[f[x]]}
             part == [y \in below |-> f[y]]
  <2>1. IsFiniteSet(below)
    BY FS_Subset
  <2>2. part \in [below -> upTo]
    OBVIOUS
  <2>3. \A y, z \in below : part[y] = part[z] => y = z
    OBVIOUS
  <2>4. \A z \in upTo : \E y \in below : part[y] = z
    OBVIOUS
  <2> HIDE DEF below, upTo, part
  <2>5. part \in Bijection(below, upTo)
    BY <2>2, <2>3, <2>4 DEF Bijection, Injection, IsInjective, Surjection
  <2>6. Cardinality(upTo) = Cardinality(below)
    BY <2>1, <2>5, FS_Bijection DEF ExistsBijection
  <2> QED
    BY <2>6 DEF Place, upTo, below
<1> QED
  BY <1>2, <1>3

(* InOrder puts entries no two of which have one key in order by key.      *)
LEMMA EntriesInOrder ==
  ASSUME NEW S, IsFiniteSet(S), \A e \in S : e.key \in Int,
         \A d, e \in S : d.key = e.key => d = e
  PROVE  IsInOrder(ByKey(S), S, [e \in S |-> e.key])
<1> DEFINE key == [e \in S |-> e.key]
           s == ByKey(S)
<1>1. \A x \in S : {y \in S : y.key <= x.key} = {y \in S : key[y] <= key[x]}
  OBVIOUS
<1>2. ASSUME NEW n \in 1..Cardinality(S)
      PROVE  s[n] \in S /\ Cardinality({y \in S : y.key <= s[n].key}) = n
  <2>1. \E x \in S : Place(S, key, x) = n
    <3>1. key \in [S -> Int] /\ \A x, y \in S : key[x] = key[y] => x = y
      OBVIOUS
    <3> HIDE DEF key
    <3> QED
      BY <3>1, Places
  <2>2. \E x \in S : Cardinality({y \in S : y.key <= x.key}) = n
    BY <1>1, <2>1 DEF Place
  <2>3. s[n] = CHOOSE x \in S : Cardinality({y \in S : y.key <= x.key}) = n
    BY DEF InOrder, ByKey
  <2> QED
    BY <2>2, <2>3
<1>3. s \in [1..Cardinality(S) -> S]
  <2>1. s = [n \in 1..Cardinality(S) |->
               CHOOSE x \in S : Cardinality({y \in S : y.key <= x.key}) = n]
    BY DEF InOrder, ByKey
  <2> HIDE DEF s
  <2> QED
    BY <1>2, <2>1
<1> QED
  BY <1>1, <1>2, <1>3 DEF IsInOrder, Place

-----------------------------------------------------------------------------
(* What sorting a list by keys leaves of it, when no key comes twice.      *)

Listed(entries) ==
  /\ entries \in Seq(ToSet(entries))
  /\ \A i \in DOMAIN entries : entries[i].key \in Int
  /\ \A i, j \in DOMAIN entries : entries[i].key = entries[j].key => i = j

LEMMA ListedEntries ==
  ASSUME NEW entries, Listed(entries)
  PROVE  /\ Len(entries) \in Nat /\ DOMAIN entries = 1..Len(entries)
         /\ IsFiniteSet(DOMAIN entries) /\ Cardinality(DOMAIN entries) = Len(entries)
         /\ IsFiniteSet(ToSet(entries)) /\ Cardinality(ToSet(entries)) = Len(entries)
         /\ \A e \in ToSet(entries) : e.key \in Int
         /\ \A d, e \in ToSet(entries) : d.key = e.key => d = e
<1>1. Len(entries) \in Nat /\ DOMAIN entries = 1..Len(entries)
  BY DEF Listed
<1>2. IsFiniteSet(DOMAIN entries) /\ Cardinality(DOMAIN entries) = Len(entries)
  <2>1. IsFiniteSet(1..Len(entries)) /\ Cardinality(1..Len(entries)) = Len(entries)
    <3>1. 1 \in Int /\ Len(entries) \in Int
      BY <1>1
    <3>2. /\ IsFiniteSet(1..Len(entries))
          /\ Cardinality(1..Len(entries))
               = IF 1 > Len(entries) THEN 0 ELSE Len(entries) - 1 + 1
      BY <3>1, FS_Interval, Zenon
    <3> QED
      BY <1>1, <3>2
  <2> QED
    BY <1>1, <2>1
<1>3. \A i \in DOMAIN entries : entries[i] \in ToSet(entries)
  BY DEF ToSet
<1>4. entries \in Bijection(DOMAIN entries, ToSet(entries))
  <2>1. entries \in [DOMAIN entries -> ToSet(entries)]
    BY DEF Listed
  <2>2. \A i, j \in DOMAIN entries : entries[i] = entries[j] => i = j
    BY DEF Listed
  <2>3. \A e \in ToSet(entries) : \E i \in DOMAIN entries : entries[i] = e
    BY DEF ToSet
  <2> QED
    BY <2>1, <2>2, <2>3 DEF Bijection, Injection, IsInjective, Surjection
<1>5. IsFiniteSet(ToSet(entries)) /\ Cardinality(ToSet(entries)) = Len(entries)
  BY <1>2, <1>4, FS_Bijection DEF ExistsBijection
<1> QED
  BY <1>1, <1>2, <1>5 DEF ToSet, Listed

(* An entry has the place among the entries that its index has among the   *)
(* indices.                                                                *)
LEMMA PlaceOfIndex ==
  ASSUME NEW entries, Listed(entries), NEW i \in DOMAIN entries
  PROVE  Place(ToSet(entries), [e \in ToSet(entries) |-> e.key], entries[i])
           = Place(DOMAIN entries, [j \in DOMAIN entries |-> entries[j].key], i)
<1> DEFINE keyOf == [e \in ToSet(entries) |-> e.key]
           key == [j \in DOMAIN entries |-> entries[j].key]
<1>1. \A j \in DOMAIN entries : entries[j] \in ToSet(entries)
  BY DEF ToSet
<1>2. entries \in [DOMAIN entries -> ToSet(entries)] /\ IsFiniteSet(DOMAIN entries)
  BY ListedEntries DEF Listed
<1>3. /\ \A j, k \in DOMAIN entries : entries[j] = entries[k] => j = k
      /\ \A e \in ToSet(entries) : \E j \in DOMAIN entries : entries[j] = e
  BY DEF Listed, ToSet
<1>4. \A j \in DOMAIN entries : keyOf[entries[j]] = key[j]
  BY <1>1
<1> HIDE DEF keyOf, key
<1>5. Corresponds(entries, DOMAIN entries, key, ToSet(entries), keyOf)
  BY <1>2, <1>3, <1>4 DEF Corresponds
<1> QED
  BY <1>2, <1>5, SamePlaces DEF keyOf, key

(* Sorting a list is putting its entries in order.                         *)
LEMMA ListInOrder ==
  ASSUME NEW entries, Listed(entries)
  PROVE  IsInOrder(SortedByKey(entries), ToSet(entries), [e \in ToSet(entries) |-> e.key])
<1> DEFINE S == DOMAIN entries
           key == [j \in S |-> entries[j].key]
           UpTo(i, j) == \/ entries[i].key < entries[j].key
                         \/ entries[i].key = entries[j].key /\ i <= j
           order == InOrder(S, UpTo)
           sorted == SortedByKey(entries)
<1>1. \A j \in S : {i \in S : UpTo(i, j)} = {i \in S : key[i] <= key[j]}
  BY ListedEntries DEF Listed
<1>2. ASSUME NEW n \in 1..Cardinality(S)
      PROVE  order[n] \in S /\ Cardinality({i \in S : UpTo(i, order[n])}) = n
  <2>1. \E j \in S : Place(S, key, j) = n
    <3>1. key \in [S -> Int] /\ \A i, j \in S : key[i] = key[j] => i = j
      BY DEF Listed
    <3>2. IsFiniteSet(S)
      BY ListedEntries
    <3> HIDE DEF key, S
    <3> QED
      BY <3>1, <3>2, Places
  <2>2. \E j \in S : Cardinality({i \in S : UpTo(i, j)}) = n
    BY <1>1, <2>1 DEF Place
  <2>3. order[n] = CHOOSE j \in S : Cardinality({i \in S : UpTo(i, j)}) = n
    BY DEF InOrder
  <2> HIDE DEF UpTo, order
  <2> QED
    BY <2>2, <2>3
<1>3. sorted = [n \in S |-> entries[order[n]]]
  BY DEF SortedByKey
<1>4. ASSUME NEW n \in 1..Cardinality(S)
      PROVE  /\ sorted[n] = entries[order[n]] /\ sorted[n] \in ToSet(entries)
             /\ Place(ToSet(entries), [e \in ToSet(entries) |-> e.key], sorted[n]) = n
  <2>1. n \in S
    BY ListedEntries
  <2>2. sorted[n] = entries[order[n]] /\ order[n] \in S
    BY <1>2, <1>3, <2>1
  <2>3. Place(S, key, order[n]) = n
    BY <1>1, <1>2 DEF Place
  <2> HIDE DEF sorted, order, key
  <2>4. Place(ToSet(entries), [e \in ToSet(entries) |-> e.key], entries[order[n]]) = n
    BY <2>2, <2>3, PlaceOfIndex DEF key
  <2> QED
    BY <2>2, <2>4 DEF ToSet
<1>5. S = 1..Cardinality(ToSet(entries)) /\ Cardinality(S) = Cardinality(ToSet(entries))
  BY ListedEntries
<1>6. IsInOrder(sorted, ToSet(entries), [e \in ToSet(entries) |-> e.key])
  <2> HIDE DEF sorted, S, order
  <2> QED
    BY <1>3, <1>4, <1>5 DEF IsInOrder
<1> QED
  BY <1>6

(* What is made of the entries of a list, one by one and with their keys,  *)
(* and listed by key is what is made of the sorted list.                   *)
LEMMA SortedImage ==
  ASSUME NEW entries, Listed(entries), NEW f, \A e \in ToSet(entries) : f[e].key = e.key,
         NEW T, T = {f[e] : e \in ToSet(entries)}
  PROVE  /\ ByKey(T) = [i \in DOMAIN entries |-> f[SortedByKey(entries)[i]]]
         /\ T = ToSet(ByKey(T))
<1> DEFINE S == ToSet(entries)
           U == {f[e] : e \in S}
           g == [e \in S |-> f[e]]
           key == [e \in S |-> e.key]
           keyOf == [e \in U |-> e.key]
           s == SortedByKey(entries)
           t == [i \in DOMAIN entries |-> f[s[i]]]
<1>1. /\ IsFiniteSet(S) /\ Cardinality(S) = Len(entries) /\ DOMAIN entries = 1..Len(entries)
      /\ \A e \in S : e.key \in Int
      /\ \A d, e \in S : d.key = e.key => d = e
  BY ListedEntries
<1>2. Corresponds(g, S, key, U, keyOf)
  BY <1>1 DEF Corresponds
<1>3. /\ \A z \in U : z.key \in Int
      /\ \A y, z \in U : y.key = z.key => y = z
      /\ keyOf \in [U -> Int]
      /\ \A y, z \in U : keyOf[y] = keyOf[z] => y = z
  BY <1>1
<1>4. IsInOrder(s, S, key)
  BY ListInOrder
<1> HIDE DEF S, U, g, key, keyOf, s
<1>5. /\ IsFiniteSet(U) /\ Cardinality(U) = Cardinality(S)
      /\ \A e \in S : Place(U, keyOf, g[e]) = Place(S, key, e)
  BY <1>1, <1>2, SamePlaces
<1>6. IsInOrder(t, U, keyOf)
  <2>1. \A n \in 1..Cardinality(U) : t[n] = g[s[n]] /\ s[n] \in S /\ Place(S, key, s[n]) = n
    BY <1>1, <1>4, <1>5 DEF IsInOrder, g
  <2>2. \A n \in 1..Cardinality(U) : t[n] \in U /\ Place(U, keyOf, t[n]) = n
    BY <1>2, <1>5, <2>1 DEF Corresponds
  <2>3. t = [n \in 1..Cardinality(U) |-> t[n]]
    BY <1>1, <1>5
  <2> HIDE DEF t
  <2> QED
    BY <2>2, <2>3 DEF IsInOrder
<1>7. IsInOrder(ByKey(U), U, keyOf)
  BY <1>3, <1>5, EntriesInOrder DEF keyOf
<1>8. ByKey(U) = t
  <2> HIDE DEF t
  <2> QED
    BY <1>3, <1>5, <1>6, <1>7, OrderedOnce
<1>9. U = ToSet(ByKey(U))
  BY <1>3, <1>5, <1>7, OrderedAll DEF ToSet
<1> QED
  BY <1>8, <1>9 DEF S, U, s

LEMMA SortedEntries ==
  ASSUME NEW entries, Listed(entries), NEW i \in DOMAIN entries
  PROVE  SortedByKey(entries)[i] \in ToSet(entries)
<1>1. i \in 1..Cardinality(ToSet(entries))
  BY ListedEntries
<1> QED
  BY <1>1, ListInOrder DEF IsInOrder

-----------------------------------------------------------------------------
(* The version.                                                            *)

LEMMA PermissionsAndRoles ==
  ASSUME NEW catalog \in Catalogs
  PROVE  /\ Listed(catalog.permissions) /\ Listed(catalog.roles)
         /\ \A p \in ToSet(catalog.permissions) : p.tenantAssignable \in BOOLEAN
         /\ \A r \in ToSet(catalog.roles) : r.staffOnly \in BOOLEAN /\ r.permissions \in Seq(Int)
  BY CatalogsAssumption DEF Listed

(* A set of references and its list in ascending order determine each other. *)
LEMMA AscendingAll ==
  ASSUME NEW refs \in Seq(Int)
  PROVE  ToSet(refs) = ToSet(Ascending(ToSet(refs)))
<1> DEFINE S == ToSet(refs)
<1>1. S = {refs[i] : i \in 1..Len(refs)} /\ \A x \in S : x \in Int
  BY DEF ToSet
<1>2. IsFiniteSet(S)
  <2>1. IsFiniteSet(1..Len(refs))
    BY FS_Interval
  <2>2. refs \in Surjection(1..Len(refs), S)
    BY <1>1 DEF Surjection
  <2> QED
    BY <2>1, <2>2, FS_Surjection
<1> DEFINE key == [x \in S |-> x]
<1>3. key \in [S -> Int] /\ \A x, y \in S : key[x] = key[y] => x = y
  BY <1>1
<1>4. IsInOrder(Ascending(S), S, key)
  BY <1>1, <1>2, IntegersInOrder
<1> HIDE DEF S, key
<1>5. S = {Ascending(S)[n] : n \in DOMAIN Ascending(S)}
  BY <1>2, <1>3, <1>4, OrderedAll
<1> QED
  BY <1>5 DEF S, ToSet

(* Hashing a list in canonical form, and checking the catalog it declares. *)
LEMMA CanonicalIsChecked ==
  ASSUME NEW catalog \in Catalogs
  PROVE  /\ \A p \in ToSet(catalog.permissions) :
              CanonicalPermission(p) = ChecksumPermission(DeclaredPermission(p))
         /\ \A r \in ToSet(catalog.roles) :
              CanonicalRole(r) = ChecksumRole(DeclaredRole(r))
<1>1. ASSUME NEW p \in ToSet(catalog.permissions)
      PROVE  CanonicalPermission(p) = ChecksumPermission(DeclaredPermission(p))
  BY DEF CanonicalPermission, ChecksumPermission, DeclaredPermission, emptyToNull, Described,
         SelfServe
<1>2. ASSUME NEW r \in ToSet(catalog.roles)
      PROVE  CanonicalRole(r) = ChecksumRole(DeclaredRole(r))
  BY DEF CanonicalRole, ChecksumRole, DeclaredRole, emptyToNull, Described, Assignable,
         SortedRefs
<1> QED
  BY <1>1, <1>2

LEMMA Keys ==
  /\ \A p : CanonicalPermission(p).key = p.key
  /\ \A r : CanonicalRole(r).key = r.key
  BY DEF CanonicalPermission, CanonicalRole

(* The version an app declares is the one the instance computes of what    *)
(* it has parsed.                                                          *)
LEMMA VersionIsChecksum ==
  ASSUME NEW catalog \in Catalogs
  PROVE  ManifestOf(catalog).version = Checksum(Declared(catalog))
<1> DEFINE permissions == catalog.permissions
           roles == catalog.roles
           f == [p \in ToSet(permissions) |-> CanonicalPermission(p)]
           g == [r \in ToSet(roles) |-> CanonicalRole(r)]
<1>1. {f[p] : p \in ToSet(permissions)}
        = {ChecksumPermission(p) : p \in Declared(catalog).permissions}
  BY CanonicalIsChecked DEF Declared
<1>2. {g[r] : r \in ToSet(roles)} = {ChecksumRole(r) : r \in Declared(catalog).roles}
  BY CanonicalIsChecked DEF Declared
<1>3. ByKey({f[p] : p \in ToSet(permissions)})
        = [i \in DOMAIN permissions |-> CanonicalPermission(SortedByKey(permissions)[i])]
  <2>1. \A p \in ToSet(permissions) : f[p] = CanonicalPermission(p) /\ f[p].key = p.key
    BY Keys
  <2>2. Listed(permissions)
    BY PermissionsAndRoles
  <2> HIDE DEF f
  <2>3. ByKey({f[p] : p \in ToSet(permissions)})
          = [i \in DOMAIN permissions |-> f[SortedByKey(permissions)[i]]]
    BY <2>1, <2>2, SortedImage
  <2> QED
    BY <2>1, <2>2, <2>3, SortedEntries
<1>4. ByKey({g[r] : r \in ToSet(roles)})
        = [i \in DOMAIN roles |-> CanonicalRole(SortedByKey(roles)[i])]
  <2>1. \A r \in ToSet(roles) : g[r] = CanonicalRole(r) /\ g[r].key = r.key
    BY Keys
  <2>2. Listed(roles)
    BY PermissionsAndRoles
  <2> HIDE DEF g
  <2>3. ByKey({g[r] : r \in ToSet(roles)})
          = [i \in DOMAIN roles |-> g[SortedByKey(roles)[i]]]
    BY <2>1, <2>2, SortedImage
  <2> QED
    BY <2>1, <2>2, <2>3, SortedEntries
<1>5. ManifestOf(catalog).version
        = [permissions |-> ByKey({f[p] : p \in ToSet(permissions)}),
           roles       |-> ByKey({g[r] : r \in ToSet(roles)})]
  BY <1>3, <1>4 DEF ManifestOf, canonicalManifestJSON
<1> QED
  BY <1>1, <1>2, <1>5 DEF Checksum

(* The sets that are checked are those the sequences list.                 *)
LEMMA ChecksumLists ==
  ASSUME NEW catalog \in Catalogs
  PROVE  LET parsed == Declared(catalog)
             P == {ChecksumPermission(p) : p \in parsed.permissions}
             R == {ChecksumRole(r) : r \in parsed.roles} IN
         P = ToSet(Checksum(parsed).permissions) /\ R = ToSet(Checksum(parsed).roles)
<1> DEFINE permissions == catalog.permissions
           roles == catalog.roles
           f == [p \in ToSet(permissions) |-> CanonicalPermission(p)]
           g == [r \in ToSet(roles) |-> CanonicalRole(r)]
           P == {f[p] : p \in ToSet(permissions)}
           R == {g[r] : r \in ToSet(roles)}
<1>1. P = {ChecksumPermission(p) : p \in Declared(catalog).permissions}
  BY CanonicalIsChecked DEF Declared
<1>2. R = {ChecksumRole(r) : r \in Declared(catalog).roles}
  BY CanonicalIsChecked DEF Declared
<1>3. P = ToSet(ByKey(P))
  <2>1. Listed(permissions) /\ \A p \in ToSet(permissions) : f[p].key = p.key
    BY Keys, PermissionsAndRoles
  <2>2. P = {f[p] : p \in ToSet(permissions)}
    OBVIOUS
  <2> HIDE DEF f, P
  <2> QED
    BY <2>1, <2>2, SortedImage
<1>4. R = ToSet(ByKey(R))
  <2>1. Listed(roles) /\ \A r \in ToSet(roles) : g[r].key = r.key
    BY Keys, PermissionsAndRoles
  <2>2. R = {g[r] : r \in ToSet(roles)}
    OBVIOUS
  <2> HIDE DEF g, R
  <2> QED
    BY <2>1, <2>2, SortedImage
<1> HIDE DEF P, R
<1> QED
  BY <1>1, <1>2, <1>3, <1>4 DEF Checksum

LEMMA ChecksumIdentifies ==
  ASSUME NEW catalog \in Catalogs, NEW other \in Catalogs,
         Checksum(Declared(catalog)) = Checksum(Declared(other))
  PROVE  Declared(catalog) = Declared(other)
<1> DEFINE a == Declared(catalog)
           b == Declared(other)
<1>1. /\ {ChecksumPermission(p) : p \in a.permissions} = {ChecksumPermission(p) : p \in b.permissions}
      /\ {ChecksumRole(r) : r \in a.roles} = {ChecksumRole(r) : r \in b.roles}
  BY ChecksumLists
<1>2. ASSUME NEW p \in a.permissions \cup b.permissions,
             NEW q \in a.permissions \cup b.permissions,
             ChecksumPermission(p) = ChecksumPermission(q)
      PROVE  p = q
  <2>1. /\ p = [key |-> p.key, description |-> p.description, selfServe |-> p.selfServe]
        /\ q = [key |-> q.key, description |-> q.description, selfServe |-> q.selfServe]
        /\ p.selfServe \in BOOLEAN /\ q.selfServe \in BOOLEAN
    BY PermissionsAndRoles DEF Declared, DeclaredPermission
  <2>2. p.key = q.key /\ p.description = q.description /\ p.selfServe = q.selfServe
    BY <1>2, <2>1 DEF ChecksumPermission
  <2> QED
    BY <2>1, <2>2
<1>3. ASSUME NEW r \in a.roles \cup b.roles, NEW q \in a.roles \cup b.roles,
             ChecksumRole(r) = ChecksumRole(q)
      PROVE  r = q
  <2>1. PICK x \in ToSet(catalog.roles) \cup ToSet(other.roles),
             y \in ToSet(catalog.roles) \cup ToSet(other.roles) :
          r = DeclaredRole(x) /\ q = DeclaredRole(y)
    BY DEF Declared
  <2>2. /\ x.permissions \in Seq(Int) /\ y.permissions \in Seq(Int)
        /\ x.staffOnly \in BOOLEAN /\ y.staffOnly \in BOOLEAN
    BY PermissionsAndRoles
  <2>3. Ascending(r.permissions) = Ascending(q.permissions)
    BY <1>3 DEF ChecksumRole
  <2>4. r.permissions = q.permissions
    BY <2>1, <2>2, <2>3, AscendingAll DEF DeclaredRole
  <2>5. r.staffOnly = q.staffOnly
    BY <1>3, <2>1, <2>2 DEF ChecksumRole, DeclaredRole
  <2>6. r.key = q.key /\ r.name = q.name /\ r.description = q.description
    BY <1>3 DEF ChecksumRole
  <2> QED
    BY <2>1, <2>4, <2>5, <2>6 DEF DeclaredRole
<1> HIDE DEF a, b
<1>4. a.permissions = b.permissions
  <2>1. \A p \in a.permissions :
          \E q \in b.permissions : ChecksumPermission(p) = ChecksumPermission(q)
    BY <1>1
  <2>2. \A q \in b.permissions :
          \E p \in a.permissions : ChecksumPermission(p) = ChecksumPermission(q)
    BY <1>1
  <2> QED
    BY <1>2, <2>1, <2>2
<1>5. a.roles = b.roles
  <2>1. \A r \in a.roles : \E q \in b.roles : ChecksumRole(r) = ChecksumRole(q)
    BY <1>1
  <2>2. \A q \in b.roles : \E r \in a.roles : ChecksumRole(r) = ChecksumRole(q)
    BY <1>1
  <2> QED
    BY <1>3, <2>1, <2>2
<1> QED
  BY <1>4, <1>5 DEF Declared, a, b

(* manifest.go 111-114, 149-157: of any two catalogs, the version of one   *)
(* is the checksum of the other exactly when they declare the same: the    *)
(* order of lists, a repeated permission and a default that is written or  *)
(* left out make no version, and whatever else differs makes one.          *)
THEOREM VersionsIdentify ==
  ASSUME NEW catalog \in Catalogs, NEW other \in DeclaredCatalogs
  PROVE  ManifestOf(catalog).version = Checksum(other) <=> Declared(catalog) = other
<1>1. PICK source \in Catalogs : other = Declared(source)
  BY DEF DeclaredCatalogs
<1> QED
  BY <1>1, VersionIsChecksum, ChecksumIdentifies

-----------------------------------------------------------------------------
(* The wire.                                                               *)

LEMMA Roles ==
  ASSUME NEW catalog \in Catalogs, NEW i \in DOMAIN catalog.roles
  PROVE  LET r == catalog.roles[i] IN
         /\ r = [key         |-> r.key,
                 name        |-> r.name,
                 description |-> r.description,
                 permissions |-> r.permissions,
                 staffOnly   |-> r.staffOnly]
         /\ r.staffOnly \in BOOLEAN /\ r.name # Null /\ r.description # Null
<1>1. catalog.roles[i] \in ToSet(catalog.roles)
  BY DEF ToSet
<1>2. \A r \in ToSet(catalog.roles) :
        /\ r = [key         |-> r.key,
                name        |-> r.name,
                description |-> r.description,
                permissions |-> r.permissions,
                staffOnly   |-> r.staffOnly]
        /\ r.staffOnly \in BOOLEAN /\ r.name # Null /\ r.description # Null
  BY CatalogsAssumption, Zenon
<1> QED
  BY <1>1, <1>2, Zenon

(* The wire loses nothing of a catalog: tenant_assignable, left out at its *)
(* default, is read as what was declared.                                  *)
LEMMA WireKeepsCatalogs ==
  ASSUME NEW catalog \in Catalogs
  PROVE  Parsed(ManifestOf(catalog)) = Declared(catalog)
<1> DEFINE manifest == ManifestOf(catalog)
<1>1. /\ DOMAIN manifest.permissions = DOMAIN catalog.permissions
      /\ \A i \in DOMAIN catalog.permissions :
           manifest.permissions[i] = MarshalPermission(catalog.permissions[i])
  BY DEF ManifestOf
<1>2. /\ DOMAIN manifest.roles = DOMAIN catalog.roles
      /\ \A i \in DOMAIN catalog.roles : manifest.roles[i] = MarshalRole(catalog.roles[i])
  BY DEF ManifestOf
<1>3. ASSUME NEW i \in DOMAIN catalog.permissions
      PROVE  ParsedPermission(MarshalPermission(catalog.permissions[i]))
               = DeclaredPermission(catalog.permissions[i])
  <2>1. catalog.permissions[i].tenantAssignable \in BOOLEAN
    BY CatalogsAssumption DEF ToSet
  <2> QED
    BY <2>1 DEF ParsedPermission, MarshalPermission, DeclaredPermission, omitempty,
                Described, SelfServe
<1>4. ASSUME NEW i \in DOMAIN catalog.roles
      PROVE  ParsedRole(MarshalRole(catalog.roles[i])) = DeclaredRole(catalog.roles[i])
  <2>1. catalog.roles[i].staffOnly \in BOOLEAN /\ catalog.roles[i].name # Null
    BY Roles
  <2>2. StringOf(omitempty(catalog.roles[i].name)) = catalog.roles[i].name
    BY <2>1, PublishingAssumption DEF StringOf, omitempty
  <2> QED
    BY <2>1, <2>2 DEF ParsedRole, MarshalRole, DeclaredRole, omitempty, Described, Assignable
<1>5. Parsed(manifest).permissions = Declared(catalog).permissions
  BY <1>1, <1>3 DEF Parsed, Declared, ToSet
<1>6. Parsed(manifest).roles = Declared(catalog).roles
  BY <1>2, <1>4 DEF Parsed, Declared, ToSet
<1> QED
  BY <1>5, <1>6 DEF Parsed, Declared

(* manifest.go 70-109: a program that reads its roles from a manifest has  *)
(* the catalog it would have declared in Go: UnmarshalJSON undoes          *)
(* MarshalJSON, and no staff role becomes an ordinary one.                 *)
THEOREM ManifestsAreReadBack ==
  ASSUME NEW catalog \in Catalogs
  PROVE  ReadFromManifest(catalog) = catalog
<1>1. ASSUME NEW i \in DOMAIN catalog.roles
      PROVE  UnmarshalRole(ManifestOf(catalog).roles[i]) = catalog.roles[i]
  <2> DEFINE role == catalog.roles[i]
  <2>1. /\ role = [key         |-> role.key,
                   name        |-> role.name,
                   description |-> role.description,
                   permissions |-> role.permissions,
                   staffOnly   |-> role.staffOnly]
        /\ role.staffOnly \in BOOLEAN /\ role.name # Null /\ role.description # Null
    BY Roles
  <2>2. ManifestOf(catalog).roles[i] = MarshalRole(role)
    BY DEF ManifestOf
  <2>3. (MarshalRole(role).tenant_assignable \in {"false", "null"}) = role.staffOnly
    BY <2>1 DEF MarshalRole, Assignable
  <2>4. /\ StringOf(MarshalRole(role).name) = role.name
        /\ StringOf(MarshalRole(role).description) = role.description
    BY <2>1, PublishingAssumption DEF MarshalRole, omitempty, StringOf
  <2>5. UnmarshalRole(MarshalRole(role)) = [key         |-> role.key,
                                            name        |-> role.name,
                                            description |-> role.description,
                                            permissions |-> role.permissions,
                                            staffOnly   |-> role.staffOnly]
    BY <2>3, <2>4 DEF UnmarshalRole, MarshalRole
  <2> QED
    BY <2>1, <2>2, <2>5
<1>2. [i \in DOMAIN catalog.roles |-> UnmarshalRole(ManifestOf(catalog).roles[i])]
        = catalog.roles
  BY <1>1, CatalogsAssumption
<1> QED
  BY <1>2, CatalogsAssumption DEF ReadFromManifest

(* How a call begins.                                                      *)
LEMMA Beginning ==
  ASSUME NEW d \in Deploys, PublishManifest(d)
  PROVE  \E catalog \in Catalogs :
           \/ Return(d, "ErrConfiguration")
           \/ Set(d, [NoCall EXCEPT !.pc = "minting", !.catalog = catalog])
<1>1. PICK declared \in Catalogs, clientSecret \in BOOLEAN, read \in BOOLEAN :
        LET catalog == IF read THEN ReadFromManifest(declared) ELSE declared IN
        \/ Return(d, "ErrConfiguration")
        \/ Set(d, [NoCall EXCEPT !.pc = "minting", !.catalog = catalog])
  BY DEF PublishManifest
<1>2. (IF read THEN ReadFromManifest(declared) ELSE declared) = declared
  BY ManifestsAreReadBack
<1> QED
  BY <1>1, <1>2

-----------------------------------------------------------------------------
(* The invariant.                                                          *)

LEMMA SetCall ==
  ASSUME Inv, NEW d \in Deploys, NEW new \in Call, CallOK(new), Set(d, new)
  PROVE  /\ calls' \in [Deploys -> Call]
         /\ \A e \in Deploys : CallOK(calls'[e])
         /\ calls'[d] = new
         /\ \A e \in Deploys \ {d} : calls'[e] = calls[e]
  BY DEF Set, Inv, TypeOK

LEMMA NoCallType == NoCall \in Call /\ CallOK(NoCall)
  BY DEF NoCall, Call, CallOK

LEMMA ReturnCall ==
  ASSUME Inv, NEW d \in Deploys,
         NEW err \in {"nil", "ErrConfiguration", "ErrAuthentication", "ErrManifestRejected"},
         Return(d, err)
  PROVE  /\ calls' \in [Deploys -> Call]
         /\ \A e \in Deploys : CallOK(calls'[e])
<1> DEFINE new == [NoCall EXCEPT !.pc        = "returned",
                                 !.err       = err,
                                 !.unchanged = (err = "nil" /\ calls[d].unchanged)]
<1>1. (err = "nil" /\ calls[d].unchanged) \in BOOLEAN
  OBVIOUS
<1>2. new \in Call /\ CallOK(new)
  BY <1>1 DEF NoCall, Call, CallOK
<1> QED
  BY <1>2, SetCall DEF Return

LEMMA ApplyKeepsType ==
  ASSUME Inv, NEW catalog \in Catalogs, Apply(ManifestOf(catalog))
  PROVE  held' \in DeclaredCatalogs
<1>1. Declared(catalog) \in DeclaredCatalogs
  BY DEF DeclaredCatalogs
<1> QED
  BY <1>1, WireKeepsCatalogs DEF Apply, Unchanged, Inv, TypeOK

LEMMA CallInv ==
  ASSUME Inv, NEW d \in Deploys,
         \/ PublishManifest(d) \/ MachineToken(d)
         \/ Accept(d) \/ Refuse(d) \/ Lose(d)
         \/ Receive(d) \/ AppResumes(d)
  PROVE  Inv'
<1>0. calls[d] \in Call /\ CallOK(calls[d])
  BY DEF Inv, TypeOK
<1>1. CASE PublishManifest(d)
  <2>1. PICK catalog \in Catalogs :
          \/ Return(d, "ErrConfiguration")
          \/ Set(d, [NoCall EXCEPT !.pc = "minting", !.catalog = catalog])
    BY <1>1, Beginning
  <2> DEFINE new == [NoCall EXCEPT !.pc = "minting", !.catalog = catalog]
  <2>2. new \in Call /\ CallOK(new)
    BY PublishingAssumption DEF NoCall, Call, CallOK
  <2>3. calls' \in [Deploys -> Call] /\ \A e \in Deploys : CallOK(calls'[e])
    BY <2>1, <2>2, SetCall, ReturnCall
  <2> QED
    BY <1>1, <2>3 DEF PublishManifest, Inv, TypeOK
<1>2. CASE MachineToken(d)
  <2> DEFINE new == [calls[d] EXCEPT !.pc = "pushing"]
  <2>1. new \in Call /\ CallOK(new)
    BY <1>0, <1>2 DEF MachineToken, Call, CallOK
  <2>2. Set(d, new) \/ Return(d, "ErrAuthentication")
    BY <1>2 DEF MachineToken
  <2>3. calls' \in [Deploys -> Call] /\ \A e \in Deploys : CallOK(calls'[e])
    BY <2>1, <2>2, SetCall, ReturnCall
  <2> QED
    BY <1>2, <2>3 DEF MachineToken, Inv, TypeOK
<1>3. CASE Accept(d)
  <2> DEFINE manifest == ManifestOf(calls[d].catalog)
             new == [calls[d] EXCEPT !.push = "accepted", !.unchanged = Unchanged(manifest)]
  <2>1. calls[d].catalog \in Catalogs
    BY <1>0, <1>3 DEF Accept, Call, CallOK
  <2>2. Unchanged(manifest) \in BOOLEAN
    BY DEF Unchanged
  <2>3. new \in Call /\ CallOK(new)
    BY <1>0, <1>3, <2>2 DEF Accept, Call, CallOK
  <2>4. Set(d, new) /\ Apply(manifest) /\ UNCHANGED strays
    BY <1>3 DEF Accept
  <2>5. held' \in DeclaredCatalogs
    BY <2>1, <2>4, ApplyKeepsType
  <2>6. calls' \in [Deploys -> Call] /\ \A e \in Deploys : CallOK(calls'[e])
    BY <2>3, <2>4, SetCall
  <2> QED
    BY <2>4, <2>5, <2>6 DEF Inv, TypeOK
<1>4. CASE Refuse(d)
  <2> DEFINE new == [calls[d] EXCEPT !.push = "error status"]
  <2>1. new \in Call /\ CallOK(new)
    BY <1>0, <1>4 DEF Refuse, Call, CallOK
  <2>2. calls' \in [Deploys -> Call] /\ \A e \in Deploys : CallOK(calls'[e])
    BY <1>4, <2>1, SetCall DEF Refuse
  <2> QED
    BY <1>4, <2>2 DEF Refuse, Inv, TypeOK
<1>5. CASE Lose(d)
  <2>1. PICK push \in {"no answer", "error status", "unreadable"} :
          Set(d, [calls[d] EXCEPT !.push = push, !.unchanged = FALSE])
    BY <1>5 DEF Lose
  <2> DEFINE new == [calls[d] EXCEPT !.push = push, !.unchanged = FALSE]
  <2>2. new \in Call /\ CallOK(new) /\ calls[d].catalog \in Catalogs
    BY <1>0, <1>5 DEF Lose, Call, CallOK
  <2>3. calls' \in [Deploys -> Call] /\ \A e \in Deploys : CallOK(calls'[e])
    BY <2>1, <2>2, SetCall
  <2>4. strays' \subseteq Catalogs /\ held' = held
    BY <1>5, <2>2 DEF Lose, Inv, TypeOK
  <2> QED
    BY <2>3, <2>4 DEF Inv, TypeOK
<1>6. CASE Receive(d)
  <2>1. ErrorOf(calls[d].push) \in {"nil", "ErrManifestRejected"}
    BY DEF ErrorOf
  <2>2. calls' \in [Deploys -> Call] /\ \A e \in Deploys : CallOK(calls'[e])
    BY <1>6, <2>1, ReturnCall DEF Receive
  <2> QED
    BY <1>6, <2>2 DEF Receive, Inv, TypeOK
<1>7. CASE AppResumes(d)
  <2>1. calls' \in [Deploys -> Call] /\ \A e \in Deploys : CallOK(calls'[e])
    BY <1>7, NoCallType, SetCall DEF AppResumes
  <2> QED
    BY <1>7, <2>1 DEF AppResumes, Inv, TypeOK
<1> QED
  BY <1>1, <1>2, <1>3, <1>4, <1>5, <1>6, <1>7

(* manifest.go 256-315: what a call has sent, what has become of it and    *)
(* what it returns agree, and the instance holds a catalog somebody        *)
(* declared, as it was declared.                                           *)
THEOREM Invariance == Spec => []Inv
<1>1. Init => Inv
  BY NoCallType DEF Init, Inv, TypeOK
<1>2. Inv /\ [Next]_vars => Inv'
  <2> SUFFICES ASSUME Inv, [Next]_vars PROVE Inv'
    OBVIOUS
  <2>1. CASE LateArrival
    <3>1. PICK catalog \in strays :
            Apply(ManifestOf(catalog)) /\ strays' = strays \ {catalog} /\ UNCHANGED calls
      BY <2>1 DEF LateArrival
    <3>2. held' \in DeclaredCatalogs
      BY <3>1, ApplyKeepsType DEF Inv, TypeOK
    <3> QED
      BY <3>1, <3>2 DEF Inv, TypeOK
  <2>2. CASE UNCHANGED vars
    BY <2>2 DEF vars, Inv, TypeOK
  <2> QED
    BY <2>1, <2>2, CallInv DEF Next
<1> QED
  BY <1>1, <1>2, PTL DEF Spec

(* manifest.go 111-114, 258-259: the instance takes a push for unchanged   *)
(* exactly when it declares what the instance holds.                       *)
THEOREM Republishing == Spec => []RepublishIsNoOp
<1>1. Inv => RepublishIsNoOp
  <2> SUFFICES ASSUME Inv, NEW d \in Deploys,
                      calls[d].pc = "pushing", held # None
               PROVE  Unchanged(ManifestOf(calls[d].catalog))
                        <=> Declared(calls[d].catalog) = held
    BY DEF RepublishIsNoOp
  <2>1. calls[d].catalog \in Catalogs /\ held \in DeclaredCatalogs
    BY DEF Inv, TypeOK, Call, CallOK
  <2> QED
    BY <2>1, VersionsIdentify DEF Unchanged
<1> QED
  BY <1>1, Invariance, PTL

-----------------------------------------------------------------------------
(* Publishing implements its contract.                                     *)

Publishes == [d \in Deploys |-> PublishOf(calls[d])]
Strays    == {Declared(catalog) : catalog \in strays}

LEMMA ApplyIsDeclared ==
  ASSUME Inv, NEW catalog \in Catalogs
  PROVE  /\ Unchanged(ManifestOf(catalog)) = (held = Declared(catalog))
         /\ Apply(ManifestOf(catalog)) => held' = Declared(catalog)
<1>1. Declared(catalog) \in DeclaredCatalogs /\ Declared(catalog) # None
  BY PublishingAssumption DEF DeclaredCatalogs
<1>2. Unchanged(ManifestOf(catalog)) <=> held = Declared(catalog)
  BY <1>1, VersionsIdentify DEF Unchanged, Inv, TypeOK
<1>3. Unchanged(ManifestOf(catalog)) \in BOOLEAN
  BY DEF Unchanged
<1> QED
  BY <1>2, <1>3, WireKeepsCatalogs DEF Apply

LEMMA PublishSet ==
  ASSUME Inv, NEW d \in Deploys, NEW new, Set(d, new)
  PROVE  Publishes' = [Publishes EXCEPT ![d] = PublishOf(new)]
<1>1. calls'[d] = new /\ \A e \in Deploys \ {d} : calls'[e] = calls[e]
  BY DEF Set, Inv, TypeOK
<1> QED
  BY <1>1 DEF Publishes

LEMMA Phases ==
  ASSUME NEW call, call.err = "none"
  PROVE  /\ call.pc = "none" => PhaseOf(call) = "none"
         /\ call.pc = "minting" => PhaseOf(call) = "open"
         /\ call.pc = "pushing" /\ call.push = "none" => PhaseOf(call) = "open"
         /\ call.pc = "pushing" /\ call.push = "accepted" => PhaseOf(call) = "taken"
         /\ call.pc = "pushing" /\ call.push \notin {"none", "accepted"} =>
              PhaseOf(call) = "rejected"
<1>1. call.pc = "none" => PhaseOf(call) = "none"
  BY DEF PhaseOf
<1>2. call.pc = "minting" => PhaseOf(call) = "open"
  BY DEF PhaseOf
<1>3. call.pc = "pushing" /\ call.push = "none" => PhaseOf(call) = "open"
  BY DEF PhaseOf
<1>4. call.pc = "pushing" /\ call.push = "accepted" => PhaseOf(call) = "taken"
  BY DEF PhaseOf
<1>5. call.pc = "pushing" /\ call.push \notin {"none", "accepted"} =>
        PhaseOf(call) = "rejected"
  BY DEF PhaseOf
<1> QED
  BY <1>1, <1>2, <1>3, <1>4, <1>5

LEMMA ReturnPublish ==
  ASSUME Inv, NEW d \in Deploys,
         NEW err \in {"nil", "ErrConfiguration", "ErrAuthentication", "ErrManifestRejected"},
         Return(d, err)
  PROVE  Publishes' = [Publishes EXCEPT ![d] =
           [phase     |-> IF err = "nil" THEN "published"
                          ELSE IF err = "ErrManifestRejected" THEN "rejected" ELSE "refused",
            catalog   |-> None,
            unchanged |-> (err = "nil" /\ calls[d].unchanged)]]
<1> DEFINE new == [NoCall EXCEPT !.pc        = "returned",
                                 !.err       = err,
                                 !.unchanged = (err = "nil" /\ calls[d].unchanged)]
<1>1. new.pc = "returned" /\ new.err = err
      /\ new.unchanged = (err = "nil" /\ calls[d].unchanged)
  BY DEF NoCall
<1>2. PhaseOf(new) = IF err = "nil" THEN "published"
                     ELSE IF err = "ErrManifestRejected" THEN "rejected" ELSE "refused"
  BY <1>1 DEF PhaseOf
<1>3. Publishes' = [Publishes EXCEPT ![d] = PublishOf(new)]
  BY PublishSet DEF Return
<1> QED
  BY <1>1, <1>2, <1>3 DEF PublishOf

(* A step of the contract, said of Publishes and Strays.                   *)
LEMMA RejectLemma ==
  ASSUME NEW d \in Deploys, UNCHANGED held,
         Publishes[d].phase \in {"open", "taken"},
         Publishes' = [Publishes EXCEPT ![d] =
                         [phase |-> "rejected", catalog |-> None, unchanged |-> FALSE]],
         \/ UNCHANGED Strays
         \/ Publishes[d].phase = "open" /\ Strays' = Strays \cup {Publishes[d].catalog}
  PROVE  Contract!Next
<1>2. \E from \in {"open", "taken"} :
        Contract!Move(d, from, Contract!Publish("rejected", None, FALSE))
  BY DEF Contract!Move, Contract!Publish, Publishes
<1>3. \/ UNCHANGED Strays
      \/ Publishes[d].phase = "open" /\ Strays' = Strays \cup {Publishes[d].catalog}
  OBVIOUS
<1>4. Contract!Reject(d)
  BY <1>2, <1>3 DEF Contract!Reject, Publishes, Strays
<1> QED
  BY <1>4 DEF Contract!Next

LEMMA RefuseLemma ==
  ASSUME NEW d \in Deploys, UNCHANGED <<held, Strays>>,
         Publishes[d].phase \in {"none", "open"},
         Publishes' = [Publishes EXCEPT ![d] =
                         [phase |-> "refused", catalog |-> None, unchanged |-> FALSE]]
  PROVE  Contract!Next
<1>2. \E from \in {"none", "open"} :
        Contract!Move(d, from, Contract!Publish("refused", None, FALSE))
  BY DEF Contract!Move, Contract!Publish, Publishes
<1>3. Contract!Refuse(d)
  BY <1>2 DEF Contract!Refuse, Strays
<1> QED
  BY <1>3 DEF Contract!Next

LEMMA StepRefines ==
  ASSUME Inv, NEW d \in Deploys,
         \/ PublishManifest(d) \/ MachineToken(d)
         \/ Accept(d) \/ Refuse(d) \/ Lose(d)
         \/ Receive(d) \/ AppResumes(d)
  PROVE  Contract!Next \/ UNCHANGED <<held, Publishes, Strays>>
<1>0. /\ calls[d] \in Call /\ CallOK(calls[d])
      /\ Publishes[d] = PublishOf(calls[d])
      /\ DOMAIN Publishes = Deploys
  BY DEF Inv, TypeOK, Publishes
<1>1. CASE PublishManifest(d)
  <2>1. PICK catalog \in Catalogs :
          \/ Return(d, "ErrConfiguration")
          \/ Set(d, [NoCall EXCEPT !.pc = "minting", !.catalog = catalog])
    BY <1>1, Beginning
  <2>2. Publishes[d].phase = "none"
    <3>1. calls[d].pc = "none" /\ calls[d].err = "none"
      BY <1>0, <1>1 DEF PublishManifest, CallOK
    <3> QED
      BY <1>0, <3>1, Phases DEF PublishOf
  <2>3. UNCHANGED <<held, Strays>>
    BY <1>1 DEF PublishManifest, Strays
  <2>4. CASE Return(d, "ErrConfiguration")
    BY <2>2, <2>3, <2>4, ReturnPublish, RefuseLemma
  <2>5. CASE Set(d, [NoCall EXCEPT !.pc = "minting", !.catalog = catalog])
    <3> DEFINE new == [NoCall EXCEPT !.pc = "minting", !.catalog = catalog]
    <3>1. PublishOf(new) = [phase |-> "open", catalog |-> Declared(catalog), unchanged |-> FALSE]
      BY DEF PublishOf, PhaseOf, NoCall
    <3>2. Declared(catalog) \in DeclaredCatalogs
      BY DEF DeclaredCatalogs
    <3>3. Contract!Publish("open", Declared(catalog), FALSE) = PublishOf(new)
      BY <3>1 DEF Contract!Publish
    <3>4. Publishes' = [Publishes EXCEPT ![d] = PublishOf(new)]
      BY <2>5, PublishSet
    <3>5. Contract!Move(d, "none", Contract!Publish("open", Declared(catalog), FALSE))
      BY <2>2, <3>3, <3>4 DEF Contract!Move, Publishes
    <3>6. Contract!Begin(d)
      BY <2>3, <3>2, <3>5 DEF Contract!Begin, Strays
    <3> QED
      BY <3>6 DEF Contract!Next
  <2> QED
    BY <2>1, <2>4, <2>5
<1>2. CASE MachineToken(d)
  <2>1. calls[d].pc = "minting" /\ calls[d].push = "none" /\ calls[d].err = "none"
    BY <1>0, <1>2 DEF MachineToken, CallOK, Call
  <2>2. PhaseOf(calls[d]) = "open" /\ Publishes[d].phase = "open"
    BY <1>0, <2>1, Phases DEF PublishOf
  <2>3. UNCHANGED <<held, Strays>>
    BY <1>2 DEF MachineToken, Strays
  <2>4. CASE Set(d, [calls[d] EXCEPT !.pc = "pushing"])
    <3> DEFINE new == [calls[d] EXCEPT !.pc = "pushing"]
    <3>1. /\ new.pc = "pushing" /\ new.push = "none" /\ new.err = "none"
          /\ new.catalog = calls[d].catalog /\ new.unchanged = calls[d].unchanged
      BY <1>0, <2>1 DEF Call
    <3>3. PhaseOf(new) = "open"
      BY <3>1, Phases
    <3>4. PublishOf(new) = PublishOf(calls[d])
      BY <2>2, <3>1, <3>3 DEF PublishOf
    <3>2. Publishes' = Publishes
      BY <1>0, <2>4, <3>4, PublishSet DEF Publishes
    <3> QED
      BY <2>3, <3>2
  <2>5. CASE Return(d, "ErrAuthentication")
    BY <2>2, <2>3, <2>5, ReturnPublish, RefuseLemma
  <2> QED
    BY <1>2, <2>4, <2>5 DEF MachineToken
<1>3. CASE Accept(d)
  <2> DEFINE catalog == calls[d].catalog
             manifest == ManifestOf(catalog)
             new == [calls[d] EXCEPT !.push = "accepted", !.unchanged = Unchanged(manifest)]
  <2>1. /\ catalog \in Catalogs /\ calls[d].pc = "pushing" /\ calls[d].push = "none"
        /\ calls[d].err = "none"
    BY <1>0, <1>3 DEF Accept, Call, CallOK
  <2>2. Set(d, new) /\ Apply(manifest) /\ UNCHANGED strays
    BY <1>3 DEF Accept
  <2>3. held' = Declared(catalog) /\ Unchanged(manifest) = (held = Declared(catalog))
    BY <2>1, <2>2, ApplyIsDeclared
  <2>4. Publishes[d].phase = "open" /\ Publishes[d].catalog = Declared(catalog)
    <3>1. PhaseOf(calls[d]) = "open"
      BY <2>1, Phases
    <3> QED
      BY <1>0, <3>1 DEF PublishOf
  <2>5. PhaseOf(new) = "taken" /\ new.catalog = catalog /\ new.unchanged = Unchanged(manifest)
    <3>1. /\ new.pc = "pushing" /\ new.push = "accepted" /\ new.err = "none"
          /\ new.catalog = catalog /\ new.unchanged = Unchanged(manifest)
      BY <1>0, <2>1 DEF Call
    <3> QED
      BY <3>1, Phases
  <2>6. PublishOf(new) = [phase |-> "taken", catalog |-> Declared(catalog),
                          unchanged |-> (held = Declared(catalog))]
    BY <2>3, <2>5 DEF PublishOf
  <2>7. Publishes' = [Publishes EXCEPT ![d] = PublishOf(new)]
    BY <2>2, PublishSet
  <2>8. Contract!Publish("taken", Publishes[d].catalog, held = Publishes[d].catalog)
          = PublishOf(new)
    BY <2>4, <2>6 DEF Contract!Publish
  <2>9. Contract!Move(d, "open", Contract!Publish("taken", Publishes[d].catalog,
                                                  held = Publishes[d].catalog))
    BY <2>4, <2>7, <2>8 DEF Contract!Move, Publishes
  <2>10. held' = Publishes[d].catalog /\ Strays' = Strays
    BY <2>2, <2>3, <2>4 DEF Strays
  <2>11. Contract!TakePlace(d)
    BY <2>9, <2>10 DEF Contract!TakePlace, Publishes, Strays
  <2> QED
    BY <2>11 DEF Contract!Next
<1>4. CASE Refuse(d)
  <2> DEFINE new == [calls[d] EXCEPT !.push = "error status"]
  <2>1. /\ calls[d].pc = "pushing" /\ calls[d].push = "none" /\ calls[d].err = "none"
        /\ calls[d].unchanged = FALSE
    BY <1>0, <1>4 DEF Refuse, Call, CallOK
  <2>2. Publishes[d].phase = "open"
    BY <1>0, <2>1, Phases DEF PublishOf
  <2>3. PublishOf(new) = [phase |-> "rejected", catalog |-> None, unchanged |-> FALSE]
    <3>1. /\ new.pc = "pushing" /\ new.push = "error status"
          /\ new.err = "none" /\ new.unchanged = FALSE
      BY <1>0, <2>1 DEF Call
    <3>2. PhaseOf(new) = "rejected"
      BY <3>1, Phases
    <3> QED
      BY <3>1, <3>2 DEF PublishOf
  <2>4. Set(d, new) /\ UNCHANGED <<held, Strays>>
    BY <1>4 DEF Refuse, Strays
  <2> QED
    BY <2>2, <2>3, <2>4, PublishSet, RejectLemma
<1>5. CASE Lose(d)
  <2>1. /\ calls[d].pc = "pushing" /\ calls[d].err = "none"
        /\ calls[d].push \in {"none", "accepted"}
        /\ held' = held
        /\ strays' = strays \/ (calls[d].push = "none" /\ strays' = strays \cup {calls[d].catalog})
    BY <1>0, <1>5 DEF Lose, CallOK
  <2>2. /\ calls[d].push = "none" =>
             Publishes[d].phase = "open" /\ Publishes[d].catalog = Declared(calls[d].catalog)
        /\ calls[d].push = "accepted" => Publishes[d].phase = "taken"
    <3>1. /\ calls[d].push = "none" => PhaseOf(calls[d]) = "open"
          /\ calls[d].push = "accepted" => PhaseOf(calls[d]) = "taken"
      BY <2>1, Phases
    <3> QED
      BY <1>0, <3>1 DEF PublishOf
  <2>3. \/ UNCHANGED Strays
        \/ Publishes[d].phase = "open" /\ Strays' = Strays \cup {Publishes[d].catalog}
    <3>1. CASE strays' = strays
      BY <3>1 DEF Strays
    <3>2. CASE calls[d].push = "none" /\ strays' = strays \cup {calls[d].catalog}
      <4>1. Strays' = Strays \cup {Declared(calls[d].catalog)}
        BY <3>2 DEF Strays
      <4> QED
        BY <2>2, <3>2, <4>1
    <3> QED
      BY <2>1, <3>1, <3>2
  <2>4. PICK state \in {"no answer", "error status", "unreadable"} :
          Set(d, [calls[d] EXCEPT !.push = state, !.unchanged = FALSE])
    BY <1>5 DEF Lose
  <2> DEFINE new == [calls[d] EXCEPT !.push = state, !.unchanged = FALSE]
  <2>5. PublishOf(new) = [phase |-> "rejected", catalog |-> None, unchanged |-> FALSE]
    <3>1. /\ new.pc = "pushing" /\ new.push = state /\ state \notin {"none", "accepted"}
          /\ new.err = "none" /\ new.unchanged = FALSE
      BY <1>0, <2>1 DEF Call
    <3>2. PhaseOf(new) = "rejected"
      BY <3>1, Phases
    <3> QED
      BY <3>1, <3>2 DEF PublishOf
  <2>6. Publishes' = [Publishes EXCEPT ![d] =
                        [phase |-> "rejected", catalog |-> None, unchanged |-> FALSE]]
    BY <2>4, <2>5, PublishSet
  <2>7. Publishes[d].phase \in {"open", "taken"}
    BY <2>1, <2>2
  <2> QED
    BY <2>1, <2>3, <2>6, <2>7, RejectLemma
<1>6. CASE Receive(d)
  <2>1. calls[d].pc = "pushing" /\ calls[d].push # "none" /\ UNCHANGED <<held, strays>>
        /\ Return(d, ErrorOf(calls[d].push)) /\ calls[d].err = "none"
    BY <1>0, <1>6 DEF Receive, CallOK
  <2>2. CASE calls[d].push = "accepted"
    <3>1. Return(d, "nil")
      BY <2>1, <2>2 DEF ErrorOf
    <3> DEFINE published == [phase |-> "published", catalog |-> None,
                             unchanged |-> calls[d].unchanged]
    <3>2. Publishes[d].phase = "taken" /\ Publishes[d].unchanged = calls[d].unchanged
      BY <1>0, <2>1, <2>2, Phases DEF PublishOf
    <3>3. Contract!Publish("published", None, Publishes[d].unchanged) = published
      BY <3>2 DEF Contract!Publish
    <3>4. (("nil" = "nil") /\ calls[d].unchanged) = calls[d].unchanged
      BY <1>0 DEF Call
    <3>5. Publishes' = [Publishes EXCEPT ![d] = published]
      BY <3>1, <3>4, ReturnPublish
    <3>6. Contract!Move(d, "taken", Contract!Publish("published", None, Publishes[d].unchanged))
      BY <3>2, <3>3, <3>5 DEF Contract!Move, Publishes
    <3>7. Contract!Succeed(d)
      BY <2>1, <3>6 DEF Contract!Succeed, Publishes, Strays
    <3> QED
      BY <3>7 DEF Contract!Next
  <2>3. CASE calls[d].push # "accepted"
    <3>1. Return(d, "ErrManifestRejected")
      BY <2>1, <2>3 DEF ErrorOf
    <3>2. calls[d].unchanged = FALSE /\ PhaseOf(calls[d]) = "rejected"
      BY <1>0, <2>1, <2>3 DEF PhaseOf, CallOK, Call
    <3>3. Publishes[d] = [phase |-> "rejected", catalog |-> None, unchanged |-> FALSE]
      BY <1>0, <3>2 DEF PublishOf
    <3>4. (("ErrManifestRejected" = "nil") /\ calls[d].unchanged) = FALSE
      OBVIOUS
    <3>5. Publishes' = Publishes
      BY <1>0, <3>1, <3>3, <3>4, ReturnPublish DEF Publishes
    <3> QED
      BY <2>1, <3>5 DEF Strays
  <2> QED
    BY <2>2, <2>3
<1>7. CASE AppResumes(d)
  <2>1. calls[d].pc = "returned" /\ Set(d, NoCall) /\ UNCHANGED <<held, strays>>
        /\ calls[d].err # "none"
    BY <1>0, <1>7 DEF AppResumes, CallOK
  <2>2. Publishes[d].phase \in {"published", "refused", "rejected"}
    BY <1>0, <2>1 DEF PublishOf, PhaseOf
  <2>3. PublishOf(NoCall) = Contract!NoPublish
    BY DEF PublishOf, PhaseOf, NoCall, Contract!NoPublish, Contract!Publish
  <2>4. Publishes' = [Publishes EXCEPT ![d] = Contract!NoPublish]
    BY <2>1, <2>3, PublishSet
  <2>5. Contract!Resume(d)
    BY <2>1, <2>2, <2>4 DEF Contract!Resume, Publishes, Strays
  <2> QED
    BY <2>5 DEF Contract!Next
<1> QED
  BY <1>1, <1>2, <1>3, <1>4, <1>5, <1>6, <1>7

(* manifest.go 256-265: for any deploys and catalogs, publishing over a    *)
(* network that loses requests and answers implements its contract.        *)
THEOREM Refinement == Spec => ImplementsContract
<1>1. Init => Contract!Init
  BY DEF Init, Contract!Init, Contract!NoPublish, Contract!Publish, PublishOf, PhaseOf, NoCall
<1>2. Inv /\ [Next]_vars => [Contract!Next]_Contract!vars
  <2> SUFFICES ASSUME Inv, [Next]_vars
               PROVE  Contract!Next \/ UNCHANGED <<held, Publishes, Strays>>
    BY DEF Contract!vars, Publishes, Strays
  <2>1. CASE LateArrival
    <3>1. PICK catalog \in strays :
            Apply(ManifestOf(catalog)) /\ strays' = strays \ {catalog} /\ UNCHANGED calls
      BY <2>1 DEF LateArrival
    <3>2. catalog \in Catalogs /\ held' = Declared(catalog)
      BY <3>1, ApplyIsDeclared DEF Inv, TypeOK
    <3>3. Strays' \in {Strays, Strays \ {Declared(catalog)}} /\ Declared(catalog) \in Strays
      BY <3>1 DEF Strays
    <3>4. Publishes' = Publishes
      BY <3>1 DEF Publishes
    <3>5. Contract!Stray
      BY <3>2, <3>3, <3>4 DEF Contract!Stray, Strays, Publishes
    <3> QED
      BY <3>5 DEF Contract!Next
  <2>2. CASE UNCHANGED vars
    BY <2>2 DEF vars, Publishes, Strays
  <2> QED
    BY <2>1, <2>2, StepRefines DEF Next
<1> QED
  BY <1>1, <1>2, Invariance, PTL DEF Spec, ImplementsContract, Contract!Spec
=============================================================================
