---------------------------- MODULE LiveSyncProofs ----------------------------
(***************************************************************************)
(* What live sync promises about the instance tree and about Studio, for   *)
(* every set of paths and contents and any number of changes.              *)
(***************************************************************************)
EXTENDS LiveSync, FiniteSetTheorems, SequenceTheorems, TLAPS

-----------------------------------------------------------------------------
(* Numbers and paths.                                                      *)

\* The least-number principle, for sets.
LEMMA LeastNumber ==
  ASSUME NEW S \in SUBSET Nat, S # {}
  PROVE  \E m \in S : \A n \in S : m <= n
<1> DEFINE T == {1..n : n \in S}
<1>1. \A n \in Nat : IsFiniteSet(1..n)
  BY FS_Interval
<1>2. T \subseteq FiniteSubsetsOf(Nat) /\ T # {}
  <2>1. \A n \in S : 1..n \in SUBSET Nat /\ IsFiniteSet(1..n)
    BY <1>1
  <2>2. QED BY <2>1 DEF FiniteSubsetsOf
<1>3. PICK x \in T : \A y \in T : ~(<<y, x>> \in StrictSubsetOrdering(Nat))
  <2>1. IsWellFoundedOn(StrictSubsetOrdering(Nat), FiniteSubsetsOf(Nat))
    BY FS_StrictSubsetOrderingWellFounded
  <2> HIDE DEF T
  <2>2. QED BY <1>2, <2>1, WFMin
<1>4. PICK m \in S : x = 1..m
  OBVIOUS
<1>5. ASSUME NEW n \in S, ~(m <= n) PROVE FALSE
  <2>1. 1..n \subseteq 1..m /\ m \in 1..m /\ m \notin 1..n
    BY <1>5
  <2>2. <<1..n, 1..m>> \in StrictSubsetOrdering(Nat)
    BY <2>1 DEF StrictSubsetOrdering
  <2>3. QED BY <2>2, <1>3, <1>4
<1>6. QED BY <1>5

\* A bounded set of numbers has a greatest one.
LEMMA GreatestNumber ==
  ASSUME NEW b \in Nat, NEW S \in SUBSET (0..b), S # {}
  PROVE  \E m \in S : \A n \in S : n <= m
<1> DEFINE T == {b - n : n \in S}
<1>1. T \in SUBSET Nat /\ T # {}
  <2>1. \A n \in S : n \in 0..b /\ b - n \in Nat
    OBVIOUS
  <2>2. QED BY <2>1
<1>2. PICK k \in T : \A n \in T : k <= n
  BY <1>1, LeastNumber
<1>3. PICK m \in S : k = b - m
  OBVIOUS
<1>4. \A n \in S : b - m <= b - n
  BY <1>2, <1>3
<1>5. \A n \in S : n <= m
  <2>1. \A n \in S : n \in 0..b
    OBVIOUS
  <2>2. m \in 0..b
    BY <2>1
  <2>3. ASSUME NEW n \in S PROVE n <= m
    <3>1. n \in 0..b /\ b - m <= b - n
      BY <1>4, <2>1
    <3>2. QED BY <2>2, <3>1
  <2>4. QED BY <2>3
<1>6. QED BY <1>5

\* A path is a sequence of names; its prefixes are too.
LEMMA Prefixes ==
  ASSUME NEW p \in Seq(STRING), NEW n \in 0..Len(p)
  PROVE  /\ SubSeq(p, 1, n) \in Seq(STRING)
         /\ Len(SubSeq(p, 1, n)) = n
         /\ \A i \in 1..n : SubSeq(p, 1, n)[i] = p[i]
<1>1. \A i \in 1..n : p[i] \in STRING
  BY LenProperties, ElementOfSeq
<1>2. n \in Int /\ 1 \in Int
  BY LenProperties
<1>3. QED BY <1>1, <1>2, SubSeqProperties

\* The sequences that start a path.
LEMMA PrefixIs ==
  ASSUME NEW p \in Seq(STRING), NEW q \in Seq(STRING), Len(q) <= Len(p)
  PROVE  SubSeq(p, 1, Len(q)) = q <=> \A i \in 1..Len(q) : p[i] = q[i]
<1>1. Len(q) \in 0..Len(p)
  BY LenProperties
<1>2. /\ SubSeq(p, 1, Len(q)) \in Seq(STRING)
      /\ Len(SubSeq(p, 1, Len(q))) = Len(q)
      /\ \A i \in 1..Len(q) : SubSeq(p, 1, Len(q))[i] = p[i]
  BY <1>1, Prefixes
<1>3. QED BY <1>2, SeqEqual

Place == Path \union {Root}

\* Places are sequences of names, and the root has none.
LEMMA Places ==
  /\ Place \subseteq Seq(STRING)
  /\ \A p \in Place : Len(p) \in Nat
  /\ Len(Root) = 0
  /\ \A p \in Path : Len(p) > 0
<1>1. Place \subseteq Seq(STRING) /\ Len(Root) = 0
  BY PathAssumption, EmptySeq DEF Place, Root
<1>2. QED BY <1>1, PathAssumption, EmptySeq, LenProperties DEF Place, Root

\* What is below a place has its names and more.
LEMMA BelowIs ==
  ASSUME NEW q \in Place, NEW p
  PROVE  p \in Below[q] <=> p \in Path /\ Len(p) > Len(q) /\ \A i \in 1..Len(q) : p[i] = q[i]
<1>1. Below[q] = {r \in Path : Len(r) > Len(q) /\ SubSeq(r, 1, Len(q)) = q}
  BY DEF Below, Place
<1>2. ASSUME p \in Path, Len(p) > Len(q)
      PROVE  SubSeq(p, 1, Len(q)) = q <=> \A i \in 1..Len(q) : p[i] = q[i]
  <2>1. p \in Seq(STRING) /\ q \in Seq(STRING) /\ Len(q) <= Len(p)
    BY <1>2, Places DEF Place
  <2>2. QED BY <2>1, PrefixIs
<1>3. QED BY <1>1, <1>2

\* The parent of a path has its names but the last.
LEMMA ParentIs ==
  ASSUME NEW p \in Path
  PROVE  /\ Parent(p) \in Place
         /\ Len(Parent(p)) = Len(p) - 1
         /\ \A i \in 1..(Len(p) - 1) : Parent(p)[i] = p[i]
<1>1. p \in Seq(STRING) /\ Len(p) - 1 \in 0..Len(p)
  BY Places DEF Place
<1>2. QED BY <1>1, Prefixes, PathAssumption DEF Parent, Place

\* Two places with the same names are the same.
LEMMA PlacesEqual ==
  ASSUME NEW p \in Place, NEW q \in Place, Len(p) = Len(q), \A i \in 1..Len(p) : p[i] = q[i]
  PROVE  p = q
BY Places, SeqEqual

\* Being below is a strict order that follows parents.
LEMMA BelowIsTransitive ==
  ASSUME NEW q \in Place, NEW p \in Below[q], NEW r \in Below[p]
  PROVE  r \in Below[q]
<1>1. p \in Path /\ Len(p) > Len(q) /\ \A i \in 1..Len(q) : p[i] = q[i]
  BY BelowIs
<1>2. r \in Path /\ Len(r) > Len(p) /\ \A i \in 1..Len(p) : r[i] = p[i]
  BY <1>1, BelowIs DEF Place
<1>3. Len(p) \in Nat /\ Len(q) \in Nat /\ Len(r) \in Nat
  BY <1>1, <1>2, Places DEF Place
<1>4. Len(r) > Len(q) /\ \A i \in 1..Len(q) : r[i] = q[i]
  BY <1>1, <1>2, <1>3
<1>5. QED BY <1>2, <1>4, BelowIs

\* A path is below its parent.
LEMMA BelowParent ==
  ASSUME NEW p \in Path
  PROVE  p \in Below[Parent(p)]
<1>1. Len(p) \in Nat
  BY Places DEF Place
<1>2. QED BY <1>1, ParentIs, BelowIs

\* The parent of what is below a place is that place or below it.
LEMMA ParentBelow ==
  ASSUME NEW q \in Place, NEW p \in Below[q]
  PROVE  p \in Path /\ (Parent(p) = q \/ Parent(p) \in Below[q])
<1>1. p \in Path /\ Len(p) > Len(q) /\ \A i \in 1..Len(q) : p[i] = q[i]
  BY BelowIs
<1>2. Len(p) \in Nat /\ Len(q) \in Nat /\ Len(p) > 0
  BY <1>1, Places DEF Place
<1>3. /\ Parent(p) \in Place /\ Len(Parent(p)) = Len(p) - 1
      /\ \A i \in 1..(Len(p) - 1) : Parent(p)[i] = p[i]
  BY <1>1, ParentIs
<1>4. CASE Len(p) = Len(q) + 1
  <2>1. Len(Parent(p)) = Len(q) /\ \A i \in 1..Len(Parent(p)) : Parent(p)[i] = q[i]
    BY <1>1, <1>2, <1>3, <1>4
  <2>2. QED BY <1>1, <1>3, <2>1, PlacesEqual
<1>5. CASE Len(p) > Len(q) + 1
  <2>1. Len(Parent(p)) > Len(q) /\ \A i \in 1..Len(q) : Parent(p)[i] = q[i]
    BY <1>1, <1>2, <1>3, <1>5
  <2>2. Parent(p) \in Path
    BY <1>2, <1>3, <2>1, Places DEF Place
  <2>3. QED BY <1>1, <2>1, <2>2, BelowIs
<1>6. QED BY <1>1, <1>2, <1>4, <1>5

\* Nothing is below itself, and everything is below the root.
LEMMA BelowBounds ==
  /\ \A p \in Place : p \notin Below[p]
  /\ Below[Root] = Path
<1>1. \A p \in Place : p \notin Below[p]
  BY BelowIs, Places
<1>2. \A p \in Path : p \in Below[Root]
  <2>1. Root \in Place /\ Len(Root) = 0 /\ \A p \in Path : Len(p) > 0
    BY Places DEF Place
  <2>2. \A i \in 1..Len(Root) : FALSE
    BY <2>1
  <2>3. QED BY <2>1, <2>2, BelowIs
<1>3. QED BY <1>1, <1>2, BelowIs DEF Place

\* Of two places above a path one is above the other.
LEMMA AboveOrBelow ==
  ASSUME NEW q \in Place, NEW r \in Place, NEW p \in Path,
         p = q \/ p \in Below[q], p \in Below[r]
  PROVE  r = q \/ r \in Below[q] \/ q \in Below[r]
<1>1. /\ p \in Place
      /\ Len(p) >= Len(q) /\ \A i \in 1..Len(q) : p[i] = q[i]
      /\ Len(p) > Len(r) /\ \A i \in 1..Len(r) : p[i] = r[i]
      /\ Len(p) \in Nat /\ Len(q) \in Nat /\ Len(r) \in Nat
  BY BelowIs, Places DEF Place
<1>2. CASE Len(q) = Len(r)
  <2>1. \A i \in 1..Len(q) : q[i] = r[i]
    BY <1>1, <1>2
  <2>2. QED BY <1>2, <2>1, PlacesEqual
<1>3. CASE Len(q) < Len(r)
  <2>1. \A i \in 1..Len(q) : r[i] = q[i]
    BY <1>1, <1>3
  <2>2. r \in Path
    BY <1>1, <1>3, Places DEF Place
  <2>3. QED BY <1>3, <2>1, <2>2, BelowIs
<1>4. CASE Len(r) < Len(q)
  <2>1. \A i \in 1..Len(r) : q[i] = r[i]
    BY <1>1, <1>4
  <2>2. q \in Path
    BY <1>1, <1>4, Places DEF Place
  <2>3. QED BY <1>4, <2>1, <2>2, BelowIs
<1>5. QED BY <1>1, <1>2, <1>3, <1>4

\* A place and everything below it.
At(q) == {q} \union Below[q]

\* Of the paths from q down to p that are not in a set there is a topmost one.
LEMMA TopmostMissing ==
  ASSUME NEW q \in Place, NEW p \in Below[q], NEW seen, p \notin seen
  PROVE  \E r \in Below[q] : /\ r \notin seen
                             /\ p \in At(r)
                             /\ Parent(r) = q \/ Parent(r) \in seen
<1> DEFINE A == {r \in Below[q] : r \notin seen /\ p \in At(r)}
           S == {Len(r) : r \in A}
<1>1. Below[q] \subseteq Path
  BY BelowIs
<1>2. S \in SUBSET Nat /\ S # {}
  <2>1. \A r \in A : Len(r) \in Nat
    BY <1>1, Places DEF Place
  <2>2. p \in A
    BY DEF At
  <2>3. QED BY <2>1, <2>2
<1>3. PICK m \in S : \A n \in S : m <= n
  BY <1>2, LeastNumber
<1>4. PICK r \in A : Len(r) = m
  OBVIOUS
<1>5. r \in Path /\ r \in Below[q] /\ r \notin seen /\ p \in At(r)
  BY <1>1
<1>6. Parent(r) = q \/ Parent(r) \in Below[q]
  BY <1>5, ParentBelow
<1>7. ASSUME Parent(r) # q, Parent(r) \notin seen PROVE FALSE
  <2>1. Parent(r) \in Below[q] /\ Parent(r) \in Place
    BY <1>5, <1>6, <1>7, ParentIs
  <2>2. p \in At(Parent(r))
    BY <1>5, <2>1, BelowParent, BelowIsTransitive DEF At
  <2>3. Len(Parent(r)) \in S
    BY <2>1, <2>2, <1>7
  <2>4. Len(Parent(r)) = Len(r) - 1 /\ Len(r) \in Nat
    BY <1>5, ParentIs, Places DEF Place
  <2>5. QED BY <2>3, <2>4, <1>3, <1>4
<1>8. QED BY <1>5, <1>7

-----------------------------------------------------------------------------
(* What the ChangeProcessor does to the tree.                              *)

\* Fresh referents exist, are fresh, and differ.
LEMMA FreshIdsAreFresh ==
  ASSUME NEW new, IsFiniteSet(new), NEW from \in Nat
  PROVE  LET ids == FreshIds(new, from) IN
         /\ Cardinality(new) \in Nat
         /\ ids \in [new -> from..(from + Cardinality(new) - 1)]
         /\ \A p, q \in new : ids[p] = ids[q] => p = q
         /\ Cardinality({ids[p] : p \in new}) = Cardinality(new)
<1> DEFINE k == Cardinality(new)
           F == [new -> from..(from + k - 1)]
           ids == FreshIds(new, from)
<1>1. k \in Nat /\ ExistsBijection(1..k, new)
  BY FS_CardinalityType
<1>2. PICK f \in Bijection(1..k, new) : TRUE
  BY <1>1 DEF ExistsBijection
<1>3. f \in [1..k -> new] /\ (\A p \in new : \E i \in 1..k : f[i] = p)
  BY <1>2 DEF Bijection, Injection, Surjection
<1> HIDE DEF k
<1>4. \E g \in F : \A p, q \in new : g[p] = g[q] => p = q
  <2> DEFINE at(p) == CHOOSE i \in 1..k : f[i] = p
             g == [p \in new |-> from - 1 + at(p)]
  <2>1. \A p \in new : at(p) \in 1..k /\ f[at(p)] = p
    BY <1>3
  <2> HIDE DEF at
  <2>2. g \in F
    BY <2>1, <1>1
  <2>3. \A p, q \in new : g[p] = g[q] => p = q
    <3>1. \A p, q \in new : g[p] = g[q] => at(p) = at(q)
      BY <2>1, <1>1
    <3>2. QED BY <3>1, <2>1
  <2>4. QED BY <2>2, <2>3
<1>5. ids \in F /\ \A p, q \in new : ids[p] = ids[q] => p = q
  BY <1>4 DEF FreshIds, k
<1>6. Cardinality({ids[p] : p \in new}) = k
  <2> HIDE DEF ids
  <2> DEFINE T == {ids[p] : p \in new}
  <2>1. ids \in [new -> T]
    BY <1>5
  <2>2. ids \in Injection(new, T) /\ ids \in Surjection(new, T)
    BY <1>5, <2>1 DEF Injection, Surjection, IsInjective
  <2>3. ExistsBijection(new, T)
    BY <2>2 DEF ExistsBijection, Bijection
  <2>4. QED BY <2>3, FS_Bijection DEF k
<1>7. QED BY <1>1, <1>5, <1>6 DEF k

\* The disk is a directory tree of finitely many files.
DiskInv == /\ disk \in [Path -> Content \union {"dir", None}]
           /\ IsFiniteSet(Existing)
           /\ \A p \in Existing : disk[p] \in Holds(p)
           /\ \A p \in Existing, r \in Path : p \in Below[r] => r \in Existing

\* The tree is one too, with one referent for each instance.
TreeInv == /\ nextId \in Nat \ {0}
           /\ tree \in [Path -> Instance \union {None}]
           /\ \A p \in InTree : /\ tree[p].id \in 1..(nextId - 1)
                                /\ tree[p].props["Source"] \in Holds(p)
                                /\ tree[p].props["Other"] \in OtherValue
           /\ \A p, q \in InTree : tree[p].id = tree[q].id => p = q
           /\ \A p \in InTree, r \in Path : p \in Below[r] => r \in InTree

\* The event being processed is about an instance of the tree and has listed
\* whole directories.
WorkInv == work # None =>
             /\ work.path \in Place
             /\ work.path = Root \/ work.path \in InTree
             /\ work.listed \in SUBSET Path
             /\ work.listed \subseteq At(work.path)
             /\ \A p \in work.listed, r \in At(work.path) \intersect Path :
                  p \in Below[r] => r \in work.listed

Seen == work.listed \intersect Existing

\* Computing a patch and applying it makes the part of the tree the event is
\* about exactly what was seen of the disk, and leaves the rest alone
\* (compute_patch_set and apply_patch_set).
LEMMA AppliedIsExact ==
  ASSUME DiskInv, TreeInv, WorkInv, work # None
  PROVE  LET q == work.path
             new == Seen \ InTree
             ids == FreshIds(new, nextId)
             r == Applied(q, Seen)
         IN  /\ r.patch.added = {ids[p] : p \in new}
             /\ r.patch.updated = ChangedUpdates(Seen)
             /\ r.patch.removed = {tree[p].id : p \in RemovedPaths(q, Seen)}
             /\ \A p \in RemovedPaths(q, Seen) :
                  p \in InTree /\ p \in At(q) /\ At(p) \intersect Seen = {}
             /\ \A p \in (InTree \intersect At(q)) \ Seen :
                  \E s \in RemovedPaths(q, Seen) : p \in At(s)
             /\ r.tree = [p \in Path |->
                            IF p \in new THEN [id |-> ids[p], props |-> PropsOf(disk[p])]
                            ELSE IF p \in Seen THEN [tree[p] EXCEPT !.props = PropsOf(disk[p])]
                            ELSE IF p \in At(q) THEN None
                            ELSE tree[p]]
<1> DEFINE q == work.path
           added == AddedPaths(q, Seen)
           top == RemovedPaths(q, Seen)
           gone == UNION {{p} \union Below[p] : p \in top}
           ids == FreshIds(Seen \ InTree, nextId)
           r == Applied(q, Seen)
<1>1. /\ q \in Place /\ (q = Root \/ q \in InTree)
      /\ Seen \subseteq Path /\ Seen \subseteq At(q)
      /\ \A p \in Seen, s \in At(q) \intersect Path : p \in Below[s] => s \in Seen
  BY DEF WorkInv, Seen, DiskInv, Existing
<1>2. \A p \in At(q) \intersect Seen : q = Root \/ q \in Seen
  BY <1>1 DEF At, Place
<1>3. added = Seen \ InTree
  BY <1>1, <1>2 DEF AddedPaths
<1>4. \A p \in Path : p \in gone <=> \E s \in top : p \in At(s)
  BY DEF At
<1>5. \A s \in top : s \in At(q) /\ s \notin Seen /\ s \in Path
  <2>1. Below[q] \subseteq Path
    BY <1>1, BelowIs
  <2>2. QED BY <1>1, <2>1 DEF RemovedPaths, At, Place, InTree
<1>6. \A p \in gone \intersect Path : p \in At(q)
  BY <1>1, <1>4, <1>5, BelowIsTransitive DEF At, Place
<1>7. \A p \in Seen : p \notin gone
  BY <1>1, <1>4, <1>5 DEF At, Place
<1>8. ASSUME NEW p \in At(q) \intersect Path, p \notin Seen, tree[p] # None PROVE p \in gone
  <2>1. CASE q # Root /\ q \notin Seen
    <3>1. q \in top
      BY <2>1 DEF RemovedPaths
    <3>2. QED BY <1>4, <1>8, <3>1
  <2>2. CASE q = Root \/ q \in Seen
    <3>1. p \in Below[q]
      BY <2>2, <1>8, PathAssumption DEF At
    <3>2. PICK s \in Below[q] : s \notin Seen /\ p \in At(s) /\ (Parent(s) = q \/ Parent(s) \in Seen)
      BY <1>1, <1>8, <3>1, TopmostMissing
    <3>3. s \in InTree
      BY <1>1, <1>8, <3>2, BelowIs DEF TreeInv, InTree, At
    <3>4. s \in top
      BY <2>2, <3>2, <3>3 DEF RemovedPaths
    <3>5. QED BY <1>4, <1>8, <3>2, <3>4
  <2>3. QED BY <2>1, <2>2
<1>9. r.tree = [p \in Path |->
                  IF p \in added THEN [id |-> ids[p], props |-> PropsOf(disk[p])]
                  ELSE IF p \in gone THEN None
                  ELSE IF p \in Seen THEN [tree[p] EXCEPT !.props = PropsOf(disk[p])]
                  ELSE tree[p]]
  BY <1>3 DEF Applied
<1>10. /\ r.patch.added = {ids[p] : p \in Seen \ InTree}
       /\ r.patch.updated = ChangedUpdates(Seen)
       /\ r.patch.removed = {tree[p].id : p \in top}
  BY <1>3 DEF Applied
<1> HIDE DEF added, gone, top, ids, r, q
<1>11. ASSUME NEW p \in Path, p \notin Seen
       PROVE  /\ p \in At(q) => IF p \in gone THEN TRUE ELSE tree[p] = None
              /\ p \notin At(q) => p \notin gone
  BY <1>6, <1>8, <1>11
<1>12. r.tree = [p \in Path |->
                   IF p \in Seen \ InTree THEN [id |-> ids[p], props |-> PropsOf(disk[p])]
                   ELSE IF p \in Seen THEN [tree[p] EXCEPT !.props = PropsOf(disk[p])]
                   ELSE IF p \in At(q) THEN None
                   ELSE tree[p]]
  BY <1>3, <1>7, <1>9, <1>11
<1>13. \A p \in top : p \in InTree /\ p \in At(q) /\ At(p) \intersect Seen = {}
  <2>1. \A p \in top : p \in InTree
    BY <1>1 DEF top, RemovedPaths
  <2>2. QED BY <1>1, <1>4, <1>5, <1>7, <2>1
<1>14. \A p \in (InTree \intersect At(q)) \ Seen : \E s \in top : p \in At(s)
  BY <1>4, <1>8 DEF InTree
<1>15. QED BY <1>10, <1>12, <1>13, <1>14 DEF ids, r, q, top

\* apply_patches starts at the nearest instance at or above the event's path.
LEMMA NearestKnownIs ==
  ASSUME NEW p \in Path
  PROVE  LET q == NearestKnown(p) IN
         q \in Place /\ (q = Root \/ q \in InTree) /\ p \in At(q)
<1> DEFINE kn(q) == q = Root \/ (q \in Path /\ tree[q] # None)
           S == {n \in 0..Len(p) : kn(SubSeq(p, 1, n))}
           n0 == CHOOSE n \in 0..Len(p) :
                   /\ kn(SubSeq(p, 1, n))
                   /\ \A m \in (n + 1)..Len(p) : ~kn(SubSeq(p, 1, m))
           q == SubSeq(p, 1, n0)
<1>1. p \in Seq(STRING) /\ Len(p) \in Nat /\ p \in Place
  BY Places DEF Place
<1>2. SubSeq(p, 1, 0) = Root
  BY SubSeqEmpty DEF Root
<1>3. 0 \in S
  BY <1>1, <1>2
<1>4. PICK m \in S : \A n \in S : n <= m
  <2>1. S \in SUBSET (0..Len(p)) /\ S # {}
    BY <1>3
  <2> HIDE DEF S
  <2>2. QED BY <1>1, <2>1, GreatestNumber
<1>5. /\ m \in 0..Len(p) /\ kn(SubSeq(p, 1, m))
      /\ \A n \in (m + 1)..Len(p) : ~kn(SubSeq(p, 1, n))
  <2>1. m \in 0..Len(p) /\ kn(SubSeq(p, 1, m))
    OBVIOUS
  <2>2. ASSUME NEW n \in (m + 1)..Len(p), kn(SubSeq(p, 1, n)) PROVE FALSE
    <3>1. n \in S
      BY <1>1, <2>1, <2>2
    <3>2. n <= m /\ n \in Nat /\ m \in Nat /\ n >= m + 1
      BY <1>1, <1>4, <2>1, <2>2, <3>1
    <3>3. QED BY <3>2
  <2>3. QED BY <2>1, <2>2
<1> HIDE DEF kn
<1>6. n0 \in 0..Len(p) /\ kn(SubSeq(p, 1, n0))
  BY <1>5
<1>7. NearestKnown(p) = q
  BY DEF NearestKnown, kn
<1> HIDE DEF n0
<1>8. q \in Place /\ (q = Root \/ q \in InTree)
  BY <1>6 DEF kn, Place, InTree
<1>9. p \in At(q)
  <2>1. CASE n0 = Len(p)
    BY <1>1, <2>1, SubSeqFull DEF At
  <2>2. CASE n0 < Len(p)
    <3>1. Len(q) = n0 /\ \A i \in 1..n0 : q[i] = p[i]
      BY <1>1, <1>6, Prefixes
    <3> HIDE DEF q
    <3>2. QED BY <1>8, <2>2, <3>1, BelowIs DEF At
  <2>3. QED BY <1>1, <1>6, <2>1, <2>2
<1>10. QED BY <1>7, <1>8, <1>9

-----------------------------------------------------------------------------
(* Types.                                                                  *)

\* What the plugin is shown of an instance, and what it is sent.
Shown == [parent : Nat, path : Path, props : [Prop -> Value]]
Map == UNION {[D -> Shown] : D \in SUBSET Nat}
Message == [removed : SUBSET Nat, added : Map, updated : SUBSET Update]

\* Wherever the plugin has heard of a referent, it stands for the path it has
\* in the tree, if it is still there, and for no later instance.
Tracks(map) == \A id \in DOMAIN map :
                 /\ id < nextId
                 /\ \A p \in Path : tree[p] # None /\ tree[p].id = id => p = map[id].path

WireTracks == \A i \in 1..Len(wire) : Tracks(wire[i].added)

\* A write of a source is for a file.
WriteInv == \A w \in writes :
              /\ w.id \in Nat /\ w.id < nextId
              /\ \/ w.prop = "Source" /\ w.value \in Content
                 \/ w.prop = "Other" /\ w.value \in OtherValue
              /\ w.prop = "Source" =>
                   \A p \in Path : tree[p] # None /\ tree[p].id = w.id => p \notin Folder

LogInv == /\ unsent # None => unsent \in Patch
          /\ messages \in Seq(Patch)
          /\ cursor \in 0..Len(messages)

ClientInv == /\ client \in {"away", "reading", "confirming", "live"}
             /\ strays \subseteq Path
             /\ known \in Map /\ Tracks(known)
             /\ wire \in Seq(Message) /\ WireTracks

TypeInv == /\ DiskInv /\ TreeInv /\ WorkInv /\ WriteInv /\ LogInv /\ ClientInv
           /\ events \in Seq(Path)

\* The disk keeps being a directory tree when a path is written whose parent
\* is there ...
LEMMA PutKeepsDisk ==
  ASSUME DiskInv, NEW p \in Path, NEW v \in Holds(p), HasParent(p),
         disk' = [disk EXCEPT ![p] = v]
  PROVE  DiskInv'
<1>1. Holds(p) \subseteq Content \union {"dir"} /\ v # None
  BY NoneAssumption DEF Holds
<1>2. disk' \in [Path -> Content \union {"dir", None}]
  BY <1>1 DEF DiskInv
<1>3. Existing' = Existing \union {p}
  BY <1>1 DEF DiskInv, Existing
<1>4. IsFiniteSet(Existing')
  BY <1>3, FS_AddElement DEF DiskInv
<1>5. \A x \in Existing' : disk'[x] \in Holds(x)
  BY <1>3 DEF DiskInv, Existing
<1>6. ASSUME NEW r \in Path, p \in Below[r] PROVE r \in Existing
  <2>1. Parent(p) = r \/ Parent(p) \in Below[r]
    BY <1>6, ParentBelow DEF Place
  <2>2. Parent(p) # Root
    <3>1. Below[r] \subseteq Path
      BY BelowIs DEF Place
    <3>2. QED BY <2>1, <3>1, PathAssumption
  <2>3. QED BY <2>1, <2>2 DEF HasParent, DiskInv
<1>7. QED BY <1>2, <1>3, <1>4, <1>5, <1>6 DEF DiskInv

\* ... and when one is deleted with everything below it.
LEMMA DeleteKeepsDisk ==
  ASSUME DiskInv, NEW p \in Path,
         disk' = [q \in Path |-> IF q = p \/ q \in Below[p] THEN None ELSE disk[q]]
  PROVE  DiskInv'
<1>1. disk' \in [Path -> Content \union {"dir", None}]
  BY DEF DiskInv
<1>2. Existing' = Existing \ At(p)
  BY DEF Existing, At
<1>3. IsFiniteSet(Existing')
  <2>1. Existing' \in SUBSET Existing
    BY <1>2
  <2>2. QED BY <2>1, FS_Subset DEF DiskInv
<1>4. \A x \in Existing' : disk'[x] \in Holds(x)
  BY <1>2 DEF DiskInv, Existing, At
<1>5. \A x \in Existing', r \in Path : x \in Below[r] => r \in Existing'
  BY <1>2, BelowIsTransitive DEF DiskInv, At, Place
<1>6. QED BY <1>1, <1>3, <1>4, <1>5 DEF DiskInv

\* PathOf inverts the tree.
LEMMA PathOfIs ==
  ASSUME TreeInv
  PROVE  /\ \A p \in InTree : PathOf(tree[p].id) = p
         /\ \A id \in Ids : PathOf(id) \in InTree /\ tree[PathOf(id)].id = id
<1>1. ASSUME NEW p \in InTree PROVE PathOf(tree[p].id) = p
  <2>1. \E q \in InTree : tree[q].id = tree[p].id
    OBVIOUS
  <2>2. PathOf(tree[p].id) \in InTree /\ tree[PathOf(tree[p].id)].id = tree[p].id
    BY <2>1 DEF PathOf
  <2>3. QED BY <2>2 DEF TreeInv
<1>2. QED BY <1>1 DEF Ids

\* The updates of a patch are of the types the plugin can be sent: a directory
\* never changes what it is.
LEMMA ChangedUpdatesType ==
  ASSUME DiskInv, TreeInv, NEW seen \in SUBSET Existing
  PROVE  ChangedUpdates(seen) \in SUBSET Update
<1> SUFFICES ASSUME NEW u \in ChangedUpdates(seen) PROVE u \in Update
  OBVIOUS
<1>1. u \in Updates(seen) /\ tree[PathOf(u.id)].props[u.prop] # u.value
  BY DEF ChangedUpdates
<1>2. PICK p \in seen \intersect InTree, k \in Prop :
        u = [id |-> tree[p].id, prop |-> k, value |-> PropsOf(disk[p])[k]]
  BY <1>1 DEF Updates
<1>3. u.id = tree[p].id /\ u.prop = k /\ u.value = PropsOf(disk[p])[k]
  BY <1>2
<1>4. tree[p].props[k] # PropsOf(disk[p])[k]
  BY <1>1, <1>3, PathOfIs
<1>5. tree[p].id \in Nat /\ p \in Existing
  BY DEF TreeInv
<1>6. PropsOf(disk[p])[k] \in Content \union OtherValue
  <2>1. CASE k = "Other"
    BY <2>1 DEF PropsOf, Prop, OtherValue
  <2>2. CASE k = "Source"
    <3>1. PropsOf(disk[p])[k] = disk[p]
      BY <2>2 DEF PropsOf, Prop
    <3>2. disk[p] \in Holds(p) /\ tree[p].props["Source"] \in Holds(p)
      BY <1>5 DEF DiskInv, TreeInv
    <3>3. QED BY <1>4, <2>2, <3>1, <3>2 DEF Holds
  <2>3. QED BY <2>1, <2>2 DEF Prop
<1>7. QED BY <1>2, <1>5, <1>6 DEF Update

\* What a write needs to know of its target (handle_tree_event).
LEMMA WriteTarget ==
  ASSUME TypeInv, NEW w \in writes, HandleWrite(w), w.id \in Ids
  PROVE  LET p == PathOf(w.id) IN
         /\ p \in InTree /\ tree[p].id = w.id
         /\ tree' = [tree EXCEPT ![p] = [id |-> w.id,
                                         props |-> [tree[p].props EXCEPT ![w.prop] = w.value]]]
         /\ [id |-> w.id, props |-> [tree[p].props EXCEPT ![w.prop] = w.value]] \in Instance
         /\ w.prop = "Source" => w.value \in Holds(p)
<1> DEFINE p == PathOf(w.id)
<1>1. p \in InTree /\ tree[p].id = w.id /\ p \in Path
  BY PathOfIs DEF TypeInv, InTree
<1>2. tree' = [tree EXCEPT ![p].props[w.prop] = w.value]
  BY DEF HandleWrite
<1> HIDE DEF p
<1>3. tree[p] \in Instance
  BY <1>1 DEF TypeInv, TreeInv, InTree
<1>4. tree[p] = [id |-> w.id, props |-> tree[p].props]
  BY <1>1, <1>3 DEF Instance
<1>5. w.prop \in Prop /\ w.value \in Value
  BY DEF TypeInv, WriteInv, Prop, Value
<1>6. w.prop = "Source" => w.value \in Holds(p)
  BY <1>1 DEF TypeInv, WriteInv, Holds, InTree
<1>7. [tree[p].props EXCEPT ![w.prop] = w.value] \in [Prop -> Value]
  BY <1>3, <1>5 DEF Instance
<1>8. [id |-> w.id, props |-> [tree[p].props EXCEPT ![w.prop] = w.value]] \in Instance
  BY <1>1, <1>3, <1>7 DEF Instance
<1>9. tree' = [tree EXCEPT ![p] = [tree[p] EXCEPT !.props =
                                     [tree[p].props EXCEPT ![w.prop] = w.value]]]
  BY <1>2
<1>10. \A x : [tree[p] EXCEPT !.props = x] = [id |-> w.id, props |-> x]
  BY <1>4
<1>11. QED BY <1>1, <1>6, <1>8, <1>9, <1>10 DEF p

\* Every step leaves the disk a directory tree.
LEMMA DiskStep == TypeInv /\ [Next]_vars => DiskInv'
<1> SUFFICES ASSUME TypeInv, [Next]_vars PROVE DiskInv'
  OBVIOUS
<1>1. DiskInv
  BY DEF TypeInv
<1>2. CASE disk' = disk
  BY <1>1, <1>2 DEF DiskInv, Existing
<1>3. ASSUME NEW p \in Path, NEW c \in Content, WriteFile(p, c) PROVE DiskInv'
  BY <1>1, <1>3, PutKeepsDisk DEF WriteFile, Touch, Holds
<1>4. ASSUME NEW p \in Path, MakeFolder(p) PROVE DiskInv'
  BY <1>1, <1>4, PutKeepsDisk DEF MakeFolder, Touch, Holds
<1>5. ASSUME NEW p \in Path, Delete(p) PROVE DiskInv'
  BY <1>1, <1>5, DeleteKeepsDisk DEF Delete, Touch
<1>6. ASSUME NEW w \in writes, HandleWrite(w) PROVE DiskInv'
  <2>1. CASE w.id \in Ids /\ w.prop = "Source" /\ HasParent(PathOf(w.id))
    <3>1. /\ PathOf(w.id) \in Path /\ w.value \in Holds(PathOf(w.id))
      BY <1>6, <2>1, WriteTarget DEF InTree
    <3>2. disk' = [disk EXCEPT ![PathOf(w.id)] = w.value]
      BY <1>6, <2>1 DEF HandleWrite
    <3>3. QED BY <1>1, <2>1, <3>1, <3>2, PutKeepsDisk
  <2>2. CASE ~(w.id \in Ids /\ w.prop = "Source" /\ HasParent(PathOf(w.id)))
    BY <1>2, <1>6, <2>2 DEF HandleWrite
  <2>3. QED BY <2>1, <2>2
<1>7. CASE TakeEvent \/ ApplyEvent \/ SkipEvent \/ Push \/ ReadCursor \/ ReadTree \/ OpenSocket
           \/ Socket \/ ApplyMessage \/ Studio \/ UNCHANGED vars
  BY <1>2, <1>7 DEF TakeEvent, ApplyEvent, SkipEvent, Push, ReadCursor, ReadTree, OpenSocket,
       Socket, Deliver, RenderPanics, ApplyMessage, Studio, StudioEdit, vars, diskVars
<1>8. QED BY <1>3, <1>4, <1>5, <1>6, <1>7 DEF Next, Disk, Processor

\* Referents below the counter are never given out again.
IdsStay == /\ nextId <= nextId'
           /\ \A p \in Path : tree'[p] # None /\ tree'[p].id < nextId =>
                tree[p] # None /\ tree[p].id = tree'[p].id

\* Applying an event to the tree.
LEMMA ApplyKeepsTree ==
  ASSUME TypeInv, ApplyEvent
  PROVE  /\ TreeInv' /\ IdsStay
         /\ InTree' = (InTree \ At(work.path)) \union Seen
         /\ \A p \in Seen : tree'[p].props = PropsOf(disk[p])
         /\ \A p \in Path \ At(work.path) : tree'[p] = tree[p]
         /\ unsent' # None => unsent' \in Patch
<1> DEFINE q == work.path
           new == Seen \ InTree
           ids == FreshIds(new, nextId)
           r == Applied(q, Seen)
           k == Cardinality(new)
           T == [p \in Path |->
                   IF p \in new THEN [id |-> ids[p], props |-> PropsOf(disk[p])]
                   ELSE IF p \in Seen THEN [tree[p] EXCEPT !.props = PropsOf(disk[p])]
                   ELSE IF p \in At(q) THEN None
                   ELSE tree[p]]
<1>1. DiskInv /\ TreeInv /\ WorkInv /\ work # None
  BY DEF TypeInv, ApplyEvent
<1>2. /\ r.patch.added = {ids[p] : p \in new}
      /\ r.patch.updated = ChangedUpdates(Seen)
      /\ r.patch.removed = {tree[p].id : p \in RemovedPaths(q, Seen)}
      /\ r.tree = T
  BY <1>1, AppliedIsExact
<1>3. /\ tree' = T
      /\ nextId' = nextId + Cardinality({ids[p] : p \in new})
      /\ unsent' \in {None, r.patch}
      /\ UNCHANGED disk
  <2>1. /\ tree' = r.tree
        /\ nextId' = nextId + Cardinality(r.patch.added)
        /\ unsent' \in {None, r.patch}
        /\ UNCHANGED disk
    BY DEF ApplyEvent, Seen, diskVars
  <2>2. QED BY <1>2, <2>1
<1>4. /\ Seen \subseteq Existing /\ Seen \subseteq Path /\ Seen \subseteq At(q)
      /\ \A p \in Seen, s \in At(q) \intersect Path : p \in Below[s] => s \in Seen
      /\ q \in Place /\ (q = Root \/ q \in InTree)
  BY <1>1 DEF WorkInv, Seen, DiskInv, Existing
<1>5. IsFiniteSet(new)
  <2>1. new \in SUBSET Existing
    BY <1>4
  <2>2. QED BY <1>1, <2>1, FS_Subset DEF DiskInv
<1>6. /\ k \in Nat
      /\ ids \in [new -> nextId..(nextId + k - 1)]
      /\ \A x, y \in new : ids[x] = ids[y] => x = y
      /\ nextId' = nextId + k
      /\ nextId \in Nat \ {0}
  <2>1. nextId \in Nat
    BY <1>1 DEF TreeInv
  <2>2. /\ k \in Nat
        /\ ids \in [new -> nextId..(nextId + k - 1)]
        /\ \A x, y \in new : ids[x] = ids[y] => x = y
        /\ Cardinality({ids[p] : p \in new}) = k
    BY <1>5, <2>1, FreshIdsAreFresh
  <2>3. nextId \in Nat \ {0}
    BY <1>1 DEF TreeInv
  <2>4. nextId' = nextId + k
    BY <1>3, <2>2
  <2>5. QED BY <2>2, <2>3, <2>4
<1>7. \A p \in Seen : /\ disk[p] \in Holds(p)
                      /\ PropsOf(disk[p]) \in [Prop -> Value]
                      /\ PropsOf(disk[p])["Source"] = disk[p]
                      /\ PropsOf(disk[p])["Other"] = "fromDisk"
  BY <1>1, <1>4 DEF DiskInv, PropsOf, Prop, Value, Holds, OtherValue
<1> HIDE DEF ids, k, r, new, T
<1>8. \A p \in new : /\ T[p] = [id |-> ids[p], props |-> PropsOf(disk[p])]
                     /\ T[p] \in Instance /\ p \in Path
                     /\ ids[p] \in Nat /\ ids[p] >= nextId /\ ids[p] < nextId'
  <2>1. ASSUME NEW p \in new PROVE ids[p] \in Nat /\ ids[p] >= nextId /\ ids[p] < nextId'
    BY <1>6
  <2>2. \A p \in new : p \in Path /\ p \in Seen
    BY <1>4 DEF new
  <2>3. QED BY <1>7, <2>1, <2>2 DEF T, Instance
<1>9. \A p \in Seen \ new : /\ p \in InTree
                            /\ T[p] = [id |-> tree[p].id, props |-> PropsOf(disk[p])]
                            /\ T[p] \in Instance
  <2>1. ASSUME NEW p \in Seen \ new
        PROVE  p \in InTree /\ tree[p] \in Instance /\ p \in Path
    BY <1>1, <1>4, <2>1 DEF new, TreeInv, InTree
  <2>2. \A p \in Seen \ new : T[p] = [tree[p] EXCEPT !.props = PropsOf(disk[p])]
    BY <2>1 DEF T
  <2>3. QED BY <1>7, <2>1, <2>2 DEF Instance
<1>10. \A p \in Path \ Seen : T[p] = IF p \in At(q) THEN None ELSE tree[p]
  BY DEF T, new
<1>ids. ASSUME NEW p \in Seen
       PROVE  /\ tree'[p].props = PropsOf(disk[p])
              /\ p \in new => tree'[p].id = ids[p]
              /\ p \notin new => tree'[p].id = tree[p].id
  <2>1. CASE p \in new
    <3>1. tree'[p] = [id |-> ids[p], props |-> PropsOf(disk[p])]
      BY <1>3, <1>8, <2>1
    <3>2. QED BY <2>1, <3>1
  <2>2. CASE p \notin new
    <3>1. tree'[p] = [id |-> tree[p].id, props |-> PropsOf(disk[p])]
      BY <1>3, <1>9, <2>2
    <3>2. QED BY <2>2, <3>1
  <2>3. QED BY <2>1, <2>2
<1>11. InTree' = (InTree \ At(q)) \union Seen
  <2>1. \A p \in Seen : T[p] # None
    BY <1>8, <1>9, NoneAssumption
  <2>2. QED BY <1>3, <1>4, <1>10, <2>1 DEF InTree
<1>12. tree' \in [Path -> Instance \union {None}]
  <2>1. \A p \in Path : T[p] \in Instance \union {None}
    BY <1>1, <1>8, <1>9, <1>10 DEF TreeInv
  <2>2. T = [p \in Path |-> T[p]]
    BY DEF T
  <2>3. QED BY <1>3, <2>1, <2>2
<1>13. ASSUME NEW p \in InTree'
       PROVE  /\ tree'[p].id \in 1..(nextId' - 1)
              /\ tree'[p].props["Source"] \in Holds(p)
              /\ tree'[p].props["Other"] \in OtherValue
  <2>1. CASE p \in new
    <3>1. tree'[p].id = ids[p] /\ tree'[p].props = PropsOf(disk[p]) /\ p \in Seen
      BY <1>ids, <2>1 DEF new
    <3>2. ids[p] \in 1..(nextId' - 1)
      BY <1>6, <1>8, <2>1
    <3>3. QED BY <1>7, <3>1, <3>2 DEF OtherValue
  <2>2. CASE p \in Seen \ new
    <3>1. tree'[p].id = tree[p].id /\ tree'[p].props = PropsOf(disk[p]) /\ p \in InTree
      BY <1>9, <1>ids, <2>2
    <3>2. tree[p].id \in 1..(nextId' - 1)
      BY <1>1, <1>6, <3>1 DEF TreeInv
    <3>3. QED BY <1>7, <2>2, <3>1, <3>2 DEF OtherValue
  <2>3. CASE p \notin Seen
    BY <1>1, <1>3, <1>6, <1>10, <1>11, <2>3 DEF TreeInv, InTree
  <2>4. QED BY <2>1, <2>2, <2>3
<1>14. \A p \in InTree' : IF p \in new THEN tree'[p].id = ids[p] /\ ids[p] >= nextId
                          ELSE p \in InTree /\ tree'[p].id = tree[p].id /\ tree[p].id < nextId
  <2>1. \A p \in InTree : tree[p].id < nextId
    BY <1>1, <1>6 DEF TreeInv
  <2>2. ASSUME NEW p \in new PROVE tree'[p].id = ids[p] /\ ids[p] >= nextId
    BY <1>8, <1>ids, <2>2 DEF new
  <2>3. ASSUME NEW p \in Seen \ new PROVE p \in InTree /\ tree'[p].id = tree[p].id
    BY <1>9, <1>ids, <2>3
  <2>4. ASSUME NEW p \in InTree', p \notin Seen PROVE p \in InTree /\ tree'[p].id = tree[p].id
    BY <1>3, <1>10, <1>11, <2>4 DEF InTree
  <2>5. QED BY <2>1, <2>2, <2>3, <2>4
<1>15. \A x, y \in InTree' : tree'[x].id = tree'[y].id => x = y
  <2>1. \A x \in InTree : tree[x].id \in Nat
    BY <1>1, <1>6 DEF TreeInv
  <2>2. \A x \in new : ids[x] \in Nat
    BY <1>8
  <2>3. QED BY <1>1, <1>6, <1>14, <2>1, <2>2 DEF TreeInv
<1>16. ASSUME NEW p \in InTree', NEW s \in Path, p \in Below[s] PROVE s \in InTree'
  <2>1. CASE p \in Seen
    <3>1. CASE s \in At(q)
      BY <1>4, <1>11, <2>1, <3>1, <1>16
    <3>2. CASE s \notin At(q)
      <4>1. p \in Path /\ p \in At(q) /\ s \in Place
        BY <1>4, <2>1 DEF Place
      <4>2. q \in Below[s]
        BY <1>4, <1>16, <3>2, <4>1, AboveOrBelow DEF At
      <4>3. q \in InTree
        BY <1>4, <4>1, <4>2, BelowIs, PathAssumption
      <4>4. QED BY <1>1, <1>11, <3>2, <4>2, <4>3 DEF TreeInv
    <3>3. QED BY <3>1, <3>2
  <2>2. CASE p \notin Seen
    <3>1. p \in InTree /\ p \notin At(q)
      BY <1>11, <2>2
    <3>2. s \in InTree
      BY <1>1, <1>16, <3>1 DEF TreeInv
    <3>3. s \notin At(q)
      BY <1>4, <1>16, <3>1, BelowIsTransitive DEF At
    <3>4. QED BY <1>11, <3>2, <3>3
  <2>3. QED BY <2>1, <2>2
<1>17. TreeInv'
  BY <1>6, <1>12, <1>13, <1>15, <1>16 DEF TreeInv
<1>18. IdsStay
  <2>1. nextId <= nextId'
    BY <1>6
  <2>2. \A p \in Path : tree'[p] # None => p \in InTree'
    BY DEF InTree
  <2>3. \A p \in new : ~(ids[p] < nextId)
    BY <1>6, <1>8
  <2>4. QED BY <1>14, <2>1, <2>2, <2>3 DEF IdsStay, InTree
<1>19. r.patch \in Patch
  <2>1. r.patch.added \in SUBSET Nat
    BY <1>2, <1>8
  <2>2. r.patch.removed \in SUBSET Nat
    <3>1. RemovedPaths(q, Seen) \subseteq InTree
      BY <1>4 DEF RemovedPaths
    <3>2. QED BY <1>1, <1>2, <3>1 DEF TreeInv
  <2>3. r.patch.updated \in SUBSET Update
    BY <1>1, <1>2, <1>4, ChangedUpdatesType
  <2>4. r.patch = [removed |-> r.patch.removed, added |-> r.patch.added,
                   updated |-> r.patch.updated]
    BY DEF r, Applied
  <2>5. QED BY <2>1, <2>2, <2>3, <2>4 DEF Patch
<1>20. \A p \in Path \ At(q) : tree'[p] = tree[p]
  BY <1>3, <1>4, <1>10
<1>21. QED BY <1>3, <1>11, <1>17, <1>18, <1>19, <1>20, <1>ids

\* Writing a property changes no instance's place or referent.
LEMMA WriteKeepsTree ==
  ASSUME TypeInv, NEW w \in writes, HandleWrite(w)
  PROVE  /\ TreeInv' /\ IdsStay /\ InTree' = InTree /\ nextId' = nextId
         /\ \A p \in InTree : tree'[p].id = tree[p].id
         /\ unsent' # None => unsent' \in Patch
<1>1. TreeInv /\ nextId' = nextId
  BY DEF TypeInv, HandleWrite
<1>2. CASE w.id \notin Ids
  <2>1. tree' = tree /\ unsent' = unsent
    BY <1>2 DEF HandleWrite
  <2>2. QED BY <1>1, <2>1 DEF TreeInv, InTree, IdsStay, TypeInv, LogInv
<1>3. CASE w.id \in Ids
  <2> DEFINE p == PathOf(w.id)
             v == [tree[p].props EXCEPT ![w.prop] = w.value]
             i == [id |-> w.id, props |-> v]
  <2>1. /\ p \in InTree /\ tree[p].id = w.id
        /\ tree' = [tree EXCEPT ![p] = i] /\ i \in Instance
        /\ w.prop = "Source" => w.value \in Holds(p)
    BY <1>3, WriteTarget
  <2>2. /\ w.prop \in Prop /\ w.value \in Content \union OtherValue /\ w.id \in Nat
        /\ w.prop = "Other" => w.value \in OtherValue
    BY DEF TypeInv, WriteInv, Prop
  <2>3. /\ unsent' = [EmptyPatch EXCEPT
                        !.updated = {[id |-> w.id, prop |-> w.prop, value |-> w.value]}]
    BY <1>3 DEF HandleWrite
  <2> HIDE DEF p
  <2>4. tree[p] \in Instance /\ p \in Path
    BY <1>1, <2>1 DEF TreeInv, InTree
  <2>5. /\ v \in [Prop -> Value]
        /\ v["Source"] \in Holds(p) /\ v["Other"] \in OtherValue
    <3>1. /\ tree[p].props \in [Prop -> Value]
          /\ tree[p].props["Source"] \in Holds(p) /\ tree[p].props["Other"] \in OtherValue
      BY <1>1, <2>1, <2>4 DEF TreeInv, Instance
    <3>2. QED BY <2>1, <2>2, <3>1 DEF Prop, Value
  <2>6. i.id = tree[p].id /\ i.props = v /\ i # None
    BY <2>1, NoneAssumption
  <2> HIDE DEF i, v
  <2>7. /\ \A x \in Path \ {p} : tree'[x] = tree[x]
        /\ tree'[p] = i
        /\ tree' \in [Path -> Instance \union {None}]
    BY <1>1, <2>1, <2>4 DEF TreeInv
  <2>8. InTree' = InTree
    BY <2>1, <2>6, <2>7 DEF InTree
  <2>9. \A x \in InTree : tree'[x].id = tree[x].id
    BY <2>6, <2>7 DEF InTree
  <2>10. \A x \in InTree : tree'[x].props["Source"] \in Holds(x)
                           /\ tree'[x].props["Other"] \in OtherValue
    BY <1>1, <2>5, <2>6, <2>7 DEF InTree, TreeInv
  <2>11. TreeInv'
    BY <1>1, <2>7, <2>8, <2>9, <2>10 DEF TreeInv
  <2>12. IdsStay
    BY <1>1, <2>8, <2>9 DEF IdsStay, InTree, TreeInv
  <2>13. unsent' \in Patch
    <3>1. [id |-> w.id, prop |-> w.prop, value |-> w.value] \in Update
      BY <2>2 DEF Update
    <3>2. unsent' = [removed |-> {}, added |-> {},
                     updated |-> {[id |-> w.id, prop |-> w.prop, value |-> w.value]}]
      BY <2>3 DEF EmptyPatch
    <3>3. QED BY <3>1, <3>2 DEF Patch
  <2>14. QED BY <1>1, <2>8, <2>9, <2>11, <2>12, <2>13
<1>4. QED BY <1>2, <1>3

\* Only the ChangeProcessor touches the tree.
LEMMA OnlyProcessor ==
  ASSUME [Next]_vars, ~ApplyEvent, \A w \in writes : ~HandleWrite(w)
  PROVE  UNCHANGED <<tree, nextId>>
BY DEF Next, Disk, MakeFolder, Delete, WriteFile, Touch, Processor, TakeEvent, SkipEvent, Push,
       ReadCursor, ReadTree, OpenSocket, Socket, Deliver, RenderPanics, ApplyMessage, Studio,
       StudioEdit, vars, serverVars

\* Every step leaves a tree with one referent for each instance, and gives
\* none out twice.
LEMMA TreeStep == TypeInv /\ [Next]_vars => TreeInv' /\ IdsStay
<1> SUFFICES ASSUME TypeInv, [Next]_vars PROVE TreeInv' /\ IdsStay
  OBVIOUS
<1>1. CASE ApplyEvent
  BY <1>1, ApplyKeepsTree
<1>2. ASSUME NEW w \in writes, HandleWrite(w) PROVE TreeInv' /\ IdsStay
  BY <1>2, WriteKeepsTree
<1>3. CASE UNCHANGED <<tree, nextId>>
  BY <1>3 DEF TypeInv, TreeInv, IdsStay, InTree
<1>4. QED BY <1>1, <1>2, <1>3, OnlyProcessor

\* Every step keeps the event being processed in order.
LEMMA WorkStep == TypeInv /\ [Next]_vars => WorkInv'
<1> SUFFICES ASSUME TypeInv, [Next]_vars PROVE WorkInv'
  OBVIOUS
<1>1. CASE work' = None
  BY <1>1 DEF WorkInv
<1>2. CASE TakeEvent
  <2> DEFINE q == NearestKnown(Head(events))
             listed == {p \in Existing : p = q \/ p \in Below[q]}
  <2>1. Head(events) \in Path
    BY <1>2, HeadTailProperties DEF TakeEvent, TypeInv
  <2>2. q \in Place /\ (q = Root \/ q \in InTree)
    BY <2>1, NearestKnownIs
  <2>3. work' = [path |-> q, listed |-> listed] /\ tree' = tree
    BY <1>2 DEF TakeEvent
  <2>4. listed \in SUBSET Path /\ listed \subseteq At(q)
    BY DEF Existing, At
  <2>5. \A p \in listed, r \in At(q) \intersect Path : p \in Below[r] => r \in listed
    BY DEF TypeInv, DiskInv, At
  <2> HIDE DEF q, listed
  <2>6. work'.path = q /\ work'.listed = listed
    BY <2>3
  <2>7. InTree' = InTree
    BY <2>3 DEF InTree
  <2>8. QED BY <2>2, <2>4, <2>5, <2>6, <2>7 DEF WorkInv
<1>3. CASE work' = work /\ tree' = tree
  BY <1>3 DEF TypeInv, WorkInv, InTree
<1>4. ASSUME NEW w \in writes, HandleWrite(w) PROVE WorkInv'
  BY <1>1, <1>4 DEF HandleWrite, ProcessorIdle
<1>5. QED
  BY <1>1, <1>2, <1>3, <1>4
  DEF Next, Disk, MakeFolder, Delete, WriteFile, Touch, Processor, ApplyEvent, SkipEvent, Push,
      ReadCursor, ReadTree, OpenSocket, Socket, Deliver, RenderPanics, ApplyMessage, Studio,
      StudioEdit, vars, serverVars

\* What the plugin heard stays true while referents are not given out again.
LEMMA TracksStay ==
  ASSUME TreeInv, IdsStay, NEW map, DOMAIN map \subseteq Nat, Tracks(map), nextId' \in Nat
  PROVE  \A id \in DOMAIN map :
           /\ id < nextId'
           /\ \A p \in Path : tree'[p] # None /\ tree'[p].id = id => p = map[id].path
<1> SUFFICES ASSUME NEW id \in DOMAIN map
             PROVE  /\ id < nextId'
                    /\ \A p \in Path : tree'[p] # None /\ tree'[p].id = id => p = map[id].path
  OBVIOUS
<1>1. id \in Nat /\ id < nextId /\ nextId \in Nat
  BY DEF Tracks, TreeInv
<1>2. id < nextId'
  BY <1>1 DEF IdsStay
<1>3. ASSUME NEW p \in Path, tree'[p] # None, tree'[p].id = id PROVE p = map[id].path
  BY <1>1, <1>3 DEF IdsStay, Tracks
<1>4. QED BY <1>2, <1>3

\* An instance of the tree as the API shows it.
LEMMA RenderedIs ==
  ASSUME TreeInv, NEW p \in InTree
  PROVE  Rendered(p) \in Shown /\ Rendered(p).path = p
<1>1. p \in Path /\ tree[p].props \in [Prop -> Value]
  BY DEF TreeInv, InTree, Instance
<1>2. Parent(p) = Root \/ Parent(p) \in InTree
  BY <1>1, ParentIs, BelowParent DEF TreeInv, Place
<1>3. IdOf(Parent(p)) \in Nat
  BY <1>2 DEF IdOf, RootId, TreeInv
<1>4. QED BY <1>1, <1>3 DEF Rendered, Shown

\* Any set of instances of the tree as the API shows it.
LEMMA RenderedMap ==
  ASSUME TreeInv, NEW D \in SUBSET Ids
  PROVE  [id \in D |-> Rendered(PathOf(id))] \in Map /\ Tracks([id \in D |-> Rendered(PathOf(id))])
<1> DEFINE map == [id \in D |-> Rendered(PathOf(id))]
<1>1. \A id \in D : PathOf(id) \in InTree /\ tree[PathOf(id)].id = id
  BY PathOfIs
<1>2. \A id \in D : map[id] \in Shown /\ map[id].path = PathOf(id)
  BY <1>1, RenderedIs
<1>3. D \in SUBSET Nat /\ \A id \in D : id < nextId
  BY DEF TreeInv, Ids
<1>4. map \in [D -> Shown]
  BY <1>2
<1>5. map \in Map
  BY <1>3, <1>4 DEF Map
<1>6. ASSUME NEW id \in D, NEW p \in Path, tree[p] # None, tree[p].id = id
      PROVE  p = map[id].path
  BY <1>2, <1>6, PathOfIs DEF InTree
<1>7. DOMAIN map = D
  OBVIOUS
<1> HIDE DEF map
<1>8. Tracks(map)
  BY <1>3, <1>6, <1>7 DEF Tracks
<1>9. QED BY <1>5, <1>8 DEF map

\* A message of the log as it goes over the socket.
LEMMA RenderIs ==
  ASSUME TreeInv, NEW patch \in Patch
  PROVE  Render(patch) \in Message /\ Tracks(Render(patch).added)
<1> DEFINE top == {PathOf(id) : id \in patch.added}
           paths == InTree \intersect UNION {{p} \union Below[p] : p \in top}
           D == {tree[p].id : p \in paths}
<1>1. D \in SUBSET Ids
  BY DEF Ids
<1>2. Render(patch) = [removed |-> patch.removed,
                       added |-> [id \in D |-> Rendered(PathOf(id))],
                       updated |-> patch.updated]
  BY DEF Render
<1> HIDE DEF D
<1> DEFINE map == [id \in D |-> Rendered(PathOf(id))]
<1>3. map \in Map /\ Tracks(map)
  BY <1>1, RenderedMap
<1>4. patch.removed \in SUBSET Nat /\ patch.updated \in SUBSET Update
  BY DEF Patch
<1> HIDE DEF map
<1>5. Render(patch) = [removed |-> patch.removed, added |-> map, updated |-> patch.updated]
  BY <1>2 DEF map
<1>6. QED BY <1>3, <1>4, <1>5 DEF Message

\* A map with another domain, or with the entries of another, is a map.
LEMMA Maps ==
  ASSUME NEW m
  PROVE  m \in Map <=> /\ DOMAIN m \in SUBSET Nat
                       /\ m \in [DOMAIN m -> Shown]
BY DEF Map

\* What a message makes of the plugin's InstanceMap.
LEMMA ApplyKeepsMap ==
  ASSUME NEW map \in Map, Tracks(map), NEW msg \in Message, Tracks(msg.added)
  PROVE  LET m1 == AfterRemovals(map, msg.removed)
             m2 == AfterAdditions(m1, msg.added)
             m3 == AfterUpdates(m2, msg.updated)
         IN  /\ m1 \in Map /\ Tracks(m1)
             /\ m3 \in Map /\ Tracks(m3)
<1> DEFINE m1 == AfterRemovals(map, msg.removed)
           add == msg.added
           upd == msg.updated
           m2 == AfterAdditions(m1, add)
           m3 == AfterUpdates(m2, upd)
           reified == ReifiedIds(m1, add)
<1>1. add \in Map /\ upd \in SUBSET Update
  BY DEF Message
<1>2. /\ DOMAIN map \in SUBSET Nat /\ map \in [DOMAIN map -> Shown]
      /\ DOMAIN add \in SUBSET Nat /\ add \in [DOMAIN add -> Shown]
  BY <1>1, Maps
<1>3. DOMAIN m1 \subseteq DOMAIN map /\ m1 = [id \in DOMAIN m1 |-> map[id]]
  BY DEF AfterRemovals
<1> HIDE DEF m1
<1>4. m1 \in Map /\ Tracks(m1)
  <2>1. m1 \in [DOMAIN m1 -> Shown] /\ DOMAIN m1 \in SUBSET Nat
    BY <1>2, <1>3
  <2>2. QED BY <1>3, <2>1, Maps DEF Tracks
<1>5. reified \subseteq DOMAIN add
  BY DEF ReifiedIds, Subtree
<1> HIDE DEF reified
<1>6. /\ DOMAIN m2 = DOMAIN m1 \union reified
      /\ \A id \in DOMAIN m2 : m2[id] = IF id \in reified THEN add[id] ELSE m1[id]
  BY DEF AfterAdditions, reified
<1>7. m2 = [id \in DOMAIN m2 |-> m2[id]]
  BY DEF AfterAdditions
<1> HIDE DEF m2
<1>8. \A id \in DOMAIN m2 : m2[id] \in Shown /\ id \in Nat
  <2>1. \A id \in DOMAIN m1 : m1[id] \in Shown /\ id \in Nat
    BY <1>4, Maps
  <2>2. QED BY <1>2, <1>5, <1>6, <2>1
<1>9. Tracks(m2)
  <2>1. \A id \in DOMAIN m2 : id \in reified => id \in DOMAIN add /\ m2[id] = add[id]
    BY <1>5, <1>6
  <2>2. \A id \in DOMAIN m2 : id \notin reified => id \in DOMAIN m1 /\ m2[id] = m1[id]
    BY <1>6
  <2>3. QED BY <1>4, <2>1, <2>2 DEF Tracks
<1> DEFINE val(id, k) == IF \E u \in upd : u.id = id /\ u.prop = k
                           THEN (CHOOSE u \in upd : u.id = id /\ u.prop = k).value
                           ELSE m2[id].props[k]
<1>10. \A id \in DOMAIN m2, k \in Prop : val(id, k) \in Value
  <2> SUFFICES ASSUME NEW id \in DOMAIN m2, NEW k \in Prop PROVE val(id, k) \in Value
    OBVIOUS
  <2>1. CASE \E u \in upd : u.id = id /\ u.prop = k
    <3>1. PICK u \in upd : val(id, k) = u.value
      BY <2>1
    <3>2. QED BY <1>1, <3>1 DEF Update, Value
  <2>2. CASE ~\E u \in upd : u.id = id /\ u.prop = k
    BY <1>8, <2>2 DEF Shown
  <2>3. QED BY <2>1, <2>2
<1>11. m3 = [id \in DOMAIN m2 |-> [m2[id] EXCEPT !.props = [k \in Prop |-> val(id, k)]]]
  BY DEF AfterUpdates
<1> HIDE DEF val, m3
<1>12. \A id \in DOMAIN m2 : m3[id] \in Shown /\ m3[id].path = m2[id].path
  <2> SUFFICES ASSUME NEW id \in DOMAIN m2 PROVE m3[id] \in Shown /\ m3[id].path = m2[id].path
    OBVIOUS
  <2> DEFINE ps == [k \in Prop |-> val(id, k)]
  <2>1. ps \in [Prop -> Value]
    BY <1>10
  <2>2. m3[id] = [m2[id] EXCEPT !.props = ps]
    BY <1>11
  <2> HIDE DEF ps
  <2>3. QED BY <1>8, <2>1, <2>2 DEF Shown
<1>13. DOMAIN m3 = DOMAIN m2
  BY <1>11
<1>14. m3 \in Map
  <2>1. m3 \in [DOMAIN m3 -> Shown]
    <3>1. m3 = [id \in DOMAIN m3 |-> m3[id]]
      BY <1>11
    <3>2. QED BY <1>12, <1>13, <3>1
  <2>2. QED BY <1>8, <1>13, <2>1, Maps
<1>15. Tracks(m3)
  BY <1>9, <1>12, <1>13 DEF Tracks
<1>16. QED BY <1>4, <1>14, <1>15 DEF m1, m2, m3

\* A property change in Studio (two-way sync).
LEMMA StudioEditIs ==
  ASSUME TypeInv, NEW id \in DOMAIN known, NEW prop, NEW value, StudioEdit(id, prop, value),
         \/ prop = "Source" /\ value \in Content
         \/ prop = "Other" /\ value \in OtherValue
  PROVE  /\ known' \in Map /\ Tracks(known)' /\ WriteInv'
<1>1. /\ known' = [known EXCEPT ![id].props[prop] = value]
      /\ writes' = writes \union
           {[n |-> studioEdits, id |-> id, prop |-> prop, value |-> value]}
      /\ known[id].path \in Folder => prop = "Other"
      /\ UNCHANGED <<tree, nextId>>
  BY DEF StudioEdit
<1>2. /\ known \in Map /\ Tracks(known) /\ TreeInv /\ WriteInv
      /\ DOMAIN known \in SUBSET Nat /\ known \in [DOMAIN known -> Shown]
  BY Maps DEF TypeInv, ClientInv
<1>3. prop \in Prop /\ value \in Value
  BY DEF Prop, Value
<1>4. known[id] \in Shown
  BY <1>2
<1> DEFINE e == [known[id] EXCEPT !.props = [known[id].props EXCEPT ![prop] = value]]
<1>5. e \in Shown /\ e.path = known[id].path
  <2>1. [known[id].props EXCEPT ![prop] = value] \in [Prop -> Value]
    BY <1>3, <1>4 DEF Shown
  <2>2. QED BY <1>4, <2>1 DEF Shown
<1>6. known' = [known EXCEPT ![id] = e]
  BY <1>1
<1> HIDE DEF e
<1>7. DOMAIN known' = DOMAIN known /\ \A j \in DOMAIN known : known'[j].path = known[j].path
  BY <1>2, <1>5, <1>6
<1>8. known' \in Map
  <2>1. known' \in [DOMAIN known -> Shown]
    BY <1>2, <1>5, <1>6
  <2>2. QED BY <1>2, <1>7, <2>1, Maps
<1>9. Tracks(known)'
  BY <1>1, <1>2, <1>7 DEF Tracks
<1>10. WriteInv'
  <2> DEFINE w0 == [n |-> studioEdits, id |-> id, prop |-> prop, value |-> value]
  <2>1. w0.id = id /\ w0.prop = prop /\ w0.value = value
    OBVIOUS
  <2>2. id \in Nat /\ id < nextId
    BY <1>2 DEF Tracks
  <2>3. prop = "Source" => \A p \in Path : tree[p] # None /\ tree[p].id = id => p \notin Folder
    BY <1>1, <1>2 DEF Tracks
  <2> HIDE DEF w0
  <2>4. writes' = writes \union {w0}
    BY <1>1 DEF w0
  <2>5. QED BY <1>1, <1>2, <2>1, <2>2, <2>3, <2>4 DEF WriteInv
<1>11. QED BY <1>8, <1>9, <1>10

\* Every step keeps the writes to files.
LEMMA WriteStep == TypeInv /\ [Next]_vars => WriteInv'
<1> SUFFICES ASSUME TypeInv, [Next]_vars PROVE WriteInv'
  OBVIOUS
<1>1. TreeInv /\ TreeInv' /\ IdsStay /\ WriteInv
  BY TreeStep DEF TypeInv
<1>2. CASE writes' \subseteq writes
  <2> SUFFICES ASSUME NEW w \in writes
               PROVE  /\ w.id < nextId'
                      /\ w.prop = "Source" =>
                           \A p \in Path : tree'[p] # None /\ tree'[p].id = w.id => p \notin Folder
    BY <1>1, <1>2 DEF WriteInv
  <2>1. w.id \in Nat /\ w.id < nextId /\ nextId \in Nat /\ nextId' \in Nat
    BY <1>1 DEF WriteInv, TreeInv
  <2>2. w.id < nextId'
    BY <1>1, <2>1 DEF IdsStay
  <2>3. QED BY <1>1, <2>1, <2>2 DEF IdsStay, WriteInv
<1>3. ASSUME NEW id \in DOMAIN known, NEW c \in Content, StudioEdit(id, "Source", c)
      PROVE  WriteInv'
  BY <1>3, StudioEditIs
<1>4. ASSUME NEW id \in DOMAIN known, StudioEdit(id, "Other", "fromStudio")
      PROVE  WriteInv'
  BY <1>4, StudioEditIs DEF OtherValue
<1>5. QED
  BY <1>2, <1>3, <1>4
  DEF Next, Disk, MakeFolder, Delete, WriteFile, Touch, Processor, TakeEvent, ApplyEvent,
      SkipEvent, Push, HandleWrite, ReadCursor, ReadTree, OpenSocket, Socket, Deliver, RenderPanics,
      ApplyMessage, Studio, vars, serverVars

\* Every step keeps the log a log of patches.
LEMMA LogStep == TypeInv /\ [Next]_vars => LogInv'
<1> SUFFICES ASSUME TypeInv, [Next]_vars PROVE LogInv'
  OBVIOUS
<1>1. LogInv /\ Len(messages) \in Nat /\ cursor \in Nat
  BY LenProperties DEF TypeInv, LogInv
<1>2. CASE ApplyEvent
  BY <1>1, <1>2, ApplyKeepsTree DEF ApplyEvent, clientVars, LogInv
<1>3. ASSUME NEW w \in writes, HandleWrite(w) PROVE LogInv'
  BY <1>1, <1>3, WriteKeepsTree DEF HandleWrite, clientVars, LogInv
<1>4. CASE Push
  <2>1. unsent \in Patch
    BY <1>1, <1>4 DEF Push, LogInv
  <2>2. messages' \in Seq(Patch) /\ Len(messages') = Len(messages) + 1
    BY <1>1, <1>4, <2>1, AppendProperties DEF Push, LogInv
  <2>3. unsent' = None /\ cursor' = cursor
    BY <1>4 DEF Push, clientVars
  <2>4. QED BY <1>1, <2>2, <2>3 DEF LogInv
<1>5. CASE /\ UNCHANGED <<unsent, messages>>
           /\ cursor' \in {cursor, Len(messages)} \union ((cursor + 1)..Len(messages))
  BY <1>1, <1>5 DEF LogInv
<1>6. QED
  BY <1>2, <1>3, <1>4, <1>5
  DEF Next, Disk, MakeFolder, Delete, WriteFile, Touch, Processor, TakeEvent,
      SkipEvent, ReadCursor, ReadTree, OpenSocket, Socket, Deliver, RenderPanics,
      ApplyMessage, Studio, StudioEdit, vars, serverVars, clientVars

\* Every step keeps what the plugin knows, and what is on its way to it.
LEMMA ClientStep == TypeInv /\ [Next]_vars => ClientInv'
<1> SUFFICES ASSUME TypeInv, [Next]_vars PROVE ClientInv'
  OBVIOUS
<1>1. /\ TreeInv /\ TreeInv' /\ IdsStay /\ ClientInv /\ LogInv
      /\ Len(wire) \in Nat
  BY TreeStep, LenProperties DEF TypeInv, ClientInv
<1>2. ASSUME NEW map \in Map, Tracks(map)
      PROVE  \A id \in DOMAIN map :
               /\ id < nextId'
               /\ \A p \in Path : tree'[p] # None /\ tree'[p].id = id => p = map[id].path
  BY <1>1, <1>2, Maps, TracksStay DEF TreeInv
<1>3. \A i \in 1..Len(wire) : wire[i] \in Message /\ wire[i].added \in Map
  <2>1. \A i \in 1..Len(wire) : wire[i] \in Message
    BY <1>1, ElementOfSeq DEF ClientInv
  <2>2. QED BY <2>1 DEF Message
<1>4. ASSUME UNCHANGED known PROVE Tracks(known)'
  BY <1>1, <1>2, <1>4 DEF ClientInv, Tracks
<1>5. ASSUME UNCHANGED wire PROVE WireTracks'
  BY <1>1, <1>2, <1>3, <1>5 DEF ClientInv, WireTracks, Tracks
<1>6. CASE ReadTree
  <2>1. known' = [id \in Ids |-> Rendered(PathOf(id))] /\ UNCHANGED <<tree, nextId>>
    BY <1>6 DEF ReadTree, serverVars
  <2>2. known' \in Map /\ Tracks(known')
    BY <1>1, <2>1, RenderedMap
  <2>3. Tracks(known)'
    BY <2>1, <2>2 DEF Tracks
  <2>4. QED BY <1>1, <1>5, <1>6, <2>2, <2>3 DEF ReadTree, ClientInv
<1>7. ASSUME NEW end \in (cursor + 1)..Len(messages), Deliver(end) PROVE ClientInv'
  <2> DEFINE n == Len(Backlog(end))
             ws == [i \in DOMAIN Backlog(end) |-> Render(Backlog(end)[i])]
  <2>1. Backlog(end) \in Seq(Patch) /\ n \in Nat /\ DOMAIN Backlog(end) = 1..n
    <3>1. cursor + 1 \in Int /\ end \in Int /\ end <= Len(messages)
      BY <1>1, LenProperties DEF LogInv
    <3>2. \A i \in (cursor + 1)..end : messages[i] \in Patch
      BY <1>1, LenProperties, ElementOfSeq DEF LogInv
    <3>3. Backlog(end) \in Seq(Patch)
      BY <3>1, <3>2, SubSeqProperties DEF Backlog
    <3>4. QED BY <3>3, LenProperties
  <2>2. \A i \in 1..n : Backlog(end)[i] \in Patch
    BY <2>1, ElementOfSeq
  <2>3. \A i \in 1..n : ws[i] \in Message /\ Tracks(ws[i].added)
    BY <1>1, <2>1, <2>2, RenderIs
  <2>4. ws \in [1..n -> Message]
    BY <2>1, <2>3
  <2>5. ws \in Seq(Message) /\ Len(ws) = n
    <3>1. ws \in Seq(Message)
      BY <2>1, <2>4, SeqDef
    <3>2. QED BY <2>1, <3>1, LenProperties
  <2>6. wire' = wire \o ws /\ UNCHANGED <<tree, nextId, known, client, strays>>
    BY <1>7 DEF Deliver, serverVars
  <2> HIDE DEF ws
  <2>7. /\ wire' \in Seq(Message) /\ Len(wire') = Len(wire) + n
        /\ \A i \in 1..(Len(wire) + n) :
             wire'[i] = IF i <= Len(wire) THEN wire[i] ELSE ws[i - Len(wire)]
    <3>1. wire \in Seq(Message)
      BY <1>1 DEF ClientInv
    <3>2. /\ wire \o ws \in Seq(Message)
          /\ Len(wire \o ws) = Len(wire) + Len(ws)
          /\ \A i \in 1..(Len(wire) + Len(ws)) :
               (wire \o ws)[i] = IF i <= Len(wire) THEN wire[i] ELSE ws[i - Len(wire)]
      BY <2>5, <3>1, ConcatProperties
    <3>3. QED BY <2>5, <2>6, <3>2
  <2>8. \A i \in 1..Len(wire') : Tracks(wire'[i].added)
    <3>1. \A i \in 1..(Len(wire) + n) : i <= Len(wire) => i \in 1..Len(wire)
      BY <1>1, <2>1
    <3>2. \A i \in 1..(Len(wire) + n) : ~(i <= Len(wire)) => i - Len(wire) \in 1..n
      BY <1>1, <2>1
    <3>3. QED BY <1>1, <2>3, <2>7, <3>1, <3>2 DEF ClientInv, WireTracks
  <2>9. WireTracks'
    BY <2>6, <2>8 DEF WireTracks, Tracks
  <2>10. Tracks(known)'
    BY <1>4, <2>6
  <2>11. QED BY <1>1, <2>6, <2>7, <2>9, <2>10 DEF ClientInv
<1>8. CASE ApplyMessage
  <2> DEFINE msg == Head(wire)
             m1 == AfterRemovals(known, msg.removed)
             m2 == AfterAdditions(m1, msg.added)
             m3 == AfterUpdates(m2, msg.updated)
             S == {m1[id].path : id \in ReifiedIds(m1, msg.added) \intersect DOMAIN m1}
  <2>1. /\ wire # << >> /\ known' = m3 /\ strays' = strays \union S /\ wire' = Tail(wire)
        /\ UNCHANGED <<tree, nextId, client>>
    BY <1>8 DEF ApplyMessage, serverVars
  <2>2. Len(wire) > 0 /\ msg = wire[1]
    BY <1>1, <2>1, EmptySeq DEF ClientInv
  <2>3. msg \in Message /\ Tracks(msg.added)
    BY <1>1, <1>3, <2>2 DEF ClientInv, WireTracks
  <2> HIDE DEF msg
  <2>4. m1 \in Map /\ m3 \in Map /\ Tracks(m3)
    BY <1>1, <2>3, ApplyKeepsMap DEF ClientInv
  <2> HIDE DEF m1, m2, m3
  <2>5. S \subseteq Path
    BY <2>4, Maps DEF Shown
  <2>6. /\ wire' \in Seq(Message) /\ Len(wire') = Len(wire) - 1
        /\ \A i \in 1..Len(wire') : wire'[i] = wire[i + 1]
    BY <1>1, <2>1, HeadTailProperties DEF ClientInv
  <2>7. \A i \in 1..Len(wire') : Tracks(wire'[i].added)
    <3>1. \A i \in 1..Len(wire') : i + 1 \in 1..Len(wire)
      BY <1>1, <2>2, <2>6
    <3>2. QED BY <1>1, <2>6, <3>1 DEF ClientInv, WireTracks
  <2>8. WireTracks' /\ Tracks(known)'
    BY <2>1, <2>4, <2>7 DEF WireTracks, Tracks
  <2>9. QED BY <1>1, <2>1, <2>4, <2>5, <2>6, <2>8 DEF ClientInv
<1>9. ASSUME NEW id \in DOMAIN known, NEW c \in Content, StudioEdit(id, "Source", c)
      PROVE  ClientInv'
  <2>1. known' \in Map /\ Tracks(known)'
    BY <1>9, StudioEditIs
  <2>2. QED BY <1>1, <1>5, <1>9, <2>1 DEF StudioEdit, ClientInv
<1>10. ASSUME NEW id \in DOMAIN known, StudioEdit(id, "Other", "fromStudio")
       PROVE  ClientInv'
  <2>1. known' \in Map /\ Tracks(known)'
    BY <1>10, StudioEditIs DEF OtherValue
  <2>2. QED BY <1>1, <1>5, <1>10, <2>1 DEF StudioEdit, ClientInv
<1>11. CASE /\ client' \in {client, "reading", "live"}
            /\ UNCHANGED <<known, wire, strays>>
  BY <1>1, <1>4, <1>5, <1>11 DEF ClientInv
<1>12. QED
  BY <1>6, <1>7, <1>8, <1>9, <1>10, <1>11
  DEF Next, Disk, MakeFolder, Delete, WriteFile, Touch, Processor, TakeEvent, ApplyEvent,
      HandleWrite, SkipEvent, Push, ReadCursor, OpenSocket, Socket, RenderPanics, Studio, vars,
      clientVars

\* The disk a session starts with is a directory tree.
LEMMA DiskInit == Init => DiskInv
<1> SUFFICES ASSUME Init PROVE DiskInv
  OBVIOUS
<1>1. /\ disk \in [Path -> Content \union {"dir", None}]
      /\ IsFiniteSet(Existing)
      /\ \A p \in Existing : disk[p] \in Holds(p) /\ (Parent(p) = Root \/ disk[Parent(p)] # None)
  BY DiskAssumption DEF Init, Existing
<1>2. ASSUME NEW p \in Existing, NEW r \in Path, p \in Below[r] PROVE r \in Existing
  <2> DEFINE A == {x \in Existing : x \in Below[r]}
             S == {Len(x) : x \in A}
  <2>1. S \in SUBSET Nat /\ S # {}
    <3>1. \A x \in A : Len(x) \in Nat
      BY Places DEF Existing, Place
    <3>2. QED BY <1>2, <3>1
  <2>2. PICK m \in S : \A n \in S : m <= n
    BY <2>1, LeastNumber
  <2>3. PICK x \in A : Len(x) = m
    OBVIOUS
  <2>4. x \in Path /\ x \in Below[r] /\ x \in Existing
    BY DEF Existing
  <2>5. Parent(x) = r \/ Parent(x) \in Below[r]
    BY <2>4, ParentBelow DEF Place
  <2>6. Parent(x) \in Path /\ Parent(x) \in Existing
    <3>1. Below[r] \subseteq Path
      BY BelowIs DEF Place
    <3>2. QED BY <1>1, <2>4, <2>5, <3>1, PathAssumption DEF Existing
  <2>7. Parent(x) \notin Below[r]
    <3>1. Len(Parent(x)) = Len(x) - 1 /\ Len(x) \in Nat
      BY <2>4, ParentIs, Places DEF Place
    <3>2. ASSUME Parent(x) \in Below[r] PROVE FALSE
      <4>1. Len(Parent(x)) \in S
        BY <2>6, <3>2
      <4>2. QED BY <2>2, <2>3, <3>1, <4>1
    <3>3. QED BY <3>2
  <2>8. QED BY <2>5, <2>6, <2>7
<1>3. QED BY <1>1, <1>2 DEF DiskInv

\* ServeSession::new builds the tree from the disk.
LEMMA TreeInit ==
  Init => /\ TreeInv /\ InTree = Existing
          /\ \A p \in InTree : tree[p].props = PropsOf(disk[p])
<1> SUFFICES ASSUME Init
             PROVE  /\ TreeInv /\ InTree = Existing
                    /\ \A p \in InTree : tree[p].props = PropsOf(disk[p])
  OBVIOUS
<1> DEFINE ids == FreshIds(Existing, 1)
           k == Cardinality(Existing)
<1>1. DiskInv
  BY DiskInit
<1>2. /\ k \in Nat
      /\ ids \in [Existing -> 1..(1 + k - 1)]
      /\ \A p, q \in Existing : ids[p] = ids[q] => p = q
  <2>1. IsFiniteSet(Existing) /\ 1 \in Nat
    BY <1>1 DEF DiskInv
  <2>2. QED BY <2>1, FreshIdsAreFresh
<1>3. /\ tree = [p \in Path |-> IF p \in Existing
                                  THEN [id |-> ids[p], props |-> PropsOf(disk[p])]
                                  ELSE None]
      /\ nextId = 1 + k
  BY DEF Init, RootId
<1> HIDE DEF ids, k
<1>4. \A p \in Existing : /\ disk[p] \in Holds(p)
                          /\ PropsOf(disk[p]) \in [Prop -> Value]
                          /\ PropsOf(disk[p])["Source"] = disk[p]
                          /\ PropsOf(disk[p])["Other"] = "fromDisk"
  BY <1>1 DEF DiskInv, PropsOf, Prop, Value, Holds, OtherValue
<1>5. Existing \subseteq Path
  BY DEF Existing
<1>6. \A p \in Existing : ids[p] \in 1..k
  BY <1>2
<1>7. ASSUME NEW p \in Existing
      PROVE  /\ tree[p] \in Instance /\ tree[p].id = ids[p]
             /\ tree[p].props = PropsOf(disk[p])
  <2>1. tree[p] = [id |-> ids[p], props |-> PropsOf(disk[p])]
    BY <1>3, <1>5
  <2>2. QED BY <1>2, <1>4, <1>6, <2>1 DEF Instance
<1>8. \A p \in Path \ Existing : tree[p] = None
  BY <1>3
<1>9. InTree = Existing
  BY <1>5, <1>7, <1>8, NoneAssumption DEF InTree
<1>10. tree \in [Path -> Instance \union {None}]
  BY <1>3, <1>7, <1>8
<1>11. nextId \in Nat \ {0} /\ nextId - 1 = k
  BY <1>2, <1>3
<1>12. \A p \in InTree : /\ tree[p].id \in 1..(nextId - 1)
                         /\ tree[p].props["Source"] \in Holds(p)
                         /\ tree[p].props["Other"] \in OtherValue
  BY <1>4, <1>6, <1>7, <1>9, <1>11 DEF OtherValue
<1>13. \A p, q \in InTree : tree[p].id = tree[q].id => p = q
  BY <1>2, <1>7, <1>9
<1>14. \A p \in InTree, r \in Path : p \in Below[r] => r \in InTree
  BY <1>1, <1>9 DEF DiskInv
<1>15. QED BY <1>7, <1>9, <1>10, <1>11, <1>12, <1>13, <1>14 DEF TreeInv

\* The strengthened type invariant holds in every reachable state.
LEMMA TypesHold == Spec => []TypeInv
<1>1. Init => TypeInv
  <2> SUFFICES ASSUME Init PROVE TypeInv
    OBVIOUS
  <2>1. DiskInv /\ TreeInv
    BY DiskInit, TreeInit
  <2>2. LogInv
    <3>1. << >> \in Seq(Patch) /\ Len(<< >>) = 0
      BY EmptySeq
    <3>2. QED BY <3>1 DEF Init, LogInv
  <2>3. ClientInv
    <3>1. << >> \in Seq(Message) /\ Len(<< >>) = 0
      BY EmptySeq
    <3>2. known = << >> /\ DOMAIN known = {}
      BY DEF Init
    <3>3. known \in [{} -> Shown]
      BY <3>2
    <3>4. known \in Map /\ Tracks(known)
      BY <3>2, <3>3, Maps DEF Tracks
    <3>5. QED BY <3>1, <3>4 DEF Init, ClientInv, WireTracks
  <2>4. events \in Seq(Path)
    BY EmptySeq DEF Init
  <2>5. QED BY <2>1, <2>2, <2>3, <2>4 DEF Init, TypeInv, WorkInv, WriteInv
<1>2. TypeInv /\ [Next]_vars => TypeInv'
  <2> SUFFICES ASSUME TypeInv, [Next]_vars PROVE TypeInv'
    OBVIOUS
  <2>1. events \in Seq(Path)
    BY DEF TypeInv
  <2>2. events' \in Seq(Path)
    <3>1. CASE UNCHANGED events
      BY <2>1, <3>1
    <3>2. ASSUME NEW p \in Path, events' = Append(events, p) PROVE events' \in Seq(Path)
      BY <2>1, <3>2, AppendProperties
    <3>3. CASE TakeEvent
      BY <2>1, <3>3, HeadTailProperties DEF TakeEvent
    <3>4. ASSUME NEW w \in writes, HandleWrite(w) PROVE events' \in Seq(Path)
      <4>1. CASE UNCHANGED events
        BY <3>1, <4>1
      <4>2. CASE w.id \in Ids /\ events' = Append(events, PathOf(w.id))
        <5>1. PathOf(w.id) \in Path
          BY <4>2, PathOfIs DEF TypeInv, InTree
        <5>2. QED BY <3>2, <4>2, <5>1
      <4>3. QED BY <3>4, <4>1, <4>2 DEF HandleWrite
    <3>5. ASSUME Disk PROVE events' \in Seq(Path)
      BY <3>2, <3>5 DEF Disk, MakeFolder, Delete, WriteFile, Touch
    <3>6. QED
      BY <3>1, <3>3, <3>4, <3>5
      DEF Next, Processor, ApplyEvent, SkipEvent, Push, ReadCursor, ReadTree, OpenSocket,
          Socket, Deliver, RenderPanics, ApplyMessage, Studio, StudioEdit, vars, diskVars
  <2>3. QED
    BY <2>2, DiskStep, TreeStep, WorkStep, WriteStep, LogStep, ClientStep DEF TypeInv
<1>3. QED BY <1>1, <1>2, PTL DEF Spec

\* Every reachable state has its type: the disk, the watcher's events, the
\* tree, the patches on their way and what the plugin keeps.
THEOREM TypeCorrect == Spec => []TypeOK
<1>1. TypeInv => TypeOK
  <2> SUFFICES ASSUME TypeInv PROVE TypeOK
    OBVIOUS
  <2>1. DOMAIN disk = Path /\ DOMAIN tree = Path
    BY DEF TypeInv, DiskInv, TreeInv
  <2>2. \A i \in DOMAIN messages : messages[i] \in Patch
    BY LenProperties, ElementOfSeq DEF TypeInv, LogInv
  <2>3. QED
    BY <2>1, <2>2 DEF TypeOK, TypeInv, WorkInv, TreeInv, LogInv, ClientInv, Place
<1>2. QED BY <1>1, TypesHold, PTL

\* The instance tree is a tree after every step of the ChangeProcessor: a
\* referent names one path, and the parent of an instance is an instance.
THEOREM TreeWellFormed == Spec => []TreeIsWellFormed
<1>1. TypeInv => TreeIsWellFormed
  <2> SUFFICES ASSUME TypeInv PROVE TreeIsWellFormed
    OBVIOUS
  <2>1. TreeInv
    BY DEF TypeInv
  <2>2. ASSUME NEW p \in InTree PROVE Parent(p) = Root \/ Parent(p) \in InTree
    BY <2>1, ParentIs, BelowParent DEF TreeInv, InTree, Place
  <2>3. QED BY <2>1, <2>2 DEF TreeInv, TreeIsWellFormed
<1>2. QED BY <1>1, TypesHold, PTL

-----------------------------------------------------------------------------
(* The tree follows the disk.                                              *)

\* An event that has not been taken will have the path looked at.
Covered(p) == \E i \in 1..Len(events) : p \in At(events[i])

\* The tree shows what the disk holds at the path.
Agrees(p) == IF disk[p] = None THEN tree[p] = None
             ELSE tree[p] # None /\ tree[p].props["Source"] = disk[p]

\* Wherever the tree is behind the disk, an event is on its way or being
\* processed; and what the event in process has listed is out of date only
\* where another event is on its way.
CoverInv ==
  /\ ~skipped => \A p \in Path : Agrees(p) \/ Covered(p) \/ (work # None /\ p \in At(work.path))
  /\ work # None => \A p \in At(work.path) \intersect Path :
                      Covered(p) \/ (p \in work.listed <=> p \in Existing)

\* The watcher's new event covers what changed.
LEMMA CoveredByNew ==
  ASSUME events \in Seq(Path), NEW p \in Path, events' = Append(events, p), NEW x,
         Covered(x) \/ x \in At(p)
  PROVE  Covered(x)'
<1>1. /\ Len(events) \in Nat /\ Len(events') = Len(events) + 1
      /\ \A i \in 1..Len(events) : events'[i] = events[i]
      /\ events'[Len(events) + 1] = p
  BY AppendProperties, LenProperties
<1>2. CASE Covered(x)
  <2>1. PICK i \in 1..Len(events) : x \in At(events[i])
    BY <1>2 DEF Covered
  <2>2. i \in 1..Len(events') /\ events'[i] = events[i]
    BY <1>1
  <2>3. QED BY <2>1, <2>2 DEF Covered, At
<1>3. CASE x \in At(p)
  <2>1. Len(events) + 1 \in 1..Len(events')
    BY <1>1
  <2>2. QED BY <1>1, <1>3, <2>1 DEF Covered, At
<1>4. QED BY <1>2, <1>3

\* A change on the disk at a path and below it, with its event.
LEMMA TouchKeepsCover ==
  ASSUME TypeInv, CoverInv, NEW p \in Path, events' = Append(events, p),
         \A x \in Path \ At(p) : disk'[x] = disk[x],
         UNCHANGED <<skipped, tree, work>>
  PROVE  CoverInv'
<1>1. \A x \in Path : Covered(x) \/ x \in At(p) => Covered(x)'
  BY CoveredByNew DEF TypeInv
<1>2. \A x \in Path \ At(p) : Agrees(x) => Agrees(x)'
  BY DEF Agrees
<1>3. \A x \in Path \ At(p) : x \in Existing' <=> x \in Existing
  BY DEF Existing
<1>4. QED BY <1>1, <1>2, <1>3 DEF CoverInv

\* Taking an event leaves no path uncovered (handle_vfs_event).
LEMMA TakeKeepsCover ==
  ASSUME TypeInv, CoverInv, TakeEvent
  PROVE  CoverInv'
<1> DEFINE e == Head(events)
           q == NearestKnown(e)
           listed == {p \in Existing : p = q \/ p \in Below[q]}
<1>1. /\ events # << >> /\ events' = Tail(events) /\ events \in Seq(Path)
      /\ work = None /\ work' = [path |-> q, listed |-> listed]
      /\ UNCHANGED <<disk, skipped, tree>>
  BY DEF TakeEvent, ProcessorIdle, TypeInv
<1>2. /\ Len(events) \in Nat /\ Len(events) > 0 /\ e = events[1] /\ e \in Path
      /\ Len(events') = Len(events) - 1
      /\ \A i \in 1..Len(events') : events'[i] = events[i + 1]
  BY <1>1, HeadTailProperties, EmptySeq, LenProperties
<1> HIDE DEF e
<1>3. q \in Place /\ e \in At(q)
  BY <1>2, NearestKnownIs
<1>4. listed \in SUBSET Path
  BY DEF Existing
<1>5. [path |-> q, listed |-> listed] # None
  <2> HIDE DEF q, listed
  <2>1. [path |-> q, listed |-> listed] \in [path : Path \union {Root}, listed : SUBSET Path]
    BY <1>3, <1>4 DEF Place
  <2>2. QED BY <2>1, NoneAssumption
<1>6. work' # None /\ work'.path = q /\ work'.listed = listed
  BY <1>1, <1>5
<1> HIDE DEF q
<1>7. ASSUME NEW p \in Path, Covered(p) PROVE p \in At(q) \/ Covered(p)'
  <2>1. PICK i \in 1..Len(events) : p \in At(events[i])
    BY <1>7 DEF Covered
  <2>2. CASE i = 1
    BY <1>2, <1>3, <2>1, <2>2, BelowIsTransitive DEF At
  <2>3. CASE i # 1
    <3>1. i - 1 \in 1..Len(events') /\ events'[i - 1] = events[i]
      BY <1>2, <2>3
    <3>2. QED BY <2>1, <3>1 DEF Covered, At
  <2>4. QED BY <2>2, <2>3
<1>8. \A p \in Path : Agrees(p) => Agrees(p)'
  BY <1>1 DEF Agrees
<1>9. \A p \in At(q) \intersect Path : p \in listed <=> p \in Existing'
  BY <1>1 DEF Existing, At
<1>10. QED BY <1>1, <1>6, <1>7, <1>8, <1>9 DEF CoverInv

\* After an event has been applied its part of the tree agrees with the disk,
\* but for what changed meanwhile.
LEMMA ApplyKeepsCover ==
  ASSUME TypeInv, CoverInv, ApplyEvent
  PROVE  CoverInv'
<1> DEFINE q == work.path
<1>1. work # None /\ work' = None /\ UNCHANGED <<disk, events, skipped>>
  BY DEF ApplyEvent, diskVars
<1>2. /\ InTree' = (InTree \ At(q)) \union Seen
      /\ \A p \in Seen : tree'[p].props = PropsOf(disk[p])
      /\ \A p \in Path \ At(q) : tree'[p] = tree[p]
  BY ApplyKeepsTree
<1>3. \A p \in Path : Covered(p)' <=> Covered(p)
  BY <1>1 DEF Covered, At
<1>4. \A p \in Path \ At(q) : Agrees(p)' <=> Agrees(p)
  BY <1>1, <1>2 DEF Agrees
<1>5. ASSUME NEW p \in At(q) \intersect Path PROVE Agrees(p)' \/ Covered(p)
  <2>1. CASE p \in Seen
    <3>1. disk[p] # None
      BY <2>1 DEF Seen, Existing
    <3>2. tree'[p] # None
      BY <1>2, <2>1 DEF InTree
    <3>3. tree'[p].props["Source"] = disk[p]
      BY <1>2, <2>1 DEF PropsOf, Prop
    <3>4. QED BY <1>1, <3>1, <3>2, <3>3 DEF Agrees
  <2>2. CASE p \notin Seen
    <3>1. tree'[p] = None
      BY <1>2, <1>5, <2>2 DEF InTree
    <3>2. disk[p] = None \/ Covered(p)
      BY <1>1, <1>5, <2>2 DEF CoverInv, Seen, Existing
    <3>3. QED BY <1>1, <3>1, <3>2 DEF Agrees
  <2>3. QED BY <2>1, <2>2
<1>6. QED BY <1>1, <1>3, <1>4, <1>5 DEF CoverInv

\* A write from Studio goes to the file and to the tree, or to a path whose
\* directory is gone and for which an event is on its way.
LEMMA WriteKeepsCover ==
  ASSUME TypeInv, CoverInv, NEW w \in writes, HandleWrite(w)
  PROVE  CoverInv'
<1>1. work = None /\ work' = None /\ skipped' = skipped /\ events \in Seq(Path)
  BY DEF HandleWrite, ProcessorIdle, TypeInv
<1>2. CASE w.id \notin Ids
  <2>1. UNCHANGED <<tree, disk, events>>
    BY <1>2 DEF HandleWrite
  <2>2. QED BY <1>1, <2>1 DEF CoverInv, Agrees, Covered, At
<1>3. CASE w.id \in Ids
  <2>0. PICK p \in Path : p = PathOf(w.id)
    BY <1>3, WriteTarget DEF InTree
  <2> DEFINE v == [tree[p].props EXCEPT ![w.prop] = w.value]
             i == [id |-> w.id, props |-> v]
  <2>1. /\ p \in InTree /\ p \in Path
        /\ tree' = [tree EXCEPT ![p] = i] /\ i \in Instance
        /\ w.prop = "Source" => w.value \in Holds(p)
    BY <1>3, <2>0, WriteTarget
  <2>2. IF w.prop = "Source" /\ HasParent(p)
          THEN disk' = [disk EXCEPT ![p] = w.value] /\ events' = Append(events, p)
          ELSE UNCHANGED <<disk, events>>
    BY <1>3, <2>0 DEF HandleWrite
  <2>3. i.props = v /\ i # None /\ tree[p] # None /\ tree[p] \in Instance
    BY <2>1, NoneAssumption DEF InTree, TypeInv, TreeInv
  <2>4. /\ v["Source"] = IF w.prop = "Source" THEN w.value ELSE tree[p].props["Source"]
    BY <2>3 DEF Instance, Prop
  <2> HIDE DEF i, v
  <2>5. tree'[p] = i /\ \A x \in Path \ {p} : tree'[x] = tree[x]
    BY <2>1 DEF TypeInv, TreeInv
  <2>6. \A x \in Path \ {p} : disk'[x] = disk[x]
    BY <2>2 DEF TypeInv, DiskInv
  <2>7. \A x \in Path \ {p} : Agrees(x)' <=> Agrees(x)
    BY <2>5, <2>6 DEF Agrees
  <2>8. \A x \in Path : Covered(x) => Covered(x)'
    <3>1. CASE events' = events
      BY <3>1 DEF Covered, At
    <3>2. CASE events' = Append(events, p)
      BY <1>1, <2>1, <3>2, CoveredByNew
    <3>3. QED BY <2>2, <3>1, <3>2
  <2>9. Agrees(p) \/ Covered(p) => Agrees(p)' \/ Covered(p)'
    <3>1. CASE w.prop = "Source" /\ HasParent(p)
      BY <1>1, <2>1, <2>2, <3>1, CoveredByNew DEF At
    <3>2. CASE w.prop = "Source" /\ ~HasParent(p)
      <4>1. p \notin Existing
        BY <2>1, <3>2, ParentIs, BelowParent DEF HasParent, TypeInv, DiskInv, Place
      <4>2. ~Agrees(p)
        BY <2>1, <2>3, <4>1 DEF Agrees, Existing
      <4>3. QED BY <2>1, <2>8, <4>2
    <3>3. CASE w.prop # "Source"
      BY <2>1, <2>2, <2>3, <2>4, <2>5, <2>8, <3>3 DEF Agrees
    <3>4. QED BY <3>1, <3>2, <3>3
  <2>10. QED BY <1>1, <2>7, <2>8, <2>9 DEF CoverInv
<1>4. QED BY <1>2, <1>3

\* When the ChangeProcessor has nothing left to do, the tree has exactly the
\* instances and the sources of the disk, however late and in whatever order
\* the watcher's events and the plugin's writes came, unless an event was
\* given up because a file vanished while it was read.
THEOREM TreeFollowsDisk == Spec => []TreeMatchesDisk
<1>1. Init => CoverInv
  <2> SUFFICES ASSUME Init PROVE CoverInv
    OBVIOUS
  <2>1. /\ InTree = Existing /\ work = None
        /\ \A p \in InTree : tree[p].props = PropsOf(disk[p])
    BY TreeInit DEF Init
  <2>2. \A p \in Path : Agrees(p)
    BY <2>1 DEF Agrees, InTree, Existing, PropsOf, Prop
  <2>3. QED BY <2>1, <2>2 DEF CoverInv
<1>2. TypeInv /\ CoverInv /\ [Next]_vars => CoverInv'
  <2> SUFFICES ASSUME TypeInv, CoverInv, [Next]_vars PROVE CoverInv'
    OBVIOUS
  <2>1. ASSUME NEW p \in Path, NEW c \in Content, WriteFile(p, c) PROVE CoverInv'
    <3>1. disk' = [disk EXCEPT ![p] = c] /\ events' = Append(events, p)
          /\ UNCHANGED <<skipped, tree, work>>
      BY <2>1 DEF WriteFile, Touch, serverVars
    <3>2. \A x \in Path \ At(p) : disk'[x] = disk[x]
      BY <3>1 DEF At, TypeInv, DiskInv
    <3>3. QED BY <3>1, <3>2, TouchKeepsCover
  <2>2. ASSUME NEW p \in Path, MakeFolder(p) PROVE CoverInv'
    <3>1. disk' = [disk EXCEPT ![p] = "dir"] /\ events' = Append(events, p)
          /\ UNCHANGED <<skipped, tree, work>>
      BY <2>2 DEF MakeFolder, Touch, serverVars
    <3>2. \A x \in Path \ At(p) : disk'[x] = disk[x]
      BY <3>1 DEF At, TypeInv, DiskInv
    <3>3. QED BY <3>1, <3>2, TouchKeepsCover
  <2>3. ASSUME NEW p \in Path, Delete(p) PROVE CoverInv'
    <3>1. /\ disk' = [q \in Path |-> IF q = p \/ q \in Below[p] THEN None ELSE disk[q]]
          /\ events' = Append(events, p)
          /\ UNCHANGED <<skipped, tree, work>>
      BY <2>3 DEF Delete, Touch, serverVars
    <3>2. \A x \in Path \ At(p) : disk'[x] = disk[x]
      BY <3>1 DEF At
    <3>3. QED BY <3>1, <3>2, TouchKeepsCover
  <2>4. CASE TakeEvent
    BY <2>4, TakeKeepsCover
  <2>5. CASE ApplyEvent
    BY <2>5, ApplyKeepsCover
  <2>6. CASE SkipEvent
    BY <2>6 DEF SkipEvent, CoverInv
  <2>7. ASSUME NEW w \in writes, HandleWrite(w) PROVE CoverInv'
    BY <2>7, WriteKeepsCover
  <2>8. CASE UNCHANGED <<disk, events, work, skipped, tree>>
    BY <2>8 DEF CoverInv, Agrees, Covered, At, Existing
  <2>9. QED
    BY <2>1, <2>2, <2>3, <2>4, <2>5, <2>6, <2>7, <2>8
    DEF Next, Disk, Processor, Push, ReadCursor, ReadTree, OpenSocket, Socket, Deliver, RenderPanics,
        ApplyMessage, Studio, StudioEdit, vars, diskVars, serverVars
<1>3. CoverInv => TreeMatchesDisk
  <2> SUFFICES ASSUME CoverInv, events = << >>, work = None, ~skipped
               PROVE  /\ InTree = Existing
                      /\ \A p \in InTree : tree[p].props["Source"] = disk[p]
    BY DEF TreeMatchesDisk
  <2>1. \A p \in Path : ~Covered(p)
    BY EmptySeq DEF Covered
  <2>2. \A p \in Path : Agrees(p)
    BY <2>1 DEF CoverInv
  <2>3. QED BY <2>2 DEF Agrees, InTree, Existing
<1>4. QED BY <1>1, <1>2, <1>3, TypesHold, PTL DEF Spec

-----------------------------------------------------------------------------
(***************************************************************************)
(* Studio: when nothing is on its way it shows the server's tree, and the  *)
(* plugin never meets an addition without a parent.  Both need to know     *)
(* what the messages that are still on their way say, so they rest on      *)
(* invariants of the log and of the wire.                                  *)
(***************************************************************************)

(* The invariants.  b is what every referent was born as: its place and    *)
(* its parent, which never change, whether or not it is still alive.       *)

\* The messages that were or will be sent.
Log == IF unsent = None THEN messages ELSE Append(messages, unsent)

Birth == UNION {[D -> [path : Path, parent : Nat]] : D \in SUBSET Nat}

\* The instances of the tree are where they were born.
Born(b) ==
  /\ \A id \in DOMAIN b : id > 0 /\ id < nextId
  /\ \A id \in DOMAIN b :
       IF b[id].parent = RootId THEN Parent(b[id].path) = Root
       ELSE b[id].parent \in DOMAIN b /\ b[b[id].parent].path = Parent(b[id].path)
  /\ \A p \in InTree : /\ tree[p].id \in DOMAIN b
                       /\ b[tree[p].id].path = p /\ b[tree[p].id].parent = IdOf(Parent(p))

Updated(j, id, k) == \E u \in Log[j].updated : u.id = id /\ u.prop = k

\* The log is about referents that were born, and is only pushed to while no
\* event is processed.
LogIsKnown(b) ==
  /\ work # None => unsent = None
  /\ \A j \in 1..Len(Log) : /\ Log[j].added \subseteq DOMAIN b
                            /\ Log[j].removed \subseteq DOMAIN b
                            /\ \A u \in Log[j].updated : u.id \in DOMAIN b

\* An addition is logged once, and not before that of its parent.
LogIsOrdered(b) ==
  /\ \A i, j \in 1..Len(Log) : \A id \in Log[i].added : id \in Log[j].added => i = j
  /\ \A i \in 1..Len(Log), id \in DOMAIN b :
       b[id].parent \in Log[i].added => \E j \in i..Len(Log) : id \in Log[j].added

\* What was removed is dead, with all that was there; what is there now was
\* added later.  What is dead was removed, or something above it was.
LogIsFinal(b) ==
  /\ \A j \in 1..Len(Log) : \A id \in Log[j].removed :
       /\ id \notin Ids
       /\ \A p \in InTree \intersect At(b[id].path) :
            \E l \in (j + 1)..Len(Log) : tree[p].id \in Log[l].added
  /\ \A id \in DOMAIN b \ Ids :
       \/ \E j \in 1..Len(Log) : id \in Log[j].removed
       \/ b[id].parent # RootId /\ b[id].parent \notin Ids

\* The last update of a property has the value it has.
LogIsCurrent ==
  \A j \in 1..Len(Log) : \A u \in Log[j].updated, p \in InTree :
    tree[p].id = u.id =>
      \/ tree[p].props[u.prop] = u.value
      \/ \E l \in (j + 1)..Len(Log) : Updated(l, u.id, u.prop)

ServerInv(b) == Born(b) /\ LogIsKnown(b) /\ LogIsOrdered(b) /\ LogIsFinal(b) /\ LogIsCurrent

\* How much of the log the plugin has applied.
Base == cursor - Len(wire)

\* A map has only what was not removed up to the n-th message.
Named(b, map, n) ==
  \A id \in DOMAIN map : /\ id \in DOMAIN b
                         /\ map[id].path = b[id].path /\ map[id].parent = b[id].parent
                         /\ \A j \in 1..n : id \notin Log[j].removed

\* The wire has the log up to the cursor, with the additions as they were
\* rendered.
WireIsLog(b) ==
  \A i \in 1..Len(wire) : /\ wire[i].removed = Log[Base + i].removed
                          /\ wire[i].updated = Log[Base + i].updated
                          /\ Log[Base + i].added \subseteq DOMAIN wire[i].added
                          /\ Named(b, wire[i].added, Base + i)

\* Every instance is known or will be added, and the known ones have their
\* parents.
KnownIsWhole(b) ==
  /\ Named(b, known, Base)
  /\ \A id \in Ids : id \in DOMAIN known \/ \E j \in (Base + 1)..Len(Log) : id \in Log[j].added
  /\ \A id \in DOMAIN known : b[id].parent = RootId \/ b[id].parent \in DOMAIN known

\* The removals after the m-th message and up to the n-th leave p alone.
Spared(b, p, m, n) == \A j \in (m + 1)..n : \A id \in Log[j].removed : p \notin At(b[id].path)

\* What is known now, or comes with the i-th message on the wire.
Source(i) == IF i = 0 THEN DOMAIN known ELSE DOMAIN wire[i].added

\* The parent of an addition comes with it, or came before and stays.
WireHasParents(b) ==
  \A i \in 1..Len(wire) : \A id \in DOMAIN wire[i].added :
    \/ b[id].parent = RootId
    \/ b[id].parent \in DOMAIN wire[i].added
    \/ \E s \in 0..(i - 1) : /\ b[id].parent \in Source(s)
                             /\ Spared(b, b[b[id].parent].path, Base + s, Base + i)

\* A value that differs from the tree's has an update on its way, or a write.
KnownIsCurrent ==
  \A id \in DOMAIN known, p \in InTree, k \in Prop :
    tree[p].id = id =>
      \/ known[id].props[k] = tree[p].props[k]
      \/ \E j \in (Base + 1)..Len(Log) : Updated(j, id, k)
      \/ \E w \in writes : w.id = id /\ w.prop = k
WireIsCurrent ==
  \A i \in 1..Len(wire) : \A id \in DOMAIN wire[i].added, p \in InTree, k \in Prop :
    tree[p].id = id =>
      \/ wire[i].added[id].props[k] = tree[p].props[k]
      \/ \E j \in (Base + i)..Len(Log) : Updated(j, id, k)

PluginInv(b) ==
  /\ Len(wire) <= cursor
  /\ client \in {"away", "reading"} => wire = << >>
  /\ client \in {"confirming", "live"} =>
       /\ WireIsLog(b) /\ KnownIsWhole(b) /\ WireHasParents(b)
       /\ KnownIsCurrent /\ WireIsCurrent

StudioInv == \E b \in Birth : ServerInv(b) /\ PluginInv(b)

-----------------------------------------------------------------------------
(* The log.                                                                *)

\* The log extends the messages that were pushed.
LEMMA LogIs ==
  ASSUME TypeInv
  PROVE  /\ Log \in Seq(Patch) /\ Len(Log) \in Nat /\ Len(messages) \in Nat
         /\ cursor \in Nat /\ cursor <= Len(messages) /\ Len(messages) <= Len(Log)
         /\ \A j \in 1..Len(messages) : Log[j] = messages[j]
         /\ \A j \in 1..Len(Log) : Log[j] \in Patch
<1>1. /\ messages \in Seq(Patch) /\ Len(messages) \in Nat
      /\ cursor \in Nat /\ cursor <= Len(messages)
      /\ unsent # None => unsent \in Patch
  BY LenProperties DEF TypeInv, LogInv
<1>2. /\ Log \in Seq(Patch) /\ Len(Log) \in Nat /\ Len(messages) <= Len(Log)
      /\ \A j \in 1..Len(messages) : Log[j] = messages[j]
  <2>1. CASE unsent = None
    BY <1>1, <2>1 DEF Log
  <2>2. CASE unsent # None
    BY <1>1, <2>2, AppendProperties DEF Log
  <2>3. QED BY <2>1, <2>2
<1>3. \A j \in 1..Len(Log) : Log[j] \in Patch
  BY <1>2, ElementOfSeq
<1>4. QED BY <1>1, <1>2, <1>3

\* How the log grows by a patch.
LEMMA LogGrows ==
  ASSUME TypeInv, NEW P \in Patch, Log' = Append(Log, P)
  PROVE  /\ Len(Log') = Len(Log) + 1 /\ Len(Log') \in Nat
         /\ \A j \in 1..Len(Log) : Log'[j] = Log[j]
         /\ Log'[Len(Log) + 1] = P
BY LogIs, AppendProperties

\* What a patch that goes into the log says of what has become of the tree.
Change(P) ==
  /\ nextId <= nextId'
  /\ \A p \in InTree \intersect InTree' : tree'[p].id = tree[p].id
  /\ \A p \in InTree' \ InTree : tree'[p].id \in P.added
  /\ \A id \in P.added : nextId <= id /\ id \in Ids'
  /\ \A p \in InTree \ InTree' : tree[p].id \in P.removed \/ Parent(p) \in InTree \ InTree'
  /\ \A id \in P.removed : \E r \in InTree : tree[r].id = id /\ At(r) \intersect InTree' = {}
  /\ \A p \in InTree \intersect InTree', k \in Prop :
       \/ tree'[p].props[k] = tree[p].props[k]
       \/ \E u \in P.updated : u.id = tree[p].id /\ u.prop = k
  /\ \A u \in P.updated : \E p \in InTree \intersect InTree' :
       tree[p].id = u.id /\ tree'[p].props[u.prop] = u.value

\* Computing and applying a patch makes the changes the patch says, and an
\* empty patch makes none (compute_and_apply_changes).
LEMMA ApplyIsChange ==
  ASSUME TypeInv, ApplyEvent, unsent = None
  PROVE  \/ UNCHANGED <<tree, nextId, unsent>>
         \/ \E P \in Patch : Change(P) /\ unsent' = P
<1> DEFINE q == work.path
           new == Seen \ InTree
           ids == FreshIds(new, nextId)
           P == Applied(q, Seen).patch
           T == [p \in Path |->
                   IF p \in new THEN [id |-> ids[p], props |-> PropsOf(disk[p])]
                   ELSE IF p \in Seen THEN [tree[p] EXCEPT !.props = PropsOf(disk[p])]
                   ELSE IF p \in At(q) THEN None
                   ELSE tree[p]]
           top == RemovedPaths(q, Seen)
<1>1. DiskInv /\ TreeInv /\ WorkInv /\ work # None
  BY DEF TypeInv, ApplyEvent
<1>2. /\ P.added = {ids[p] : p \in new}
      /\ P.updated = ChangedUpdates(Seen)
      /\ P.removed = {tree[p].id : p \in top}
      /\ \A p \in top : p \in InTree /\ p \in At(q) /\ At(p) \intersect Seen = {}
      /\ \A p \in (InTree \intersect At(q)) \ Seen : \E s \in top : p \in At(s)
      /\ Applied(q, Seen).tree = T
  BY <1>1, AppliedIsExact
<1>3. /\ tree' = T
      /\ nextId' = nextId + Cardinality(P.added)
      /\ unsent' = IF P = EmptyPatch THEN None ELSE P
  <2>1. /\ tree' = Applied(q, Seen).tree
        /\ nextId' = nextId + Cardinality(P.added)
        /\ unsent' = IF P = EmptyPatch THEN None ELSE P
    BY DEF ApplyEvent, Seen
  <2>2. QED BY <1>2, <2>1
<1>4. /\ TreeInv' /\ IdsStay
      /\ InTree' = (InTree \ At(q)) \union Seen
      /\ \A p \in Seen : tree'[p].props = PropsOf(disk[p])
      /\ \A p \in Path \ At(q) : tree'[p] = tree[p]
      /\ unsent' # None => unsent' \in Patch
  BY ApplyKeepsTree
<1>5. /\ Seen \subseteq Existing /\ Seen \subseteq Path /\ Seen \subseteq At(q)
      /\ q \in Place /\ InTree \subseteq Path /\ nextId \in Nat
  BY <1>1 DEF WorkInv, Seen, DiskInv, Existing, InTree, TreeInv
<1>6. IsFiniteSet(new)
  <2>1. new \in SUBSET Existing
    BY <1>5
  <2>2. QED BY <1>1, <2>1, FS_Subset DEF DiskInv
<1>7. \A p \in new : ids[p] >= nextId /\ ids[p] \in Nat
  <2>1. ids \in [new -> nextId..(nextId + Cardinality(new) - 1)]
    BY <1>5, <1>6, FreshIdsAreFresh
  <2> HIDE DEF ids, new
  <2>2. QED BY <1>5, <2>1
<1> HIDE DEF ids, P, T, top
<1>8. ASSUME NEW p \in new PROVE tree'[p].id = ids[p] /\ p \in Path
  <2>1. tree'[p] = [id |-> ids[p], props |-> PropsOf(disk[p])]
    BY <1>3, <1>5 DEF T
  <2>2. QED BY <1>5, <2>1
<1>9. ASSUME NEW p \in InTree \intersect InTree' PROVE tree'[p].id = tree[p].id
  <2>1. CASE p \in At(q)
    <3>1. p \in Seen /\ p \in Path /\ tree[p] \in Instance
      BY <1>1, <1>4, <1>5, <2>1 DEF InTree, TreeInv
    <3>2. tree'[p] = [tree[p] EXCEPT !.props = PropsOf(disk[p])]
      BY <1>3, <3>1 DEF T
    <3>3. QED BY <3>1, <3>2 DEF Instance
  <2>2. CASE p \notin At(q)
    BY <1>4, <1>5, <2>2
  <2>3. QED BY <2>1, <2>2
<1>10. \A p \in InTree' \ InTree : p \in new /\ tree'[p].id \in P.added
  BY <1>2, <1>4, <1>8
<1>11. \A id \in P.added : nextId <= id /\ id \in Ids'
  <2>1. \A p \in new : nextId <= ids[p] /\ p \in InTree' /\ tree'[p].id = ids[p]
    BY <1>4, <1>5, <1>7, <1>8
  <2>2. QED BY <1>2, <2>1 DEF Ids
<1>12. ASSUME NEW s \in top PROVE At(s) \intersect InTree' = {} /\ s \in Path
  BY <1>2, <1>4, <1>5, BelowIsTransitive DEF At
<1>13. ASSUME NEW p \in InTree \ InTree'
       PROVE  \/ p \in top
              \/ Parent(p) \in InTree \ InTree'
  <2>1. PICK s \in top : p \in At(s)
    BY <1>2, <1>4
  <2>2. CASE p \in Below[s]
    <3>1. s \in Place /\ s \in InTree
      BY <1>2, <1>12 DEF Place
    <3>2. p \in Path /\ Parent(p) \in At(s)
      BY <2>2, <3>1, ParentBelow DEF At
    <3>3. Parent(p) \notin InTree'
      BY <1>12, <3>2
    <3>4. Parent(p) \in Path /\ p \in Below[Parent(p)]
      BY <1>12, <3>1, <3>2, BelowIs, BelowParent DEF At
    <3>5. Parent(p) \in InTree
      BY <1>1, <3>4 DEF TreeInv
    <3>6. QED BY <3>3, <3>5
  <2>3. QED BY <2>1, <2>2 DEF At
<1>14. ASSUME NEW p \in InTree \intersect InTree', NEW k \in Prop
       PROVE  \/ tree'[p].props[k] = tree[p].props[k]
              \/ \E u \in P.updated : u.id = tree[p].id /\ u.prop = k
  <2>1. CASE p \notin At(q)
    BY <1>4, <1>5, <2>1
  <2>2. CASE p \in At(q) /\ tree'[p].props[k] # tree[p].props[k]
    <3> DEFINE u == [id |-> tree[p].id, prop |-> k, value |-> PropsOf(disk[p])[k]]
    <3>1. p \in Seen /\ tree'[p].props = PropsOf(disk[p])
      BY <1>4, <2>2
    <3>2. u \in Updates(Seen)
      BY <3>1 DEF Updates
    <3>3. u.id = tree[p].id /\ u.prop = k /\ u.value = PropsOf(disk[p])[k]
      OBVIOUS
    <3>4. PathOf(tree[p].id) = p
      BY <1>1, PathOfIs
    <3> HIDE DEF u
    <3>5. u \in ChangedUpdates(Seen)
      BY <2>2, <3>1, <3>2, <3>3, <3>4 DEF ChangedUpdates
    <3>6. QED BY <1>2, <3>3, <3>5
  <2>3. QED BY <2>1, <2>2
<1>15. ASSUME NEW u \in P.updated
       PROVE  \E p \in InTree \intersect InTree' :
                tree[p].id = u.id /\ tree'[p].props[u.prop] = u.value
  <2>1. u \in Updates(Seen)
    BY <1>2 DEF ChangedUpdates
  <2>2. PICK p \in Seen \intersect InTree, k \in Prop :
          u = [id |-> tree[p].id, prop |-> k, value |-> PropsOf(disk[p])[k]]
    BY <2>1 DEF Updates
  <2>3. u.id = tree[p].id /\ u.prop = k /\ u.value = PropsOf(disk[p])[k]
    BY <2>2
  <2>4. QED BY <1>4, <2>3
<1>16. Change(P)
  <2>1. nextId <= nextId'
    BY <1>4 DEF IdsStay
  <2>2. \A id \in P.removed : \E r \in InTree : tree[r].id = id /\ At(r) \intersect InTree' = {}
    BY <1>2, <1>12
  <2>3. \A p \in InTree \ InTree' : tree[p].id \in P.removed \/ Parent(p) \in InTree \ InTree'
    BY <1>2, <1>13
  <2>4. QED BY <1>9, <1>10, <1>11, <1>14, <1>15, <2>1, <2>2, <2>3 DEF Change
<1>17. CASE P # EmptyPatch
  <2>1. unsent' = P
    BY <1>3, <1>17
  <2>2. P \in Patch
    <3>1. P.added \in SUBSET Nat
      BY <1>2, <1>7
    <3>2. P.removed \in SUBSET Nat
      BY <1>1, <1>2 DEF TreeInv
    <3>3. P.updated \in SUBSET Update
      BY <1>1, <1>2, <1>5, ChangedUpdatesType
    <3>4. P = [removed |-> P.removed, added |-> P.added, updated |-> P.updated]
      BY DEF P, Applied
    <3>5. QED BY <3>1, <3>2, <3>3, <3>4 DEF Patch
  <2>3. QED BY <1>16, <2>1, <2>2
<1>18. CASE P = EmptyPatch
  <2>1. P.added = {} /\ P.removed = {} /\ P.updated = {}
    BY <1>18 DEF EmptyPatch
  <2>2. unsent' = unsent
    BY <1>3, <1>18
  <2>3. nextId' = nextId
    BY <1>3, <1>5, <2>1, FS_EmptySet
  <2>4. InTree' = InTree
    <3>1. InTree' \subseteq InTree
      BY <1>10, <2>1
    <3>2. top = {}
      <4>1. \A p \in top : tree[p].id \in P.removed
        BY <1>2
      <4>2. QED BY <2>1, <4>1
    <3>3. QED BY <1>2, <1>4, <3>1, <3>2
  <2>5. ASSUME NEW p \in Path PROVE tree'[p] = tree[p]
    <3>1. CASE p \notin InTree
      BY <2>4, <3>1 DEF InTree
    <3>2. CASE p \in InTree
      <4>1. tree[p] \in Instance /\ tree'[p] \in Instance
        BY <1>1, <1>4, <2>4, <3>2 DEF TreeInv, InTree
      <4>2. tree'[p].id = tree[p].id
        BY <1>9, <2>4, <3>2
      <4>3. \A k \in Prop : tree'[p].props[k] = tree[p].props[k]
        BY <1>14, <2>1, <2>4, <3>2
      <4>4. tree'[p].props = tree[p].props
        BY <4>1, <4>3 DEF Instance
      <4>5. QED BY <4>1, <4>2, <4>4 DEF Instance
    <3>3. QED BY <3>1, <3>2
  <2>6. tree' = tree
    BY <1>1, <1>4, <2>5 DEF TreeInv
  <2>7. QED BY <2>2, <2>3, <2>6
<1>19. QED BY <1>17, <1>18

\* A write from Studio makes the change that goes into the log, or none if its
\* instance is gone (handle_tree_event).
LEMMA WriteIsChange ==
  ASSUME TypeInv, NEW w \in writes, HandleWrite(w)
  PROVE  \/ w.id \notin Ids /\ UNCHANGED <<tree, nextId, unsent>>
         \/ \E P \in Patch : /\ Change(P) /\ unsent' = P
                             /\ \E u \in P.updated : u.id = w.id /\ u.prop = w.prop
<1>1. CASE w.id \notin Ids
  BY <1>1 DEF HandleWrite
<1>2. CASE w.id \in Ids
  <2> DEFINE u == [id |-> w.id, prop |-> w.prop, value |-> w.value]
             P == [removed |-> {}, added |-> {}, updated |-> {u}]
  <2>0. PICK p \in InTree : p = PathOf(w.id)
    BY <1>2, WriteTarget
  <2> DEFINE v == [tree[p].props EXCEPT ![w.prop] = w.value]
  <2>1. /\ tree[p].id = w.id /\ p \in Path /\ tree[p] \in Instance
        /\ tree' = [tree EXCEPT ![p] = [id |-> w.id, props |-> v]]
    <3>1. tree[p].id = w.id /\ tree' = [tree EXCEPT ![p] = [id |-> w.id, props |-> v]]
      BY <1>2, <2>0, WriteTarget
    <3>2. p \in Path /\ tree[p] \in Instance
      BY <2>0 DEF InTree, TypeInv, TreeInv
    <3>3. QED BY <3>1, <3>2
  <2>2. /\ InTree' = InTree /\ nextId' = nextId /\ nextId \in Nat
        /\ \A x \in InTree : tree'[x].id = tree[x].id
    BY WriteKeepsTree DEF TypeInv, TreeInv
  <2>3. unsent' = P
    BY <1>2 DEF HandleWrite, EmptyPatch
  <2>4. P \in Patch
    <3>1. u \in Update
      BY DEF TypeInv, WriteInv, Update, Prop
    <3> HIDE DEF u
    <3>2. QED BY <3>1 DEF Patch
  <2>5. /\ tree'[p].props = v
        /\ \A x \in InTree \ {p} : tree'[x] = tree[x]
    <3>1. tree'[p] = [id |-> w.id, props |-> v]
      BY <2>1 DEF TypeInv, TreeInv
    <3> HIDE DEF v
    <3>2. tree'[p].props = v
      BY <3>1
    <3>3. QED BY <2>1, <3>2 DEF TypeInv, TreeInv, InTree
  <2>6. v[w.prop] = w.value /\ \A k \in Prop \ {w.prop} : v[k] = tree[p].props[k]
    <3>1. w.prop \in Prop
      BY DEF TypeInv, WriteInv, Prop
    <3>2. QED BY <2>1, <3>1 DEF Instance
  <2>7. u.id = w.id /\ u.prop = w.prop /\ u.value = w.value
    OBVIOUS
  <2>8. P.removed = {} /\ P.added = {} /\ P.updated = {u}
    OBVIOUS
  <2> HIDE DEF u, v, P
  <2>9. Change(P)
    <3>1. ASSUME NEW x \in InTree, NEW k \in Prop
          PROVE  tree'[x].props[k] = tree[x].props[k] \/ (u.id = tree[x].id /\ u.prop = k)
      <4>1. CASE x = p
        BY <2>1, <2>5, <2>6, <2>7, <4>1
      <4>2. CASE x # p
        BY <2>5, <4>2
      <4>3. QED BY <4>1, <4>2
    <3>2. tree[p].id = u.id /\ tree'[p].props[u.prop] = u.value
      BY <2>1, <2>5, <2>6, <2>7
    <3>3. QED BY <2>2, <2>8, <3>1, <3>2 DEF Change
  <2>10. QED BY <2>3, <2>4, <2>7, <2>8, <2>9
<1>3. QED BY <1>1, <1>2

\* Nothing happens to the tree that does not go into the log.
Logged == \/ UNCHANGED <<tree, nextId>> /\ Log' = Log
          \/ \E P \in Patch : Change(P) /\ Log' = Append(Log, P)

\* Every step leaves log and tree alone or logs what it does to the tree.
LEMMA LogMoves ==
  ASSUME TypeInv, [Next]_vars, work # None => unsent = None
  PROVE  Logged /\ (work' # None => unsent' = None)
<1>0. \A P \in Patch : P # None
  BY NoneAssumption
<1>1. CASE ApplyEvent
  <2>1. /\ unsent = None /\ work' = None /\ messages' = messages /\ work # None
    BY <1>1 DEF ApplyEvent
  <2>2. CASE UNCHANGED <<tree, nextId, unsent>>
    BY <2>1, <2>2 DEF Log, Logged
  <2>3. ASSUME NEW P \in Patch, Change(P), unsent' = P PROVE Logged
    BY <1>0, <2>1, <2>3 DEF Log, Logged
  <2>4. QED BY <1>1, <2>1, <2>2, <2>3, ApplyIsChange
<1>2. ASSUME NEW w \in writes, HandleWrite(w) PROVE Logged /\ work' = None
  <2>1. /\ unsent = None /\ work = None /\ work' = None /\ messages' = messages
    BY <1>2 DEF HandleWrite, ProcessorIdle
  <2>2. CASE UNCHANGED <<tree, nextId, unsent>>
    BY <2>1, <2>2 DEF Log, Logged
  <2>3. ASSUME NEW P \in Patch, Change(P), unsent' = P PROVE Logged
    BY <1>0, <2>1, <2>3 DEF Log, Logged
  <2>4. QED BY <1>2, <2>1, <2>2, <2>3, WriteIsChange
<1>3. CASE Push
  BY <1>3 DEF Push, Log, Logged
<1>4. CASE TakeEvent
  BY <1>4 DEF TakeEvent, ProcessorIdle, Log, Logged
<1>5. CASE /\ UNCHANGED <<tree, nextId, unsent, messages>>
           /\ work' = work \/ work' = None
  BY <1>5 DEF Log, Logged
<1>6. QED
  BY <1>1, <1>2, <1>3, <1>4, <1>5
  DEF Next, Disk, MakeFolder, Delete, WriteFile, Touch, Processor, SkipEvent,
      ReadCursor, ReadTree, OpenSocket, Socket, Deliver, RenderPanics, ApplyMessage, Studio,
      StudioEdit, vars, serverVars

\* The births of before with those of the new instances.
Extends(b2, b) == /\ DOMAIN b2 = DOMAIN b \union Ids'
                  /\ \A id \in DOMAIN b : b2[id] = b[id]

\* A logged change keeps what the server's invariant says of births.
LEMMA ChangeKeepsBorn ==
  ASSUME TypeInv, TypeInv', NEW b \in Birth, Born(b), NEW P \in Patch, Change(P)
  PROVE  \E b2 \in Birth : Extends(b2, b) /\ Born(b2)'
<1> DEFINE at(id) == CHOOSE p \in InTree' : tree'[p].id = id
           pa(p) == IF Parent(p) = Root THEN RootId ELSE tree'[Parent(p)].id
           new(id) == [path |-> at(id), parent |-> pa(at(id))]
           b2 == [id \in DOMAIN b \union Ids' |-> IF id \in DOMAIN b THEN b[id] ELSE new(id)]
<1>1. TreeInv /\ TreeInv' /\ nextId \in Nat /\ nextId' \in Nat /\ nextId <= nextId'
  BY DEF TypeInv, TreeInv, Change
<1>2. /\ DOMAIN b \in SUBSET Nat
      /\ \A id \in DOMAIN b : b[id] \in [path : Path, parent : Nat]
  <2>1. PICK D \in SUBSET Nat : b \in [D -> [path : Path, parent : Nat]]
    BY DEF Birth
  <2>2. QED BY <2>1
<1>3. \A p \in InTree' : at(tree'[p].id) = p
  <2> SUFFICES ASSUME NEW p \in InTree' PROVE at(tree'[p].id) = p
    OBVIOUS
  <2>1. at(tree'[p].id) \in InTree' /\ tree'[at(tree'[p].id)].id = tree'[p].id
    OBVIOUS
  <2>2. QED BY <1>1, <2>1 DEF TreeInv
<1> HIDE DEF at
<1>4. \A p \in InTree' : /\ p \in Path /\ tree'[p].id \in Nat /\ tree'[p].id > 0
                         /\ tree'[p].id < nextId'
                         /\ Parent(p) = Root \/ Parent(p) \in InTree'
  <2>1. \A p \in InTree' : p \in Path /\ tree'[p].id \in 1..(nextId' - 1)
    BY <1>1 DEF TreeInv, InTree
  <2>2. \A p \in InTree' : Parent(p) = Root \/ Parent(p) \in InTree'
    BY <1>1, <2>1, ParentIs, BelowParent DEF TreeInv, Place
  <2>3. QED BY <1>1, <2>1, <2>2
<1>5. \A p \in InTree' : pa(p) \in Nat /\ (Parent(p) # Root => pa(p) \in Ids' /\ at(pa(p)) = Parent(p))
  BY <1>3, <1>4 DEF Ids, RootId
<1>6. \A p \in InTree' : IdOf(Parent(p))' = pa(p)
  BY DEF IdOf, Parent
<1> HIDE DEF pa
<1>7. \A p \in InTree' \ InTree : tree'[p].id \notin DOMAIN b
  <2>1. \A p \in InTree' \ InTree : tree'[p].id \in Nat /\ nextId <= tree'[p].id
    BY <1>4 DEF Change
  <2>2. \A id \in DOMAIN b : id \in Nat /\ id < nextId
    BY <1>2 DEF Born
  <2>3. QED BY <1>1, <2>1, <2>2
<1>8. DOMAIN b2 = DOMAIN b \union Ids' /\ Ids' \subseteq Nat
  BY <1>4 DEF Ids
<1>9. \A id \in DOMAIN b : b2[id] = b[id]
  OBVIOUS
<1>10. ASSUME NEW p \in InTree'
       PROVE  b2[tree'[p].id].path = p /\ b2[tree'[p].id].parent = pa(p)
  <2>1. tree'[p].id \in Ids'
    BY DEF Ids
  <2>2. CASE p \notin InTree
    <3>1. b2[tree'[p].id] = new(tree'[p].id)
      BY <1>7, <2>1, <2>2
    <3>2. QED BY <1>3, <3>1
  <2>3. CASE p \in InTree
    <3>1. /\ tree'[p].id = tree[p].id /\ tree[p].id \in DOMAIN b
          /\ b[tree[p].id].path = p /\ b[tree[p].id].parent = IdOf(Parent(p))
      BY <2>3 DEF Born, Change
    <3>2. IdOf(Parent(p)) = pa(p)
      <4>1. CASE Parent(p) = Root
        BY <4>1 DEF IdOf, pa
      <4>2. CASE Parent(p) # Root
        <5>1. Parent(p) \in InTree' /\ Parent(p) \in InTree
          BY <1>1, <1>4, <2>3, <4>2, ParentIs, BelowParent DEF TreeInv, Place
        <5>2. QED BY <4>2, <5>1 DEF IdOf, pa, Change
      <4>3. QED BY <4>1, <4>2
    <3>3. QED BY <1>9, <3>1, <3>2
  <2>4. QED BY <2>2, <2>3
<1>11. \A id \in Ids' : \E p \in InTree' : tree'[p].id = id
  BY DEF Ids
<1>12. b2 \in Birth
  <2>1. ASSUME NEW id \in DOMAIN b \union Ids' PROVE b2[id] \in [path : Path, parent : Nat]
    <3>1. CASE id \in DOMAIN b
      BY <1>2, <3>1
    <3>2. CASE id \notin DOMAIN b
      <4>1. PICK p \in InTree' : tree'[p].id = id
        BY <1>11, <2>1, <3>2
      <4>2. b2[id] = [path |-> p, parent |-> pa(p)]
        BY <1>3, <2>1, <3>2, <4>1
      <4>3. QED BY <1>4, <1>5, <4>2
    <3>3. QED BY <3>1, <3>2
  <2>2. b2 \in [DOMAIN b \union Ids' -> [path : Path, parent : Nat]]
    BY <2>1
  <2>3. DOMAIN b \union Ids' \in SUBSET Nat
    BY <1>2, <1>8
  <2> HIDE DEF b2
  <2>4. QED BY <2>2, <2>3 DEF Birth
<1>pick. PICK g \in Birth : g = b2
  BY <1>12
<1>same. /\ DOMAIN g = DOMAIN b \union Ids' /\ \A id \in DOMAIN b : g[id] = b[id]
      /\ \A p \in InTree' : g[tree'[p].id].path = p /\ g[tree'[p].id].parent = pa(p)
  BY <1>8, <1>9, <1>10, <1>pick
<1> HIDE DEF b2
<1>13. \A id \in DOMAIN g : id > 0 /\ id < nextId'
  <2>1. \A id \in DOMAIN b : id \in Nat /\ id > 0 /\ id < nextId
    BY <1>2 DEF Born
  <2>2. ASSUME NEW id \in Ids' PROVE id > 0 /\ id < nextId'
    BY <1>4, <1>11
  <2>3. \A id \in DOMAIN b : id < nextId'
    BY <1>1, <2>1
  <2>4. QED BY <1>same, <2>1, <2>2, <2>3
<1>14. ASSUME NEW id \in DOMAIN g
       PROVE  IF g[id].parent = RootId THEN Parent(g[id].path) = Root
              ELSE g[id].parent \in DOMAIN g /\ g[g[id].parent].path = Parent(g[id].path)
  <2>1. CASE id \in DOMAIN b
    BY <1>same, <2>1 DEF Born
  <2>2. CASE id \notin DOMAIN b
    <3>1. PICK p \in InTree' : tree'[p].id = id
      BY <1>same, <1>11, <2>2
    <3>2. g[id].path = p /\ g[id].parent = pa(p)
      BY <1>same, <3>1
    <3>3. CASE Parent(p) = Root
      BY <3>2, <3>3 DEF pa
    <3>4. CASE Parent(p) # Root
      <4>1. Parent(p) \in InTree' /\ pa(p) = tree'[Parent(p)].id
        BY <1>4, <3>4 DEF pa
      <4>2. g[pa(p)].path = Parent(p) /\ pa(p) \in DOMAIN g
        BY <1>same, <4>1 DEF Ids
      <4>3. pa(p) # RootId
        BY <1>4, <4>1 DEF RootId
      <4>4. QED BY <3>2, <4>2, <4>3
    <3>5. QED BY <3>3, <3>4
  <2>3. QED BY <2>1, <2>2
<1>15. \A p \in InTree' : tree'[p].id \in DOMAIN g
  BY <1>same DEF Ids
<1>16. Born(g)'
  BY <1>6, <1>same, <1>13, <1>14, <1>15 DEF Born
<1>17. QED BY <1>same, <1>12, <1>16 DEF Extends

\* What dies stays dead, and what is born is new.
LEMMA ChangeOfIds ==
  ASSUME TypeInv, TypeInv', NEW b \in Birth, Born(b), NEW P \in Patch, Change(P)
  PROVE  /\ \A id \in DOMAIN b : id \in Nat /\ id < nextId /\ id # RootId
         /\ \A id \in P.added : id \notin DOMAIN b /\ id # RootId
         /\ Ids' \subseteq Ids \union P.added
         /\ Ids \subseteq DOMAIN b
         /\ \A p \in InTree' : \/ p \in InTree /\ tree'[p].id = tree[p].id
                               \/ p \notin InTree /\ tree'[p].id \in P.added
         /\ \A p \in InTree \ InTree' : tree[p].id \notin Ids'
<1>1. TreeInv /\ TreeInv' /\ nextId \in Nat /\ nextId > 0
  BY DEF TypeInv, TreeInv
<1>2. \A id \in DOMAIN b : id \in Nat /\ id < nextId /\ id # RootId
  <2>1. DOMAIN b \in SUBSET Nat
    BY DEF Birth
  <2>2. QED BY <2>1 DEF Born, RootId
<1>3. \A id \in P.added : id \notin DOMAIN b /\ id # RootId
  <2>1. \A id \in P.added : id \in Nat /\ nextId <= id
    BY DEF Change, Patch
  <2>2. QED BY <1>1, <1>2, <2>1 DEF RootId
<1>4. \A p \in InTree' : \/ p \in InTree /\ tree'[p].id = tree[p].id
                         \/ p \notin InTree /\ tree'[p].id \in P.added
  BY DEF Change
<1>5. Ids' \subseteq Ids \union P.added
  BY <1>4 DEF Ids
<1>6. Ids \subseteq DOMAIN b
  BY DEF Ids, Born
<1>7. ASSUME NEW p \in InTree \ InTree', tree[p].id \in Ids' PROVE FALSE
  <2>1. PICK r \in InTree' : tree'[r].id = tree[p].id
    BY <1>7 DEF Ids
  <2>2. tree[p].id \in DOMAIN b
    BY DEF Born
  <2>3. r \in InTree /\ tree[r].id = tree[p].id
    BY <1>3, <1>4, <2>1, <2>2
  <2>4. r = p
    BY <1>1, <2>3 DEF TreeInv
  <2>5. QED BY <2>1, <2>4
<1>8. QED BY <1>2, <1>3, <1>4, <1>5, <1>6, <1>7

\* A logged change keeps the invariant of the log.
LEMMA ChangeKeepsLog ==
  ASSUME TypeInv, TypeInv', NEW b \in Birth, ServerInv(b), NEW P \in Patch, Change(P),
         Log' = Append(Log, P), work' # None => unsent' = None,
         NEW b2 \in Birth, Extends(b2, b), Born(b2)'
  PROVE  ServerInv(b2)'
<1> DEFINE n == Len(Log)
<1>1. /\ n \in Nat /\ Len(Log') = n + 1
      /\ \A j \in 1..n : Log'[j] = Log[j]
      /\ Log'[n + 1] = P
  BY LogIs, LogGrows
<1>2. Born(b) /\ LogIsKnown(b) /\ LogIsOrdered(b) /\ LogIsFinal(b) /\ LogIsCurrent
  BY DEF ServerInv
<1>3. /\ \A id \in DOMAIN b : id \in Nat /\ id < nextId /\ id # RootId
      /\ \A id \in P.added : id \notin DOMAIN b /\ id # RootId
      /\ Ids' \subseteq Ids \union P.added
      /\ Ids \subseteq DOMAIN b
      /\ \A p \in InTree' : \/ p \in InTree /\ tree'[p].id = tree[p].id
                            \/ p \notin InTree /\ tree'[p].id \in P.added
      /\ \A p \in InTree \ InTree' : tree[p].id \notin Ids'
  BY <1>2, ChangeOfIds
<1>4. DOMAIN b2 = DOMAIN b \union Ids' /\ \A id \in DOMAIN b : b2[id] = b[id]
  BY DEF Extends
<1>5. ASSUME NEW j \in 1..Len(Log')
      PROVE  \/ j \in 1..n /\ Log'[j] = Log[j]
             \/ j = n + 1 /\ Log'[j] = P
  BY <1>1
<1>6. \A j \in 1..n : j \in 1..Len(Log') /\ j < n + 1
  BY <1>1
<1>7. n + 1 \in 1..Len(Log')
  BY <1>1
<1>8. /\ P.removed \subseteq Ids /\ P.added \subseteq Ids'
      /\ \A u \in P.updated : u.id \in Ids
  BY DEF Change, Ids
<1>9. /\ \A j \in 1..n : /\ Log[j].added \subseteq DOMAIN b
                         /\ Log[j].removed \subseteq DOMAIN b
                         /\ \A u \in Log[j].updated : u.id \in DOMAIN b
  BY <1>2 DEF LogIsKnown
<1>10. LogIsKnown(b2)'
  BY <1>3, <1>4, <1>5, <1>8, <1>9 DEF LogIsKnown
<1>11. LogIsOrdered(b2)'
  <2>1. ASSUME NEW i \in 1..Len(Log'), NEW j \in 1..Len(Log'), NEW id \in Log'[i].added,
               id \in Log'[j].added
        PROVE  i = j
    BY <1>2, <1>3, <1>5, <1>9, <2>1 DEF LogIsOrdered
  <2>2. ASSUME NEW i \in 1..Len(Log'), NEW id \in DOMAIN b2, b2[id].parent \in Log'[i].added
        PROVE  \E j \in i..Len(Log') : id \in Log'[j].added
    <3>1. CASE id \notin DOMAIN b
      <4>1. id \in P.added
        BY <1>3, <1>4, <3>1
      <4>2. n + 1 \in i..Len(Log')
        BY <1>1
      <4>3. QED BY <1>1, <4>1, <4>2
    <3>2. CASE id \in DOMAIN b
      <4>1. b2[id].parent = RootId \/ b2[id].parent \in DOMAIN b
        BY <1>2, <1>4, <3>2 DEF Born
      <4>2. i \in 1..n /\ Log'[i] = Log[i]
        <5>1. i = n + 1 => b2[id].parent \in P.added
          BY <1>1, <2>2
        <5>2. 0 \notin DOMAIN b /\ \A x \in P.added : x # RootId /\ x \notin DOMAIN b
          BY <1>3 DEF RootId
        <5>3. QED BY <1>5, <4>1, <5>1, <5>2
      <4>3. PICK j \in i..n : id \in Log[j].added
        BY <1>2, <1>4, <2>2, <3>2, <4>2 DEF LogIsOrdered
      <4>4. j \in 1..n /\ j \in i..Len(Log')
        BY <1>1, <4>2
      <4>5. QED BY <1>1, <4>3, <4>4
    <3>3. QED BY <3>1, <3>2
  <2>3. QED BY <2>1, <2>2 DEF LogIsOrdered
<1>12. LogIsFinal(b2)'
  <2>1. ASSUME NEW j \in 1..Len(Log'), NEW id \in Log'[j].removed PROVE id \notin Ids'
    <3>1. CASE j \in 1..n /\ Log'[j] = Log[j]
      BY <1>2, <1>3, <1>9, <2>1, <3>1 DEF LogIsFinal
    <3>2. CASE Log'[j] = P
      <4>1. PICK r \in InTree : tree[r].id = id /\ At(r) \intersect InTree' = {}
        BY <2>1, <3>2 DEF Change
      <4>2. r \notin InTree'
        BY <4>1 DEF At
      <4>3. QED BY <1>3, <4>1, <4>2
    <3>3. QED BY <1>5, <3>1, <3>2
  <2>2. ASSUME NEW j \in 1..Len(Log'), NEW id \in Log'[j].removed,
               NEW p \in InTree' \intersect At(b2[id].path)
        PROVE  \E l \in (j + 1)..Len(Log') : tree'[p].id \in Log'[l].added
    <3>1. CASE j \in 1..n /\ Log'[j] = Log[j]
      <4>1. id \in DOMAIN b /\ b2[id] = b[id]
        BY <1>4, <1>9, <2>2, <3>1
      <4>2. CASE p \in InTree
        <5>1. PICK l \in (j + 1)..n : tree[p].id \in Log[l].added
          BY <1>2, <2>2, <3>1, <4>1, <4>2 DEF LogIsFinal
        <5>2. l \in 1..n /\ l \in (j + 1)..Len(Log')
          BY <1>1, <3>1
        <5>3. tree'[p].id = tree[p].id
          BY <1>3, <4>2
        <5>4. QED BY <1>1, <5>1, <5>2, <5>3
      <4>3. CASE p \notin InTree
        <5>1. n + 1 \in (j + 1)..Len(Log')
          BY <1>1, <3>1
        <5>2. tree'[p].id \in P.added
          BY <1>3, <4>3
        <5>3. QED BY <1>1, <5>1, <5>2
      <4>4. QED BY <4>2, <4>3
    <3>2. CASE Log'[j] = P
      <4>1. PICK r \in InTree : tree[r].id = id /\ At(r) \intersect InTree' = {}
        BY <2>2, <3>2 DEF Change
      <4>2. b2[id].path = r
        BY <1>2, <1>4, <4>1 DEF Born
      <4>3. QED BY <4>1, <4>2, <2>2
    <3>3. QED BY <1>5, <3>1, <3>2
  <2>3. ASSUME NEW id \in DOMAIN b2 \ Ids'
        PROVE  \/ \E j \in 1..Len(Log') : id \in Log'[j].removed
               \/ b2[id].parent # RootId /\ b2[id].parent \notin Ids'
    <3>1. id \in DOMAIN b /\ b2[id] = b[id]
      BY <1>4
    <3>2. CASE id \in Ids
      <4>1. PICK p \in InTree : tree[p].id = id
        BY <3>2 DEF Ids
      <4>2. p \notin InTree'
        BY <1>3, <2>3, <4>1 DEF Ids
      <4>3. CASE id \in P.removed
        BY <1>1, <1>7, <4>3
      <4>4. CASE Parent(p) \in InTree \ InTree'
        <5>1. b[id].parent = tree[Parent(p)].id
          <6>1. Parent(p) # Root
            BY <4>4, PathAssumption DEF InTree
          <6>2. QED BY <1>2, <4>1, <6>1 DEF Born, IdOf
        <5>2. tree[Parent(p)].id \in DOMAIN b /\ tree[Parent(p)].id \notin Ids'
          BY <1>2, <1>3, <4>4 DEF Born
        <5>3. QED BY <1>3, <3>1, <5>1, <5>2
      <4>5. QED BY <4>1, <4>2, <4>3, <4>4 DEF Change
    <3>3. CASE id \notin Ids
      <4>1. CASE \E j \in 1..n : id \in Log[j].removed
        BY <1>1, <1>6, <4>1
      <4>2. CASE b[id].parent # RootId /\ b[id].parent \notin Ids
        <5>1. b[id].parent \in DOMAIN b
          BY <1>2, <3>1, <4>2 DEF Born
        <5>2. QED BY <1>3, <3>1, <4>2, <5>1
      <4>3. QED BY <1>2, <3>1, <3>3, <4>1, <4>2 DEF LogIsFinal
    <3>4. QED BY <3>2, <3>3
  <2>4. QED BY <2>1, <2>2, <2>3 DEF LogIsFinal, At
<1>13. LogIsCurrent'
  <2> SUFFICES ASSUME NEW j \in 1..Len(Log'), NEW u \in Log'[j].updated, NEW p \in InTree',
                      tree'[p].id = u.id
               PROVE  \/ tree'[p].props[u.prop] = u.value
                      \/ \E l \in (j + 1)..Len(Log') : Updated(l, u.id, u.prop)'
    BY DEF LogIsCurrent, Updated
  <2>1. CASE Log'[j] = P
    <3>1. PICK r \in InTree \intersect InTree' :
            tree[r].id = u.id /\ tree'[r].props[u.prop] = u.value
      BY <2>1 DEF Change
    <3>2. tree'[r].id = tree'[p].id
      BY <3>1 DEF Change
    <3>3. r = p
      BY <3>2 DEF TypeInv, TreeInv
    <3>4. QED BY <3>1, <3>3
  <2>2. CASE j \in 1..n /\ Log'[j] = Log[j]
    <3>1. u.id \in DOMAIN b /\ u \in Log[j].updated
      BY <1>9, <2>2
    <3>2. p \in InTree /\ tree[p].id = u.id
      BY <1>3, <3>1
    <3>3. CASE \E l \in (j + 1)..n : Updated(l, u.id, u.prop)
      <4>1. PICK l \in (j + 1)..n : Updated(l, u.id, u.prop)
        BY <3>3
      <4>2. l \in 1..n /\ l \in (j + 1)..Len(Log')
        BY <1>1, <2>2
      <4>3. Updated(l, u.id, u.prop)'
        BY <1>1, <4>1, <4>2 DEF Updated
      <4>4. QED BY <4>2, <4>3
    <3>4. CASE tree[p].props[u.prop] = u.value
      <4>1. u.prop \in Prop
        BY <2>2, <3>1, LogIs DEF Patch, Update
      <4>2. CASE tree'[p].props[u.prop] = tree[p].props[u.prop]
        BY <3>4, <4>2
      <4>3. CASE \E v \in P.updated : v.id = tree[p].id /\ v.prop = u.prop
        <5>1. PICK l \in (j + 1)..Len(Log') : l = n + 1
          BY <1>1, <2>2
        <5>2. Updated(l, u.id, u.prop)'
          BY <1>1, <3>2, <4>3, <5>1 DEF Updated
        <5>3. QED BY <5>1, <5>2
      <4>4. QED BY <3>2, <4>1, <4>2, <4>3 DEF Change
    <3>5. QED BY <1>2, <2>2, <3>1, <3>2, <3>3, <3>4 DEF LogIsCurrent
  <2>3. QED BY <1>5, <2>1, <2>2
<1>14. QED BY <1>10, <1>11, <1>12, <1>13 DEF ServerInv

-----------------------------------------------------------------------------
(* The plugin while the server works.                                      *)

NewlyAdded(id) == \E j \in (Len(Log) + 1)..Len(Log') : id \in Log'[j].added
NewlyUpdated(id, k) ==
  \E j \in (Len(Log) + 1)..Len(Log') : \E u \in Log'[j].updated : u.id = id /\ u.prop = k

\* What a step of the server tells the plugin about the tree it leaves.
Announced(b) ==
  /\ Len(Log') \in Nat /\ Len(Log) <= Len(Log')
  /\ \A j \in 1..Len(Log) : Log'[j] = Log[j]
  /\ \A p \in InTree' : \/ p \in InTree /\ tree'[p].id = tree[p].id
                        \/ tree'[p].id \notin DOMAIN b /\ NewlyAdded(tree'[p].id)
  /\ \A p \in InTree \intersect InTree', k \in Prop :
       tree'[p].props[k] = tree[p].props[k] \/ NewlyUpdated(tree[p].id, k)
  /\ \A w \in writes \ writes', p \in InTree' :
       tree'[p].id = w.id => NewlyUpdated(w.id, w.prop)

\* Where the plugin is in the log.
LEMMA BaseIs ==
  ASSUME TypeInv, Len(wire) <= cursor
  PROVE  /\ Base \in Nat /\ Len(wire) \in Nat /\ cursor \in Nat /\ Base + Len(wire) = cursor
         /\ Base <= cursor /\ cursor <= Len(Log) /\ Len(Log) \in Nat
         /\ \A i \in 1..Len(wire) : Base + i \in 1..Len(Log) /\ Base + i <= cursor
<1>1. Len(wire) \in Nat
  BY LenProperties DEF TypeInv, ClientInv
<1>2. cursor \in Nat /\ Len(Log) \in Nat /\ cursor <= Len(Log)
  BY LogIs
<1>3. QED BY <1>1, <1>2 DEF Base

\* A change of the tree that is logged keeps what the plugin relies on.
LEMMA AnnouncedKeepsPlugin ==
  ASSUME TypeInv, TypeInv', NEW b \in Birth, LogIsKnown(b), PluginInv(b), Announced(b),
         UNCHANGED <<client, cursor, wire, known>>,
         NEW b2 \in Birth, DOMAIN b \subseteq DOMAIN b2, \A id \in DOMAIN b : b2[id] = b[id]
  PROVE  PluginInv(b2)'
<1> DEFINE n == Len(Log)
           m == Len(Log')
<1>1. Len(wire) <= cursor
  BY DEF PluginInv
<1>2. /\ Base \in Nat /\ Len(wire) \in Nat /\ Base <= n /\ n \in Nat
      /\ \A i \in 1..Len(wire) : Base + i \in 1..n
  BY <1>1, BaseIs
<1>3. m \in Nat /\ n <= m /\ \A j \in 1..n : Log'[j] = Log[j]
  BY DEF Announced
<1>4. Base' = Base
  BY DEF Base
<1>5. CASE client \in {"away", "reading"}
  BY <1>1, <1>5 DEF PluginInv
<1>6. CASE client \in {"confirming", "live"}
  <2>1. /\ WireIsLog(b) /\ KnownIsWhole(b) /\ WireHasParents(b)
        /\ KnownIsCurrent /\ WireIsCurrent
    BY <1>6 DEF PluginInv
  <2>2. ASSUME NEW map, NEW k \in 0..n, Named(b, map, k)
        PROVE  \A id \in DOMAIN map :
                 /\ id \in DOMAIN b2
                 /\ map[id].path = b2[id].path /\ map[id].parent = b2[id].parent
                 /\ \A j \in 1..k : id \notin Log'[j].removed
    <3>1. \A j \in 1..k : j \in 1..n
      BY <1>2
    <3>2. QED BY <1>3, <2>2, <3>1 DEF Named
  <2>3. WireIsLog(b2)'
    <3> SUFFICES ASSUME NEW i \in 1..Len(wire)
                 PROVE  /\ wire[i].removed = Log'[Base + i].removed
                        /\ wire[i].updated = Log'[Base + i].updated
                        /\ Log'[Base + i].added \subseteq DOMAIN wire[i].added
                        /\ \A id \in DOMAIN wire[i].added :
                             /\ id \in DOMAIN b2
                             /\ wire[i].added[id].path = b2[id].path
                             /\ wire[i].added[id].parent = b2[id].parent
                             /\ \A j \in 1..(Base + i) : id \notin Log'[j].removed
      BY <1>4 DEF WireIsLog, Named
    <3>1. Log'[Base + i] = Log[Base + i] /\ Base + i \in 0..n
      BY <1>2, <1>3
    <3>2. Named(b, wire[i].added, Base + i)
      BY <2>1 DEF WireIsLog
    <3>3. QED BY <2>1, <2>2, <3>1, <3>2 DEF WireIsLog
  <2>4. \A i \in 1..Len(wire) : \A id \in DOMAIN wire[i].added : id \in DOMAIN b
    BY <2>1 DEF WireIsLog, Named
  <2>5. \A id \in DOMAIN known : id \in DOMAIN b
    BY <2>1 DEF KnownIsWhole, Named
  <2>6. KnownIsWhole(b2)'
    <3>1. Named(b2, known, Base)'
      <4>1. Base \in 0..n /\ Named(b, known, Base)
        BY <1>2, <2>1 DEF KnownIsWhole
      <4>2. QED BY <1>4, <2>2, <4>1 DEF Named
    <3>2. ASSUME NEW id \in Ids'
          PROVE  id \in DOMAIN known \/ \E j \in (Base + 1)..m : id \in Log'[j].added
      <4>1. PICK p \in InTree' : tree'[p].id = id
        BY DEF Ids
      <4>2. CASE p \in InTree /\ tree'[p].id = tree[p].id
        <5>1. id \in Ids
          BY <4>1, <4>2 DEF Ids
        <5>2. CASE \E j \in (Base + 1)..n : id \in Log[j].added
          <6>1. PICK j \in (Base + 1)..n : id \in Log[j].added
            BY <5>2
          <6>2. j \in (Base + 1)..m /\ Log'[j] = Log[j]
            BY <1>2, <1>3
          <6>3. QED BY <6>1, <6>2
        <5>3. QED BY <2>1, <5>1, <5>2 DEF KnownIsWhole
      <4>3. CASE NewlyAdded(id)
        <5>1. PICK j \in (n + 1)..m : id \in Log'[j].added
          BY <4>3 DEF NewlyAdded
        <5>2. j \in (Base + 1)..m
          BY <1>2, <1>3
        <5>3. QED BY <5>1, <5>2
      <4>4. QED BY <4>1, <4>2, <4>3 DEF Announced
    <3>3. \A id \in DOMAIN known : b2[id].parent = RootId \/ b2[id].parent \in DOMAIN known
      BY <2>1, <2>5 DEF KnownIsWhole
    <3>4. QED BY <1>4, <3>1, <3>2, <3>3 DEF KnownIsWhole
  <2>7. WireHasParents(b2)'
    <3> SUFFICES ASSUME NEW i \in 1..Len(wire), NEW id \in DOMAIN wire[i].added,
                        b2[id].parent # RootId, b2[id].parent \notin DOMAIN wire[i].added
                 PROVE  \E s \in 0..(i - 1) :
                          /\ b2[id].parent \in Source(s)
                          /\ Spared(b2, b2[b2[id].parent].path, Base + s, Base + i)'
      BY <1>4 DEF WireHasParents, Source, Spared
    <3>1. b2[id] = b[id]
      BY <2>4
    <3>2. PICK s \in 0..(i - 1) :
            /\ b[id].parent \in Source(s)
            /\ Spared(b, b[b[id].parent].path, Base + s, Base + i)
      BY <2>1, <3>1 DEF WireHasParents
    <3>3. b[id].parent \in DOMAIN b
      BY <2>4, <2>5, <3>2 DEF Source
    <3>4. Spared(b2, b2[b2[id].parent].path, Base + s, Base + i)'
      <4>1. ASSUME NEW j \in (Base + s + 1)..(Base + i), NEW x \in Log'[j].removed
            PROVE  b[b[id].parent].path \notin At(b2[x].path)
        <5>1. j \in 1..n
          BY <1>2
        <5>2. x \in Log[j].removed /\ x \in DOMAIN b
          BY <1>3, <4>1, <5>1 DEF LogIsKnown
        <5>3. QED BY <3>2, <4>1, <5>2 DEF Spared
      <4>2. QED BY <1>4, <3>1, <3>3, <4>1 DEF Spared, At
    <3>5. QED BY <3>1, <3>2, <3>4
  <2>8. ASSUME NEW id \in DOMAIN b, NEW p \in InTree', tree'[p].id = id
        PROVE  p \in InTree /\ tree[p].id = id
    BY <2>8 DEF Announced
  <2>9. ASSUME NEW id, NEW k, NEW a \in 1..(n + 1),
               \/ \E j \in a..n : Updated(j, id, k)
               \/ NewlyUpdated(id, k)
        PROVE  \E j \in a..m : Updated(j, id, k)'
    <3>1. CASE \E j \in a..n : Updated(j, id, k)
      <4>1. PICK j \in a..n : Updated(j, id, k)
        BY <3>1
      <4>2. j \in a..m /\ Log'[j] = Log[j]
        BY <1>2, <1>3
      <4>3. QED BY <4>1, <4>2 DEF Updated
    <3>2. CASE NewlyUpdated(id, k)
      <4>1. PICK j \in (n + 1)..m : \E u \in Log'[j].updated : u.id = id /\ u.prop = k
        BY <3>2 DEF NewlyUpdated
      <4>2. j \in a..m
        BY <1>2, <1>3
      <4>3. QED BY <4>1, <4>2 DEF Updated
    <3>3. QED BY <2>9, <3>1, <3>2
  <2>10. KnownIsCurrent'
    <3> SUFFICES ASSUME NEW id \in DOMAIN known, NEW p \in InTree', NEW k \in Prop,
                        tree'[p].id = id
                 PROVE  \/ known[id].props[k] = tree'[p].props[k]
                        \/ \E j \in (Base + 1)..m : Updated(j, id, k)'
                        \/ \E w \in writes' : w.id = id /\ w.prop = k
      BY <1>4 DEF KnownIsCurrent, Updated
    <3>1. p \in InTree /\ tree[p].id = id
      BY <2>5, <2>8
    <3>2. Base + 1 \in 1..(n + 1)
      BY <1>2
    <3>3. CASE \/ \E j \in (Base + 1)..n : Updated(j, id, k)
               \/ NewlyUpdated(id, k)
      BY <2>9, <3>2, <3>3
    <3>4. CASE \E w \in writes : w.id = id /\ w.prop = k
      <4>1. PICK w \in writes : w.id = id /\ w.prop = k
        BY <3>4
      <4>2. CASE w \in writes'
        BY <4>1, <4>2
      <4>3. CASE w \notin writes'
        BY <3>3, <4>1, <4>3 DEF Announced
      <4>4. QED BY <4>2, <4>3
    <3>5. CASE known[id].props[k] = tree[p].props[k]
      BY <3>1, <3>3, <3>5 DEF Announced
    <3>6. QED BY <2>1, <3>1, <3>3, <3>4, <3>5 DEF KnownIsCurrent
  <2>11. WireIsCurrent'
    <3> SUFFICES ASSUME NEW i \in 1..Len(wire), NEW id \in DOMAIN wire[i].added,
                        NEW p \in InTree', NEW k \in Prop, tree'[p].id = id
                 PROVE  \/ wire[i].added[id].props[k] = tree'[p].props[k]
                        \/ \E j \in (Base + i)..m : Updated(j, id, k)'
      BY <1>4 DEF WireIsCurrent, Updated
    <3>1. p \in InTree /\ tree[p].id = id
      BY <2>4, <2>8
    <3>2. Base + i \in 1..(n + 1)
      BY <1>2
    <3>3. CASE \/ \E j \in (Base + i)..n : Updated(j, id, k)
               \/ NewlyUpdated(id, k)
      BY <2>9, <3>2, <3>3
    <3>4. CASE wire[i].added[id].props[k] = tree[p].props[k]
      BY <3>1, <3>3, <3>4 DEF Announced
    <3>5. QED BY <2>1, <3>1, <3>3, <3>4 DEF WireIsCurrent
  <2>12. QED BY <1>1, <1>6, <2>3, <2>6, <2>7, <2>10, <2>11 DEF PluginInv
<1>7. client \in {"away", "reading", "confirming", "live"}
  BY DEF TypeInv, ClientInv
<1>8. QED BY <1>5, <1>6, <1>7

\* A step that leaves the tree and the log alone announces nothing ...
LEMMA QuietIsAnnounced ==
  ASSUME TypeInv, NEW b, UNCHANGED tree, Log' = Log,
         \A w \in writes \ writes' : w.id \notin Ids
  PROVE  Announced(b)
<1>1. InTree' = InTree
  BY DEF InTree
<1>2. Len(Log) \in Nat
  BY LogIs
<1>3. \A w \in writes \ writes', p \in InTree : tree[p].id # w.id
  BY DEF Ids
<1>4. QED BY <1>1, <1>2, <1>3 DEF Announced

\* A step that leaves tree and log alone keeps what the log says.
LEMMA QuietKeepsServer ==
  ASSUME NEW b, ServerInv(b), UNCHANGED <<tree, nextId>>, Log' = Log,
         work' # None => unsent' = None
  PROVE  ServerInv(b)'
<1>1. InTree' = InTree /\ Ids' = Ids
  BY DEF InTree, Ids
<1>2. Born(b)'
  BY <1>1 DEF ServerInv, Born, IdOf, Parent
<1>3. LogIsKnown(b)' /\ LogIsOrdered(b)'
  BY DEF ServerInv, LogIsKnown, LogIsOrdered
<1>4. LogIsFinal(b)'
  BY <1>1 DEF ServerInv, LogIsFinal, At
<1>5. LogIsCurrent'
  BY <1>1 DEF ServerInv, LogIsCurrent, Updated
<1>6. QED BY <1>2, <1>3, <1>4, <1>5 DEF ServerInv

\* ... and a patch announces what it changes.
LEMMA ChangeIsAnnounced ==
  ASSUME TypeInv, TypeInv', NEW b \in Birth, Born(b), NEW P \in Patch, Change(P),
         Log' = Append(Log, P),
         \A w \in writes \ writes' : \E u \in P.updated : u.id = w.id /\ u.prop = w.prop
  PROVE  Announced(b)
<1>1. /\ Len(Log) \in Nat /\ Len(Log') = Len(Log) + 1
      /\ \A j \in 1..Len(Log) : Log'[j] = Log[j]
      /\ Log'[Len(Log) + 1] = P
  BY LogIs, LogGrows
<1>2. Len(Log) + 1 \in (Len(Log) + 1)..Len(Log')
  BY <1>1
<1>3. \A id \in P.added : NewlyAdded(id)
  BY <1>1, <1>2 DEF NewlyAdded
<1>4. \A u \in P.updated : NewlyUpdated(u.id, u.prop)
  BY <1>1, <1>2 DEF NewlyUpdated
<1>5. /\ \A id \in P.added : id \notin DOMAIN b
      /\ \A p \in InTree' : \/ p \in InTree /\ tree'[p].id = tree[p].id
                            \/ p \notin InTree /\ tree'[p].id \in P.added
  BY ChangeOfIds
<1>6. \A p \in InTree \intersect InTree', k \in Prop :
        tree'[p].props[k] = tree[p].props[k] \/ NewlyUpdated(tree[p].id, k)
  BY <1>4 DEF Change
<1>7. \A w \in writes \ writes' : NewlyUpdated(w.id, w.prop)
  BY <1>4
<1>8. QED BY <1>1, <1>3, <1>5, <1>6, <1>7 DEF Announced

\* Every step of the server keeps the invariants.
LEMMA ServerStep ==
  ASSUME TypeInv, TypeInv', NEW b \in Birth, ServerInv(b), PluginInv(b), [Next]_vars,
         NEW end, Disk \/ Processor \/ RenderPanics(end) \/ UNCHANGED vars
  PROVE  StudioInv'
<1>1. UNCHANGED <<client, cursor, wire, known>>
  BY DEF Disk, MakeFolder, Delete, WriteFile, Touch, Processor, TakeEvent, ApplyEvent,
         SkipEvent, Push, HandleWrite, RenderPanics, vars, clientVars
<1>2. Born(b) /\ LogIsKnown(b) /\ (work # None => unsent = None)
  BY DEF ServerInv, LogIsKnown
<1>3. Logged /\ (work' # None => unsent' = None)
  BY <1>2, LogMoves
<1>4. ASSUME UNCHANGED <<tree, nextId>>, Log' = Log,
             \A w \in writes \ writes' : w.id \notin Ids
      PROVE  StudioInv'
  <2>1. ServerInv(b)'
    BY <1>3, <1>4, QuietKeepsServer
  <2>2. PluginInv(b)'
    BY <1>1, <1>2, <1>4, QuietIsAnnounced, AnnouncedKeepsPlugin
  <2>3. QED BY <2>1, <2>2 DEF StudioInv
<1>5. ASSUME NEW P \in Patch, Change(P), Log' = Append(Log, P),
             \A w \in writes \ writes' : \E u \in P.updated : u.id = w.id /\ u.prop = w.prop
      PROVE  StudioInv'
  <2>1. PICK b2 \in Birth : Extends(b2, b) /\ Born(b2)'
    BY <1>2, <1>5, ChangeKeepsBorn
  <2>2. ServerInv(b2)'
    BY <1>3, <1>5, <2>1, ChangeKeepsLog
  <2>3. Announced(b)
    BY <1>2, <1>5, ChangeIsAnnounced
  <2>4. DOMAIN b \subseteq DOMAIN b2 /\ \A id \in DOMAIN b : b2[id] = b[id]
    BY <2>1 DEF Extends
  <2>5. PluginInv(b2)'
    BY <1>1, <1>2, <2>3, <2>4, AnnouncedKeepsPlugin
  <2>6. QED BY <2>2, <2>5 DEF StudioInv
<1>6. CASE writes' = writes
  BY <1>3, <1>4, <1>5, <1>6 DEF Logged
<1>7. ASSUME NEW w \in writes, HandleWrite(w) PROVE StudioInv'
  <2>1. /\ unsent = None /\ messages' = messages /\ writes' = writes \ {w}
    BY <1>7 DEF HandleWrite, ProcessorIdle
  <2>2. CASE w.id \notin Ids /\ UNCHANGED <<tree, nextId, unsent>>
    BY <1>4, <2>1, <2>2 DEF Log
  <2>3. ASSUME NEW P \in Patch, Change(P), unsent' = P,
               \E u \in P.updated : u.id = w.id /\ u.prop = w.prop
        PROVE  StudioInv'
    <3>1. Log' = Append(Log, P)
      BY <2>1, <2>3, NoneAssumption DEF Log
    <3>2. QED BY <1>5, <2>1, <2>3, <3>1
  <2>4. QED BY <1>7, <2>2, <2>3, WriteIsChange
<1>8. QED
  BY <1>6, <1>7
  DEF Disk, MakeFolder, Delete, WriteFile, Touch, Processor, TakeEvent, ApplyEvent,
      SkipEvent, Push, RenderPanics, vars, serverVars

-----------------------------------------------------------------------------
(* The plugin's own steps.                                                 *)

\* An instance of the tree is shown as what it was born as.
LEMMA RenderedIsBorn ==
  ASSUME TypeInv, NEW b \in Birth, Born(b), NEW id \in Ids
  PROVE  /\ Rendered(PathOf(id)).path = b[id].path
         /\ Rendered(PathOf(id)).parent = b[id].parent
         /\ b[id].parent = RootId \/ b[id].parent \in Ids
         /\ \A p \in InTree : tree[p].id = id => /\ p = b[id].path
                                                 /\ Rendered(PathOf(id)).props = tree[p].props
<1>1. PICK p \in InTree : tree[p].id = id
  BY DEF Ids
<1>2. TreeInv /\ p \in Path
  BY DEF TypeInv, InTree
<1>3. PathOf(id) = p
  BY <1>1, <1>2, PathOfIs
<1>4. b[id].path = p /\ b[id].parent = IdOf(Parent(p))
  BY <1>1 DEF Born
<1>5. /\ Rendered(p).path = p /\ Rendered(p).parent = IdOf(Parent(p))
      /\ Rendered(p).props = tree[p].props
  BY DEF Rendered
<1>6. Parent(p) = Root \/ Parent(p) \in InTree
  BY <1>2, ParentIs, BelowParent DEF TreeInv, Place
<1>7. IdOf(Parent(p)) = RootId \/ IdOf(Parent(p)) \in Ids
  BY <1>6 DEF IdOf, Ids
<1>8. \A r \in InTree : tree[r].id = id => r = p
  BY <1>1, <1>2 DEF TreeInv
<1>9. QED BY <1>3, <1>4, <1>5, <1>7, <1>8

\* What a message of the log becomes on the wire.
LEMMA RenderIsBorn ==
  ASSUME TypeInv, NEW b \in Birth, Born(b), NEW P \in Patch, P.added \subseteq Ids
  PROVE  LET R == Render(P) IN
         /\ R.removed = P.removed /\ R.updated = P.updated
         /\ P.added \subseteq DOMAIN R.added /\ DOMAIN R.added \subseteq Ids
         /\ \A id \in DOMAIN R.added : R.added[id] = Rendered(PathOf(id))
         /\ \A id \in DOMAIN R.added : id \in P.added \/ b[id].parent \in DOMAIN R.added
<1> DEFINE top == {PathOf(id) : id \in P.added}
           paths == InTree \intersect UNION {{p} \union Below[p] : p \in top}
           D == {tree[p].id : p \in paths}
           R == Render(P)
<1>1. R = [removed |-> P.removed, added |-> [id \in D |-> Rendered(PathOf(id))],
           updated |-> P.updated]
  BY DEF Render
<1>2. TreeInv /\ InTree \subseteq Path
  BY DEF TypeInv, InTree
<1>3. \A t \in top : t \in InTree /\ tree[t].id \in P.added
  BY <1>2, PathOfIs
<1>4. \A p : p \in paths <=> p \in InTree /\ \E t \in top : p \in At(t)
  BY DEF At
<1> HIDE DEF paths
<1>5. D \subseteq Ids
  BY <1>4 DEF Ids
<1>6. ASSUME NEW id \in P.added PROVE id \in D
  <2>1. PathOf(id) \in InTree /\ tree[PathOf(id)].id = id
    BY <1>2, PathOfIs
  <2>2. PathOf(id) \in paths
    BY <1>4, <2>1 DEF At
  <2>3. QED BY <2>1, <2>2
<1>7. ASSUME NEW id \in D, id \notin P.added PROVE b[id].parent \in D
  <2>1. PICK p \in paths : tree[p].id = id
    OBVIOUS
  <2>2. PICK t \in top : p \in At(t)
    BY <1>4, <2>1
  <2>3. p \in Below[t] /\ t \in Place /\ t \in Path
    BY <1>2, <1>3, <1>7, <2>1, <2>2 DEF At, Place
  <2>4. p \in Path /\ Parent(p) \in At(t)
    BY <2>3, ParentBelow DEF At
  <2>5. Parent(p) \in Path
    BY <2>3, <2>4, BelowIs DEF At
  <2>6. Parent(p) \in InTree
    BY <1>2, <1>4, <2>1, <2>4, <2>5, BelowParent DEF TreeInv
  <2>7. Parent(p) \in paths
    BY <1>4, <2>4, <2>6
  <2>8. b[id].parent = IdOf(Parent(p)) /\ Parent(p) # Root
    BY <1>4, <2>1, <2>5, PathAssumption DEF Born
  <2>9. QED BY <2>7, <2>8 DEF IdOf
<1> HIDE DEF D
<1>8. DOMAIN R.added = D /\ \A id \in D : R.added[id] = Rendered(PathOf(id))
  BY <1>1
<1>9. R.removed = P.removed /\ R.updated = P.updated
  BY <1>1
<1>10. QED BY <1>5, <1>6, <1>7, <1>8, <1>9

\* The response of api/read.
LEMMA ReadTreeKeepsPlugin ==
  ASSUME TypeInv, NEW b \in Birth, ServerInv(b), PluginInv(b), ReadTree, Log' = Log
  PROVE  PluginInv(b)'
<1>1. /\ client = "reading" /\ client' = "confirming"
      /\ known' = [id \in Ids |-> Rendered(PathOf(id))]
      /\ UNCHANGED <<tree, cursor, wire, writes>>
  BY DEF ReadTree, serverVars
<1>2. wire = << >> /\ Len(wire) = 0 /\ Len(wire) <= cursor /\ Len(wire') = 0
  BY <1>1, EmptySeq DEF PluginInv
<1>3. Base' = Base /\ Base \in Nat /\ Base <= Len(Log) /\ Len(Log) \in Nat
  BY <1>1, <1>2, BaseIs DEF Base
<1>4. DOMAIN known' = Ids /\ \A id \in Ids : known'[id] = Rendered(PathOf(id))
  BY <1>1
<1>5. InTree' = InTree /\ Ids' = Ids
  BY <1>1 DEF InTree, Ids
<1>6. Born(b) /\ LogIsFinal(b)
  BY DEF ServerInv
<1>7. \A i \in 1..Len(wire') : FALSE
  BY <1>2
<1>8. WireIsLog(b)' /\ WireHasParents(b)' /\ WireIsCurrent'
  BY <1>7 DEF WireIsLog, WireHasParents, WireIsCurrent
<1>9. KnownIsWhole(b)'
  <2>1. ASSUME NEW id \in Ids
        PROVE  /\ id \in DOMAIN b /\ known'[id].path = b[id].path
               /\ known'[id].parent = b[id].parent
               /\ \A j \in 1..Base : id \notin Log[j].removed
    <3>1. id \in DOMAIN b
      BY <1>6 DEF Born, Ids
    <3>2. \A j \in 1..Base : j \in 1..Len(Log)
      BY <1>3
    <3>3. QED BY <1>4, <1>6, <3>1, <3>2, RenderedIsBorn DEF LogIsFinal
  <2>2. Named(b, known, Base)'
    BY <1>3, <1>4, <2>1 DEF Named
  <2>3. \A id \in Ids : b[id].parent = RootId \/ b[id].parent \in Ids
    BY <1>6, RenderedIsBorn
  <2>4. QED BY <1>4, <1>5, <2>2, <2>3 DEF KnownIsWhole
<1>10. KnownIsCurrent'
  <2>1. ASSUME NEW id \in Ids, NEW p \in InTree, tree[p].id = id
        PROVE  known'[id].props = tree[p].props
    BY <1>4, <1>6, <2>1, RenderedIsBorn
  <2>2. QED BY <1>1, <1>4, <1>5, <2>1 DEF KnownIsCurrent
<1>11. QED BY <1>1, <1>2, <1>8, <1>9, <1>10 DEF PluginInv

\* What is put on the wire is the log from the cursor on, up to where it fired.
LEMMA DeliverIs ==
  ASSUME TypeInv, TypeInv', NEW end \in (cursor + 1)..Len(messages), Deliver(end),
         Len(wire) <= cursor
  PROVE  /\ Base' = Base /\ Len(wire') \in Nat /\ Len(wire) <= Len(wire')
         /\ Len(wire') <= cursor'
         /\ \A i \in 1..Len(wire) : wire'[i] = wire[i]
         /\ \A i \in (Len(wire) + 1)..Len(wire') :
              /\ Base + i \in 1..Len(Log)
              /\ Log[Base + i].added \subseteq Ids
              /\ wire'[i] = Render(Log[Base + i])
<1> DEFINE n == end - cursor
           ws == [k \in DOMAIN Backlog(end) |-> Render(Backlog(end)[k])]
<1>1. /\ cursor < end /\ end <= Len(messages) /\ cursor' = end
      /\ \A k \in DOMAIN Backlog(end) : ~Unrenderable(Backlog(end)[k])
      /\ wire' = wire \o ws
  BY LogIs DEF Deliver
<1>2. /\ Len(messages) \in Nat /\ cursor \in Nat /\ Len(messages) <= Len(Log)
      /\ \A j \in 1..Len(messages) : Log[j] = messages[j]
      /\ \A j \in 1..Len(Log) : Log[j] \in Patch
      /\ Len(Log) \in Nat
  BY LogIs
<1>3. messages \in Seq(Patch) /\ wire \in Seq(Message) /\ wire' \in Seq(Message)
  BY DEF TypeInv, LogInv, ClientInv
<1>4. Base \in Nat /\ Len(wire) \in Nat /\ Base + Len(wire) = cursor
  BY BaseIs
<1>5. /\ Backlog(end) \in Seq(Patch) /\ Len(Backlog(end)) = n /\ n \in Nat
      /\ \A k \in 1..n : Backlog(end)[k] = Log[cursor + k]
  <2>1. cursor + 1 \in Int /\ end \in Int /\ end <= Len(messages)
    BY <1>1, <1>2
  <2>2. \A i \in (cursor + 1)..end : messages[i] \in Patch
    BY <1>1, <1>2, <1>3, ElementOfSeq
  <2>3. /\ Backlog(end) \in Seq(Patch)
        /\ Len(Backlog(end)) = IF cursor + 1 <= end THEN end - (cursor + 1) + 1 ELSE 0
        /\ \A k \in 1..(end - (cursor + 1) + 1) : Backlog(end)[k] = messages[cursor + 1 + k - 1]
    BY <2>1, <2>2, SubSeqProperties DEF Backlog
  <2>4. n \in Nat /\ Len(Backlog(end)) = n
    BY <1>1, <1>2, <2>3
  <2>5. ASSUME NEW k \in 1..n PROVE Backlog(end)[k] = Log[cursor + k]
    <3>1. k \in 1..(end - (cursor + 1) + 1) /\ cursor + 1 + k - 1 = cursor + k
      BY <1>2, <2>4
    <3>2. cursor + k \in 1..Len(messages)
      BY <1>1, <1>2, <2>4
    <3>3. QED BY <1>2, <2>3, <3>1, <3>2
  <2>6. QED BY <2>3, <2>4, <2>5
<1>6. DOMAIN Backlog(end) = 1..n
  BY <1>5, LenProperties
<1>7. /\ ws \in Seq(Message) /\ Len(ws) = n
      /\ \A k \in 1..n : ws[k] = Render(Log[cursor + k])
  <2>1. \A k \in 1..n : ws[k] = Render(Log[cursor + k])
    BY <1>5, <1>6
  <2>2. \A k \in 1..n : Backlog(end)[k] \in Patch
    BY <1>5, ElementOfSeq
  <2>3. \A k \in 1..n : Render(Backlog(end)[k]) \in Message
    BY <2>2, RenderIs DEF TypeInv
  <2>4. ws \in [1..n -> Message]
    BY <1>6, <2>3
  <2>5. ws \in Seq(Message)
    BY <1>5, <2>4, SeqDef
  <2>6. QED BY <1>5, <2>1, <2>4, <2>5, LenProperties
<1> HIDE DEF ws, n
<1>8. /\ Len(wire') = Len(wire) + n
      /\ \A i \in 1..(Len(wire) + n) :
           wire'[i] = IF i <= Len(wire) THEN wire[i] ELSE ws[i - Len(wire)]
  BY <1>1, <1>3, <1>7, ConcatProperties
<1>9. Base' = Base /\ Len(wire') <= cursor' /\ Len(wire') \in Nat /\ Len(wire) <= Len(wire')
  <2>1. Base' = end - Len(wire') /\ Base = cursor - Len(wire)
    BY <1>1 DEF Base
  <2>2. Len(wire') = Len(wire) + n /\ n \in Nat /\ n = end - cursor
    BY <1>5, <1>8 DEF n
  <2>3. QED BY <1>1, <1>2, <1>4, <2>1, <2>2
<1>10. \A i \in 1..Len(wire) : wire'[i] = wire[i]
  BY <1>4, <1>5, <1>8
<1>11. ASSUME NEW i \in (Len(wire) + 1)..Len(wire')
       PROVE  /\ Base + i \in 1..Len(Log)
              /\ Log[Base + i].added \subseteq Ids
              /\ wire'[i] = Render(Log[Base + i])
  <2>0. Len(wire') = Len(wire) + n /\ n \in Nat
    BY <1>5, <1>8
  <2>1. PICK k \in 1..n : k = i - Len(wire)
    BY <1>4, <2>0
  <2>2. /\ i \in 1..(Len(wire) + n) /\ ~(i <= Len(wire)) /\ cursor + k = Base + i
    BY <1>4, <1>5, <1>8, <2>1
  <2>3. Base + i \in 1..Len(Log)
    BY <1>1, <1>2, <1>4, <1>5, <2>1, <2>2 DEF n
  <2>4. wire'[i] = Render(Log[Base + i])
    BY <1>7, <1>8, <2>1, <2>2
  <2>5. Log[Base + i].added \subseteq Ids
    BY <1>1, <1>5, <1>6, <2>1, <2>2 DEF Unrenderable
  <2>6. QED BY <2>3, <2>4, <2>5
<1>12. QED BY <1>9, <1>10, <1>11

\* What comes after a place of an interval, and after that.
LEMMA LaterInLog ==
  ASSUME NEW a \in Nat, NEW n \in Nat, NEW s \in Nat, NEW t \in Nat, a + t <= n
  PROVE  \A m \in (a + s + 1)..(a + t) : /\ m \in 1..n
                                       /\ \A l \in (m + 1)..n : l \in 1..n /\ l # a + s
<1> TAKE m \in (a + s + 1)..(a + t)
<1>1. m \in Int /\ a + s + 1 <= m /\ m <= a + t
  OBVIOUS
<1>2. m \in 1..n
  BY <1>1
<1>3. ASSUME NEW l \in (m + 1)..n PROVE l \in 1..n /\ l # a + s
  <2>1. l \in Int /\ m + 1 <= l /\ l <= n
    BY <1>1
  <2>2. QED BY <1>1, <2>1
<1>4. QED BY <1>2, <1>3

\* Rendering messages late keeps the wire in order: what is missing comes with
\* a later message, and the parent of an addition comes before it or with it.
LEMMA DeliverKeepsPlugin ==
  ASSUME TypeInv, TypeInv', NEW b \in Birth, ServerInv(b), PluginInv(b),
         NEW end \in (cursor + 1)..Len(messages), Deliver(end), Log' = Log
  PROVE  PluginInv(b)'
<1> DEFINE n == Len(Log)
           old == 1..Len(wire)
           new == (Len(wire) + 1)..Len(wire')
<1>1. /\ client = "live" /\ client' = "live"
      /\ UNCHANGED <<tree, known, writes>>
  BY DEF Deliver, serverVars
<1>2. /\ Len(wire) <= cursor /\ WireIsLog(b) /\ KnownIsWhole(b) /\ WireHasParents(b)
      /\ KnownIsCurrent /\ WireIsCurrent
  BY <1>1 DEF PluginInv
<1>3. /\ Base' = Base /\ Len(wire') \in Nat /\ Len(wire) <= Len(wire')
      /\ Len(wire') <= cursor'
      /\ \A i \in old : wire'[i] = wire[i]
      /\ \A i \in new : /\ Base + i \in 1..n
                        /\ Log[Base + i].added \subseteq Ids
                        /\ wire'[i] = Render(Log[Base + i])
  BY <1>2, DeliverIs
<1>4. /\ Base \in Nat /\ Len(wire) \in Nat /\ n \in Nat /\ Base <= n
      /\ \A j \in 1..n : Log[j] \in Patch
      /\ \A i \in old : Base + i \in 1..n
  BY <1>2, BaseIs, LogIs
<1>5. \A i \in 1..Len(wire') : i \in old \/ i \in new
  BY <1>3, <1>4
<1>6. Born(b) /\ LogIsOrdered(b) /\ LogIsFinal(b)
  BY DEF ServerInv
<1>7. InTree' = InTree /\ Ids' = Ids
  BY <1>1 DEF InTree, Ids
<1>8. ASSUME NEW i \in new
      PROVE  /\ wire'[i].removed = Log[Base + i].removed
             /\ wire'[i].updated = Log[Base + i].updated
             /\ Log[Base + i].added \subseteq DOMAIN wire'[i].added
             /\ DOMAIN wire'[i].added \subseteq Ids
             /\ \A id \in DOMAIN wire'[i].added : wire'[i].added[id] = Rendered(PathOf(id))
             /\ \A id \in DOMAIN wire'[i].added :
                  id \in Log[Base + i].added \/ b[id].parent \in DOMAIN wire'[i].added
  <2>1. /\ Log[Base + i] \in Patch
        /\ Log[Base + i].added \subseteq Ids
        /\ wire'[i] = Render(Log[Base + i])
    BY <1>3, <1>4
  <2>2. QED BY <1>6, <2>1, RenderIsBorn
<1>9. WireIsLog(b)'
  <2> SUFFICES ASSUME NEW i \in 1..Len(wire')
               PROVE  /\ wire'[i].removed = Log[Base + i].removed
                      /\ wire'[i].updated = Log[Base + i].updated
                      /\ Log[Base + i].added \subseteq DOMAIN wire'[i].added
                      /\ Named(b, wire'[i].added, Base + i)
    BY <1>3 DEF WireIsLog, Named
  <2>1. CASE i \in old
    BY <1>2, <1>3, <2>1 DEF WireIsLog
  <2>2. CASE i \in new
    <3>1. ASSUME NEW id \in DOMAIN wire'[i].added
          PROVE  /\ id \in DOMAIN b
                 /\ wire'[i].added[id].path = b[id].path
                 /\ wire'[i].added[id].parent = b[id].parent
                 /\ \A j \in 1..(Base + i) : id \notin Log[j].removed
      <4>1. id \in Ids /\ wire'[i].added[id] = Rendered(PathOf(id))
        BY <1>8, <2>2
      <4>2. id \in DOMAIN b
        BY <1>6, <4>1 DEF Born, Ids
      <4>3. \A j \in 1..(Base + i) : j \in 1..n
        BY <1>3, <1>4, <2>2
      <4>4. QED BY <1>6, <4>1, <4>2, <4>3, RenderedIsBorn DEF LogIsFinal
    <3>2. QED BY <1>8, <2>2, <3>1 DEF Named
  <2>3. QED BY <1>5, <2>1, <2>2
<1>10. KnownIsWhole(b)'
  BY <1>1, <1>2, <1>3, <1>7 DEF KnownIsWhole, Named
<1>11. \A j \in (Base + 1)..(Base + Len(wire')) : Log[j].added \subseteq DOMAIN wire'[j - Base].added
  <2> SUFFICES ASSUME NEW j \in (Base + 1)..(Base + Len(wire'))
               PROVE  Log[j].added \subseteq DOMAIN wire'[j - Base].added
    OBVIOUS
  <2>1. PICK i \in 1..Len(wire') : i = j - Base /\ Base + i = j
    BY <1>3, <1>4
  <2>2. QED BY <1>3, <1>9, <2>1 DEF WireIsLog
<1>12. ASSUME NEW i \in new, NEW id \in DOMAIN wire'[i].added,
              b[id].parent # RootId, b[id].parent \notin DOMAIN wire'[i].added
       PROVE  \E s \in 0..(i - 1) :
                /\ b[id].parent \in IF s = 0 THEN DOMAIN known ELSE DOMAIN wire'[s].added
                /\ Spared(b, b[b[id].parent].path, Base + s, Base + i)
  <2> DEFINE pa == b[id].parent
  <2>1. id \in Log[Base + i].added /\ id \in Ids /\ id \in DOMAIN b /\ Base + i \in 1..n
    BY <1>3, <1>6, <1>8, <1>12 DEF Born, Ids
  <2>2. pa \in Ids
    BY <1>6, <1>12, <2>1, RenderedIsBorn
  <2>3. PICK p \in InTree : tree[p].id = pa /\ b[pa].path = p
    BY <1>6, <2>2 DEF Ids, Born
  <2>4. ASSUME NEW m \in 1..n, NEW x \in Log[m].removed, p \in At(b[x].path)
        PROVE  \E l \in (m + 1)..n : pa \in Log[l].added
    BY <1>6, <2>3, <2>4 DEF LogIsFinal
  <2>5. ASSUME NEW j \in (Base + 1)..n, pa \in Log[j].added
        PROVE  /\ j < Base + i
               /\ \A l \in 1..n : pa \in Log[l].added => l = j
    <3>1. j \in 1..n
      BY <1>4
    <3>2. PICK k \in j..n : id \in Log[k].added
      BY <1>6, <2>1, <2>5, <3>1 DEF LogIsOrdered
    <3>3. k \in 1..n
      BY <1>4, <3>1
    <3>4. k = Base + i
      BY <1>6, <2>1, <3>2, <3>3 DEF LogIsOrdered
    <3>5. j # Base + i
      BY <1>8, <1>12, <2>5
    <3>6. j < Base + i
      BY <1>4, <2>1, <3>1, <3>2, <3>4, <3>5
    <3>7. \A l \in 1..n : pa \in Log[l].added => l = j
      BY <1>6, <2>5, <3>1 DEF LogIsOrdered
    <3>8. QED BY <3>6, <3>7
  <2>6. CASE \E j \in (Base + 1)..n : pa \in Log[j].added
    <3>1. PICK j \in (Base + 1)..n : pa \in Log[j].added
      BY <2>6
    <3>2. PICK s \in 1..(i - 1) : s = j - Base /\ Base + s = j
      BY <1>3, <1>4, <2>5, <3>1
    <3>3. pa \in DOMAIN wire'[s].added
      <4>1. j \in (Base + 1)..(Base + Len(wire'))
        BY <1>3, <1>4, <2>5, <3>1
      <4>2. QED BY <1>11, <3>1, <3>2, <4>1
    <3>a. s \in Nat /\ i \in Nat /\ Base + i <= n
      BY <1>3, <1>4, <2>1
    <3>b. \A m \in (Base + s + 1)..(Base + i) : /\ m \in 1..n
                                             /\ \A l \in (m + 1)..n : l \in 1..n /\ l # Base + s
      BY <1>4, <3>a, LaterInLog
    <3>4. ASSUME NEW m \in (Base + s + 1)..(Base + i), NEW x \in Log[m].removed, p \in At(b[x].path)
          PROVE  FALSE
      <4>1. m \in 1..n
        BY <3>b
      <4>2. PICK l \in (m + 1)..n : pa \in Log[l].added
        BY <2>4, <3>4, <4>1
      <4>3. l \in 1..n /\ l # Base + s
        BY <3>b
      <4>4. l = j
        BY <2>5, <3>1, <4>2, <4>3
      <4>5. QED BY <3>2, <4>3, <4>4
    <3>5. Spared(b, b[pa].path, Base + s, Base + i)
      BY <2>3, <3>4 DEF Spared
    <3>6. s \in 0..(i - 1) /\ s # 0
      BY <1>3
    <3>7. QED BY <3>3, <3>5, <3>6
  <2>7. CASE ~\E j \in (Base + 1)..n : pa \in Log[j].added
    <3>1. pa \in DOMAIN known
      BY <1>2, <2>2, <2>7 DEF KnownIsWhole
    <3>2. ASSUME NEW m \in (Base + 0 + 1)..(Base + i), NEW x \in Log[m].removed, p \in At(b[x].path)
          PROVE  FALSE
      <4>1. m \in 1..n /\ m > Base
        BY <1>4, <2>1
      <4>2. PICK l \in (m + 1)..n : pa \in Log[l].added
        BY <2>4, <3>2, <4>1
      <4>3. l \in (Base + 1)..n
        BY <1>4, <4>1
      <4>4. QED BY <2>7, <4>2, <4>3
    <3>3. Spared(b, b[pa].path, Base + 0, Base + i)
      BY <2>3, <3>2 DEF Spared
    <3>4. 0 \in 0..(i - 1)
      BY <1>3, <1>4
    <3>5. QED BY <3>1, <3>3, <3>4
  <2>8. QED BY <2>6, <2>7
<1>13. WireHasParents(b)'
  <2> SUFFICES ASSUME NEW i \in 1..Len(wire'), NEW id \in DOMAIN wire'[i].added,
                      b[id].parent # RootId, b[id].parent \notin DOMAIN wire'[i].added
               PROVE  \E s \in 0..(i - 1) :
                        /\ b[id].parent \in IF s = 0 THEN DOMAIN known ELSE DOMAIN wire'[s].added
                        /\ Spared(b, b[b[id].parent].path, Base + s, Base + i)
    BY <1>1, <1>3 DEF WireHasParents, Source, Spared, At
  <2>1. CASE i \in old
    <3>1. PICK s \in 0..(i - 1) :
            /\ b[id].parent \in Source(s)
            /\ Spared(b, b[b[id].parent].path, Base + s, Base + i)
      BY <1>2, <1>3, <2>1 DEF WireHasParents
    <3>2. s = 0 \/ s \in old
      BY <1>4, <2>1
    <3>3. QED BY <1>3, <3>1, <3>2 DEF Source
  <2>2. CASE i \in new
    BY <1>12, <2>2
  <2>3. QED BY <1>5, <2>1, <2>2
<1>14. KnownIsCurrent'
  BY <1>1, <1>2, <1>3, <1>7 DEF KnownIsCurrent, Updated
<1>15. WireIsCurrent'
  <2> SUFFICES ASSUME NEW i \in 1..Len(wire'), NEW id \in DOMAIN wire'[i].added, NEW p \in InTree,
                      NEW k \in Prop, tree[p].id = id
               PROVE  \/ wire'[i].added[id].props[k] = tree[p].props[k]
                      \/ \E j \in (Base + i)..n : Updated(j, id, k)
    <3>1. Log' = Log /\ tree' = tree
      BY <1>1 DEF Log, Deliver, serverVars
    <3>2. \A j, id, k : Updated(j, id, k)' = Updated(j, id, k)
      BY <3>1 DEF Updated
    <3>3. QED BY <1>3, <1>7, <3>1, <3>2 DEF WireIsCurrent
  <2>1. CASE i \in old
    BY <1>2, <1>3, <2>1 DEF WireIsCurrent
  <2>2. CASE i \in new
    BY <1>6, <1>8, <2>2, RenderedIsBorn
  <2>3. QED BY <1>5, <2>1, <2>2
<1>16. QED BY <1>1, <1>3, <1>9, <1>10, <1>13, <1>14, <1>15 DEF PluginInv

\* A map in which every referent is what it was born as.
Faithful(b, map) == \A id \in DOMAIN map :
                      /\ id \in DOMAIN b
                      /\ map[id].path = b[id].path /\ map[id].parent = b[id].parent

\* Every addition that is not known is reified (applyPatch).
LEMMA UnknownIsReified ==
  ASSUME NEW b \in Birth, Born(b), NEW add, Faithful(b, add), NEW map
  PROVE  /\ DOMAIN add \ DOMAIN map \subseteq ReifiedIds(map, add)
         /\ ReifiedIds(map, add) \subseteq DOMAIN add
<1>1. ReifiedIds(map, add) \subseteq DOMAIN add
  BY DEF ReifiedIds, Subtree
<1>2. ASSUME NEW u \in DOMAIN add, u \notin DOMAIN map PROVE u \in ReifiedIds(map, add)
  <2> DEFINE above(t) == u = t \/ add[u].path \in Below[add[t].path]
             A == {t \in DOMAIN add : above(t)}
             S == {Len(add[t].path) : t \in A}
  <2>1. \A t \in DOMAIN add : /\ t \in DOMAIN b /\ b[t].path \in Path /\ t # RootId
                              /\ add[t].path = b[t].path /\ add[t].parent = b[t].parent
    <3>1. \A t \in DOMAIN b : b[t].path \in Path /\ t \in Nat
      BY DEF Birth
    <3>2. QED BY <3>1 DEF Faithful, Born, RootId
  <2>2. S \in SUBSET Nat /\ S # {}
    <3>1. u \in A
      OBVIOUS
    <3>2. \A t \in A : Len(add[t].path) \in Nat
      BY <2>1, Places DEF Place
    <3>3. QED BY <3>1, <3>2
  <2>3. PICK m \in S : \A k \in S : m <= k
    BY <2>2, LeastNumber
  <2>4. PICK t \in A : Len(add[t].path) = m
    OBVIOUS
  <2>5. t \in DOMAIN add /\ above(t)
    OBVIOUS
  <2>6. ASSUME add[t].parent \in DOMAIN add PROVE FALSE
    <3> DEFINE q == add[t].parent
    <3>1. q = b[t].parent /\ q # RootId /\ b[q].path = Parent(b[t].path)
      BY <2>1, <2>5, <2>6 DEF Born
    <3>2. add[q].path = Parent(add[t].path) /\ add[t].path \in Path /\ add[q].path \in Path
      BY <2>1, <2>5, <2>6, <3>1
    <3>3. add[t].path \in Below[add[q].path]
      BY <3>2, BelowParent
    <3>4. above(q)
      BY <2>5, <3>2, <3>3, BelowIsTransitive DEF Place
    <3>5. Len(add[q].path) \in S
      BY <2>6, <3>4
    <3>6. Len(add[q].path) = Len(add[t].path) - 1 /\ Len(add[t].path) \in Nat
      BY <3>2, ParentIs, Places DEF Place
    <3>7. QED BY <2>3, <2>4, <3>5, <3>6
  <2>7. u \in Subtree(add, t)
    BY <2>5 DEF Subtree
  <2>8. t \in {x \in DOMAIN add :
                 /\ add[x].parent \notin DOMAIN add
                 /\ \E v \in DOMAIN add \ DOMAIN map : v = x \/ add[v].path \in Below[add[x].path]}
    BY <1>2, <2>5, <2>6
  <2> HIDE DEF A, S, above
  <2>9. QED BY <2>7, <2>8 DEF ReifiedIds
<1>3. QED BY <1>1, <1>2

\* What a message takes from the map, what it adds to it, and whose values
\* the map has then.
LEMMA MessageIsApplied ==
  ASSUME NEW b \in Birth, Born(b), NEW map \in Map, Faithful(b, map),
         NEW msg \in Message, Faithful(b, msg.added)
  PROVE  LET m1 == AfterRemovals(map, msg.removed)
             m3 == AfterUpdates(AfterAdditions(m1, msg.added), msg.updated)
         IN  /\ DOMAIN m1 \subseteq DOMAIN map
             /\ \A id \in DOMAIN map :
                  id \in DOMAIN m1 <=> \A x \in msg.removed \intersect DOMAIN map :
                                         id # x /\ b[id].path \notin Below[b[x].path]
             /\ DOMAIN m3 = DOMAIN m1 \union DOMAIN msg.added
             /\ Faithful(b, m3)
             /\ \A id \in DOMAIN m3, k \in Prop :
                  IF \E u \in msg.updated : u.id = id /\ u.prop = k
                  THEN \E u \in msg.updated : /\ u.id = id /\ u.prop = k
                                              /\ m3[id].props[k] = u.value
                  ELSE \/ id \in DOMAIN msg.added /\ m3[id].props[k] = msg.added[id].props[k]
                       \/ id \in DOMAIN map /\ m3[id].props[k] = map[id].props[k]
<1> DEFINE m1 == AfterRemovals(map, msg.removed)
           add == msg.added
           upd == msg.updated
           m2 == AfterAdditions(m1, add)
           m3 == AfterUpdates(m2, upd)
           reified == ReifiedIds(m1, add)
           gone == UNION {Subtree(map, id) : id \in msg.removed \intersect DOMAIN map}
<1>1. /\ DOMAIN map \in SUBSET Nat /\ map \in [DOMAIN map -> Shown]
      /\ DOMAIN add \in SUBSET Nat /\ add \in [DOMAIN add -> Shown]
  BY Maps DEF Message
<1>2. m1 = [id \in DOMAIN map \ gone |-> map[id]]
  BY DEF AfterRemovals
<1>3. \A id \in DOMAIN map : id \in gone <=> \E x \in msg.removed \intersect DOMAIN map :
                                               id = x \/ map[id].path \in Below[map[x].path]
  BY DEF Subtree
<1> HIDE DEF gone
<1>4. /\ DOMAIN m1 = DOMAIN map \ gone /\ \A id \in DOMAIN m1 : m1[id] = map[id]
  BY <1>2
<1> HIDE DEF m1
<1>5. \A id \in DOMAIN map :
        id \in DOMAIN m1 <=> \A x \in msg.removed \intersect DOMAIN map :
                               id # x /\ b[id].path \notin Below[b[x].path]
  BY <1>3, <1>4 DEF Faithful
<1>6. DOMAIN add \ DOMAIN m1 \subseteq reified /\ reified \subseteq DOMAIN add
  BY UnknownIsReified
<1>7. /\ DOMAIN m2 = DOMAIN m1 \union reified
      /\ \A id \in DOMAIN m2 : m2[id] = IF id \in reified THEN add[id] ELSE m1[id]
  BY DEF AfterAdditions
<1> HIDE DEF reified, m2
<1>8. \A id \in DOMAIN m2 : \/ id \in DOMAIN add /\ m2[id] = add[id]
                            \/ id \in DOMAIN map /\ m2[id] = map[id]
  BY <1>4, <1>6, <1>7
<1>9. \A id \in DOMAIN m2 : m2[id] \in Shown
  BY <1>1, <1>8
<1> DEFINE val(id, k) == IF \E u \in upd : u.id = id /\ u.prop = k
                           THEN (CHOOSE u \in upd : u.id = id /\ u.prop = k).value
                           ELSE m2[id].props[k]
<1>10. m3 = [id \in DOMAIN m2 |-> [m2[id] EXCEPT !.props = [k \in Prop |-> val(id, k)]]]
  BY DEF AfterUpdates
<1>11. \A id, k : IF \E u \in upd : u.id = id /\ u.prop = k
                  THEN \E u \in upd : u.id = id /\ u.prop = k /\ val(id, k) = u.value
                  ELSE val(id, k) = m2[id].props[k]
  OBVIOUS
<1> HIDE DEF val, m3
<1>12. DOMAIN m3 = DOMAIN m1 \union DOMAIN add
  BY <1>6, <1>7, <1>10
<1>13. ASSUME NEW id \in DOMAIN m2
       PROVE  /\ m3[id].path = m2[id].path /\ m3[id].parent = m2[id].parent
              /\ \A k \in Prop : m3[id].props[k] = val(id, k)
  <2> DEFINE ps == [k \in Prop |-> val(id, k)]
  <2>0. \A k \in Prop : ps[k] = val(id, k)
    OBVIOUS
  <2>1. m3[id] = [m2[id] EXCEPT !.props = ps]
    BY <1>10
  <2> HIDE DEF ps
  <2>2. m3[id].path = m2[id].path /\ m3[id].parent = m2[id].parent /\ m3[id].props = ps
    BY <1>9, <2>1 DEF Shown
  <2>3. QED BY <2>0, <2>2
<1>14. DOMAIN m3 = DOMAIN m2
  BY <1>10
<1>15. Faithful(b, m3)
  <2>1. \A id \in DOMAIN m2 : /\ id \in DOMAIN b
                              /\ m2[id].path = b[id].path /\ m2[id].parent = b[id].parent
    BY <1>8 DEF Faithful
  <2>2. QED BY <1>13, <1>14, <2>1 DEF Faithful
<1>16. ASSUME NEW id \in DOMAIN m3, NEW k \in Prop
       PROVE  IF \E u \in upd : u.id = id /\ u.prop = k
              THEN \E u \in upd : u.id = id /\ u.prop = k /\ m3[id].props[k] = u.value
              ELSE \/ id \in DOMAIN add /\ m3[id].props[k] = add[id].props[k]
                   \/ id \in DOMAIN map /\ m3[id].props[k] = map[id].props[k]
  <2>1. id \in DOMAIN m2 /\ m3[id].props[k] = val(id, k)
    BY <1>13, <1>14
  <2>2. QED BY <1>8, <1>11, <2>1
<1>17. QED BY <1>4, <1>5, <1>12, <1>15, <1>16 DEF m1, m2, m3

\* The next message finds the parents of its additions, in the message or
\* among what is left after its removals.
LEMMA ParentsSurvive ==
  ASSUME TypeInv, NEW b \in Birth, ServerInv(b), PluginInv(b), client = "live", wire # << >>
  PROVE  LET m1 == AfterRemovals(known, wire[1].removed) IN
         /\ 1 \in 1..Len(wire) /\ Len(wire) \in Nat /\ wire[1] = Head(wire)
         /\ known \in Map /\ wire[1] \in Message
         /\ Faithful(b, known) /\ Faithful(b, wire[1].added)
         /\ wire[1].removed = Log[Base + 1].removed
         /\ wire[1].updated = Log[Base + 1].updated
         /\ Log[Base + 1].added \subseteq DOMAIN wire[1].added
         /\ \A id \in DOMAIN known :
              Spared(b, b[id].path, Base, Base + 1) => id \in DOMAIN m1
         /\ \A id \in DOMAIN wire[1].added :
              \/ b[id].parent = RootId
              \/ b[id].parent \in DOMAIN wire[1].added
              \/ b[id].parent \in DOMAIN m1
<1> DEFINE m1 == AfterRemovals(known, wire[1].removed)
<1>1. /\ Len(wire) <= cursor /\ WireIsLog(b) /\ KnownIsWhole(b) /\ WireHasParents(b) /\ Born(b)
  BY DEF PluginInv, ServerInv
<1>2. /\ wire \in Seq(Message) /\ known \in Map
  BY DEF TypeInv, ClientInv
<1>3. /\ 1 \in 1..Len(wire) /\ Len(wire) \in Nat /\ wire[1] = Head(wire) /\ wire[1] \in Message
  BY <1>2, EmptySeq, LenProperties, ElementOfSeq
<1>4. Base \in Nat
  BY <1>1, BaseIs
<1>5. /\ wire[1].removed = Log[Base + 1].removed
      /\ wire[1].updated = Log[Base + 1].updated
      /\ Log[Base + 1].added \subseteq DOMAIN wire[1].added
      /\ Named(b, wire[1].added, Base + 1)
  BY <1>1, <1>3 DEF WireIsLog
<1>6. Faithful(b, known) /\ Faithful(b, wire[1].added)
  BY <1>1, <1>5 DEF KnownIsWhole, Named, Faithful
<1>7. \A id \in DOMAIN known :
        id \in DOMAIN m1 <=> \A x \in wire[1].removed \intersect DOMAIN known :
                               id # x /\ b[id].path \notin Below[b[x].path]
  BY <1>1, <1>2, <1>3, <1>6, MessageIsApplied
<1> HIDE DEF m1
<1>8. ASSUME NEW id \in DOMAIN known, Spared(b, b[id].path, Base, Base + 1)
      PROVE  id \in DOMAIN m1
  <2>1. Base + 1 \in (Base + 1)..(Base + 1)
    BY <1>4
  <2>2. \A x \in wire[1].removed : b[id].path \notin At(b[x].path)
    BY <1>5, <1>8, <2>1 DEF Spared
  <2>3. QED BY <1>7, <2>2 DEF At
<1>9. ASSUME NEW id \in DOMAIN wire[1].added, b[id].parent # RootId,
             b[id].parent \notin DOMAIN wire[1].added
      PROVE  b[id].parent \in DOMAIN m1
  <2>1. PICK s \in 0..(1 - 1) : /\ b[id].parent \in Source(s)
                                /\ Spared(b, b[b[id].parent].path, Base + s, Base + 1)
    BY <1>1, <1>3, <1>9 DEF WireHasParents
  <2>2. s = 0 /\ Base + s = Base
    BY <1>4
  <2>3. QED BY <1>8, <2>1, <2>2 DEF Source
<1>10. QED BY <1>2, <1>3, <1>5, <1>6, <1>8, <1>9 DEF m1

\* Applying the next message brings the plugin one message further in the log.
LEMMA ApplyMessageKeepsPlugin ==
  ASSUME TypeInv, NEW b \in Birth, ServerInv(b), PluginInv(b), ApplyMessage, Log' = Log
  PROVE  PluginInv(b)'
<1> DEFINE n == Len(Log)
           msg == wire[1]
           m1 == AfterRemovals(known, msg.removed)
           m3 == AfterUpdates(AfterAdditions(m1, msg.added), msg.updated)
<1>1. /\ client = "live" /\ client' = "live" /\ wire # << >>
      /\ wire' = Tail(wire)
      /\ UNCHANGED <<tree, writes, cursor>>
  BY DEF ApplyMessage, serverVars
<1>2. /\ Len(wire) <= cursor /\ WireIsLog(b) /\ KnownIsWhole(b) /\ WireHasParents(b)
      /\ KnownIsCurrent /\ WireIsCurrent
      /\ Born(b) /\ LogIsFinal(b) /\ LogIsCurrent
  BY <1>1 DEF PluginInv, ServerInv
<1>3. /\ Base \in Nat /\ Len(wire) \in Nat /\ n \in Nat /\ Base <= n /\ cursor \in Nat
      /\ Base + Len(wire) = cursor
      /\ \A i \in 1..Len(wire) : Base + i \in 1..n
  BY <1>2, BaseIs
<1>4. /\ 1 \in 1..Len(wire) /\ msg = Head(wire)
      /\ known \in Map /\ msg \in Message
      /\ Faithful(b, known) /\ Faithful(b, msg.added)
      /\ msg.removed = Log[Base + 1].removed
      /\ msg.updated = Log[Base + 1].updated
      /\ Log[Base + 1].added \subseteq DOMAIN msg.added
      /\ \A id \in DOMAIN known : Spared(b, b[id].path, Base, Base + 1) => id \in DOMAIN m1
      /\ \A id \in DOMAIN msg.added : \/ b[id].parent = RootId
                                      \/ b[id].parent \in DOMAIN msg.added
                                      \/ b[id].parent \in DOMAIN m1
  BY <1>1, ParentsSurvive
<1>5. known' = m3
  BY <1>4 DEF ApplyMessage
<1>6. /\ DOMAIN m1 \subseteq DOMAIN known
      /\ \A id \in DOMAIN known :
           id \in DOMAIN m1 <=> \A x \in msg.removed \intersect DOMAIN known :
                                  id # x /\ b[id].path \notin Below[b[x].path]
      /\ DOMAIN m3 = DOMAIN m1 \union DOMAIN msg.added
      /\ Faithful(b, m3)
      /\ \A id \in DOMAIN m3, k \in Prop :
           IF \E u \in msg.updated : u.id = id /\ u.prop = k
           THEN \E u \in msg.updated : /\ u.id = id /\ u.prop = k
                                       /\ m3[id].props[k] = u.value
           ELSE \/ id \in DOMAIN msg.added /\ m3[id].props[k] = msg.added[id].props[k]
                \/ id \in DOMAIN known /\ m3[id].props[k] = known[id].props[k]
  <2>1. /\ Born(b) /\ known \in Map /\ msg \in Message
        /\ Faithful(b, known) /\ Faithful(b, msg.added)
    BY <1>2, <1>4
  <2> HIDE DEF msg
  <2>2. QED BY <2>1, MessageIsApplied, SMTT(30)
<1> HIDE DEF m1, m3
<1>7. /\ Len(wire') = Len(wire) - 1 /\ Len(wire') \in Nat
      /\ \A i \in 1..Len(wire') : i + 1 \in 1..Len(wire) /\ wire'[i] = wire[i + 1]
  <2>1. wire \in Seq(Message)
    BY DEF TypeInv, ClientInv
  <2>2. /\ Len(wire') = Len(wire) - 1
        /\ \A i \in 1..Len(wire') : wire'[i] = wire[i + 1]
    BY <1>1, <2>1, HeadTailProperties
  <2>3. QED BY <1>3, <1>4, <2>2
<1>8. Base' = Base + 1 /\ Len(wire') <= cursor'
  <2>1. Base' = cursor - Len(wire') /\ Base = cursor - Len(wire)
    BY <1>1 DEF Base
  <2>2. QED BY <1>1, <1>2, <1>3, <1>7, <2>1
<1>9. \A i \in 1..Len(wire') : Base + (i + 1) = Base' + i
  BY <1>3, <1>8
<1>10. InTree' = InTree /\ Ids' = Ids
  BY <1>1 DEF InTree, Ids
<1>11. Base + 1 \in 1..n
  BY <1>3, <1>4
<1>12. WireIsLog(b)'
  <2> SUFFICES ASSUME NEW i \in 1..Len(wire')
               PROVE  /\ wire'[i].removed = Log[Base + (i + 1)].removed
                      /\ wire'[i].updated = Log[Base + (i + 1)].updated
                      /\ Log[Base + (i + 1)].added \subseteq DOMAIN wire'[i].added
                      /\ Named(b, wire'[i].added, Base + (i + 1))
    BY <1>9 DEF WireIsLog, Named
  <2>1. QED BY <1>2, <1>7 DEF WireIsLog
<1>13. Named(b, m3, Base + 1)
  <2>1. ASSUME NEW id \in DOMAIN m3, NEW j \in 1..(Base + 1) PROVE id \notin Log[j].removed
    <3>1. CASE id \in DOMAIN msg.added
      <4>1. Named(b, msg.added, Base + 1)
        BY <1>2, <1>4 DEF WireIsLog
      <4>2. QED BY <3>1, <4>1 DEF Named
    <3>2. CASE id \in DOMAIN m1
      <4>1. CASE j \in 1..Base
        BY <1>2, <1>6, <3>2, <4>1 DEF KnownIsWhole, Named
      <4>2. CASE j = Base + 1
        BY <1>4, <1>6, <3>2, <4>2
      <4>3. QED BY <1>3, <4>1, <4>2
    <3>3. QED BY <1>6, <3>1, <3>2
  <2>2. QED BY <1>6, <2>1 DEF Named, Faithful
<1>14. ASSUME NEW id \in Ids
       PROVE  id \in DOMAIN m3 \/ \E j \in (Base + 2)..n : id \in Log[j].added
  <2>1. CASE id \in DOMAIN known /\ id \notin DOMAIN m1
    <3>1. PICK x \in msg.removed : id = x \/ b[id].path \in Below[b[x].path]
      BY <1>6, <2>1
    <3>2. PICK p \in InTree : tree[p].id = id /\ b[id].path = p
      BY <1>2 DEF Ids, Born
    <3>3. p \in InTree \intersect At(b[x].path)
      BY <3>1, <3>2 DEF At
    <3>4. PICK l \in ((Base + 1) + 1)..n : tree[p].id \in Log[l].added
      BY <1>2, <1>4, <1>11, <3>3 DEF LogIsFinal
    <3>5. l \in (Base + 2)..n
      BY <1>3
    <3>6. QED BY <3>2, <3>4, <3>5
  <2>2. CASE id \in DOMAIN m1
    BY <1>6, <2>2
  <2>3. CASE \E j \in (Base + 1)..n : id \in Log[j].added
    <3>1. PICK j \in (Base + 1)..n : id \in Log[j].added
      BY <2>3
    <3>2. j = Base + 1 \/ j \in (Base + 2)..n
      BY <1>3
    <3>3. QED BY <1>4, <1>6, <3>1, <3>2
  <2>4. QED BY <1>2, <2>1, <2>2, <2>3 DEF KnownIsWhole
<1>15. ASSUME NEW id \in DOMAIN m3
       PROVE  b[id].parent = RootId \/ b[id].parent \in DOMAIN m3
  <2>1. CASE id \in DOMAIN msg.added
    BY <1>4, <1>6, <2>1
  <2>2. CASE id \in DOMAIN m1 /\ b[id].parent # RootId /\ b[id].parent \notin DOMAIN m1
    <3> DEFINE pa == b[id].parent
    <3>1. /\ id \in DOMAIN known /\ pa \in DOMAIN known /\ id \in DOMAIN b
          /\ pa \in DOMAIN b /\ b[pa].path = Parent(b[id].path)
      BY <1>2, <1>6, <2>2 DEF KnownIsWhole, Born, Faithful
    <3>2. PICK x \in msg.removed \intersect DOMAIN known :
            pa = x \/ b[pa].path \in Below[b[x].path]
      BY <1>6, <2>2, <3>1
    <3>3. b[id].path \in Path /\ b[x].path \in Place
      <4>1. x \in DOMAIN b /\ id \in DOMAIN b
        BY <1>4, <3>1, <3>2 DEF Faithful
      <4>2. QED BY <4>1 DEF Birth, Place
    <3>4. b[id].path \in Below[b[pa].path]
      BY <3>1, <3>3, BelowParent
    <3>5. b[id].path \in Below[b[x].path]
      BY <3>2, <3>3, <3>4, BelowIsTransitive
    <3>6. QED BY <1>6, <2>2, <3>1, <3>2, <3>5
  <2>3. QED BY <1>6, <2>1, <2>2
<1>16. KnownIsWhole(b)'
  <2>1. Base + 2 = Base' + 1
    BY <1>3, <1>8
  <2>2. Named(b, known, Base)'
    BY <1>5, <1>8, <1>13 DEF Named
  <2>3. QED BY <1>5, <1>10, <1>14, <1>15, <2>1, <2>2 DEF KnownIsWhole
<1>17. WireHasParents(b)'
  <2> SUFFICES ASSUME NEW i \in 1..Len(wire'), NEW id \in DOMAIN wire'[i].added,
                      b[id].parent # RootId, b[id].parent \notin DOMAIN wire'[i].added
               PROVE  \E t \in 0..(i - 1) :
                        /\ b[id].parent \in IF t = 0 THEN DOMAIN m3 ELSE DOMAIN wire'[t].added
                        /\ Spared(b, b[b[id].parent].path, Base' + t, Base' + i)
    BY <1>5 DEF WireHasParents, Source, Spared, At
  <2> DEFINE pa == b[id].parent
  <2>0. i \in Nat /\ i >= 1 /\ i <= Len(wire')
    BY <1>7
  <2>1. PICK s \in 0..((i + 1) - 1) : /\ pa \in Source(s)
                                      /\ Spared(b, b[pa].path, Base + s, Base + (i + 1))
    BY <1>2, <1>7 DEF WireHasParents
  <2>2. Base + (i + 1) = Base' + i /\ s \in Nat /\ s <= i
    BY <1>9, <2>0
  <2>3. CASE s = 0
    <3>1. pa \in DOMAIN known
      BY <2>1, <2>3 DEF Source
    <3>2. /\ \A j \in (Base + 1)..(Base + 1) : j \in (Base + s + 1)..(Base + (i + 1))
          /\ \A j \in (Base' + 0 + 1)..(Base' + i) : j \in (Base + s + 1)..(Base + (i + 1))
      BY <1>3, <1>8, <2>0, <2>3
    <3>3. Spared(b, b[pa].path, Base, Base + 1) /\ Spared(b, b[pa].path, Base' + 0, Base' + i)
      BY <2>1, <3>2 DEF Spared
    <3>4. pa \in DOMAIN m3 /\ 0 \in 0..(i - 1)
      BY <1>4, <1>6, <2>0, <3>1, <3>3
    <3>5. QED BY <3>3, <3>4
  <2>4. CASE s = 1
    <3>1. pa \in DOMAIN msg.added
      BY <2>1, <2>4 DEF Source
    <3>2. 0 \in 0..(i - 1) /\ Base' + 0 = Base + s
      BY <1>3, <1>8, <2>0, <2>4
    <3>3. QED BY <1>6, <2>1, <2>2, <3>1, <3>2
  <2>5. CASE s > 1
    <3>1. PICK t \in 1..(i - 1) : t = s - 1
      BY <2>0, <2>2, <2>5
    <3>2. t + 1 = s /\ t \in 1..Len(wire') /\ t \in 0..(i - 1) /\ t # 0
      BY <1>7, <2>0, <2>2, <3>1
    <3>3. pa \in DOMAIN wire'[t].added
      <4>1. pa \in DOMAIN wire[s].added
        BY <2>1, <2>2, <2>5 DEF Source
      <4>2. QED BY <1>7, <3>2, <4>1
    <3>4. Base' + t = Base + s
      BY <1>3, <1>8, <2>2, <3>1
    <3>5. QED BY <2>1, <2>2, <3>2, <3>3, <3>4
  <2>6. QED BY <2>2, <2>3, <2>4, <2>5
<1>18. KnownIsCurrent'
  <2> SUFFICES ASSUME NEW id \in DOMAIN m3, NEW p \in InTree, NEW k \in Prop, tree[p].id = id
               PROVE  \/ m3[id].props[k] = tree[p].props[k]
                      \/ \E j \in (Base + 2)..n : Updated(j, id, k)
                      \/ \E w \in writes : w.id = id /\ w.prop = k
    <3>1. Base + 2 = Base' + 1
      BY <1>3, <1>8
    <3>2. QED BY <1>1, <1>5, <1>10, <3>1 DEF KnownIsCurrent, Updated
  <2>1. CASE \E u \in msg.updated : u.id = id /\ u.prop = k
    <3>1. PICK u \in msg.updated : u.id = id /\ u.prop = k /\ m3[id].props[k] = u.value
      BY <1>6, <2>1
    <3>2. \/ tree[p].props[k] = u.value
          \/ \E l \in ((Base + 1) + 1)..n : Updated(l, id, k)
      BY <1>2, <1>4, <1>11, <3>1 DEF LogIsCurrent
    <3>3. (Base + 1) + 1 = Base + 2
      BY <1>3
    <3>4. QED BY <3>1, <3>2, <3>3
  <2>2. CASE ~\E u \in msg.updated : u.id = id /\ u.prop = k
    <3>1. \A j \in (Base + 1)..n : Updated(j, id, k) => j \in (Base + 2)..n
      <4>1. ~Updated(Base + 1, id, k)
        BY <1>4, <2>2 DEF Updated
      <4>2. \A j \in (Base + 1)..n : j = Base + 1 \/ j \in (Base + 2)..n
        BY <1>3
      <4>3. QED BY <4>1, <4>2
    <3>2. CASE id \in DOMAIN msg.added /\ m3[id].props[k] = msg.added[id].props[k]
      BY <1>2, <1>4, <3>1, <3>2 DEF WireIsCurrent
    <3>3. CASE id \in DOMAIN known /\ m3[id].props[k] = known[id].props[k]
      BY <1>2, <3>1, <3>3 DEF KnownIsCurrent
    <3>4. QED BY <1>6, <2>2, <3>2, <3>3
  <2>3. QED BY <2>1, <2>2
<1>19. WireIsCurrent'
  <2> SUFFICES ASSUME NEW i \in 1..Len(wire'), NEW id \in DOMAIN wire'[i].added, NEW p \in InTree,
                      NEW k \in Prop, tree[p].id = id
               PROVE  \/ wire'[i].added[id].props[k] = tree[p].props[k]
                      \/ \E j \in (Base' + i)..n : Updated(j, id, k)
    <3>1. tree' = tree
      BY <1>1
    <3>2. QED BY <1>10, <3>1 DEF WireIsCurrent, Updated
  <2>1. i + 1 \in 1..Len(wire) /\ wire'[i] = wire[i + 1] /\ Base + (i + 1) = Base' + i
    BY <1>7, <1>9
  <2>2. QED BY <1>2, <2>1 DEF WireIsCurrent
<1>20. QED BY <1>1, <1>8, <1>12, <1>16, <1>17, <1>18, <1>19 DEF PluginInv

\* A property change in Studio leaves a write behind.
LEMMA StudioEditKeepsPlugin ==
  ASSUME TypeInv, NEW b \in Birth, PluginInv(b), Log' = Log,
         NEW id \in DOMAIN known, NEW prop, NEW value, StudioEdit(id, prop, value)
  PROVE  PluginInv(b)'
<1>1. /\ client = "live"
      /\ known' = [known EXCEPT ![id].props[prop] = value]
      /\ UNCHANGED <<tree, client, cursor, wire>>
  BY DEF StudioEdit
<1>2. /\ Len(wire) <= cursor /\ WireIsLog(b) /\ KnownIsWhole(b) /\ WireHasParents(b)
      /\ KnownIsCurrent /\ WireIsCurrent
  BY <1>1 DEF PluginInv
<1>3. known \in [DOMAIN known -> Shown]
  BY Maps DEF TypeInv, ClientInv
<1> DEFINE e == [known[id] EXCEPT !.props = [known[id].props EXCEPT ![prop] = value]]
<1>4. /\ e.path = known[id].path /\ e.parent = known[id].parent
      /\ \A k \in Prop : k = prop \/ e.props[k] = known[id].props[k]
  <2>1. known[id] \in Shown
    BY <1>3
  <2>2. QED BY <2>1 DEF Shown
<1>5. known' = [known EXCEPT ![id] = e]
  BY <1>1
<1> HIDE DEF e
<1>6. /\ DOMAIN known' = DOMAIN known
      /\ \A j \in DOMAIN known : /\ known'[j].path = known[j].path
                                 /\ known'[j].parent = known[j].parent
      /\ \A j \in DOMAIN known, k \in Prop :
           (j = id /\ k = prop) \/ known'[j].props[k] = known[j].props[k]
  BY <1>3, <1>4, <1>5
<1>7. Base' = Base /\ InTree' = InTree /\ Ids' = Ids
  BY <1>1 DEF Base, InTree, Ids
<1>8. /\ writes \subseteq writes'
      /\ \E w \in writes' : w.id = id /\ w.prop = prop
  <2> DEFINE w0 == [n |-> studioEdits, id |-> id, prop |-> prop, value |-> value]
  <2>1. w0.id = id /\ w0.prop = prop
    OBVIOUS
  <2>2. writes' = writes \union {w0}
    BY DEF StudioEdit
  <2> HIDE DEF w0
  <2>3. QED BY <2>1, <2>2
<1>9. UNCHANGED <<tree, wire>>
  BY <1>1
<1>10. WireIsLog(b)' /\ WireIsCurrent'
  BY <1>2, <1>7, <1>9 DEF WireIsLog, Named, WireIsCurrent, Updated
<1>11. KnownIsWhole(b)'
  BY <1>2, <1>6, <1>7 DEF KnownIsWhole, Named
<1>12. WireHasParents(b)'
  <2>1. DOMAIN known' = DOMAIN known
    BY <1>6
  <2>2. wire' = wire /\ Base' = Base
    BY <1>7, <1>9
  <2>3. QED BY <1>2, <2>1, <2>2 DEF WireHasParents, Source, Spared, At
<1>13. KnownIsCurrent'
  <2> SUFFICES ASSUME NEW j \in DOMAIN known, NEW p \in InTree, NEW k \in Prop, tree[p].id = j
               PROVE  \/ known'[j].props[k] = tree[p].props[k]
                      \/ \E l \in (Base + 1)..Len(Log) : Updated(l, j, k)
                      \/ \E w \in writes' : w.id = j /\ w.prop = k
    BY <1>6, <1>7, <1>9 DEF KnownIsCurrent, Updated
  <2>1. CASE j = id /\ k = prop
    BY <1>8, <2>1
  <2>2. CASE known'[j].props[k] = known[j].props[k]
    BY <1>2, <1>8, <2>2 DEF KnownIsCurrent
  <2>3. QED BY <1>6, <2>1, <2>2
<1>14. QED BY <1>1, <1>2, <1>10, <1>11, <1>12, <1>13 DEF PluginInv

\* Starting a session, and opening its socket.
LEMMA ConnectKeepsPlugin ==
  ASSUME TypeInv, NEW b, PluginInv(b), Log' = Log, ReadCursor \/ OpenSocket
  PROVE  PluginInv(b)'
<1>1. CASE ReadCursor
  <2>1. wire' = << >> /\ client' = "reading" /\ cursor' = Len(messages)
    BY <1>1 DEF ReadCursor, PluginInv
  <2>2. Len(wire') = 0 /\ Len(messages) \in Nat
    BY <2>1, LogIs, EmptySeq
  <2>3. QED BY <2>1, <2>2 DEF PluginInv
<1>2. CASE OpenSocket
  <2>1. /\ client = "confirming" /\ client' = "live"
        /\ UNCHANGED <<tree, writes, cursor, wire, known>>
    BY <1>2 DEF OpenSocket, serverVars
  <2>2. /\ Len(wire) <= cursor /\ WireIsLog(b) /\ KnownIsWhole(b) /\ WireHasParents(b)
        /\ KnownIsCurrent /\ WireIsCurrent
    BY <2>1 DEF PluginInv
  <2>3. Base' = Base /\ InTree' = InTree /\ Ids' = Ids
    BY <2>1 DEF Base, InTree, Ids
  <2>4. WireIsLog(b)' /\ WireIsCurrent'
    BY <2>1, <2>2, <2>3 DEF WireIsLog, Named, WireIsCurrent, Updated
  <2>5. KnownIsWhole(b)' /\ KnownIsCurrent'
    BY <2>1, <2>2, <2>3 DEF KnownIsWhole, Named, KnownIsCurrent, Updated
  <2>6. WireHasParents(b)'
    BY <2>1, <2>2, <2>3 DEF WireHasParents, Source, Spared, At
  <2>7. QED BY <2>1, <2>2, <2>4, <2>5, <2>6 DEF PluginInv
<1>3. QED BY <1>1, <1>2

-----------------------------------------------------------------------------
(* The theorems.                                                           *)

\* A session starts with every instance just born and nothing sent.
LEMMA StudioInit == Init => StudioInv
<1> SUFFICES ASSUME Init PROVE StudioInv
  OBVIOUS
<1>1. TreeInv /\ InTree \subseteq Path
  BY TreeInit DEF InTree
<1> DEFINE b == [id \in Ids |-> [path |-> PathOf(id), parent |-> IdOf(Parent(PathOf(id)))]]
<1>2. ASSUME NEW p \in InTree
      PROVE  /\ tree[p].id \in Ids /\ tree[p].id \in Nat
             /\ tree[p].id > 0 /\ tree[p].id < nextId /\ PathOf(tree[p].id) = p
             /\ b[tree[p].id].path = p /\ b[tree[p].id].parent = IdOf(Parent(p))
  <2>1. tree[p].id \in Ids /\ PathOf(tree[p].id) = p
    BY <1>1, PathOfIs DEF Ids
  <2>2. tree[p].id \in Nat /\ tree[p].id > 0 /\ tree[p].id < nextId
    BY <1>1 DEF TreeInv
  <2>3. b[tree[p].id] = [path |-> p, parent |-> IdOf(Parent(p))]
    BY <2>1
  <2>4. QED BY <2>1, <2>2, <2>3
<1>3. ASSUME NEW p \in InTree
      PROVE  \/ Parent(p) = Root /\ IdOf(Parent(p)) = RootId
             \/ /\ Parent(p) \in InTree /\ IdOf(Parent(p)) \in Ids /\ IdOf(Parent(p)) # RootId
                /\ b[IdOf(Parent(p))].path = Parent(p)
  <2>1. Parent(p) = Root \/ (Parent(p) \in InTree /\ Parent(p) # Root)
    BY <1>1, ParentIs, BelowParent, PathAssumption DEF TreeInv, Place
  <2> HIDE DEF b
  <2>2. QED BY <1>2, <2>1 DEF IdOf, RootId
<1>4. DOMAIN b = Ids /\ b \in Birth
  <2>1. \A id \in Ids : /\ id \in Nat /\ PathOf(id) \in Path
                        /\ IdOf(Parent(PathOf(id))) \in Nat
    <3> SUFFICES ASSUME NEW id \in Ids
                 PROVE  id \in Nat /\ PathOf(id) \in Path /\ IdOf(Parent(PathOf(id))) \in Nat
      OBVIOUS
    <3>1. PICK p \in InTree : tree[p].id = id
      BY DEF Ids
    <3>2. IdOf(Parent(p)) \in Nat
      BY <1>2, <1>3 DEF IdOf, RootId
    <3>3. QED BY <1>1, <1>2, <3>1, <3>2
  <2>2. b \in [Ids -> [path : Path, parent : Nat]] /\ Ids \in SUBSET Nat
    BY <2>1
  <2>3. QED BY <2>2 DEF Birth
<1> HIDE DEF b
<1>5. Log = << >> /\ Len(Log) = 0 /\ \A j \in 1..Len(Log) : FALSE
  <2>1. Log = << >>
    BY DEF Init, Log
  <2>2. Len(Log) = 0
    BY <2>1, EmptySeq
  <2>3. QED BY <2>1, <2>2
<1>6. Born(b)
  <2>1. ASSUME NEW id \in DOMAIN b
        PROVE  /\ id > 0 /\ id < nextId
               /\ IF b[id].parent = RootId THEN Parent(b[id].path) = Root
                  ELSE b[id].parent \in DOMAIN b /\ b[b[id].parent].path = Parent(b[id].path)
    <3>1. PICK p \in InTree : tree[p].id = id
      BY <1>4 DEF Ids
    <3>2. QED BY <1>2, <1>3, <1>4, <3>1
  <2>2. QED BY <1>2, <1>4, <2>1 DEF Born
<1>7. LogIsKnown(b) /\ LogIsOrdered(b) /\ LogIsFinal(b) /\ LogIsCurrent
  <2>1. work = None
    BY DEF Init
  <2>2. QED BY <1>4, <1>5, <2>1 DEF LogIsKnown, LogIsOrdered, LogIsFinal, LogIsCurrent
<1>8. PluginInv(b)
  <2>1. Len(wire) = 0 /\ cursor = 0 /\ wire = << >> /\ client = "away"
    BY EmptySeq DEF Init
  <2>2. QED BY <2>1 DEF PluginInv
<1>9. QED BY <1>4, <1>6, <1>7, <1>8 DEF StudioInv, ServerInv

\* Every step keeps what the log and the wire say true.
LEMMA StudioStep == TypeInv /\ TypeInv' /\ StudioInv /\ [Next]_vars => StudioInv'
<1> SUFFICES ASSUME TypeInv, TypeInv', StudioInv, [Next]_vars PROVE StudioInv'
  OBVIOUS
<1>1. PICK b \in Birth : ServerInv(b) /\ PluginInv(b)
  BY DEF StudioInv
<1>2. ASSUME NEW end, Disk \/ Processor \/ RenderPanics(end) \/ UNCHANGED vars PROVE StudioInv'
  BY <1>1, <1>2, ServerStep
<1>3. ASSUME UNCHANGED <<tree, nextId, work, unsent, messages>>, PluginInv(b)' PROVE StudioInv'
  <2>1. Log' = Log /\ (work' # None => unsent' = None)
    BY <1>1, <1>3 DEF Log, ServerInv, LogIsKnown
  <2>2. ServerInv(b)'
    BY <1>1, <1>3, <2>1, QuietKeepsServer
  <2>3. QED BY <1>3, <2>2 DEF StudioInv
<1>4. ASSUME NEW end,
             \/ ReadCursor \/ ReadTree \/ OpenSocket \/ ApplyMessage
             \/ end \in (cursor + 1)..Len(messages) /\ Deliver(end)
      PROVE  StudioInv'
  <2>1. UNCHANGED <<tree, nextId, work, unsent, messages>>
    BY <1>4 DEF ReadCursor, ReadTree, OpenSocket, Deliver, ApplyMessage, serverVars
  <2>2. Log' = Log
    BY <2>1 DEF Log
  <2>3. PluginInv(b)'
    BY <1>1, <1>4, <2>2, ConnectKeepsPlugin, ReadTreeKeepsPlugin, DeliverKeepsPlugin,
       ApplyMessageKeepsPlugin
  <2>4. QED BY <1>3, <2>1, <2>3
<1>5. ASSUME Studio PROVE StudioInv'
  <2>1. PICK id \in DOMAIN known :
          \/ \E c \in Content : StudioEdit(id, "Source", c)
          \/ StudioEdit(id, "Other", "fromStudio")
    BY <1>5 DEF Studio
  <2>2. PICK prop, value : StudioEdit(id, prop, value)
    BY <2>1
  <2>3. UNCHANGED <<tree, nextId, work, unsent, messages>>
    BY <2>2 DEF StudioEdit
  <2>4. Log' = Log
    BY <2>3 DEF Log
  <2>5. PluginInv(b)'
    BY <1>1, <2>2, <2>4, StudioEditKeepsPlugin
  <2>6. QED BY <1>3, <2>3, <2>5
<1>6. QED BY <1>2, <1>4, <1>5 DEF Next, Socket

\* What the log and the wire say is true in every reachable state.
LEMMA StudioHolds == Spec => []StudioInv
<1>1. TypeInv /\ StudioInv /\ [Next]_vars /\ TypeInv' => StudioInv'
  BY StudioStep
<1>2. QED BY <1>1, StudioInit, TypesHold, PTL DEF Spec

\* When nothing is on its way, Studio has exactly the instances of the server's
\* tree, each at its place and with its properties, although the snapshot it
\* started from was newer than its cursor, messages are rendered late, and
\* two-way sync writes race the file watcher.
THEOREM StudioShowsTree == Spec => []StudioMatchesTree
<1>1. TypeInv /\ StudioInv => StudioMatchesTree
  <2> SUFFICES ASSUME TypeInv, StudioInv, Settled
               PROVE  known = [id \in Ids |-> Rendered(PathOf(id))]
    BY DEF StudioMatchesTree
  <2>1. PICK b \in Birth : ServerInv(b) /\ PluginInv(b)
    BY DEF StudioInv
  <2>2. /\ KnownIsWhole(b) /\ KnownIsCurrent /\ Born(b) /\ LogIsFinal(b) /\ writes = {}
    BY <2>1 DEF PluginInv, ServerInv, Settled
  <2>3. Base = Len(Log) /\ Len(Log) \in Nat
    <3>1. Log = messages /\ cursor = Len(messages) /\ wire = << >>
      BY DEF Settled, Log
    <3>2. Len(wire) = 0 /\ Len(messages) \in Nat
      BY <3>1, EmptySeq, LogIs
    <3>3. QED BY <3>1, <3>2 DEF Base
  <2>4. \A j \in (Base + 1)..Len(Log) : FALSE
    BY <2>3
  <2>5. Ids \subseteq DOMAIN known
    BY <2>2, <2>4 DEF KnownIsWhole
  <2>6. \A id \in DOMAIN known : id \in DOMAIN b /\ b[id].path \in Path
    BY <2>2 DEF KnownIsWhole, Named, Birth
  <2>7. DOMAIN known \subseteq Ids
    <3> DEFINE A == DOMAIN known \ Ids
               S == {Len(b[id].path) : id \in A}
    <3> SUFFICES ASSUME A # {} PROVE FALSE
      OBVIOUS
    <3>1. \A id \in A : Len(b[id].path) \in Nat
      BY <2>6, Places DEF Place
    <3>2. S \in SUBSET Nat /\ S # {}
      BY <3>1
    <3>3. PICK m \in S : \A k \in S : m <= k
      BY <3>2, LeastNumber
    <3>4. PICK id \in A : Len(b[id].path) = m
      OBVIOUS
    <3>5. id \in DOMAIN b \ Ids /\ \A j \in 1..Len(Log) : id \notin Log[j].removed
      BY <2>2, <2>3, <3>4 DEF KnownIsWhole, Named
    <3>6. b[id].parent # RootId /\ b[id].parent \notin Ids
      BY <2>2, <3>5 DEF LogIsFinal
    <3>7. b[id].parent \in A
      BY <2>2, <3>4, <3>6 DEF KnownIsWhole
    <3>8. b[b[id].parent].path = Parent(b[id].path)
      BY <2>2, <3>5, <3>6 DEF Born
    <3>9. Len(Parent(b[id].path)) = Len(b[id].path) - 1
      BY <2>6, <3>4, ParentIs
    <3>10. Len(b[b[id].parent].path) \in S
      BY <3>7
    <3>11. QED BY <3>1, <3>3, <3>4, <3>8, <3>9, <3>10
  <2>8. ASSUME NEW id \in Ids PROVE known[id] = Rendered(PathOf(id))
    <3> DEFINE r == Rendered(PathOf(id))
    <3>1. PICK p \in InTree : tree[p].id = id
      BY DEF Ids
    <3>2. /\ r.path = b[id].path /\ r.parent = b[id].parent /\ r.props = tree[p].props
      BY <2>2, <3>1, RenderedIsBorn
    <3>3. known[id].path = b[id].path /\ known[id].parent = b[id].parent
      BY <2>2, <2>5 DEF KnownIsWhole, Named
    <3>4. \A k \in Prop : known[id].props[k] = tree[p].props[k]
      BY <2>2, <2>4, <2>5, <3>1 DEF KnownIsCurrent
    <3>5. known[id] \in Shown /\ tree[p] \in Instance
      <4>1. known \in [DOMAIN known -> Shown]
        BY Maps DEF TypeInv, ClientInv
      <4>2. QED BY <2>5, <4>1 DEF TypeInv, TreeInv, InTree
    <3>6. known[id].props = tree[p].props
      <4>1. known[id].props \in [Prop -> Value] /\ tree[p].props \in [Prop -> Value]
        BY <3>5 DEF Shown, Instance
      <4>2. QED BY <3>4, <4>1
    <3>7. known[id] = [parent |-> known[id].parent, path |-> known[id].path,
                       props |-> known[id].props]
      BY <3>5 DEF Shown
    <3>8. r = [parent |-> r.parent, path |-> r.path, props |-> r.props]
      BY DEF Rendered
    <3> HIDE DEF r
    <3>9. known[id] = r
      BY <3>2, <3>3, <3>6, <3>7, <3>8
    <3>10. QED BY <3>9 DEF r
  <2>9. known \in [DOMAIN known -> Shown] /\ DOMAIN known = Ids
    BY <2>5, <2>7, Maps DEF TypeInv, ClientInv
  <2>10. QED BY <2>8, <2>9
<1>2. QED BY <1>1, TypesHold, StudioHolds, PTL

\* The plugin never meets an addition whose parent neither comes with it nor is
\* known after the removals of the message, on which applyPatch raises an error.
THEOREM AdditionsHaveParents == Spec => []NoParentlessAddition
<1>1. TypeInv /\ StudioInv => NoParentlessAddition
  <2> SUFFICES ASSUME TypeInv, StudioInv, client = "live", wire # << >>
               PROVE  Parentless(AfterRemovals(known, Head(wire).removed), Head(wire).added) = {}
    BY DEF NoParentlessAddition
  <2>1. PICK b \in Birth : ServerInv(b) /\ PluginInv(b)
    BY DEF StudioInv
  <2> DEFINE msg == wire[1]
             m1 == AfterRemovals(known, msg.removed)
  <2>2. /\ msg = Head(wire) /\ Faithful(b, msg.added)
        /\ \A id \in DOMAIN msg.added : \/ b[id].parent = RootId
                                        \/ b[id].parent \in DOMAIN msg.added
                                        \/ b[id].parent \in DOMAIN m1
    BY <2>1, ParentsSurvive
  <2> HIDE DEF msg, m1
  <2>3. ReifiedIds(m1, msg.added) \subseteq DOMAIN msg.added
    BY <2>1, <2>2, UnknownIsReified DEF ServerInv
  <2>4. Parentless(m1, msg.added) = {}
    BY <2>2, <2>3 DEF Parentless, Faithful
  <2>5. QED BY <2>2, <2>4 DEF m1
<1>2. QED BY <1>1, TypesHold, StudioHolds, PTL
=============================================================================
