--------------------------- MODULE RojoTreeProofs ---------------------------
(***************************************************************************)
(* For any tree, the operations of RojoTree on instances, snapshots and    *)
(* patches keep the index from paths to instances exact and parents and    *)
(* children in agreement; and the patch that is computed for a snapshot    *)
(* makes of the tree what the snapshot says.                               *)
(***************************************************************************)
EXTENDS RojoTree, FiniteSetTheorems, SequenceTheorems, TLAPS

CONSTANTS Names, Classes, Props, Metas

\* What an instance and a tree are.
Instances == [name : Names, class : Classes, props : Props, parent : Nat \union {None},
              kids : Seq(Nat), meta : Metas]
Trees == [inst : UNION {[D -> Instances] : D \in SUBSET Nat}, paths : [Path -> Seq(Nat)], next : Nat]

\* A snapshot of an instance; its children do not matter here.
IsSnapshot(s) == s.name \in Names /\ s.class \in Classes /\ s.props \in Props /\ s.meta \in Metas

\* The invariant of RojoTree: fresh ids are fresh, the index is exact, and
\* parents and children agree.
Consistent(t) ==
  /\ t \in Trees /\ Root \in DOMAIN t.inst
  /\ \A i \in DOMAIN t.inst : i < t.next
  /\ IndexIsExact(t) /\ KidsAgree(t)

-----------------------------------------------------------------------------
(* Buckets.                                                                *)

\* The elements of a sequence.
LEMMA RangeIs ==
  ASSUME NEW S, NEW s \in Seq(S)
  PROVE  /\ DOMAIN s = 1..Len(s) /\ Len(s) \in Nat
         /\ \A i \in 1..Len(s) : s[i] \in S
         /\ \A x : x \in Range(s) <=> \E i \in 1..Len(s) : s[i] = x
<1>1. DOMAIN s = 1..Len(s) /\ Len(s) \in Nat
  BY LenProperties
<1>2. \A i \in 1..Len(s) : s[i] \in S
  BY ElementOfSeq
<1>3. QED BY <1>1, <1>2 DEF Range

\* The numbers but the last.
LEMMA ButLast ==
  ASSUME NEW n \in Nat
  PROVE  \A i : i \in 1..(n - 1) <=> i \in 1..n /\ i # n
OBVIOUS

\* Appending what is not there.
LEMMA AppendIs ==
  ASSUME NEW b \in Seq(Nat), NEW v \in Nat, IsInjective(b), v \notin Range(b)
  PROVE  /\ Append(b, v) \in Seq(Nat) /\ IsInjective(Append(b, v))
         /\ Range(Append(b, v)) = Range(b) \union {v}
<1> DEFINE n == Len(b)
           c == Append(b, v)
<1>1. /\ DOMAIN b = 1..n /\ n \in Nat
      /\ \A x : x \in Range(b) <=> \E i \in 1..n : b[i] = x
  BY RangeIs
<1>2. /\ c \in Seq(Nat) /\ Len(c) = n + 1 /\ c[n + 1] = v
      /\ \A i \in 1..n : c[i] = b[i]
  BY AppendProperties
<1> HIDE DEF c
<1>3. /\ DOMAIN c = 1..(n + 1)
      /\ \A x : x \in Range(c) <=> \E i \in 1..(n + 1) : c[i] = x
  BY <1>2, RangeIs
<1>4. \A i \in 1..(n + 1) : i \in 1..n \/ i = n + 1
  BY <1>1
<1>5. \A i \in 1..n : i \in 1..(n + 1)
  BY <1>1
<1>6. n + 1 \in 1..(n + 1)
  BY <1>1
<1> HIDE DEF n
<1>7. IsInjective(c)
  <2>1. \A i \in 1..n : c[i] # v
    BY <1>1, <1>2
  <2>2. \A i, j \in 1..n : c[i] = c[j] => i = j
    BY <1>1, <1>2 DEF IsInjective
  <2>3. QED BY <1>2, <1>3, <1>4, <2>1, <2>2 DEF IsInjective
<1>8. Range(c) = Range(b) \union {v}
  <2>1. \A x : x \in Range(c) <=> x \in Range(b) \/ x = v
    BY <1>1, <1>2, <1>3, <1>4, <1>5, <1>6
  <2>2. QED BY <2>1
<1>9. QED BY <1>2, <1>7, <1>8 DEF c

\* Taking a child out of the children.
LEMMA TakeOutIs ==
  ASSUME NEW b \in Seq(Nat), NEW v \in Nat, IsInjective(b)
  PROVE  /\ TakeOut(b, v) \in Seq(Nat) /\ IsInjective(TakeOut(b, v))
         /\ Range(TakeOut(b, v)) = Range(b) \ {v}
<1>1. CASE v \notin Range(b)
  BY <1>1 DEF TakeOut
<1>2. CASE v \in Range(b)
  <2> DEFINE n == Len(b)
             k == CHOOSE i \in DOMAIN b : b[i] = v
             r == TakeOut(b, v)
  <2>1. /\ DOMAIN b = 1..n /\ n \in Nat
        /\ \A i \in 1..n : b[i] \in Nat
        /\ \A x : x \in Range(b) <=> \E i \in 1..n : b[i] = x
    BY RangeIs
  <2>2. k \in 1..n /\ b[k] = v
    BY <1>2, <2>1
  <2>3. \A i, j \in 1..n : b[i] = b[j] => i = j
    BY <2>1 DEF IsInjective
  <2>4. r = SubSeq(b, 1, k - 1) \o SubSeq(b, k + 1, n)
    BY <1>2 DEF TakeOut, RemoveAt
  <2> HIDE DEF k, r
  <2>5. /\ n - 1 \in Nat /\ k - 1 \in Nat /\ n - k \in Nat
        /\ (k - 1) + (n - k) = n - 1
    BY <2>1, <2>2
  <2>6. /\ SubSeq(b, 1, k - 1) \in Seq(Nat) /\ Len(SubSeq(b, 1, k - 1)) = k - 1
        /\ \A i \in 1..(k - 1) : SubSeq(b, 1, k - 1)[i] = b[i]
    <3>1. \A i \in 1..(k - 1) : b[i] \in Nat
      BY <2>1, <2>2
    <3>2. 1 \in Int /\ k - 1 \in Int /\ (k - 1) - 1 + 1 = k - 1 /\ ~(1 > (k - 1) + 1)
      BY <2>5
    <3>3. QED BY <3>1, <3>2, SubSeqProperties
  <2>7. /\ SubSeq(b, k + 1, n) \in Seq(Nat) /\ Len(SubSeq(b, k + 1, n)) = n - k
        /\ \A i \in 1..(n - k) : SubSeq(b, k + 1, n)[i] = b[k + i]
    <3>1. \A i \in (k + 1)..n : b[i] \in Nat
      BY <2>1, <2>2
    <3>2. /\ k + 1 \in Int /\ n \in Int /\ n - (k + 1) + 1 = n - k /\ ~(k + 1 > n + 1)
          /\ \A i \in 1..(n - k) : (k + 1) + i - 1 = k + i
      BY <2>1, <2>2
    <3>3. QED BY <3>1, <3>2, SubSeqProperties
  <2>8. /\ r \in Seq(Nat) /\ Len(r) = n - 1
        /\ \A i \in 1..(n - 1) : r[i] = IF i < k THEN b[i] ELSE b[i + 1]
    <3> DEFINE u == SubSeq(b, 1, k - 1)
               w == SubSeq(b, k + 1, n)
    <3> HIDE DEF u, w
    <3>1. /\ r = u \o w
          /\ u \in Seq(Nat) /\ Len(u) = k - 1 /\ (\A i \in 1..(k - 1) : u[i] = b[i])
          /\ w \in Seq(Nat) /\ Len(w) = n - k /\ (\A i \in 1..(n - k) : w[i] = b[k + i])
      BY <2>4, <2>6, <2>7 DEF u, w
    <3>2. /\ r \in Seq(Nat) /\ Len(r) = Len(u) + Len(w)
          /\ \A i \in 1..(Len(u) + Len(w)) : r[i] = IF i <= Len(u) THEN u[i] ELSE w[i - Len(u)]
      BY <3>1, ConcatProperties
    <3>3. \A i \in 1..(n - 1) : r[i] = IF i <= k - 1 THEN u[i] ELSE w[i - (k - 1)]
      BY <2>5, <3>1, <3>2
    <3>4. ASSUME NEW i \in 1..(n - 1) PROVE r[i] = IF i < k THEN b[i] ELSE b[i + 1]
      <4>1. CASE i < k
        <5>1. i \in 1..(k - 1) /\ i <= k - 1
          BY <2>2, <4>1
        <5>2. QED BY <3>1, <3>3, <4>1, <5>1
      <4>2. CASE ~(i < k)
        <5>1. i - (k - 1) \in 1..(n - k) /\ ~(i <= k - 1) /\ k + (i - (k - 1)) = i + 1
          BY <2>1, <2>2, <4>2
        <5>2. QED BY <3>1, <3>3, <4>2, <5>1
      <4>3. QED BY <4>1, <4>2
    <3>5. QED BY <2>5, <3>1, <3>2, <3>4
  <2>9. /\ DOMAIN r = 1..(n - 1)
        /\ \A x : x \in Range(r) <=> \E i \in 1..(n - 1) : r[i] = x
    BY <2>8, RangeIs
  <2> HIDE DEF n
  <2> DEFINE at(i) == IF i < k THEN i ELSE i + 1
  <2>10. \A i \in 1..(n - 1) : at(i) \in 1..n /\ at(i) # k /\ r[i] = b[at(i)]
    BY <2>1, <2>2, <2>8
  <2>11. \A i, j \in 1..(n - 1) : at(i) = at(j) => i = j
    BY <2>1, <2>2
  <2>12. ASSUME NEW j \in 1..n, j # k PROVE \E i \in 1..(n - 1) : at(i) = j
    <3>1. CASE j < k
      <4>1. j \in 1..(n - 1) /\ at(j) = j
        BY <2>1, <2>2, <3>1
      <4>2. QED BY <4>1
    <3>2. CASE ~(j < k)
      <4>1. j - 1 \in 1..(n - 1) /\ at(j - 1) = j
        BY <2>1, <2>2, <2>12, <3>2
      <4>2. QED BY <4>1
    <3>3. QED BY <3>1, <3>2
  <2> HIDE DEF at
  <2>13. IsInjective(r)
    BY <2>3, <2>9, <2>10, <2>11 DEF IsInjective
  <2>14. \A x : x \in Range(r) <=> x \in Range(b) /\ x # v
    <3>1. ASSUME NEW i \in 1..(n - 1) PROVE r[i] \in Range(b) /\ r[i] # v
      BY <2>1, <2>2, <2>3, <2>10
    <3>2. ASSUME NEW j \in 1..n, b[j] # v PROVE \E i \in 1..(n - 1) : r[i] = b[j]
      BY <2>2, <2>10, <2>12, <3>2
    <3>3. QED BY <2>1, <2>9, <3>1, <3>2
  <2>15. QED BY <2>8, <2>13, <2>14 DEF r
<1>3. QED BY <1>1, <1>2

\* MultiMap::insert.
LEMMA BucketInsertIs ==
  ASSUME NEW b \in Seq(Nat), NEW v \in Nat, IsInjective(b)
  PROVE  /\ BucketInsert(b, v) \in Seq(Nat) /\ IsInjective(BucketInsert(b, v))
         /\ Range(BucketInsert(b, v)) = Range(b) \union {v}
<1>1. CASE v \in Range(b)
  BY <1>1 DEF BucketInsert
<1>2. CASE v \notin Range(b)
  BY <1>2, AppendIs DEF BucketInsert
<1>3. QED BY <1>1, <1>2

\* MultiMap::remove: the last id takes the place of the one that goes.
LEMMA BucketRemoveIs ==
  ASSUME NEW b \in Seq(Nat), NEW v \in Nat, IsInjective(b)
  PROVE  /\ BucketRemove(b, v) \in Seq(Nat) /\ IsInjective(BucketRemove(b, v))
         /\ Range(BucketRemove(b, v)) = Range(b) \ {v}
<1>1. CASE v \notin Range(b)
  BY <1>1 DEF BucketRemove
<1>2. CASE v \in Range(b)
  <2> DEFINE n == Len(b)
             c == [i \in DOMAIN b |-> IF b[i] = v THEN Last(b) ELSE b[i]]
             r == BucketRemove(b, v)
  <2>1. /\ DOMAIN b = 1..n /\ n \in Nat
        /\ \A i \in 1..n : b[i] \in Nat
        /\ \A x : x \in Range(b) <=> \E i \in 1..n : b[i] = x
    BY RangeIs
  <2>2. PICK k \in 1..n : b[k] = v
    BY <1>2, <2>1
  <2>3. \A i, j \in 1..n : b[i] = b[j] => i = j
    BY <2>1 DEF IsInjective
  <2>4. n \in 1..n /\ n - 1 \in Nat
    BY <2>1, <2>2
  <2>5. \A i \in 1..n : c[i] = IF i = k THEN b[n] ELSE b[i]
    BY <2>1, <2>2, <2>3 DEF Last
  <2>6. c \in [1..n -> Nat]
    <3>1. b[n] \in Nat
      BY <2>1, <2>4
    <3>2. QED BY <2>1, <3>1 DEF Last
  <2>7. c \in Seq(Nat) /\ Len(c) = n
    BY <2>1, <2>6, IsASeq, LenProperties
  <2>8. r = SubSeq(c, 1, n - 1)
    BY <1>2, <2>7 DEF BucketRemove, Front
  <2> HIDE DEF c, r
  <2>9. /\ r \in Seq(Nat) /\ Len(r) = n - 1
        /\ \A i \in 1..(n - 1) : r[i] = c[i]
    <3>1. \A i \in 1..(n - 1) : c[i] \in Nat
      BY <2>4, <2>6
    <3>2. 1 \in Int /\ n - 1 \in Int /\ (n - 1) - 1 + 1 = n - 1 /\ ~(1 > (n - 1) + 1)
      BY <2>4
    <3>3. QED BY <2>8, <3>1, <3>2, <2>4, SubSeqProperties
  <2>10. /\ DOMAIN r = 1..(n - 1)
         /\ \A x : x \in Range(r) <=> \E i \in 1..(n - 1) : r[i] = x
    BY <2>9, RangeIs
  <2>11. \A i \in 1..(n - 1) : i \in 1..n /\ i # n
    BY <2>1, ButLast
  <2>12. \A i \in 1..n : i # n => i \in 1..(n - 1)
    BY <2>1, ButLast
  <2>13. \A i \in 1..(n - 1) : r[i] = IF i = k THEN b[n] ELSE b[i]
    BY <2>5, <2>9, <2>11
  <2> HIDE DEF n
  <2>14. IsInjective(r)
    <3>1. ASSUME NEW i \in 1..(n - 1), NEW j \in 1..(n - 1), r[i] = r[j] PROVE i = j
      <4>1. i \in 1..n /\ i # n /\ j \in 1..n /\ j # n
        BY <2>11
      <4>2. CASE i = k
        BY <2>3, <2>4, <2>13, <3>1, <4>1, <4>2
      <4>3. CASE i # k
        BY <2>3, <2>4, <2>13, <3>1, <4>1, <4>3
      <4>4. QED BY <4>2, <4>3
    <3>2. QED BY <2>10, <3>1 DEF IsInjective
  <2>15. \A x : x \in Range(r) <=> x \in Range(b) /\ x # v
    <3>1. ASSUME NEW i \in 1..(n - 1) PROVE r[i] \in Range(b) /\ r[i] # v
      BY <2>1, <2>2, <2>3, <2>4, <2>11, <2>13
    <3>2. ASSUME NEW j \in 1..n, b[j] # v PROVE \E i \in 1..(n - 1) : r[i] = b[j]
      <4>1. j # k
        BY <2>2, <3>2
      <4>2. CASE j = n
        BY <2>12, <2>13, <4>1, <4>2
      <4>3. CASE j # n
        BY <2>12, <2>13, <4>1, <4>3
      <4>4. QED BY <4>2, <4>3
    <3>3. QED BY <2>1, <2>10, <3>1, <3>2
  <2>16. QED BY <2>9, <2>14, <2>15 DEF r
<1>3. QED BY <1>1, <1>2

-----------------------------------------------------------------------------
(* The index.                                                              *)

\* The least-number principle, for sets.
LEMMA LeastNumber ==
  ASSUME NEW S \in SUBSET Nat, S # {}
  PROVE  \E m \in S : \A n \in S : m <= n
<1> DEFINE T == {1..n : n \in S}
<1>1. \A n \in Nat : IsFiniteSet(1..n)
  BY FS_Interval
<1>2. T \subseteq FiniteSubsetsOf(Nat) /\ T # {}
  <2>1. \A n \in S : 1..n \in SUBSET Nat /\ IsFiniteSet(1..n)
    BY <1>1
  <2>2. QED BY <2>1 DEF FiniteSubsetsOf
<1>3. PICK x \in T : \A y \in T : ~(<<y, x>> \in StrictSubsetOrdering(Nat))
  <2>1. IsWellFoundedOn(StrictSubsetOrdering(Nat), FiniteSubsetsOf(Nat))
    BY FS_StrictSubsetOrderingWellFounded
  <2> HIDE DEF T
  <2>2. QED BY <1>2, <2>1, WFMin
<1>4. PICK m \in S : x = 1..m
  OBVIOUS
<1>5. ASSUME NEW n \in S, ~(m <= n) PROVE FALSE
  <2>1. 1..n \subseteq 1..m /\ m \in 1..m /\ m \notin 1..n
    BY <1>5
  <2>2. <<1..n, 1..m>> \in StrictSubsetOrdering(Nat)
    BY <2>1 DEF StrictSubsetOrdering
  <2>3. QED BY <2>2, <1>3, <1>4
<1>6. QED BY <1>5

\* An index whose buckets hold nothing twice.
Indexes == {q \in [Path -> Seq(Nat)] : \A p \in Path : IsInjective(q[p])}

\* An index with an id in some of its buckets.
IsWith(r, q, id, rel) ==
  /\ r \in Indexes
  /\ \A p \in Path : Range(r[p]) = IF p \in rel THEN Range(q[p]) \union {id} ELSE Range(q[p])

\* insert_metadata, for the index.
LEMMA PathsInsertIs ==
  ASSUME NEW q \in Indexes, NEW id \in Nat, NEW rel
  PROVE  IsWith(PathsInsert(q, id, rel), q, id, rel)
<1> DEFINE r == PathsInsert(q, id, rel)
<1>1. DOMAIN q = Path /\ \A p \in Path : q[p] \in Seq(Nat) /\ IsInjective(q[p])
  BY DEF Indexes
<1>2. /\ r = [p \in Path |-> IF p \in rel THEN BucketInsert(q[p], id) ELSE q[p]]
      /\ \A p \in Path : r[p] = IF p \in rel THEN BucketInsert(q[p], id) ELSE q[p]
  BY <1>1 DEF PathsInsert
<1> HIDE DEF r
<1>3. ASSUME NEW p \in Path
      PROVE  /\ r[p] \in Seq(Nat) /\ IsInjective(r[p])
             /\ Range(r[p]) = IF p \in rel THEN Range(q[p]) \union {id} ELSE Range(q[p])
  <2>1. CASE p \in rel
    BY <1>1, <1>2, <2>1, BucketInsertIs
  <2>2. CASE p \notin rel
    BY <1>1, <1>2, <2>2
  <2>3. QED BY <2>1, <2>2
<1>4. r \in [Path -> Seq(Nat)]
  BY <1>2, <1>3
<1>5. r \in Indexes
  BY <1>3, <1>4 DEF Indexes
<1>6. QED BY <1>3, <1>5 DEF r, IsWith

\* An index without an id in some of its buckets.
IsWithout(r, q, id, rel) ==
  /\ r \in Indexes
  /\ \A p \in Path : Range(r[p]) = IF p \in rel THEN Range(q[p]) \ {id} ELSE Range(q[p])

\* remove_metadata, for the index.
LEMMA PathsRemoveIs ==
  ASSUME NEW q \in Indexes, NEW id \in Nat, NEW rel
  PROVE  IsWithout(PathsRemove(q, id, rel), q, id, rel)
<1> DEFINE r == PathsRemove(q, id, rel)
<1>1. DOMAIN q = Path /\ \A p \in Path : q[p] \in Seq(Nat) /\ IsInjective(q[p])
  BY DEF Indexes
<1>2. /\ r = [p \in Path |-> IF p \in rel THEN BucketRemove(q[p], id) ELSE q[p]]
      /\ \A p \in Path : r[p] = IF p \in rel THEN BucketRemove(q[p], id) ELSE q[p]
  BY <1>1 DEF PathsRemove
<1> HIDE DEF r
<1>3. ASSUME NEW p \in Path
      PROVE  /\ r[p] \in Seq(Nat) /\ IsInjective(r[p])
             /\ Range(r[p]) = IF p \in rel THEN Range(q[p]) \ {id} ELSE Range(q[p])
  <2>1. CASE p \in rel
    BY <1>1, <1>2, <2>1, BucketRemoveIs
  <2>2. CASE p \notin rel
    BY <1>1, <1>2, <2>2
  <2>3. QED BY <2>1, <2>2
<1>4. r \in [Path -> Seq(Nat)]
  BY <1>2, <1>3
<1>5. r \in Indexes
  BY <1>3, <1>4 DEF Indexes
<1>6. QED BY <1>3, <1>5 DEF r, IsWithout

\* The recursion of Unindex.
Removals(g, q, inst, ids) ==
  g = [n \in 0..Len(ids) |-> IF n = 0 THEN q
         ELSE PathsRemove(g[n - 1], ids[n], Range(inst[ids[n]].meta.rel))]

\* The removals one after the other are a function: the recursion of Unindex
\* has a solution.
LEMMA UnindexRuns ==
  ASSUME NEW q \in Indexes, NEW ids \in Seq(Nat), NEW inst
  PROVE  \E g : Removals(g, q, inst, ids)
<1> DEFINE L == Len(ids)
<1>0. L \in Nat /\ ids \in [1..L -> Nat]
  BY RangeIs, LenProperties
<1> HIDE DEF L
<1> DEFINE Rel(n) == Range(inst[ids[n]].meta.rel)
<1> HIDE DEF Rel
<1> DEFINE Run(n, g) == g[0] = q /\ \A k \in 1..n : g[k] = PathsRemove(g[k - 1], ids[k], Rel(k))
           Stuck == {n \in 0..L : ~\E g \in [0..n -> Indexes] : Run(n, g)}
<1>1. Stuck = {}
  <2> SUFFICES ASSUME Stuck # {} PROVE FALSE
    OBVIOUS
  <2>1. Stuck \in SUBSET Nat
    BY <1>0
  <2>2. PICK m \in Stuck : \A n \in Stuck : m <= n
    BY <2>1, LeastNumber
  <2>3. m \in 0..L /\ m \in Nat
    BY <1>0, <2>2
  <2>4. m # 0
    <3> DEFINE g == [n \in 0..0 |-> q]
    <3>1. g \in [0..0 -> Indexes] /\ Run(0, g)
      OBVIOUS
    <3>2. 0 \notin Stuck
      BY <3>1
    <3>3. QED BY <2>2, <3>2
  <2>5. m - 1 \in 0..L /\ m - 1 \in Nat /\ ~(m <= m - 1)
    BY <1>0, <2>3, <2>4
  <2>6. PICK g \in [0..(m - 1) -> Indexes] : Run(m - 1, g)
    BY <2>2, <2>5
  <2> DEFINE new == PathsRemove(g[m - 1], ids[m], Rel(m))
             h == [k \in 0..m |-> IF k = m THEN new ELSE g[k]]
  <2>7. new \in Indexes
    <3>1. g[m - 1] \in Indexes
      <4>1. m - 1 \in 0..(m - 1)
        BY <2>5
      <4>2. QED BY <4>1
    <3>2. ids[m] \in Nat
      <4>1. m \in 1..L
        BY <1>0, <2>3, <2>4
      <4>2. QED BY <1>0, <4>1
    <3>3. IsWithout(new, g[m - 1], ids[m], Rel(m))
      BY <3>1, <3>2, PathsRemoveIs
    <3>4. QED BY <3>3 DEF IsWithout
  <2> HIDE DEF new
  <2>8. \A k \in 0..m : k = m \/ k \in 0..(m - 1)
    BY <2>3
  <2>9. h \in [0..m -> Indexes]
    BY <2>7, <2>8
  <2>10. Run(m, h)
    <3>1. h[0] = q
      BY <2>3, <2>4, <2>6
    <3>2. ASSUME NEW k \in 1..m PROVE h[k] = PathsRemove(h[k - 1], ids[k], Rel(k))
      <4>1. k \in 0..m /\ k - 1 \in 0..m /\ k - 1 # m /\ h[k - 1] = g[k - 1]
        BY <2>3
      <4>2. CASE k = m
        BY <4>1, <4>2 DEF new
      <4>3. CASE k # m
        <5>1. k \in 1..(m - 1) /\ h[k] = g[k]
          BY <2>3, <4>1, <4>3
        <5>2. QED BY <2>6, <4>1, <5>1
      <4>4. QED BY <4>2, <4>3
    <3>3. QED BY <3>1, <3>2
  <2>11. m \notin Stuck
    BY <2>9, <2>10
  <2>12. QED BY <2>2, <2>11
<1>2. L \in 0..L
  BY <1>0
<1>3. PICK g \in [0..L -> Indexes] : Run(L, g)
  BY <1>1, <1>2
<1>4. \A n \in 0..L : g[n] = IF n = 0 THEN q ELSE PathsRemove(g[n - 1], ids[n], Rel(n))
  <2>1. \A n \in 0..L : n # 0 => n \in 1..L
    BY <1>0
  <2>2. QED BY <1>3, <2>1
<1>5. g = [n \in 0..L |-> IF n = 0 THEN q ELSE PathsRemove(g[n - 1], ids[n], Rel(n))]
  BY <1>4
<1>6. QED BY <1>5 DEF Rel, L, Removals

\* remove_metadata for several instances takes each out of the buckets of its
\* relevant paths, and no other.
LEMMA UnindexIs ==
  ASSUME NEW q \in Indexes, NEW ids \in Seq(Nat), NEW inst
  PROVE  /\ Unindex(q, inst, ids) \in Indexes
         /\ \A p \in Path : \A x :
              x \in Range(Unindex(q, inst, ids)[p]) <=>
                x \in Range(q[p]) /\ ~(x \in Range(ids) /\ p \in Range(inst[x].meta.rel))
<1> DEFINE L == Len(ids)
           left == CHOOSE g : Removals(g, q, inst, ids)
<1>1. /\ L \in Nat /\ ids \in [1..L -> Nat]
      /\ \A x : x \in Range(ids) <=> \E i \in 1..L : ids[i] = x
  BY RangeIs, LenProperties
<1> HIDE DEF L
<1>3. Removals(left, q, inst, ids)
  BY UnindexRuns
<1>4. Unindex(q, inst, ids) = left[L]
  BY DEF Unindex, L, Removals
<1>5. /\ left[0] = q
      /\ \A n \in 1..L : left[n] = PathsRemove(left[n - 1], ids[n], Range(inst[ids[n]].meta.rel))
  <2>1. \A n \in 1..L : n \in 0..L /\ n # 0
    BY <1>1
  <2>2. 0 \in 0..L
    BY <1>1
  <2> HIDE DEF left
  <2>3. QED BY <1>3, <2>1, <2>2 DEF Removals, L
<1> HIDE DEF left
<1> DEFINE Done(n) ==
             /\ left[n] \in Indexes
             /\ \A p \in Path : \A x :
                  x \in Range(left[n][p]) <=>
                    /\ x \in Range(q[p])
                    /\ ~\E k \in 1..n : ids[k] = x /\ p \in Range(inst[x].meta.rel)
           Wrong == {n \in 0..L : ~Done(n)}
<1>6. Wrong = {}
  <2> SUFFICES ASSUME Wrong # {} PROVE FALSE
    OBVIOUS
  <2>1. Wrong \in SUBSET Nat
    BY <1>1
  <2>2. PICK m \in Wrong : \A n \in Wrong : m <= n
    <3> HIDE DEF Wrong
    <3>1. QED BY <2>1, LeastNumber
  <2>3. m \in 0..L /\ m \in Nat /\ ~Done(m)
    BY <1>1, <2>2
  <2>4. Done(0)
    <3>1. 1..0 = {}
      OBVIOUS
    <3>2. QED BY <1>5, <3>1
  <2>5. m # 0
    BY <2>3, <2>4
  <2>6. m - 1 \in 0..L /\ ~(m <= m - 1) /\ m \in 1..L
    BY <1>1, <2>3, <2>5
  <2>7. Done(m - 1)
    <3> HIDE DEF Done
    <3>1. QED BY <2>2, <2>6
  <2>8. ids[m] \in Nat /\ left[m] = PathsRemove(left[m - 1], ids[m], Range(inst[ids[m]].meta.rel))
    BY <1>1, <1>5, <2>6
  <2>9. /\ left[m] \in Indexes
        /\ \A p \in Path : Range(left[m][p]) =
             IF p \in Range(inst[ids[m]].meta.rel) THEN Range(left[m - 1][p]) \ {ids[m]}
             ELSE Range(left[m - 1][p])
    <3>1. left[m - 1] \in Indexes
      BY <2>7
    <3>2. IsWithout(left[m], left[m - 1], ids[m], Range(inst[ids[m]].meta.rel))
      BY <2>8, <3>1, PathsRemoveIs
    <3>3. QED BY <3>2 DEF IsWithout
  <2>10. \A k : k \in 1..m <=> k \in 1..(m - 1) \/ k = m
    BY <2>3, <2>5
  <2>11. ASSUME NEW p \in Path, NEW x
         PROVE  x \in Range(left[m][p]) <=>
                  /\ x \in Range(q[p])
                  /\ ~\E k \in 1..m : ids[k] = x /\ p \in Range(inst[x].meta.rel)
    <3>1. x \in Range(left[m - 1][p]) <=>
            /\ x \in Range(q[p])
            /\ ~\E k \in 1..(m - 1) : ids[k] = x /\ p \in Range(inst[x].meta.rel)
      BY <2>7
    <3>2. x \in Range(left[m][p]) <=>
            x \in Range(left[m - 1][p]) /\ ~(x = ids[m] /\ p \in Range(inst[ids[m]].meta.rel))
      BY <2>9
    <3>3. QED BY <2>10, <3>1, <3>2
  <2>12. Done(m)
    BY <2>9, <2>11
  <2>13. QED BY <2>3, <2>12
<1>7. Done(L)
  <2>1. L \in 0..L
    BY <1>1
  <2> HIDE DEF Done
  <2>2. QED BY <1>6, <2>1
<1>8. QED BY <1>1, <1>4, <1>7

\* SetToSeq lists a finite set.
LEMMA ListOf ==
  ASSUME NEW S, IsFiniteSet(S)
  PROVE  SetToSeq(S) \in Seq(S) /\ Range(SetToSeq(S)) = S /\ IsInjective(SetToSeq(S))
<1> DEFINE k == Cardinality(S)
           s == SetToSeq(S)
<1>1. k \in Nat /\ ExistsBijection(1..k, S)
  BY FS_CardinalityType
<1>2. PICK f \in Bijection(1..k, S) : TRUE
  BY <1>1 DEF ExistsBijection
<1>3. f \in [1..k -> S] /\ IsInjective(f)
  BY <1>2 DEF Bijection, Injection, IsInjective
<1>4. s \in [1..k -> S] /\ IsInjective(s)
  BY <1>3 DEF SetToSeq
<1> HIDE DEF s, k
<1>5. s \in Seq(S)
  BY <1>1, <1>4, IsASeq
<1>6. Range(s) \subseteq S
  BY <1>4 DEF Range
<1>7. Cardinality(Range(s)) = k
  <2> DEFINE T == Range(s)
  <2>1. s \in [1..k -> T] /\ \A x \in T : \E i \in 1..k : s[i] = x
    BY <1>4 DEF Range
  <2> HIDE DEF T
  <2>2. s \in Injection(1..k, T) /\ s \in Surjection(1..k, T)
    BY <1>4, <2>1 DEF Injection, Surjection, IsInjective
  <2>3. ExistsBijection(1..k, T)
    BY <2>2 DEF ExistsBijection, Bijection
  <2>4. Cardinality(1..k) = k /\ IsFiniteSet(1..k)
    BY <1>1, FS_Interval
  <2>5. QED BY <2>3, <2>4, FS_Bijection DEF T
<1>8. Range(s) = S
  BY <1>6, <1>7, FS_Subset DEF k
<1>9. QED BY <1>4, <1>5, <1>8 DEF s

LEMMA ListIs ==
  ASSUME NEW S \in SUBSET Nat, IsFiniteSet(S)
  PROVE  SetToSeq(S) \in Seq(Nat) /\ Range(SetToSeq(S)) = S /\ IsInjective(SetToSeq(S))
<1> DEFINE s == SetToSeq(S)
<1>1. s \in Seq(S) /\ Range(s) = S /\ IsInjective(s)
  BY ListOf
<1> HIDE DEF s
<1>2. Len(s) \in Nat /\ s \in [1..Len(s) -> S]
  BY <1>1, LenProperties
<1>3. s \in [1..Len(s) -> Nat]
  BY <1>2
<1>4. s \in Seq(Nat)
  BY <1>2, <1>3, IsASeq
<1>5. QED BY <1>1, <1>4 DEF s

-----------------------------------------------------------------------------
(* The tree.                                                               *)

\* What the types say of a consistent tree.
LEMMA TreeIs ==
  ASSUME NEW t, Consistent(t)
  PROVE  /\ t.paths \in Indexes /\ t.next \in Nat /\ t.next \notin DOMAIN t.inst
         /\ DOMAIN t.paths = Path
         /\ DOMAIN t.inst \in SUBSET Nat /\ IsFiniteSet(DOMAIN t.inst)
         /\ t.inst \in [DOMAIN t.inst -> Instances]
         /\ \A i \in DOMAIN t.inst : t.inst[i] \in Instances
<1>1. /\ t.inst \in UNION {[D -> Instances] : D \in SUBSET Nat}
      /\ t.paths \in [Path -> Seq(Nat)] /\ t.next \in Nat
  BY DEF Consistent, Trees
<1>2. PICK D \in SUBSET Nat : t.inst \in [D -> Instances]
  BY <1>1
<1>3. t.paths \in Indexes
  BY <1>1 DEF Indexes, Consistent, IndexIsExact
<1>4. D = DOMAIN t.inst
  BY <1>2
<1>5. t.next \notin D
  BY <1>1, <1>2 DEF Consistent
<1>6. IsFiniteSet(D)
  <2>1. D \subseteq 0..t.next
    BY <1>1, <1>2 DEF Consistent
  <2>2. IsFiniteSet(0..t.next)
    BY <1>1, FS_Interval
  <2>3. QED BY <2>1, <2>2, FS_Subset
<1>7. QED BY <1>1, <1>2, <1>3, <1>4, <1>5, <1>6

\* A tree is put together from its parts.
LEMMA TreeFrom ==
  ASSUME NEW D \in SUBSET Nat, NEW inst \in [D -> Instances], NEW paths \in Indexes, NEW n \in Nat
  PROVE  [inst |-> inst, paths |-> paths, next |-> n] \in Trees
<1>1. inst \in UNION {[E -> Instances] : E \in SUBSET Nat}
  OBVIOUS
<1>2. paths \in [Path -> Seq(Nat)]
  BY DEF Indexes
<1>3. QED BY <1>1, <1>2 DEF Trees

\* RojoTree::new makes a consistent tree of a root without children.
THEOREM NewTreeIsConsistent ==
  ASSUME NEW root \in Instances, root.kids = <<>>
  PROVE  Consistent(NewTree(Path, root))
<1> DEFINE empty == [p \in Path |-> <<>>]
           inst == [i \in {Root} |-> root]
           paths == PathsInsert(empty, Root, Range(root.meta.rel))
           r == NewTree(Path, root)
<1>1. /\ << >> \in Seq(Nat) /\ IsInjective(<< >>) /\ Range(<< >>) = {}
  BY DEF IsInjective, Range
<1>2. empty \in Indexes /\ \A p \in Path : Range(empty[p]) = {}
  BY <1>1 DEF Indexes
<1>3. Root \in Nat /\ Root + 1 \in Nat /\ Root < Root + 1
  BY DEF Root
<1>4. r = [inst |-> inst, paths |-> paths, next |-> Root + 1]
  BY DEF NewTree
<1> HIDE DEF empty
<1>5. IsWith(paths, empty, Root, Range(root.meta.rel))
  BY <1>2, <1>3, PathsInsertIs
<1>6. inst \in [{Root} -> Instances] /\ inst[Root] = root /\ DOMAIN inst = {Root}
  OBVIOUS
<1> HIDE DEF inst, paths, r
<1>7. /\ paths \in Indexes
      /\ \A p \in Path : \A i : i \in Range(paths[p]) <=> i = Root /\ p \in Range(root.meta.rel)
  BY <1>2, <1>5 DEF IsWith
<1>8. r \in Trees /\ r.inst = inst /\ r.paths = paths /\ r.next = Root + 1
  <2>1. {Root} \in SUBSET Nat
    BY <1>3
  <2>2. [inst |-> inst, paths |-> paths, next |-> Root + 1] \in Trees
    BY <1>3, <1>6, <1>7, <2>1, TreeFrom
  <2>3. QED BY <1>4, <2>2
<1>9. IndexIsExact(r)
  <2> SUFFICES ASSUME NEW p \in Path
               PROVE  /\ IsInjective(paths[p])
                      /\ Range(paths[p]) = {i \in {Root} : p \in Range(inst[i].meta.rel)}
    BY <1>6, <1>7, <1>8 DEF IndexIsExact, Indexes
  <2>1. IsInjective(paths[p])
    BY <1>7 DEF Indexes
  <2>2. QED BY <1>6, <1>7, <2>1
<1>10. KidsAgree(r)
  BY <1>1, <1>6, <1>8 DEF KidsAgree
<1>11. QED BY <1>3, <1>6, <1>8, <1>9, <1>10 DEF Consistent, r

\* insert_instance puts one instance below its parent and into the buckets of
\* its relevant paths: the index stays exact, and parents and children agree.
THEOREM InsertKeepsIndex ==
  ASSUME NEW t, Consistent(t), NEW parent \in DOMAIN t.inst, NEW s, IsSnapshot(s)
  PROVE  /\ Consistent(PlaceInstance(t, parent, s))
         /\ DOMAIN PlaceInstance(t, parent, s).inst = DOMAIN t.inst \union {t.next}
<1> DEFINE D == DOMAIN t.inst
           id == t.next
           E == D \union {id}
           new == [name |-> s.name, class |-> s.class, props |-> s.props,
                   parent |-> parent, kids |-> <<>>, meta |-> s.meta]
           above == [t.inst[parent] EXCEPT !.kids = Append(@, id)]
           inst == [i \in E |-> IF i = id THEN new ELSE IF i = parent THEN above ELSE t.inst[i]]
           paths == PathsInsert(t.paths, id, Range(s.meta.rel))
           r == PlaceInstance(t, parent, s)
<1>1. /\ t.paths \in Indexes /\ id \in Nat /\ id \notin D
      /\ DOMAIN t.paths = Path /\ D \in SUBSET Nat
      /\ \A i \in D : t.inst[i] \in Instances
  BY TreeIs
<1>2. r = [inst |-> inst, paths |-> paths, next |-> id + 1]
  BY DEF PlaceInstance
<1>3. /\ t.inst[parent].kids \in Seq(Nat) /\ IsInjective(t.inst[parent].kids)
      /\ id \notin Range(t.inst[parent].kids)
  BY <1>1 DEF Instances, Consistent, KidsAgree
<1>4. /\ Append(t.inst[parent].kids, id) \in Seq(Nat)
      /\ IsInjective(Append(t.inst[parent].kids, id))
      /\ Range(Append(t.inst[parent].kids, id)) = Range(t.inst[parent].kids) \union {id}
  BY <1>1, <1>3, AppendIs
<1>5. /\ above \in Instances /\ above.kids = Append(t.inst[parent].kids, id)
      /\ above.parent = t.inst[parent].parent /\ above.meta = t.inst[parent].meta
  BY <1>1, <1>4 DEF Instances
<1>6. new \in Instances /\ new.parent = parent /\ new.kids = <<>> /\ new.meta = s.meta
  BY <1>1 DEF Instances, IsSnapshot
<1>7. inst \in [E -> Instances] /\ E \in SUBSET Nat
  BY <1>1, <1>5, <1>6
<1>8. /\ paths \in Indexes
      /\ \A p \in Path : Range(paths[p]) = IF p \in Range(s.meta.rel) THEN Range(t.paths[p]) \union {id}
                                           ELSE Range(t.paths[p])
  <2>1. IsWith(paths, t.paths, id, Range(s.meta.rel))
    BY <1>1, PathsInsertIs
  <2> HIDE DEF paths
  <2>2. QED BY <2>1 DEF IsWith
<1>9. /\ inst[id] = new /\ inst[parent] = above
      /\ \A i \in D : i # parent => inst[i] = t.inst[i]
  BY <1>1
<1>10. \A i \in D : inst[i].parent = t.inst[i].parent /\ inst[i].meta = t.inst[i].meta
  BY <1>5, <1>9
<1>11. DOMAIN inst = E
  OBVIOUS
<1> HIDE DEF inst, paths, new, above, r
<1>12. r \in Trees /\ r.inst = inst /\ r.paths = paths /\ r.next = id + 1
  <2>1. id + 1 \in Nat
    BY <1>1
  <2>2. [inst |-> inst, paths |-> paths, next |-> id + 1] \in Trees
    BY <1>7, <1>8, <2>1, TreeFrom
  <2>3. QED BY <1>2, <2>2
<1>13. \A i \in E : i < id + 1
  <2>1. \A i \in D : i \in Nat /\ i < id
    BY <1>1 DEF Consistent
  <2>2. QED BY <1>1, <2>1
<1>14. IndexIsExact(r)
  <2> SUFFICES ASSUME NEW p \in Path
               PROVE  /\ IsInjective(paths[p])
                      /\ Range(paths[p]) = {i \in E : p \in Range(inst[i].meta.rel)}
    BY <1>8, <1>11, <1>12 DEF IndexIsExact, Indexes
  <2>1. IsInjective(paths[p])
    BY <1>8 DEF Indexes
  <2>2. Range(t.paths[p]) = {i \in D : p \in Range(t.inst[i].meta.rel)}
    BY <1>1 DEF Consistent, IndexIsExact
  <2>3. inst[id].meta = s.meta
    BY <1>6, <1>9
  <2>4. \A i : i \in Range(paths[p]) <=> i \in E /\ p \in Range(inst[i].meta.rel)
    <3>1. id \notin Range(t.paths[p])
      BY <1>1, <2>2
    <3>2. id \in Range(paths[p]) <=> p \in Range(inst[id].meta.rel)
      BY <1>8, <2>3, <3>1
    <3>3. ASSUME NEW i, i # id
          PROVE  i \in Range(paths[p]) <=> i \in D /\ p \in Range(inst[i].meta.rel)
      BY <1>8, <1>10, <2>2, <3>3
    <3>4. QED BY <3>2, <3>3
  <2>5. QED BY <2>1, <2>4
<1>15. KidsAgree(r)
  <2>1. ASSUME NEW i \in E
        PROVE  /\ IsInjective(inst[i].kids)
               /\ \A k \in Range(inst[i].kids) : k \in E /\ inst[k].parent = i /\ i < k
    <3>1. CASE i = id
      <4>1. inst[i].kids = << >> /\ DOMAIN << >> = {}
        BY <1>6, <1>9, <3>1
      <4>2. QED BY <4>1 DEF IsInjective, Range
    <3>2. CASE i = parent
      <4>1. inst[i].kids = Append(t.inst[parent].kids, id)
        BY <1>5, <1>9, <3>2
      <4>2. \A k \in Range(t.inst[parent].kids) : k \in D /\ t.inst[k].parent = parent /\ parent < k
        BY DEF Consistent, KidsAgree
      <4>8. parent < id
        BY DEF Consistent
      <4>3. inst[id].parent = parent
        BY <1>6, <1>9
      <4>4. \A k \in Range(inst[i].kids) : k \in Range(t.inst[parent].kids) \/ k = id
        BY <1>4, <4>1
      <4>5. \A k \in D : t.inst[k].parent = parent => inst[k].parent = parent
        BY <1>10
      <4>6. \A k \in Range(inst[i].kids) : k \in E /\ inst[k].parent = i /\ i < k
        BY <3>2, <4>2, <4>3, <4>4, <4>5, <4>8
      <4>7. QED BY <1>4, <4>1, <4>6
    <3>3. CASE i \in D /\ i # parent
      <4>1. /\ inst[i] = t.inst[i] /\ IsInjective(t.inst[i].kids)
            /\ \A k \in Range(t.inst[i].kids) : k \in D /\ t.inst[k].parent = i /\ i < k
        BY <1>9, <3>3 DEF Consistent, KidsAgree
      <4>2. QED BY <1>10, <4>1
    <3>4. QED BY <3>1, <3>2, <3>3
  <2>2. ASSUME NEW i \in E \ {Root}
        PROVE  inst[i].parent \in E /\ i \in Range(inst[inst[i].parent].kids)
    <3>1. Range(inst[parent].kids) = Range(t.inst[parent].kids) \union {id}
      BY <1>4, <1>5, <1>9
    <3>2. CASE i = id
      BY <1>6, <1>9, <3>1, <3>2
    <3>3. CASE i \in D
      <4>1. t.inst[i].parent \in D /\ i \in Range(t.inst[t.inst[i].parent].kids)
        BY <3>3 DEF Consistent, KidsAgree
      <4>2. inst[i].parent = t.inst[i].parent
        BY <1>10, <3>3
      <4>3. QED BY <1>9, <3>1, <4>1, <4>2
    <3>4. QED BY <3>2, <3>3
  <2>3. QED BY <1>11, <1>12, <2>1, <2>2 DEF KidsAgree
<1>16. QED BY <1>11, <1>12, <1>13, <1>14, <1>15 DEF Consistent, r

\* apply_update_child and update_metadata move the id from the buckets of the
\* old relevant paths to those of the new ones: the index stays exact, and no
\* instance comes or goes.
THEOREM UpdateKeepsIndex ==
  ASSUME NEW t, Consistent(t), NEW u, u.id \in DOMAIN t.inst, IsSnapshot(u.snap)
  PROVE  Consistent(Update(t, u)) /\ DOMAIN Update(t, u).inst = DOMAIN t.inst
<1> DEFINE D == DOMAIN t.inst
           id == u.id
           old == t.inst[id].meta.rel
           rel == u.snap.meta.rel
           new == [t.inst[id] EXCEPT !.name = u.snap.name, !.class = u.snap.class,
                                     !.props = u.snap.props, !.meta = u.snap.meta]
           inst == [t.inst EXCEPT ![id] = new]
           moved == PathsInsert(PathsRemove(t.paths, id, Range(old)), id, Range(rel))
           paths == IF old = rel THEN t.paths ELSE moved
           r == Update(t, u)
<1>1. /\ t.paths \in Indexes /\ t.next \in Nat
      /\ DOMAIN t.paths = Path /\ D \in SUBSET Nat
      /\ t.inst \in [D -> Instances]
      /\ \A i \in D : t.inst[i] \in Instances
      /\ id \in Nat
  BY TreeIs
<1>2. /\ new \in Instances /\ new.meta = u.snap.meta
      /\ new.parent = t.inst[id].parent /\ new.kids = t.inst[id].kids
  BY <1>1 DEF Instances, IsSnapshot
<1>3. /\ r = [t EXCEPT !.paths = paths, !.inst = inst]
      /\ t \in Trees
  BY DEF Update, Consistent
<1> HIDE DEF new
<1>4. /\ inst \in [D -> Instances] /\ inst[id] = new
      /\ \A i \in D : i # id => inst[i] = t.inst[i]
  BY <1>1, <1>2
<1>5. \A i \in D : inst[i].parent = t.inst[i].parent /\ inst[i].kids = t.inst[i].kids
  BY <1>2, <1>4
<1>6. \A p \in Path : Range(t.paths[p]) = {i \in D : p \in Range(t.inst[i].meta.rel)}
  BY <1>1 DEF Consistent, IndexIsExact
<1>7. /\ paths \in Indexes
      /\ \A p \in Path : \A i : i \in Range(paths[p]) <=>
           IF i = id THEN p \in Range(rel) ELSE i \in Range(t.paths[p])
  <2>1. CASE old = rel
    BY <1>1, <1>6, <2>1
  <2>2. CASE old # rel
    <3> DEFINE q == PathsRemove(t.paths, id, Range(old))
    <3>1. IsWithout(q, t.paths, id, Range(old))
      BY <1>1, PathsRemoveIs
    <3>2. q \in Indexes
      BY <3>1 DEF IsWithout
    <3>3. IsWith(moved, q, id, Range(rel))
      <4> HIDE DEF q
      <4>1. IsWith(PathsInsert(q, id, Range(rel)), q, id, Range(rel))
        BY <1>1, <3>2, PathsInsertIs
      <4>2. QED BY <4>1 DEF q
    <3>4. paths = moved
      BY <2>2
    <3> HIDE DEF q, moved, paths, old, rel
    <3>5. \A p \in Path : id \in Range(t.paths[p]) => p \in Range(old)
      BY <1>6 DEF old
    <3>6. \A p \in Path : \A i : i \in Range(q[p]) <=> i \in Range(t.paths[p]) /\ i # id
      BY <3>1, <3>5 DEF IsWithout
    <3>7. \A p \in Path : \A i : i \in Range(moved[p]) <=>
                              i \in Range(q[p]) \/ (i = id /\ p \in Range(rel))
      BY <3>3 DEF IsWith
    <3>8. moved \in Indexes
      BY <3>3 DEF IsWith
    <3>9. QED BY <3>4, <3>6, <3>7, <3>8
  <2>3. QED BY <2>1, <2>2
<1> HIDE DEF paths, inst, r
<1>8. r.inst = inst /\ r.paths = paths /\ r.next = t.next /\ r \in Trees
  <2>1. t = [inst |-> t.inst, paths |-> t.paths, next |-> t.next]
    BY <1>3 DEF Trees
  <2>2. r = [inst |-> inst, paths |-> paths, next |-> t.next]
    BY <1>3, <2>1
  <2>3. [inst |-> inst, paths |-> paths, next |-> t.next] \in Trees
    BY <1>1, <1>4, <1>7, TreeFrom
  <2>4. QED BY <2>2, <2>3
<1>9. DOMAIN inst = D
  BY <1>4
<1>10. IndexIsExact(r)
  <2> SUFFICES ASSUME NEW p \in Path
               PROVE  /\ IsInjective(paths[p])
                      /\ Range(paths[p]) = {i \in D : p \in Range(inst[i].meta.rel)}
    BY <1>7, <1>8, <1>9 DEF IndexIsExact, Indexes
  <2>1. IsInjective(paths[p])
    BY <1>7 DEF Indexes
  <2>2. inst[id].meta.rel = rel
    BY <1>2, <1>4
  <2>3. \A i \in D : i # id => inst[i].meta.rel = t.inst[i].meta.rel
    BY <1>4
  <2>4. \A i : i \in Range(paths[p]) <=> i \in D /\ p \in Range(inst[i].meta.rel)
    BY <1>6, <1>7, <2>2, <2>3
  <2>5. QED BY <2>1, <2>4
<1>11. KidsAgree(r)
  BY <1>5, <1>8, <1>9 DEF Consistent, KidsAgree
<1>12. QED BY <1>8, <1>9, <1>10, <1>11 DEF Consistent, r

\* RojoTree::remove takes an instance out, with all that is below it: what is
\* gone is in no bucket, what stays is in the buckets it was in, and parents
\* and children agree.  (The descendants of an instance other than the root
\* are such a set.)
THEOREM RemoveKeepsIndex ==
  ASSUME NEW t, Consistent(t), NEW gone \in SUBSET (DOMAIN t.inst \ {Root}), NEW id \in gone,
         \A g \in gone : Range(t.inst[g].kids) \subseteq gone,
         \A g \in gone : t.inst[g].parent \in gone <=> g # id
  PROVE  Consistent(Detach(t, id, gone)) /\ DOMAIN Detach(t, id, gone).inst = DOMAIN t.inst \ gone
<1> DEFINE D == DOMAIN t.inst
           E == D \ gone
           pa == t.inst[id].parent
           above == [t.inst[pa] EXCEPT !.kids = TakeOut(@, id)]
           inst == [i \in E |-> IF i = pa THEN above ELSE t.inst[i]]
           paths == Unindex(t.paths, t.inst, SetToSeq(gone))
           r == Detach(t, id, gone)
<1>1. /\ t.paths \in Indexes /\ t.next \in Nat
      /\ DOMAIN t.paths = Path /\ D \in SUBSET Nat /\ IsFiniteSet(D)
      /\ \A i \in D : t.inst[i] \in Instances
      /\ id \in Nat
  BY TreeIs
<1>2. /\ \A i \in D : /\ IsInjective(t.inst[i].kids)
                      /\ \A k \in Range(t.inst[i].kids) : k \in D /\ t.inst[k].parent = i /\ i < k
      /\ \A i \in D \ {Root} : /\ t.inst[i].parent \in D
                              /\ i \in Range(t.inst[t.inst[i].parent].kids)
  BY DEF Consistent, KidsAgree
<1>3. pa \in E
  BY <1>2
<1>4. r = [inst |-> inst, paths |-> paths, next |-> t.next]
  BY DEF Detach
<1>5. /\ TakeOut(t.inst[pa].kids, id) \in Seq(Nat)
      /\ IsInjective(TakeOut(t.inst[pa].kids, id))
      /\ Range(TakeOut(t.inst[pa].kids, id)) = Range(t.inst[pa].kids) \ {id}
  <2>1. t.inst[pa].kids \in Seq(Nat) /\ IsInjective(t.inst[pa].kids)
    BY <1>1, <1>2, <1>3 DEF Instances
  <2>2. QED BY <1>1, <2>1, TakeOutIs
<1>6. /\ above \in Instances /\ above.kids = TakeOut(t.inst[pa].kids, id)
      /\ above.parent = t.inst[pa].parent /\ above.meta = t.inst[pa].meta
  <2> DEFINE o == t.inst[pa]
  <2>1. o \in Instances /\ TakeOut(o.kids, id) \in Seq(Nat)
    BY <1>1, <1>3, <1>5
  <2> HIDE DEF o, pa
  <2>2. above = [o EXCEPT !.kids = TakeOut(@, id)]
    BY DEF o
  <2> HIDE DEF above
  <2>3. /\ above \in Instances /\ above.kids = TakeOut(o.kids, id)
        /\ above.parent = o.parent /\ above.meta = o.meta
    BY <2>1, <2>2 DEF Instances
  <2>4. QED BY <2>3 DEF o
<1> HIDE DEF above
<1>7. inst \in [E -> Instances] /\ E \in SUBSET Nat
  BY <1>1, <1>6
<1>8. inst[pa] = above /\ \A i \in E : i # pa => inst[i] = t.inst[i]
  BY <1>3
<1>9. \A i \in E : /\ inst[i].parent = t.inst[i].parent /\ inst[i].meta = t.inst[i].meta
                   /\ Range(inst[i].kids) = Range(t.inst[i].kids) \ {id}
                   /\ IsInjective(inst[i].kids)
  <2> SUFFICES ASSUME NEW i \in E
               PROVE  /\ inst[i].parent = t.inst[i].parent /\ inst[i].meta = t.inst[i].meta
                      /\ Range(inst[i].kids) = Range(t.inst[i].kids) \ {id}
                      /\ IsInjective(inst[i].kids)
    OBVIOUS
  <2>1. CASE i = pa
    BY <1>5, <1>6, <1>8, <2>1
  <2>2. CASE i # pa
    <3>1. id \notin Range(t.inst[i].kids)
      BY <1>2, <2>2
    <3>2. QED BY <1>2, <1>8, <2>2, <3>1
  <2>3. QED BY <2>1, <2>2
<1>10. /\ paths \in Indexes
       /\ \A p \in Path : \A x : x \in Range(paths[p]) <=>
            x \in Range(t.paths[p]) /\ ~(x \in gone /\ p \in Range(t.inst[x].meta.rel))
  <2>1. gone \in SUBSET Nat /\ IsFiniteSet(gone)
    <3>1. gone \subseteq D
      OBVIOUS
    <3>2. QED BY <1>1, <3>1, FS_Subset
  <2>2. SetToSeq(gone) \in Seq(Nat) /\ Range(SetToSeq(gone)) = gone
    BY <2>1, ListIs
  <2> DEFINE ids == SetToSeq(gone)
  <2> HIDE DEF ids
  <2>3. paths = Unindex(t.paths, t.inst, ids) /\ ids \in Seq(Nat) /\ Range(ids) = gone
    BY <2>2 DEF ids
  <2> HIDE DEF paths
  <2>4. /\ Unindex(t.paths, t.inst, ids) \in Indexes
        /\ \A p \in Path : \A x :
             x \in Range(Unindex(t.paths, t.inst, ids)[p]) <=>
               x \in Range(t.paths[p]) /\ ~(x \in Range(ids) /\ p \in Range(t.inst[x].meta.rel))
    BY <1>1, <2>3, UnindexIs
  <2>5. QED BY <2>3, <2>4
<1>11. DOMAIN inst = E
  OBVIOUS
<1> HIDE DEF paths, inst, r
<1>12. r \in Trees /\ r.inst = inst /\ r.paths = paths /\ r.next = t.next
  <2>1. [inst |-> inst, paths |-> paths, next |-> t.next] \in Trees
    BY <1>1, <1>7, <1>10, TreeFrom
  <2>2. QED BY <1>4, <2>1
<1>13. IndexIsExact(r)
  <2> SUFFICES ASSUME NEW p \in Path
               PROVE  /\ IsInjective(paths[p])
                      /\ Range(paths[p]) = {i \in E : p \in Range(inst[i].meta.rel)}
    BY <1>10, <1>11, <1>12 DEF IndexIsExact, Indexes
  <2>1. IsInjective(paths[p])
    BY <1>10 DEF Indexes
  <2>2. Range(t.paths[p]) = {i \in D : p \in Range(t.inst[i].meta.rel)}
    BY <1>1 DEF Consistent, IndexIsExact
  <2>3. \A i : i \in Range(paths[p]) <=> i \in E /\ p \in Range(t.inst[i].meta.rel)
    BY <1>10, <2>2
  <2>4. QED BY <1>9, <2>1, <2>3
<1>14. KidsAgree(r)
  <2>1. ASSUME NEW i \in E, NEW k \in Range(inst[i].kids)
        PROVE  k \in E /\ inst[k].parent = i /\ i < k
    <3>0. k \in Range(t.inst[i].kids) /\ k # id
      BY <1>9
    <3>1. k \in D /\ t.inst[k].parent = i /\ k # id /\ i < k
      BY <1>2, <3>0
    <3>2. k \notin gone
      BY <3>1
    <3>3. QED BY <1>9, <3>1, <3>2
  <2>2. ASSUME NEW i \in E \ {Root}
        PROVE  inst[i].parent \in E /\ i \in Range(inst[inst[i].parent].kids)
    <3>1. t.inst[i].parent \in D /\ i \in Range(t.inst[t.inst[i].parent].kids)
      BY <1>2
    <3>2. t.inst[i].parent \notin gone
      BY <3>1
    <3>3. i # id
      OBVIOUS
    <3>4. QED BY <1>9, <3>1, <3>2, <3>3
  <2>3. QED BY <1>9, <1>11, <1>12, <2>1, <2>2 DEF KidsAgree
<1>15. Root \in E /\ \A i \in E : i < t.next
  BY DEF Consistent
<1>16. QED BY <1>11, <1>12, <1>13, <1>14, <1>15 DEF Consistent, r

-----------------------------------------------------------------------------
(* Loops.  A loop of the model is a recursive function of the number of    *)
(* turns; that there is such a function, and what holds after each turn,   *)
(* are shown by induction on that number.                                  *)

\* Induction up to a limit.
LEMMA UpTo ==
  ASSUME NEW L \in Nat, NEW S \in SUBSET (0..L), 0 \in S,
         \A n \in 1..L : n - 1 \in S => n \in S
  PROVE  S = 0..L
<1> DEFINE T == (0..L) \ S
<1> SUFFICES ASSUME T # {} PROVE FALSE
  OBVIOUS
<1>1. T \in SUBSET Nat
  OBVIOUS
<1>2. PICK m \in T : \A n \in T : m <= n
  <2> HIDE DEF T
  <2>1. QED BY <1>1, LeastNumber
<1>3. m \in 1..L /\ m - 1 \in 0..L /\ ~(m <= m - 1)
  BY <1>2
<1>4. m - 1 \in S
  BY <1>2, <1>3
<1>5. QED BY <1>2, <1>3, <1>4

\* Induction over the numbers of a set.
LEMMA FromBelow ==
  ASSUME NEW D \in SUBSET Nat, NEW S,
         \A n \in D : (\A k \in D : k < n => k \in S) => n \in S
  PROVE  \A n \in D : n \in S
<1> DEFINE T == D \ S
<1> SUFFICES ASSUME T # {} PROVE FALSE
  OBVIOUS
<1>1. T \in SUBSET Nat
  OBVIOUS
<1>2. PICK m \in T : \A n \in T : m <= n
  <2> HIDE DEF T
  <2>1. QED BY <1>1, LeastNumber
<1>3. m \in D /\ m \in Nat
  BY <1>2
<1>4. ASSUME NEW k \in D, k < m PROVE k \in S
  <2>1. k \in Nat /\ ~(m <= k)
    BY <1>3, <1>4
  <2>2. QED BY <1>2, <2>1
<1>5. QED BY <1>2, <1>3, <1>4

\* One turn of each loop, for what the loop works off.
Turn(loop, work, x, n) ==
  CASE loop = "list"   -> IF n \in work THEN Append(x, n) ELSE x
    [] loop = "insert" -> PlaceInstance(x, IF n = 1 THEN work.parent ELSE work.next + work.snap[n].up - 1,
                                        work.snap[n])
    [] loop = "remove" -> RemoveInstance(x, work[n])
    [] loop = "add"    -> InsertInstance(x, work[n].parent, work[n].snap)
    [] loop = "update" -> Update(x, work[n])
    [] loop = "pair"   -> IF n = 1 THEN <<work.id>> ELSE Append(x, Partner(work.tree, x, work.snap[n]))

\* A function that is the recursion of a loop up to L turns.
Runs(f, loop, work, x, L) ==
  f = [n \in 0..L |-> IF n = 0 THEN x ELSE Turn(loop, work, f[n - 1], n)]

\* Every loop has one.
LEMMA LoopRuns ==
  ASSUME NEW loop, NEW work, NEW x, NEW L \in Nat
  PROVE  \E f : Runs(f, loop, work, x, L)
<1> DEFINE Run(n, g) == g[0] = x /\ \A k \in 1..n : g[k] = Turn(loop, work, g[k - 1], k)
           T == {n \in 0..L : \E g : Run(n, g)}
<1>1. 0 \in T
  <2> DEFINE g == [n \in {0} |-> x]
  <2>1. Run(0, g)
    OBVIOUS
  <2>2. 0 \in 0..L
    OBVIOUS
  <2>3. QED BY <2>1, <2>2
<1>2. ASSUME NEW m \in 1..L, m - 1 \in T PROVE m \in T
  <2>1. PICK g : Run(m - 1, g)
    BY <1>2
  <2> DEFINE new == Turn(loop, work, g[m - 1], m)
             h == [k \in 0..m |-> IF k = m THEN new ELSE g[k]]
  <2> HIDE DEF new
  <2>2. \A k \in 1..m : /\ k \in 0..m /\ k - 1 \in 0..m /\ k - 1 # m
                        /\ k # m => k \in 1..(m - 1)
    OBVIOUS
  <2>3. h[0] = x
    BY <2>1
  <2>4. ASSUME NEW k \in 1..m PROVE h[k] = Turn(loop, work, h[k - 1], k)
    <3>1. h[k - 1] = g[k - 1]
      BY <2>2
    <3>2. CASE k = m
      BY <2>2, <3>1, <3>2 DEF new
    <3>3. CASE k # m
      BY <2>1, <2>2, <3>1, <3>3
    <3>4. QED BY <3>2, <3>3
  <2> HIDE DEF h
  <2>5. Run(m, h)
    BY <2>3, <2>4
  <2>6. QED BY <2>5
<1>3. L \in T
  <2>1. T \in SUBSET (0..L) /\ L \in 0..L
    OBVIOUS
  <2> HIDE DEF T
  <2>2. QED BY <1>1, <1>2, <2>1, UpTo
<1>4. PICK g : Run(L, g)
  BY <1>3
<1> DEFINE f == [n \in 0..L |-> g[n]]
<1>5. ASSUME NEW n \in 0..L
      PROVE  f[n] = IF n = 0 THEN x ELSE Turn(loop, work, f[n - 1], n)
  <2>1. n # 0 => n \in 1..L /\ n - 1 \in 0..L
    OBVIOUS
  <2>2. QED BY <1>4, <2>1
<1>6. f = [n \in 0..L |-> IF n = 0 THEN x ELSE Turn(loop, work, f[n - 1], n)]
  BY <1>5
<1> HIDE DEF f
<1>7. Runs(f, loop, work, x, L)
  BY <1>6 DEF Runs
<1>8. QED BY <1>7

\* The turns of a loop, one by one.
Turns(g, loop, work, x, L) ==
  g[0] = x /\ \A n \in 1..L : g[n] = Turn(loop, work, g[n - 1], n)

LEMMA LoopTurns ==
  ASSUME NEW loop, NEW work, NEW x, NEW L \in Nat, NEW f, Runs(f, loop, work, x, L)
  PROVE  Turns(f, loop, work, x, L)
<1>1. 0 \in 0..L /\ \A n \in 1..L : n \in 0..L /\ n # 0
  OBVIOUS
<1>2. QED BY <1>1 DEF Runs, Turns

\* The loops of the model.
LEMMA InOrderTurns ==
  ASSUME NEW L \in Nat, NEW S
  PROVE  \E g : Turns(g, "list", S, <<>>, L) /\ InOrder(L, S) = g[L]
<1> DEFINE g == CHOOSE f : Runs(f, "list", S, <<>>, L)
<1>1. Runs(g, "list", S, <<>>, L)
  BY LoopRuns
<1>2. InOrder(L, S) = g[L]
  BY DEF InOrder, Runs, Turn
<1> HIDE DEF g
<1>3. QED BY <1>1, <1>2, LoopTurns

LEMMA InsertTurns ==
  ASSUME NEW t, NEW parent, NEW s, Len(s) \in Nat
  PROVE  \E g : /\ Turns(g, "insert", [parent |-> parent, next |-> t.next, snap |-> s], t, Len(s))
                /\ InsertInstance(t, parent, s) = g[Len(s)]
<1> DEFINE w == [parent |-> parent, next |-> t.next, snap |-> s]
           g == CHOOSE f : Runs(f, "insert", w, t, Len(s))
<1>1. Runs(g, "insert", w, t, Len(s))
  BY LoopRuns
<1>2. InsertInstance(t, parent, s) = g[Len(s)]
  BY DEF InsertInstance, Runs, Turn
<1> HIDE DEF g
<1>3. QED BY <1>1, <1>2, LoopTurns

LEMMA RemovalsTurns ==
  ASSUME NEW t, NEW ids, Len(ids) \in Nat
  PROVE  \E g : Turns(g, "remove", ids, t, Len(ids)) /\ ApplyRemovals(t, ids) = g[Len(ids)]
<1> DEFINE g == CHOOSE f : Runs(f, "remove", ids, t, Len(ids))
<1>1. Runs(g, "remove", ids, t, Len(ids))
  BY LoopRuns
<1>2. ApplyRemovals(t, ids) = g[Len(ids)]
  BY DEF ApplyRemovals, Runs, Turn
<1> HIDE DEF g
<1>3. QED BY <1>1, <1>2, LoopTurns

LEMMA AdditionsTurns ==
  ASSUME NEW t, NEW adds, Len(adds) \in Nat
  PROVE  \E g : Turns(g, "add", adds, t, Len(adds)) /\ ApplyAdditions(t, adds) = g[Len(adds)]
<1> DEFINE g == CHOOSE f : Runs(f, "add", adds, t, Len(adds))
<1>1. Runs(g, "add", adds, t, Len(adds))
  BY LoopRuns
<1>2. ApplyAdditions(t, adds) = g[Len(adds)]
  BY DEF ApplyAdditions, Runs, Turn
<1> HIDE DEF g
<1>3. QED BY <1>1, <1>2, LoopTurns

LEMMA UpdatesTurns ==
  ASSUME NEW t, NEW ups, Len(ups) \in Nat
  PROVE  \E g : Turns(g, "update", ups, t, Len(ups)) /\ ApplyUpdates(t, ups) = g[Len(ups)]
<1> DEFINE g == CHOOSE f : Runs(f, "update", ups, t, Len(ups))
<1>1. Runs(g, "update", ups, t, Len(ups))
  BY LoopRuns
<1>2. ApplyUpdates(t, ups) = g[Len(ups)]
  BY DEF ApplyUpdates, Runs, Turn
<1> HIDE DEF g
<1>3. QED BY <1>1, <1>2, LoopTurns

\* InOrder lists the numbers of a set up to its limit.
LEMMA InOrderIs ==
  ASSUME NEW L \in Nat, NEW S
  PROVE  /\ InOrder(L, S) \in Seq(Nat) /\ IsInjective(InOrder(L, S))
         /\ \A x : x \in Range(InOrder(L, S)) <=> x \in S /\ x \in 1..L
<1>1. PICK g : Turns(g, "list", S, <<>>, L) /\ InOrder(L, S) = g[L]
  BY InOrderTurns
<1>2. g[0] = <<>> /\ \A n \in 1..L : g[n] = IF n \in S THEN Append(g[n - 1], n) ELSE g[n - 1]
  BY <1>1 DEF Turns, Turn
<1> DEFINE Done(n) == /\ g[n] \in Seq(Nat) /\ IsInjective(g[n])
                      /\ \A x : x \in Range(g[n]) <=> x \in S /\ x \in 1..n
           T == {n \in 0..L : Done(n)}
<1>3. 0 \in T
  <2>1. <<>> \in Seq(Nat) /\ DOMAIN <<>> = {}
    OBVIOUS
  <2>2. Range(<<>>) = {} /\ IsInjective(<<>>)
    BY <2>1 DEF Range, IsInjective
  <2>3. 0 \in 0..L /\ 1..0 = {}
    OBVIOUS
  <2>4. Done(0)
    BY <1>2, <2>1, <2>2, <2>3
  <2>5. QED BY <2>3, <2>4
<1>4. ASSUME NEW m \in 1..L, m - 1 \in T PROVE m \in T
  <2>1. /\ g[m - 1] \in Seq(Nat) /\ IsInjective(g[m - 1])
        /\ \A x : x \in Range(g[m - 1]) <=> x \in S /\ x \in 1..(m - 1)
    BY <1>4
  <2>2. m \in Nat /\ m \notin 1..(m - 1) /\ \A x : x \in 1..m <=> x \in 1..(m - 1) \/ x = m
    OBVIOUS
  <2>3. CASE m \in S
    <3>1. g[m] = Append(g[m - 1], m)
      BY <1>2, <2>3
    <3>2. m \notin Range(g[m - 1])
      BY <2>1, <2>2
    <3>3. /\ g[m] \in Seq(Nat) /\ IsInjective(g[m])
          /\ Range(g[m]) = Range(g[m - 1]) \union {m}
      BY <2>1, <2>2, <3>1, <3>2, AppendIs
    <3>4. \A x : x \in Range(g[m]) <=> x \in S /\ x \in 1..m
      BY <2>1, <2>2, <2>3, <3>3
    <3>5. m \in 0..L
      OBVIOUS
    <3>6. QED BY <3>3, <3>4, <3>5
  <2>4. CASE m \notin S
    <3>1. g[m] = g[m - 1]
      BY <1>2, <2>4
    <3>2. QED BY <2>1, <2>2, <2>4, <3>1
  <2>5. QED BY <2>3, <2>4
<1>5. Done(L)
  <2>1. T \in SUBSET (0..L) /\ L \in 0..L
    OBVIOUS
  <2> HIDE DEF T
  <2>2. T = 0..L
    BY <1>3, <1>4, <2>1, UpTo
  <2>3. QED BY <2>1, <2>2 DEF T
<1>6. QED BY <1>1, <1>5

-----------------------------------------------------------------------------
(* Ancestors.                                                              *)

\* What agreement of parents and children says, in one place.
LEMMA ParentIs ==
  ASSUME NEW t, Consistent(t)
  PROVE  /\ \A i \in DOMAIN t.inst \ {Root} :
              t.inst[i].parent \in DOMAIN t.inst /\ t.inst[i].parent < i
         /\ \A i \in DOMAIN t.inst : \A k \in Range(t.inst[i].kids) :
              k \in DOMAIN t.inst \ {Root} /\ t.inst[k].parent = i
<1>1. DOMAIN t.inst \in SUBSET Nat
  BY TreeIs
<1>2. \A i \in DOMAIN t.inst : \A k \in Range(t.inst[i].kids) :
              k \in DOMAIN t.inst /\ t.inst[k].parent = i /\ i < k
  BY DEF Consistent, KidsAgree
<1>3. \A i \in DOMAIN t.inst \ {Root} : /\ t.inst[i].parent \in DOMAIN t.inst
                                       /\ i \in Range(t.inst[t.inst[i].parent].kids)
  BY DEF Consistent, KidsAgree
<1>4. \A i \in DOMAIN t.inst : ~(i < Root)
  BY <1>1 DEF Root
<1>5. QED BY <1>2, <1>3, <1>4

\* The recursion of Ancestors.
Climbs(f, t) ==
  f = [i \in 0..t.next |-> IF i \in DOMAIN t.inst \ {Root}
                           THEN {t.inst[i].parent} \union f[t.inst[i].parent] ELSE {}]

LEMMA AncestorsRun ==
  ASSUME NEW t, Consistent(t)
  PROVE  \E f : Climbs(f, t)
<1> DEFINE N == t.next
           D == DOMAIN t.inst \ {Root}
           up(i) == t.inst[i].parent
           Run(n, g) == \A k \in 0..n : g[k] = IF k \in D THEN {up(k)} \union g[up(k)] ELSE {}
           T == {n \in 0..N : \E g : Run(n, g)}
<1>1. N \in Nat /\ D \in SUBSET Nat
  BY TreeIs
<1>2. \A i \in D : up(i) \in Nat /\ up(i) < i
  <2>1. DOMAIN t.inst \in SUBSET Nat
    BY TreeIs
  <2>2. QED BY <2>1, ParentIs
<1> HIDE DEF N, D, up
<1>3. 0 \in T
  <2>1. \A k \in 0..0 : k = 0 /\ k \notin D
    BY <1>2
  <2>2. Run(0, [n \in {0} |-> {}])
    BY <2>1
  <2>3. 0 \in 0..N
    BY <1>1
  <2>4. QED BY <2>2, <2>3
<1>4. ASSUME NEW m \in 1..N, m - 1 \in T PROVE m \in T
  <2>1. PICK g : Run(m - 1, g)
    BY <1>4
  <2> DEFINE new == IF m \in D THEN {up(m)} \union g[up(m)] ELSE {}
             h == [k \in 0..m |-> IF k = m THEN new ELSE g[k]]
  <2> HIDE DEF new
  <2>2. \A k \in 0..m : k # m => k \in 0..(m - 1)
    BY <1>1
  <2>3. ASSUME NEW k \in 0..m, k \in D PROVE up(k) \in 0..m /\ up(k) # m
    BY <1>1, <1>2, <2>3
  <2>4. ASSUME NEW k \in 0..m PROVE h[k] = IF k \in D THEN {up(k)} \union h[up(k)] ELSE {}
    <3>1. k \in D => h[up(k)] = g[up(k)]
      BY <2>3
    <3>2. CASE k = m
      BY <3>1, <3>2 DEF new
    <3>3. CASE k # m
      BY <2>1, <2>2, <3>1, <3>3
    <3>4. QED BY <3>2, <3>3
  <2> HIDE DEF h
  <2>5. Run(m, h)
    BY <2>4
  <2>6. m \in 0..N
    BY <1>1
  <2>7. QED BY <2>5, <2>6
<1>5. N \in T
  <2>1. T \in SUBSET (0..N) /\ N \in 0..N
    BY <1>1
  <2> HIDE DEF T
  <2>2. QED BY <1>1, <1>3, <1>4, <2>1, UpTo
<1>6. PICK g : Run(N, g)
  BY <1>5
<1> DEFINE f == [n \in 0..N |-> g[n]]
<1>7. ASSUME NEW i \in 0..N
      PROVE  f[i] = IF i \in D THEN {up(i)} \union f[up(i)] ELSE {}
  <2>1. i \in D => up(i) \in 0..N
    BY <1>1, <1>2
  <2>2. QED BY <1>6, <2>1
<1>8. f = [i \in 0..N |-> IF i \in D THEN {up(i)} \union f[up(i)] ELSE {}]
  BY <1>7
<1> HIDE DEF f
<1>9. Climbs(f, t)
  BY <1>8 DEF Climbs, N, D, up
<1>10. QED BY <1>9

\* The ancestors of an instance are its parent and the ancestors of that.
LEMMA AncestorsAre ==
  ASSUME NEW t, Consistent(t), NEW i \in DOMAIN t.inst
  PROVE  Ancestors(t, i) = IF i = Root THEN {}
                           ELSE {t.inst[i].parent} \union Ancestors(t, t.inst[i].parent)
<1> DEFINE f == CHOOSE g : Climbs(g, t)
<1>1. Climbs(f, t)
  BY AncestorsRun
<1>2. \A k : Ancestors(t, k) = f[k]
  BY DEF Ancestors, Climbs
<1> HIDE DEF f
<1>3. i \in 0..t.next
  <2>1. t.next \in Nat /\ i \in Nat /\ i < t.next
    BY TreeIs DEF Consistent
  <2>2. QED BY <2>1
<1>4. QED BY <1>1, <1>2, <1>3 DEF Climbs

\* They are in the tree and older than it.
LEMMA AncestorsAreOlder ==
  ASSUME NEW t, Consistent(t)
  PROVE  \A i \in DOMAIN t.inst : \A a \in Ancestors(t, i) : a \in DOMAIN t.inst /\ a < i
<1> DEFINE D == DOMAIN t.inst
           S == {i \in D : \A a \in Ancestors(t, i) : a \in D /\ a < i}
<1>1. D \in SUBSET Nat
  BY TreeIs
<1>2. ASSUME NEW i \in D, \A k \in D : k < i => k \in S PROVE i \in S
  <2>1. CASE i = Root
    BY <2>1, AncestorsAre
  <2>2. CASE i # Root
    <3> DEFINE p == t.inst[i].parent
    <3>1. p \in D /\ p < i
      BY <2>2, ParentIs
    <3>2. Ancestors(t, i) = {p} \union Ancestors(t, p)
      BY <2>2, AncestorsAre
    <3>3. p \in S
      BY <1>2, <3>1
    <3> HIDE DEF p
    <3>4. \A a \in Ancestors(t, p) : a \in D /\ a < i
      <4>1. ASSUME NEW a \in Ancestors(t, p) PROVE a \in D /\ a < i
        <5>1. a \in D /\ a < p
          BY <3>3
        <5>2. a \in Nat /\ p \in Nat /\ i \in Nat
          BY <1>1, <3>1, <5>1
        <5>3. QED BY <3>1, <5>1, <5>2
      <4>2. QED BY <4>1
    <3>5. QED BY <3>1, <3>2, <3>4
  <2>3. QED BY <2>1, <2>2
<1> HIDE DEF S
<1>3. \A n \in D : n \in S
  BY <1>1, <1>2, FromBelow
<1>4. QED BY <1>3 DEF S

-----------------------------------------------------------------------------
(* What the operations on one instance leave as it was.                    *)

\* Two instances that differ in their children only, if at all.
Alike(a, b) ==
  a.name = b.name /\ a.class = b.class /\ a.props = b.props /\ a.parent = b.parent /\ a.meta = b.meta

\* The instances of both trees are alike.
Kept(t, r) == \A i \in DOMAIN t.inst \cap DOMAIN r.inst : Alike(t.inst[i], r.inst[i])

\* What stays has the same ancestors.
LEMMA AncestorsStay ==
  ASSUME NEW t, NEW r, Consistent(t), Consistent(r),
         \A i \in DOMAIN t.inst \cap DOMAIN r.inst : t.inst[i].parent = r.inst[i].parent
  PROVE  \A i \in DOMAIN t.inst \cap DOMAIN r.inst : Ancestors(r, i) = Ancestors(t, i)
<1> DEFINE D == DOMAIN t.inst \cap DOMAIN r.inst
           S == {i \in D : Ancestors(r, i) = Ancestors(t, i)}
<1>1. D \in SUBSET Nat
  BY TreeIs
<1>2. ASSUME NEW i \in D, \A k \in D : k < i => k \in S PROVE i \in S
  <2>1. CASE i = Root
    BY <2>1, AncestorsAre
  <2>2. CASE i # Root
    <3> DEFINE p == t.inst[i].parent
    <3>1. p \in D /\ p < i /\ r.inst[i].parent = p
      BY <2>2, ParentIs
    <3>2. Ancestors(t, i) = {p} \union Ancestors(t, p)
      BY <2>2, AncestorsAre
    <3>3. Ancestors(r, i) = {p} \union Ancestors(r, p)
      BY <2>2, <3>1, AncestorsAre
    <3>4. p \in S
      BY <1>2, <3>1
    <3> HIDE DEF p
    <3>5. QED BY <3>2, <3>3, <3>4
  <2>3. QED BY <2>1, <2>2
<1> HIDE DEF S
<1>3. \A n \in D : n \in S
  BY <1>1, <1>2, FromBelow
<1>4. QED BY <1>3 DEF S

\* insert_instance.
LEMMA PlaceIs ==
  ASSUME NEW t, Consistent(t), NEW parent \in DOMAIN t.inst, NEW s, IsSnapshot(s)
  PROVE  LET r == PlaceInstance(t, parent, s)
         IN  /\ Consistent(r) /\ r.next = t.next + 1
             /\ DOMAIN r.inst = DOMAIN t.inst \union {t.next}
             /\ Kept(t, r)
             /\ r.inst[t.next].parent = parent /\ IsSame(r.inst[t.next], s)
<1> DEFINE r == PlaceInstance(t, parent, s)
           D == DOMAIN t.inst
<1>1. Consistent(r) /\ DOMAIN r.inst = D \union {t.next}
  BY InsertKeepsIndex
<1>2. r.next = t.next + 1
  BY DEF PlaceInstance
<1>3. t.next \notin D /\ \A i \in D : t.inst[i] \in Instances
  BY TreeIs
<1>4. r.inst[t.next].parent = parent /\ IsSame(r.inst[t.next], s)
  BY DEF PlaceInstance, IsSame
<1>5. ASSUME NEW i \in D PROVE Alike(t.inst[i], r.inst[i])
  <2>1. r.inst[i] = IF i = parent THEN [t.inst[i] EXCEPT !.kids = Append(@, t.next)] ELSE t.inst[i]
    BY <1>3 DEF PlaceInstance
  <2>2. t.inst[i] \in Instances
    BY <1>3
  <2>3. QED BY <2>1, <2>2 DEF Alike, Instances
<1>6. Kept(t, r)
  BY <1>5 DEF Kept
<1>7. QED BY <1>1, <1>2, <1>4, <1>6

\* apply_update_child.
LEMMA UpdateIs ==
  ASSUME NEW t, Consistent(t), NEW u, u.id \in DOMAIN t.inst, IsSnapshot(u.snap)
  PROVE  LET r == Update(t, u)
         IN  /\ Consistent(r) /\ r.next = t.next /\ DOMAIN r.inst = DOMAIN t.inst
             /\ \A i \in DOMAIN t.inst : /\ r.inst[i].parent = t.inst[i].parent
                                         /\ i # u.id => r.inst[i] = t.inst[i]
             /\ IsSame(r.inst[u.id], u.snap)
<1> DEFINE r == Update(t, u)
           D == DOMAIN t.inst
           new == [t.inst[u.id] EXCEPT !.name = u.snap.name, !.class = u.snap.class,
                                       !.props = u.snap.props, !.meta = u.snap.meta]
<1>1. Consistent(r) /\ DOMAIN r.inst = D
  BY UpdateKeepsIndex
<1>2. t \in Trees /\ t.inst[u.id] \in Instances
  BY TreeIs DEF Consistent
<1>3. r.next = t.next /\ r.inst = [t.inst EXCEPT ![u.id] = new]
  BY <1>2 DEF Update, Trees
<1>4. new.parent = t.inst[u.id].parent /\ IsSame(new, u.snap)
  BY <1>2 DEF Instances, IsSame
<1> HIDE DEF new
<1>5. r.inst[u.id] = new /\ \A i \in D : i # u.id => r.inst[i] = t.inst[i]
  BY <1>3
<1> HIDE DEF r
<1>6. QED BY <1>1, <1>3, <1>4, <1>5 DEF r

\* RojoTree::remove takes out an instance and what is below it, and leaves
\* the rest as it was.
THEOREM RemoveInstanceKeepsIndex ==
  ASSUME NEW t, Consistent(t), NEW id \in DOMAIN t.inst \ {Root}
  PROVE  LET r == RemoveInstance(t, id)
         IN  /\ Consistent(r) /\ r.next = t.next
             /\ DOMAIN r.inst = DOMAIN t.inst \ Descendants(t, id)
             /\ Kept(t, r)
<1> DEFINE D == DOMAIN t.inst
           gone == Descendants(t, id)
           r == RemoveInstance(t, id)
<1>1. gone \in SUBSET D /\ id \in gone
  BY DEF Descendants
<1>2. \A i : i \in gone <=> i \in D /\ (i = id \/ id \in Ancestors(t, i))
  BY DEF Descendants
<1>3. r = Detach(t, id, gone)
  BY DEF RemoveInstance
<1> HIDE DEF gone, r
<1>4. Root \notin gone
  <2>1. Root \in D
    BY DEF Consistent
  <2>2. Ancestors(t, Root) = {}
    BY <2>1, AncestorsAre
  <2>3. QED BY <1>2, <2>2
<1>5. ASSUME NEW g \in gone, NEW k \in Range(t.inst[g].kids) PROVE k \in gone
  <2>1. k \in D \ {Root} /\ t.inst[k].parent = g
    BY <1>1, ParentIs
  <2>2. Ancestors(t, k) = {g} \union Ancestors(t, g)
    BY <2>1, AncestorsAre
  <2>3. QED BY <1>2, <2>1, <2>2
<1>6. ASSUME NEW g \in gone PROVE t.inst[g].parent \in gone <=> g # id
  <2> DEFINE p == t.inst[g].parent
  <2>1. g \in D \ {Root} /\ g \in Nat
    BY <1>1, <1>4, TreeIs
  <2>2. p \in D /\ p < g /\ p \in Nat
    BY <2>1, ParentIs, TreeIs
  <2>3. Ancestors(t, g) = {p} \union Ancestors(t, p)
    BY <2>1, AncestorsAre
  <2> HIDE DEF p
  <2>4. CASE g # id
    BY <1>2, <2>2, <2>3, <2>4 DEF p
  <2>5. CASE g = id
    <3>1. p # id
      BY <2>1, <2>2, <2>5
    <3>2. id \notin Ancestors(t, p)
      <4>1. id \in Ancestors(t, p) => id < p
        BY <2>2, AncestorsAreOlder
      <4>2. QED BY <2>1, <2>2, <2>5, <4>1
    <3>3. QED BY <1>2, <2>5, <3>1, <3>2 DEF p
  <2>6. QED BY <2>4, <2>5
<1>7. Consistent(r) /\ DOMAIN r.inst = D \ gone
  BY <1>1, <1>3, <1>4, <1>5, <1>6, RemoveKeepsIndex
<1>8. r.next = t.next
  BY <1>3 DEF Detach
<1>9. ASSUME NEW i \in D \ gone PROVE Alike(t.inst[i], r.inst[i])
  <2>1. r.inst[i] = IF i = t.inst[id].parent THEN [t.inst[i] EXCEPT !.kids = TakeOut(@, id)]
                    ELSE t.inst[i]
    BY <1>3 DEF Detach
  <2>2. t.inst[i] \in Instances
    BY TreeIs
  <2>3. QED BY <2>1, <2>2 DEF Alike, Instances
<1>10. Kept(t, r)
  BY <1>7, <1>9 DEF Kept
<1>11. QED BY <1>7, <1>8, <1>10 DEF gone, r

-----------------------------------------------------------------------------
(* Whole snapshots and patches.                                            *)

\* A snapshot as a list: a root, and every other instance after its parent.
Nodes == [name : Names, class : Classes, props : Props, meta : Metas, up : Nat]
IsList(s) ==
  /\ s \in Seq(Nodes) /\ Len(s) > 0
  /\ \A n \in 2..Len(s) : s[n].up \in 1..(n - 1)

\* r is t with more instances, all of them new.
Grown(t, r) ==
  /\ Consistent(r) /\ r.next >= t.next
  /\ \A i : i \in DOMAIN r.inst <=> i \in DOMAIN t.inst \/ i \in t.next..(r.next - 1)
  /\ Kept(t, r)

LEMMA GrownByNothing ==
  ASSUME NEW t, Consistent(t)
  PROVE  Grown(t, t)
<1>1. t.next \in Nat
  BY TreeIs
<1>2. t.next..(t.next - 1) = {} /\ t.next >= t.next
  BY <1>1
<1>3. QED BY <1>2 DEF Grown, Kept, Alike

LEMMA GrownTwice ==
  ASSUME NEW t, NEW r, NEW q, Consistent(t), Grown(t, r), Grown(r, q)
  PROVE  Grown(t, q)
<1>1. t.next \in Nat /\ r.next \in Nat /\ q.next \in Nat
  BY TreeIs DEF Grown
<1>2. r.next >= t.next /\ q.next >= r.next
  BY DEF Grown
<1>3. q.next >= t.next /\ \A i : i \in t.next..(q.next - 1) <=> i \in t.next..(r.next - 1) \/ i \in r.next..(q.next - 1)
  BY <1>1, <1>2
<1>4. \A i : i \in DOMAIN q.inst <=> i \in DOMAIN t.inst \/ i \in t.next..(q.next - 1)
  BY <1>3 DEF Grown
<1>5. Kept(t, q)
  BY DEF Grown, Kept, Alike
<1>6. QED BY <1>3, <1>4, <1>5 DEF Grown

\* The first n instances of a snapshot are in a tree, from an id on.
Copied(r, base, s, parent, n) ==
  \A x \in 1..n : /\ IsSame(r.inst[base + x - 1], s[x])
                  /\ r.inst[base + x - 1].parent = IF x = 1 THEN parent ELSE base + s[x].up - 1

LEMMA CopiedStays ==
  ASSUME NEW t, NEW r, Kept(t, r), NEW base, NEW s, NEW parent, NEW n \in Nat, Copied(t, base, s, parent, n),
         \A x \in 1..n : base + x - 1 \in DOMAIN t.inst /\ base + x - 1 \in DOMAIN r.inst
  PROVE  Copied(r, base, s, parent, n)
<1>1. ASSUME NEW x \in 1..n
      PROVE  /\ IsSame(r.inst[base + x - 1], s[x])
             /\ r.inst[base + x - 1].parent = IF x = 1 THEN parent ELSE base + s[x].up - 1
  <2> DEFINE i == base + x - 1
  <2>1. /\ i \in DOMAIN t.inst /\ i \in DOMAIN r.inst /\ IsSame(t.inst[i], s[x])
        /\ t.inst[i].parent = IF x = 1 THEN parent ELSE base + s[x].up - 1
    BY DEF Copied
  <2> HIDE DEF i
  <2>2. Alike(t.inst[i], r.inst[i])
    BY <2>1 DEF Kept
  <2>3. IsSame(r.inst[i], s[x]) /\ r.inst[i].parent = t.inst[i].parent
    BY <2>1, <2>2 DEF Alike, IsSame
  <2>4. QED BY <2>1, <2>3 DEF i
<1>2. QED BY <1>1 DEF Copied

\* insert_instance, for a whole snapshot: the index stays exact, and the tree
\* has one new instance for each of the snapshot, as it is there.
THEOREM InsertInstanceKeepsIndex ==
  ASSUME NEW t, Consistent(t), NEW parent \in DOMAIN t.inst, NEW s, IsList(s)
  PROVE  LET r == InsertInstance(t, parent, s)
         IN  Grown(t, r) /\ r.next = t.next + Len(s) /\ Copied(r, t.next, s, parent, Len(s))
<1> DEFINE L == Len(s)
           w == [parent |-> parent, next |-> t.next, snap |-> s]
           above(n) == IF n = 1 THEN parent ELSE t.next + s[n].up - 1
<1>1. L \in Nat /\ \A n \in 1..L : s[n] \in Nodes
  BY RangeIs DEF IsList
<1>2. PICK g : Turns(g, "insert", w, t, L) /\ InsertInstance(t, parent, s) = g[L]
  BY <1>1, InsertTurns
<1>3. g[0] = t /\ \A n \in 1..L : g[n] = PlaceInstance(g[n - 1], above(n), s[n])
  BY <1>2 DEF Turns, Turn
<1>4. t.next \in Nat
  BY TreeIs
<1>5. \A n \in 1..L : IsSnapshot(s[n])
  BY <1>1 DEF Nodes, IsSnapshot
<1> DEFINE Done(n) == Grown(t, g[n]) /\ g[n].next = t.next + n /\ Copied(g[n], t.next, s, parent, n)
           T == {n \in 0..L : Done(n)}
<1>6. 0 \in T
  <2>1. 1..0 = {}
    OBVIOUS
  <2>2. QED BY <1>1, <1>3, <1>4, <2>1, GrownByNothing DEF Copied
<1>7. ASSUME NEW m \in 1..L, m - 1 \in T PROVE m \in T
  <2> DEFINE a == g[m - 1]
  <2>1. /\ Grown(t, a) /\ a.next = t.next + (m - 1) /\ Consistent(a)
        /\ Copied(a, t.next, s, parent, m - 1)
    BY <1>7 DEF Grown
  <2>2. above(m) \in DOMAIN a.inst
    <3>1. CASE m = 1
      BY <2>1, <3>1 DEF Grown
    <3>2. CASE m # 1
      <4>1. m \in 2..L
        BY <1>1, <3>2
      <4>2. s[m].up \in 1..(m - 1)
        BY <4>1 DEF IsList
      <4>3. t.next + s[m].up - 1 \in t.next..(a.next - 1)
        BY <1>4, <2>1, <4>2
      <4>4. QED BY <2>1, <3>2, <4>3 DEF Grown
    <3>3. QED BY <3>1, <3>2
  <2> HIDE DEF a, above
  <2>3. g[m] = PlaceInstance(a, above(m), s[m])
    BY <1>3 DEF a
  <2>4. /\ Consistent(g[m]) /\ g[m].next = a.next + 1
        /\ DOMAIN g[m].inst = DOMAIN a.inst \union {a.next}
        /\ Kept(a, g[m])
        /\ g[m].inst[a.next].parent = above(m) /\ IsSame(g[m].inst[a.next], s[m])
    BY <1>5, <2>1, <2>2, <2>3, PlaceIs
  <2>5. a.next \in Nat
    BY <2>1, TreeIs
  <2>6. \A i : i \in a.next..(g[m].next - 1) <=> i = a.next
    BY <2>4, <2>5
  <2>7. Grown(a, g[m])
    BY <2>4, <2>5, <2>6 DEF Grown
  <2>8. Grown(t, g[m])
    BY <2>1, <2>7, GrownTwice
  <2>9. g[m].next = t.next + m
    BY <1>4, <2>1, <2>4
  <2>10. Copied(g[m], t.next, s, parent, m)
    <3>1. \A x \in 1..(m - 1) : t.next + x - 1 \in t.next..(a.next - 1)
      BY <1>4, <2>1
    <3>2. Copied(g[m], t.next, s, parent, m - 1)
      <4>1. \A x \in 1..(m - 1) : t.next + x - 1 \in DOMAIN a.inst /\ t.next + x - 1 \in DOMAIN g[m].inst
        BY <2>1, <2>4, <3>1 DEF Grown
      <4>2. m - 1 \in Nat
        OBVIOUS
      <4>3. QED BY <2>1, <2>4, <4>1, <4>2, CopiedStays
    <3>3. a.next = t.next + m - 1 /\ \A x \in 1..m : x = m \/ x \in 1..(m - 1)
      BY <1>4, <2>1
    <3>4. QED BY <2>4, <3>2, <3>3 DEF Copied, above
  <2>11. QED BY <1>1, <2>8, <2>9, <2>10
<1>8. L \in T
  <2>1. T \in SUBSET (0..L) /\ L \in 0..L
    BY <1>1
  <2> HIDE DEF T
  <2>2. QED BY <1>1, <1>6, <1>7, <2>1, UpTo
<1>9. QED BY <1>2, <1>8

\* What is added to a tree.
FitAdditions(t, adds) ==
  /\ Len(adds) \in Nat
  /\ \A n \in 1..Len(adds) : adds[n].parent \in DOMAIN t.inst /\ IsList(adds[n].snap)

\* The snapshots that were added to t follow one another in r, from t.next on.
Blocks(t, r, adds, base, n) ==
  /\ \A j \in 1..n : /\ base[j] \in Nat /\ base[j] >= t.next
                     /\ base[j] + Len(adds[j].snap) <= r.next
                     /\ Copied(r, base[j], adds[j].snap, adds[j].parent, Len(adds[j].snap))
  /\ \A j, k \in 1..n : j < k => base[j] + Len(adds[j].snap) <= base[k]
  /\ \A i \in t.next..(r.next - 1) :
       \E j \in 1..n : i \in base[j]..(base[j] + Len(adds[j].snap) - 1)

\* The additions of apply_patch_set.
LEMMA AdditionsKeepIndex ==
  ASSUME NEW t, Consistent(t), NEW adds, FitAdditions(t, adds)
  PROVE  /\ Grown(t, ApplyAdditions(t, adds))
         /\ \E base : Blocks(t, ApplyAdditions(t, adds), adds, base, Len(adds))
<1> DEFINE L == Len(adds)
           W(n) == Len(adds[n].snap)
<1>1. L \in Nat /\ \A n \in 1..L : adds[n].parent \in DOMAIN t.inst /\ IsList(adds[n].snap)
  BY DEF FitAdditions
<1>2. \A n \in 1..L : W(n) \in Nat /\ W(n) > 0
  BY <1>1, RangeIs DEF IsList
<1>3. PICK g : Turns(g, "add", adds, t, L) /\ ApplyAdditions(t, adds) = g[L]
  BY <1>1, AdditionsTurns
<1>4. g[0] = t /\ \A n \in 1..L : g[n] = InsertInstance(g[n - 1], adds[n].parent, adds[n].snap)
  BY <1>3 DEF Turns, Turn
<1> HIDE DEF W
<1> DEFINE base == [j \in 1..L |-> g[j - 1].next]
           Done(n) == Grown(t, g[n]) /\ Blocks(t, g[n], adds, base, n)
           T == {n \in 0..L : Done(n)}
<1>5. 0 \in T
  <2>1. 1..0 = {} /\ 0 \in 0..L
    BY <1>1
  <2>2. t.next..(t.next - 1) = {}
    BY TreeIs
  <2> HIDE DEF base
  <2>3. Blocks(t, t, adds, base, 0)
    BY <2>1, <2>2 DEF Blocks
  <2>4. QED BY <1>4, <2>1, <2>3, GrownByNothing
<1>6. ASSUME NEW m \in 1..L, m - 1 \in T PROVE m \in T
  <2> DEFINE a == g[m - 1]
             r == g[m]
  <2>1. Grown(t, a) /\ Consistent(a) /\ Blocks(t, a, adds, base, m - 1) /\ base[m] = a.next
    BY <1>6 DEF Grown
  <2>2. adds[m].parent \in DOMAIN a.inst
    BY <1>1, <2>1 DEF Grown
  <2>3. r = InsertInstance(a, adds[m].parent, adds[m].snap)
    BY <1>4
  <2> HIDE DEF a, r, base
  <2>4. Grown(a, r) /\ r.next = a.next + W(m) /\ Copied(r, a.next, adds[m].snap, adds[m].parent, W(m))
    BY <1>1, <2>1, <2>2, <2>3, InsertInstanceKeepsIndex DEF W
  <2>5. Grown(t, r)
    BY <2>1, <2>4, GrownTwice
  <2>6. t.next \in Nat /\ a.next \in Nat /\ a.next >= t.next /\ Kept(a, r)
    BY <2>1, <2>4, TreeIs DEF Grown
  <2>7. \A j : j \in 1..m <=> j \in 1..(m - 1) \/ j = m
    OBVIOUS
  <2>8. W(m) \in Nat /\ \A j \in 1..(m - 1) : j \in 1..L /\ W(j) \in Nat
    BY <1>1, <1>2
  <2>9. \A j \in 1..(m - 1) : /\ base[j] \in Nat /\ base[j] >= t.next /\ base[j] + W(j) <= a.next
                              /\ Copied(a, base[j], adds[j].snap, adds[j].parent, W(j))
    BY <2>1 DEF Blocks, W
  <2>10. ASSUME NEW j \in 1..(m - 1)
         PROVE  base[j] + W(j) <= r.next /\ Copied(r, base[j], adds[j].snap, adds[j].parent, W(j))
    <3>1. /\ base[j] \in Nat /\ base[j] >= t.next /\ base[j] + W(j) <= a.next /\ W(j) \in Nat
          /\ Copied(a, base[j], adds[j].snap, adds[j].parent, W(j))
      BY <2>8, <2>9
    <3>2. base[j] + W(j) <= r.next
      BY <2>4, <2>6, <2>8, <3>1
    <3>3. \A x \in 1..W(j) : base[j] + x - 1 \in t.next..(a.next - 1)
      BY <2>6, <3>1
    <3>4. \A x \in 1..W(j) : base[j] + x - 1 \in DOMAIN a.inst /\ base[j] + x - 1 \in DOMAIN r.inst
      BY <2>1, <2>4, <3>3 DEF Grown
    <3>5. QED BY <2>6, <3>1, <3>2, <3>4, CopiedStays
  <2>11. ASSUME NEW j \in 1..m
         PROVE  /\ base[j] \in Nat /\ base[j] >= t.next /\ base[j] + W(j) <= r.next
                /\ Copied(r, base[j], adds[j].snap, adds[j].parent, W(j))
    <3>1. CASE j = m
      BY <2>1, <2>4, <2>6, <2>8, <3>1
    <3>2. CASE j # m
      BY <2>7, <2>9, <2>10, <3>2
    <3>3. QED BY <3>1, <3>2
  <2>12. ASSUME NEW j \in 1..m, NEW k \in 1..m, j < k PROVE base[j] + W(j) <= base[k]
    <3>1. j \in 1..(m - 1)
      BY <2>12
    <3>2. CASE k = m
      BY <2>1, <2>9, <3>1, <3>2
    <3>3. CASE k # m
      BY <2>1, <2>7, <2>12, <3>1, <3>3 DEF Blocks, W
    <3>4. QED BY <3>2, <3>3
  <2>13. ASSUME NEW i \in t.next..(r.next - 1)
         PROVE  \E j \in 1..m : i \in base[j]..(base[j] + W(j) - 1)
    <3>1. CASE i \in t.next..(a.next - 1)
      BY <2>1, <2>7, <3>1 DEF Blocks, W
    <3>2. CASE i \notin t.next..(a.next - 1)
      <4>1. i \in a.next..(a.next + W(m) - 1)
        BY <2>4, <2>6, <2>8, <3>2
      <4>2. QED BY <2>1, <2>7, <4>1
    <3>3. QED BY <3>1, <3>2
  <2>14. Blocks(t, r, adds, base, m)
    BY <2>11, <2>12, <2>13 DEF Blocks, W
  <2>15. m \in 0..L
    BY <1>1
  <2>16. QED BY <2>5, <2>14, <2>15 DEF r
<1>7. L \in T
  <2>1. T \in SUBSET (0..L) /\ L \in 0..L
    BY <1>1
  <2> HIDE DEF T
  <2>2. QED BY <1>1, <1>5, <1>6, <2>1, UpTo
<1> HIDE DEF base
<1>8. QED BY <1>3, <1>7

\* What is updated in a tree.
FitUpdates(t, ups) ==
  /\ Len(ups) \in Nat
  /\ \A n \in 1..Len(ups) : ups[n].id \in DOMAIN t.inst /\ IsSnapshot(ups[n].snap)

\* An instance is as it was, or as one of the first n updates wants it.
UpToDate(old, new, i, ups, n) ==
  /\ new.parent = old.parent
  /\ \/ Alike(old, new) /\ \A k \in 1..n : ups[k].id # i
     \/ \E k \in 1..n : ups[k].id = i /\ IsSame(new, ups[k].snap)

\* r is t after the first n of the updates.
Renewed(t, r, ups, n) ==
  /\ Consistent(r) /\ r.next = t.next /\ DOMAIN r.inst = DOMAIN t.inst
  /\ \A i \in DOMAIN t.inst : UpToDate(t.inst[i], r.inst[i], i, ups, n)

\* The updates of apply_patch_set.
LEMMA UpdatesKeepIndex ==
  ASSUME NEW t, Consistent(t), NEW ups, FitUpdates(t, ups)
  PROVE  Renewed(t, ApplyUpdates(t, ups), ups, Len(ups))
<1> DEFINE L == Len(ups)
<1>1. L \in Nat /\ \A n \in 1..L : ups[n].id \in DOMAIN t.inst /\ IsSnapshot(ups[n].snap)
  BY DEF FitUpdates
<1>2. PICK g : Turns(g, "update", ups, t, L) /\ ApplyUpdates(t, ups) = g[L]
  BY <1>1, UpdatesTurns
<1>3. g[0] = t /\ \A n \in 1..L : g[n] = Update(g[n - 1], ups[n])
  BY <1>2 DEF Turns, Turn
<1> DEFINE T == {n \in 0..L : Renewed(t, g[n], ups, n)}
<1>4. 0 \in T
  <2>1. 1..0 = {} /\ 0 \in 0..L
    BY <1>1
  <2>2. QED BY <1>3, <2>1 DEF Renewed, UpToDate, Alike
<1>5. ASSUME NEW m \in 1..L, m - 1 \in T PROVE m \in T
  <2> DEFINE a == g[m - 1]
  <2>1. Renewed(t, a, ups, m - 1)
    BY <1>5
  <2>2. /\ Consistent(a) /\ a.next = t.next /\ DOMAIN a.inst = DOMAIN t.inst
        /\ \A i \in DOMAIN t.inst : UpToDate(t.inst[i], a.inst[i], i, ups, m - 1)
    BY <2>1 DEF Renewed
  <2>3. g[m] = Update(a, ups[m])
    BY <1>3
  <2> HIDE DEF a
  <2>4. /\ Consistent(g[m]) /\ g[m].next = a.next /\ DOMAIN g[m].inst = DOMAIN a.inst
        /\ \A i \in DOMAIN a.inst : /\ g[m].inst[i].parent = a.inst[i].parent
                                    /\ i # ups[m].id => g[m].inst[i] = a.inst[i]
        /\ IsSame(g[m].inst[ups[m].id], ups[m].snap)
    <3>1. ups[m].id \in DOMAIN a.inst /\ IsSnapshot(ups[m].snap)
      BY <1>1, <2>2
    <3>2. QED BY <2>2, <2>3, <3>1, UpdateIs
  <2>5. m \in 1..m /\ \A k : k \in 1..m <=> k \in 1..(m - 1) \/ k = m
    OBVIOUS
  <2>6. ASSUME NEW i \in DOMAIN t.inst
        PROVE  UpToDate(t.inst[i], g[m].inst[i], i, ups, m)
    <3>1. UpToDate(t.inst[i], a.inst[i], i, ups, m - 1)
      BY <2>2
    <3>2. g[m].inst[i].parent = t.inst[i].parent
      BY <2>2, <2>4, <3>1 DEF UpToDate
    <3>3. CASE i = ups[m].id
      BY <2>4, <2>5, <3>2, <3>3 DEF UpToDate
    <3>4. CASE i # ups[m].id
      <4>1. g[m].inst[i] = a.inst[i]
        BY <2>2, <2>4, <3>4
      <4>2. QED BY <2>5, <3>1, <3>4, <4>1 DEF UpToDate
    <3>5. QED BY <3>3, <3>4
  <2>7. Renewed(t, g[m], ups, m)
    BY <2>2, <2>4, <2>6 DEF Renewed
  <2>8. QED BY <1>1, <2>7
<1>6. L \in T
  <2>1. T \in SUBSET (0..L) /\ L \in 0..L
    BY <1>1
  <2> HIDE DEF T
  <2>2. QED BY <1>1, <1>4, <1>5, <2>1, UpTo
<1>7. QED BY <1>2, <1>6

\* What is removed from a tree: never the root, nothing twice, and nothing
\* that is below something else that is removed.
FitRemovals(t, ids) ==
  /\ ids \in Seq(DOMAIN t.inst \ {Root})
  /\ \A j, k \in 1..Len(ids) : j # k => ids[j] # ids[k] /\ ids[j] \notin Ancestors(t, ids[k])

\* r is t after the first n of the removals.
Pruned(t, r, ids, n) ==
  /\ Consistent(r) /\ r.next = t.next /\ Kept(t, r)
  /\ \A i : i \in DOMAIN r.inst <=>
       i \in DOMAIN t.inst /\ \A k \in 1..n : ids[k] # i /\ ids[k] \notin Ancestors(t, i)

\* The removals of apply_patch_set.
LEMMA RemovalsKeepIndex ==
  ASSUME NEW t, Consistent(t), NEW ids, FitRemovals(t, ids)
  PROVE  Pruned(t, ApplyRemovals(t, ids), ids, Len(ids))
<1> DEFINE L == Len(ids)
           D == DOMAIN t.inst
<1>1. /\ L \in Nat /\ \A k \in 1..L : ids[k] \in D \ {Root}
      /\ \A j, k \in 1..L : j # k => ids[j] # ids[k] /\ ids[j] \notin Ancestors(t, ids[k])
  BY RangeIs DEF FitRemovals
<1>2. PICK g : Turns(g, "remove", ids, t, L) /\ ApplyRemovals(t, ids) = g[L]
  BY <1>1, RemovalsTurns
<1>3. g[0] = t /\ \A n \in 1..L : g[n] = RemoveInstance(g[n - 1], ids[n])
  BY <1>2 DEF Turns, Turn
<1> DEFINE T == {n \in 0..L : Pruned(t, g[n], ids, n)}
<1>4. 0 \in T
  <2>1. 1..0 = {} /\ 0 \in 0..L
    BY <1>1
  <2>2. QED BY <1>3, <2>1 DEF Pruned, Kept, Alike
<1>5. ASSUME NEW m \in 1..L, m - 1 \in T PROVE m \in T
  <2> DEFINE a == g[m - 1]
             id == ids[m]
  <2>1. Pruned(t, a, ids, m - 1)
    BY <1>5
  <2>2. g[m] = RemoveInstance(a, id)
    BY <1>3
  <2> HIDE DEF a
  <2>3. /\ Consistent(a) /\ a.next = t.next /\ Kept(t, a)
        /\ \A i : i \in DOMAIN a.inst <=>
             i \in D /\ \A k \in 1..(m - 1) : ids[k] # i /\ ids[k] \notin Ancestors(t, i)
    BY <2>1 DEF Pruned
  <2>4. \A k \in 1..(m - 1) : k \in 1..L /\ k # m
    BY <1>1
  <2>5. \A k : k \in 1..m <=> k \in 1..(m - 1) \/ k = m
    OBVIOUS
  <2>6. id \in D \ {Root} /\ id \in DOMAIN a.inst
    BY <1>1, <2>3, <2>4
  <2>7. \A i \in DOMAIN a.inst : i \in D /\ Ancestors(a, i) = Ancestors(t, i)
    <3>1. \A i \in D \cap DOMAIN a.inst : t.inst[i].parent = a.inst[i].parent
      BY <2>3 DEF Kept, Alike
    <3>2. QED BY <2>3, <3>1, AncestorsStay
  <2> HIDE DEF id
  <2>8. /\ Consistent(g[m]) /\ g[m].next = a.next
        /\ DOMAIN g[m].inst = DOMAIN a.inst \ Descendants(a, id)
        /\ Kept(a, g[m])
    BY <2>2, <2>3, <2>6, RemoveInstanceKeepsIndex
  <2>9. \A i : i \in DOMAIN g[m].inst <=>
          i \in D /\ \A k \in 1..m : ids[k] # i /\ ids[k] \notin Ancestors(t, i)
    <3>1. \A i : i \in DOMAIN g[m].inst <=> i \in DOMAIN a.inst /\ i # id /\ id \notin Ancestors(t, i)
      BY <2>7, <2>8 DEF Descendants
    <3>2. QED BY <2>3, <2>5, <3>1 DEF id
  <2>10. Kept(t, g[m])
    BY <2>3, <2>8 DEF Kept, Alike
  <2>11. QED BY <1>1, <2>3, <2>8, <2>9, <2>10 DEF Pruned
<1>6. L \in T
  <2>1. T \in SUBSET (0..L) /\ L \in 0..L
    BY <1>1
  <2> HIDE DEF T
  <2>2. QED BY <1>1, <1>4, <1>5, <2>1, UpTo
<1>7. QED BY <1>2, <1>6

\* What stays in a tree when some instances are removed.
Stays(t, ids, i) ==
  i \in DOMAIN t.inst /\ \A k \in 1..Len(ids) : ids[k] # i /\ ids[k] \notin Ancestors(t, i)

\* A patch of a tree for one of its instances: it removes what is at or below
\* that instance, adds to what stays and updates what stays.
FitPatch(t, id, p) ==
  /\ FitRemovals(t, p.removed)
  /\ \A k \in 1..Len(p.removed) : p.removed[k] \in Descendants(t, id)
  /\ Len(p.added) \in Nat
  /\ \A n \in 1..Len(p.added) : Stays(t, p.removed, p.added[n].parent) /\ IsList(p.added[n].snap)
  /\ Len(p.updated) \in Nat /\ DOMAIN p.updated = 1..Len(p.updated)
  /\ \A n \in 1..Len(p.updated) : Stays(t, p.removed, p.updated[n].id) /\ IsSnapshot(p.updated[n].snap)

\* r is t after the patch.
Patched(t, r, p) ==
  /\ Consistent(r) /\ r.next >= t.next
  /\ \A i : i \in DOMAIN r.inst <=> Stays(t, p.removed, i) \/ i \in t.next..(r.next - 1)
  /\ \A i \in DOMAIN t.inst \cap DOMAIN r.inst :
       UpToDate(t.inst[i], r.inst[i], i, p.updated, Len(p.updated))

\* apply_patch_set keeps the index exact; the ids it gives are new, and what
\* stays has its parent and is as it was or as an update wants it.
THEOREM ApplyPatchKeepsIndex ==
  ASSUME NEW t, Consistent(t), NEW id, NEW p, FitPatch(t, id, p)
  PROVE  Patched(t, ApplyPatch(t, p), p)
<1> DEFINE a == ApplyRemovals(t, p.removed)
           b == ApplyAdditions(a, p.added)
           r == ApplyUpdates(b, p.updated)
           D == DOMAIN t.inst
<1>1. Pruned(t, a, p.removed, Len(p.removed))
  BY RemovalsKeepIndex DEF FitPatch
<1> HIDE DEF a
<1>2. /\ Consistent(a) /\ a.next = t.next /\ Kept(t, a)
      /\ \A i : i \in DOMAIN a.inst <=> Stays(t, p.removed, i)
  BY <1>1 DEF Pruned, Stays
<1>3. FitAdditions(a, p.added)
  BY <1>2 DEF FitPatch, FitAdditions
<1>4. Grown(a, b)
  BY <1>2, <1>3, AdditionsKeepIndex
<1> HIDE DEF b
<1>5. /\ Consistent(b) /\ b.next >= a.next /\ Kept(a, b)
      /\ \A i : i \in DOMAIN b.inst <=> i \in DOMAIN a.inst \/ i \in a.next..(b.next - 1)
  BY <1>4 DEF Grown
<1>6. FitUpdates(b, p.updated)
  BY <1>2, <1>5 DEF FitPatch, FitUpdates
<1>7. Renewed(b, r, p.updated, Len(p.updated))
  BY <1>5, <1>6, UpdatesKeepIndex
<1> HIDE DEF r
<1>8. /\ Consistent(r) /\ r.next = b.next /\ DOMAIN r.inst = DOMAIN b.inst
      /\ \A i \in DOMAIN b.inst : UpToDate(b.inst[i], r.inst[i], i, p.updated, Len(p.updated))
  BY <1>7 DEF Renewed
<1>9. \A i \in D : i \notin t.next..(b.next - 1)
  <2>1. t.next \in Nat /\ b.next \in Nat /\ D \in SUBSET Nat /\ \A i \in D : i < t.next
    BY <1>5, TreeIs DEF Consistent
  <2>2. QED BY <2>1
<1>10. ASSUME NEW i \in D \cap DOMAIN r.inst
       PROVE  UpToDate(t.inst[i], r.inst[i], i, p.updated, Len(p.updated))
  <2>1. i \in DOMAIN b.inst /\ i \in DOMAIN a.inst
    BY <1>2, <1>5, <1>8, <1>9
  <2>2. Alike(t.inst[i], b.inst[i])
    BY <1>2, <1>5, <2>1 DEF Kept, Alike
  <2>3. UpToDate(b.inst[i], r.inst[i], i, p.updated, Len(p.updated))
    BY <1>8, <2>1
  <2>4. QED BY <2>2, <2>3 DEF UpToDate, Alike
<1>11. Patched(t, r, p)
  BY <1>2, <1>5, <1>8, <1>10 DEF Patched
<1>12. QED BY <1>11 DEF ApplyPatch, r, b, a

\* The ancestors of an ancestor are ancestors.
LEMMA AncestorsOfAncestors ==
  ASSUME NEW t, Consistent(t)
  PROVE  \A i \in DOMAIN t.inst : \A a \in Ancestors(t, i) : Ancestors(t, a) \subseteq Ancestors(t, i)
<1> DEFINE D == DOMAIN t.inst
           S == {i \in D : \A a \in Ancestors(t, i) : Ancestors(t, a) \subseteq Ancestors(t, i)}
<1>1. D \in SUBSET Nat
  BY TreeIs
<1>2. ASSUME NEW i \in D, \A k \in D : k < i => k \in S PROVE i \in S
  <2>1. CASE i = Root
    BY <2>1, AncestorsAre
  <2>2. CASE i # Root
    <3> DEFINE p == t.inst[i].parent
    <3>1. p \in D /\ p < i
      BY <2>2, ParentIs
    <3>2. Ancestors(t, i) = {p} \union Ancestors(t, p)
      BY <2>2, AncestorsAre
    <3>3. p \in S
      BY <1>2, <3>1
    <3> HIDE DEF p
    <3>4. QED BY <3>2, <3>3
  <2>3. QED BY <2>1, <2>2
<1> HIDE DEF S
<1>3. \A n \in D : n \in S
  BY <1>1, <1>2, FromBelow
<1>4. QED BY <1>3 DEF S

\* What is not below the instance of a patch stays.
LEMMA PatchIsLocal ==
  ASSUME NEW t, Consistent(t), NEW id, NEW p, FitPatch(t, id, p), NEW i \in DOMAIN t.inst,
         i \notin Descendants(t, id)
  PROVE  Stays(t, p.removed, i)
<1>1. ASSUME NEW k \in 1..Len(p.removed) PROVE p.removed[k] # i /\ p.removed[k] \notin Ancestors(t, i)
  <2>1. p.removed[k] \in DOMAIN t.inst /\ (p.removed[k] = id \/ id \in Ancestors(t, p.removed[k]))
    BY DEF FitPatch, Descendants
  <2>2. i # id /\ id \notin Ancestors(t, i)
    BY DEF Descendants
  <2>3. QED BY <2>1, <2>2, AncestorsOfAncestors
<1>2. QED BY <1>1 DEF Stays

-----------------------------------------------------------------------------
(* The patch that compute_patch_set makes.                                 *)

\* The recursion of Pairing.
Pairs(f, t, id, s) ==
  f = [n \in 1..Len(s) |-> IF n = 1 THEN <<id>> ELSE Append(f[n - 1], Partner(t, f[n - 1], s[n]))]

PairTurns(g, t, id, s) ==
  /\ g[1] = <<id>>
  /\ \A n \in 2..Len(s) : g[n] = Append(g[n - 1], Partner(t, g[n - 1], s[n]))

LEMMA PairingTurns ==
  ASSUME NEW t, NEW id, NEW s, Len(s) \in Nat, Len(s) > 0
  PROVE  \E g : PairTurns(g, t, id, s) /\ Pairing(t, id, s) = g[Len(s)]
<1> DEFINE L == Len(s)
           w == [id |-> id, tree |-> t, snap |-> s]
           next(x, n) == Append(x, Partner(t, x, s[n]))
<1>1. PICK h : Runs(h, "pair", w, <<>>, L)
  BY LoopRuns
<1>2. \A n \in 1..L : h[n] = IF n = 1 THEN <<id>> ELSE next(h[n - 1], n)
  <2>1. Turns(h, "pair", w, <<>>, L)
    BY <1>1, LoopTurns
  <2>2. QED BY <2>1 DEF Turns, Turn
<1> HIDE DEF next
<1> DEFINE f == [n \in 1..L |-> h[n]]
<1>3. ASSUME NEW n \in 1..L PROVE f[n] = IF n = 1 THEN <<id>> ELSE next(f[n - 1], n)
  <2>1. CASE n = 1
    BY <1>2, <2>1
  <2>2. CASE n # 1
    <3>1. n - 1 \in 1..L
      BY <2>2
    <3>2. QED BY <1>2, <2>2, <3>1
  <2>3. QED BY <2>1, <2>2
<1>4. f = [n \in 1..L |-> IF n = 1 THEN <<id>> ELSE next(f[n - 1], n)]
  BY <1>3
<1> HIDE DEF f
<1>5. Pairs(f, t, id, s)
  BY <1>4 DEF Pairs, next
<1> DEFINE g == CHOOSE x : Pairs(x, t, id, s)
<1>6. Pairs(g, t, id, s)
  BY <1>5
<1>7. Pairing(t, id, s) = g[L]
  BY DEF Pairing, Pairs
<1> HIDE DEF g
<1>8. 1 \in 1..L /\ \A n \in 2..L : n \in 1..L /\ n # 1
  OBVIOUS
<1>9. PairTurns(g, t, id, s)
  BY <1>6, <1>8 DEF Pairs, PairTurns
<1>10. QED BY <1>7, <1>9

\* A partner is a child of the partner of the parent, of the same name and
\* class, and nobody else's.
LEMMA PartnerIs ==
  ASSUME NEW t, Consistent(t), NEW pair \in Seq(DOMAIN t.inst \union {None}), NEW node,
         node.up \in 1..Len(pair), NEW q, q = Partner(t, pair, node), q # None
  PROVE  /\ pair[node.up] \in DOMAIN t.inst
         /\ q \in Range(t.inst[pair[node.up]].kids) /\ q \notin Range(pair)
         /\ t.inst[q].name = node.name /\ t.inst[q].class = node.class
<1> DEFINE above == pair[node.up]
           kids == IF above = None THEN <<>> ELSE t.inst[above].kids
           free == {n \in DOMAIN kids : /\ kids[n] \notin Range(pair)
                                        /\ t.inst[kids[n]].name = node.name
                                        /\ t.inst[kids[n]].class = node.class}
<1>1. above \in DOMAIN t.inst \union {None}
  BY RangeIs
<1>2. q = IF free = {} THEN None ELSE kids[Min(free)]
  BY DEF Partner
<1>3. above # None
  <2>1. above = None => kids = <<>>
    OBVIOUS
  <2>2. DOMAIN <<>> = {}
    OBVIOUS
  <2> HIDE DEF kids
  <2>3. above = None => free = {}
    BY <2>1, <2>2
  <2>4. QED BY <1>2, <2>3
<1>4. above \in DOMAIN t.inst /\ kids = t.inst[above].kids /\ kids \in Seq(Nat)
  BY <1>1, <1>3, TreeIs DEF Instances
<1> HIDE DEF kids
<1>5. DOMAIN kids = 1..Len(kids) /\ Len(kids) \in Nat
  BY <1>4, RangeIs
<1>6. free # {} /\ free \in SUBSET Nat
  <2>1. free # {}
    <3> HIDE DEF free
    <3>1. QED BY <1>2
  <2>2. DOMAIN kids \subseteq Nat
    BY <1>5
  <2>3. QED BY <2>1, <2>2
<1> HIDE DEF free
<1>7. Min(free) \in free
  <2>1. \E m \in free : \A n \in free : m <= n
    BY <1>6, LeastNumber
  <2>2. QED BY <2>1 DEF Min
<1>8. q = kids[Min(free)]
  BY <1>2, <1>6
<1>9. QED BY <1>4, <1>7, <1>8 DEF free, Range

\* The partners of the first n instances of a snapshot: a node without a
\* partner has None, and what is below it has none either.
IsPairing(t, id, s, pair, n) ==
  /\ pair \in Seq(DOMAIN t.inst \union {None}) /\ Len(pair) = n /\ pair[1] = id
  /\ \A k \in 2..n : pair[k] # None =>
       /\ pair[s[k].up] \in DOMAIN t.inst
       /\ pair[k] \in Range(t.inst[pair[s[k].up]].kids)
       /\ t.inst[pair[k]].name = s[k].name /\ t.inst[pair[k]].class = s[k].class
  /\ \A j, k \in 1..n : pair[j] = pair[k] /\ pair[k] # None => j = k

LEMMA PairingIs ==
  ASSUME NEW t, Consistent(t), NEW id \in DOMAIN t.inst, NEW s, IsList(s)
  PROVE  IsPairing(t, id, s, Pairing(t, id, s), Len(s))
<1> DEFINE L == Len(s)
           D == DOMAIN t.inst
<1>1. L \in Nat /\ L > 0 /\ \A n \in 2..L : s[n].up \in 1..(n - 1)
  BY RangeIs DEF IsList
<1>20. PICK g : PairTurns(g, t, id, s) /\ Pairing(t, id, s) = g[L]
  BY <1>1, PairingTurns
<1>2. /\ g[1] = <<id>>
      /\ \A n \in 2..L : g[n] = Append(g[n - 1], Partner(t, g[n - 1], s[n]))
      /\ Pairing(t, id, s) = g[L]
  BY <1>20 DEF PairTurns
<1> DEFINE T == {n \in 0..L : n = 0 \/ IsPairing(t, id, s, g[n], n)}
<1>3. 0 \in T
  BY <1>1
<1>4. ASSUME NEW m \in 1..L, m - 1 \in T PROVE m \in T
  <2>1. CASE m = 1
    <3>1. g[1] \in Seq(D \union {None}) /\ Len(g[1]) = 1 /\ g[1][1] = id
      BY <1>2
    <3>2. 2..1 = {} /\ 1..1 = {1}
      OBVIOUS
    <3>3. IsPairing(t, id, s, g[1], 1)
      BY <3>1, <3>2 DEF IsPairing
    <3>4. QED BY <1>1, <2>1, <3>3
  <2>2. CASE m # 1
    <3> DEFINE a == g[m - 1]
               q == Partner(t, a, s[m])
               b == Append(a, q)
    <3>1. m \in 2..L /\ m - 1 # 0 /\ m - 1 \in Nat
      BY <2>2
    <3>2. IsPairing(t, id, s, a, m - 1) /\ g[m] = b
      BY <1>2, <1>4, <3>1
    <3>3. /\ a \in Seq(D \union {None}) /\ Len(a) = m - 1 /\ a[1] = id
          /\ \A k \in 2..(m - 1) : a[k] # None =>
               /\ a[s[k].up] \in DOMAIN t.inst
               /\ a[k] \in Range(t.inst[a[s[k].up]].kids)
               /\ t.inst[a[k]].name = s[k].name /\ t.inst[a[k]].class = s[k].class
          /\ \A j, k \in 1..(m - 1) : a[j] = a[k] /\ a[k] # None => j = k
      BY <3>2 DEF IsPairing
    <3> HIDE DEF a
    <3>4. s[m].up \in 1..(m - 1)
      BY <1>1, <3>1
    <3>5. q # None => /\ a[s[m].up] \in D
                      /\ q \in Range(t.inst[a[s[m].up]].kids) /\ q \notin Range(a)
                      /\ t.inst[q].name = s[m].name /\ t.inst[q].class = s[m].class
      BY <3>3, <3>4, PartnerIs
    <3>6. q \in D \union {None}
      BY <3>5, ParentIs
    <3> HIDE DEF q
    <3>7. /\ b \in Seq(D \union {None}) /\ Len(b) = m /\ b[m] = q
          /\ \A i \in 1..(m - 1) : b[i] = a[i]
      <4>1. (m - 1) + 1 = m
        BY <3>1
      <4>2. QED BY <3>3, <3>6, <4>1, AppendProperties
    <3> HIDE DEF b
    <3>8. b[1] = id
      <4>1. 1 \in 1..(m - 1)
        BY <3>1
      <4>2. QED BY <3>3, <3>7, <4>1
    <3>9. \A k \in 2..m : k = m \/ k \in 2..(m - 1)
      BY <3>1
    <3>10. \A k \in 1..m : k = m \/ k \in 1..(m - 1)
      BY <3>1
    <3>11. \A k \in 2..(m - 1) : k \in 1..(m - 1) /\ s[k].up \in 1..(m - 1)
      <4>1. ASSUME NEW k \in 2..(m - 1) PROVE k \in 1..(m - 1) /\ s[k].up \in 1..(m - 1)
        <5>1. k \in 2..L
          BY <3>1
        <5>2. s[k].up \in 1..(k - 1)
          BY <1>1, <5>1
        <5>3. QED BY <3>1, <5>2
      <4>2. QED BY <4>1
    <3>12. ASSUME NEW k \in 2..m, b[k] # None
           PROVE  /\ b[s[k].up] \in DOMAIN t.inst
                  /\ b[k] \in Range(t.inst[b[s[k].up]].kids)
                  /\ t.inst[b[k]].name = s[k].name /\ t.inst[b[k]].class = s[k].class
      <4>1. CASE k = m
        BY <3>4, <3>5, <3>7, <3>12, <4>1
      <4>2. CASE k # m
        BY <3>3, <3>7, <3>9, <3>11, <3>12, <4>2
      <4>3. QED BY <4>1, <4>2
    <3>13. ASSUME NEW j \in 1..m, NEW k \in 1..m, b[j] = b[k], b[k] # None PROVE j = k
      <4>1. \A i \in 1..(m - 1) : a[i] \in Range(a)
        BY <3>3, RangeIs
      <4>2. QED BY <3>3, <3>5, <3>7, <3>10, <3>13, <4>1
    <3>14. IsPairing(t, id, s, b, m)
      BY <3>7, <3>8, <3>12, <3>13 DEF IsPairing
    <3>15. m \in 0..L
      BY <1>1
    <3>16. QED BY <3>2, <3>14, <3>15 DEF b
  <2>3. QED BY <2>1, <2>2
<1>5. L \in T
  <2>1. T \in SUBSET (0..L) /\ L \in 0..L
    BY <1>1
  <2> HIDE DEF T
  <2>2. QED BY <1>1, <1>3, <1>4, <2>1, UpTo
<1>6. L # 0
  BY <1>1
<1>7. QED BY <1>2, <1>5, <1>6

\* b is the part of a snapshot from its n-th instance on that is below it.
IsBranch(s, n, b) ==
  /\ IsList(b) /\ n + Len(b) - 1 <= Len(s)
  /\ \A k \in 1..Len(b) :
       /\ IsSame(b[k], s[n + k - 1])
       /\ k # 1 => s[n + k - 1].up \in n..(n + k - 2) /\ b[k].up = s[n + k - 1].up - n + 1
  /\ n + Len(b) <= Len(s) => s[n + Len(b)].up < n

LEMMA BranchIs ==
  ASSUME NEW s, IsList(s), NEW n \in 1..Len(s)
  PROVE  IsBranch(s, n, Branch(s, n))
<1> DEFINE L == Len(s)
           ends == {m \in (n + 1)..L : s[m].up < n} \union {L + 1}
           end == Min(ends)
           b == Branch(s, n)
<1>1. L \in Nat /\ n \in Nat /\ n <= L /\ n >= 1
  BY RangeIs DEF IsList
<1>2. \A m \in 1..L : s[m] \in Nodes
  BY RangeIs DEF IsList
<1>3. \A m \in 2..L : s[m].up \in 1..(m - 1)
  BY DEF IsList
<1>4. /\ end \in ends /\ \A m \in ends : end <= m
      /\ end \in (n + 1)..(L + 1)
  <2>1. ends \in SUBSET Nat /\ ends # {} /\ ends \subseteq (n + 1)..(L + 1)
    BY <1>1
  <2> HIDE DEF ends
  <2>2. \E m \in ends : \A k \in ends : m <= k
    BY <2>1, LeastNumber
  <2>3. end \in ends /\ \A m \in ends : end <= m
    BY <2>2 DEF Min
  <2>4. QED BY <2>1, <2>3
<1>5. b = [k \in 1..(end - n) |-> [s[n + k - 1] EXCEPT !.up = IF k = 1 THEN 0 ELSE @ - n + 1]]
  BY DEF Branch
<1> HIDE DEF end, b
<1>6. end - n \in Nat /\ end - n > 0
  BY <1>1, <1>4
<1>7. \A m \in (n + 1)..(end - 1) : m \in 2..L /\ s[m].up \in n..(m - 1)
  <2>1. ASSUME NEW m \in (n + 1)..(end - 1) PROVE m \in 2..L /\ s[m].up \in n..(m - 1)
    <3>1. m \in 2..L /\ m \in (n + 1)..L /\ ~(end <= m)
      BY <1>1, <1>4
    <3>2. ~(s[m].up < n)
      BY <1>4, <3>1
    <3>3. s[m].up \in 1..(m - 1)
      BY <1>3, <3>1
    <3>4. QED BY <1>1, <3>1, <3>2, <3>3
  <2>2. QED BY <2>1
<1>8. ASSUME NEW k \in 1..(end - n)
      PROVE  /\ b[k] \in Nodes /\ IsSame(b[k], s[n + k - 1])
             /\ k # 1 => /\ b[k].up \in 1..(k - 1) /\ b[k].up = s[n + k - 1].up - n + 1
                         /\ s[n + k - 1].up \in n..(n + k - 2)
  <2> DEFINE x == s[n + k - 1]
             u == IF k = 1 THEN 0 ELSE x.up - n + 1
  <2>1. n + k - 1 \in 1..L
    BY <1>1, <1>4
  <2>2. x \in Nodes
    BY <1>2, <2>1
  <2>3. b[k] = [x EXCEPT !.up = u]
    BY <1>5, <2>2 DEF Nodes
  <2>4. k # 1 => u \in 1..(k - 1) /\ u = x.up - n + 1 /\ x.up \in n..(n + k - 2)
    <3>1. SUFFICES ASSUME k # 1 PROVE u \in 1..(k - 1) /\ u = x.up - n + 1 /\ x.up \in n..(n + k - 2)
      OBVIOUS
    <3>2. n + k - 1 \in (n + 1)..(end - 1)
      BY <1>1, <1>4, <3>1
    <3>3. x.up \in n..((n + k - 1) - 1)
      BY <1>7, <3>2
    <3> HIDE DEF x
    <3>4. x.up - n + 1 \in 1..(k - 1) /\ x.up \in n..(n + k - 2)
      BY <1>1, <3>3
    <3>5. QED BY <3>1, <3>4
  <2>5. u \in Nat
    <3>1. k = 1 => u = 0
      OBVIOUS
    <3> HIDE DEF u
    <3>2. QED BY <2>4, <3>1
  <2> HIDE DEF u
  <2>6. b[k] \in Nodes /\ IsSame(b[k], x) /\ b[k].up = u
    <3> HIDE DEF x
    <3>1. QED BY <2>2, <2>3, <2>5 DEF Nodes, IsSame
  <2>7. QED BY <2>4, <2>6
<1>9. b \in [1..(end - n) -> Nodes]
  BY <1>5, <1>8
<1>10. b \in Seq(Nodes) /\ Len(b) = end - n
  BY <1>6, <1>9, IsASeq, LenProperties
<1>11. \A k \in 2..(end - n) : k \in 1..(end - n) /\ k # 1
  BY <1>6
<1>12. IsList(b)
  BY <1>6, <1>8, <1>10, <1>11 DEF IsList
<1>13. n + (end - n) - 1 <= L /\ n + (end - n) = end
  BY <1>1, <1>4
<1>14. end <= L => s[end].up < n
  BY <1>1, <1>4
<1> HIDE DEF ends
<1>15. IsBranch(s, n, b)
  BY <1>8, <1>10, <1>12, <1>13, <1>14 DEF IsBranch
<1>16. QED BY <1>15 DEF b

\* The partners, and what is above them.
LEMMA PartnersAreBelow ==
  ASSUME NEW t, Consistent(t), NEW id \in DOMAIN t.inst, NEW s, IsList(s),
         NEW pair, IsPairing(t, id, s, pair, Len(s))
  PROVE  \A k \in 1..Len(s) : pair[k] # None =>
           /\ pair[k] \in Descendants(t, id)
           /\ \A a \in Ancestors(t, pair[k]) : a \in Range(pair) \/ a \in Ancestors(t, id)
<1> DEFINE L == Len(s)
           D == DOMAIN t.inst
           Low(x) == /\ x \in Descendants(t, id)
                     /\ \A a \in Ancestors(t, x) : a \in Range(pair) \/ a \in Ancestors(t, id)
           S == {k \in 1..L : pair[k] # None => Low(pair[k])}
<1>1. L \in Nat /\ \A n \in 2..L : s[n].up \in 1..(n - 1)
  BY RangeIs DEF IsList
<1>2. /\ \A k \in 1..L : pair[k] \in D \union {None} /\ pair[k] \in Range(pair)
      /\ pair[1] = id
  BY RangeIs DEF IsPairing
<1>3. 1..L \in SUBSET Nat
  BY <1>1
<1>4. ASSUME NEW k \in 1..L, \A j \in 1..L : j < k => j \in S PROVE k \in S
  <2>1. CASE k = 1
    BY <1>2, <2>1 DEF Descendants
  <2>2. CASE k # 1
    <3> SUFFICES ASSUME pair[k] # None PROVE Low(pair[k])
      OBVIOUS
    <3>1. k \in 2..L
      BY <1>1, <2>2
    <3> DEFINE u == s[k].up
    <3>2. u \in 1..L /\ u < k
      <4>1. u \in 1..(k - 1)
        BY <1>1, <3>1
      <4>2. QED BY <4>1
    <3>3. pair[u] \in D /\ pair[k] \in Range(t.inst[pair[u]].kids)
      BY <3>1 DEF IsPairing
    <3> HIDE DEF u
    <3>4. pair[u] # None
      <4>1. D \in SUBSET Nat
        BY TreeIs
      <4>2. QED BY <3>3, <4>1, NoneAssumption
    <3>5. Low(pair[u])
      BY <1>4, <3>2, <3>4
    <3>6. pair[k] \in D \ {Root} /\ t.inst[pair[k]].parent = pair[u]
      BY <3>3, ParentIs
    <3>7. Ancestors(t, pair[k]) = {pair[u]} \union Ancestors(t, pair[u])
      BY <3>6, AncestorsAre
    <3>8. pair[u] \in Range(pair)
      BY <1>2, <3>2
    <3>9. QED BY <3>5, <3>6, <3>7, <3>8 DEF Descendants
  <2>3. QED BY <2>1, <2>2
<1> HIDE DEF S
<1>5. \A k \in 1..L : k \in S
  BY <1>3, <1>4, FromBelow
<1>6. QED BY <1>5 DEF S

\* What a patch does, given the partners: they stay, their other children are
\* removed, the topmost instances without a partner are added with all that is
\* below them, and the partners that differ are updated.
IsPatchOf(t, s, p, pair, tops) ==
  /\ \A n \in 1..Len(s) : pair[n] # None =>
       /\ Stays(t, p.removed, pair[n])
       /\ \A i \in Range(t.inst[pair[n]].kids) :
            (\E k \in 1..Len(s) : pair[k] = i) \/ (\E k \in 1..Len(p.removed) : p.removed[k] = i)
       /\ IsSame(t.inst[pair[n]], s[n]) \/ \E k \in 1..Len(p.updated) : p.updated[k].id = pair[n]
  /\ \A k \in 1..Len(p.updated) :
       \E n \in 1..Len(s) : pair[n] # None /\ p.updated[k].id = pair[n] /\ p.updated[k].snap = s[n]
  /\ \A j, k \in 1..Len(p.added) : tops[j] = tops[k] => j = k
  /\ \A j \in 1..Len(p.added) :
       /\ tops[j] \in 2..Len(s) /\ pair[tops[j]] = None /\ pair[s[tops[j]].up] # None
       /\ p.added[j].parent = pair[s[tops[j]].up] /\ IsBranch(s, tops[j], p.added[j].snap)
  /\ \A n \in 2..Len(s) : pair[n] = None /\ pair[s[n].up] # None =>
       \E j \in 1..Len(p.added) : tops[j] = n

\* compute_patch_set makes a patch for its instance: it removes the children
\* of partners that have no counterpart in the snapshot, and adds and updates
\* at partners only.
LEMMA ComputePatchIs ==
  ASSUME NEW t, Consistent(t), NEW id \in DOMAIN t.inst, NEW s, IsList(s)
  PROVE  LET p == ComputePatch(t, id, s)
         IN  /\ FitPatch(t, id, p) /\ Root \notin Range(p.removed)
             /\ \E pair, tops : IsPairing(t, id, s, pair, Len(s)) /\ IsPatchOf(t, s, p, pair, tops)
<1> DEFINE L == Len(s)
           D == DOMAIN t.inst
           pair == Pairing(t, id, s)
           paired == Range(pair) \ {None}
           gone == (UNION {Range(t.inst[i].kids) : i \in paired}) \ paired
           top == {n \in 2..L : pair[n] = None /\ pair[s[n].up] # None}
           new == {n \in 1..L : pair[n] # None /\ ~IsSame(t.inst[pair[n]], s[n])}
           tops == InOrder(L, top)
           news == InOrder(L, new)
           removed == SetToSeq(gone)
           added == [k \in DOMAIN tops |-> [parent |-> pair[s[tops[k]].up], snap |-> Branch(s, tops[k])]]
           updated == [k \in DOMAIN news |-> [id |-> pair[news[k]], snap |-> s[news[k]]]]
<1>1. ComputePatch(t, id, s) = [removed |-> removed, added |-> added, updated |-> updated]
  BY DEF ComputePatch
<1>2. /\ L \in Nat /\ \A n \in 1..L : s[n] \in Nodes
      /\ \A n \in 2..L : s[n].up \in 1..(n - 1)
  BY RangeIs DEF IsList
<1>3. D \in SUBSET Nat /\ IsFiniteSet(D) /\ None \notin D
  BY TreeIs, NoneAssumption
<1>4. IsPairing(t, id, s, pair, L)
  BY PairingIs
<1> HIDE DEF pair
<1>5. /\ \A k \in 1..L : pair[k] \in D \union {None}
      /\ \A x : x \in Range(pair) <=> \E k \in 1..L : pair[k] = x
  BY <1>4, RangeIs DEF IsPairing
<1>6. \A x : x \in paired <=> x # None /\ \E k \in 1..L : pair[k] = x
  BY <1>5
<1>7. \A x \in paired : /\ x \in D /\ x \in Descendants(t, id)
                        /\ \A a \in Ancestors(t, x) : a \in paired \/ a \in Ancestors(t, id)
  <2>1. ASSUME NEW x \in paired
        PROVE  /\ x \in D /\ x \in Descendants(t, id)
               /\ \A a \in Ancestors(t, x) : a \in paired \/ a \in Ancestors(t, id)
    <3>1. PICK k \in 1..L : pair[k] = x /\ pair[k] # None
      BY <1>6
    <3>2. /\ x \in D /\ x \in Descendants(t, id)
          /\ \A a \in Ancestors(t, x) : a \in Range(pair) \/ a \in Ancestors(t, id)
      BY <1>4, <1>5, <3>1, PartnersAreBelow
    <3>3. \A a \in Ancestors(t, x) : a # None
      BY <1>3, <3>2, AncestorsAreOlder
    <3>4. QED BY <3>2, <3>3
  <2>2. QED BY <2>1
<1>8. id \in paired
  <2>1. 1 \in 1..L
    BY <1>2 DEF IsList
  <2>2. pair[1] = id
    BY <1>4 DEF IsPairing
  <2>3. QED BY <1>3, <1>6, <2>1, <2>2
<1> HIDE DEF paired
<1>9. \A x \in gone : /\ x \in D \ {Root} /\ x \notin paired
                      /\ t.inst[x].parent \in paired
                      /\ Ancestors(t, x) = {t.inst[x].parent} \union Ancestors(t, t.inst[x].parent)
                      /\ x \in Descendants(t, id)
  <2>1. ASSUME NEW x \in gone
        PROVE  /\ x \in D \ {Root} /\ x \notin paired
               /\ t.inst[x].parent \in paired
               /\ Ancestors(t, x) = {t.inst[x].parent} \union Ancestors(t, t.inst[x].parent)
               /\ x \in Descendants(t, id)
    <3>1. x \notin paired /\ x \in UNION {Range(t.inst[i].kids) : i \in paired}
      BY <2>1
    <3>7. PICK i \in paired : x \in Range(t.inst[i].kids)
      BY <3>1
    <3>2. i \in D /\ i \in Descendants(t, id)
      BY <1>7
    <3>3. x \in D \ {Root} /\ t.inst[x].parent = i
      BY <3>7, <3>2, ParentIs
    <3>4. Ancestors(t, x) = {i} \union Ancestors(t, i)
      BY <3>3, AncestorsAre
    <3>5. x \in Descendants(t, id)
      BY <3>2, <3>3, <3>4 DEF Descendants
    <3>6. QED BY <3>1, <3>3, <3>4, <3>5
  <2>2. QED BY <2>1
<1>10. gone \in SUBSET Nat /\ IsFiniteSet(gone)
  <2>1. gone \in SUBSET D
    BY <1>9
  <2> HIDE DEF gone
  <2>2. QED BY <1>3, <2>1, FS_Subset
<1>11. \A x \in gone, i \in paired : x # i /\ x \notin Ancestors(t, i)
  <2>1. ASSUME NEW x \in gone, NEW i \in paired, x \in Ancestors(t, i) PROVE FALSE
    <3>1. x \in Ancestors(t, id)
      BY <1>7, <1>9, <2>1
    <3>2. x \in D /\ x < id
      BY <3>1, AncestorsAreOlder
    <3>3. id \in Ancestors(t, x)
      BY <1>8, <1>9 DEF Descendants
    <3>4. id < x
      BY <3>2, <3>3, AncestorsAreOlder
    <3>5. QED BY <1>3, <3>2, <3>4
  <2>2. QED BY <1>9, <2>1
<1> HIDE DEF gone
<1>12. \A x, y \in gone : x \notin Ancestors(t, y)
  BY <1>9, <1>11
<1>13. /\ removed \in Seq(Nat) /\ IsInjective(removed)
       /\ Range(removed) = gone
  BY <1>10, ListIs
<1> HIDE DEF removed
<1>14. /\ DOMAIN removed = 1..Len(removed) /\ Len(removed) \in Nat
       /\ \A k \in 1..Len(removed) : removed[k] \in gone
  BY <1>13, RangeIs
<1>15. FitRemovals(t, removed)
  <2>1. removed \in [1..Len(removed) -> D \ {Root}]
    <3>1. removed \in [1..Len(removed) -> Nat]
      BY <1>13, LenProperties
    <3>2. QED BY <1>9, <1>14, <3>1
  <2>2. removed \in Seq(D \ {Root})
    BY <1>14, <2>1, IsASeq
  <2>3. \A j, k \in 1..Len(removed) : j # k => removed[j] # removed[k]
    BY <1>13, <1>14 DEF IsInjective
  <2>4. QED BY <1>12, <1>14, <2>2, <2>3 DEF FitRemovals
<1>16. \A i \in paired : Stays(t, removed, i)
  BY <1>7, <1>11, <1>14 DEF Stays
<1>17. /\ tops \in Seq(Nat) /\ news \in Seq(Nat) /\ IsInjective(tops)
       /\ \A x : x \in Range(tops) <=> x \in top
       /\ \A x : x \in Range(news) <=> x \in new
  <2>1. /\ tops \in Seq(Nat) /\ \A x : x \in Range(tops) <=> x \in top /\ x \in 1..L
        /\ news \in Seq(Nat) /\ \A x : x \in Range(news) <=> x \in new /\ x \in 1..L
        /\ IsInjective(tops)
    <3> HIDE DEF top, new
    <3>1. QED BY <1>2, InOrderIs
  <2>2. (\A x \in top : x \in 1..L) /\ (\A x \in new : x \in 1..L)
    BY <1>2
  <2> HIDE DEF tops, news, top, new
  <2>3. QED BY <2>1, <2>2
<1> HIDE DEF tops, news
<1>18. \A n \in top : /\ n \in 2..L /\ pair[n] = None /\ pair[s[n].up] # None
                      /\ pair[s[n].up] \in paired /\ IsBranch(s, n, Branch(s, n))
  <2>1. ASSUME NEW n \in top PROVE pair[s[n].up] \in paired /\ IsBranch(s, n, Branch(s, n))
    <3>1. n \in 2..L /\ pair[s[n].up] # None
      BY <2>1
    <3>2. s[n].up \in 1..(n - 1) /\ n \in 1..L
      BY <1>2, <3>1
    <3>3. s[n].up \in 1..L
      BY <1>2, <3>1, <3>2
    <3>4. QED BY <1>6, <3>1, <3>2, <3>3, BranchIs
  <2>2. QED BY <2>1
<1>19. \A n \in new : pair[n] \in paired /\ pair[n] # None /\ n \in 1..L /\ IsSnapshot(s[n])
  BY <1>2, <1>6 DEF IsSnapshot, Nodes
<1>20. /\ \A n \in 2..L : pair[n] = None /\ pair[s[n].up] # None => n \in top
       /\ \A n \in 1..L : pair[n] # None => IsSame(t.inst[pair[n]], s[n]) \/ n \in new
  OBVIOUS
<1> HIDE DEF top, new, tops, news
<1>21. /\ DOMAIN tops = 1..Len(tops) /\ Len(tops) \in Nat
       /\ \A n : n \in top <=> \E k \in 1..Len(tops) : tops[k] = n
       /\ DOMAIN news = 1..Len(news) /\ Len(news) \in Nat
       /\ \A n : n \in new <=> \E k \in 1..Len(news) : news[k] = n
  BY <1>17, RangeIs
<1>22. /\ Len(added) = Len(tops)
       /\ \A k \in 1..Len(tops) : added[k] = [parent |-> pair[s[tops[k]].up], snap |-> Branch(s, tops[k])]
  BY <1>21
<1>23. /\ Len(updated) = Len(news) /\ DOMAIN updated = 1..Len(news)
       /\ \A k \in 1..Len(news) : updated[k] = [id |-> pair[news[k]], snap |-> s[news[k]]]
  BY <1>21
<1> HIDE DEF added, updated
<1>24. \A n \in 1..Len(added) : /\ added[n].parent \in paired /\ IsList(added[n].snap)
                                /\ added[n].parent = pair[s[tops[n]].up] /\ tops[n] \in top
                                /\ IsBranch(s, tops[n], added[n].snap)
  <2>1. ASSUME NEW n \in 1..Len(added)
        PROVE  /\ added[n].parent = pair[s[tops[n]].up] /\ added[n].snap = Branch(s, tops[n])
               /\ tops[n] \in top
    <3>1. n \in 1..Len(tops)
      BY <1>22
    <3>2. added[n] = [parent |-> pair[s[tops[n]].up], snap |-> Branch(s, tops[n])]
      BY <1>22, <3>1
    <3>3. tops[n] \in top
      BY <1>21, <3>1
    <3>4. QED BY <3>2, <3>3
  <2>2. ASSUME NEW n \in 1..Len(added)
        PROVE  /\ added[n].parent \in paired /\ IsList(added[n].snap)
               /\ IsBranch(s, tops[n], added[n].snap)
    <3>1. /\ added[n].parent = pair[s[tops[n]].up] /\ added[n].snap = Branch(s, tops[n])
          /\ tops[n] \in top
      BY <2>1, <2>2
    <3>2. pair[s[tops[n]].up] \in paired /\ IsBranch(s, tops[n], Branch(s, tops[n]))
      BY <1>18, <3>1
    <3>3. IsList(Branch(s, tops[n]))
      BY <3>2 DEF IsBranch
    <3>4. QED BY <3>1, <3>2, <3>3
  <2>3. QED BY <2>1, <2>2
<1>25. \A n \in 1..Len(updated) : /\ updated[n].id \in paired /\ IsSnapshot(updated[n].snap)
                                  /\ updated[n].id = pair[news[n]] /\ updated[n].snap = s[news[n]]
                                  /\ news[n] \in new
  BY <1>19, <1>21, <1>23
<1> DEFINE p == [removed |-> removed, added |-> added, updated |-> updated]
<1>26. FitPatch(t, id, p)
  BY <1>9, <1>14, <1>15, <1>16, <1>21, <1>22, <1>23, <1>24, <1>25 DEF FitPatch
<1>27. Root \notin Range(p.removed)
  BY <1>9, <1>13
<1>28. p.removed = removed /\ p.added = added /\ p.updated = updated
  OBVIOUS
<1> HIDE DEF p
<1>29. IsPatchOf(t, s, p, pair, tops)
  <2>1. ASSUME NEW n \in 1..L, pair[n] # None
        PROVE  /\ Stays(t, p.removed, pair[n])
               /\ \A i \in Range(t.inst[pair[n]].kids) :
                    (\E k \in 1..L : pair[k] = i) \/ (\E k \in 1..Len(p.removed) : p.removed[k] = i)
               /\ IsSame(t.inst[pair[n]], s[n]) \/ \E k \in 1..Len(p.updated) : p.updated[k].id = pair[n]
    <3>1. pair[n] \in paired
      BY <1>6, <2>1
    <3>2. ASSUME NEW i \in Range(t.inst[pair[n]].kids)
          PROVE  (\E k \in 1..L : pair[k] = i) \/ (\E k \in 1..Len(p.removed) : p.removed[k] = i)
      <4>1. i \in paired \/ i \in gone
        BY <3>1 DEF gone
      <4>2. i \in gone => \E k \in 1..Len(removed) : removed[k] = i
        BY <1>13, RangeIs
      <4>3. QED BY <1>6, <1>28, <4>1, <4>2
    <3>3. ASSUME n \in new PROVE \E k \in 1..Len(p.updated) : p.updated[k].id = pair[n]
      <4>1. PICK k \in 1..Len(news) : news[k] = n
        BY <1>21, <3>3
      <4>2. QED BY <1>23, <1>25, <1>28, <4>1
    <3>4. QED BY <1>16, <1>20, <1>28, <2>1, <3>1, <3>2, <3>3
  <2>2. ASSUME NEW k \in 1..Len(p.updated)
        PROVE  \E n \in 1..L : pair[n] # None /\ p.updated[k].id = pair[n] /\ p.updated[k].snap = s[n]
    BY <1>19, <1>25, <1>28
  <2>3. \A j, k \in 1..Len(p.added) : tops[j] = tops[k] => j = k
    BY <1>17, <1>21, <1>22, <1>28 DEF IsInjective
  <2>4. ASSUME NEW j \in 1..Len(p.added)
        PROVE  /\ tops[j] \in 2..L /\ pair[tops[j]] = None /\ pair[s[tops[j]].up] # None
               /\ p.added[j].parent = pair[s[tops[j]].up] /\ IsBranch(s, tops[j], p.added[j].snap)
    BY <1>18, <1>24, <1>28
  <2>5. ASSUME NEW n \in 2..L, pair[n] = None, pair[s[n].up] # None
        PROVE  \E j \in 1..Len(p.added) : tops[j] = n
    BY <1>20, <1>21, <1>22, <1>28, <2>5
  <2>6. QED BY <2>1, <2>2, <2>3, <2>4, <2>5 DEF IsPatchOf
<1>30. ComputePatch(t, id, s) = p
  BY <1>1 DEF p
<1>31. QED BY <1>4, <1>26, <1>27, <1>29, <1>30

THEOREM ComputePatchFits ==
  ASSUME NEW t, Consistent(t), NEW id \in DOMAIN t.inst, NEW s, IsList(s)
  PROVE  FitPatch(t, id, ComputePatch(t, id, s)) /\ Root \notin Range(ComputePatch(t, id, s).removed)
BY ComputePatchIs

\* The removal of an instance whose source is gone.
LEMMA RemovePatchFits ==
  ASSUME NEW t, Consistent(t), NEW id \in DOMAIN t.inst \ {Root}
  PROVE  FitPatch(t, id, RemovePatch(id))
<1> DEFINE p == RemovePatch(id)
<1>1. p.removed = <<id>> /\ p.added = <<>> /\ p.updated = <<>>
  BY DEF RemovePatch
<1> HIDE DEF p
<1>2. /\ <<id>> \in Seq(DOMAIN t.inst \ {Root}) /\ Len(<<id>>) = 1 /\ <<id>>[1] = id
      /\ Len(<<>>) = 0 /\ DOMAIN <<>> = {} /\ 1..1 = {1} /\ 1..0 = {}
  OBVIOUS
<1>3. FitRemovals(t, p.removed)
  BY <1>1, <1>2 DEF FitRemovals
<1>4. QED BY <1>1, <1>2, <1>3 DEF FitPatch, Descendants, p

\* An empty patch.
LEMMA NoPatchFits ==
  ASSUME NEW t, Consistent(t), NEW id
  PROVE  FitPatch(t, id, NoPatch)
<1>1. NoPatch.removed = <<>> /\ NoPatch.added = <<>> /\ NoPatch.updated = <<>>
  BY DEF NoPatch
<1>2. <<>> \in Seq(DOMAIN t.inst \ {Root}) /\ Len(<<>>) = 0 /\ DOMAIN <<>> = {} /\ 1..0 = {}
  OBVIOUS
<1>3. FitRemovals(t, NoPatch.removed)
  BY <1>1, <1>2 DEF FitRemovals
<1>4. QED BY <1>1, <1>2, <1>3 DEF FitPatch

LEMMA NoPatchIsNothing ==
  ASSUME NEW t
  PROVE  ApplyPatch(t, NoPatch) = t
<1>1. Len(<<>>) = 0 /\ 0 \in Nat
  OBVIOUS
<1>2. ApplyRemovals(t, <<>>) = t
  BY <1>1, RemovalsTurns DEF Turns
<1>3. ApplyAdditions(t, <<>>) = t
  BY <1>1, AdditionsTurns DEF Turns
<1>4. ApplyUpdates(t, <<>>) = t
  BY <1>1, UpdatesTurns DEF Turns
<1>5. QED BY <1>2, <1>3, <1>4 DEF ApplyPatch, NoPatch

-----------------------------------------------------------------------------
(* What the patch of a snapshot makes of the tree.                         *)

\* The additions of a patch are in the tree that it makes.
LEMMA PatchAddsBlocks ==
  ASSUME NEW t, Consistent(t), NEW id, NEW p, FitPatch(t, id, p)
  PROVE  \E base : Blocks(t, ApplyPatch(t, p), p.added, base, Len(p.added))
<1> DEFINE a == ApplyRemovals(t, p.removed)
           b == ApplyAdditions(a, p.added)
           r == ApplyUpdates(b, p.updated)
           W(j) == Len(p.added[j].snap)
<1>1. Pruned(t, a, p.removed, Len(p.removed))
  BY RemovalsKeepIndex DEF FitPatch
<1> HIDE DEF a
<1>2. /\ Consistent(a) /\ a.next = t.next
      /\ \A i : i \in DOMAIN a.inst <=> Stays(t, p.removed, i)
  BY <1>1 DEF Pruned, Stays
<1>3. FitAdditions(a, p.added)
  BY <1>2 DEF FitPatch, FitAdditions
<1>4. Grown(a, b) /\ \E x : Blocks(a, b, p.added, x, Len(p.added))
  BY <1>2, <1>3, AdditionsKeepIndex
<1> HIDE DEF b
<1>5. PICK base : Blocks(a, b, p.added, base, Len(p.added))
  BY <1>4
<1>6. /\ Consistent(b) /\ b.next >= t.next
      /\ \A i : i \in DOMAIN b.inst <=> i \in DOMAIN a.inst \/ i \in t.next..(b.next - 1)
  BY <1>2, <1>4 DEF Grown
<1>7. FitUpdates(b, p.updated)
  BY <1>2, <1>6 DEF FitPatch, FitUpdates
<1>8. Renewed(b, r, p.updated, Len(p.updated))
  BY <1>6, <1>7, UpdatesKeepIndex
<1> HIDE DEF r
<1>9. /\ r.next = b.next
      /\ \A i \in DOMAIN b.inst : UpToDate(b.inst[i], r.inst[i], i, p.updated, Len(p.updated))
  BY <1>8 DEF Renewed
<1>10. t.next \in Nat /\ b.next \in Nat /\ \A i \in DOMAIN t.inst : i \in Nat /\ i < t.next
  BY <1>6, TreeIs DEF Consistent
<1>11. ASSUME NEW i \in t.next..(b.next - 1) PROVE Alike(b.inst[i], r.inst[i])
  <2>1. \A k \in 1..Len(p.updated) : p.updated[k].id \in DOMAIN t.inst
    BY DEF FitPatch, Stays
  <2>2. i \notin DOMAIN t.inst /\ i \in DOMAIN b.inst
    BY <1>6, <1>10
  <2>3. \A k \in 1..Len(p.updated) : p.updated[k].id # i
    BY <2>1, <2>2
  <2>4. QED BY <1>9, <2>2, <2>3 DEF UpToDate
<1>12. ASSUME NEW j \in 1..Len(p.added)
       PROVE  Copied(r, base[j], p.added[j].snap, p.added[j].parent, W(j))
  <2>1. /\ base[j] \in Nat /\ base[j] >= t.next /\ base[j] + W(j) <= b.next
        /\ Copied(b, base[j], p.added[j].snap, p.added[j].parent, W(j))
    BY <1>2, <1>5 DEF Blocks
  <2>2. W(j) \in Nat
    BY RangeIs DEF FitPatch, IsList
  <2> HIDE DEF W
  <2>3. ASSUME NEW x \in 1..W(j)
        PROVE  /\ IsSame(r.inst[base[j] + x - 1], p.added[j].snap[x])
               /\ r.inst[base[j] + x - 1].parent =
                    IF x = 1 THEN p.added[j].parent ELSE base[j] + p.added[j].snap[x].up - 1
    <3> DEFINE i == base[j] + x - 1
    <3>1. i \in t.next..(b.next - 1)
      BY <1>10, <2>1, <2>2
    <3>2. /\ IsSame(b.inst[i], p.added[j].snap[x])
          /\ b.inst[i].parent = IF x = 1 THEN p.added[j].parent ELSE base[j] + p.added[j].snap[x].up - 1
      BY <2>1 DEF Copied
    <3> HIDE DEF i
    <3>3. IsSame(r.inst[i], p.added[j].snap[x]) /\ r.inst[i].parent = b.inst[i].parent
      BY <1>11, <3>1, <3>2 DEF Alike, IsSame
    <3>4. QED BY <3>2, <3>3 DEF i
  <2>4. QED BY <2>3 DEF Copied
<1>13. Blocks(t, r, p.added, base, Len(p.added))
  BY <1>2, <1>5, <1>9, <1>12 DEF Blocks
<1>14. QED BY <1>13 DEF ApplyPatch, r, b, a

\* The n-th instance of a snapshot is in the j-th addition.
IsIn(p, tops, j, n) == n \in tops[j]..(tops[j] + Len(p.added[j].snap) - 1)

\* The instances without a partner are in an addition each, and in one only.
LEMMA AdditionsCover ==
  ASSUME NEW t, Consistent(t), NEW id \in DOMAIN t.inst, NEW s, IsList(s), IsPreorder(s),
         NEW p, NEW pair, NEW tops, IsPairing(t, id, s, pair, Len(s)), IsPatchOf(t, s, p, pair, tops)
  PROVE  /\ \A j \in 1..Len(p.added) : \A n : IsIn(p, tops, j, n) => n \in 2..Len(s) /\ pair[n] = None
         /\ \A j, k \in 1..Len(p.added) : \A n : IsIn(p, tops, j, n) /\ IsIn(p, tops, k, n) => j = k
         /\ \A n \in 1..Len(s) : pair[n] = None => \E j \in 1..Len(p.added) : IsIn(p, tops, j, n)
<1> DEFINE L == Len(s)
           J == Len(p.added)
           W(j) == Len(p.added[j].snap)
<1>1. L \in Nat /\ \A n \in 2..L : s[n].up \in 1..(n - 1)
  BY RangeIs DEF IsList
<1>2. ASSUME NEW k \in 2..L, pair[s[k].up] = None PROVE pair[k] = None
  <2>1. None \notin DOMAIN t.inst
    BY TreeIs, NoneAssumption
  <2>2. QED BY <1>2, <2>1 DEF IsPairing
<1>3. pair[1] # None
  <2>1. None \notin DOMAIN t.inst
    BY TreeIs, NoneAssumption
  <2>2. QED BY <2>1 DEF IsPairing
<1>4. ASSUME NEW j \in 1..J
      PROVE  /\ tops[j] \in 2..L /\ W(j) \in Nat /\ W(j) > 0 /\ tops[j] + W(j) - 1 <= L
             /\ pair[tops[j]] = None /\ pair[s[tops[j]].up] # None
             /\ \A n \in (tops[j] + 1)..(tops[j] + W(j) - 1) : s[n].up \in tops[j]..(n - 1)
             /\ tops[j] + W(j) <= L => s[tops[j] + W(j)].up < tops[j]
  <2> DEFINE b == p.added[j].snap
             m == tops[j]
  <2>1. m \in 2..L /\ pair[m] = None /\ pair[s[m].up] # None /\ IsBranch(s, m, b)
    BY DEF IsPatchOf
  <2>2. Len(b) \in Nat /\ Len(b) > 0
    BY <2>1, RangeIs DEF IsBranch, IsList
  <2> HIDE DEF b, m
  <2>3. m + Len(b) - 1 <= L /\ (m + Len(b) <= L => s[m + Len(b)].up < m)
    BY <2>1 DEF IsBranch
  <2>4. ASSUME NEW n \in (m + 1)..(m + Len(b) - 1) PROVE s[n].up \in m..(n - 1)
    <3> DEFINE k == n - m + 1
    <3>1. k \in 1..Len(b) /\ k # 1 /\ m + k - 1 = n /\ m + k - 2 = n - 1
      BY <2>1, <2>2
    <3> HIDE DEF k
    <3>2. s[m + k - 1].up \in m..(m + k - 2)
      BY <2>1, <3>1 DEF IsBranch
    <3>3. QED BY <3>1, <3>2
  <2>5. QED BY <2>1, <2>2, <2>3, <2>4 DEF b, m
<1> HIDE DEF W
<1>5. \A j \in 1..J : \A n : IsIn(p, tops, j, n) <=> n \in tops[j]..(tops[j] + W(j) - 1)
  BY DEF IsIn, W
<1>6. ASSUME NEW j \in 1..J, NEW n, IsIn(p, tops, j, n) PROVE n \in 2..L /\ pair[n] = None
  <2> DEFINE B == tops[j]..(tops[j] + W(j) - 1)
             S == {k \in B : pair[k] = None}
  <2>1. /\ tops[j] \in 2..L /\ W(j) \in Nat /\ tops[j] + W(j) - 1 <= L /\ pair[tops[j]] = None
        /\ \A k \in (tops[j] + 1)..(tops[j] + W(j) - 1) : s[k].up \in tops[j]..(k - 1)
    BY <1>4
  <2>2. B \in SUBSET Nat /\ \A k \in B : k \in 2..L
    BY <1>1, <2>1
  <2>3. ASSUME NEW k \in B, \A i \in B : i < k => i \in S PROVE k \in S
    <3>1. CASE k = tops[j]
      BY <2>1, <3>1
    <3>2. CASE k # tops[j]
      <4>1. s[k].up \in tops[j]..(k - 1)
        BY <2>1, <3>2
      <4>2. s[k].up \in B /\ s[k].up < k
        BY <2>1, <4>1
      <4>3. QED BY <1>2, <2>2, <2>3, <4>2
    <3>3. QED BY <3>1, <3>2
  <2>4. n \in B
    BY <1>5, <1>6
  <2> HIDE DEF S, B
  <2>5. \A k \in B : k \in S
    BY <2>2, <2>3, FromBelow
  <2>6. QED BY <2>2, <2>4, <2>5 DEF S
<1>7. ASSUME NEW j \in 1..J, NEW k \in 1..J, tops[j] < tops[k], tops[k] < tops[j] + W(j) PROVE FALSE
  <2>1. /\ tops[j] \in 2..L /\ W(j) \in Nat /\ tops[k] \in 2..L /\ pair[s[tops[k]].up] # None
        /\ \A n \in (tops[j] + 1)..(tops[j] + W(j) - 1) : s[n].up \in tops[j]..(n - 1)
    BY <1>4
  <2> DEFINE x == tops[j]
             y == tops[k]
             w == W(j)
             u == s[tops[k]].up
  <2> HIDE DEF W
  <2>2. tops[k] \in (tops[j] + 1)..(tops[j] + W(j) - 1)
    <3>1. x \in 2..L /\ y \in 2..L /\ w \in Nat /\ x < y /\ y < x + w
      BY <1>7, <2>1
    <3> HIDE DEF x, y, w
    <3>2. y \in (x + 1)..(x + w - 1)
      BY <3>1
    <3>3. QED BY <3>2 DEF x, y, w
  <2>3. s[tops[k]].up \in tops[j]..(tops[k] - 1)
    BY <2>1, <2>2
  <2>4. s[tops[k]].up \in tops[j]..(tops[j] + W(j) - 1)
    <3>1. x \in 2..L /\ w \in Nat /\ y \in (x + 1)..(x + w - 1) /\ u \in x..(y - 1)
      BY <2>1, <2>2, <2>3
    <3> HIDE DEF x, y, w, u
    <3>2. u \in x..(x + w - 1)
      BY <3>1
    <3>3. QED BY <3>2 DEF x, w, u
  <2> HIDE DEF x, y, w, u
  <2>5. QED BY <1>5, <1>6, <2>1, <2>4
<1>8. ASSUME NEW j \in 1..J, NEW k \in 1..J, NEW n, IsIn(p, tops, j, n), IsIn(p, tops, k, n) PROVE j = k
  <2>1. /\ n \in tops[j]..(tops[j] + W(j) - 1) /\ n \in tops[k]..(tops[k] + W(k) - 1)
        /\ tops[j] \in 2..L /\ tops[k] \in 2..L /\ W(j) \in Nat /\ W(k) \in Nat
    BY <1>4, <1>5, <1>8
  <2> DEFINE x == tops[j]
             y == tops[k]
             w == W(j)
             v == W(k)
  <2> HIDE DEF W
  <2>2. ~(x < y /\ y < x + w) /\ ~(y < x /\ x < y + v)
    BY <1>7
  <2>3. x \in 2..L /\ y \in 2..L /\ w \in Nat /\ v \in Nat
        /\ n \in x..(x + w - 1) /\ n \in y..(y + v - 1)
    BY <2>1
  <2> HIDE DEF x, y, w, v
  <2>4. x = y
    BY <1>1, <2>2, <2>3
  <2>5. tops[j] = tops[k]
    BY <2>4 DEF x, y
  <2>6. QED BY <2>5 DEF IsPatchOf
<1>9. ASSUME NEW n \in 1..L, pair[n] = None PROVE \E j \in 1..J : IsIn(p, tops, j, n)
  <2> DEFINE S == {k \in 1..L : pair[k] = None => \E j \in 1..J : IsIn(p, tops, j, k)}
  <2>1. 1..L \in SUBSET Nat
    BY <1>1
  <2>2. ASSUME NEW k \in 1..L, \A i \in 1..L : i < k => i \in S PROVE k \in S
    <3> SUFFICES ASSUME pair[k] = None PROVE \E j \in 1..J : IsIn(p, tops, j, k)
      OBVIOUS
    <3>1. k \in 2..L
      BY <1>1, <1>3
    <3> DEFINE u == s[k].up
    <3>2. u \in 1..L /\ u < k
      <4>1. u \in 1..(k - 1)
        BY <1>1, <3>1
      <4>2. QED BY <4>1
    <3> HIDE DEF u
    <3>3. CASE pair[u] # None
      <4>1. PICK j \in 1..J : tops[j] = k
        BY <3>1, <3>3 DEF IsPatchOf, u
      <4>2. W(j) \in Nat /\ W(j) > 0
        BY <1>4
      <4>3. k \in tops[j]..(tops[j] + W(j) - 1)
        BY <4>1, <4>2
      <4>4. QED BY <1>5, <4>3
    <3>4. CASE pair[u] = None
      <4>1. PICK j \in 1..J : IsIn(p, tops, j, u)
        BY <2>2, <3>2, <3>4
      <4> DEFINE e == tops[j] + W(j)
      <4>2. /\ tops[j] \in Nat /\ W(j) \in Nat /\ u \in tops[j]..(e - 1)
            /\ e <= L => s[e].up < tops[j]
        BY <1>1, <1>4, <1>5, <4>1
      <4>3. e \in Nat /\ u < e /\ e = tops[j] + W(j)
        BY <4>2
      <4> HIDE DEF e
      <4>4. ASSUME e <= k PROVE FALSE
        <5>1. e <= L /\ s[e].up < tops[j]
          BY <1>1, <4>2, <4>3, <4>4
        <5>2. CASE e = k
          BY <3>2, <4>2, <5>1, <5>2 DEF u
        <5>3. CASE e # k
          <6>1. e \in (u + 1)..(k - 1)
            BY <3>2, <4>3, <4>4, <5>3
          <6>2. s[e].up >= u
            BY <3>1, <6>1 DEF IsPreorder, u
          <6>3. e \in 2..L
            BY <3>2, <4>3, <5>1
          <6>4. s[e].up \in Nat
            BY <1>1, <6>3
          <6>5. QED BY <3>2, <4>2, <5>1, <6>2, <6>4
        <5>4. QED BY <5>2, <5>3
      <4>5. k \in tops[j]..(e - 1)
        BY <3>2, <4>2, <4>3, <4>4
      <4>6. k \in tops[j]..(tops[j] + W(j) - 1)
        BY <4>2, <4>3, <4>5
      <4>7. IsIn(p, tops, j, k)
        BY <1>5, <4>6
      <4>8. QED BY <4>7
    <3>5. QED BY <3>3, <3>4
  <2> HIDE DEF S
  <2>3. \A k \in 1..L : k \in S
    BY <2>1, <2>2, FromBelow
  <2>4. QED BY <1>9, <2>3 DEF S
<1>10. QED BY <1>6, <1>8, <1>9

\* f shows a snapshot in a tree: each of its instances is there as it is in the
\* snapshot and under its parent, and nothing else is there.
Mirrors(r, id, s, f) ==
  /\ f \in [1..Len(s) -> Descendants(r, id)] /\ f[1] = id
  /\ \A n \in 1..Len(s) : IsSame(r.inst[f[n]], s[n])
  /\ \A n \in 2..Len(s) : r.inst[f[n]].parent = f[s[n].up]
  /\ \A m, n \in 1..Len(s) : f[m] = f[n] => m = n
  /\ \A i \in Descendants(r, id) : \E n \in 1..Len(s) : f[n] = i

\* compute_patch_set and apply_patch_set together: what is at and below the
\* instance is then the snapshot, and what is not is as it was.
THEOREM PatchMakesSnapshot ==
  ASSUME NEW t, Consistent(t), NEW id \in DOMAIN t.inst, NEW s, IsList(s), IsPreorder(s)
  PROVE  LET r == ApplyPatch(t, ComputePatch(t, id, s))
         IN  /\ \E f : Mirrors(r, id, s, f)
             /\ \A i \in DOMAIN t.inst \ Descendants(t, id) : i \in DOMAIN r.inst /\ Alike(t.inst[i], r.inst[i])
<1> DEFINE L == Len(s)
           D == DOMAIN t.inst
           p == ComputePatch(t, id, s)
           r == ApplyPatch(t, p)
           J == Len(p.added)
           W(j) == Len(p.added[j].snap)
           Low(n) == s[n].up
<1>1. FitPatch(t, id, p) /\ \E x, y : IsPairing(t, id, s, x, L) /\ IsPatchOf(t, s, p, x, y)
  BY ComputePatchIs
<1>2. PICK pair, tops : IsPairing(t, id, s, pair, L) /\ IsPatchOf(t, s, p, pair, tops)
  BY <1>1
<1> HIDE DEF p
<1>3. Patched(t, r, p) /\ \E x : Blocks(t, r, p.added, x, J)
  BY <1>1, ApplyPatchKeepsIndex, PatchAddsBlocks
<1>4. PICK base : Blocks(t, r, p.added, base, J)
  BY <1>3
<1> HIDE DEF r
<1>5. /\ L \in Nat /\ L > 0 /\ 1 \in 1..L
      /\ \A n \in 2..L : Low(n) \in 1..(n - 1) /\ Low(n) \in 1..L /\ Low(n) < n /\ n \in 1..L
  <2>1. L \in Nat /\ L > 0 /\ \A n \in 2..L : Low(n) \in 1..(n - 1)
    BY RangeIs DEF IsList
  <2> HIDE DEF Low
  <2>2. QED BY <2>1
<1>6. /\ D \in SUBSET Nat /\ None \notin D /\ t.next \in Nat /\ r.next \in Nat
      /\ Consistent(r) /\ DOMAIN r.inst \in SUBSET Nat
      /\ \A i \in D : i < t.next
  <2>1. Consistent(r)
    BY <1>3 DEF Patched
  <2>2. QED BY <2>1, TreeIs, NoneAssumption DEF Consistent
<1>7. \A i : i \in DOMAIN r.inst <=> Stays(t, p.removed, i) \/ i \in t.next..(r.next - 1)
  BY <1>3 DEF Patched
<1>8. /\ \A j \in 1..J : \A n : IsIn(p, tops, j, n) => n \in 2..L /\ pair[n] = None
      /\ \A j, k \in 1..J : \A n : IsIn(p, tops, j, n) /\ IsIn(p, tops, k, n) => j = k
      /\ \A n \in 1..L : pair[n] = None => \E j \in 1..J : IsIn(p, tops, j, n)
  BY <1>2, AdditionsCover
<1>9. \A n \in 1..L : pair[n] # None => pair[n] \in D /\ Stays(t, p.removed, pair[n])
  BY <1>2, RangeIs DEF IsPairing, IsPatchOf
<1>10. pair[1] = id /\ pair[1] # None
  BY <1>2, <1>6 DEF IsPairing
<1> DEFINE block(n) == CHOOSE j \in 1..J : IsIn(p, tops, j, n)
           made(n) == base[block(n)] + (n - tops[block(n)])
           f == [n \in 1..L |-> IF pair[n] # None THEN pair[n] ELSE made(n)]
<1>11. /\ \A n \in 1..L : pair[n] # None => f[n] = pair[n]
       /\ \A n \in 1..L : \A j \in 1..J : IsIn(p, tops, j, n) => f[n] = base[j] + (n - tops[j])
  <2>1. ASSUME NEW n \in 1..L, NEW j \in 1..J, IsIn(p, tops, j, n) PROVE f[n] = base[j] + (n - tops[j])
    <3>1. block(n) = j /\ pair[n] = None
      BY <1>8, <2>1
    <3> HIDE DEF block
    <3>2. QED BY <3>1
  <2>2. QED BY <2>1
<1>12. DOMAIN f = 1..L /\ f = [n \in 1..L |-> f[n]]
  OBVIOUS
<1> HIDE DEF f, block
<1>13. ASSUME NEW j \in 1..J, NEW n, IsIn(p, tops, j, n)
       PROVE  /\ tops[j] \in Nat /\ base[j] \in Nat /\ W(j) \in Nat /\ n \in Nat
              /\ n \in 2..L /\ pair[n] = None
              /\ f[n] = base[j] + (n - tops[j])
              /\ f[n] \in base[j]..(base[j] + W(j) - 1) /\ f[n] \in t.next..(r.next - 1)
              /\ n \in tops[j]..(tops[j] + W(j) - 1)
  <2>1. tops[j] \in 2..L /\ IsBranch(s, tops[j], p.added[j].snap)
    BY <1>2 DEF IsPatchOf
  <2>2. W(j) \in Nat
    BY <2>1, RangeIs DEF IsBranch, IsList
  <2>3. base[j] \in Nat /\ base[j] >= t.next /\ base[j] + W(j) <= r.next
    BY <1>4 DEF Blocks
  <2>4. n \in tops[j]..(tops[j] + W(j) - 1)
    BY <1>13 DEF IsIn
  <2> HIDE DEF W
  <2>5. n \in 2..L /\ n \in 1..L /\ pair[n] = None
    BY <1>5, <1>8, <1>13
  <2>6. f[n] = base[j] + (n - tops[j])
    BY <1>11, <1>13, <2>5
  <2>7. tops[j] \in Nat /\ n \in Nat
    BY <1>5, <2>1, <2>5
  <2>8. base[j] + (n - tops[j]) \in base[j]..(base[j] + W(j) - 1)
    BY <2>2, <2>3, <2>4, <2>7
  <2>9. f[n] \in t.next..(r.next - 1)
    BY <1>6, <2>2, <2>3, <2>6, <2>8
  <2>10. QED BY <2>2, <2>3, <2>4, <2>5, <2>6, <2>7, <2>8, <2>9

<1>14. ASSUME NEW n \in 1..L PROVE f[n] \in DOMAIN r.inst
  <2>1. CASE pair[n] # None
    BY <1>7, <1>9, <1>11, <2>1
  <2>2. CASE pair[n] = None
    BY <1>7, <1>8, <1>13, <2>2
  <2>3. QED BY <2>1, <2>2
<1>15. ASSUME NEW n \in 1..L
       PROVE  IsSame(r.inst[f[n]], s[n]) /\ (n # 1 => f[n] # Root /\ r.inst[f[n]].parent = f[Low(n)])
  <2>1. CASE pair[n] # None
    <3> DEFINE i == pair[n]
    <3>1. f[n] = i /\ i \in D \cap DOMAIN r.inst
      BY <1>9, <1>11, <1>14, <2>1
    <3>2. UpToDate(t.inst[i], r.inst[i], i, p.updated, Len(p.updated))
      BY <1>3, <3>1 DEF Patched
    <3> HIDE DEF i
    <3>3. IsSame(r.inst[i], s[n])
      <4>1. CASE \E k \in 1..Len(p.updated) : p.updated[k].id = i /\ IsSame(r.inst[i], p.updated[k].snap)
        <5>1. PICK k \in 1..Len(p.updated) : p.updated[k].id = i /\ IsSame(r.inst[i], p.updated[k].snap)
          BY <4>1
        <5>2. PICK m \in 1..L : pair[m] # None /\ p.updated[k].id = pair[m] /\ p.updated[k].snap = s[m]
          BY <1>2 DEF IsPatchOf
        <5>3. m = n
          BY <1>2, <2>1, <5>1, <5>2 DEF IsPairing, i
        <5>4. QED BY <5>1, <5>2, <5>3
      <4>2. CASE Alike(t.inst[i], r.inst[i]) /\ \A k \in 1..Len(p.updated) : p.updated[k].id # i
        <5>1. IsSame(t.inst[i], s[n])
          BY <1>2, <2>1, <4>2 DEF IsPatchOf, i
        <5>2. QED BY <4>2, <5>1 DEF Alike, IsSame
      <4>3. QED BY <3>2, <4>1, <4>2 DEF UpToDate
    <3>4. ASSUME n # 1 PROVE i # Root /\ r.inst[i].parent = f[Low(n)]
      <4>1. n \in 2..L
        BY <1>5, <3>4
      <4>2. pair[Low(n)] \in D /\ i \in Range(t.inst[pair[Low(n)]].kids)
        BY <1>2, <2>1, <4>1 DEF IsPairing, i
      <4>3. i # Root /\ t.inst[i].parent = pair[Low(n)]
        BY <4>2, ParentIs
      <4>4. f[Low(n)] = pair[Low(n)]
        BY <1>5, <1>6, <1>11, <4>1, <4>2
      <4>5. QED BY <3>2, <4>3, <4>4 DEF UpToDate
    <3>5. QED BY <3>1, <3>3, <3>4
  <2>2. CASE pair[n] = None
    <3>1. PICK j \in 1..J : IsIn(p, tops, j, n)
      BY <1>8, <2>2
    <3> DEFINE b == p.added[j].snap
               m == tops[j]
               x == n - m + 1
    <3>2. /\ m \in Nat /\ base[j] \in Nat /\ Len(b) \in Nat /\ n \in 2..L
          /\ n \in m..(m + Len(b) - 1) /\ f[n] = base[j] + (n - m) /\ f[n] \in t.next..(r.next - 1)
      BY <1>13, <3>1
    <3>3. /\ Copied(r, base[j], b, p.added[j].parent, Len(b)) /\ IsBranch(s, m, b)
          /\ p.added[j].parent = pair[s[m].up] /\ pair[s[m].up] # None /\ m \in 2..L
      BY <1>2, <1>4 DEF Blocks, IsPatchOf
    <3> HIDE DEF b, m
    <3>4. x \in 1..Len(b) /\ base[j] + x - 1 = f[n] /\ m + x - 1 = n /\ m + x - 2 = n - 1 /\ x \in Nat
      BY <3>2
    <3> HIDE DEF x
    <3>5. /\ IsSame(r.inst[f[n]], b[x]) /\ IsSame(b[x], s[n])
          /\ r.inst[f[n]].parent = IF x = 1 THEN p.added[j].parent ELSE base[j] + b[x].up - 1
          /\ x # 1 => Low(n) \in m..(n - 1) /\ b[x].up = Low(n) - m + 1
      BY <3>3, <3>4 DEF Copied, IsBranch
    <3>6. f[n] # Root
      <4>1. id < t.next /\ id \in Nat
        BY <1>6
      <4>2. QED BY <1>6, <3>2, <4>1 DEF Root
    <3>7. CASE x = 1
      <4>1. n = m
        BY <3>2, <3>4, <3>7
      <4>2. f[Low(n)] = pair[Low(n)]
        BY <1>5, <1>11, <3>2, <3>3, <4>1
      <4>3. QED BY <3>3, <3>5, <3>6, <3>7, <4>1, <4>2 DEF IsSame
    <3>8. CASE x # 1
      <4>1. Low(n) \in m..(n - 1) /\ b[x].up = Low(n) - m + 1
        BY <3>5, <3>8
      <4> HIDE DEF Low
      <4>2. Low(n) \in m..(m + Len(b) - 1)
        BY <3>2, <4>1
      <4>3. IsIn(p, tops, j, Low(n))
        BY <4>2 DEF IsIn, m, b
      <4>4. f[Low(n)] = base[j] + (Low(n) - m)
        BY <1>13, <4>3 DEF m
      <4>5. base[j] + b[x].up - 1 = f[Low(n)]
        BY <3>2, <4>1, <4>4
      <4>6. QED BY <3>5, <3>6, <3>8, <4>5 DEF IsSame
    <3>9. QED BY <3>7, <3>8
  <2>3. QED BY <2>1, <2>2
<1> HIDE DEF Low
<1>16. ASSUME NEW n \in 1..L PROVE f[n] \in Descendants(r, id)
  <2> DEFINE S == {k \in 1..L : f[k] \in Descendants(r, id)}
  <2>1. ASSUME NEW k \in 1..L, \A i \in 1..L : i < k => i \in S PROVE k \in S
    <3>1. f[k] \in DOMAIN r.inst
      BY <1>14
    <3>2. CASE k = 1
      BY <1>10, <1>11, <3>1, <3>2 DEF Descendants
    <3>3. CASE k # 1
      <4>1. Low(k) \in 1..L /\ Low(k) < k
        BY <1>5, <3>3
      <4>2. f[Low(k)] \in Descendants(r, id)
        BY <2>1, <4>1
      <4>3. f[k] # Root /\ r.inst[f[k]].parent = f[Low(k)]
        BY <1>15, <3>3
      <4>4. Ancestors(r, f[k]) = {f[Low(k)]} \union Ancestors(r, f[Low(k)])
        BY <1>6, <3>1, <4>3, AncestorsAre
      <4>5. QED BY <3>1, <4>2, <4>4 DEF Descendants
    <3>4. QED BY <3>2, <3>3
  <2>2. 1..L \in SUBSET Nat
    BY <1>5
  <2> HIDE DEF S
  <2>3. \A k \in 1..L : k \in S
    BY <2>1, <2>2, FromBelow
  <2>4. QED BY <2>3 DEF S
<1>17. ASSUME NEW m \in 1..L, NEW n \in 1..L, f[m] = f[n] PROVE m = n
  <2>1. \A k \in 1..L : pair[k] # None => f[k] < t.next
    BY <1>6, <1>9, <1>11
  <2>2. \A k \in 1..L : pair[k] = None => f[k] \in Nat /\ ~(f[k] < t.next)
    <3>1. ASSUME NEW k \in 1..L, pair[k] = None PROVE f[k] \in Nat /\ ~(f[k] < t.next)
      <4>1. f[k] \in t.next..(r.next - 1)
        BY <1>8, <1>13, <3>1
      <4>2. QED BY <1>6, <4>1
    <3>2. QED BY <3>1
  <2>3. CASE pair[m] # None
    <3>1. pair[n] # None
      BY <1>17, <2>1, <2>2, <2>3
    <3>2. pair[m] = pair[n]
      BY <1>11, <1>17, <2>3, <3>1
    <3>3. QED BY <1>2, <2>3, <3>2 DEF IsPairing
  <2>4. CASE pair[m] = None
    <3>1. pair[n] = None
      BY <1>17, <2>1, <2>2, <2>4
    <3>2. PICK j \in 1..J : IsIn(p, tops, j, m)
      BY <1>8, <2>4
    <3>3. PICK k \in 1..J : IsIn(p, tops, k, n)
      BY <1>8, <3>1
    <3>4. /\ tops[j] \in Nat /\ base[j] \in Nat /\ W(j) \in Nat /\ m \in Nat
          /\ f[m] = base[j] + (m - tops[j]) /\ f[m] \in base[j]..(base[j] + W(j) - 1)
      BY <1>13, <3>2
    <3>5. /\ tops[k] \in Nat /\ base[k] \in Nat /\ W(k) \in Nat /\ n \in Nat
          /\ f[n] = base[k] + (n - tops[k]) /\ f[n] \in base[k]..(base[k] + W(k) - 1)
      BY <1>13, <3>3
    <3>6. (j < k => base[j] + W(j) <= base[k]) /\ (k < j => base[k] + W(k) <= base[j])
      BY <1>4 DEF Blocks
    <3> HIDE DEF W
    <3>7. j = k
      <4> DEFINE x == base[j]
                 y == base[k]
                 w == W(j)
                 v == W(k)
                 c == f[m]
      <4>1. /\ x \in Nat /\ y \in Nat /\ w \in Nat /\ v \in Nat
            /\ c \in x..(x + w - 1) /\ c \in y..(y + v - 1)
        BY <1>17, <3>4, <3>5
      <4>2. (j < k => x + w <= y) /\ (k < j => y + v <= x)
        BY <3>6
      <4> HIDE DEF x, y, w, v, c
      <4>3. ~(j < k) /\ ~(k < j)
        BY <4>1, <4>2
      <4>4. QED BY <4>3
    <3>8. base[j] + (m - tops[j]) = base[j] + (n - tops[j])
      BY <1>17, <3>4, <3>5, <3>7
    <3> DEFINE x == base[j]
               y == tops[j]
    <3>9. x \in Nat /\ y \in Nat /\ m \in Nat /\ n \in Nat /\ x + (m - y) = x + (n - y)
      BY <3>4, <3>5, <3>8
    <3> HIDE DEF x, y
    <3>10. QED BY <3>9
  <2>5. QED BY <2>3, <2>4
<1>18. ASSUME NEW i \in Descendants(r, id) PROVE \E n \in 1..L : f[n] = i
  <2> DEFINE E == Descendants(r, id)
             S == {k \in E : \E n \in 1..L : f[n] = k}
  <2>1. E \in SUBSET Nat
    BY <1>6 DEF Descendants
  <2>2. ASSUME NEW k \in E, \A q \in E : q < k => q \in S PROVE k \in S
    <3> SUFFICES \E n \in 1..L : f[n] = k
      OBVIOUS
    <3>1. k \in DOMAIN r.inst /\ (k = id \/ id \in Ancestors(r, k))
      BY DEF Descendants
    <3>2. CASE k = id
      BY <1>5, <1>10, <1>11, <3>2
    <3>3. CASE k \in t.next..(r.next - 1)
      <4>1. PICK j \in 1..J : k \in base[j]..(base[j] + W(j) - 1)
        BY <1>4, <3>3 DEF Blocks
      <4>2. tops[j] \in 2..L /\ IsBranch(s, tops[j], p.added[j].snap)
        BY <1>2 DEF IsPatchOf
      <4>3. W(j) \in Nat
        BY <4>2, RangeIs DEF IsBranch, IsList
      <4>4. base[j] \in Nat
        BY <1>4 DEF Blocks
      <4> DEFINE n == tops[j] + (k - base[j])
      <4>5. n \in tops[j]..(tops[j] + W(j) - 1) /\ base[j] + (n - tops[j]) = k
        <5> DEFINE x == base[j]
                   y == tops[j]
                   w == W(j)
        <5> HIDE DEF W
        <5>1. x \in Nat /\ y \in 2..L /\ w \in Nat /\ k \in x..(x + w - 1)
          BY <4>1, <4>2, <4>3, <4>4
        <5> HIDE DEF x, y, w
        <5>2. y + (k - x) \in y..(y + w - 1) /\ x + ((y + (k - x)) - y) = k
          BY <5>1
        <5>3. QED BY <5>2 DEF x, y, w
      <4> HIDE DEF n
      <4>6. IsIn(p, tops, j, n)
        BY <4>5 DEF IsIn
      <4>7. n \in 2..L /\ f[n] = k
        BY <1>13, <4>5, <4>6
      <4>8. QED BY <1>5, <4>7
    <3>4. CASE k # id /\ k \notin t.next..(r.next - 1)
      <4> DEFINE q == r.inst[k].parent
      <4>1. Stays(t, p.removed, k) /\ k \in D
        BY <1>7, <3>1, <3>4 DEF Stays
      <4>2. k # Root
        BY <1>6, <3>1, <3>4, AncestorsAre
      <4>3. q \in DOMAIN r.inst /\ q < k /\ Ancestors(r, k) = {q} \union Ancestors(r, q)
        BY <1>6, <3>1, <4>2, ParentIs, AncestorsAre
      <4>4. UpToDate(t.inst[k], r.inst[k], k, p.updated, Len(p.updated))
        BY <1>3, <3>1, <4>1 DEF Patched
      <4>5. t.inst[k].parent = q
        BY <4>4 DEF UpToDate
      <4> HIDE DEF q
      <4>6. q \in E
        BY <3>1, <3>4, <4>3 DEF Descendants
      <4>7. PICK n \in 1..L : f[n] = q
        BY <2>2, <4>3, <4>6
      <4>8. q \in D /\ k \in Range(t.inst[q].kids)
        BY <4>1, <4>2, <4>5 DEF Consistent, KidsAgree
      <4>9. pair[n] # None
        <5>1. ASSUME pair[n] = None PROVE FALSE
          <6>1. q \in t.next..(r.next - 1)
            BY <1>8, <1>13, <4>7, <5>1
          <6>2. q \in Nat /\ q < t.next
            BY <1>6, <4>8
          <6>3. QED BY <1>6, <6>1, <6>2
        <5>2. QED BY <5>1
      <4>10. pair[n] = q
        BY <1>11, <4>7, <4>9
      <4>11. (\E m \in 1..L : pair[m] = k) \/ (\E m \in 1..Len(p.removed) : p.removed[m] = k)
        BY <1>2, <4>8, <4>9, <4>10 DEF IsPatchOf
      <4>12. PICK m \in 1..L : pair[m] = k
        BY <4>1, <4>11 DEF Stays
      <4>13. f[m] = k
        BY <1>6, <1>11, <4>1, <4>12
      <4>14. QED BY <4>13
    <3>5. QED BY <3>2, <3>3, <3>4
  <2> HIDE DEF S, E
  <2>3. \A k \in E : k \in S
    BY <2>1, <2>2, FromBelow
  <2>4. QED BY <2>3 DEF S, E
<1>19. Mirrors(r, id, s, f)
  <2>1. f \in [1..L -> Descendants(r, id)]
    BY <1>12, <1>16
  <2>2. f[1] = id
    BY <1>5, <1>10, <1>11
  <2>3. \A n \in 2..L : r.inst[f[n]].parent = f[s[n].up]
    BY <1>5, <1>15 DEF Low
  <2>4. QED BY <1>15, <1>17, <1>18, <2>1, <2>2, <2>3 DEF Mirrors
<1>20. ASSUME NEW i \in D \ Descendants(t, id) PROVE i \in DOMAIN r.inst /\ Alike(t.inst[i], r.inst[i])
  <2>1. i \in DOMAIN r.inst
    BY <1>1, <1>7, PatchIsLocal
  <2>2. UpToDate(t.inst[i], r.inst[i], i, p.updated, Len(p.updated))
    BY <1>3, <2>1 DEF Patched
  <2>3. \A k \in 1..Len(p.updated) : p.updated[k].id # i
    <3>1. \A n \in 1..L : pair[n] # None => pair[n] \in Descendants(t, id)
      BY <1>2, PartnersAreBelow
    <3>2. \A k \in 1..Len(p.updated) : \E n \in 1..L : pair[n] # None /\ p.updated[k].id = pair[n]
      BY <1>2 DEF IsPatchOf
    <3>3. QED BY <3>1, <3>2
  <2>4. QED BY <2>1, <2>2, <2>3 DEF UpToDate
<1>21. QED BY <1>19, <1>20 DEF r, p
=============================================================================
