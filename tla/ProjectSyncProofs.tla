-------------------------- MODULE ProjectSyncProofs --------------------------
(***************************************************************************)
(* What holds of a project being served for any snapshot middleware that   *)
(* returns lists of instances, any disks and any changes of them: the path *)
(* index stays exact, the change processor panics only where it must,      *)
(* build --watch and sourcemap --watch do not miss a change of the tree,   *)
(* and every change of the tree makes an instance what was read for it.    *)
(***************************************************************************)
EXTENDS ProjectSync, RojoTreeProofs

\* A result of the middleware: a failure, nothing, or a list of instances.
IsTyped(r) == IsResult(r) /\ (r.inst = None \/ IsList(r.inst))

\* What the proofs assume of the middleware: on any disk, for the project and
\* for the metadata of any instance, it returns such a result.
MiddlewareIsTyped ==
  /\ EmptyRoot \in Instances
  /\ \A d \in Disks : IsTyped(SnapshotFromPath(DefaultContext, d, RootProject))
  /\ \A d \in Disks, m \in Metas : IsTyped(SnapshotFor(m, d).res)

-----------------------------------------------------------------------------
(* The invariant.                                                          *)

\* The change processor panics only when the project file it serves is deleted,
\* or on an event that concerns an instance and one below it (a path mapped
\* inside a mapping of itself): handling the outer one replaced the inner one.
PanicsAreExplained ==
  pc = "dead" /\ consumer.pc # "dead" => changed.nested \/ (Head(todo) = Root /\ snap.gone)

Events == [kind : {"create", "write", "remove"}, path : Path]
Messages == [removed : BOOLEAN, added : SUBSET Nat, renewed : SUBSET Nat]
Changes == [path : Path, begun : BOOLEAN, failed : BOOLEAN, nested : BOOLEAN]
Consumers == [kind : {"build", "sourcemap"}, pc : {"new", "wait", "check", "write", "dead"}, got : Seq(Messages)]

\* The disk, the watches and the events.
VfsOK ==
  /\ disk \in Disks /\ (\A p \in Path : disk[p] = Folder => p \in Folders)
  /\ edits \in 0..MaxEdits
  /\ armed \subseteq watches /\ watches \subseteq Path
  /\ events \in Seq(Events)
  /\ stale \subseteq Path \cup {<<>>} /\ torn \in BOOLEAN

\* The tree.
TreeOK == Consistent(tree) /\ (pc \in {"boot", "booting"} => tree = EmptyTree)

\* Ids of which none is above another, all in the tree.
Apart(t, ids) == \A i \in Range(ids) : i \in DOMAIN t.inst /\ Ancestors(t, i) \cap Range(ids) = {}

\* The ids in hand: unless one is above another, they are all still in the
\* tree, and the one about to be patched always is.
HandOK ==
  /\ pc \in {"boot", "booting", "idle", "read", "watch", "apply", "failed", "dead"}
  /\ todo \in Seq(Nat) /\ \A i \in Range(todo) : i < tree.next
  /\ pc \in {"read", "watch", "apply"} =>
       /\ todo # <<>> /\ IsInjective(todo) /\ changed \in Changes
       /\ ~changed.nested => Apart(tree, todo)
  /\ pc \in {"watch", "apply"} => Head(todo) \in DOMAIN tree.inst
  /\ pc \in {"booting", "watch", "apply"} => IsTyped(snap.res)
  /\ pc = "booting" => snap.res.inst # None

\* The messages.
MessagesOK ==
  /\ patches \in Seq(Messages) /\ queue \in Seq(Messages) /\ consumer \in Consumers
  /\ pc \in {"boot", "booting", "idle"} => patches = <<>>
  /\ pc \in {"boot", "booting"} => consumer.pc = "new"
  /\ consumer.pc \in {"new", "wait"} => consumer.got = <<>>
  /\ consumer.pc = "check" => consumer.kind = "sourcemap"

\* The messages that the consumer has not worked off.
Pending == Range(patches) \cup Range(queue) \cup Range(consumer.got)

\* There is an entry for the instance; what an entry is for is where it was.
Lists(out, t, i) == \E e \in out : e.node = Outline(t, i)
InPlace(o, t) == o.id \in DOMAIN t.inst /\ o.parent = t.inst[o.id].parent

\* The output is as the tree is, or somebody still has to look at a message
\* that says what is missing in it.
OutputOK ==
  Serving /\ consumer.pc \in {"wait", "check"} =>
    /\ consumer.kind = "build" /\ Pending = {} => output = Built(tree)
    /\ consumer.kind = "sourcemap" =>
         /\ \A i \in DOMAIN tree.inst : tree.inst[i].class \in Scripts =>
              Lists(output, tree, i) \/ \E m \in Pending : i \in m.added \cup m.renewed
         /\ \A e \in output : InPlace(e.node, tree) \/ \E m \in Pending : m.removed

Inv == VfsOK /\ TreeOK /\ HandOK /\ MessagesOK /\ PanicsAreExplained /\ OutputOK

-----------------------------------------------------------------------------
(* The first state.                                                        *)

LEMMA InitInv ==
  ASSUME MiddlewareIsTyped, Init
  PROVE  Inv
<1>1. VfsOK
  <2>1. 0 \in 0..MaxEdits
    BY MaxEditsAssumption
  <2>2. <<>> \in Seq(Events)
    OBVIOUS
  <2>3. disk \in Disks /\ \A p \in Path : disk[p] = Folder => p \in Folders
    BY DiskAssumption DEF Init
  <2>4. QED BY <2>1, <2>2, <2>3 DEF Init, VfsOK
<1>2. Consistent(EmptyTree)
  <2>1. EmptyRoot \in Instances /\ EmptyRoot.kids = <<>>
    BY DEF MiddlewareIsTyped, EmptyRoot
  <2>2. QED BY <2>1, NewTreeIsConsistent DEF EmptyTree
<1>3. TreeOK
  BY <1>2 DEF Init, TreeOK
<1>4. HandOK
  <2>1. <<>> \in Seq(Nat) /\ Range(<<>>) = {}
    BY DEF Range
  <2>2. QED BY <2>1 DEF Init, HandOK
<1>5. MessagesOK
  <2>1. <<>> \in Seq(Messages)
    OBVIOUS
  <2> HIDE DEF Messages
  <2>2. consumer \in Consumers /\ consumer.got = <<>>
    BY <2>1 DEF Init, Consumers
  <2>3. QED BY <2>1, <2>2 DEF Init, MessagesOK
<1>6. PanicsAreExplained /\ OutputOK
  BY DEF Init, PanicsAreExplained, OutputOK
<1>7. QED BY <1>1, <1>3, <1>4, <1>5, <1>6 DEF Inv

-----------------------------------------------------------------------------
(* Parts whose variables do not change.                                    *)

LEMMA VfsKept ==
  ASSUME VfsOK, UNCHANGED <<disk, edits, watches, armed, events, stale, torn>>
  PROVE  VfsOK'
BY DEF VfsOK

LEMMA HandKept ==
  ASSUME TreeOK, HandOK, UNCHANGED <<pc, todo, snap, changed, tree>>
  PROVE  TreeOK' /\ HandOK'
BY DEF TreeOK, HandOK

LEMMA MessagesKept ==
  ASSUME MessagesOK, UNCHANGED <<pc, patches, queue, consumer>>
  PROVE  MessagesOK'
BY DEF MessagesOK

LEMMA PanicsKept ==
  ASSUME PanicsAreExplained, UNCHANGED <<pc, todo, snap, changed, consumer>>
  PROVE  PanicsAreExplained'
BY DEF PanicsAreExplained

LEMMA OutputKept ==
  ASSUME OutputOK, UNCHANGED <<pc, tree, patches, queue, consumer, output>>
  PROVE  OutputOK'
BY DEF OutputOK, Built, Outline, Lists, InPlace, Serving, Pending

-----------------------------------------------------------------------------
(* Changes of the disk.                                                    *)

\* The events that the operating system reports are some of those that happen.
LEMMA NotifyOK ==
  ASSUME VfsOK, NEW es \in Seq(Events), Notify(es)
  PROVE  /\ events' \in Seq(Events)
         /\ stale' \subseteq Path \cup {<<>>} /\ torn' \in BOOLEAN
<1> DEFINE S == {n \in DOMAIN es : Covered(armed, es[n].path)}
           heard == InOrder(Len(es), S)
           new == [k \in DOMAIN heard |-> es[heard[k]]]
<1>1. /\ DOMAIN es = 1..Len(es) /\ Len(es) \in Nat
      /\ \A n \in 1..Len(es) : es[n] \in Events
      /\ \A x : x \in Range(es) => x \in Events
  BY RangeIs
<1>2. events' = events \o new
  BY DEF Notify
<1>3. heard \in Seq(Nat) /\ \A x : x \in Range(heard) => x \in 1..Len(es)
  <2> HIDE DEF S
  <2>1. QED BY <1>1, InOrderIs
<1> HIDE DEF heard
<1>4. /\ DOMAIN heard = 1..Len(heard) /\ Len(heard) \in Nat
      /\ \A k \in 1..Len(heard) : heard[k] \in 1..Len(es)
  BY <1>3, RangeIs
<1>5. new \in [1..Len(heard) -> Events]
  BY <1>1, <1>4
<1>6. new \in Seq(Events)
  BY <1>4, <1>5, IsASeq
<1> HIDE DEF new
<1>7. events' \in Seq(Events)
  BY <1>2, <1>6, ConcatProperties DEF VfsOK
<1>8. stale' \subseteq Path \cup {<<>>}
  <2>1. \A x \in Range(es) : x.path \in Path
    BY <1>1 DEF Events
  <2>2. QED BY <2>1 DEF VfsOK, Notify
<1>9. torn' \in BOOLEAN
  BY DEF Notify
<1>10. QED BY <1>7, <1>8, <1>9

LEMMA EventIs ==
  ASSUME NEW p \in Path, NEW kind \in {"create", "write", "remove"}
  PROVE  Event(kind, p) \in Events /\ <<Event(kind, p)>> \in Seq(Events)
<1>1. Event(kind, p) \in Events
  BY DEF Event, Events
<1>2. QED BY <1>1

LEMMA MoreEdits ==
  ASSUME VfsOK, MayEdit
  PROVE  edits + 1 \in 0..MaxEdits
<1>1. edits \in 0..MaxEdits /\ edits < MaxEdits
  BY DEF VfsOK, MayEdit
<1>2. QED BY <1>1, MaxEditsAssumption

\* A new state of one file.
LEMMA DiskWith ==
  ASSUME VfsOK, NEW p \in Path, NEW c \in {Absent, Folder} \cup UNION {Contents(q) : q \in Path},
         c = Folder => p \in Folders, disk' = [disk EXCEPT ![p] = c]
  PROVE  disk' \in Disks /\ \A q \in Path : disk'[q] = Folder => q \in Folders
BY DEF VfsOK, Disks

LEMMA EditVfs ==
  ASSUME VfsOK, NEW p \in Path,
         (\E c \in Contents(p) : Write(p, c)) \/ MakeDir(p) \/ Delete(p)
  PROVE  VfsOK'
<1>1. ASSUME NEW c \in Contents(p), Write(p, c) PROVE VfsOK'
  <2>1. disk' \in Disks /\ \A q \in Path : disk'[q] = Folder => q \in Folders
    <3>1. c \in {Absent, Folder} \cup UNION {Contents(q) : q \in Path} /\ c # Folder
      BY DiskAssumption
    <3>2. QED BY <1>1, <3>1, DiskWith DEF Write
  <2>2. edits' \in 0..MaxEdits
    BY <1>1, MoreEdits DEF Write
  <2>3. /\ events' \in Seq(Events)
        /\ stale' \subseteq Path \cup {<<>>} /\ torn' \in BOOLEAN
    <3> DEFINE k == IF disk[p] = Absent THEN "create" ELSE "write"
    <3>1. <<Event(k, p)>> \in Seq(Events)
      BY EventIs
    <3>2. Notify(<<Event(k, p)>>)
      BY <1>1 DEF Write
    <3> HIDE DEF k
    <3>3. QED BY <3>1, <3>2, NotifyOK
  <2>4. QED BY <1>1, <2>1, <2>2, <2>3 DEF VfsOK, Write
<1>2. CASE MakeDir(p)
  <2>1. disk' \in Disks /\ \A q \in Path : disk'[q] = Folder => q \in Folders
    BY <1>2, DiskWith DEF MakeDir
  <2>2. edits' \in 0..MaxEdits
    BY <1>2, MoreEdits DEF MakeDir
  <2>3. /\ events' \in Seq(Events)
        /\ stale' \subseteq Path \cup {<<>>} /\ torn' \in BOOLEAN
    BY <1>2, EventIs, NotifyOK DEF MakeDir
  <2>4. QED BY <1>2, <2>1, <2>2, <2>3 DEF VfsOK, MakeDir
<1>3. CASE Delete(p)
  <2> DEFINE gone == {q \in Path : IsPrefix(p, q) /\ disk[q] # Absent}
             below == SetToSeq(gone \ {p})
             es == [n \in DOMAIN below |-> Event("remove", below[n])]
  <2>1. /\ disk' = [q \in Path |-> IF q \in gone THEN Absent ELSE disk[q]]
        /\ Notify(es \o <<Event("remove", p)>>)
        /\ armed' = {w \in armed : ~IsPrefix(p, w)}
        /\ edits' = edits + 1 /\ UNCHANGED watches
    BY <1>3 DEF Delete
  <2>2. gone \ {p} \subseteq Path
    OBVIOUS
  <2> HIDE DEF gone
  <2>3. disk' \in Disks /\ \A q \in Path : disk'[q] = Folder => q \in Folders
    BY <2>1, DiskAssumption DEF VfsOK, Disks
  <2>4. edits' \in 0..MaxEdits
    BY <1>3, <2>1, MoreEdits DEF Delete
  <2>5. below \in Seq(gone \ {p})
    BY <2>2, PathAssumption, FS_Subset, ListOf
  <2> HIDE DEF below
  <2>6. /\ DOMAIN below = 1..Len(below) /\ Len(below) \in Nat
        /\ \A n \in 1..Len(below) : below[n] \in Path
    BY <2>2, <2>5, RangeIs
  <2>7. es \in [1..Len(below) -> Events]
    BY <2>6, EventIs
  <2>8. es \in Seq(Events)
    BY <2>6, <2>7, IsASeq
  <2> HIDE DEF es
  <2>9. es \o <<Event("remove", p)>> \in Seq(Events)
    BY <2>8, EventIs, ConcatProperties
  <2>10. /\ events' \in Seq(Events)
         /\ stale' \subseteq Path \cup {<<>>} /\ torn' \in BOOLEAN
    BY <2>1, <2>9, NotifyOK
  <2>11. armed' \subseteq watches' /\ watches' \subseteq Path
    BY <2>1 DEF VfsOK
  <2>12. QED BY <2>3, <2>4, <2>10, <2>11 DEF VfsOK
<1>4. QED BY <1>1, <1>2, <1>3

LEMMA EditInv ==
  ASSUME Inv, Edit
  PROVE  Inv'
<1>1. PICK p \in Path : (\E c \in Contents(p) : Write(p, c)) \/ MakeDir(p) \/ Delete(p)
  BY DEF Edit
<1>2. VfsOK'
  BY <1>1, EditVfs DEF Inv
<1>3. UNCHANGED <<pc, todo, snap, changed, tree, patches, queue, consumer, output>>
  BY <1>1 DEF Write, MakeDir, Delete
<1>4. TreeOK' /\ HandOK'
  BY <1>3, HandKept DEF Inv
<1>5. MessagesOK' /\ PanicsAreExplained' /\ OutputOK'
  BY <1>3, MessagesKept, PanicsKept, OutputKept DEF Inv
<1>6. QED BY <1>2, <1>4, <1>5 DEF Inv

-----------------------------------------------------------------------------
(* Starting.                                                               *)

LEMMA WatchOK ==
  ASSUME VfsOK, NEW reads, reads \subseteq Path, Watch(reads)
  PROVE  armed' \subseteq watches' /\ watches' \subseteq Path
BY DEF VfsOK, Watch, NewWatches

\* What the sourcemap lists.
LEMMA SourcemapIs ==
  ASSUME NEW t, Consistent(t)
  PROVE  /\ \A e \in Sourcemap(t) : InPlace(e.node, t)
         /\ \A i \in DOMAIN t.inst : t.inst[i].class \in Scripts => Lists(Sourcemap(t), t, i)
<1> DEFINE scripts == {i \in DOMAIN t.inst : t.inst[i].class \in Scripts}
           listed == scripts \cup UNION {Ancestors(t, i) : i \in scripts}
           files(i) == {p \in Range(t.inst[i].meta.rel) : Exists(disk, p) /\ ~IsDir(disk, p)}
<1>1. Sourcemap(t) = {[node |-> Outline(t, i), files |-> files(i)] : i \in listed}
  BY DEF Sourcemap
<1>2. listed \subseteq DOMAIN t.inst
  BY AncestorsAreOlder
<1>3. \A i \in DOMAIN t.inst : t.inst[i].class \in Scripts => i \in listed
  OBVIOUS
<1>4. \A i \in DOMAIN t.inst : InPlace(Outline(t, i), t)
  BY DEF InPlace, Outline
<1> HIDE DEF listed, files
<1>5. \A e \in Sourcemap(t) : InPlace(e.node, t)
  BY <1>1, <1>2, <1>4
<1>6. \A i \in listed : Lists(Sourcemap(t), t, i)
  <2>1. ASSUME NEW i \in listed PROVE Lists(Sourcemap(t), t, i)
    <3> DEFINE e == [node |-> Outline(t, i), files |-> files(i)]
    <3>1. e \in Sourcemap(t) /\ e.node = Outline(t, i)
      BY <1>1
    <3>2. QED BY <3>1 DEF Lists
  <2>2. QED BY <2>1
<1>7. QED BY <1>3, <1>5, <1>6

LEMMA BootInv ==
  ASSUME MiddlewareIsTyped, Inv, Boot
  PROVE  Inv'
<1> DEFINE s == SnapshotFromPath(DefaultContext, disk, RootProject)
<1>1. IsTyped(s)
  BY DEF Inv, VfsOK, MiddlewareIsTyped
<1>2. /\ pc = "boot" /\ pc' \in {"booting", "failed"} /\ (pc' = "booting" => s.inst # None)
      /\ snap' = [res |-> s, gone |-> FALSE]
      /\ UNCHANGED <<disk, edits, watches, armed, events, todo, changed, tree, patches,
                     queue, consumer, output, stale, torn>>
  BY DEF Boot
<1> HIDE DEF s
<1>3. VfsOK'
  BY <1>2, VfsKept DEF Inv
<1>4. snap'.res = s
  BY <1>2
<1>5. TreeOK' /\ HandOK'
  BY <1>1, <1>2, <1>4 DEF Inv, TreeOK, HandOK
<1>6. MessagesOK'
  BY <1>2 DEF Inv, MessagesOK
<1>7. PanicsAreExplained' /\ OutputOK'
  BY <1>2 DEF PanicsAreExplained, OutputOK, Serving
<1>8. QED BY <1>3, <1>5, <1>6, <1>7 DEF Inv

\* Ids stay below the next fresh one.
LEMMA OlderStays ==
  ASSUME NEW t, NEW r, Consistent(t), Consistent(r), r.next >= t.next, NEW i \in Nat, i < t.next
  PROVE  i < r.next
<1>1. t.next \in Nat /\ r.next \in Nat
  BY TreeIs
<1>2. QED BY <1>1

\* So it is when a watch fails.
LEMMA WatchFailsOK ==
  ASSUME VfsOK, NEW reads, reads \subseteq Path, WatchFails(reads)
  PROVE  armed' \subseteq watches' /\ watches' \subseteq Path
BY DEF VfsOK, WatchFails, NewWatches

LEMMA FinishBootInv ==
  ASSUME Inv, FinishBoot
  PROVE  Inv'
<1> DEFINE p == ComputePatch(EmptyTree, Root, snap.res.inst)
           t == ApplyPatch(EmptyTree, p)
<1>1. /\ pc = "booting"
      /\ UNCHANGED <<disk, edits, events, todo, changed, patches, queue, consumer, output, stale, torn>>
      /\ \/ Watch(snap.res.reads) /\ tree' = t /\ pc' = "idle"
         \/ WatchFails(snap.res.reads) /\ pc' = "failed" /\ UNCHANGED tree
  BY DEF FinishBoot
<1>2. /\ Consistent(tree) /\ tree = EmptyTree /\ Root \in DOMAIN tree.inst
      /\ IsTyped(snap.res) /\ snap.res.inst # None /\ consumer.pc = "new"
  BY <1>1 DEF Inv, TreeOK, HandOK, MessagesOK, Consistent
<1>3. Patched(tree, t, p)
  <2>1. FitPatch(tree, Root, p)
    BY <1>2, ComputePatchFits DEF IsTyped
  <2>2. QED BY <1>2, <2>1, ApplyPatchKeepsIndex
<1> HIDE DEF p, t
<1>4. Consistent(t) /\ t.next >= tree.next
  BY <1>3 DEF Patched
<1>5. VfsOK'
  <2>1. armed' \subseteq watches' /\ watches' \subseteq Path
    BY <1>1, <1>2, WatchOK, WatchFailsOK DEF Inv, IsTyped, IsResult
  <2>2. QED BY <1>1, <2>1 DEF Inv, VfsOK
<1>6. TreeOK'
  BY <1>1, <1>2, <1>4 DEF TreeOK
<1>7. HandOK'
  <2>1. todo \in Seq(Nat) /\ \A i \in Range(todo) : i \in Nat /\ i < tree.next
    BY RangeIs DEF Inv, HandOK
  <2>2. \A i \in Range(todo) : i < t.next
    BY <1>2, <1>4, <2>1, OlderStays
  <2>3. QED BY <1>1, <2>1, <2>2 DEF HandOK
<1>8. MessagesOK'
  BY <1>1 DEF Inv, MessagesOK
<1>9. PanicsAreExplained'
  BY <1>1 DEF PanicsAreExplained
<1>10. OutputOK'
  BY <1>1, <1>2 DEF OutputOK
<1>11. QED BY <1>5, <1>6, <1>7, <1>8, <1>9, <1>10 DEF Inv

-----------------------------------------------------------------------------
(* Events.                                                                 *)

\* A set of numbers below a limit has a greatest.
LEMMA GreatestNumber ==
  ASSUME NEW L \in Nat, NEW S \in SUBSET (1..L), S # {}
  PROVE  \E m \in S : \A n \in S : n <= m
<1> DEFINE T == {L - n : n \in S}
<1>1. T \in SUBSET Nat /\ T # {}
  <2>1. \A n \in S : L - n \in Nat
    <3>1. \A n \in 1..L : L - n \in Nat
      OBVIOUS
    <3>2. QED BY <3>1
  <2>2. QED BY <2>1
<1> HIDE DEF T
<1>2. PICK k \in T : \A j \in T : k <= j
  BY <1>1, LeastNumber
<1>3. PICK m \in S : k = L - m
  BY DEF T
<1>4. ASSUME NEW n \in S PROVE n <= m
  <2>1. L - n \in T
    BY DEF T
  <2>2. L - m <= L - n /\ n \in Nat /\ m \in Nat
    BY <1>2, <1>3, <2>1
  <2>3. QED BY <2>2
<1>5. QED BY <1>4

\* apply_patches handles instances of the tree, none of them twice.
LEMMA AffectedIdsAre ==
  ASSUME Consistent(tree), NEW p \in Path
  PROVE  /\ AffectedIds(p) \in Seq(Nat) /\ IsInjective(AffectedIds(p))
         /\ Range(AffectedIds(p)) \subseteq DOMAIN tree.inst
<1> DEFINE known == {n \in 1..Len(p) : SubSeq(p, 1, n) \in Path /\ tree.paths[SubSeq(p, 1, n)] # <<>>}
           k == CHOOSE n \in known : \A m \in known : m <= n
<1>1. Len(p) \in Nat
  BY PathAssumption
<1>2. CASE known = {}
  <2>1. AffectedIds(p) = <<>>
    BY <1>2 DEF AffectedIds
  <2>2. QED BY <2>1 DEF IsInjective, Range
<1>3. CASE known # {}
  <2>1. k \in known
    <3>1. known \in SUBSET (1..Len(p))
      OBVIOUS
    <3> HIDE DEF known
    <3>2. \E n \in known : \A m \in known : m <= n
      BY <1>1, <1>3, <3>1, GreatestNumber
    <3>3. QED BY <3>2
  <2>2. AffectedIds(p) = tree.paths[SubSeq(p, 1, k)]
    BY <1>3 DEF AffectedIds
  <2>3. SubSeq(p, 1, k) \in Path
    BY <2>1
  <2> DEFINE q == SubSeq(p, 1, k)
  <2> HIDE DEF q
  <2>4. q \in Path /\ AffectedIds(p) = tree.paths[q]
    BY <2>2, <2>3 DEF q
  <2>5. tree.paths \in Indexes /\ DOMAIN tree.paths = Path
    BY TreeIs
  <2>6. Range(tree.paths[q]) \subseteq DOMAIN tree.inst
    BY <2>4, <2>5 DEF Consistent, IndexIsExact
  <2>7. QED BY <2>4, <2>5, <2>6 DEF Indexes
<1>4. QED BY <1>2, <1>3

LEMMA TakeEventInv ==
  ASSUME Inv, TakeEvent
  PROVE  Inv'
<1> DEFINE e == Head(events)
           ids == AffectedIds(e.path)
<1>1. /\ pc = "idle" /\ events # <<>> /\ events' = Tail(events)
      /\ watches' = (IF e.kind = "remove" THEN watches \ {e.path} ELSE watches)
      /\ armed' = (IF e.kind = "remove" THEN armed \ {e.path} ELSE armed)
      /\ UNCHANGED <<disk, edits, snap, tree, patches, queue, consumer, output, torn>>
      /\ \/ ids = <<>> /\ stale' = stale \cup {e.path} /\ UNCHANGED <<pc, todo, changed>>
         \/ /\ ids # <<>> /\ pc' = "read" /\ todo' = ids
            /\ changed' = [path |-> e.path, begun |-> FALSE, failed |-> FALSE,
                           nested |-> \E i \in Range(ids) : Ancestors(tree, i) \cap Range(ids) # {}]
            /\ UNCHANGED stale
  BY DEF TakeEvent
<1>2. e \in Events /\ Tail(events) \in Seq(Events)
  BY <1>1, HeadTailProperties DEF Inv, VfsOK
<1> HIDE DEF e
<1>3. e.path \in Path
  BY <1>2 DEF Events
<1>4. VfsOK'
  <2>1. stale' \subseteq Path \cup {<<>>}
    BY <1>1, <1>3 DEF Inv, VfsOK
  <2>2. armed' \subseteq watches' /\ watches' \subseteq Path
    BY <1>1 DEF Inv, VfsOK
  <2>3. QED BY <1>1, <1>2, <2>1, <2>2 DEF Inv, VfsOK
<1>5. Consistent(tree)
  BY DEF Inv, TreeOK
<1>6. /\ ids \in Seq(Nat) /\ IsInjective(ids)
      /\ Range(ids) \subseteq DOMAIN tree.inst
  BY <1>3, <1>5, AffectedIdsAre
<1> HIDE DEF ids
<1>7. TreeOK'
  BY <1>1, <1>5 DEF TreeOK
<1>8. HandOK'
  <2>1. CASE ids = <<>>
    BY <1>1, <2>1, HandKept DEF Inv
  <2>2. CASE ids # <<>>
    <3>1. \A i \in Range(ids) : i < tree.next
      BY <1>5, <1>6 DEF Consistent
    <3>2. changed' \in Changes
      <4> DEFINE above == \E i \in Range(ids) : Ancestors(tree, i) \cap Range(ids) # {}
      <4>1. above \in BOOLEAN
        OBVIOUS
      <4>2. changed' = [path |-> e.path, begun |-> FALSE, failed |-> FALSE, nested |-> above]
        BY <1>1, <2>2
      <4> HIDE DEF above
      <4>3. QED BY <1>3, <4>1, <4>2 DEF Changes
    <3>3. ~changed'.nested => Apart(tree, ids)
      BY <1>1, <1>6, <2>2 DEF Apart
    <3>4. QED BY <1>1, <1>6, <2>2, <3>1, <3>2, <3>3 DEF HandOK
  <2>3. QED BY <2>1, <2>2
<1>9. MessagesOK'
  BY <1>1 DEF Inv, MessagesOK
<1>10. PanicsAreExplained'
  BY <1>1 DEF PanicsAreExplained
<1>11. OutputOK'
  BY <1>1 DEF Inv, OutputOK, Serving, Pending, Built, Outline, Lists, InPlace
<1>12. QED BY <1>4, <1>7, <1>8, <1>9, <1>10, <1>11 DEF Inv

LEMMA ReadInstanceInv ==
  ASSUME MiddlewareIsTyped, Inv, ReadInstance
  PROVE  Inv'
<1> DEFINE id == Head(todo)
           s == SnapshotFor(tree.inst[id].meta, disk)
<1>1. /\ pc = "read"
      /\ UNCHANGED <<disk, edits, watches, armed, events, todo, changed, tree, patches,
                     queue, consumer, output, torn>>
      /\ \/ id \in DOMAIN tree.inst /\ pc' = "watch" /\ snap' = s /\ stale' = stale \ Seen(s.res)
         \/ id \notin DOMAIN tree.inst /\ pc' = "dead" /\ UNCHANGED <<snap, stale>>
  BY DEF ReadInstance
<1>2. id \in DOMAIN tree.inst => IsTyped(s.res)
  <2>1. Consistent(tree) /\ disk \in Disks
    BY DEF Inv, TreeOK, VfsOK
  <2>2. id \in DOMAIN tree.inst => tree.inst[id].meta \in Metas
    BY <2>1, TreeIs DEF Instances
  <2>3. QED BY <2>1, <2>2 DEF MiddlewareIsTyped
<1> HIDE DEF s
<1>3. VfsOK'
  <2>1. stale' \subseteq stale
    BY <1>1
  <2>2. QED BY <1>1, <2>1 DEF Inv, VfsOK
<1>4. id \in Range(todo)
  <2>1. todo \in Seq(Nat) /\ todo # <<>>
    BY <1>1 DEF Inv, HandOK
  <2>2. Len(todo) > 0 /\ id = todo[1] /\ Len(todo) \in Nat
    BY <2>1
  <2>3. 1 \in 1..Len(todo)
    BY <2>2
  <2>4. QED BY <2>1, <2>2, <2>3, RangeIs
<1>5. TreeOK'
  BY <1>1 DEF Inv, TreeOK
<1>6. HandOK'
  BY <1>1, <1>2 DEF Inv, HandOK
<1>7. MessagesOK'
  BY <1>1 DEF Inv, MessagesOK
<1>8. PanicsAreExplained'
  BY <1>1, <1>4 DEF Inv, HandOK, Apart, PanicsAreExplained
<1>9. OutputOK'
  BY <1>1 DEF Inv, OutputOK, Serving, Pending, Built, Outline, Lists, InPlace
<1>10. QED BY <1>3, <1>5, <1>6, <1>7, <1>8, <1>9 DEF Inv

LEMMA WatchInstanceInv ==
  ASSUME Inv, WatchInstance
  PROVE  Inv'
<1>1. /\ pc = "watch" /\ pc' = "apply"
      /\ UNCHANGED <<disk, edits, events, todo, changed, tree, patches, queue, consumer, output, torn>>
      /\ \/ Watch(snap.res.reads) /\ UNCHANGED <<snap, stale>>
         \/ /\ WatchFails(snap.res.reads)
            /\ snap' = [res |-> Err({}, {}), gone |-> snap.gone]
            /\ stale' = stale \cup (Path \cap (snap.res.reads \cup snap.res.looks))
  BY DEF WatchInstance
<1>2. IsTyped(snap.res) /\ Head(todo) \in DOMAIN tree.inst
  BY <1>1 DEF Inv, HandOK
<1>3. IsTyped(Err({}, {}))
  BY DEF IsTyped, IsResult, Err
<1>4. VfsOK'
  <2>1. armed' \subseteq watches' /\ watches' \subseteq Path
    BY <1>1, <1>2, WatchOK, WatchFailsOK DEF Inv, IsTyped, IsResult
  <2>2. stale' \subseteq Path \cup {<<>>}
    BY <1>1 DEF Inv, VfsOK
  <2>3. QED BY <1>1, <2>1, <2>2 DEF Inv, VfsOK
<1>5. TreeOK'
  BY <1>1 DEF Inv, TreeOK
<1>6. HandOK'
  BY <1>1, <1>2, <1>3 DEF Inv, HandOK
<1>7. MessagesOK'
  BY <1>1 DEF Inv, MessagesOK
<1>8. PanicsAreExplained'
  BY <1>1 DEF PanicsAreExplained
<1>9. OutputOK'
  BY <1>1 DEF Inv, OutputOK, Serving, Pending, Built, Outline, Lists, InPlace
<1>10. QED BY <1>4, <1>5, <1>6, <1>7, <1>8, <1>9 DEF Inv

-----------------------------------------------------------------------------
(* Patches.                                                                *)

\* The first of a list and the others.
LEMMA FirstOf ==
  ASSUME NEW ids \in Seq(Nat), ids # <<>>
  PROVE  /\ Tail(ids) \in Seq(Nat) /\ Range(Tail(ids)) \subseteq Range(ids)
         /\ Head(ids) \in Range(ids)
         /\ IsInjective(ids) => IsInjective(Tail(ids)) /\ Head(ids) \notin Range(Tail(ids))
<1> DEFINE rest == Tail(ids)
           n == Len(ids)
<1>1. n \in Nat /\ n > 0 /\ Head(ids) = ids[1]
  OBVIOUS
<1>2. /\ rest \in Seq(Nat) /\ Len(rest) = n - 1
      /\ \A k \in 1..(n - 1) : rest[k] = ids[k + 1]
  BY <1>1, HeadTailProperties
<1> HIDE DEF rest
<1>3. /\ DOMAIN ids = 1..n
      /\ \A x : x \in Range(ids) <=> \E k \in 1..n : ids[k] = x
  BY RangeIs
<1>4. /\ DOMAIN rest = 1..(n - 1)
      /\ \A x : x \in Range(rest) <=> \E k \in 1..(n - 1) : rest[k] = x
  BY <1>2, RangeIs
<1>5. 1 \in 1..n /\ \A k \in 1..(n - 1) : k + 1 \in 1..n /\ k + 1 # 1
  BY <1>1
<1>6. \A j, k \in 1..(n - 1) : j + 1 = k + 1 => j = k
  OBVIOUS
<1> HIDE DEF n
<1>7. Range(rest) \subseteq Range(ids) /\ Head(ids) \in Range(ids)
  BY <1>1, <1>2, <1>3, <1>4, <1>5
<1>8. ASSUME IsInjective(ids) PROVE IsInjective(rest) /\ Head(ids) \notin Range(rest)
  <2>1. \A j, k \in 1..n : ids[j] = ids[k] => j = k
    BY <1>3, <1>8 DEF IsInjective
  <2>2. ASSUME NEW j \in 1..(n - 1), NEW k \in 1..(n - 1), rest[j] = rest[k] PROVE j = k
    <3>1. ids[j + 1] = ids[k + 1] /\ j + 1 \in 1..n /\ k + 1 \in 1..n
      BY <1>2, <1>5, <2>2
    <3>2. QED BY <1>6, <2>1, <3>1
  <2>3. ASSUME NEW k \in 1..(n - 1), rest[k] = Head(ids) PROVE FALSE
    <3>1. ids[k + 1] = ids[1] /\ k + 1 \in 1..n /\ k + 1 # 1
      BY <1>1, <1>2, <1>5, <2>3
    <3>2. QED BY <1>5, <2>1, <3>1
  <2>4. QED BY <1>4, <2>2, <2>3 DEF IsInjective
<1>9. QED BY <1>2, <1>7, <1>8 DEF rest

\* The patch for the id in hand fits, unless it would destroy the root because
\* the project file is gone.
LEMMA PatchForFits ==
  ASSUME Inv, pc = "apply", NEW id, id = Head(todo)
  PROVE  \/ Root \in Range(PatchFor(id).removed) /\ id = Root /\ snap.gone
         \/ Root \notin Range(PatchFor(id).removed) /\ FitPatch(tree, id, PatchFor(id))
<1>1. /\ Consistent(tree) /\ id \in DOMAIN tree.inst
      /\ snap.res.inst = None \/ IsList(snap.res.inst)
  BY DEF Inv, TreeOK, HandOK, IsTyped
<1>2. \A x : Range(<<x>>) = {x}
  BY DEF Range
<1>3. Range(<<>>) = {}
  BY DEF Range
<1>4. CASE ~snap.res.ok
  <2>1. PatchFor(id) = NoPatch /\ NoPatch.removed = <<>>
    BY <1>4 DEF PatchFor, NoPatch
  <2>2. QED BY <1>1, <1>3, <2>1, NoPatchFits
<1>5. CASE snap.res.ok /\ snap.res.inst # None
  <2>1. PatchFor(id) = ComputePatch(tree, id, snap.res.inst)
    BY <1>5 DEF PatchFor
  <2>2. QED BY <1>1, <1>5, <2>1, ComputePatchFits
<1>6. CASE snap.res.ok /\ snap.res.inst = None
  <2>1. PatchFor(id) = IF snap.gone \/ id # Root THEN RemovePatch(id) ELSE NoPatch
    BY <1>6 DEF PatchFor
  <2>2. CASE id # Root
    <3>1. PatchFor(id) = RemovePatch(id) /\ RemovePatch(id).removed = <<id>>
      BY <2>1, <2>2 DEF RemovePatch
    <3>2. QED BY <1>1, <1>2, <2>2, <3>1, RemovePatchFits
  <2>3. CASE id = Root /\ ~snap.gone
    <3>1. PatchFor(id) = NoPatch /\ NoPatch.removed = <<>>
      BY <2>1, <2>3 DEF NoPatch
    <3>2. QED BY <1>1, <1>3, <3>1, NoPatchFits
  <2>4. CASE id = Root /\ snap.gone
    <3>1. PatchFor(id) = RemovePatch(id) /\ RemovePatch(id).removed = <<id>>
      BY <2>1, <2>4 DEF RemovePatch
    <3>2. QED BY <1>2, <2>4, <3>1
  <2>5. QED BY <2>2, <2>3, <2>4
<1>7. QED BY <1>4, <1>5, <1>6

\* What an applied patch says of itself: it names what is new and what has
\* another name, class or metadata, and says whether anything is gone.  Nothing
\* moves.
TellsAll(t, r, m) ==
  /\ m \in Messages
  /\ \A i \in DOMAIN r.inst : i \notin DOMAIN t.inst => i \in m.added
  /\ \A i \in DOMAIN r.inst \cap DOMAIN t.inst :
       /\ r.inst[i].parent = t.inst[i].parent
       /\ i \in m.renewed \/ Outline(r, i) = Outline(t, i)
  /\ (\E i \in DOMAIN t.inst : i \notin DOMAIN r.inst) => m.removed

LEMMA AppliedIs ==
  ASSUME NEW t, Consistent(t), NEW id, NEW p, FitPatch(t, id, p)
  PROVE  TellsAll(t, ApplyPatch(t, p), Applied(t, p))
<1> DEFINE r == ApplyPatch(t, p)
           m == Applied(t, p)
           U == Len(p.updated)
           Other(n) == LET u == p.updated[n]
                           i == t.inst[u.id]
                       IN  u.snap.name # i.name \/ u.snap.class # i.class \/ u.snap.meta # i.meta
<1>1. Patched(t, r, p)
  BY ApplyPatchKeepsIndex
<1>2. m = [removed |-> p.removed # <<>>, added |-> t.next..(r.next - 1),
           renewed |-> {p.updated[n].id : n \in {k \in DOMAIN p.updated : Other(k)}}]
  BY DEF Applied
<1> HIDE DEF r, m
<1>3. /\ t.next \in Nat /\ r.next \in Nat /\ DOMAIN t.inst \in SUBSET Nat
  BY <1>1, TreeIs DEF Patched
<1>4. /\ U \in Nat /\ DOMAIN p.updated = 1..U
      /\ \A n \in 1..U : p.updated[n].id \in DOMAIN t.inst
  BY DEF FitPatch, Stays
<1>5. m \in Messages
  <2>1. t.next..(r.next - 1) \in SUBSET Nat
    BY <1>3
  <2>2. {p.updated[n].id : n \in {k \in DOMAIN p.updated : Other(k)}} \in SUBSET Nat
    BY <1>3, <1>4
  <2>3. (p.removed # <<>>) \in BOOLEAN
    OBVIOUS
  <2>4. QED BY <1>2, <2>1, <2>2, <2>3 DEF Messages
<1>6. \A i \in DOMAIN r.inst : i \notin DOMAIN t.inst => i \in m.added
  BY <1>1, <1>2 DEF Patched, Stays
<1>7. ASSUME NEW i \in DOMAIN r.inst \cap DOMAIN t.inst
      PROVE  /\ r.inst[i].parent = t.inst[i].parent
             /\ i \in m.renewed \/ Outline(r, i) = Outline(t, i)
  <2> DEFINE Differs == \/ r.inst[i].name # t.inst[i].name \/ r.inst[i].class # t.inst[i].class
                        \/ r.inst[i].meta # t.inst[i].meta
  <2>1. UpToDate(t.inst[i], r.inst[i], i, p.updated, U)
    BY <1>1 DEF Patched
  <2>2. ASSUME Differs PROVE i \in m.renewed
    <3>1. PICK k \in 1..U : p.updated[k].id = i /\ IsSame(r.inst[i], p.updated[k].snap)
      BY <2>1, <2>2 DEF UpToDate, Alike
    <3>2. Other(k)
      BY <2>2, <3>1 DEF IsSame
    <3> HIDE DEF Other
    <3>3. QED BY <1>2, <1>4, <3>1, <3>2
  <2>3. r.inst[i].parent = t.inst[i].parent
    BY <2>1 DEF UpToDate
  <2>4. ~Differs => Outline(r, i) = Outline(t, i)
    BY <2>3 DEF Outline
  <2>5. QED BY <2>2, <2>3, <2>4
<1>8. ASSUME NEW i \in DOMAIN t.inst, i \notin DOMAIN r.inst PROVE m.removed
  <2>1. PICK k \in 1..Len(p.removed) : TRUE
    BY <1>1, <1>8 DEF Patched, Stays
  <2>2. p.removed # <<>>
    <3>1. Len(<<>>) = 0 /\ 1..0 = {}
      OBVIOUS
    <3>2. QED BY <2>1, <3>1
  <2>3. QED BY <1>2, <2>2
<1>9. QED BY <1>5, <1>6, <1>7, <1>8 DEF TellsAll, r, m

\* The ids that are left stay apart.
LEMMA StillApart ==
  ASSUME NEW t, Consistent(t), NEW ids \in Seq(Nat), ids # <<>>, IsInjective(ids), Apart(t, ids),
         NEW p, FitPatch(t, Head(ids), p)
  PROVE  Apart(ApplyPatch(t, p), Tail(ids))
<1> DEFINE r == ApplyPatch(t, p)
           id == Head(ids)
<1>1. Patched(t, r, p)
  BY ApplyPatchKeepsIndex
<1> HIDE DEF r
<1>2. Range(Tail(ids)) \subseteq Range(ids) /\ id \in Range(ids) /\ id \notin Range(Tail(ids))
  BY FirstOf
<1> HIDE DEF id
<1>3. ASSUME NEW i \in Range(Tail(ids)) PROVE i \in DOMAIN t.inst \cap DOMAIN r.inst
  <2>1. i \in DOMAIN t.inst /\ id \notin Ancestors(t, i) /\ i # id
    BY <1>2 DEF Apart
  <2>2. i \notin Descendants(t, id)
    BY <2>1 DEF Descendants
  <2>3. Stays(t, p.removed, i)
    BY <2>1, <2>2, PatchIsLocal DEF id
  <2>4. QED BY <1>1, <2>1, <2>3 DEF Patched
<1>4. \A i \in DOMAIN t.inst \cap DOMAIN r.inst : Ancestors(r, i) = Ancestors(t, i)
  <2>1. Consistent(r) /\ \A i \in DOMAIN t.inst \cap DOMAIN r.inst : t.inst[i].parent = r.inst[i].parent
    BY <1>1 DEF Patched, UpToDate
  <2>2. QED BY <2>1, AncestorsStay
<1>5. Apart(r, Tail(ids))
  BY <1>2, <1>3, <1>4 DEF Apart
<1>6. QED BY <1>5 DEF r

\* Messages after others.
LEMMA ConcatMessages ==
  ASSUME NEW ms \in Seq(Messages), NEW ns \in Seq(Messages)
  PROVE  ms \o ns \in Seq(Messages) /\ Range(ms \o ns) = Range(ms) \cup Range(ns)
<1> HIDE DEF Messages
<1> DEFINE j == Len(ms)
           k == Len(ns)
           b == ms \o ns
<1>1. j \in Nat /\ k \in Nat
  BY RangeIs
<1>2. /\ b \in Seq(Messages) /\ Len(b) = j + k
      /\ \A i \in 1..(j + k) : b[i] = IF i <= j THEN ms[i] ELSE ns[i - j]
  BY ConcatProperties
<1> HIDE DEF b
<1>3. \A x : x \in Range(b) <=> \E i \in 1..(j + k) : b[i] = x
  BY <1>2, RangeIs
<1>4. \A x : x \in Range(ms) <=> \E i \in 1..j : ms[i] = x
  BY RangeIs
<1>5. \A x : x \in Range(ns) <=> \E i \in 1..k : ns[i] = x
  BY RangeIs
<1> HIDE DEF j, k
<1>6. \A i \in 1..j : i \in 1..(j + k) /\ b[i] = ms[i]
  BY <1>1, <1>2
<1>7. \A i \in 1..k : i + j \in 1..(j + k) /\ b[i + j] = ns[i]
  <2>1. \A i \in 1..k : i + j \in 1..(j + k) /\ ~(i + j <= j) /\ (i + j) - j = i
    BY <1>1
  <2>2. QED BY <1>2, <2>1
<1>8. \A i \in 1..(j + k) : (i \in 1..j /\ b[i] = ms[i]) \/ (i - j \in 1..k /\ b[i] = ns[i - j])
  <2>1. \A i \in 1..(j + k) : (i <= j /\ i \in 1..j) \/ (~(i <= j) /\ i - j \in 1..k)
    BY <1>1
  <2>2. QED BY <1>2, <2>1
<1>9. Range(b) = Range(ms) \cup Range(ns)
  BY <1>3, <1>4, <1>5, <1>6, <1>7, <1>8
<1>10. QED BY <1>2, <1>9 DEF b

\* The patch of one instance, when the root is not destroyed.
Goes(id, patch, new) ==
  /\ FitPatch(tree, id, patch)
  /\ tree' = ApplyPatch(tree, patch)
  /\ todo' = Tail(todo)
  /\ \/ /\ Tail(todo) = <<>> /\ pc' = "idle"
        /\ queue' = queue \o (patches \o new) /\ patches' = <<>>
     \/ /\ Tail(todo) # <<>> /\ pc' = "read" /\ UNCHANGED queue
        /\ patches' = patches \o new
        /\ changed' = [changed EXCEPT !.begun = TRUE, !.failed = changed.failed \/ ~snap.res.ok]
  /\ stale' \subseteq stale \cup {changed.path} \cup Path \cup {<<>>}
  /\ new = IF patch = NoPatch THEN <<>> ELSE <<Applied(tree, patch)>>
  /\ UNCHANGED <<disk, edits, watches, armed, events, consumer, output, torn>>

LEMMA GoesInv ==
  ASSUME Inv, pc = "apply", NEW id, id = Head(todo), NEW patch, NEW new, Goes(id, patch, new)
  PROVE  Inv'
<1> DEFINE r == ApplyPatch(tree, patch)
           m == Applied(tree, patch)
<1>1. /\ Consistent(tree) /\ IsTyped(snap.res)
      /\ todo \in Seq(Nat) /\ (\A i \in Range(todo) : i < tree.next)
      /\ todo # <<>> /\ IsInjective(todo) /\ changed \in Changes
      /\ ~changed.nested => Apart(tree, todo)
  BY DEF Inv, TreeOK, HandOK
<1>2. Patched(tree, r, patch) /\ TellsAll(tree, r, m)
  BY <1>1, ApplyPatchKeepsIndex, AppliedIs DEF Goes
<1>3. patch = NoPatch => r = tree
  BY NoPatchIsNothing
<1>4. tree' = r
  BY DEF Goes
<1>5. ~changed.nested => Apart(r, Tail(todo))
  BY <1>1, StillApart DEF Goes
<1> HIDE DEF r, m
<1>6. Consistent(r) /\ r.next >= tree.next /\ m \in Messages
  BY <1>2 DEF Patched, TellsAll
<1>7. VfsOK'
  <2>1. stale' \subseteq Path \cup {<<>>}
    BY <1>1 DEF Inv, VfsOK, Goes, Changes
  <2>2. UNCHANGED <<disk, edits, watches, armed, events, torn>>
    BY DEF Goes
  <2>3. QED BY <2>1, <2>2 DEF Inv, VfsOK
<1>8. TreeOK'
  BY <1>4, <1>6 DEF TreeOK, Goes
<1>9. HandOK'
  <2>1. /\ Tail(todo) \in Seq(Nat) /\ Range(Tail(todo)) \subseteq Range(todo)
        /\ IsInjective(Tail(todo))
    BY <1>1, FirstOf
  <2>2. \A i \in Range(Tail(todo)) : i < r.next
    <3>1. \A i \in Range(todo) : i \in Nat /\ i < tree.next
      BY <1>1, RangeIs
    <3>2. QED BY <1>1, <1>6, <2>1, <3>1, OlderStays
  <2>3. todo' = Tail(todo) /\ (pc' = "idle" \/ (pc' = "read" /\ Tail(todo) # <<>>))
    BY DEF Goes
  <2>4. pc' = "read" => changed' \in Changes /\ (changed'.nested <=> changed.nested)
    <3> DEFINE f == changed.failed \/ ~snap.res.ok
    <3>1. f \in BOOLEAN
      OBVIOUS
    <3>2. pc' = "read" => changed' = [changed EXCEPT !.begun = TRUE, !.failed = f]
      BY DEF Goes
    <3> HIDE DEF f
    <3>3. QED BY <1>1, <3>1, <3>2 DEF Changes
  <2>5. QED BY <1>4, <1>5, <2>1, <2>2, <2>3, <2>4 DEF HandOK
<1>10. /\ new \in Seq(Messages)
       /\ \A x \in Range(new) : patch # NoPatch /\ x = m
       /\ patch # NoPatch => m \in Range(new)
  <2>1. new = IF patch = NoPatch THEN <<>> ELSE <<m>>
    BY DEF Goes, m
  <2>2. Range(<<>>) = {} /\ Range(<<m>>) = {m}
    BY DEF Range
  <2>3. <<>> \in Seq(Messages) /\ <<m>> \in Seq(Messages)
    BY <1>6
  <2>4. QED BY <2>1, <2>2, <2>3
<1>11. patches \in Seq(Messages) /\ queue \in Seq(Messages) /\ consumer \in Consumers /\ consumer' = consumer
  BY DEF Inv, MessagesOK, Goes
<1>12. /\ patches' \in Seq(Messages) /\ queue' \in Seq(Messages)
       /\ Range(patches') \cup Range(queue') = Range(patches) \cup Range(queue) \cup Range(new)
  <2>1. patches \o new \in Seq(Messages) /\ Range(patches \o new) = Range(patches) \cup Range(new)
    BY <1>10, <1>11, ConcatMessages
  <2>2. /\ queue \o (patches \o new) \in Seq(Messages)
        /\ Range(queue \o (patches \o new)) = Range(queue) \cup Range(patches) \cup Range(new)
    <3> DEFINE d == patches \o new
    <3> HIDE DEF d
    <3>1. d \in Seq(Messages) /\ Range(d) = Range(patches) \cup Range(new)
      BY <2>1 DEF d
    <3>2. queue \o d \in Seq(Messages) /\ Range(queue \o d) = Range(queue) \cup Range(d)
      BY <1>11, <3>1, ConcatMessages
    <3>3. QED BY <3>1, <3>2 DEF d
  <2>3. Range(<<>>) = {} /\ <<>> \in Seq(Messages)
    BY DEF Range
  <2>4. QED BY <1>11, <2>1, <2>2, <2>3 DEF Goes
<1>13. MessagesOK'
  <2>1. pc' = "read" \/ (pc' = "idle" /\ patches' = <<>>)
    BY DEF Goes
  <2>2. QED BY <1>11, <1>12, <2>1 DEF Inv, MessagesOK
<1>14. PanicsAreExplained'
  BY DEF PanicsAreExplained, Goes
<1>15. Pending' = Pending \cup Range(new)
  BY <1>11, <1>12 DEF Pending
<1>16. output' = output /\ Serving
  BY DEF Goes, Serving
<1>17. ASSUME consumer.pc \in {"wait", "check"} PROVE OutputOK'
  <2>1. /\ consumer.kind = "build" /\ Pending = {} => output = Built(tree)
        /\ consumer.kind = "sourcemap" =>
             /\ \A i \in DOMAIN tree.inst : tree.inst[i].class \in Scripts =>
                  Lists(output, tree, i) \/ \E x \in Pending : i \in x.added \cup x.renewed
             /\ \A e \in output : InPlace(e.node, tree) \/ \E x \in Pending : x.removed
    BY <1>16, <1>17 DEF Inv, OutputOK
  <2>2. CASE patch = NoPatch
    <3>1. tree' = tree /\ Pending' = Pending
      BY <1>3, <1>4, <1>10, <1>15, <2>2
    <3>2. QED BY <1>11, <1>16, <2>1, <3>1 DEF OutputOK, Built, Lists, InPlace, Outline
  <2>3. CASE patch # NoPatch
    <3>1. m \in Pending' /\ Pending \subseteq Pending'
      BY <1>10, <1>15, <2>3
    <3>2. ASSUME consumer.kind = "sourcemap", NEW i \in DOMAIN r.inst, r.inst[i].class \in Scripts
          PROVE  Lists(output, r, i) \/ \E x \in Pending' : i \in x.added \cup x.renewed
      <4>1. CASE i \in m.added \cup m.renewed
        BY <3>1, <4>1
      <4>2. CASE i \notin m.added \cup m.renewed
        <5>1. i \in DOMAIN tree.inst /\ Outline(r, i) = Outline(tree, i)
          BY <1>2, <4>2 DEF TellsAll
        <5>2. tree.inst[i].class \in Scripts
          BY <3>2, <5>1 DEF Outline
        <5>3. QED BY <2>1, <3>1, <3>2, <5>1, <5>2 DEF Lists
      <4>3. QED BY <4>1, <4>2
    <3>3. ASSUME consumer.kind = "sourcemap", NEW e \in output
          PROVE  InPlace(e.node, r) \/ \E x \in Pending' : x.removed
      BY <1>2, <2>1, <3>1, <3>3 DEF TellsAll, InPlace
    <3>4. Pending' # {}
      BY <3>1
    <3>5. QED BY <1>4, <1>11, <1>16, <3>2, <3>3, <3>4 DEF OutputOK, Lists, InPlace, Outline
  <2>4. QED BY <2>2, <2>3
<1>18. OutputOK'
  BY <1>11, <1>17 DEF OutputOK
<1>19. QED BY <1>7, <1>8, <1>9, <1>13, <1>14, <1>18 DEF Inv

LEMMA ApplyInstanceInv ==
  ASSUME Inv, ApplyInstance
  PROVE  Inv'
<1> DEFINE id == Head(todo)
           patch == PatchFor(id)
           new == IF patch = NoPatch THEN <<>> ELSE <<Applied(tree, patch)>>
<1>1. pc = "apply"
  BY DEF ApplyInstance
<1>2. CASE Root \in Range(patch.removed)
  <2>1. id = Root /\ snap.gone
    BY <1>1, <1>2, PatchForFits
  <2>2. /\ pc' = "dead"
        /\ UNCHANGED <<disk, edits, watches, armed, events, todo, snap, changed, tree, patches,
                       queue, consumer, output, stale, torn>>
    BY <1>2 DEF ApplyInstance
  <2>3. VfsOK'
    BY <2>2, VfsKept DEF Inv
  <2>4. TreeOK' /\ HandOK'
    BY <2>2 DEF Inv, TreeOK, HandOK
  <2>5. MessagesOK'
    BY <2>2 DEF Inv, MessagesOK
  <2>6. PanicsAreExplained' /\ OutputOK'
    BY <2>1, <2>2 DEF PanicsAreExplained, OutputOK, Serving
  <2>7. QED BY <2>3, <2>4, <2>5, <2>6 DEF Inv
<1>3. CASE Root \notin Range(patch.removed)
  <2>1. FitPatch(tree, id, patch)
    BY <1>1, <1>3, PatchForFits
  <2>2. LeftBehind(id) \subseteq Path \cup {<<>>}
    BY DEF LeftBehind, Exists
  <2> HIDE DEF patch
  <2>3. Goes(id, patch, new)
    <3>1. /\ tree' = ApplyPatch(tree, patch)
          /\ todo' = Tail(todo)
          /\ pc' = IF Tail(todo) = <<>> THEN "idle" ELSE "read"
          /\ queue' = IF Tail(todo) = <<>> THEN queue \o (patches \o new) ELSE queue
          /\ patches' = IF Tail(todo) = <<>> THEN <<>> ELSE patches \o new
          /\ changed' = IF Tail(todo) = <<>> THEN None
                        ELSE [changed EXCEPT !.begun = TRUE, !.failed = changed.failed \/ ~snap.res.ok]
          /\ stale' \subseteq stale \cup {changed.path} \cup LeftBehind(id)
          /\ UNCHANGED <<disk, edits, watches, armed, events, consumer, output, torn>>
      BY <1>3 DEF ApplyInstance, patch
    <3> HIDE DEF id
    <3>2. stale' \subseteq stale \cup {changed.path} \cup Path \cup {<<>>}
      BY <2>2, <3>1
    <3>3. new = IF patch = NoPatch THEN <<>> ELSE <<Applied(tree, patch)>>
      OBVIOUS
    <3> HIDE DEF new
    <3>4. QED BY <2>1, <3>1, <3>2, <3>3 DEF Goes
  <2> HIDE DEF new
  <2>4. QED BY <1>1, <2>3, GoesInv
<1>4. QED BY <1>2, <1>3

-----------------------------------------------------------------------------
(* The consumer.                                                           *)

LEMMA ReadCursorInv ==
  ASSUME Inv, ReadCursor
  PROVE  Inv'
<1>1. /\ Serving /\ consumer' = [consumer EXCEPT !.pc = "write"] /\ queue' = <<>>
      /\ UNCHANGED <<disk, edits, watches, armed, events, pc, todo, snap, changed, tree,
                     patches, output, stale, torn>>
  BY DEF ReadCursor
<1>2. consumer' \in Consumers /\ consumer'.pc = "write" /\ <<>> \in Seq(Messages)
  <2>1. <<>> \in Seq(Messages)
    OBVIOUS
  <2>2. consumer \in Consumers
    BY DEF Inv, MessagesOK
  <2> HIDE DEF Messages
  <2>3. QED BY <1>1, <2>1, <2>2 DEF Consumers
<1>3. VfsOK' /\ TreeOK' /\ HandOK'
  BY <1>1, VfsKept, HandKept DEF Inv
<1>4. MessagesOK'
  BY <1>1, <1>2 DEF Inv, MessagesOK, Serving
<1>5. PanicsAreExplained' /\ OutputOK'
  BY <1>1, <1>2 DEF PanicsAreExplained, OutputOK, Serving
<1>6. QED BY <1>3, <1>4, <1>5 DEF Inv

LEMMA ReceiveInv ==
  ASSUME Inv, Receive
  PROVE  Inv'
<1>1. /\ consumer.pc = "wait" /\ pc # "dead"
      /\ consumer' = [consumer EXCEPT !.got = queue,
                                      !.pc = IF consumer.kind = "build" THEN "write" ELSE "check"]
      /\ queue' = <<>>
      /\ UNCHANGED <<disk, edits, watches, armed, events, pc, todo, snap, changed, tree,
                     patches, output, stale, torn>>
  BY DEF Receive
<1>2. /\ patches \in Seq(Messages) /\ queue \in Seq(Messages) /\ consumer \in Consumers
      /\ consumer.got = <<>>
  BY <1>1 DEF Inv, MessagesOK
<1>3. /\ consumer' \in Consumers /\ consumer'.got = queue /\ consumer'.kind = consumer.kind
      /\ consumer'.pc = IF consumer.kind = "build" THEN "write" ELSE "check"
  BY <1>1, <1>2 DEF Consumers
<1>4. consumer.kind \in {"build", "sourcemap"}
  BY <1>2 DEF Consumers
<1>5. VfsOK' /\ TreeOK' /\ HandOK'
  BY <1>1, VfsKept, HandKept DEF Inv
<1>6. MessagesOK'
  <2>1. <<>> \in Seq(Messages)
    OBVIOUS
  <2>2. QED BY <1>1, <1>2, <1>3, <1>4, <2>1 DEF Inv, MessagesOK
<1>7. PanicsAreExplained'
  BY <1>1 DEF PanicsAreExplained
<1>8. OutputOK'
  <2>1. Range(<<>>) = {}
    BY DEF Range
  <2>2. Pending' = Pending
    BY <1>1, <1>2, <1>3, <2>1 DEF Pending
  <2>3. QED BY <1>1, <1>3, <2>2 DEF Inv, OutputOK, Serving, Built, Lists, InPlace, Outline
<1>9. QED BY <1>5, <1>6, <1>7, <1>8 DEF Inv

LEMMA CheckPanicsInv ==
  ASSUME Inv, CheckPanics
  PROVE  Inv'
<1>1. /\ pc' = "dead"
      /\ consumer' = [consumer EXCEPT !.pc = "dead", !.got = <<>>]
      /\ UNCHANGED <<disk, edits, watches, armed, events, todo, snap, changed, tree,
                     patches, queue, output, stale, torn>>
  BY DEF CheckPanics
<1>2. consumer' \in Consumers /\ consumer'.pc = "dead"
  <2>1. <<>> \in Seq(Messages)
    OBVIOUS
  <2>2. QED BY <1>1, <2>1 DEF Inv, MessagesOK, Consumers
<1>3. VfsOK'
  BY <1>1, VfsKept DEF Inv
<1>4. TreeOK' /\ HandOK'
  BY <1>1 DEF Inv, TreeOK, HandOK
<1>5. MessagesOK'
  BY <1>1, <1>2 DEF Inv, MessagesOK
<1>6. PanicsAreExplained' /\ OutputOK'
  BY <1>1, <1>2 DEF PanicsAreExplained, OutputOK, Serving
<1>7. QED BY <1>3, <1>4, <1>5, <1>6 DEF Inv

LEMMA CheckInv ==
  ASSUME Inv, Check
  PROVE  Inv'
<1>1. /\ consumer.pc = "check" /\ pc = "idle"
      /\ UNCHANGED <<disk, edits, watches, armed, events, pc, todo, snap, changed, tree,
                     patches, queue, output, stale, torn>>
      /\ \/ consumer' = [consumer EXCEPT !.pc = "write", !.got = <<>>]
         \/ /\ ~\E m \in Range(consumer.got) : Affects(m) \/ NamesTheDead(m)
            /\ consumer' = [consumer EXCEPT !.pc = "wait", !.got = <<>>]
  BY DEF Check
<1>2. /\ consumer \in Consumers /\ consumer.kind = "sourcemap"
  BY <1>1 DEF Inv, MessagesOK
<1>3. /\ consumer' \in Consumers /\ consumer'.kind = "sourcemap" /\ consumer'.got = <<>>
      /\ \/ consumer'.pc = "write"
         \/ /\ consumer'.pc = "wait"
            /\ ~\E m \in Range(consumer.got) : Affects(m) \/ NamesTheDead(m)
  <2>1. <<>> \in Seq(Messages)
    OBVIOUS
  <2>2. QED BY <1>1, <1>2, <2>1 DEF Consumers
<1>4. VfsOK' /\ TreeOK' /\ HandOK'
  BY <1>1, VfsKept, HandKept DEF Inv
<1>5. MessagesOK'
  BY <1>1, <1>3 DEF Inv, MessagesOK
<1>6. PanicsAreExplained'
  BY <1>1 DEF PanicsAreExplained
<1>7. OutputOK'
  <2>1. CASE consumer'.pc = "write"
    BY <2>1 DEF OutputOK
  <2>2. CASE ~\E m \in Range(consumer.got) : Affects(m) \/ NamesTheDead(m)
    <3>1. Range(<<>>) = {}
      BY DEF Range
    <3>2. \A m \in Pending : m \in Range(consumer.got) \/ m \in Pending'
      BY <1>1, <1>3, <3>1 DEF Pending
    <3>3. /\ \A i \in DOMAIN tree.inst : tree.inst[i].class \in Scripts =>
               Lists(output, tree, i) \/ \E m \in Pending : i \in m.added \cup m.renewed
          /\ \A e \in output : InPlace(e.node, tree) \/ \E m \in Pending : m.removed
      BY <1>1, <1>2 DEF Inv, OutputOK, Serving
    <3>4. ASSUME NEW i \in DOMAIN tree.inst, tree.inst[i].class \in Scripts
          PROVE  Lists(output, tree, i) \/ \E m \in Pending' : i \in m.added \cup m.renewed
      <4>1. \A m \in Range(consumer.got) : i \notin m.added \cup m.renewed
        BY <2>2, <3>4 DEF Affects
      <4>2. QED BY <3>2, <3>3, <3>4, <4>1
    <3>5. ASSUME NEW e \in output
          PROVE  InPlace(e.node, tree) \/ \E m \in Pending' : m.removed
      <4>1. \A m \in Range(consumer.got) : ~m.removed
        BY <2>2 DEF Affects
      <4>2. QED BY <3>2, <3>3, <4>1
    <3>6. QED BY <1>1, <1>3, <3>4, <3>5 DEF OutputOK, Lists, InPlace, Outline
  <2>3. QED BY <1>3, <2>1, <2>2
<1>8. QED BY <1>4, <1>5, <1>6, <1>7 DEF Inv

LEMMA WriteOutputInv ==
  ASSUME Inv, WriteOutput
  PROVE  Inv'
<1>1. /\ pc = "idle"
      /\ output' = IF consumer.kind = "build" THEN Built(tree) ELSE Sourcemap(tree)
      /\ consumer' = [consumer EXCEPT !.pc = "wait", !.got = <<>>]
      /\ UNCHANGED <<disk, edits, watches, armed, events, pc, todo, snap, changed, tree,
                     patches, queue, stale, torn>>
  BY DEF WriteOutput
<1>2. /\ consumer' \in Consumers /\ consumer'.kind = consumer.kind
      /\ consumer'.pc = "wait" /\ consumer'.got = <<>>
  <2>1. <<>> \in Seq(Messages)
    OBVIOUS
  <2>2. QED BY <1>1, <2>1 DEF Inv, MessagesOK, Consumers
<1>3. VfsOK' /\ TreeOK' /\ HandOK'
  BY <1>1, VfsKept, HandKept DEF Inv
<1>4. MessagesOK'
  BY <1>1, <1>2 DEF Inv, MessagesOK
<1>5. PanicsAreExplained'
  BY <1>1 DEF PanicsAreExplained
<1>6. OutputOK'
  <2>1. Consistent(tree)
    BY DEF Inv, TreeOK
  <2>2. consumer.kind = "sourcemap" =>
          /\ \A e \in output' : InPlace(e.node, tree)
          /\ \A i \in DOMAIN tree.inst : tree.inst[i].class \in Scripts => Lists(output', tree, i)
    BY <1>1, <2>1, SourcemapIs
  <2>3. QED BY <1>1, <1>2, <2>2 DEF OutputOK, Built, Lists, InPlace, Outline
<1>7. QED BY <1>3, <1>4, <1>5, <1>6 DEF Inv

-----------------------------------------------------------------------------
(* The theorems.                                                           *)

\* Every step keeps the invariant.
LEMMA NextInv ==
  ASSUME MiddlewareIsTyped, Inv, [Next]_vars
  PROVE  Inv'
<1>1. CASE Edit
  BY <1>1, EditInv
<1>2. CASE Boot
  BY <1>2, BootInv
<1>3. CASE FinishBoot
  BY <1>3, FinishBootInv
<1>4. CASE TakeEvent
  BY <1>4, TakeEventInv
<1>5. CASE ReadInstance
  BY <1>5, ReadInstanceInv
<1>6. CASE WatchInstance
  BY <1>6, WatchInstanceInv
<1>7. CASE ApplyInstance
  BY <1>7, ApplyInstanceInv
<1>8. CASE ReadCursor
  BY <1>8, ReadCursorInv
<1>9. CASE Receive
  BY <1>9, ReceiveInv
<1>10. CASE CheckPanics
  BY <1>10, CheckPanicsInv
<1>11. CASE Check
  BY <1>11, CheckInv
<1>12. CASE WriteOutput
  BY <1>12, WriteOutputInv
<1>13. CASE UNCHANGED vars
  BY <1>13, VfsKept, HandKept, MessagesKept, PanicsKept, OutputKept DEF vars, Inv
<1>14. QED BY <1>1, <1>2, <1>3, <1>4, <1>5, <1>6, <1>7, <1>8, <1>9, <1>10, <1>11, <1>12, <1>13
           DEF Next, Processor, Consumer

LEMMA Invariance ==
  ASSUME MiddlewareIsTyped
  PROVE  Spec => []Inv
<1>1. Init => Inv
  BY InitInv
<1>2. Inv /\ [Next]_vars => Inv'
  BY NextInv
<1>3. QED BY <1>1, <1>2, PTL DEF Spec

\* The types of ProjectSync: the ids in hand were given by this tree, and what
\* is about to be applied is a result of the middleware.
THEOREM ProjectSyncTypes ==
  ASSUME MiddlewareIsTyped
  PROVE  Spec => []TypeOK
<1>1. Inv => TypeOK
  <2> SUFFICES ASSUME Inv PROVE TypeOK
    OBVIOUS
  <2>1. Consistent(tree)
    BY DEF Inv, TreeOK
  <2>2. tree.next \in Nat /\ DOMAIN tree.inst \in SUBSET Nat /\ Root \in DOMAIN tree.inst
        /\ \A i \in DOMAIN tree.inst : i < tree.next
    BY <2>1, TreeIs DEF Consistent
  <2>3. \A i \in Range(todo) : i \in Nat /\ i < tree.next
    BY RangeIs DEF Inv, HandOK
  <2>4. \A i \in Nat : i < tree.next => i \in Ids
    BY <2>2 DEF Ids
  <2>5. Range(todo) \subseteq Ids /\ DOMAIN tree.inst \subseteq Ids
    BY <2>2, <2>3, <2>4
  <2>6. consumer.pc \in {"new", "wait", "check", "write", "dead"}
    BY DEF Inv, MessagesOK, Consumers
  <2>7. pc \in {"booting", "watch", "apply"} => IsResult(snap.res)
    BY DEF Inv, HandOK, IsTyped
  <2>8. pc \in {"boot", "booting", "idle", "read", "watch", "apply", "failed", "dead"}
    BY DEF Inv, HandOK
  <2>9. QED BY <2>2, <2>5, <2>6, <2>7, <2>8 DEF Inv, VfsOK, TypeOK
<1>2. QED BY <1>1, Invariance, PTL

\* RojoTree, through any sequence of patches for any snapshots: path_to_ids is
\* exactly the inverse of relevant_paths, and parents and children agree.
THEOREM IndexStaysExact ==
  ASSUME MiddlewareIsTyped
  PROVE  Spec => []PathIndexIsExact
<1>1. Inv => PathIndexIsExact
  BY DEF Inv, TreeOK, Consistent, PathIndexIsExact
<1>2. QED BY <1>1, Invariance, PTL

\* The change processor panics only when the project file is deleted, or on an
\* event that concerns an instance and one below it.
THEOREM OnlyExplainedPanics ==
  ASSUME MiddlewareIsTyped
  PROVE  Spec => []PanicsAreExplained
<1>1. Inv => PanicsAreExplained
  BY DEF Inv
<1>2. QED BY <1>1, Invariance, PTL

\* When nothing is pending, build --watch has written the tree as it is, and
\* sourcemap --watch every script of it with its name, class, paths and place,
\* and nothing that is gone or elsewhere.
THEOREM OutputCatchesUp ==
  ASSUME MiddlewareIsTyped
  PROVE  Spec => []OutputIsCurrent
<1>1. Inv => OutputIsCurrent
  <2> SUFFICES ASSUME Inv, Settled, queue = <<>>, consumer.pc = "wait"
               PROVE  IF consumer.kind = "build" THEN output = Built(tree)
                      ELSE /\ \A i \in DOMAIN tree.inst :
                                tree.inst[i].class \in Scripts => Lists(output, tree, i)
                           /\ \A e \in output : InPlace(e.node, tree)
    BY DEF OutputIsCurrent, Lists, InPlace
  <2>1. pc = "idle" /\ patches = <<>> /\ consumer.got = <<>> /\ consumer.kind \in {"build", "sourcemap"}
    BY DEF Inv, MessagesOK, Settled, Consumers
  <2>2. Range(<<>>) = {}
    BY DEF Range
  <2>3. Pending = {}
    BY <2>1, <2>2 DEF Pending
  <2>4. QED BY <2>1, <2>3 DEF Inv, OutputOK, Serving
<1>2. QED BY <1>1, Invariance, PTL

-----------------------------------------------------------------------------
(* What a step may do to the tree.                                         *)

\* Taking an instance out.
LEMMA RemovalIsLocal ==
  ASSUME NEW t, Consistent(t), NEW id \in DOMAIN t.inst \ {Root}
  PROVE  LET r == ApplyPatch(t, RemovePatch(id))
         IN  /\ id \notin DOMAIN r.inst
             /\ \A i \in DOMAIN t.inst \ Descendants(t, id) : i \in DOMAIN r.inst /\ Alike(t.inst[i], r.inst[i])
<1> DEFINE p == RemovePatch(id)
           r == ApplyPatch(t, p)
<1>1. p.removed = <<id>> /\ p.updated = <<>>
  BY DEF RemovePatch
<1>2. FitPatch(t, id, p)
  BY RemovePatchFits
<1> HIDE DEF p
<1>3. Patched(t, r, p)
  BY <1>2, ApplyPatchKeepsIndex
<1> HIDE DEF r
<1>4. Len(<<id>>) = 1 /\ <<id>>[1] = id /\ 1 \in 1..1 /\ Len(<<>>) = 0 /\ 1..0 = {}
  OBVIOUS
<1>5. id \notin DOMAIN r.inst
  <2>1. ~Stays(t, p.removed, id)
    BY <1>1, <1>4 DEF Stays
  <2>2. id \notin t.next..(r.next - 1)
    <3>1. t.next \in Nat /\ r.next \in Nat /\ id \in Nat /\ id < t.next
      BY <1>3, TreeIs DEF Patched, Consistent
    <3>2. QED BY <3>1
  <2>3. QED BY <1>3, <2>1, <2>2 DEF Patched
<1>6. ASSUME NEW i \in DOMAIN t.inst \ Descendants(t, id)
      PROVE  i \in DOMAIN r.inst /\ Alike(t.inst[i], r.inst[i])
  <2>1. i \in DOMAIN r.inst
    BY <1>2, <1>3, PatchIsLocal DEF Patched
  <2>2. UpToDate(t.inst[i], r.inst[i], i, p.updated, Len(p.updated))
    BY <1>3, <2>1 DEF Patched
  <2>3. QED BY <1>1, <1>4, <2>1, <2>2 DEF UpToDate
<1>7. QED BY <1>5, <1>6 DEF r, p

\* The tree changes in one way only: what is at and below one instance becomes
\* exactly the snapshot that was just read for it, or goes when there is none.
\* Everything else keeps its name, class, properties, metadata and parent.
TreeIsRead ==
  tree' # tree =>
    \E id \in DOMAIN tree.inst :
      /\ id = IF pc = "booting" THEN Root ELSE Head(todo)
      /\ IF snap.res.inst = None THEN id \notin DOMAIN tree'.inst
         ELSE \E f : Mirrors(tree', id, snap.res.inst, f)
      /\ \A i \in DOMAIN tree.inst \ Descendants(tree, id) :
           i \in DOMAIN tree'.inst /\ Alike(tree.inst[i], tree'.inst[i])

\* compute_and_apply_changes and ServeSession::new, however edits and events
\* interleave: no step loses, repeats or misplaces an instance of a snapshot,
\* or touches what is outside.
THEOREM TreeFollowsSnapshots ==
  ASSUME MiddlewareIsTyped
  PROVE  Spec => [][TreeIsRead]_vars
<1>1. ASSUME Inv, FinishBoot, tree' # tree PROVE TreeIsRead
  <2>1. /\ pc = "booting" /\ tree = EmptyTree /\ Consistent(tree) /\ Root \in DOMAIN tree.inst
        /\ IsTyped(snap.res) /\ snap.res.inst # None
    BY <1>1 DEF FinishBoot, Inv, TreeOK, HandOK, Consistent
  <2>2. tree' = ApplyPatch(tree, ComputePatch(tree, Root, snap.res.inst))
    BY <1>1, <2>1 DEF FinishBoot
  <2>3. IsList(snap.res.inst) /\ IsPreorder(snap.res.inst)
    BY <2>1 DEF IsTyped, IsResult
  <2>4. QED BY <2>1, <2>2, <2>3, PatchMakesSnapshot DEF TreeIsRead
<1>2. ASSUME Inv, ApplyInstance, tree' # tree PROVE TreeIsRead
  <2> DEFINE id == Head(todo)
             patch == PatchFor(id)
  <2>1. /\ pc = "apply" /\ Consistent(tree) /\ IsTyped(snap.res) /\ id \in DOMAIN tree.inst
    BY <1>2 DEF ApplyInstance, Inv, TreeOK, HandOK
  <2>2. tree' = ApplyPatch(tree, patch) /\ Root \notin Range(patch.removed)
    BY <1>2 DEF ApplyInstance
  <2>3. patch # NoPatch
    BY <1>2, <2>2, NoPatchIsNothing
  <2>4. \/ snap.res.inst # None /\ patch = ComputePatch(tree, id, snap.res.inst)
        \/ snap.res.inst = None /\ patch = RemovePatch(id)
    BY <2>3 DEF PatchFor
  <2> HIDE DEF id, patch
  <2>5. CASE snap.res.inst # None /\ patch = ComputePatch(tree, id, snap.res.inst)
    <3>1. IsList(snap.res.inst) /\ IsPreorder(snap.res.inst)
      BY <2>1, <2>5 DEF IsTyped, IsResult
    <3>2. QED BY <2>1, <2>2, <2>5, <3>1, PatchMakesSnapshot DEF TreeIsRead, id
  <2>6. CASE snap.res.inst = None /\ patch = RemovePatch(id)
    <3>1. id # Root
      <4>1. id \in Range(patch.removed)
        BY <2>6 DEF RemovePatch, Range
      <4>2. QED BY <2>2, <4>1
    <3>2. QED BY <2>1, <2>2, <2>6, <3>1, RemovalIsLocal DEF TreeIsRead, id
  <2>7. QED BY <2>4, <2>5, <2>6
<1>3. ASSUME Inv, [Next]_vars PROVE [TreeIsRead]_vars
  <2>1. CASE tree' = tree
    BY <2>1 DEF TreeIsRead
  <2>2. CASE tree' # tree
    <3>1. Next
      BY <1>3, <2>2 DEF vars
    <3>2. FinishBoot \/ ApplyInstance
      BY <2>2, <3>1 DEF Next, Edit, Write, MakeDir, Delete, Processor, Boot, TakeEvent,
                        ReadInstance, WatchInstance, Consumer, ReadCursor, Receive, CheckPanics, Check, WriteOutput
    <3>3. QED BY <1>1, <1>2, <1>3, <2>2, <3>2
  <2>3. QED BY <2>1, <2>2
<1>4. QED BY <1>3, Invariance, PTL DEF Spec
=============================================================================
