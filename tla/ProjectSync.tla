----------------------------- MODULE ProjectSync -----------------------------
(***************************************************************************)
(* A project being served: the disk and the watches of the Vfs, the        *)
(* RojoTree with its path index, the change processor that routes each     *)
(* event to the instances it may concern, and one consumer of the message  *)
(* queue, `build --watch` or `sourcemap --watch`.                          *)
(*                                                                         *)
(* The processor reads the disk in one step and watches what it read in    *)
(* the next: a change in between is what a Vfs read followed by a watch    *)
(* can miss.                                                               *)
(***************************************************************************)
EXTENDS RojoTree

(* The snapshot middleware is a parameter: a function of a context, a disk *)
(* and a path, or the arguments of a project node, to a result whose       *)
(* instance is None or a list.                                             *)
CONSTANTS SnapshotFromPath(_, _, _),
          SnapshotFromNode(_, _, _, _, _, _),
          InitialDisks,   \* the disks the server may be started on
          Contents(_),    \* the contents a file may be given
          Folders,        \* the paths that may become directories
          RootProject,    \* the project file that is served
          MaxEdits        \* bound: changes of the disk

Disks == [Path -> {Absent, Folder} \cup UNION {Contents(p) : p \in Path}]

ASSUME DiskAssumption ==
  /\ Folder # Absent /\ \A p \in Path : Folder \notin Contents(p)
  /\ \A d \in InitialDisks : d \in Disks /\ \A p \in Path : d[p] = Folder => p \in Folders
ASSUME MaxEditsAssumption == MaxEdits \in Nat

VARIABLES
  disk,      \* path -> Absent, Folder or a content
  edits,     \* changes so far
  watches,   \* StdBackend.watches
  armed,     \* the watches whose directory or file the OS still has
  events,    \* VfsEvents the change processor has not taken
  pc,        \* of the change processor: boot, booting, idle, read, watch, apply, failed, dead
  todo,      \* affected ids still to handle
  snap,      \* the snapshot for the current id, and whether its source was gone
  changed,   \* the event in hand: its path, whether an id was handled, whether one
             \* failed, whether one of them is above another
  tree,      \* [inst: id -> instance, paths: path -> ids, next: fresh id]
  patches,   \* applied patches of the event in hand
  queue,     \* messages the consumer has not received
  consumer,  \* [kind, pc, got]; pc: new, wait, check, write, dead
  output,    \* what the consumer last wrote
  stale,     \* history: changed paths no snapshot has taken into account
  torn       \* history: a change came between the snapshots of two ids of one event

vars == <<disk, edits, watches, armed, events, pc, todo, snap, changed, tree,
          patches, queue, consumer, output, stale, torn>>

Scripts == {"Script", "LocalScript", "ModuleScript"}

------------------------------------------------------------------

(* The AppliedPatchSet, as far as the consumers look at it: the ids added, *)
(* whether anything was removed, the ids whose name, class or metadata     *)
(* changed.                                                                *)
Applied(t, p) ==
  [removed |-> p.removed # <<>>,
   added |-> t.next..(ApplyPatch(t, p).next - 1),
   renewed |-> {p.updated[n].id : n \in {m \in DOMAIN p.updated :
                  LET u == p.updated[m]
                      i == t.inst[u.id]
                  IN  u.snap.name # i.name \/ u.snap.class # i.class \/ u.snap.meta # i.meta}}]

-----------------------------------------------------------------------------
(* StdBackend::watch after each successful read: nothing to do under a     *)
(* path that is in the set, whether the OS still watches it or not.        *)
Covered(ws, p) == \E w \in ws : IsPrefix(w, p)
NewWatches(reads) ==
  {p \in reads : ~Covered(watches, p) /\ ~\E q \in reads : q # p /\ IsPrefix(q, p)}

(* As if the set of watches were not kept. *)
WatchUncounted(reads) ==
  /\ \A p \in NewWatches(reads) : Exists(disk, p)
  /\ armed' = armed \cup NewWatches(reads)
  /\ UNCHANGED watches

Watch(reads) ==
  /\ \A p \in NewWatches(reads) : Exists(disk, p)
  /\ watches' = watches \cup NewWatches(reads)
  /\ armed' = armed \cup NewWatches(reads)

(* The OS refuses one of them, because the path has gone or because it has *)
(* no watches left: the read fails, after the others that came before it.  *)
(* The path is in the set all the same.                                    *)
WatchFails(reads) ==
  \E p \in NewWatches(reads) : \E before \in SUBSET (NewWatches(reads) \ {p}) :
    /\ \A q \in before : Exists(disk, q)
    /\ watches' = watches \cup before \cup {p}
    /\ armed' = armed \cup before

(* As if only the first instance at a path were handled. *)
AffectedIdsFirst(p) ==
  LET known == {n \in 1..Len(p) : SubSeq(p, 1, n) \in Path /\ tree.paths[SubSeq(p, 1, n)] # <<>>}
  IN  IF known = {} THEN <<>>
      ELSE <<Head(tree.paths[SubSeq(p, 1, CHOOSE n \in known : \A m \in known : m <= n)])>>

(* apply_patches: the ids at the nearest path that has any. *)
AffectedIds(p) ==
  LET known == {n \in 1..Len(p) : SubSeq(p, 1, n) \in Path /\ tree.paths[SubSeq(p, 1, n)] # <<>>}
  IN  IF known = {} THEN <<>>
      ELSE tree.paths[SubSeq(p, 1, CHOOSE n \in known : \A m \in known : m <= n)]

(* Some ids of the event in hand have been read and others have not. *)
BetweenIds ==
  \/ pc \in {"watch", "apply"} /\ Len(todo) > 1
  \/ pc = "read" /\ changed.begun

(* External: the operating system reports a change under a live watch.     *)
Notify(es) ==
  /\ LET heard == InOrder(Len(es), {n \in DOMAIN es : Covered(armed, es[n].path)})
     IN  events' = events \o [k \in DOMAIN heard |-> es[heard[k]]]
  /\ stale' = stale \cup {e.path : e \in {x \in Range(es) : ~Covered(armed, x.path)}}
  /\ torn' = (torn \/ BetweenIds)

Event(kind, p) == [kind |-> kind, path |-> p]

(* External: the user's edits. *)
MayEdit == edits < MaxEdits /\ pc # "boot"

Write(p, c) ==
  /\ MayEdit
  /\ p \notin Folders /\ IsDir(disk, Parent(p)) /\ disk[p] # c
  /\ disk' = [disk EXCEPT ![p] = c]
  /\ Notify(<<Event(IF disk[p] = Absent THEN "create" ELSE "write", p)>>)
  /\ edits' = edits + 1
  /\ UNCHANGED <<watches, armed, pc, todo, snap, changed, tree, patches, queue, consumer, output>>

MakeDir(p) ==
  /\ MayEdit
  /\ p \in Folders /\ IsDir(disk, Parent(p)) /\ disk[p] = Absent
  /\ disk' = [disk EXCEPT ![p] = Folder]
  /\ Notify(<<Event("create", p)>>)
  /\ edits' = edits + 1
  /\ UNCHANGED <<watches, armed, pc, todo, snap, changed, tree, patches, queue, consumer, output>>

Delete(p) ==
  LET gone == {q \in Path : IsPrefix(p, q) /\ disk[q] # Absent}
      below == SetToSeq(gone \ {p})
  IN  /\ MayEdit
      /\ disk[p] # Absent
      /\ disk' = [q \in Path |-> IF q \in gone THEN Absent ELSE disk[q]]
      /\ Notify([n \in DOMAIN below |-> Event("remove", below[n])] \o <<Event("remove", p)>>)
      /\ armed' = {w \in armed : ~IsPrefix(p, w)}
      /\ edits' = edits + 1
      /\ UNCHANGED <<watches, pc, todo, snap, changed, tree, patches, queue, consumer, output>>

-----------------------------------------------------------------------------
(* ServeSession::new: snapshot the project into an empty tree.  An error   *)
(* ends the command.                                                       *)
Boot ==
  LET s == SnapshotFromPath(DefaultContext, disk, RootProject)
  IN  /\ pc = "boot"
      /\ pc' = IF s.ok /\ s.inst # None THEN "booting" ELSE "failed"
      /\ snap' = [res |-> s, gone |-> FALSE]
      /\ UNCHANGED <<disk, edits, watches, armed, events, todo, changed, tree, patches,
                     queue, consumer, output, stale, torn>>

(* The watches of what was read.  A watch that fails is an error as well. *)
FinishBoot ==
  LET boot == ComputePatch(EmptyTree, Root, snap.res.inst)
  IN  /\ pc = "booting"
      /\ \/ /\ Watch(snap.res.reads)
            /\ tree' = ApplyPatch(EmptyTree, boot)
            /\ pc' = "idle" /\ snap' = None
         \/ /\ WatchFails(snap.res.reads)
            /\ pc' = "failed"
            /\ UNCHANGED <<tree, snap>>
      /\ UNCHANGED <<disk, edits, events, todo, changed, patches, queue, consumer, output, stale, torn>>

(* handle_vfs_event up to the first snapshot.  commit_event unwatches a    *)
(* removed path.                                                           *)
TakeEvent ==
  LET e == Head(events)
      ids == AffectedIds(e.path)
  IN  /\ pc = "idle" /\ events # <<>>
      /\ events' = Tail(events)
      /\ watches' = IF e.kind = "remove" THEN watches \ {e.path} ELSE watches
      /\ armed' = IF e.kind = "remove" THEN armed \ {e.path} ELSE armed
      /\ IF ids = <<>>
         THEN /\ stale' = stale \cup {e.path}
              /\ UNCHANGED <<pc, todo, changed>>
         ELSE /\ pc' = "read" /\ todo' = ids
              /\ changed' = [path |-> e.path, begun |-> FALSE, failed |-> FALSE,
                              nested |-> \E i \in Range(ids) : Ancestors(tree, i) \cap Range(ids) # {}]
              /\ UNCHANGED stale
      /\ UNCHANGED <<disk, edits, snap, tree, patches, queue, consumer, output, torn>>

(* The stale paths that a snapshot takes into account. *)
Seen(s) == IF s.ok THEN {p \in stale : p \in s.looks \/ Parent(p) \in s.reads} ELSE {}

(* compute_and_apply_changes: the snapshot that the metadata of an         *)
(* instance asks for.  An instance without a source is left as it is.      *)
SnapshotFor(m, d) ==
  LET gone == m.src # None /\ m.src.kind = "path" /\ ~Exists(d, m.src.path)
  IN  [gone |-> gone,
       res |-> CASE m.src = None -> Err({}, {})
                 [] m.src # None /\ m.src.kind = "node" ->
                      SnapshotFromNode(m.ctx, d, m.src.path, m.src.name, m.src.node, m.src.parentClass)
                 [] OTHER -> IF gone THEN Ok(None, {}, {m.src.path})
                             ELSE SnapshotFromPath(m.ctx, d, m.src.path)]

(* The reading half.  The metadata of an id that has left the tree is a    *)
(* panic.                                                                  *)
ReadInstance ==
  LET id == Head(todo)
      s == SnapshotFor(tree.inst[id].meta, disk)
  IN  /\ pc = "read"
      /\ IF id \in DOMAIN tree.inst
         THEN pc' = "watch" /\ snap' = s /\ stale' = stale \ Seen(s.res)
         ELSE pc' = "dead" /\ UNCHANGED <<snap, stale>>
      /\ UNCHANGED <<disk, edits, watches, armed, events, todo, changed, tree, patches,
                     queue, consumer, output, torn>>

(* The watches of what was read.  An error counts like one of the read. *)
WatchInstance ==
  /\ pc = "watch" /\ pc' = "apply"
  /\ \/ /\ Watch(snap.res.reads)
        /\ UNCHANGED <<snap, stale>>
     \/ /\ WatchFails(snap.res.reads)
        /\ snap' = [res |-> Err({}, {}), gone |-> snap.gone]
        /\ stale' = stale \cup (Path \cap (snap.res.reads \cup snap.res.looks))
  /\ UNCHANGED <<disk, edits, events, todo, changed, tree, patches, queue, consumer, output, torn>>

(* compute_patch_set.  A missing source removes its instance; a snapshot   *)
(* that is Ok(None) does so except for the root.                           *)
PatchFor(id) ==
  CASE ~snap.res.ok -> NoPatch
    [] snap.res.ok /\ snap.res.inst # None -> ComputePatch(tree, id, snap.res.inst)
    [] OTHER -> IF snap.gone \/ id # Root THEN RemovePatch(id) ELSE NoPatch

(* What removing an instance leaves behind: a directory whose project file *)
(* was deleted has no instance any more.                                   *)
LeftBehind(id) ==
  LET p == tree.inst[id].meta.src.path
  IN  IF snap.gone /\ NameOf(p) \in Range(DefaultProjects) /\ Exists(disk, Parent(p))
      THEN {Parent(p)} ELSE {}

(* The other half.  Destroying the root is a panic.  After the last id the *)
(* patches are pushed.                                                     *)
ApplyInstance ==
  LET id == Head(todo)
      patch == PatchFor(id)
      done == patches \o (IF patch = NoPatch THEN <<>> ELSE <<Applied(tree, patch)>>)
      last == Tail(todo) = <<>>
      failed == changed.failed \/ ~snap.res.ok
  IN  /\ pc = "apply"
      /\ IF Root \in Range(patch.removed)
         THEN /\ pc' = "dead"
              /\ UNCHANGED <<todo, snap, changed, tree, patches, queue, stale>>
         ELSE /\ tree' = ApplyPatch(tree, patch)
              /\ todo' = Tail(todo) /\ snap' = None
              /\ pc' = IF last THEN "idle" ELSE "read"
              /\ queue' = IF last THEN queue \o done ELSE queue
              /\ patches' = IF last THEN <<>> ELSE done
              /\ changed' = IF last THEN None ELSE [changed EXCEPT !.begun = TRUE, !.failed = failed]
              /\ stale' = stale \cup (IF last /\ failed THEN {changed.path} ELSE {})
                                \cup LeftBehind(id)
      /\ UNCHANGED <<disk, edits, watches, armed, events, consumer, output, torn>>

-----------------------------------------------------------------------------
(* The consumer starts behind the change processor: what is pushed before  *)
(* its cursor() never reaches it.                                          *)
Serving == pc \in {"idle", "read", "watch", "apply"}

ReadCursor ==
  /\ consumer.pc = "new" /\ Serving
  /\ consumer' = [consumer EXCEPT !.pc = "write"]
  /\ queue' = <<>>
  /\ UNCHANGED <<disk, edits, watches, armed, events, pc, todo, snap, changed, tree,
                 patches, output, stale, torn>>

(* subscribe: all messages since its cursor. *)
Receive ==
  /\ consumer.pc = "wait" /\ queue # <<>> /\ pc # "dead"
  /\ consumer' = [consumer EXCEPT !.got = queue,
                                  !.pc = IF consumer.kind = "build" THEN "write" ELSE "check"]
  /\ queue' = <<>>
  /\ UNCHANGED <<disk, edits, watches, armed, events, pc, todo, snap, changed, tree,
                 patches, output, stale, torn>>

(* As if removals did not count. *)
AffectsByAdditions(m) ==
  \E id \in (m.added \cup m.renewed) \cap DOMAIN tree.inst :
    tree.inst[id].class \in Scripts

(* patch_set_affects_sourcemap, under the lock of the tree.  A message     *)
(* that names an id which has left the tree is a panic, unless the         *)
(* parallel search ends before it comes to that id.                        *)
Affects(m) ==
  \/ m.removed
  \/ \E id \in (m.added \cup m.renewed) \cap DOMAIN tree.inst :
       tree.inst[id].class \in Scripts
NamesTheDead(m) ==
  ~m.removed /\ ~(m.added \cup m.renewed \subseteq DOMAIN tree.inst)

CheckPanics ==
  /\ consumer.pc = "check" /\ pc = "idle"
  /\ \E m \in Range(consumer.got) : NamesTheDead(m)
  /\ pc' = "dead"
  /\ consumer' = [consumer EXCEPT !.pc = "dead", !.got = <<>>]
  /\ UNCHANGED <<disk, edits, watches, armed, events, todo, snap, changed, tree,
                 patches, queue, output, stale, torn>>

Check ==
  /\ consumer.pc = "check" /\ pc = "idle"
  /\ \/ /\ \E m \in Range(consumer.got) : Affects(m)
        /\ consumer' = [consumer EXCEPT !.pc = "write", !.got = <<>>]
     \/ /\ ~\E m \in Range(consumer.got) : Affects(m) \/ NamesTheDead(m)
        /\ consumer' = [consumer EXCEPT !.pc = "wait", !.got = <<>>]
  /\ UNCHANGED <<disk, edits, watches, armed, events, pc, todo, snap, changed, tree,
                 patches, queue, output, stale, torn>>

(* What the sourcemap says of an instance, and what holds it.              *)
Outline(t, i) ==
  [id |-> i, name |-> t.inst[i].name, class |-> t.inst[i].class,
   rel |-> Range(t.inst[i].meta.rel), parent |-> t.inst[i].parent]

(* The contents of the output file.  For build every instance; for         *)
(* sourcemap the scripts and what is above one, each with those of its     *)
(* relevant paths that are a file now.                                     *)
Built(t) ==
  {[id |-> i, name |-> t.inst[i].name, class |-> t.inst[i].class,
    props |-> t.inst[i].props, parent |-> t.inst[i].parent] : i \in DOMAIN t.inst}
Sourcemap(t) ==
  LET scripts == {i \in DOMAIN t.inst : t.inst[i].class \in Scripts}
  IN  {[node |-> Outline(t, i),
        files |-> {p \in Range(t.inst[i].meta.rel) : Exists(disk, p) /\ ~IsDir(disk, p)}] :
        i \in scripts \cup UNION {Ancestors(t, i) : i \in scripts}}

(* write_model and write_sourcemap, under the lock of the tree. *)
WriteOutput ==
  /\ consumer.pc = "write" /\ pc = "idle"
  /\ output' = IF consumer.kind = "build" THEN Built(tree) ELSE Sourcemap(tree)
  /\ consumer' = [consumer EXCEPT !.pc = "wait", !.got = <<>>]
  /\ UNCHANGED <<disk, edits, watches, armed, events, pc, todo, snap, changed, tree,
                 patches, queue, stale, torn>>

-----------------------------------------------------------------------------
Init ==
  /\ disk \in InitialDisks
  /\ edits = 0 /\ watches = {} /\ armed = {} /\ events = <<>>
  /\ pc = "boot" /\ todo = <<>> /\ snap = None /\ changed = None
  /\ tree = EmptyTree /\ patches = <<>> /\ queue = <<>>
  /\ consumer \in [kind : {"build", "sourcemap"}, pc : {"new"}, got : {<<>>}]
  /\ output = {} /\ stale = {} /\ torn = FALSE

Edit == \E p \in Path : \/ \E c \in Contents(p) : Write(p, c)
                         \/ MakeDir(p)
                         \/ Delete(p)
Processor == Boot \/ FinishBoot \/ TakeEvent \/ ReadInstance \/ WatchInstance \/ ApplyInstance
Consumer == ReadCursor \/ Receive \/ CheckPanics \/ Check \/ WriteOutput

Next == Edit \/ Processor \/ Consumer
Spec == Init /\ [][Next]_vars

-----------------------------------------------------------------------------
Ids == 0..tree.next

(* What the middleware returns: of a list, the first is the root, and a    *)
(* parent comes before its children and all that is below them.            *)
IsResult(r) ==
  /\ r.ok \in BOOLEAN /\ r.reads \subseteq Path
  /\ r.inst # None => /\ Len(r.inst) > 0
                      /\ \A n \in 2..Len(r.inst) : r.inst[n].up \in 1..(n - 1)
                      /\ IsPreorder(r.inst)

(* Every variable stays in its range; an id in hand is a real one, and the *)
(* processor holds a result of the middleware when it is about to apply    *)
(* one.                                                                    *)
TypeOK ==
  /\ disk \in Disks
  /\ \A p \in Path : disk[p] = Folder => p \in Folders
  /\ edits \in 0..MaxEdits
  /\ armed \subseteq watches /\ watches \subseteq Path
  /\ pc \in {"boot", "booting", "idle", "read", "watch", "apply", "failed", "dead"}
  /\ Range(todo) \subseteq Ids
  /\ DOMAIN tree.inst \subseteq Ids /\ Root \in DOMAIN tree.inst
  /\ pc \in {"booting", "watch", "apply"} => IsResult(snap.res)
  /\ consumer.pc \in {"new", "wait", "check", "write", "dead"}
  /\ stale \subseteq Path \cup {<<>>} /\ torn \in BOOLEAN

(* RojoTree: path_to_ids is exactly the inverse of relevant_paths, no id   *)
(* is twice in a bucket, and parents and children agree.                   *)
PathIndexIsExact == IndexIsExact(tree) /\ KidsAgree(tree)

Settled == pc = "idle" /\ events = <<>>

(* When nothing is pending, build --watch has written the tree as it is,   *)
(* and sourcemap --watch has an entry with the name, the class, the paths  *)
(* and the place of every script, and none for what has left the tree, or  *)
(* is elsewhere.  It does not write again for what is not a script, so the *)
(* name of what is above a script, and an entry for what was one, may be   *)
(* old; and it looks which of the paths are files only when it writes.     *)
OutputIsCurrent ==
  Settled /\ queue = <<>> /\ consumer.pc = "wait" =>
    IF consumer.kind = "build" THEN output = Built(tree)
    ELSE /\ \A i \in DOMAIN tree.inst :
              tree.inst[i].class \in Scripts => \E e \in output : e.node = Outline(tree, i)
         /\ \A e \in output : /\ e.node.id \in DOMAIN tree.inst
                                /\ e.node.parent = tree.inst[e.node.id].parent
=============================================================================
