------------------------------ MODULE LiveSync ------------------------------
(***************************************************************************)
(* Live sync end to end: the files, the file watcher's events, the         *)
(* ChangeProcessor thread, the instance tree behind its mutex, the message *)
(* log, the websocket task that renders messages, and the Studio plugin    *)
(* that applies them, with two-way sync.                                   *)
(*                                                                         *)
(* The message queue is the abstract log of EventLog, which MessageQueue   *)
(* implements.  A panic anywhere aborts the process (Cargo.toml, panic =   *)
(* "abort").                                                               *)
(***************************************************************************)
EXTENDS Naturals, Sequences, FiniteSets

CONSTANTS
  Path,             \* the paths under the project's directory, as name sequences
  Folder,           \* the paths that can only be directories
  Content,          \* what a file can hold
  InitialDisk,      \* the disks a session can start with
  MaxDiskEdits,     \* bound: changes made outside Roxo
  MaxStudioEdits,   \* bound: property changes made in Studio
  None

Root == << >>
RootId == 0

Parent(p) == SubSeq(p, 1, Len(p) - 1)

\* The directories above a path are paths.
ASSUME PathAssumption == /\ Path \subseteq Seq(STRING) /\ Root \notin Path
                         /\ Folder \subseteq Path
                         /\ \A p \in Path : Parent(p) \in Path \union {Root}

\* What a path can hold.
Holds(p) == IF p \in Folder THEN {"dir"} ELSE Content

\* A session starts with a directory tree of finitely many files.
ASSUME DiskAssumption ==
  \A d \in InitialDisk :
    /\ d \in [Path -> Content \union {"dir", None}]
    /\ IsFiniteSet({p \in Path : d[p] # None})
    /\ \A p \in Path : d[p] # None =>
         d[p] \in Holds(p) /\ (Parent(p) = Root \/ d[Parent(p)] # None)

VARIABLES
  disk,         \* what each path holds, None where there is nothing
  diskEdits,    \* how many outside changes there have been
  events,       \* the watcher's events the ChangeProcessor has not taken
  work,         \* the event being processed: the tree is locked meanwhile
  skipped,      \* history: an event was given up on a snapshot error
  tree,         \* RojoTree: the instance of each path, None where there is none
  nextId,       \* the next fresh referent
  unsent,       \* a patch applied to the tree and not yet pushed
  messages,     \* the message log
  writes,       \* api/write requests that have not been applied
  aborted,      \* the server process is gone
  client,       \* the plugin's session
  cursor,       \* the message cursor of the session
  wire,         \* rendered messages on the socket
  known,        \* the plugin's InstanceMap: id -> instance
  strays,       \* paths with an instance in Studio that InstanceMap lost
  studioEdits   \* how many property changes Studio has made

diskVars == <<disk, diskEdits, events>>
serverVars == <<work, skipped, tree, nextId, unsent, messages, writes, aborted>>
clientVars == <<client, cursor, wire, known, strays, studioEdits>>
vars == <<diskVars, serverVars, clientVars>>

-----------------------------------------------------------------------------
\* The paths below q.
Below == [q \in Path \union {Root} |->
            {p \in Path : Len(p) > Len(q) /\ SubSeq(p, 1, Len(q)) = q}]

Existing == {p \in Path : disk[p] # None}
InTree == {p \in Path : tree[p] # None}
Ids == {tree[p].id : p \in InTree}
PathOf(id) == CHOOSE p \in InTree : tree[p].id = id
IdOf(p) == IF p = Root THEN RootId ELSE tree[p].id

\* An instance has the properties its file gives it, of which the plugin can
\* send "Source" back to the file, and those only the tree keeps.
Prop == {"Source", "Other"}
OtherValue == {"fromDisk", "fromStudio"}
Value == Content \union {"dir"} \union OtherValue
PropsOf(content) == [k \in Prop |-> IF k = "Source" THEN content ELSE "fromDisk"]
Instance == [id : Nat, props : [Prop -> Value]]

\* An injection of the new paths into fresh referents.  The code draws random
\* 128-bit numbers, which never meet; a counter stands for them.
FreshIds(new, from) ==
  CHOOSE f \in [new -> from..(from + Cardinality(new) - 1)] :
    \A p, q \in new : f[p] = f[q] => p = q

Update == [id : Nat, prop : Prop, value : Content \union OtherValue]
Patch == [removed : SUBSET Nat, added : SUBSET Nat, updated : SUBSET Update]

\* None is none of the things a variable or a path can have instead.
ASSUME NoneAssumption ==
  /\ None \notin Content \union {"dir"} \union Instance
  /\ None \notin Patch \union [path : Path \union {Root}, listed : SUBSET Path]

Init == /\ disk \in InitialDisk
        /\ diskEdits = 0 /\ studioEdits = 0
        /\ events = << >>
        /\ work = None /\ skipped = FALSE
        /\ LET ids == FreshIds(Existing, RootId + 1) IN
             tree = [p \in Path |-> IF p \in Existing
                                      THEN [id |-> ids[p], props |-> PropsOf(disk[p])]
                                      ELSE None]
        /\ nextId = RootId + 1 + Cardinality(Existing)
        /\ unsent = None /\ messages = << >>
        /\ writes = {} /\ aborted = FALSE
        /\ client = "away" /\ cursor = 0 /\ wire = << >>
        /\ known = << >> /\ strays = {}

-----------------------------------------------------------------------------
(* The file system.  Every change is followed by the watcher's event for   *)
(* the path that changed.                                                  *)

Touch(p, newDisk) == /\ diskEdits < MaxDiskEdits
                     /\ diskEdits' = diskEdits + 1
                     /\ disk' = newDisk
                     /\ events' = Append(events, p)
                     /\ UNCHANGED <<serverVars, clientVars>>

HasParent(p) == Parent(p) = Root \/ Parent(p) \in Existing

WriteFile(p, c) == /\ p \notin Folder /\ HasParent(p) /\ disk[p] # c
                   /\ Touch(p, [disk EXCEPT ![p] = c])

MakeFolder(p) == /\ p \in Folder /\ HasParent(p) /\ disk[p] = None
                 /\ Touch(p, [disk EXCEPT ![p] = "dir"])

Delete(p) == /\ p \in Existing
             /\ Touch(p, [q \in Path |-> IF q = p \/ q \in Below[p] THEN None ELSE disk[q]])

-----------------------------------------------------------------------------
(* The ChangeProcessor thread.                                             *)

Running == ~aborted
ProcessorIdle == Running /\ work = None /\ unsent = None

\* apply_patches: the nearest ancestor that has an instance.
NearestKnown(p) ==
  LET known_(q) == q = Root \/ (q \in Path /\ tree[q] # None)
      n == CHOOSE n \in 0..Len(p) :
             /\ known_(SubSeq(p, 1, n))
             /\ \A m \in (n + 1)..Len(p) : ~known_(SubSeq(p, 1, m))
  IN  SubSeq(p, 1, n)

\* handle_vfs_event up to the first read of the disk: the tree is locked and
\* the directory listed; the files in it are read one by one afterwards.
TakeEvent ==
  /\ ProcessorIdle
  /\ events # << >>
  /\ LET q == NearestKnown(Head(events)) IN
       work' = [path |-> q, listed |-> {p \in Existing : p = q \/ p \in Below[q]}]
  /\ events' = Tail(events)
  /\ UNCHANGED <<disk, diskEdits, skipped, tree, nextId, unsent, messages, writes,
                 aborted, clientVars>>

\* compute_patch_set for the instance at q against what was read of the disk
\* (seen), as paths.  Children pair up by name, so by path.
RemovedPaths(q, seen) ==
  IF q # Root /\ q \notin seen
    THEN {q}
    ELSE {p \in Below[q] \intersect InTree :
            p \notin seen /\ (Parent(p) = q \/ Parent(p) \in seen)}
AddedPaths(q, seen) == IF q # Root /\ q \notin seen THEN {} ELSE seen \ InTree
Updates(seen) ==
  {[id |-> tree[p].id, prop |-> k, value |-> PropsOf(disk[p])[k]] :
     p \in seen \intersect InTree, k \in Prop}
ChangedUpdates(seen) ==
  {u \in Updates(seen) : tree[PathOf(u.id)].props[u.prop] # u.value}

\* apply_patch_set: removals take the subtree, additions get fresh referents,
\* paired instances take the disk's properties.
AppliedShallow(q, seen) ==
  LET gone == RemovedPaths(q, seen)
      new == AddedPaths(q, seen)
      ids == FreshIds(new, nextId)
  IN  [tree |-> [p \in Path |->
                   IF p \in new THEN [id |-> ids[p], props |-> PropsOf(disk[p])]
                   ELSE IF p \in gone THEN None
                   ELSE IF p \in seen THEN [tree[p] EXCEPT !.props = PropsOf(disk[p])]
                   ELSE tree[p]],
       patch |-> [removed |-> {tree[p].id : p \in gone},
                  added |-> {ids[p] : p \in new},
                  updated |-> ChangedUpdates(seen)]]

Applied(q, seen) ==
  LET gone == UNION {{p} \union Below[p] : p \in RemovedPaths(q, seen)}
      new == AddedPaths(q, seen)
      ids == FreshIds(new, nextId)
  IN  [tree |-> [p \in Path |->
                   IF p \in new THEN [id |-> ids[p], props |-> PropsOf(disk[p])]
                   ELSE IF p \in gone THEN None
                   ELSE IF p \in seen THEN [tree[p] EXCEPT !.props = PropsOf(disk[p])]
                   ELSE tree[p]],
       patch |-> [removed |-> {tree[p].id : p \in RemovedPaths(q, seen)},
                  added |-> {ids[p] : p \in new},
                  updated |-> ChangedUpdates(seen)]]

EmptyPatch == [removed |-> {}, added |-> {}, updated |-> {}]

\* compute_and_apply_changes.  A listed file that is gone again by the time it
\* is looked at is as if it had not been listed (with_not_found).
ApplyEvent ==
  /\ work # None
  /\ LET seen == work.listed \intersect Existing
         r == Applied(work.path, seen)
     IN  /\ tree' = r.tree
         /\ nextId' = nextId + Cardinality(r.patch.added)
         /\ unsent' = IF r.patch = EmptyPatch THEN None ELSE r.patch
  /\ work' = None
  /\ UNCHANGED <<diskVars, skipped, messages, writes, aborted, clientVars>>

\* ... unless it goes between the look and the read: the error is logged and
\* the whole event is given up.
SkipEvent == /\ work # None
             /\ ~(work.listed \subseteq Existing)
             /\ work' = None
             /\ skipped' = TRUE
             /\ UNCHANGED <<diskVars, tree, nextId, unsent, messages, writes, aborted,
                            clientVars>>

\* push_messages, after the tree is unlocked.
Push == /\ Running
        /\ unsent # None
        /\ messages' = Append(messages, unsent)
        /\ unsent' = None
        /\ UNCHANGED <<diskVars, work, skipped, tree, nextId, writes, aborted, clientVars>>

\* handle_tree_event for one update: a Source goes to the file first, and
\* whatever was sent goes into the tree.
HandleWriteTreeOnly(w) ==
  /\ ProcessorIdle
  /\ w \in writes
  /\ writes' = writes \ {w}
  /\ IF w.id \in Ids
       THEN /\ tree' = [tree EXCEPT ![PathOf(w.id)].props[w.prop] = w.value]
            /\ unsent' = [EmptyPatch EXCEPT
                            !.updated = {[id |-> w.id, prop |-> w.prop, value |-> w.value]}]
       ELSE UNCHANGED <<tree, unsent>>
  /\ UNCHANGED <<diskVars, work, skipped, nextId, messages, aborted, clientVars>>

HandleWriteRequeues(w) ==
  /\ ProcessorIdle
  /\ w \in writes
  /\ w.id \in Ids
  /\ writes' = writes \ {w}
  /\ tree' = [tree EXCEPT ![PathOf(w.id)].props[w.prop] = w.value]
  /\ unsent' = [EmptyPatch EXCEPT
                  !.updated = {[id |-> w.id, prop |-> w.prop, value |-> w.value]}]
  /\ UNCHANGED <<diskVars, work, skipped, nextId, messages, aborted, clientVars>>

HandleWrite(w) ==
  /\ ProcessorIdle
  /\ w \in writes
  /\ writes' = writes \ {w}
  /\ IF w.id \in Ids
       THEN LET p == PathOf(w.id) IN
            /\ tree' = [tree EXCEPT ![p].props[w.prop] = w.value]
            /\ unsent' = [EmptyPatch EXCEPT
                            !.updated = {[id |-> w.id, prop |-> w.prop, value |-> w.value]}]
            /\ IF w.prop = "Source" /\ HasParent(p)
                 THEN /\ disk' = [disk EXCEPT ![p] = w.value]
                      /\ events' = Append(events, p)
                 ELSE UNCHANGED <<disk, events>>
       ELSE UNCHANGED <<tree, unsent, disk, events>>
  /\ UNCHANGED <<diskEdits, work, skipped, nextId, messages, aborted, clientVars>>

-----------------------------------------------------------------------------
(* The HTTP handlers and the websocket task.                               *)

TreeUnlocked == Running /\ work = None

\* handle_api_read takes the cursor first ...
ReadCursorOffByOne ==
  /\ Running
  /\ client = "away"
  /\ client' = "reading"
  /\ cursor' = Len(messages) + 1
  /\ UNCHANGED <<diskVars, serverVars, wire, known, strays, studioEdits>>

ReadCursor == /\ Running
              /\ client = "away"
              /\ client' = "reading"
              /\ cursor' = Len(messages)
              /\ UNCHANGED <<diskVars, serverVars, wire, known, strays, studioEdits>>

\* An instance as the API shows it.
Rendered(p) == [parent |-> IdOf(Parent(p)), path |-> p, props |-> tree[p].props]

\* ... and the tree afterwards.  The plugin hydrates, diffs, and applies what
\* it accepts: its instances are then those of the response.
ReadTree ==
  /\ TreeUnlocked
  /\ client = "reading"
  /\ client' = "confirming"
  /\ known' = [id \in Ids |-> Rendered(PathOf(id))]
  /\ UNCHANGED <<diskVars, serverVars, cursor, wire, strays, studioEdits>>

\* connectWebSocket, once the user has accepted.
OpenSocketAtEnd == /\ Running
                   /\ client = "confirming"
                   /\ client' = "live"
                   /\ cursor' = Len(messages)
                   /\ UNCHANGED <<diskVars, serverVars, wire, known, strays, studioEdits>>

OpenSocket == /\ Running
              /\ client = "confirming"
              /\ client' = "live"
              /\ UNCHANGED <<diskVars, serverVars, cursor, wire, known, strays, studioEdits>>

\* SubscribeMessage::from_patch_update renders an addition from the tree as it
\* is NOW, descendants included.
Render(patch) ==
  LET top == {PathOf(id) : id \in patch.added}
      paths == InTree \intersect UNION {{p} \union Below[p] : p \in top}
  IN  [removed |-> patch.removed,
       added |-> [id \in {tree[p].id : p \in paths} |-> Rendered(PathOf(id))],
       updated |-> patch.updated]

\* get_instance(id).unwrap() on an addition that is gone again.
Unrenderable(patch) == ~(patch.added \subseteq Ids)

\* What the task has received: the log from its cursor on, up to the length n
\* that the log had when the oneshot fired.
Backlog(n) == SubSeq(messages, cursor + 1, n)

\* The log may have grown since, and the tree has: it is locked only now.
Deliver(n) ==
  /\ TreeUnlocked
  /\ client = "live"
  /\ \A i \in DOMAIN Backlog(n) : ~Unrenderable(Backlog(n)[i])
  /\ wire' = wire \o [i \in DOMAIN Backlog(n) |-> Render(Backlog(n)[i])]
  /\ cursor' = n
  /\ UNCHANGED <<diskVars, serverVars, client, known, strays, studioEdits>>

RenderPanics(n) ==
  /\ TreeUnlocked
  /\ client = "live"
  /\ \E i \in DOMAIN Backlog(n) : Unrenderable(Backlog(n)[i])
  /\ aborted' = TRUE
  /\ UNCHANGED <<diskVars, work, skipped, tree, nextId, unsent, messages, writes, clientVars>>

-----------------------------------------------------------------------------
(* The plugin.                                                             *)

\* The tracked instances at or under an instance of Studio.
Subtree(map, id) == {i \in DOMAIN map : i = id \/ map[i].path \in Below[map[id].path]}

\* InstanceMap:destroyId for each removed id; an unknown id is fine.
AfterRemovals(map, removed) ==
  LET gone == UNION {Subtree(map, id) : id \in removed \intersect DOMAIN map}
  IN  [id \in DOMAIN map \ gone |-> map[id]]

\* applyPatch climbs from an unknown addition to the topmost addition above it
\* and reifies that one with everything under it, known or not.
ReifiedIds(map, added) ==
  LET unknown == DOMAIN added \ DOMAIN map
      tops == {t \in DOMAIN added :
                 /\ added[t].parent \notin DOMAIN added
                 /\ \E u \in unknown : u = t \/ added[u].path \in Below[added[t].path]}
  IN  UNION {Subtree(added, t) : t \in tops}

\* Additions that hang nowhere: applyPatch raises an error on those.
Parentless(map, added) ==
  {id \in ReifiedIds(map, added) :
     added[id].parent \notin DOMAIN added \union DOMAIN map \union {RootId}}

AfterAdditions(map, added) ==
  LET reified == ReifiedIds(map, added) IN
  [id \in DOMAIN map \union reified |-> IF id \in reified THEN added[id] ELSE map[id]]

\* Updates of ids the map does not know stay unapplied.
AfterUpdates(map, updated) ==
  [id \in DOMAIN map |->
     [map[id] EXCEPT !.props =
        [k \in Prop |->
           IF \E u \in updated : u.id = id /\ u.prop = k
             THEN (CHOOSE u \in updated : u.id = id /\ u.prop = k).value
             ELSE map[id].props[k]]]]

\* ServeSession:__applyPatch of the next message.  An instance that is reified
\* again while it is known stays in Studio, unknown to the InstanceMap.
ApplyMessage ==
  /\ client = "live"
  /\ wire # << >>
  /\ LET msg == Head(wire)
         m1 == AfterRemovals(known, msg.removed)
         m2 == AfterAdditions(m1, msg.added)
         m3 == AfterUpdates(m2, msg.updated)
     IN  /\ known' = m3
         /\ strays' = strays \union
              {m1[id].path : id \in ReifiedIds(m1, msg.added) \intersect DOMAIN m1}
  /\ wire' = Tail(wire)
  /\ UNCHANGED <<diskVars, serverVars, client, cursor, studioEdits>>

\* The user changes a property in Studio: two-way sync sends it.  Requests
\* can overtake each other.
StudioEdit(id, prop, value) ==
  /\ client = "live"
  /\ studioEdits < MaxStudioEdits
  /\ known[id].props[prop] # value
  /\ known[id].path \in Folder => prop = "Other"
  /\ known' = [known EXCEPT ![id].props[prop] = value]
  /\ writes' = writes \union
       {[n |-> studioEdits, id |-> id, prop |-> prop, value |-> value]}
  /\ studioEdits' = studioEdits + 1
  /\ UNCHANGED <<diskVars, work, skipped, tree, nextId, unsent, messages, aborted,
                 client, cursor, wire, strays>>

-----------------------------------------------------------------------------
Disk == \E p \in Path : MakeFolder(p) \/ Delete(p) \/ \E c \in Content : WriteFile(p, c)

Processor == TakeEvent \/ ApplyEvent \/ SkipEvent \/ Push \/ \E w \in writes : HandleWrite(w)

Socket == \E n \in (cursor + 1)..Len(messages) : Deliver(n) \/ RenderPanics(n)

Studio == \E id \in DOMAIN known :
            \/ \E c \in Content : StudioEdit(id, "Source", c)
            \/ StudioEdit(id, "Other", "fromStudio")

Next == \/ Disk
        \/ Processor
        \/ ReadCursor \/ ReadTree \/ OpenSocket
        \/ Socket \/ ApplyMessage
        \/ Studio

Spec == Init /\ [][Next]_vars

\* The ChangeProcessor thread keeps taking what is in its channels.
FairSpec == Spec /\ WF_vars(Processor)

-----------------------------------------------------------------------------
(* Properties.                                                             *)

TypeOK ==
  /\ DOMAIN disk = Path
  /\ events \in Seq(Path)
  /\ work # None => work.path \in Path \union {Root} /\ work.listed \subseteq Path
  /\ DOMAIN tree = Path
  /\ \A p \in InTree : tree[p].id \in 1..(nextId - 1) /\ tree[p].props["Other"] \in OtherValue
  /\ unsent # None => unsent \in Patch
  /\ \A i \in DOMAIN messages : messages[i] \in Patch
  /\ cursor \in 0..Len(messages)
  /\ client \in {"away", "reading", "confirming", "live"}
  /\ strays \subseteq Path

\* The tree is a tree: a referent names one path, and an instance's parent is
\* there.
TreeIsWellFormed ==
  /\ \A p, q \in InTree : tree[p].id = tree[q].id => p = q
  /\ \A p \in InTree : Parent(p) = Root \/ Parent(p) \in InTree

\* When the ChangeProcessor has nothing left to do, the tree has exactly the
\* instances and the sources of the disk, whatever order events and writes
\* came in and however stale they were, unless an event was given up.
TreeMatchesDisk ==
  events = << >> /\ work = None /\ ~skipped =>
    /\ InTree = Existing
    /\ \A p \in InTree : tree[p].props["Source"] = disk[p]

\* When nothing is on its way, Studio shows exactly the server's tree: every
\* instance, at its place, with its properties, although the snapshot it
\* started from was newer than its cursor and messages are rendered late.
Settled == /\ unsent = None /\ work = None /\ writes = {} /\ wire = << >>
           /\ client = "live" /\ cursor = Len(messages) /\ ~aborted
StudioMatchesTree == Settled => known = [id \in Ids |-> Rendered(PathOf(id))]

\* The plugin never meets an addition without a parent, on which applyPatch
\* raises an error and drops the rest of the packet.
NoParentlessAddition ==
  client = "live" /\ wire # << >> =>
    Parentless(AfterRemovals(known, Head(wire).removed), Head(wire).added) = {}

\* The ChangeProcessor catches up: after the last change every event and every
\* write has been worked off, and TreeMatchesDisk applies.
TreeCatchesUp ==
  <>[](aborted \/ (events = << >> /\ work = None /\ unsent = None /\ writes = {}))

\* "A file that vanishes mid-event is skipped, not fatal" (README.md:117).
VanishingFileIsNotFatal == ~aborted

\* "we only reify each instance once" (applyPatch.lua:55): an instance of
\* Studio is never created a second time and left behind.
ReifiedOnlyOnce == strays = {}
=============================================================================
