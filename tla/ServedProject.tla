---------------------------- MODULE ServedProject ----------------------------
(***************************************************************************)
(* ProjectSync with the snapshot middleware of Snapshot: is the tree what  *)
(* the disk says?                                                          *)
(***************************************************************************)
EXTENDS ProjectSync, Snapshot

FromPath(ctx, d, p) == ListedResult(SnapshotFromVfs(ctx, d, p))
FromNode(ctx, d, project, name, node, parentClass) ==
  ListedResult(SnapshotNode(ctx, d, project, name, node, parentClass))

RECURSIVE Shape(_, _), ShapeOf(_)
Routing(meta) == [src |-> meta.src, rel |-> meta.rel, iui |-> meta.iui, id |-> meta.id]
Shape(t, id) ==
  LET i == t.inst[id]
  IN  [name |-> i.name, class |-> i.class, props |-> i.props, meta |-> Routing(i.meta),
       kids |-> {Shape(t, k) : k \in Range(i.kids)}]
ShapeOf(s) ==
  [name |-> s.name, class |-> s.class, props |-> s.props, meta |-> Routing(s.meta),
   kids |-> {ShapeOf(k) : k \in Range(s.kids)}]

Fresh == SnapshotFromVfs(DefaultContext, disk, RootProject)

(* A rule of globIgnorePaths that the project no longer has: the context   *)
(* of the old root is extended, never replaced.                            *)
RuleWithdrawn ==
  ~(Range(tree.inst[Root].meta.ctx.ignore) \subseteq Range(Fresh.inst.meta.ctx.ignore))

(* When the events are worked off, the tree is what a server started now   *)
(* would build, sources and relevant paths included, unless a change went  *)
(* by unwatched, was routed to nobody, met a snapshot that failed, deleted *)
(* a nested project file, withdrew an ignore rule, or came between the     *)
(* snapshots of two instances of one path: otherwise relevant_paths and    *)
(* the nearest-ancestor rule of apply_patches reach every instance a file  *)
(* can affect.                                                             *)
TreeIsFresh ==
  Settled /\ stale = {} /\ ~torn /\ Fresh.ok /\ Fresh.inst # None
    => RuleWithdrawn \/ Shape(tree, Root) = ShapeOf(Fresh.inst)
=============================================================================
