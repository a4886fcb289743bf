------------------------------- MODULE RojoTree -------------------------------
(***************************************************************************)
(* RojoTree and the patches between a snapshot and a tree: the operations  *)
(* of PathIndex, for whole subtrees.                                       *)
(*                                                                         *)
(* A snapshot is a list of its instances in the order in which they are    *)
(* visited, each before its children; up is the position of the parent in  *)
(* the list.                                                               *)
(***************************************************************************)
EXTENDS SnapshotTypes, PathIndex

(* RojoTree::new. *)
EmptyRoot ==
  [name |-> "DEFAULT", class |-> "DEFAULT", props |-> <<>>, parent |-> None, kids |-> <<>>,
   meta |-> Meta(None, <<>>, DefaultContext)]
EmptyTree == NewTree(Path, EmptyRoot)

(* The numbers of a set, up to a limit, in order. *)
InOrder(limit, S) ==
  LET list[n \in 0..limit] ==
        IF n = 0 THEN <<>> ELSE IF n \in S THEN Append(list[n - 1], n) ELSE list[n - 1]
  IN  list[limit]

(* The instances above one. *)
Ancestors(t, id) ==
  LET above[i \in 0..t.next] ==
        IF i \in DOMAIN t.inst \ {Root}
        THEN {t.inst[i].parent} \union above[t.inst[i].parent] ELSE {}
  IN  above[id]

(* The instance and everything below it. *)
Descendants(t, id) == {i \in DOMAIN t.inst : i = id \/ id \in Ancestors(t, i)}

(* insert_instance and apply_add_child. *)
InsertInstance(t, parent, s) ==
  LET grown[n \in 0..Len(s)] ==
        IF n = 0 THEN t
        ELSE PlaceInstance(grown[n - 1], IF n = 1 THEN parent ELSE t.next + s[n].up - 1, s[n])
  IN  grown[Len(s)]

(* The list of a snapshot visits all that is below an instance before it   *)
(* goes on: what is between a node and its parent is below that parent.    *)
IsPreorder(s) ==
  \A m \in 2..Len(s) : \A j \in (s[m].up + 1)..(m - 1) : s[j].up >= s[m].up

(* As if remove_metadata ran for the instance only. *)
RemoveInstanceShallow(t, id) ==
  [Detach(t, id, Descendants(t, id)) EXCEPT
     !.paths = PathsRemove(t.paths, id, Range(t.inst[id].meta.rel))]

(* RojoTree::remove: the metadata and the path associations of the whole subtree.    *)
RemoveInstance(t, id) == Detach(t, id, Descendants(t, id))

-----------------------------------------------------------------------------
(* compute_children_patches, for one child of a snapshot: the first child  *)
(* of its parent's partner that has its name and class and no partner yet. *)
Partner(t, pairs, node) ==
  LET above == pairs[node.up]
      kids == IF above = None THEN <<>> ELSE t.inst[above].kids
      free == {n \in DOMAIN kids : /\ kids[n] \notin Range(pairs)
                                   /\ t.inst[kids[n]].name = node.name
                                   /\ t.inst[kids[n]].class = node.class}
  IN  IF free = {} THEN None ELSE kids[Min(free)]

(* The partners in the tree of all instances of a snapshot for id.         *)
Pairing(t, id, s) ==
  LET pairs[n \in 1..Len(s)] ==
        IF n = 1 THEN <<id>> ELSE Append(pairs[n - 1], Partner(t, pairs[n - 1], s[n]))
  IN  pairs[Len(s)]

(* The part of a snapshot from its n-th instance down. *)
Branch(s, n) ==
  LET end == Min({m \in (n + 1)..Len(s) : s[m].up < n} \union {Len(s) + 1})
  IN  [k \in 1..(end - n) |->
        [s[n + k - 1] EXCEPT !.up = IF k = 1 THEN 0 ELSE @ - n + 1]]

(* compute_property_patches finds nothing to change. *)
IsSame(i, s) ==
  i.name = s.name /\ i.class = s.class /\ i.props = s.props /\ i.meta = s.meta

(* compute_patch_set for a snapshot.  The order of the removals only       *)
(* decides the places that ids get in the buckets of the index.            *)
ComputePatch(t, id, s) ==
  LET pair == Pairing(t, id, s)
      paired == Range(pair) \ {None}
      tops == InOrder(Len(s), {n \in 2..Len(s) : pair[n] = None /\ pair[s[n].up] # None})
      news == InOrder(Len(s), {n \in 1..Len(s) : pair[n] # None /\ ~IsSame(t.inst[pair[n]], s[n])})
  IN  [removed |-> SetToSeq((UNION {Range(t.inst[i].kids) : i \in paired}) \ paired),
       added |-> [k \in DOMAIN tops |-> [parent |-> pair[s[tops[k]].up], snap |-> Branch(s, tops[k])]],
       updated |-> [k \in DOMAIN news |-> [id |-> pair[news[k]], snap |-> s[news[k]]]]]

RemovePatch(id) == [removed |-> <<id>>, added |-> <<>>, updated |-> <<>>]
NoPatch == [removed |-> <<>>, added |-> <<>>, updated |-> <<>>]

(* apply_patch_set: removals, additions, updates. *)
ApplyRemovals(t, ids) ==
  LET left[n \in 0..Len(ids)] == IF n = 0 THEN t ELSE RemoveInstance(left[n - 1], ids[n])
  IN  left[Len(ids)]
ApplyAdditions(t, adds) ==
  LET grown[n \in 0..Len(adds)] ==
        IF n = 0 THEN t ELSE InsertInstance(grown[n - 1], adds[n].parent, adds[n].snap)
  IN  grown[Len(adds)]
ApplyUpdates(t, ups) ==
  LET new[n \in 0..Len(ups)] == IF n = 0 THEN t ELSE Update(new[n - 1], ups[n])
  IN  new[Len(ups)]
ApplyPatch(t, p) == ApplyUpdates(ApplyAdditions(ApplyRemovals(t, p.removed), p.added), p.updated)
=============================================================================
