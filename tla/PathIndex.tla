------------------------------ MODULE PathIndex ------------------------------
(***************************************************************************)
(* What RojoTree does to one instance and to path_to_ids, its index from   *)
(* paths to the instances they concern.  A tree is a record: inst maps     *)
(* each id to its instance, paths each path to the ids that name it among  *)
(* their relevant paths, next is the next fresh id.                        *)
(***************************************************************************)
EXTENDS Naturals, Sequences, SequencesExt

Root == 0

(* MultiMap: buckets without repetition, swap_remove on removal.           *)
BucketInsert(b, v) == IF v \in Range(b) THEN b ELSE Append(b, v)
BucketRemove(b, v) ==
  IF v \notin Range(b) THEN b
  ELSE Front([i \in DOMAIN b |-> IF b[i] = v THEN Last(b) ELSE b[i]])

PathsInsert(paths, id, rel) ==
  [p \in DOMAIN paths |-> IF p \in rel THEN BucketInsert(paths[p], id) ELSE paths[p]]
PathsRemove(paths, id, rel) ==
  [p \in DOMAIN paths |-> IF p \in rel THEN BucketRemove(paths[p], id) ELSE paths[p]]

(* remove_metadata for several instances, one after the other.             *)
Unindex(paths, inst, ids) ==
  LET left[n \in 0..Len(ids)] ==
        IF n = 0 THEN paths
        ELSE PathsRemove(left[n - 1], ids[n], Range(inst[ids[n]].meta.rel))
  IN  left[Len(ids)]

(* RojoTree::new without the children. *)
NewTree(paths, root) ==
  [inst |-> [i \in {Root} |-> root],
   paths |-> PathsInsert([p \in paths |-> <<>>], Root, Range(root.meta.rel)),
   next |-> Root + 1]

(* insert_instance without the children. *)
PlaceInstance(t, parent, s) ==
  [inst |-> [i \in DOMAIN t.inst \union {t.next} |->
              IF i = t.next
              THEN [name |-> s.name, class |-> s.class, props |-> s.props,
                    parent |-> parent, kids |-> <<>>, meta |-> s.meta]
              ELSE IF i = parent THEN [t.inst[i] EXCEPT !.kids = Append(@, t.next)]
              ELSE t.inst[i]],
   paths |-> PathsInsert(t.paths, t.next, Range(s.meta.rel)),
   next |-> t.next + 1]

(* External: WeakDom::destroy takes an instance out of its parent's        *)
(* children.                                                               *)
TakeOut(kids, id) ==
  IF id \notin Range(kids) THEN kids
  ELSE RemoveAt(kids, CHOOSE n \in DOMAIN kids : kids[n] = id)

(* RojoTree::remove, for the instance and all that is below it.            *)
Detach(t, id, gone) ==
  [inst |-> [i \in DOMAIN t.inst \ gone |->
              IF i = t.inst[id].parent THEN [t.inst[i] EXCEPT !.kids = TakeOut(@, id)]
              ELSE t.inst[i]],
   paths |-> Unindex(t.paths, t.inst, SetToSeq(gone)),
   next |-> t.next]

(* As if update_metadata left the old paths in the index. *)
UpdateKeepsOldPaths(t, u) ==
  [t EXCEPT !.paths = PathsInsert(@, u.id, Range(u.snap.meta.rel)),
            !.inst[u.id] = [@ EXCEPT !.name = u.snap.name, !.class = u.snap.class,
                                     !.props = u.snap.props, !.meta = u.snap.meta]]

(* update_metadata and the rest of apply_update_child. *)
Update(t, u) ==
  LET old == t.inst[u.id].meta.rel
      new == u.snap.meta.rel
  IN  [t EXCEPT
        !.paths = IF old = new THEN @ ELSE PathsInsert(PathsRemove(@, u.id, Range(old)), u.id, Range(new)),
        !.inst[u.id] = [@ EXCEPT !.name = u.snap.name, !.class = u.snap.class,
                                 !.props = u.snap.props, !.meta = u.snap.meta]]

-----------------------------------------------------------------------------
(* path_to_ids is exactly the inverse of relevant_paths, with no id twice  *)
(* in a bucket.                                                            *)
IndexIsExact(t) ==
  \A p \in DOMAIN t.paths :
    /\ IsInjective(t.paths[p])
    /\ Range(t.paths[p]) = {i \in DOMAIN t.inst : p \in Range(t.inst[i].meta.rel)}

(* A child has its parent, which has it as a child once and is older than  *)
(* it.                                                                     *)
KidsAgree(t) ==
  /\ \A i \in DOMAIN t.inst :
       /\ IsInjective(t.inst[i].kids)
       /\ \A k \in Range(t.inst[i].kids) : k \in DOMAIN t.inst /\ t.inst[k].parent = i /\ i < k
  /\ \A i \in DOMAIN t.inst \ {Root} : /\ t.inst[i].parent \in DOMAIN t.inst
                                      /\ i \in Range(t.inst[t.inst[i].parent].kids)
=============================================================================
