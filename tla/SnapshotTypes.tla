---------------------------- MODULE SnapshotTypes ----------------------------
(***************************************************************************)
(* What the snapshot middleware and its users share: paths and the state   *)
(* of the disk, contexts, metadata, sources and results.                   *)
(*                                                                         *)
(* A file name is <<stem, extension>>, a path a sequence of names.  A disk *)
(* maps every path to Absent, Folder or a content.                         *)
(***************************************************************************)
EXTENDS Naturals, Sequences, SequencesExt, FiniteSets

CONSTANTS None, Absent, Folder,
          Empty,                  \* the content of an empty file
          Path                    \* the paths a file may be at

ASSUME NoneAssumption == None \notin Nat
ASSUME PathAssumption == IsFiniteSet(Path) /\ \A p \in Path : Len(p) \in Nat

Join(p, name) == Append(p, name)
IsDir(d, p) == p = <<>> \/ (p \in Path /\ d[p] = Folder)
Exists(d, p) == p = <<>> \/ (p \in Path /\ d[p] # Absent)
NameOf(p) == Last(p)
Parent(p) == Front(p)

(* DEFAULT_PROJECT_NAMES. *)
DefaultProject == <<"default", ".project.json">>
DefaultProjects == <<DefaultProject, <<"default", ".project.jsonc">> >>

(* InstanceContext: ignore rules (last match wins), user sync rules (first *)
(* match wins), emit_legacy_scripts.  A glob is the set of paths it        *)
(* matches.                                                                *)
DefaultContext == [ignore |-> <<>>, rules |-> <<>>, legacy |-> TRUE]

(* InstanceMetadata and InstigatingSource. *)
Meta(src, rel, ctx) ==
  [src |-> src, rel |-> rel, ctx |-> ctx, iui |-> FALSE, id |-> None, mw |-> None]
PathSource(p) == [kind |-> "path", path |-> p]
NodeSource(p, name, node, parentClass) ==
  [kind |-> "node", path |-> p, name |-> name, node |-> node,
   parentClass |-> parentClass]

Ok(inst, reads, looks) ==
  [ok |-> TRUE, inst |-> inst, reads |-> reads, looks |-> looks]
Err(reads, looks) == [ok |-> FALSE, inst |-> None, reads |-> reads, looks |-> looks]
=============================================================================
