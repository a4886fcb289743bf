------------------------------ MODULE FsSnapshot ------------------------------
(***************************************************************************)
(* The FsSnapshot that `syncback` collects, and how the command writes it  *)
(* to the disk: the question, the user's answer, and write_to_vfs, whose   *)
(* operations come in four groups, each in the order of a hash map.        *)
(*                                                                         *)
(* How the FsSnapshot is computed is in Syncback, which extends this       *)
(* module; here it is any FsSnapshot at all.                               *)
(***************************************************************************)
EXTENDS SnapshotTypes, TLC

CONSTANT Torn      \* a part of what a file was to hold, maybe nothing of it
ASSUME TornAssumption == Torn \notin {Absent, Folder}

VARIABLES
  disk, before,    \* the disk, and the disk when this pass loaded it
  pc,
  fs,              \* the FsSnapshot so far
  left,            \* of the FsSnapshot, what is still to be written
  touched          \* history: the user changed a path during the question

fsVars == <<disk, before, pc, fs, left, touched>>

ASSUME FolderAssumption == Folder # Absent

Without(f, keys) == [k \in DOMAIN f \ keys |-> f[k]]

NoFs == [files |-> <<>>, dirs |-> {}, goneFiles |-> {}, goneDirs |-> {}]
AddFile(f, p, c) == [f EXCEPT !.files = (p :> c) @@ @]
AddDir(f, p) == [f EXCEPT !.dirs = @ \cup {p}]
RemoveDir(f, p) == [f EXCEPT !.goneDirs = @ \cup {p}]
RemoveFile(f, p) == [f EXCEPT !.goneFiles = @ \cup {p}]

(* FsSnapshots with known paths and real contents. *)
IsFs(f) ==
  /\ f = [files |-> f.files, dirs |-> f.dirs, goneFiles |-> f.goneFiles, goneDirs |-> f.goneDirs]
  /\ f.files = [p \in DOMAIN f.files |-> f.files[p]]
  /\ DOMAIN f.files \cup f.dirs \cup f.goneFiles \cup f.goneDirs \subseteq Path
  /\ \A p \in DOMAIN f.files : f.files[p] \notin {Absent, Folder}

-----------------------------------------------------------------------------
(* --dry-run and "n" end the command. *)
Answer ==
  /\ pc = "prompt"
  /\ \/ pc' = "write" /\ left' = fs
     \/ pc' = "declined" /\ UNCHANGED left
  /\ UNCHANGED <<disk, before, fs, touched>>

(* External: the user changes a path while the question is open. *)
Change(p) ==
  /\ pc = "prompt" /\ ~touched /\ disk[p] # Folder
  /\ disk[p] = Absent => IsDir(disk, Parent(p))
  /\ disk' = [disk EXCEPT ![p] = IF @ = Absent THEN Empty ELSE Absent]
  /\ touched' = TRUE
  /\ UNCHANGED <<before, pc, fs, left>>

(* write_to_vfs: directories, files, removed directories, removed files.   *)
(* Any operation may fail (external), and the first failure ends the       *)
(* command.  One that fails may have done a part of its work: fs::write    *)
(* truncates the file before it writes it, create_dir_all creates one      *)
(* level after the other and remove_dir_all goes up from the leaves.       *)
Above(p) == {SubSeq(p, 1, n) : n \in 1..(Len(p) - 1)}
CanCreate(p) == \A q \in Above(p) : disk[q] \in {Absent, Folder}
CanWrite(p) == IsDir(disk, Parent(p)) /\ disk[p] # Folder

CreateDirs ==
  \E p \in left.dirs :
    /\ CanCreate(p)
    /\ disk' = [q \in Path |-> IF q \in Above(p) \cup {p} /\ disk[q] = Absent
                               THEN Folder ELSE disk[q]]
    /\ left' = [left EXCEPT !.dirs = @ \ {p}]
WriteFiles ==
  /\ left.dirs = {}
  /\ \E p \in DOMAIN left.files :
       /\ CanWrite(p)
       /\ disk' = [disk EXCEPT ![p] = left.files[p]]
       /\ left' = [left EXCEPT !.files = Without(@, {p})]
(* As if directories went before files came. *)
RemoveDirsFirst ==
  /\ left.dirs = {}
  /\ \E p \in left.goneDirs :
       /\ IsDir(disk, p)
       /\ disk' = [q \in Path |-> IF IsPrefix(p, q) THEN Absent ELSE disk[q]]
       /\ left' = [left EXCEPT !.goneDirs = @ \ {p}]
RemoveDirs ==
  /\ left.dirs = {} /\ DOMAIN left.files = {}
  /\ \E p \in left.goneDirs :
       /\ IsDir(disk, p)
       /\ disk' = [q \in Path |-> IF IsPrefix(p, q) THEN Absent ELSE disk[q]]
       /\ left' = [left EXCEPT !.goneDirs = @ \ {p}]
RemoveFiles ==
  /\ left.dirs = {} /\ DOMAIN left.files = {} /\ left.goneDirs = {}
  /\ \E p \in left.goneFiles :
       /\ Exists(disk, p)
       /\ disk' = [disk EXCEPT ![p] = Absent]
       /\ left' = [left EXCEPT !.goneFiles = @ \ {p}]
Finished == left.dirs = {} /\ DOMAIN left.files = {} /\ left.goneDirs = {} /\ left.goneFiles = {}

WriteToVfs ==
  /\ pc = "write"
  /\ \/ CreateDirs \/ WriteFiles \/ RemoveDirs \/ RemoveFiles
  /\ UNCHANGED <<before, pc, fs, touched>>
HalfCreated ==
  \E p \in left.dirs : \E n \in 1..(Len(p) - 1) :
    /\ CanCreate(p)
    /\ disk' = [q \in Path |-> IF q \in Above(p) /\ Len(q) <= n /\ disk[q] = Absent
                               THEN Folder ELSE disk[q]]
HalfWritten ==
  /\ left.dirs = {}
  /\ \E p \in DOMAIN left.files : CanWrite(p) /\ disk' = [disk EXCEPT ![p] = Torn]
Inside(p) == {q \in Path : IsPrefix(p, q) /\ q # p /\ disk[q] # Absent}
HalfRemoved ==
  /\ left.dirs = {} /\ DOMAIN left.files = {}
  /\ \E p \in left.goneDirs : \E gone \in SUBSET Inside(p) :
       /\ IsDir(disk, p)
       /\ \A q \in gone : Inside(q) \subseteq gone
       /\ disk' = [q \in Path |-> IF q \in gone THEN Absent ELSE disk[q]]

WriteFails ==
  /\ pc = "write" /\ ~Finished
  /\ pc' = "failed"
  /\ HalfCreated \/ HalfWritten \/ HalfRemoved \/ UNCHANGED disk
  /\ UNCHANGED <<before, fs, left, touched>>
Finish ==
  /\ pc = "write" /\ Finished
  /\ pc' = "done"
  /\ UNCHANGED <<disk, before, fs, left, touched>>

(* The user runs the command again. *)
Rerun ==
  /\ pc = "done" /\ ~touched
  /\ pc' = "load"
  /\ UNCHANGED <<disk, before, fs, left, touched>>

-----------------------------------------------------------------------------
(* The rest of the command, which reads the disk and does not write it: it *)
(* loads the project and the input, works out an FsSnapshot and gets to    *)
(* the question, unless an error or a panic ends it.                       *)
Working == {"load", "prune", "link", "loop"}
Work ==
  /\ pc \in Working
  /\ pc' \in (Working \ {"load"}) \cup {"prompt", "refused", "panic"}
  /\ before' = IF pc = "load" THEN disk ELSE before
  /\ IsFs(fs')
  /\ UNCHANGED <<disk, left, touched>>

FsInit ==
  /\ disk = [p \in Path |-> disk[p]] /\ before = disk
  /\ pc = "load" /\ fs = NoFs /\ left = NoFs /\ touched = FALSE
FsNext == \/ Work \/ Answer \/ (\E p \in Path : Change(p))
          \/ WriteToVfs \/ WriteFails \/ Finish \/ Rerun
FsSpec == FsInit /\ [][FsNext]_fsVars

(* write_to_vfs adds before it removes: while something is still to be     *)
(* written, or after a failure to write it, nothing has left the disk.     *)
NothingLostEarly ==
  pc \in {"write", "failed"} /\ ~touched
    /\ (\E p \in Path : before[p] # Absent /\ disk[p] = Absent)
    => left.dirs = {} /\ DOMAIN left.files = {}
=============================================================================
