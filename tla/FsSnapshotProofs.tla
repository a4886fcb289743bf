--------------------------- MODULE FsSnapshotProofs ---------------------------
(***************************************************************************)
(* What write_to_vfs does to the disk, for every disk, every FsSnapshot    *)
(* and every order in which the hash maps hand out their entries.          *)
(***************************************************************************)
EXTENDS FsSnapshot, TLAPS

-----------------------------------------------------------------------------
(* The disk d with the FsSnapshot f written to it. *)
Gone(f, p) == p \in f.goneFiles \/ \E q \in f.goneDirs : IsPrefix(q, p)
Made(f, p) == p \in f.dirs \/ \E q \in f.dirs : p \in Above(q)
Written(d, f) ==
  [p \in Path |->
     IF Gone(f, p) THEN Absent
     ELSE IF p \in DOMAIN f.files THEN f.files[p]
     ELSE IF d[p] = Absent /\ Made(f, p) THEN Folder
     ELSE d[p]]

(* The part of the FsSnapshot that was written. *)
Done == [files |-> Without(fs.files, DOMAIN left.files), dirs |-> fs.dirs \ left.dirs,
         goneFiles |-> fs.goneFiles \ left.goneFiles,
         goneDirs |-> fs.goneDirs \ left.goneDirs]

Writing == pc \in {"write", "failed", "done"}
Reading == pc \in {"prune", "link", "loop", "prompt", "declined", "refused", "panic"}

(* The disk d, but for what the one operation that failed did: some levels *)
(* above a directory to be made, a file to be written holds a part, or     *)
(* something in a directory to be removed is gone.                         *)
Halfway(d) ==
  \/ disk = d
  \/ \E p \in left.dirs : \A q \in Path :
       disk[q] = d[q] \/ (q \in Above(p) /\ d[q] = Absent /\ disk[q] = Folder)
  \/ /\ left.dirs = {}
     /\ \E p \in DOMAIN left.files : disk = [d EXCEPT ![p] = Torn]
  \/ /\ left.dirs = {} /\ DOMAIN left.files = {}
     /\ \E p \in left.goneDirs : \A q \in Path :
          disk[q] = d[q] \/ (IsPrefix(p, q) /\ q # p /\ disk[q] = Absent)

(* The disk is what the pass found with what was done so far, whatever the *)
(* order, and after a failure with a part of one operation more; a pass    *)
(* that has not come to the writing has changed nothing.                   *)
DiskIsPlanned ==
  ~touched => /\ pc \in {"write", "done"} => disk = Written(before, Done)
              /\ pc = "failed" => Halfway(Written(before, Done))
              /\ Reading => disk = before

(* When the command is done, everything was written; a path that was there *)
(* and that the FsSnapshot neither writes nor removes is as it was, also   *)
(* after a failure.                                                        *)
DoneIsComplete == pc = "done" /\ ~touched => disk = Written(before, fs)
UnplannedSurvives ==
  pc # "load" /\ ~touched =>
    \A p \in Path : before[p] # Absent /\ disk[p] # before[p] =>
      pc \in {"write", "failed", "done"} /\ (p \in DOMAIN fs.files \/ Gone(fs, p))

-----------------------------------------------------------------------------
(* The inductive invariant: what is left is part of the FsSnapshot, and a  *)
(* group is begun only when the one before it is through.                  *)
LeftIsPart ==
  /\ IsFs(left)
  /\ DOMAIN left.files \subseteq DOMAIN fs.files
  /\ \A p \in DOMAIN left.files : left.files[p] = fs.files[p]
  /\ left.dirs \subseteq fs.dirs
  /\ left.goneFiles \subseteq fs.goneFiles
  /\ left.goneDirs \subseteq fs.goneDirs
InGroups ==
  /\ DOMAIN left.files # DOMAIN fs.files => left.dirs = {}
  /\ left.goneDirs # fs.goneDirs => left.dirs = {} /\ DOMAIN left.files = {}
  /\ left.goneFiles # fs.goneFiles =>
       left.dirs = {} /\ DOMAIN left.files = {} /\ left.goneDirs = {}
States == Working \cup {"prompt", "declined", "refused", "panic", "write", "failed", "done"}
Types ==
  /\ disk = [p \in Path |-> disk[p]] /\ before = [p \in Path |-> before[p]]
  /\ pc \in States /\ touched \in BOOLEAN /\ IsFs(fs)
Inv ==
  /\ Types
  /\ Writing => LeftIsPart /\ InGroups
  /\ pc = "done" => Finished
  /\ DiskIsPlanned

LEMMA NoFsIsFs == IsFs(NoFs)
BY DEF IsFs, NoFs

LEMMA InitIsInv == FsInit => Inv
BY NoFsIsFs DEF FsInit, Inv, Types, States, Working, Writing, Reading, DiskIsPlanned, Finished

(* The steps outside write_to_vfs. *)
LEMMA WorkKeepsInv == Inv /\ Work => Inv'
<1> SUFFICES ASSUME Inv, Work PROVE Inv'
  OBVIOUS
<1>1. pc \in Working /\ pc' \in (Working \ {"load"}) \cup {"prompt", "refused", "panic"}
  BY DEF Work
<1>2. disk' = disk /\ left' = left /\ touched' = touched /\ IsFs(fs')
      /\ before' = (IF pc = "load" THEN disk ELSE before)
  BY DEF Work
<1>3. Types'
  BY <1>1, <1>2 DEF Inv, Types, States, Working, IsFs
<1>4. ~Writing' /\ pc' # "done" /\ Reading'
  BY <1>1 DEF Writing, Reading, Working
<1>5. pc # "load" => Reading
  BY <1>1 DEF Reading, Working
<1>6. ~touched => disk' = before'
  BY <1>2, <1>5 DEF Inv, DiskIsPlanned
<1>7. QED BY <1>3, <1>4, <1>2, <1>6 DEF Inv, DiskIsPlanned, Writing

LEMMA AnswerKeepsInv == Inv /\ Answer => Inv'
<1> SUFFICES ASSUME Inv, Answer PROVE Inv'
  OBVIOUS
<1>1. disk' = disk /\ before' = before /\ fs' = fs /\ touched' = touched /\ pc = "prompt"
  BY DEF Answer
<1>2. Types' 
  BY <1>1 DEF Answer, Inv, Types, States, Working, IsFs
<1>3. ~touched => disk = before
  BY <1>1 DEF Inv, DiskIsPlanned, Reading
<1>4. CASE pc' = "declined"
  BY <1>1, <1>2, <1>3, <1>4 DEF Inv, DiskIsPlanned, Reading, Writing
<1>5. CASE pc' = "write" /\ left' = fs
  <2>1. LeftIsPart' /\ InGroups'
    BY <1>1, <1>5 DEF Inv, Types, LeftIsPart, InGroups, IsFs
  <2>2. \A p \in Path : /\ ~Gone(Done', p) /\ p \notin DOMAIN (Done').files
                        /\ ~Made(Done', p)
    BY <1>1, <1>5 DEF Done, Gone, Made, Without
  <2>3. Written(before', Done') = [p \in Path |-> before[p]]
    BY <1>1, <2>2 DEF Written
  <2>4. ~touched => disk' = Written(before', Done')
    BY <1>1, <1>3, <2>3 DEF Inv, Types
  <2>5. QED BY <1>1, <1>2, <1>5, <2>1, <2>4 DEF Inv, DiskIsPlanned, Reading, Writing
<1>6. QED BY <1>4, <1>5 DEF Answer

LEMMA ChangeKeepsInv == ASSUME NEW p \in Path, Inv, Change(p) PROVE Inv'
<1>1. before' = before /\ fs' = fs /\ left' = left /\ touched' = TRUE /\ pc = "prompt" /\ pc' = pc
  BY DEF Change
<1>2. disk' = [q \in Path |-> disk'[q]]
  BY DEF Change, Inv, Types
<1>3. Types'
  BY <1>1, <1>2 DEF Inv, Types, States, Working, IsFs
<1>4. QED BY <1>1, <1>3 DEF Inv, DiskIsPlanned, Writing

LEMMA EndKeepsInv == Inv /\ (Finish \/ Rerun) => Inv'
<1> SUFFICES ASSUME Inv, Finish \/ Rerun PROVE Inv'
  OBVIOUS
<1>1. disk' = disk /\ before' = before /\ fs' = fs /\ left' = left /\ touched' = touched
  BY DEF Finish, Rerun
<1>2. Types'
  BY <1>1 DEF Finish, Rerun, Inv, Types, States, Working, IsFs
<1>3. /\ Writing' => pc = "write" /\ Writing
      /\ ~Reading' /\ pc' # "failed"
      /\ pc' = "done" => Finished
  BY DEF Finish, Rerun, Writing, Reading
<1>4. Done' = Done /\ (LeftIsPart => LeftIsPart') /\ (InGroups => InGroups')
      /\ (Finished => Finished')
  BY <1>1 DEF Done, Without, LeftIsPart, InGroups, Finished, IsFs
<1>5. Writing' /\ ~touched => disk' = Written(before', Done')
  BY <1>1, <1>3, <1>4 DEF Inv, DiskIsPlanned, Written, Gone, Made
<1>6. QED BY <1>1, <1>2, <1>3, <1>4, <1>5 DEF Inv, DiskIsPlanned, Writing

LEMMA FailKeepsInv == Inv /\ WriteFails => Inv'
<1> SUFFICES ASSUME Inv, WriteFails PROVE Inv'
  OBVIOUS
<1>1. /\ before' = before /\ fs' = fs /\ left' = left /\ touched' = touched
      /\ pc = "write" /\ pc' = "failed"
  BY DEF WriteFails
<1>2. disk' = [p \in Path |-> disk'[p]]
  BY DEF WriteFails, HalfCreated, HalfWritten, HalfRemoved, Inv, Types
<1>3. Types'
  BY <1>1, <1>2 DEF Inv, Types, States, Working, IsFs
<1>4. LeftIsPart' /\ InGroups'
  BY <1>1 DEF Inv, Writing, LeftIsPart, InGroups, IsFs
<1>5. Done' = Done
  BY <1>1 DEF Done, Without
<1>6. Written(before', Done') = Written(before, Done)
  BY <1>1, <1>5 DEF Written, Gone, Made
<1>7. ASSUME ~touched PROVE Halfway(Written(before, Done))'
  <2>1. disk = Written(before, Done)
    BY <1>1, <1>7 DEF Inv, DiskIsPlanned
  <2>2. Written(before, Done)' = disk
    BY <1>6, <2>1
  <2>3. CASE HalfCreated
    BY <1>1, <2>2, <2>3 DEF Halfway, HalfCreated
  <2>4. CASE HalfWritten
    BY <1>1, <2>2, <2>4 DEF Halfway, HalfWritten
  <2>5. CASE HalfRemoved
    BY <1>1, <2>2, <2>5 DEF Halfway, HalfRemoved, Inside
  <2>6. CASE UNCHANGED disk
    BY <2>2, <2>6 DEF Halfway
  <2>7. QED BY <2>3, <2>4, <2>5, <2>6 DEF WriteFails
<1>8. QED BY <1>1, <1>3, <1>4, <1>7 DEF Inv, DiskIsPlanned, Reading, Writing

(* write_to_vfs, one operation of each group.  The groups before it are    *)
(* through and the ones after it have not begun.                           *)
LEMMA CreateDirsKeepsInv == Inv /\ WriteToVfs /\ CreateDirs => Inv'
<1> SUFFICES ASSUME Inv, WriteToVfs, CreateDirs PROVE Inv'
  OBVIOUS
<1>1. before' = before /\ fs' = fs /\ touched' = touched /\ pc = "write" /\ pc' = pc
  BY DEF WriteToVfs
<1>2. PICK p \in left.dirs :
        /\ disk' = [q \in Path |-> IF q \in Above(p) \cup {p} /\ disk[q] = Absent
                                   THEN Folder ELSE disk[q]]
        /\ left' = [left EXCEPT !.dirs = @ \ {p}]
  BY DEF CreateDirs
<1>3. LeftIsPart /\ InGroups
  BY <1>1 DEF Inv, Writing
<1>4. /\ left'.files = left.files /\ left'.dirs = left.dirs \ {p}
      /\ left'.goneFiles = left.goneFiles /\ left'.goneDirs = left.goneDirs
  BY <1>2, <1>3 DEF LeftIsPart, IsFs
<1>5. IsFs(left')
  BY <1>2, <1>3, <1>4 DEF LeftIsPart, IsFs
<1>6. LeftIsPart' /\ InGroups'
  BY <1>1, <1>2, <1>3, <1>4, <1>5 DEF LeftIsPart, InGroups
<1>7. Types'
  BY <1>1, <1>2 DEF Inv, Types, IsFs
<1>8. ASSUME ~touched PROVE disk' = Written(before', Done')
  <2>1. disk = Written(before, Done)
    BY <1>1, <1>8 DEF Inv, DiskIsPlanned, Writing
  <2>2. /\ left.goneDirs = fs.goneDirs /\ left.goneFiles = fs.goneFiles
        /\ DOMAIN left.files = DOMAIN fs.files
    BY <1>2, <1>3 DEF InGroups
  <2>3. \A q : /\ ~Gone(Done, q) /\ ~Gone(Done', q)
               /\ q \notin DOMAIN Done.files /\ q \notin DOMAIN (Done').files
    BY <1>1, <1>4, <2>2 DEF Gone, Done, Without
  <2>4. \A q : Made(Done', q) <=> Made(Done, q) \/ q \in Above(p) \cup {p}
    BY <1>1, <1>2, <1>3, <1>4 DEF Made, Done, LeftIsPart
  <2>5. \A q \in Path : Written(before', Done')[q] =
          IF before[q] = Absent /\ Made(Done', q) THEN Folder ELSE before[q]
    BY <1>1, <2>3 DEF Written
  <2>6. \A q \in Path : disk[q] =
          IF before[q] = Absent /\ Made(Done, q) THEN Folder ELSE before[q]
    BY <2>1, <2>3 DEF Written
  <2>7. \A q \in Path : disk'[q] = Written(before', Done')[q]
    BY <1>2, <2>4, <2>5, <2>6, FolderAssumption
  <2>8. disk' = [q \in Path |-> disk'[q]]
    BY <1>7 DEF Types
  <2>9. Written(before', Done') = [q \in Path |-> Written(before', Done')[q]]
    BY DEF Written
  <2>10. QED BY <2>7, <2>8, <2>9
<1>9. QED BY <1>1, <1>6, <1>7, <1>8 DEF Inv, DiskIsPlanned, Reading

LEMMA WriteFilesKeepsInv == Inv /\ WriteToVfs /\ WriteFiles => Inv'
<1> SUFFICES ASSUME Inv, WriteToVfs, WriteFiles PROVE Inv'
  OBVIOUS
<1>1. before' = before /\ fs' = fs /\ touched' = touched /\ pc = "write" /\ pc' = pc
  BY DEF WriteToVfs
<1>2. PICK p \in DOMAIN left.files :
        /\ disk' = [disk EXCEPT ![p] = left.files[p]]
        /\ left' = [left EXCEPT !.files = Without(@, {p})]
  BY DEF WriteFiles
<1>3. LeftIsPart /\ InGroups /\ left.dirs = {}
  BY <1>1 DEF Inv, Writing, WriteFiles
<1>4. /\ left'.files = Without(left.files, {p}) /\ left'.dirs = left.dirs
      /\ left'.goneFiles = left.goneFiles /\ left'.goneDirs = left.goneDirs
  BY <1>2, <1>3 DEF LeftIsPart, IsFs
<1>5. /\ DOMAIN left'.files = DOMAIN left.files \ {p}
      /\ \A q \in DOMAIN left'.files : left'.files[q] = left.files[q]
  BY <1>4 DEF Without
<1>6. IsFs(left')
  <2>1. left' = [files |-> left'.files, dirs |-> left'.dirs,
                 goneFiles |-> left'.goneFiles, goneDirs |-> left'.goneDirs]
    BY <1>2, <1>3, <1>4 DEF LeftIsPart, IsFs
  <2>2. left'.files = [q \in DOMAIN left'.files |-> left'.files[q]]
    BY <1>4 DEF Without
  <2>3. QED BY <1>3, <1>4, <1>5, <2>1, <2>2 DEF LeftIsPart, IsFs
<1>7. LeftIsPart' /\ InGroups'
  BY <1>1, <1>2, <1>3, <1>4, <1>5, <1>6 DEF LeftIsPart, InGroups
<1>8. p \in Path /\ disk'[p] = fs.files[p] /\ \A q \in Path \ {p} : disk'[q] = disk[q]
  BY <1>2, <1>3 DEF LeftIsPart, IsFs, Inv, Types
<1>9. Types'
  BY <1>1, <1>2 DEF Inv, Types, IsFs
<1>10. ASSUME ~touched PROVE disk' = Written(before', Done')
  <2>1. disk = Written(before, Done)
    BY <1>1, <1>10 DEF Inv, DiskIsPlanned, Writing
  <2>2. left.goneDirs = fs.goneDirs /\ left.goneFiles = fs.goneFiles
    BY <1>2, <1>3 DEF InGroups
  <2>3. \A q : ~Gone(Done, q) /\ ~Gone(Done', q) /\ (Made(Done', q) <=> Made(Done, q))
    BY <1>1, <1>4, <2>2 DEF Gone, Made, Done
  <2>4. /\ DOMAIN (Done').files = DOMAIN Done.files \cup {p}
        /\ \A q \in DOMAIN (Done').files : (Done').files[q] = fs.files[q]
        /\ \A q \in DOMAIN Done.files : Done.files[q] = fs.files[q]
    BY <1>1, <1>2, <1>3, <1>5 DEF Done, Without, LeftIsPart
  <2>5. \A q \in Path : Written(before', Done')[q] =
          IF q \in DOMAIN Done.files \cup {p} THEN fs.files[q]
          ELSE IF before[q] = Absent /\ Made(Done, q) THEN Folder ELSE before[q]
    BY <1>1, <2>3, <2>4 DEF Written
  <2>6. \A q \in Path : disk[q] =
          IF q \in DOMAIN Done.files THEN fs.files[q]
          ELSE IF before[q] = Absent /\ Made(Done, q) THEN Folder ELSE before[q]
    BY <2>1, <2>3, <2>4 DEF Written
  <2>7. \A q \in Path : disk'[q] = Written(before', Done')[q]
    BY <1>8, <2>5, <2>6
  <2>8. disk' = [q \in Path |-> disk'[q]]
    BY <1>9 DEF Types
  <2>9. Written(before', Done') = [q \in Path |-> Written(before', Done')[q]]
    BY DEF Written
  <2>10. QED BY <2>7, <2>8, <2>9
<1>11. QED BY <1>1, <1>7, <1>9, <1>10 DEF Inv, DiskIsPlanned, Reading

(* The two groups of removals share what follows from their effect. *)
LEMMA RemovalKeepsInv ==
  ASSUME Inv, WriteToVfs, left.dirs = {}, DOMAIN left.files = {},
         IsFs(left'), left'.dirs = {}, DOMAIN left'.files = {},
         left'.goneDirs \subseteq left.goneDirs, left'.goneFiles \subseteq left.goneFiles,
         left'.goneFiles # left.goneFiles => left'.goneDirs = {},
         left'.goneDirs # left.goneDirs => left'.goneFiles = left.goneFiles,
         disk' = [q \in Path |-> disk'[q]],
         \A q \in Path :
           IF Gone(Done', q) THEN disk'[q] = Absent \/ (Gone(Done, q) /\ disk'[q] = disk[q])
           ELSE disk'[q] = disk[q]
  PROVE  Inv'
<1>1. before' = before /\ fs' = fs /\ touched' = touched /\ pc = "write" /\ pc' = pc
  BY DEF WriteToVfs
<1>2. LeftIsPart /\ InGroups
  BY <1>1 DEF Inv, Writing
<1>3. LeftIsPart' /\ InGroups'
  BY <1>1, <1>2 DEF LeftIsPart, InGroups
<1>4. Types'
  BY <1>1 DEF Inv, Types, IsFs
<1>5. ASSUME ~touched PROVE disk' = Written(before', Done')
  <2>1. disk = Written(before, Done)
    BY <1>1, <1>5 DEF Inv, DiskIsPlanned, Writing
  <2>2. (Done').files = Done.files /\ (Done').dirs = Done.dirs
    BY <1>1 DEF Done
  <2>3. \A q : Gone(Done, q) => Gone(Done', q)
    BY <1>1 DEF Gone, Done
  <2>4. \A q \in Path : disk'[q] = Written(before', Done')[q]
    <3>1. TAKE q \in Path
    <3>2. CASE Gone(Done', q)
      BY <1>1, <2>1, <3>2 DEF Written
    <3>3. CASE ~Gone(Done', q)
      <4>1. ~Gone(Done, q) /\ (Made(Done', q) <=> Made(Done, q))
        BY <2>2, <2>3, <3>3 DEF Made
      <4>2. disk'[q] = disk[q]
        BY <3>3
      <4>3. QED BY <1>1, <2>1, <2>2, <3>3, <4>1, <4>2 DEF Written
    <3>4. QED BY <3>2, <3>3
  <2>5. disk' = [q \in Path |-> disk'[q]]
    BY <1>4 DEF Types
  <2>6. Written(before', Done') = [q \in Path |-> Written(before', Done')[q]]
    BY DEF Written
  <2>7. QED BY <2>4, <2>5, <2>6
<1>6. QED BY <1>1, <1>3, <1>4, <1>5 DEF Inv, DiskIsPlanned, Reading

LEMMA RemoveDirsKeepsInv == Inv /\ WriteToVfs /\ RemoveDirs => Inv'
<1> SUFFICES ASSUME Inv, WriteToVfs, RemoveDirs PROVE Inv'
  OBVIOUS
<1>1. before' = before /\ fs' = fs /\ pc = "write"
  BY DEF WriteToVfs
<1>2. LeftIsPart /\ InGroups /\ left.dirs = {} /\ DOMAIN left.files = {}
  BY <1>1 DEF Inv, Writing, RemoveDirs
<1>3. PICK p \in left.goneDirs :
        /\ disk' = [q \in Path |-> IF IsPrefix(p, q) THEN Absent ELSE disk[q]]
        /\ left' = [left EXCEPT !.goneDirs = @ \ {p}]
  BY DEF RemoveDirs
<1>4. /\ left'.files = left.files /\ left'.dirs = left.dirs
      /\ left'.goneFiles = left.goneFiles /\ left'.goneDirs = left.goneDirs \ {p}
  BY <1>2, <1>3 DEF LeftIsPart, IsFs
<1>5. IsFs(left')
  BY <1>2, <1>3, <1>4 DEF LeftIsPart, IsFs
<1>6. left.goneFiles = fs.goneFiles
  BY <1>2, <1>3 DEF InGroups
<1>7. \A q : Gone(Done', q) <=> Gone(Done, q) \/ IsPrefix(p, q)
  BY <1>1, <1>2, <1>3, <1>4 DEF Gone, Done, LeftIsPart
<1>8. \A q \in Path :
        IF Gone(Done', q) THEN disk'[q] = Absent \/ (Gone(Done, q) /\ disk'[q] = disk[q])
        ELSE disk'[q] = disk[q]
  BY <1>3, <1>7
<1>9. disk' = [q \in Path |-> disk'[q]]
  BY <1>3
<1>10. QED BY <1>2, <1>4, <1>5, <1>8, <1>9, RemovalKeepsInv

LEMMA RemoveFilesKeepsInv == Inv /\ WriteToVfs /\ RemoveFiles => Inv'
<1> SUFFICES ASSUME Inv, WriteToVfs, RemoveFiles PROVE Inv'
  OBVIOUS
<1>1. before' = before /\ fs' = fs /\ pc = "write"
  BY DEF WriteToVfs
<1>2. /\ LeftIsPart /\ InGroups
      /\ left.dirs = {} /\ DOMAIN left.files = {} /\ left.goneDirs = {}
  BY <1>1 DEF Inv, Writing, RemoveFiles
<1>3. PICK p \in left.goneFiles :
        /\ disk' = [disk EXCEPT ![p] = Absent]
        /\ left' = [left EXCEPT !.goneFiles = @ \ {p}]
  BY DEF RemoveFiles
<1>4. /\ left'.files = left.files /\ left'.dirs = left.dirs
      /\ left'.goneFiles = left.goneFiles \ {p} /\ left'.goneDirs = left.goneDirs
  BY <1>2, <1>3 DEF LeftIsPart, IsFs
<1>5. IsFs(left')
  BY <1>2, <1>3, <1>4 DEF LeftIsPart, IsFs
<1>6. \A q : Gone(Done', q) <=> Gone(Done, q) \/ q = p
  BY <1>1, <1>2, <1>3, <1>4 DEF Gone, Done, LeftIsPart
<1>7. disk' = [q \in Path |-> IF q = p THEN Absent ELSE disk[q]]
  BY <1>3 DEF Inv, Types
<1>8. \A q \in Path :
        IF Gone(Done', q) THEN disk'[q] = Absent \/ (Gone(Done, q) /\ disk'[q] = disk[q])
        ELSE disk'[q] = disk[q]
  BY <1>6, <1>7
<1>9. disk' = [q \in Path |-> disk'[q]]
  BY <1>7
<1>10. QED BY <1>2, <1>4, <1>5, <1>8, <1>9, RemovalKeepsInv

-----------------------------------------------------------------------------
LEMMA NextKeepsInv == Inv /\ [FsNext]_fsVars => Inv'
<1> SUFFICES ASSUME Inv, [FsNext]_fsVars PROVE Inv'
  OBVIOUS
<1>1. CASE Work
  BY <1>1, WorkKeepsInv
<1>2. CASE Answer
  BY <1>2, AnswerKeepsInv
<1>3. CASE \E p \in Path : Change(p)
  BY <1>3, ChangeKeepsInv
<1>4. CASE WriteToVfs
  BY <1>4, CreateDirsKeepsInv, WriteFilesKeepsInv, RemoveDirsKeepsInv, RemoveFilesKeepsInv
  DEF WriteToVfs
<1>5. CASE WriteFails \/ Finish \/ Rerun
  BY <1>5, FailKeepsInv, EndKeepsInv
<1>6. CASE UNCHANGED fsVars
  <2>1. /\ disk' = disk /\ before' = before /\ pc' = pc
        /\ fs' = fs /\ left' = left /\ touched' = touched
    BY <1>6 DEF fsVars
  <2>2. Types' /\ Done' = Done /\ (LeftIsPart => LeftIsPart') /\ (InGroups => InGroups')
        /\ (Finished => Finished') /\ (Writing' <=> Writing) /\ (Reading' <=> Reading)
    BY <2>1 DEF Inv, Types, Done, Without, LeftIsPart, InGroups, Finished, Writing, Reading, IsFs
  <2>3. Written(before', Done') = Written(before, Done)
    BY <2>1, <2>2 DEF Written, Gone, Made
  <2>4. Halfway(Written(before, Done))' <=> Halfway(Written(before, Done))
    BY <2>1, <2>3 DEF Halfway, Above
  <2>5. DiskIsPlanned' <=> DiskIsPlanned
    BY <2>1, <2>2, <2>3, <2>4 DEF DiskIsPlanned
  <2>6. QED BY <2>1, <2>2, <2>5 DEF Inv
<1>7. QED BY <1>1, <1>2, <1>3, <1>4, <1>5, <1>6 DEF FsNext

LEMMA InvHolds == FsSpec => []Inv
<1>1. FsInit => Inv
  BY InitIsInv
<1>2. Inv /\ [FsNext]_fsVars => Inv'
  BY NextKeepsInv
<1>3. QED BY <1>1, <1>2, PTL DEF FsSpec

(* In every state of a pass the disk is the disk it found with exactly the *)
(* operations of the FsSnapshot that were done, whatever order the hash    *)
(* maps gave; until the question is answered with yes nothing is written.  *)
THEOREM DiskFollowsPlan == FsSpec => []DiskIsPlanned
<1>1. Inv => DiskIsPlanned
  BY DEF Inv
<1>2. QED BY <1>1, InvHolds, PTL

(* A command that ends well has written its whole FsSnapshot: two runs on  *)
(* the same disk with the same FsSnapshot end with the same disk.          *)
THEOREM DoneWroteEverything == FsSpec => []DoneIsComplete
<1>1. ASSUME Inv, pc = "done", ~touched PROVE disk = Written(before, fs)
  <2>1. Finished /\ LeftIsPart /\ IsFs(fs) /\ disk = Written(before, Done)
    BY <1>1 DEF Inv, Types, DiskIsPlanned, Writing
  <2>2. Done.files = fs.files
    <3>1. DOMAIN left.files = {} /\ fs.files = [p \in DOMAIN fs.files |-> fs.files[p]]
      BY <2>1 DEF Finished, IsFs
    <3>2. QED BY <3>1 DEF Done, Without
  <2>3. Done.dirs = fs.dirs /\ Done.goneFiles = fs.goneFiles /\ Done.goneDirs = fs.goneDirs
    BY <2>1 DEF Finished, Done
  <2>4. QED BY <2>1, <2>2, <2>3 DEF Written, Gone, Made
<1>2. Inv => DoneIsComplete
  BY <1>1 DEF DoneIsComplete
<1>3. QED BY <1>2, InvHolds, PTL

(* A file or directory that the FsSnapshot neither writes nor removes is   *)
(* left as it was, also when the writing fails half-way through one of its *)
(* operations.                                                             *)
THEOREM UnplannedIsKept == FsSpec => []UnplannedSurvives
<1>1. ASSUME Inv, pc # "load", ~touched, NEW p \in Path, before[p] # Absent, disk[p] # before[p]
      PROVE  pc \in {"write", "failed", "done"} /\ (p \in DOMAIN fs.files \/ Gone(fs, p))
  <2> DEFINE w == Written(before, Done)
  <2>1. Writing /\ LeftIsPart
    BY <1>1 DEF Inv, Types, States, Working, DiskIsPlanned, Writing, Reading
  <2>2. Gone(Done, p) => Gone(fs, p)
    BY DEF Gone, Done
  <2>3. DOMAIN Done.files \subseteq DOMAIN fs.files
    BY DEF Done, Without
  <2>4. w[p] # before[p] => p \in DOMAIN fs.files \/ Gone(fs, p)
    BY <1>1, <2>2, <2>3 DEF Written
  <2>5. CASE disk[p] = w[p]
    BY <1>1, <2>1, <2>4, <2>5 DEF Writing
  <2>6. CASE disk[p] # w[p]
    <3>1. pc = "failed" /\ Halfway(w)
      BY <1>1, <2>1, <2>6 DEF Inv, DiskIsPlanned, Writing
    <3>2. w[p] = Absent \/ p \in DOMAIN left.files \/ (\E q \in left.goneDirs : IsPrefix(q, p))
      <4>1. w = [q \in Path |-> w[q]]
        BY DEF Written
      <4> HIDE DEF w
      <4>2. QED BY <2>6, <3>1, <4>1 DEF Halfway
    <3>3. (\E q \in left.goneDirs : IsPrefix(q, p)) => Gone(fs, p)
      BY <2>1 DEF LeftIsPart, Gone
    <3>4. QED BY <1>1, <2>1, <2>4, <3>1, <3>2, <3>3 DEF LeftIsPart
  <2>7. QED BY <2>5, <2>6
<1>2. Inv => UnplannedSurvives
  BY <1>1 DEF UnplannedSurvives
<1>3. QED BY <1>2, InvHolds, PTL

(* Nothing has left the disk while something is still to be written to it, *)
(* not even when an operation failed half-way.                             *)
THEOREM AddsBeforeRemoving == FsSpec => []NothingLostEarly
<1>1. ASSUME Inv, pc \in {"write", "failed"}, ~touched, NEW p \in Path,
             before[p] # Absent, disk[p] = Absent
      PROVE  left.dirs = {} /\ DOMAIN left.files = {}
  <2> DEFINE w == Written(before, Done)
  <2>1. LeftIsPart /\ InGroups /\ IsFs(fs)
    BY <1>1 DEF Inv, Types, Writing
  <2>2. ASSUME w[p] = Absent PROVE left.dirs = {} /\ DOMAIN left.files = {}
    <3>1. ASSUME p \in DOMAIN Done.files PROVE Done.files[p] # Absent
      BY <2>1, <3>1 DEF Done, Without, IsFs
    <3>2. Gone(Done, p)
      BY <1>1, <2>2, <3>1 DEF Written
    <3>3. left.goneDirs # fs.goneDirs \/ left.goneFiles # fs.goneFiles
      BY <3>2 DEF Gone, Done
    <3>4. QED BY <2>1, <3>3 DEF InGroups
  <2>3. ASSUME w[p] # Absent PROVE left.dirs = {} /\ DOMAIN left.files = {}
    <3>1. Halfway(w)
      BY <1>1, <2>3 DEF Inv, DiskIsPlanned
    <3>2. w = [q \in Path |-> w[q]]
      BY DEF Written
    <3> HIDE DEF w
    <3>3. QED BY <1>1, <2>3, <3>1, <3>2, FolderAssumption, TornAssumption DEF Halfway
  <2>4. QED BY <2>2, <2>3
<1>2. Inv => NothingLostEarly
  BY <1>1 DEF NothingLostEarly
<1>3. QED BY <1>2, InvHolds, PTL
=============================================================================
