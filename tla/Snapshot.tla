------------------------------ MODULE Snapshot ------------------------------
(***************************************************************************)
(* The snapshot middleware: how a file system path becomes an instance     *)
(* snapshot.  Everything here is a function of one state of the disk.      *)
(*                                                                         *)
(* What a content parses to is a parameter: MetaOf for meta files,         *)
(* ProjectOf for project files, ModelOf for model files; None is a         *)
(* malformed file.  A CSV file is a sequence of rows with a key and a      *)
(* source text, each possibly None.                                        *)
(*                                                                         *)
(* A snapshot function returns a record: ok is FALSE for Err, inst is None *)
(* for Ok(None), reads are the paths read successfully (the Vfs watches    *)
(* them), looks the paths whose state the outcome depends on.              *)
(***************************************************************************)
EXTENDS SnapshotTypes, TLC

CONSTANTS Bad,                               \* a malformed content
          MetaOf(_), ProjectOf(_), ModelOf(_),
          Normalized(_),                     \* a text with its line ends as line feeds
          Service                            \* the classes that are services

(* get_dir_middleware's priority list of init files. *)
InitFiles ==
  << <<"init", ".luau">>, <<"init", ".lua">>, <<"init", ".server.luau">>,
     <<"init", ".server.lua">>, <<"init", ".client.luau">>,
     <<"init", ".client.lua">>, <<"init", ".plugin.lua">>,
     <<"init", ".plugin.luau">>, <<"init", ".csv">> >>

(* default_sync_rules; the meta files are excluded from the rules for JSON. *)
DefaultRule ==
  (".server.lua" :> "ServerScript") @@ (".server.luau" :> "ServerScript") @@
  (".client.lua" :> "ClientScript") @@ (".client.luau" :> "ClientScript") @@
  (".plugin.lua" :> "PluginScript") @@ (".plugin.luau" :> "PluginScript") @@
  (".lua" :> "ModuleScript") @@ (".luau" :> "ModuleScript") @@
  (".project.json" :> "Project") @@ (".project.jsonc" :> "Project") @@
  (".model.json" :> "JsonModel") @@ (".model.jsonc" :> "JsonModel") @@
  (".json" :> "Json") @@ (".jsonc" :> "Json") @@ (".toml" :> "Toml") @@ (".csv" :> "Csv") @@
  (".txt" :> "Text") @@ (".rbxmx" :> "Rbxmx") @@ (".rbxm" :> "Rbxm") @@
  (".yml" :> "Yaml") @@ (".yaml" :> "Yaml")

(* The class and the property that the middleware of a plain file gives.   *)
(* emit_legacy_scripts decides what client scripts become.                 *)
ClassOf(mw, ctx) ==
  CASE mw \in {"ServerScript", "PluginScript"} -> "Script"
    [] mw = "ClientScript" -> IF ctx.legacy THEN "LocalScript" ELSE "Script"
    [] mw \in {"ModuleScript", "Json", "Toml", "Yaml"} -> "ModuleScript"
    [] mw = "Text" -> "StringValue"
    [] mw = "Csv" -> "LocalizationTable"
PropertyOf(mw) == IF mw = "Text" THEN "Value"
                  ELSE IF mw = "Csv" THEN "Contents" ELSE "Source"
Models == {"JsonModel", "Rbxm", "Rbxmx"}
Parsed == {"Json", "Toml", "Yaml", "Csv"}

(* convert_localization_csv: rows without key and source are dropped. *)
ReadCsv(rows) == SelectSeq(rows, LAMBDA r : r.key # None \/ r.source # None)
(* Of the texts only scripts are read with their line ends normalised.     *)
ScriptMw == {"ServerScript", "ClientScript", "PluginScript", "ModuleScript"}
PropertyFrom(mw, content) ==
  CASE mw = "Csv" -> ReadCsv(content)
    [] mw \in ScriptMw -> Normalized(content)
    [] OTHER -> content

-----------------------------------------------------------------------------
IsPathIgnored(ctx, p) ==
  LET hits == SelectSeq(ctx.ignore, LAMBDA r : p \in r.glob)
  IN  hits # <<>> /\ ~Last(hits).negated

UserRule(ctx, p) ==
  LET hits == SelectSeq(ctx.rules, LAMBDA r : p \in r.glob)
  IN  IF hits = <<>> THEN None ELSE Head(hits).mw

(* snapshot_project: rules of an outer project are cleared, its ignored    *)
(* paths are kept and extended.                                            *)
ProjectContext(ctx, project) ==
  [ignore |-> ctx.ignore \o project.ignore, rules |-> project.rules,
   legacy |-> project.legacy]

-----------------------------------------------------------------------------
(* A result that builds on res: its error, or an instance.                 *)
BasedOn(res, reads, looks, inst) ==
  [ok |-> res.ok, inst |-> IF res.ok THEN inst ELSE None,
   reads |-> res.reads \cup reads, looks |-> res.looks \cup looks]

(* apply_all of a parsed meta file: None when it is an error.  apply_id    *)
(* replaces the id even when the file has none.                            *)
ApplyMeta(inst, m, isDirectory) ==
  IF \/ m = None
     \/ isDirectory /\ m.class # None /\ inst.class # "Folder"
     \/ m.id # None /\ inst.meta.id # None
  THEN None
  ELSE [inst EXCEPT
         !.class = IF isDirectory /\ m.class # None THEN m.class ELSE @,
         !.props = m.props @@ @,
         !.meta.iui = IF m.iui # None THEN m.iui ELSE @,
         !.meta.id = m.id]

(* read_and_apply_all of both kinds of metadata, for the file at mp.  The  *)
(* meta file is relevant whether it exists or not.                         *)
WithMeta(d, res, mp, isDirectory) ==
  LET there == Exists(d, mp)
      inst == IF there THEN ApplyMeta(res.inst, MetaOf(d[mp]), isDirectory)
              ELSE res.inst
      reads == res.reads \cup (IF there THEN {mp} ELSE {})
      looks == res.looks \cup {mp}
  IN  IF ~res.ok THEN res
      ELSE IF inst = None THEN Err(reads, looks)
      ELSE Ok([inst EXCEPT !.meta.rel = Append(@, mp)], reads, looks)
WithMetas(d, res, dir, stem, isDirectory) ==
  WithMeta(d, WithMeta(d, res, Join(dir, <<stem, ".meta.json">>), isDirectory),
           Join(dir, <<stem, ".meta.jsonc">>), isDirectory)

(* The instances of a model file below its root have no metadata. *)
RECURSIVE ModelKids(_)
ModelKids(kids) ==
  [i \in DOMAIN kids |-> [name |-> kids[i].name, class |-> kids[i].class,
                          props |-> kids[i].props, kids |-> ModelKids(kids[i].kids),
                          meta |-> Meta(None, <<>>, DefaultContext)]]

(* The middleware of single files: read, parse, apply adjacent metadata.   *)
(* snapshot_csv leaves the context out.                                    *)
SnapshotFile(ctx, d, p, name, mw) ==
  LET at == [Meta(PathSource(p), <<p>>, IF mw = "Csv" THEN DefaultContext ELSE ctx)
              EXCEPT !.mw = mw]
      model == ModelOf(d[p])
  IN  CASE mw = "Ignore" -> Ok(None, {}, {p})
        [] mw \in Models ->
             IF mw = "JsonModel" /\ d[p] = Empty THEN Ok(None, {p}, {p})
             ELSE IF model = None THEN Err({p}, {p})
             ELSE Ok([name |-> name, class |-> model.class, props |-> model.props,
                      kids |-> ModelKids(model.kids), meta |-> at], {p}, {p})
        [] OTHER ->
             IF mw \in Parsed /\ d[p] = Bad THEN Err({p}, {p})
             ELSE WithMetas(d, Ok([name |-> name, class |-> ClassOf(mw, ctx),
                                   props |-> (PropertyOf(mw) :> PropertyFrom(mw, d[p])),
                                   kids |-> <<>>, meta |-> at], {p}, {p}),
                            Parent(p), name, FALSE)

(* Children one after the other; the first error ends the snapshot.        *)
Children(results) ==
  FoldLeft(LAMBDA acc, r :
             IF ~acc.ok THEN acc
             ELSE [ok |-> r.ok, reads |-> acc.reads \cup r.reads,
                   looks |-> acc.looks \cup r.looks,
                   inst |-> IF r.inst = None THEN acc.inst ELSE Append(acc.inst, r.inst)],
           Ok(<<>>, {}, {}), results)

RECURSIVE SnapshotFromVfs(_, _, _), SnapshotNode(_, _, _, _, _, _)

(* snapshot_dir_no_meta, given what the children are. *)
DirOf(ctx, p, kids) ==
  LET rel == <<p>> \o [i \in DOMAIN InitFiles |-> Join(p, InitFiles[i])]
  IN  BasedOn(kids, {p}, {p},
              [name |-> NameOf(p)[1], class |-> "Folder", props |-> <<>>, kids |-> kids.inst,
               meta |-> [Meta(PathSource(p), rel, ctx) EXCEPT !.mw = "Dir"]])
SnapshotDirNoMeta(ctx, d, p) ==
  LET entries == SetToSeq({q \in Path : Exists(d, q) /\ Len(q) = Len(p) + 1
                                        /\ Parent(q) = p /\ ~IsPathIgnored(ctx, q)})
  IN  DirOf(ctx, p, Children([i \in DOMAIN entries |-> SnapshotFromVfs(ctx, d, entries[i])]))

(* snapshot_lua_init and snapshot_csv_init: the init file gives class and  *)
(* properties, the directory children and metadata.                        *)
SnapshotInit(dir, init, file) ==
  BasedOn(file, dir.reads, dir.looks,
          [dir.inst EXCEPT !.class = file.inst.class, !.props = file.inst.props,
                           !.meta.mw = DefaultRule[init[2]] \o "Dir"])

(* snapshot_dir, with or without an init file. *)
SnapshotDir(ctx, d, p, inits, dir) ==
  IF ~dir.ok THEN dir
  ELSE WithMetas(d, IF inits = <<>> THEN dir
                    ELSE SnapshotInit(dir, Head(inits),
                           SnapshotFile(ctx, d, Join(p, Head(inits)), dir.inst.name,
                                        DefaultRule[Head(inits)[2]])),
                 p, "init", TRUE)

(* snapshot_project, given what its root node is. *)
ProjectRoot(p, res) ==
  BasedOn(res, {p}, {p},
          IF res.inst = None THEN None
          ELSE [res.inst EXCEPT !.meta.src = PathSource(p), !.meta.rel = Append(@, p),
                                !.meta.mw = "Project"])
SnapshotProject(ctx, d, p, name) ==
  LET project == ProjectOf(d[p])
  IN  IF project = None THEN Err({p}, {p})
      ELSE ProjectRoot(p, SnapshotNode(ProjectContext(ctx, project), d, p,
                            IF project.name # None THEN project.name
                            ELSE IF NameOf(p) \in Range(DefaultProjects) /\ Len(p) > 1
                            THEN NameOf(Parent(p))[1] ELSE name,
                            project.tree, None))

(* infer_class_name, without the members of StarterPlayer and Workspace.   *)
InferClass(name, parentClass) ==
  IF parentClass = "DataModel" /\ name \in Service THEN name ELSE None

(* The class of a project node: None if it names a class and its path is   *)
(* not a Folder, or if nothing gives it a class.  A required path that is  *)
(* missing is an error only in the latter case.                            *)
NodeClass(node, fromPath, inferred) ==
  CASE fromPath = None /\ node.class # None -> node.class
    [] fromPath = None /\ node.class = None -> inferred
    [] fromPath = "Folder" -> IF node.class # None THEN node.class
                              ELSE IF inferred # None THEN inferred ELSE "Folder"
    [] OTHER -> IF node.class # None THEN None ELSE fromPath

(* snapshot_project_node: first its path, then its class, its children,    *)
(* and what it adds to both.                                               *)
NodeOf(ctx, project, name, node, parentClass, class, at, kids) ==
  LET base == IF at.inst = None
              THEN [props |-> <<>>, kids |-> <<>>, meta |-> Meta(None, <<>>, ctx)] ELSE at.inst
  IN  BasedOn(kids, at.reads, at.looks,
              [name |-> name, class |-> class, props |-> node.props @@ base.props,
               kids |-> base.kids \o kids.inst,
               meta |-> [base.meta EXCEPT
                          !.iui = IF node.iui # None THEN node.iui ELSE (node.path = None \/ @),
                          !.id = IF node.id # None THEN node.id ELSE @,
                          !.src = NodeSource(project, name, node, parentClass)]])
NodeAt(ctx, d, project, name, node, parentClass, at) ==
  LET fromPath == IF at.inst = None THEN None ELSE at.inst.class
      inferred == InferClass(name, parentClass)
      class == NodeClass(node, fromPath, inferred)
      skipped == node.class = None /\ fromPath = None /\ node.optional /\ inferred = None
  IN  CASE ~at.ok -> at
        [] at.ok /\ skipped -> Ok(None, at.reads, at.looks)
        [] at.ok /\ ~skipped /\ class = None -> Err(at.reads, at.looks)
        [] OTHER -> NodeOf(ctx, project, name, node, parentClass, class, at,
                           Children([i \in DOMAIN node.kids |->
                                       SnapshotNode(ctx, d, project, node.kids[i].name,
                                                    node.kids[i].node, class)]))
SnapshotNode(ctx, d, project, name, node, parentClass) ==
  NodeAt(ctx, d, project, name, node, parentClass,
         IF node.path = None THEN Ok(None, {}, {})
         ELSE SnapshotFromVfs(ctx, d, Parent(project) \o node.path))

(* get_dir_middleware: the init files and project files of a directory. *)
Found(d, p, names) == SelectSeq(names, LAMBDA f : Exists(d, Join(p, f)))

(* The rule for a file: the user's before the default ones.                *)
RuleFor(ctx, p) ==
  IF UserRule(ctx, p) # None THEN UserRule(ctx, p)
  ELSE IF NameOf(p)[2] \in DOMAIN DefaultRule THEN DefaultRule[NameOf(p)[2]]
  ELSE None

(* snapshot_from_vfs and snapshot_from_path.                               *)
SnapshotFromVfs(ctx, d, p) ==
  LET projects == Found(d, p, DefaultProjects)
      mw == RuleFor(ctx, p)
  IN  CASE ~Exists(d, p) -> Ok(None, {}, {p})
        [] IsDir(d, p) /\ projects # <<>> ->
             SnapshotProject(ctx, d, Join(p, Head(projects)), NameOf(p)[1])
        [] IsDir(d, p) /\ projects = <<>> ->
             SnapshotDir(ctx, d, p, Found(d, p, InitFiles), SnapshotDirNoMeta(ctx, d, p))
        [] OTHER ->
             IF NameOf(p) \in Range(InitFiles) \/ mw = None THEN Ok(None, {}, {p})
             ELSE IF mw = "Project" THEN SnapshotProject(ctx, d, p, NameOf(p)[1])
             ELSE SnapshotFile(ctx, d, p, NameOf(p)[1], mw)

-----------------------------------------------------------------------------
(* A snapshot as the list that RojoTree takes: every instance before its   *)
(* children, each with the position of its parent.                         *)
RECURSIVE Listed(_)
Listed(s) ==
  FoldLeft(LAMBDA acc, k :
             LET list == Listed(k)
             IN  acc \o [n \in DOMAIN list |->
                           [list[n] EXCEPT !.up = IF n = 1 THEN 1 ELSE Len(acc) + @]],
           << [name |-> s.name, class |-> s.class, props |-> s.props, meta |-> s.meta,
               up |-> 0] >>, s.kids)
ListedResult(r) == [r EXCEPT !.inst = IF @ = None THEN None ELSE Listed(@)]
=============================================================================
