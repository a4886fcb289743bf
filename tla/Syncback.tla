------------------------------- MODULE Syncback -------------------------------
(***************************************************************************)
(* `syncback`: a place or model file is written back to the files of a     *)
(* project.  The command loads the project (the old tree), prepares the    *)
(* input (the new tree), works off a stack of pairs of instances that      *)
(* differ, collecting an FsSnapshot, asks the user, and writes (module     *)
(* FsSnapshot).  A second pass runs the command again with the same input. *)
(*                                                                         *)
(* The user may change one path while the question waits for an answer.    *)
(***************************************************************************)
EXTENDS RojoTree, Snapshot, FsSnapshot

CONSTANTS
  Cases,                   \* what the command may be run on: records [disk, input]
  RootProject,             \* the project file
  Lower(_), Extends(_, _), \* names: to_lowercase, starts_with
  FileName(_, _),          \* a name with an extension after it, as the sync rules take
                           \* it apart: a.server with .luau is <<a, .server.luau>>
  Forbidden, Reserved,     \* stems with a forbidden character; stems illegal as they are
  Ancestry(_),             \* the superclasses of a class, itself first; <<>> if unknown
  Defaults(_),             \* the default properties of a class
  RefProps, Hidden, Unscriptable, Internal,  \* kinds of properties; RBX attributes
  SourceOrder,             \* the source texts of localization tables, in order
  Meanwhile                \* paths the user may change during the question

VARIABLES
  input,           \* the file given with --input
  pass,
  old, new,        \* the two trees
  links,           \* RefLinks: [prop: sequence of links, rewrite: set of ids]
  stack,           \* SyncbackSnapshots to do
  lossy            \* history: what the middleware could not express

treeVars == <<input, pass, old, new, links, stack, lossy>>
vars == <<fsVars, treeVars>>

Project == ProjectOf(before[RootProject])
Rules == Project.sb

-----------------------------------------------------------------------------
(* is_valid_path: never .git; of the ignorePaths the last match wins. *)
IsValidPath(p) ==
  LET hits == SelectSeq(Rules.paths, LAMBDA r : p \in r.glob)
  IN  /\ Head(p) # <<".git", "">>
      /\ hits = <<>> \/ Last(hits).negated

(* merge_with_filter, which is_valid_path filters. *)
MergeWithFilter(f, g) ==
  LET some == {p \in DOMAIN g.files : IsValidPath(p)}
  IN  [files |-> [p \in some |-> g.files[p]] @@ f.files,
       dirs |-> f.dirs \cup {p \in g.dirs : IsValidPath(p)},
       goneFiles |-> f.goneFiles \cup {p \in g.goneFiles : IsValidPath(p)},
       goneDirs |-> f.goneDirs \cup {p \in g.goneDirs : IsValidPath(p)}]

RECURSIVE InstPath(_, _)
InstPath(t, id) ==
  IF id = Root THEN <<>> ELSE Append(InstPath(t, t.inst[id].parent), t.inst[id].name)

(* ignoreTrees: a prefix of the text, not of the names. *)
IsBlocked(t, id) ==
  \E tr \in Rules.trees :
    LET p == InstPath(t, id)
    IN  /\ Len(tr) <= Len(p) /\ Front(tr) = SubSeq(p, 1, Len(tr) - 1)
        /\ IF Len(tr) = Len(p) THEN Extends(Last(tr), Last(p)) ELSE Last(tr) = p[Len(tr)]

(* validate_file_name. *)
IsLegal(name) == /\ name[1] \notin Forbidden
                 /\ name[2] = "" => name[1] \notin Reserved

-----------------------------------------------------------------------------
(* get_property_filter: nothing is filtered from a class without ancestry. *)
PropertyFilter(class) ==
  UNION {Rules.props[c] : c \in Range(Ancestry(class)) \cap DOMAIN Rules.props}

Prefilter(t) ==
  [t EXCEPT !.inst = [i \in DOMAIN @ |->
     [@[i] EXCEPT !.props = Without(@, PropertyFilter(t.inst[i].class))]]]

(* filter_properties: what is serialized and not the default. *)
FilterProperties(inst) ==
  LET skip(p) == \/ p \in RefProps \cup Hidden \cup {"UniqueId"}
                 \/ ~Rules.unscriptable /\ p \in Unscriptable
                 \/ p \in DOMAIN Defaults(inst.class) /\ Defaults(inst.class)[p] = inst.props[p]
  IN  Without(inst.props, {p \in DOMAIN inst.props : skip(p)})

(* filter_out_property: what the file itself represents. *)
SpecialProperties(class) ==
  CASE class \in {"Script", "LocalScript", "ModuleScript"} -> {"Source", "ScriptGuid"}
    [] class = "LocalizationTable" -> {"Contents"}
    [] class = "StringValue" -> {"Value"}
    [] OTHER -> {}

(* Attributes that start with RBX are not written. *)
WithoutInternal(props) ==
  IF "Attributes" \notin DOMAIN props THEN props
  ELSE LET kept == Without(props.Attributes, Internal)
       IN  IF DOMAIN kept = {} THEN Without(props, {"Attributes"})
           ELSE [props EXCEPT !.Attributes = kept]
PathFilteredProperties(inst) ==
  Without(FilterProperties(inst), SpecialProperties(inst.class))


(* hash_instance and hash_tree; the order of children does not count. *)
HashInstance(t, id) ==
  [name |-> t.inst[id].name, class |-> t.inst[id].class,
   props |-> FilterProperties(t.inst[id])]
RECURSIVE HashTree(_, _)
HashTree(t, id) ==
  LET kids == t.inst[id].kids
      hashes == [i \in DOMAIN kids |-> HashTree(t, kids[i])]
  IN  [own |-> HashInstance(t, id),
       kids |-> [h \in Range(hashes) |-> Cardinality({i \in DOMAIN kids : hashes[i] = h})]]

-----------------------------------------------------------------------------
(* ref_properties: pointers become attributes.  An id is a number here.    *)
RefId == "Rojo_Id"
Target(prop) == "Rojo_Target_" \o prop
Targets == {Target(p) : p \in RefProps}
Attributes(inst) == IF "Attributes" \in DOMAIN inst.props THEN inst.props.Attributes ELSE <<>>
ExistingId(t, id) ==
  IF RefId \in DOMAIN Attributes(t.inst[id]) THEN Attributes(t.inst[id])[RefId] ELSE None

(* descendants, breadth first. *)
RECURSIVE BreadthFirst(_, _)
BreadthFirst(t, level) ==
  IF level = <<>> THEN <<>>
  ELSE level \o BreadthFirst(t, FlattenSeq([i \in DOMAIN level |-> t.inst[level[i]].kids]))

(* Whether an id was last seen on another instance. *)
IsTakenNever(ids, id, to) == FALSE
IsTaken(ids, id, to) == id \in DOMAIN ids /\ ids[id] # to

(* collect_referents: a target needs an id if it has none, or if its id    *)
(* was last seen on another one.                                           *)
CollectReferents(t) ==
  LET order == BreadthFirst(t, <<Root>>)
      LinksOf(id) ==
        LET live == {p \in RefProps \cap DOMAIN t.inst[id].props :
                       t.inst[id].props[p] \in DOMAIN t.inst}
            props == SetToSeq(live)
        IN  [n \in DOMAIN props |-> [from |-> id, prop |-> props[n],
                                     to |-> t.inst[id].props[props[n]]]]
      all == FlattenSeq([n \in DOMAIN order |-> LinksOf(order[n])])
      Collect(acc, l) ==
        LET id == ExistingId(t, l.to)
        IN  IF id = None THEN [acc EXCEPT !.rewrite = @ \cup {l.to}]
            ELSE [ids |-> (id :> l.to) @@ acc.ids,
                  rewrite |-> IF IsTaken(acc.ids, id, l.to)
                              THEN acc.rewrite \cup {l.to} ELSE acc.rewrite]
  IN  [prop |-> all,
       rewrite |-> FoldLeft(Collect, [ids |-> <<>>, rewrite |-> {}], all).rewrite]

SetAttributes(t, id, attrs) ==
  [t EXCEPT !.inst[id].props = ("Attributes" :> attrs) @@ @]

(* write_id_attributes: the UniqueId, or a fresh one (UniqueId::now). *)
Fresh(n, id) == 100 * n + id
WriteIds(t, rewrite) ==
  FoldLeft(LAMBDA acc, id :
             LET uid == IF "UniqueId" \in DOMAIN acc.inst[id].props
                        THEN acc.inst[id].props.UniqueId ELSE Fresh(pass, id)
             IN  SetAttributes(acc, id, (RefId :> uid) @@ Attributes(acc.inst[id])),
           t, SetToSeq(rewrite \cap DOMAIN t.inst))

(* link_referents, for the pointing instances in the order given.  The     *)
(* list of pointers is emptied only by an instance that is still there.    *)
LinkReferents(t, order) ==
  LET Link(acc, from) ==
        LET own == SelectSeq(links.prop, LAMBDA l : l.from = from /\ l.to \in DOMAIN t.inst)
            list == FoldLeft(LAMBDA a, l : (Target(l.prop) :> ExistingId(acc.t, l.to)) @@ a,
                             acc.list, own)
        IN  IF from \notin DOMAIN t.inst THEN [acc EXCEPT !.list = list]
            ELSE [t |-> SetAttributes(acc.t, from,
                          list @@ Without(Attributes(acc.t.inst[from]), Targets)),
                  list |-> <<>>]
  IN  FoldLeft(Link, [t |-> t, list |-> <<>>], order).t

-----------------------------------------------------------------------------
(* A SyncbackSnapshot is [old, new, path, mw]; old and mw may be None.     *)
Snap(o, n, p, mw) == [old |-> o, new |-> n, path |-> p, mw |-> mw]
Ret(f, children, removed) ==
  [ok |-> TRUE, fs |-> f, children |-> children, removed |-> removed]
Fail == [ok |-> FALSE, fs |-> NoFs, children |-> <<>>, removed |-> {}]

DirMw == {"Dir", "ServerScriptDir", "ClientScriptDir", "PluginScriptDir",
          "ModuleScriptDir", "CsvDir"}
(* Some of the classes that are written as JSON models. *)
JsonModelClasses == {"Actor", "Sound", "RemoteEvent", "BindableEvent", "IntValue"}
ClassMw(class) ==
  CASE class \in {"Folder", "Configuration", "Tool"} -> "Dir"
    [] class = "StringValue" -> "Text"
    [] class = "Script" -> "ServerScript"
    [] class = "LocalScript" -> "ClientScript"
    [] class = "ModuleScript" -> "ModuleScript"
    [] class = "LocalizationTable" -> "Csv"
    [] class \in JsonModelClasses -> "JsonModel"
    [] OTHER -> "Rbxm"


(* get_best_middleware: an instance that is on disk keeps its middleware,  *)
(* whatever its class and its children have become.                        *)
BestMw(s) ==
  LET inst == new.inst[s.new]
      class == ClassMw(inst.class)
  IN  CASE s.mw # None -> s.mw
        [] s.mw = None /\ s.old # None /\ old.inst[s.old].meta.mw # None ->
             old.inst[s.old].meta.mw
        [] OTHER ->
             IF inst.kids = <<>> THEN class
             ELSE IF class \in {"JsonModel", "Text"} THEN "Dir"
             ELSE IF class \in {"Dir", "Rbxm"} THEN class ELSE class \o "Dir"

ExtensionFor ==
  ("Csv" :> ".csv") @@ ("JsonModel" :> ".model.json") @@ ("ServerScript" :> ".server.luau") @@
  ("ClientScript" :> ".client.luau") @@ ("ModuleScript" :> ".luau") @@
  ("Rbxm" :> ".rbxm") @@ ("Text" :> ".txt")

(* name_for_inst: None is an error. *)
NameForInst(s) ==
  LET mw == BestMw(s)
      name == new.inst[s.new].name
  IN  IF s.old # None
      THEN IF old.inst[s.old].meta.rel = <<>> THEN None
           ELSE NameOf(Head(old.inst[s.old].meta.rel))
      ELSE IF mw \in DirMw THEN <<name, "">>
      ELSE IF IsLegal(<<name, "">>) THEN FileName(name, ExtensionFor[mw]) ELSE None
WithBasePath(base, n, o) ==
  LET name == NameForInst(Snap(o, n, None, None))
  IN  IF name = None THEN None ELSE Snap(o, n, Join(base, name), None)

(* from_syncback_snapshot of both kinds of metadata, for the path p: None  *)
(* when the instance on disk comes from elsewhere.  The $schema that a     *)
(* meta file keeps is left out.                                            *)
MetaFor(s, p) ==
  LET src == IF s.old = None THEN None ELSE old.inst[s.old].meta.src
      iui == s.old # None /\ old.inst[s.old].meta.iui
  IN  IF src # None /\ src.path # p THEN None
      ELSE [class |-> None, id |-> None, iui |-> IF iui THEN TRUE ELSE None,
            props |-> WithoutInternal(PathFilteredProperties(new.inst[s.new]))]
IsEmptyMeta(m) == /\ DOMAIN m.props = {} /\ m.iui = None
                  /\ m.class \in {None, "Folder"}
WriteMeta(f, p, m) == IF m = None \/ IsEmptyMeta(m) THEN f ELSE AddFile(f, p, m)

(* localization_to_csv: sorted by source. *)
WriteCsv(entries) ==
  FlattenSeq([i \in DOMAIN SourceOrder |->
                SelectSeq(entries, LAMBDA r : r.source = SourceOrder[i])])
ContentOf(mw, inst) ==
  IF mw = "Csv" THEN WriteCsv(inst.props.Contents) ELSE inst.props[PropertyOf(mw)]

(* syncback_lua, syncback_txt, syncback_csv. *)
SyncbackFile(s, mw) ==
  LET inst == new.inst[s.new]
  IN  IF PropertyOf(mw) \notin DOMAIN inst.props THEN Fail
      ELSE Ret(WriteMeta(AddFile(NoFs, s.path, ContentOf(mw, inst)),
                         Join(Parent(s.path), FileName(inst.name, ".meta.json")),
                         MetaFor(s, s.path)), <<>>, {})

(* syncback_rbxm, syncback_rbxmx, syncback_json_model: the whole subtree.  *)
RECURSIVE Subtree(_, _)
Subtree(id, mw) ==
  LET inst == new.inst[id]
  IN  [name |-> inst.name, class |-> inst.class,
       props |-> IF mw = "JsonModel" THEN WithoutInternal(FilterProperties(inst)) ELSE inst.props,
       kids |-> [i \in DOMAIN inst.kids |-> Subtree(inst.kids[i], mw)]]
SyncbackModel(s, mw) == Ret(AddFile(NoFs, s.path, Subtree(s.new, mw)), <<>>, {})

(* Children of the old instance by name; of namesakes the last one counts. *)
OldChild(o, name) ==
  LET same == SelectSeq(old.inst[o].kids, LAMBDA k : old.inst[k].name = name)
  IN  IF same = <<>> THEN None ELSE Last(same)

(* syncback_dir_no_meta. *)
SyncbackDirNoMeta(s) ==
  LET kids == new.inst[s.new].kids
      Name(k) == new.inst[k].name
      match == [i \in DOMAIN kids |->
                  IF s.old = None THEN None ELSE OldChild(s.old, Name(kids[i]))]
      Kept(i) == match[i] # None /\ (\/ old.inst[match[i]].meta.rel = <<>>
                                     \/ old.inst[match[i]].meta.src.kind = "node")
      made == [i \in DOMAIN kids |->
                 IF Kept(i) THEN <<>> ELSE <<WithBasePath(s.path, kids[i], match[i])>>]
      children == FlattenSeq(made)
      names == {old.inst[k].name : k \in IF s.old = None THEN {} ELSE Range(old.inst[s.old].kids)}
      removed == {OldChild(s.old, n) : n \in names \ {Name(kids[i]) : i \in DOMAIN kids}}
      same == s.old # None /\ HashInstance(old, s.old) = HashInstance(new, s.new)
  IN  IF \/ \E i, j \in DOMAIN kids : i # j /\ Lower(Name(kids[i])) = Lower(Name(kids[j]))
         \/ None \in Range(children)
      THEN Fail
      ELSE Ret(IF same THEN NoFs ELSE AddDir(NoFs, s.path), children, removed)

(* syncback_dir: className for what is no Folder, .gitkeep for what would  *)
(* be empty.                                                               *)
DirReturn(s, inst, r, meta) ==
  LET f == WriteMeta(r.fs, Join(s.path, <<"init", ".meta.json">>), meta)
      keep == inst.kids = <<>> /\ meta # None /\ IsEmptyMeta(meta)
  IN  IF ~r.ok THEN Fail
      ELSE [r EXCEPT !.fs = IF keep THEN AddFile(f, Join(s.path, <<".gitkeep", "">>), Empty) ELSE f]
SyncbackDir(s) ==
  LET inst == new.inst[s.new]
      m == MetaFor(s, s.path)
  IN  DirReturn(s, inst, SyncbackDirNoMeta(s),
                IF m # None /\ inst.class # "Folder" THEN [m EXCEPT !.class = inst.class] ELSE m)

(* syncback_lua_init and syncback_csv_init.  The former asks for metadata  *)
(* at the path of the init file, the latter at that of the directory.      *)
InitName == ("ServerScriptDir" :> <<"init", ".server.luau">>) @@
            ("ClientScriptDir" :> <<"init", ".client.luau">>) @@
            ("PluginScriptDir" :> <<"init", ".plugin.luau">>) @@
            ("ModuleScriptDir" :> <<"init", ".luau">>) @@ ("CsvDir" :> <<"init", ".csv">>)
SyncbackInit(s, mw, r) ==
  LET inst == new.inst[s.new]
      kind == IF mw = "CsvDir" THEN "Csv" ELSE "ModuleScript"
      init == Join(s.path, InitName[mw])
      meta == MetaFor(s, IF mw = "CsvDir" THEN s.path ELSE init)
  IN  IF PropertyOf(kind) \notin DOMAIN inst.props \/ ~r.ok THEN Fail
      ELSE [r EXCEPT !.fs = WriteMeta(AddFile(@, init, ContentOf(kind, inst)),
                                      Join(s.path, <<"init", ".meta.json">>), meta)]

-----------------------------------------------------------------------------
(* middleware_for_path. *)
MwForPath(project, p) ==
  LET inits == Found(disk, p, InitFiles)
  IN  CASE ~Exists(disk, p) -> None
        [] IsDir(disk, p) ->
             IF Found(disk, p, DefaultProjects) # <<>> THEN "Project"
             ELSE IF inits = <<>> THEN "Dir" ELSE DefaultRule[Head(inits)[2]] \o "Dir"
        [] OTHER -> RuleFor([DefaultContext EXCEPT !.rules = project.rules], p)
HandlesOwnProperties(mw) == mw \in Models \cup {"Project"}

(* project_node_property_syncback: the new values, minus those that are    *)
(* back at their default.                                                  *)
NodeProperties(node, inst, filtered) ==
  LET fresh == WithoutInternal(filtered)
      stale == {p \in DOMAIN node.props \ DOMAIN filtered :
                  p # "Attributes" /\ p \in DOMAIN Defaults(inst.class)}
  IN  [props |-> fresh @@ Without(node.props, stale \cup {"Attributes"}),
       removed |-> stale # {}]

(* project_node_should_reserialize. *)
ShouldReserialize(props, inst) ==
  \/ \E p \in DOMAIN props \ {"Attributes"} :
       p \notin DOMAIN inst.props \/ inst.props[p] # props[p]
  \/ Attributes([props |-> props]) # Attributes(inst)

(* syncback_project, one node: [ok, node, changed, children, removed].     *)
Nodes(node, changed, children, removed) ==
  [ok |-> TRUE, node |-> node, changed |-> changed, children |-> children, removed |-> removed]
NodeError == [ok |-> FALSE, node |-> None, changed |-> FALSE, children |-> <<>>, removed |-> {}]

RECURSIVE SyncbackNode(_, _, _, _, _)
SyncbackNode(project, base, node, o, n) ==
  LET oi == old.inst[o]
      ni == new.inst[n]
      path == IF node.path = None THEN None ELSE base \o node.path
      mw == IF path = None THEN None ELSE MwForPath(project, path)
      props == IF path = None THEN NodeProperties(node, ni, FilterProperties(ni))
               ELSE IF HandlesOwnProperties(mw) THEN [props |-> node.props, removed |-> FALSE]
               ELSE NodeProperties(node, ni, PathFilteredProperties(ni))
      NewNamed(name) == SelectSeq(ni.kids, LAMBDA k : new.inst[k].name = name)
      OldNamed(name) == SelectSeq(oi.kids, LAMBDA k : old.inst[k].name = name)
      unique == /\ \A i, j \in DOMAIN ni.kids :
                     i # j => new.inst[ni.kids[i]].name # new.inst[ni.kids[j]].name
                /\ \A i, j \in DOMAIN oi.kids :
                     i # j => old.inst[oi.kids[i]].name # old.inst[oi.kids[j]].name
      Absentee(k) == k.node.optional /\ ~Exists(disk, base \o k.node.path)
      here == SelectSeq(node.kids, LAMBDA k : ~Absentee(k))
      nodeNames == {here[i].name : i \in DOMAIN here}
      subs == [i \in DOMAIN node.kids |->
                 IF Absentee(node.kids[i]) THEN Nodes(node.kids[i].node, FALSE, <<>>, {})
                 ELSE IF \/ NewNamed(node.kids[i].name) = <<>>
                         \/ OldNamed(node.kids[i].name) = <<>> THEN NodeError
                 ELSE SyncbackNode(project, base, node.kids[i].node,
                                   Head(OldNamed(node.kids[i].name)),
                                   Head(NewNamed(node.kids[i].name)))]
      others == SelectSeq(ni.kids, LAMBDA k : /\ new.inst[k].name \notin nodeNames
                                              /\ OldNamed(new.inst[k].name) = <<>>)
      added == IF path = None \/ mw = "Project" THEN <<>>
               ELSE [i \in DOMAIN others |-> WithBasePath(path, others[i], None)]
      own == IF path = None THEN <<>> ELSE <<Snap(o, n, path, mw)>>
      gone == {k \in Range(oi.kids) : /\ old.inst[k].name \notin nodeNames
                                      /\ \/ NewNamed(old.inst[k].name) = <<>>
                                         \/ path = None}
  IN  IF \/ oi.class # ni.class
         \/ path # None /\ mw = None
         \/ ~unique
         \/ \E i \in DOMAIN subs : ~subs[i].ok
         \/ None \in Range(added)
      THEN NodeError
      ELSE Nodes([node EXCEPT !.props = props.props,
                              !.kids = [i \in DOMAIN @ |-> [@[i] EXCEPT !.node = subs[i].node]]],
                 props.removed \/ ShouldReserialize(props.props, oi)
                   \/ \E i \in DOMAIN subs : subs[i].changed,
                 own \o added \o FlattenSeq([i \in DOMAIN subs |-> subs[i].children]),
                 gone \cup UNION {subs[i].removed : i \in DOMAIN subs})

ProjectReturn(file, project, r) ==
  IF ~r.ok THEN Fail
  ELSE Ret(IF r.changed THEN AddFile(NoFs, file, [project EXCEPT !.tree = r.node]) ELSE NoFs,
           r.children, r.removed)
SyncbackProject(s) ==
  LET file == Last(old.inst[s.old].meta.rel)
      project == ProjectOf(disk[file])
  IN  IF project = None THEN Fail
      ELSE ProjectReturn(file, project,
             SyncbackNode(project, Parent(file), project.tree, s.old, s.new))

(* Middleware::syncback. *)
SyncbackWith(s, mw) ==
  CASE ~IsLegal(NameOf(s.path)) -> Fail
    [] IsLegal(NameOf(s.path)) /\ mw = "Dir" -> SyncbackDir(s)
    [] IsLegal(NameOf(s.path)) /\ mw \in DirMw \ {"Dir"} ->
         SyncbackInit(s, mw, SyncbackDirNoMeta(s))
    [] IsLegal(NameOf(s.path)) /\ mw = "Project" -> SyncbackProject(s)
    [] IsLegal(NameOf(s.path)) /\ mw \in Models -> SyncbackModel(s, mw)
    [] IsLegal(NameOf(s.path))
         /\ mw \in {"ServerScript", "ClientScript", "ModuleScript", "Text", "Csv"} ->
         SyncbackFile(s, mw)
    [] OTHER -> Fail

-----------------------------------------------------------------------------
Init ==
  /\ \E c \in Cases : disk = c.disk /\ before = c.disk /\ input = c.input
  /\ pc = "load" /\ pass = 1
  /\ old = EmptyTree /\ new = EmptyTree /\ links = None
  /\ stack = <<>> /\ fs = NoFs /\ left = NoFs /\ touched = FALSE /\ lossy = {}

TreeOf(s) == ApplyPatch(EmptyTree, ComputePatch(EmptyTree, Root, Listed(s)))

(* SyncbackCommand::run up to syncback_loop: read_dom and ServeSession::new. *)
Load ==
  LET s == SnapshotFromVfs(DefaultContext, disk, RootProject)
  IN  /\ pc = "load"
      /\ before' = disk
      /\ IF s.ok /\ s.inst # None
         THEN /\ pc' = "prune"
              /\ old' = TreeOf(s.inst)
              /\ new' = TreeOf(Head(ModelKids(<<input>>)))
         ELSE pc' = "refused" /\ UNCHANGED <<old, new>>
      /\ UNCHANGED <<disk, input, pass, links, stack, fs, left, touched, lossy>>

(* strip_unknown_root_children, unless the project's root is a directory;  *)
(* then collect_referents.  That the root's path cannot be looked at, a    *)
(* panic here, is left out: reading never fails in this module.            *)
Prune ==
  LET path == Project.tree.path
      rootIsDir == path # None /\ MwForPath(Project, path) \in DirMw
      known(k) == \E c \in Range(old.inst[Root].kids) :
                    /\ old.inst[c].name = new.inst[k].name
                    /\ old.inst[c].class = new.inst[k].class
                    /\ c = OldChild(Root, new.inst[k].name)
      t == IF rootIsDir THEN new
           ELSE FoldLeft(RemoveInstance, new,
                         SelectSeq(new.inst[Root].kids, LAMBDA k : ~known(k)))
  IN  /\ pc = "prune"
      /\ new' = t /\ links' = CollectReferents(t)
      /\ pc' = "link"
      /\ UNCHANGED <<disk, before, input, pass, old, stack, fs, left, touched, lossy>>

(* The rest of the preparation: the filters of the project on both trees,  *)
(* the camera, the referents, the name of the root.  The pointers are      *)
(* linked in the order of a hash map; a target whose id an ignored         *)
(* property took away is a panic.                                          *)
Camera(t) ==
  LET ws == SelectSeq(t.inst[Root].kids, LAMBDA k : t.inst[k].class = "Workspace")
  IN  IF ws = <<>> \/ "CurrentCamera" \notin DOMAIN t.inst[Head(ws)].props THEN {}
      ELSE {t.inst[Head(ws)].props.CurrentCamera} \cap DOMAIN t.inst
Prepare ==
  LET filtered == Prefilter(new)
      t == IF Rules.camera THEN filtered
           ELSE FoldLeft(RemoveInstance, filtered, SetToSeq(Camera(filtered)))
      from == {links.prop[i].from : i \in DOMAIN links.prop}
      idless == ~Rules.ignoreRefs
                /\ \E l \in Range(links.prop) :
                     /\ l.to \in DOMAIN t.inst \ links.rewrite
                     /\ ExistingId(t, l.to) = None
  IN  /\ pc = "link"
      /\ IF idless
         THEN pc' = "panic" /\ UNCHANGED <<old, new, stack, fs>>
         ELSE /\ \E order \in SetToSeqs(from) :
                   LET linked == IF Rules.ignoreRefs THEN t
                                 ELSE LinkReferents(WriteIds(t, links.rewrite), order)
                   IN  new' = [linked EXCEPT !.inst[Root].name = old.inst[Root].name]
              /\ old' = Prefilter(old)
              /\ stack' = <<Snap(Root, Root, RootProject, "Project")>>
              /\ fs' = NoFs
              /\ pc' = "loop"
      /\ UNCHANGED <<disk, before, input, pass, links, left, touched, lossy>>

(* As if the fallback kept its file in the directory it replaces. *)
FallbackInside(s) ==
  SyncbackWith(Snap(s.old, s.new, Join(s.path, <<NameOf(s.path)[1], ".rbxm">>), None), "Rbxm")

(* syncback_loop's turn for one snapshot.  A directory that cannot be one  *)
(* becomes a model file.                                                   *)
Fallback(s) ==
  LET p == Join(Parent(s.path), FileName(NameOf(s.path)[1], ".rbxm"))
  IN  SyncbackWith(Snap(s.old, s.new, p, None), "Rbxm")

IsSkipped(s, mw) ==
  \/ s.old # None /\ HashTree(old, s.old) = HashTree(new, s.new)
  \/ ~IsValidPath(s.path)
  \/ IsBlocked(new, s.new)
  \/ mw \in {"Json", "Toml"}

(* The paths of removed children that are not spared by a rule; None for   *)
(* a child that has no instigating source, which is a panic.               *)
RemovedPaths(removed) ==
  {IF old.inst[k].meta.src = None THEN None ELSE old.inst[k].meta.src.path : k \in removed}
SparedByPath(k) == ~IsValidPath(old.inst[k].meta.src.path)
Spared(k) == ~IsValidPath(old.inst[k].meta.src.path) \/ IsBlocked(old, k)

(* What syncing an instance back onto its old files cannot express:        *)
(* children or another class in a file that keeps its middleware, metadata *)
(* that is not written or that an existing meta file still has, a          *)
(* directory named by a project that became a model file, and namesakes.   *)
MetaFiles(s) ==
  LET inst == old.inst[s.old]
  IN  {p \in Range(inst.meta.rel) : NameOf(p)[2] \in {".meta.json", ".meta.jsonc"} /\ Exists(disk, p)}
Losses(s, mw, back) ==
  LET o == old.inst[s.old]
      n == new.inst[s.new]
      differ == PathFilteredProperties(o) # PathFilteredProperties(n) \/ o.class # n.class
      written == MetaFor(s, IF mw \in DOMAIN InitName \ {"CsvDir"}
                            THEN Join(s.path, InitName[mw]) ELSE s.path)
  IN  IF mw \in Models \cup {"Project"} THEN {}
      ELSE {l \in {"children", "class", "metadata", "mapping", "namesakes"} :
             CASE l = "children" -> mw \notin DirMw /\ n.kids # <<>>
               [] l = "class" -> o.class # n.class /\ ~back
                                 /\ (mw # "Dir" \/ SpecialProperties(n.class) # {})
               [] l = "metadata" -> /\ differ /\ ~back
                                    /\ \/ o.meta.src.kind = "path" /\ written = None
                                       \/ MetaFiles(s) # {} /\ (written = None \/ IsEmptyMeta(written))
               [] l = "mapping" -> back /\ o.meta.src.kind = "node"
               [] l = "namesakes" ->
                    \E i, j \in DOMAIN o.kids : i # j /\ old.inst[o.kids[i]].name = old.inst[o.kids[j]].name}
(* Whatever was there before: tables are sorted, of a nested project only  *)
(* the project file is removed, and a new file's name may be read as       *)
(* another one: as an init file, with another suffix, or its meta file as  *)
(* that of the directory.                                                  *)
ReadAs(p) == RuleFor([DefaultContext EXCEPT !.rules = Project.rules], p)
IsMisread(s, mw) ==
  LET n == new.inst[s.new]
  IN  \/ NameOf(s.path) \in Range(InitFiles)
      \/ NameOf(s.path)[1] # n.name
      \/ ReadAs(s.path) # mw
      \/ n.name = "init" /\ mw \notin Models /\ ~IsEmptyMeta(MetaFor(s, s.path))
OtherLosses(s, mw, back, removed) ==
  {l \in {"table", "project", "name"} :
     CASE l = "table" ->
            /\ mw \in {"Csv", "CsvDir"}
            /\ WriteCsv(new.inst[s.new].props.Contents) # new.inst[s.new].props.Contents
       [] l = "project" -> \E k \in removed : old.inst[k].meta.mw = "Project"
       [] l = "name" -> s.old = None /\ mw \notin DirMw /\ ~back /\ IsMisread(s, mw)}

Skip(mw) ==
  /\ stack' = Front(stack)
  /\ lossy' = lossy \cup (IF mw \in {"Json", "Toml"} THEN {"data"} ELSE {})
  /\ UNCHANGED <<pc, fs>>
Settle(s, mw, back, r) ==
  LET f == IF back /\ s.old # None THEN RemoveDir(fs, s.path) ELSE fs
      out == RemovedPaths({k \in r.removed : ~Spared(k)})
      g == [f EXCEPT !.goneDirs = @ \cup {p \in out : IsDir(disk, p)},
                     !.goneFiles = @ \cup {p \in out : ~IsDir(disk, p)}]
  IN  IF ~r.ok THEN pc' = "refused" /\ UNCHANGED <<stack, fs, lossy>>
      ELSE IF None \in RemovedPaths(r.removed)
      THEN pc' = "panic" /\ UNCHANGED <<stack, fs, lossy>>
      ELSE /\ fs' = MergeWithFilter(g, r.fs)
           /\ stack' = Front(stack) \o r.children
           /\ lossy' = lossy \cup OtherLosses(s, mw, back, r.removed)
                             \cup (IF s.old = None THEN {} ELSE Losses(s, mw, back))
           /\ UNCHANGED pc
Turn(s, mw, first) ==
  LET back == ~first.ok /\ mw = "Dir"
  IN  Settle(s, mw, back, IF back THEN Fallback(s) ELSE first)

Pop ==
  LET s == Last(stack)
      mw == BestMw(s)
  IN  /\ pc = "loop" /\ stack # <<>>
      /\ IF IsSkipped(s, mw) THEN Skip(mw) ELSE Turn(s, mw, SyncbackWith(s, mw))
      /\ UNCHANGED <<disk, before, input, pass, old, new, links, left, touched>>

(* The prompt; --dry-run and "n" end the command. *)
Ask ==
  /\ pc = "loop" /\ stack = <<>>
  /\ pc' = "prompt"
  /\ UNCHANGED <<disk, before, input, pass, old, new, links, stack, fs, left, touched, lossy>>

(* The user runs the command again with the same input. *)
Again == Rerun /\ pass = 1 /\ pass' = 2 /\ UNCHANGED <<input, old, new, links, stack, lossy>>

Next == \/ Load \/ Prune \/ Prepare \/ Pop \/ Ask
        \/ Answer /\ UNCHANGED treeVars
        \/ (\E p \in Meanwhile : Change(p)) /\ UNCHANGED treeVars
        \/ WriteToVfs /\ UNCHANGED treeVars
        \/ WriteFails /\ UNCHANGED treeVars
        \/ Finish /\ UNCHANGED treeVars
        \/ Again
Spec == Init /\ [][Next]_vars

-----------------------------------------------------------------------------
(* The loop works on instances that are in the trees, the trees are trees, *)
(* and what it collects is an FsSnapshot: known paths, real contents.      *)
IsTree(t) ==
  /\ Root \in DOMAIN t.inst
  /\ \A id \in DOMAIN t.inst : \A k \in Range(t.inst[id].kids) :
       k \in DOMAIN t.inst \ {Root} /\ t.inst[k].parent = id
TypeOK ==
  /\ DOMAIN disk = Path /\ DOMAIN before = Path
  /\ pc \in Working \cup {"prompt", "declined", "refused", "panic", "write", "failed", "done"}
  /\ pass \in 1..2 /\ touched \in BOOLEAN
  /\ pc # "load" => IsTree(old) /\ IsTree(new)
  /\ \A s \in Range(stack) : /\ s.new \in DOMAIN new.inst
                             /\ s.old \in {None} \cup DOMAIN old.inst
                             /\ s.path # <<>>
  /\ IsFs(fs) /\ IsFs(left)

Expressible == lossy = {} /\ Rules.trees = {} /\ Rules.paths = <<>>

(* What no file holds: internal attributes, which are not written, and     *)
(* the line ends of scripts, which are not read.                           *)
Holdable(inst) ==
  LET props == WithoutInternal(inst.props)
  IN  IF "Source" \in DOMAIN props THEN [props EXCEPT !.Source = Normalized(@)] ELSE props
Held(t) == [t EXCEPT !.inst = [i \in DOMAIN @ |-> [@[i] EXCEPT !.props = Holdable(t.inst[i])]]]
Reloaded == SnapshotFromVfs(DefaultContext, disk, RootProject)
Faithful ==
  /\ Reloaded.ok /\ Reloaded.inst # None
  /\ HashTree(Held(Prefilter(TreeOf(Reloaded.inst))), Root) = HashTree(Held(new), Root)


(* Running the command again with the same input changes nothing, unless   *)
(* the first pass could not express everything, a pointer's target has no  *)
(* UniqueId and gets a fresh id each time, or a destroyed camera's pointer *)
(* went to whichever instance came next.  Where the input has something    *)
(* that no file holds, files are written again, with what is in them.      *)
Undetermined ==
  \/ \E id \in links.rewrite \cap DOMAIN new.inst : "UniqueId" \notin DOMAIN new.inst[id].props
  \/ \E l \in Range(links.prop) : l.from \notin DOMAIN new.inst
RewritesOnly ==
  /\ fs.goneFiles = {} /\ fs.goneDirs = {}
  /\ \A p \in fs.dirs : IsDir(disk, p)
  /\ \A p \in DOMAIN fs.files : disk[p] = fs.files[p]

(* What ignorePaths and ignoreTrees name is neither overwritten nor        *)
(* removed, except inside a directory that goes as a whole.                *)
Ignored(p) ==
  \/ ~IsValidPath(p)
  \/ \E id \in DOMAIN old.inst :
       /\ old.inst[id].meta.src # None /\ old.inst[id].meta.src.kind = "path"
       /\ old.inst[id].meta.src.path = p /\ IsBlocked(old, id)
IgnoredSurvives ==
  pc \in {"write", "done", "failed"} /\ ~touched =>
    \A p \in Path : before[p] # Absent /\ Ignored(p) =>
      disk[p] = before[p] \/ \E q \in fs.goneDirs : q # p /\ IsPrefix(q, p)

(* link_referents: every pointer between instances that are synced back    *)
(* ends up as an attribute that holds the id of its target, two targets    *)
(* share an id only if one of them was given its UniqueId, and an          *)
(* attribute that stands for no pointer is left over from a destroyed      *)
(* camera that had pointers of its own, or was in the input, on an         *)
(* instance that points at nothing (any more).                             *)
InputTree == TreeOf(Head(ModelKids(<<input>>)))
PointersResolve ==
  pc = "loop" /\ stack = <<Snap(Root, Root, RootProject, "Project")>> /\ ~Rules.ignoreRefs =>
    LET live == {l \in Range(links.prop) : {l.from, l.to} \subseteq DOMAIN new.inst}
        ByUniqueId(id) == id \in links.rewrite /\ "UniqueId" \in DOMAIN new.inst[id].props
        Is(id, p) == Attributes(new.inst[id])[Target(p)]
        Leftover(id, p) ==
          /\ \A l \in Range(links.prop) : l.from # id
          /\ Target(p) \in DOMAIN Attributes(InputTree.inst[id])
          /\ Is(id, p) = Attributes(InputTree.inst[id])[Target(p)]
    IN  /\ \A l \in live : Is(l.from, l.prop) = ExistingId(new, l.to)
        /\ \A l, m \in live :
              l.to # m.to /\ ExistingId(new, l.to) = ExistingId(new, m.to)
                => ByUniqueId(l.to) \/ ByUniqueId(m.to)
        /\ \A id \in DOMAIN new.inst : \A p \in RefProps :
              Target(p) \in DOMAIN Attributes(new.inst[id]) =>
                \/ \E l \in live : l.from = id /\ l.prop = p
                \/ \E l \in Range(links.prop) : l.from \notin DOMAIN new.inst
                \/ Leftover(id, p)
=============================================================================
