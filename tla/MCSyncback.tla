----------------------------- MODULE MCSyncback -----------------------------
(* Syncback for TLC: a project that maps one directory, with a script, a   *)
(* folder, a model or a nested directory in it.                            *)
EXTENDS Syncback

At(p, stem, ext) == Append(p, <<stem, ext>>)
Proj == <<DefaultProject>>
Src == At(<<>>, "src", "")
M == At(<<>>, "m", ".rbxm")
Opt == At(<<>>, "opt", "")
Nested == Join(At(Src, "a", ""), DefaultProject)
Stems == {"a", "A", "b"}
FileExt == {".lua", ".luau", ".server.luau", ".txt", ".csv", ".rbxm", ".model.json", ".meta.json"}
MCPath ==
  {Proj, Src, At(<<>>, "src", ".rbxm"), At(Src, ".gitkeep", ""), At(Src, "init", ".meta.json")}
    \cup {At(Src, s, e) : s \in Stems, e \in FileExt \cup {""}}
    \cup {At(At(Src, s, ""), "b", e) : s \in Stems, e \in {".luau", ".lua", ".meta.json"}}
    \cup {At(At(Src, s, ""), "init", e) : s \in Stems, e \in {".luau", ".lua", ".meta.json", ".csv"}}
    \cup {At(At(Src, s, ""), ".gitkeep", "") : s \in Stems}
    \cup {M, Opt, Join(M, <<"a", ".luau">>), At(Src, "c", ".toml"), Nested,
          At(Src, "CON", ""), At(Src, "CON", ".rbxm"), At(Src, "ab", ".luau")}
    \cup {At(Src, "init", e) : e \in {".luau", ".txt", ""}}
    \cup {At(At(Src, "init", ""), "b", ".luau"), At(Src, "a.server", ".txt")}

MCLower(n) == IF n = "A" THEN "a" ELSE n
MCFileName(n, e) ==
  IF n = "a.server" /\ e = ".luau" THEN <<"a", ".server.luau">> ELSE <<n, e>>
MCNormalized(c) == IF c = "crlf" THEN "v1" ELSE c
MCExtends(a, b) == a = b \/ (a = "a" /\ b = "ab")
MCAncestry(c) == <<c, "Instance">>
MCDefaults(c) == ("Attributes" :> <<>>) @@
                 (IF c = "ModuleScript" THEN "Source" :> "" ELSE <<>>)

NoRules == [trees |-> {}, paths |-> <<>>, props |-> <<>>, camera |-> TRUE,
            unscriptable |-> TRUE, ignoreRefs |-> FALSE]
Node(class, path, kids) ==
  [class |-> class, path |-> path, optional |-> FALSE, id |-> None, iui |-> None,
   props |-> <<>>, kids |-> kids]
Kid(name, node) == [name |-> name, node |-> node]
ProjectFile(name, tree, rules) == [name |-> name, tree |-> tree, ignore |-> <<>>, rules |-> <<>>,
                                   legacy |-> TRUE, sb |-> rules]
Place(kids, rules) == ProjectFile("p", Node("DataModel", None, kids), rules)
S == Kid("S", Node(None, Src, <<>>))
Plain == Place(<<S>>, NoRules)

MCSourceOrder == <<None, "s1", "s2">>
MCOf(c) == IF c = Bad THEN None ELSE c

Disk(files) == [p \in MCPath |-> IF p \in DOMAIN files THEN files[p] ELSE Absent]
Of(project, files) == Disk(files @@ (Proj :> project) @@ (Src :> Folder))
MetaFile(class, props) == [class |-> class, props |-> props, iui |-> None, id |-> None]
Attr == "Attributes" :> ("x" :> 1)
ADir == At(Src, "a", "")

I(name, class, props, kids) == [name |-> name, class |-> class, props |-> props, kids |-> kids]
Mod(name, v, kids) == I(name, "ModuleScript", "Source" :> v, kids)
B == Mod("b", "v1", <<>>)
InS(kids) == I("place", "DataModel", <<>>, <<I("S", "Folder", <<>>, kids)>>)

(* A directory with one thing in it meets an input with up to two. *)
OneThing ==
  { <<>>,
    At(Src, "a", ".lua") :> "v1",
    (At(Src, "a", ".lua") :> "v1") @@ (At(Src, "a", ".meta.json") :> MetaFile(None, Attr)),
    (ADir :> Folder) @@ (At(ADir, "b", ".luau") :> "v1"),
    (ADir :> Folder) @@ (At(ADir, "init", ".luau") :> "v1") @@ (At(ADir, "b", ".luau") :> "v1"),
    (ADir :> Folder) @@ (At(ADir, "init", ".meta.json") :> MetaFile("Configuration", <<>>)),
    At(Src, "a", ".txt") :> "v1" }
First ==
  { Mod("a", "v1", <<>>), Mod("a", "v2", <<>>), Mod("a", "v1", <<B>>),
    I("a", "ModuleScript", ("Source" :> "v1") @@ Attr, <<>>),
    I("a", "ModuleScript", ("Source" :> "v1") @@ Attr, <<B>>),
    I("a", "Folder", <<>>, <<>>), I("a", "Folder", <<>>, <<B>>), I("a", "Configuration", <<>>, <<B>>),
    I("a", "StringValue", "Value" :> "v1", <<>>),
    I("a", "Part", <<>>, <<B>>),
    I("a", "Folder", <<>>, <<B, B>>) }
Second == {<<>>, <<B>>, <<Mod("A", "v1", <<>>)>>, <<Mod("a", "v1", <<>>)>>}
Contents ==
  {[disk |-> Of(Plain, f), input |-> InS(kids)] :
     f \in OneThing, kids \in {<<f>> \o s : f \in First, s \in Second} \cup {<<>>}}

(* Pointers: the instances are 0, Workspace 1, its camera 2, S 3, a 4, b 5. *)
WithCamera == Place(<<Kid("Workspace", Node("Workspace", None, <<>>)), S>>,
                    [NoRules EXCEPT !.camera = FALSE])
Pointing(cam, a, b) ==
  I("place", "DataModel", <<>>,
    << I("Workspace", "Workspace", "CurrentCamera" :> 2, <<I("Camera", "Camera", cam, <<>>)>>),
       I("S", "Folder", <<>>, << I("a", "RemoteEvent", ("Ref" :> 5) @@ a, <<>>),
                                 I("b", "RemoteEvent", ("Ref" :> 4) @@ b, <<>>) >>) >>)
Ided(n) == "Attributes" :> (RefId :> n)
Stale(prop) == "Attributes" :> (Target(prop) :> 9)
Uid(n) == "UniqueId" :> n
Pointers ==
  {[disk |-> Of(WithCamera, <<>>), input |-> Pointing(cam, a, b)] :
     cam \in {<<>>, "Ref" :> 5},
     a \in {<<>>, Uid(1), Uid(1) @@ Ided(1), Ided(2), Ided(3)},
     b \in {<<>>, Uid(2), Uid(2) @@ Ided(1), Stale("CurrentCamera")}}
(* A pointer that was cleared, and one into a service that is not in the   *)
(* project; the place keeps the attributes they once had.                  *)
Unpointed ==
  {[disk |-> Of(Plain, <<>>), input |->
      I("place", "DataModel", <<>>, <<I("S", "Folder", <<>>, <<I("a", "RemoteEvent", ref @@ Stale("Ref"), <<>>)>>),
                                      I("Lost", "Lost", <<>>, <<I("x", "Folder", <<>>, <<>>)>>)>>)] :
     ref \in {<<>>, "Ref" :> 4}}

(* Rules of the project: an ignored file, an ignored tree, an ignored      *)
(* property, pointers ignored, and a filter that takes the ids away.       *)
InA(kids) == InS(<<I("a", "Folder", <<>>, kids)>>)
Ruled(rules, f, inputs) == {[disk |-> Of(Place(<<S>>, rules), f), input |-> i] : i \in inputs}
Glob(p) == <<[glob |-> {p}, negated |-> FALSE]>>
InADir == (ADir :> Folder) @@ (At(ADir, "b", ".luau") :> "v1")
Rule ==
  Ruled([NoRules EXCEPT !.paths = Glob(At(ADir, "b", ".luau"))], InADir,
        {InS(<<>>), InA(<<>>), InA(<<Mod("b", "v2", <<>>)>>)})
  \cup Ruled([NoRules EXCEPT !.paths = Glob(ADir) \o <<[glob |-> {ADir}, negated |-> TRUE]>>],
              InADir, {InS(<<>>)})
  \cup Ruled([NoRules EXCEPT !.trees = {<<"S", "a">>}], At(Src, "a", ".lua") :> "v1",
              {InS(<<>>), InS(<<Mod("a", "v2", <<>>), Mod("ab", "v1", <<>>), B>>)})
  \cup Ruled([NoRules EXCEPT !.props = "Instance" :> {"Attributes"}],
              At(Src, "a", ".lua") :> "v1",
              {InS(<<I("a", "ModuleScript", ("Source" :> "v2") @@ Attr, <<>>)>>),
               InS(<<I("a", "RemoteEvent", ("Ref" :> 3) @@ Ided(1), <<>>),
                     I("b", "RemoteEvent", ("Ref" :> 2) @@ Ided(2), <<>>)>>)})
  \cup Ruled([NoRules EXCEPT !.ignoreRefs = TRUE, !.unscriptable = FALSE], <<>>,
              {InS(<<I("a", "RemoteEvent", ("Ref" :> 3) @@ ("Locked" :> 1), <<>>), B>>)})

(* Tables, data files, names that are no file names, a nested project, a   *)
(* model file and an optional directory named by the project.              *)
Row(k, s) == [key |-> k, source |-> s]
Csv == I("a", "LocalizationTable", "Contents" :> <<Row("k", "s2"), Row("l", "s1")>>, <<>>)
Inner == Nested :> ProjectFile(None, Node("Folder", None, <<>>), NoRules)
ModelNode == Place(<<S, Kid("M", Node(None, M, <<>>)),
                     Kid("O", [Node(None, Opt, <<>>) EXCEPT !.optional = TRUE])>>, NoRules)
Part(props, kids) == I("m", "Part", props, kids)
InM(props, kids) ==
  I("place", "DataModel", <<>>, <<I("S", "Folder", <<>>, <<>>), I("M", "Part", props, kids)>>)
Corners ==
  Ruled(NoRules, At(Src, "a", ".csv") :> <<Row("k", "s1"), Row(None, None)>>, {InS(<<Csv>>)})
  \cup Ruled(NoRules, <<>>, {InS(<<Csv>>), InS(<<[Csv EXCEPT !.kids = <<B>>]>>),
                             InS(<<I("CON", "Folder", <<>>, <<>>)>>), InS(<<Mod("CON", "v1", <<>>)>>)})
  \cup Ruled(NoRules, At(Src, "c", ".toml") :> "v1", {InS(<<Mod("c", "v2", <<>>)>>)})
  \cup Ruled(NoRules, (ADir :> Folder) @@ Inner, {InS(<<>>), InS(<<I("a", "Folder", Attr, <<>>)>>)})
  \cup {[disk |-> Of(ModelNode, M :> Part(<<>>, <<B>>)), input |-> InM(p, k)] :
          p \in {<<>>, Attr}, k \in {<<>>, <<B>>, <<B, Mod("a", "v1", <<>>)>>}}

(* What no file holds: an internal attribute, line ends of scripts; and    *)
(* names that are read as others.                                          *)
RBX == "Attributes" :> ("RBX_x" :> 1)
RBXAndX == "Attributes" :> (("RBX_x" :> 1) @@ ("x" :> 1))
Unholdable ==
  { InS(<<I("a", "ModuleScript", ("Source" :> "v1") @@ attrs, kids)>>) :
      attrs \in {RBX, RBXAndX}, kids \in {<<>>, <<B>>} }
  \cup { InS(<<I("a", c, attrs, kids)>>) :
           c \in {"Folder", "RemoteEvent", "Part"}, attrs \in {RBX, RBXAndX}, kids \in {<<>>, <<B>>} }
  \cup { I("place", "DataModel", <<>>, <<I("S", "Folder", attrs, <<B>>)>>) : attrs \in {RBX, RBXAndX} }
  \cup { InS(<<Mod("a", "crlf", kids)>>) : kids \in {<<>>, <<B>>} }
  \cup { InS(<<I("a", "Part", <<>>, <<Mod("b", "crlf", <<>>)>>)>>),
          InS(<<I("a", "StringValue", "Value" :> "crlf", <<>>)>>) }
Misread ==
  { InS(<<Mod("init", "v1", <<>>), B>>), InS(<<I("init", "StringValue", "Value" :> "v1", <<>>)>>),
    InS(<<I("init", "StringValue", ("Value" :> "v1") @@ Attr, <<>>)>>),
    InS(<<I("init", "Folder", <<>>, <<B>>)>>),
    InS(<<Mod("a.server", "v1", <<>>)>>), InS(<<I("a.server", "StringValue", "Value" :> "v1", <<>>)>>) }
Lost ==
  {[disk |-> Of(Plain, f), input |-> i] :
     f \in {<<>>, At(Src, "a", ".lua") :> "v1"}, i \in Unholdable \cup Misread}

MCMeanwhile == {At(Src, "b", ".luau")}
MCCases == Contents \cup Pointers \cup Unpointed \cup Rule \cup Corners \cup Lost
=============================================================================
