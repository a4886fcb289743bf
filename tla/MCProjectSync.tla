---------------------------- MODULE MCProjectSync ----------------------------
(* ProjectSync for TLC: a project file, a source directory with scripts,   *)
(* meta files and a nested project, and an optional directory.             *)
EXTENDS ServedProject

Proj == <<DefaultProject>>
At(p, s) == Append(p, <<s, "">>)
Src == At(<<>>, "src")
Opt == At(<<>>, "opt")
Sub == At(Src, "d")
A == Join(Src, <<"a", ".lua">>)
AMeta == Join(Src, <<"a", ".meta.json">>)
AText == Join(Src, <<"a", ".txt">>)
SrcInit == Join(Src, <<"init", ".lua">>)
SrcMeta == Join(Src, <<"init", ".meta.json">>)
SubProj == Join(Sub, DefaultProject)
B == Join(Sub, <<"b", ".server.lua">>)

MCPath == {Proj, Src, Opt, Sub, A, AMeta, AText, SrcInit, SrcMeta, SubProj, B}
MCFolders == {Src, Opt, Sub}
MCService == {"ReplicatedStorage"}

Node(class, path, optional, kids) ==
  [class |-> class, path |-> path, optional |-> optional, id |-> None, iui |-> None,
   props |-> <<>>, kids |-> kids]
Kid(name, node) == [name |-> name, node |-> node]
SrcNode == Node(None, Src, FALSE, <<>>)
NewProject(name, node) ==
  [name |-> name, tree |-> node, ignore |-> <<>>, rules |-> <<>>, legacy |-> TRUE]

MCProjectOf(c) ==
  CASE c = "plain" -> NewProject("p", Node("DataModel", None, FALSE, <<Kid("A", SrcNode)>>))
    [] c = "alias" -> NewProject("p", Node("DataModel", None, FALSE,
                        <<Kid("A", SrcNode), Kid("B", SrcNode)>>))
    [] c = "nested" -> NewProject("p", Node(None, Src, FALSE, <<Kid("B", SrcNode)>>))
    [] c = "optional" -> [NewProject("p", Node("DataModel", None, FALSE,
                        << Kid("O", Node(None, Opt, TRUE, <<>>)),
                           Kid("ReplicatedStorage", Node(None, Src, FALSE, <<>>)) >>))
                          EXCEPT !.ignore = <<[glob |-> {AText}, negated |-> FALSE]>>]
    [] c = "sub" -> NewProject(None, Node("Folder", None, FALSE,
                        <<Kid("C", Node(None, << <<"b", ".server.lua">> >>, FALSE, <<>>))>>))
    [] OTHER -> None
MCModelOf(c) == None
MCNormalized(c) == IF c = "v2" THEN "v2 lf" ELSE c
MCMetaOf(c) ==
  CASE c = "prop" -> [class |-> None, props |-> ("Disabled" :> "true"), iui |-> None, id |-> None]
    [] c = "class" -> [class |-> "Configuration", props |-> <<>>, iui |-> TRUE, id |-> None]
    [] OTHER -> None

MCContents(p) ==
  CASE p = Proj -> {"plain", "alias", "nested", "optional"}
    [] p = SubProj -> {"sub"}
    [] p = AMeta -> {"prop"}
    [] p = SrcMeta -> {"class", Bad}
    [] p = A -> {"v1", "v2"}
    [] OTHER -> {"v1"}

Disk(files) == [p \in MCPath |-> IF p \in DOMAIN files THEN files[p] ELSE Absent]
MCInitialDisks ==
  { Disk((Proj :> "plain") @@ (Src :> Folder) @@ (A :> "v1")),
    Disk((Proj :> "alias") @@ (Src :> Folder) @@ (SrcInit :> "v1")),
    Disk((Proj :> "nested") @@ (Src :> Folder) @@ (A :> "v1") @@ (AMeta :> "prop")),
    Disk((Proj :> "optional") @@ (Src :> Folder) @@ (Opt :> Folder) @@ (Sub :> Folder)
           @@ (SubProj :> "sub") @@ (B :> "v1")) }
=============================================================================
