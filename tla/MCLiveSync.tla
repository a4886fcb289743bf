----------------------------- MODULE MCLiveSync -----------------------------
(* LiveSync for TLC: a folder with a file in it, and a file beside it.      *)
EXTENDS LiveSync

D == <<"d">>
DX == <<"d", "x">>
F == <<"f">>

MCPath == {D, DX, F}
MCFolder == {D}
MCContent == {"c1", "c2"}

\* The session starts with the lone file, or with the folder and its file.
MCInitialDisk ==
  {[p \in MCPath |-> IF p = F THEN "c1" ELSE None],
   [p \in MCPath |-> IF p = D THEN "dir" ELSE IF p = DX THEN "c1" ELSE None]}
=============================================================================
