---------------------------- MODULE MCReplImport ----------------------------
(***************************************************************************)
(* ReplImport with one injected implicit dependency and three packages,    *)
(* two of them imported under one name.                                    *)
(***************************************************************************)
EXTENDS ReplImport, TLC

CONSTANTS rt, a, b, c

MCPaths == {rt, a, b, c}
MCImplicit == <<rt>>
MCInjected == {rt}
MCAliasOf == (rt :> rt) @@ (a :> a) @@ (b :> b) @@ (c :> a)

\* What the files of a package may import.
MCContents == {Fail, <<>>, <<a>>, <<b>>, <<c>>, <<c, b>>}

\* Initially a chain, a diamond or a cycle of two or three packages, a package
\* that imports itself, and any of these with files missing.
MCDisks ==
  {d \in [MCPaths -> MCContents] :
     /\ d[rt] = <<>> /\ d[a] \in {Fail, <<b>>, <<c, b>>}
     /\ d[b] \in {Fail, <<>>, <<a>>, <<c>>} /\ d[c] \in {Fail, <<>>, <<b>>, <<c>>}}
MCRoots == {<<>>, <<c>>}
MCSpecs == {<<a>>, <<c>>, <<b, c>>}
============================================================================
