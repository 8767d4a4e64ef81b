---------------------------- MODULE MCPlanBuild ----------------------------
(* Instances of PlanBuild for TLC. *)
EXTENDS PlanBuild

Main == <<"main">>
\* One linked worktree inside the main one, one beside it.
Nested == <<"main", "nested">>
Beside == <<"beside">>
TwoLinked == {Nested, Beside}

\* The main worktree, a directory in it, a linked worktree, something else.
FourProjects == {Main, <<"main", "docs">>, Beside, <<"elsewhere">>}
\* Extra mounts that leave the repository's metadata to the project mount.
ExtrasApart == {{}, {Nested}, {<<"tools">>}}

SomeAccountFacts ==
  {NoFacts,
   [NoFacts EXCEPT !.exists = TRUE, !.regular = TRUE],
   [NoFacts EXCEPT !.symlink = TRUE],
   [NoFacts EXCEPT !.sharedExists = TRUE, !.sharedRegular = TRUE]}

\* What the last property needs of the mounts, see PlanBuild.
ASSUME MetadataAssumption == MetadataIsTheProjects
============================================================================
