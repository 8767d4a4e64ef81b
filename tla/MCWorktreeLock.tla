--------------------------- MODULE MCWorktreeLock ---------------------------
(* Instances of WorktreeLock for TLC. *)
EXTENDS WorktreeLock

CONSTANTS l1, l2, l3, w1, w2, aic

\* Every container hides every worktree.
HidesAll == [l \in Launchers |-> Worktrees]
\* Only one launcher has two hidden worktrees to edit; it shares each with
\* another launcher.
HidesChain ==
  [l \in Launchers |-> CASE l = l1 -> {w1} [] l = l2 -> {w1, w2} [] OTHER -> {w2}]

\* Names that cannot collide, and launchers started in the same directory
\* within the same minute.
OwnBase == [l \in Launchers |-> l]
OneBase == [l \in Launchers |-> aic]

Launchers2 == {l1, l2}
Launchers3 == {l1, l2, l3}
Worktrees1 == {w1}
Worktrees2 == {w1, w2}
Bases1 == {aic}
============================================================================
