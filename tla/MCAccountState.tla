--------------------------- MODULE MCAccountState ---------------------------
(* Instances of AccountState for TLC. *)
EXTENDS AccountState

\* Every home directory but the one where ~/.claude.json is the user's own link
\* to a file and nothing is shared yet: that link is taken for a broken one.
Homes == (HostKinds \X {"none", "file", "dir"}) \ {<<"ownLink", "none">>}
FourRuns == 1..4
TwoRuns == 1..2
============================================================================
