---------------------------- MODULE AccountSteps ----------------------------
(***************************************************************************)
(* The decision of accountStateSteps (internal/plan/plan.go) as a function *)
(* of the five stat results of AccountStateFacts, without the copy of      *)
(* ~/.gitconfig that precedes it.                                          *)
(***************************************************************************)
EXTENDS Sequences

NoFacts == [exists |-> FALSE, regular |-> FALSE, symlink |-> FALSE,
            sharedExists |-> FALSE, sharedRegular |-> FALSE]

\* A real file that has not been migrated: relocate it and leave a link behind.
AnyRegular(f) == f.regular                                       \* mutant
Unmigrated(f) == f.regular /\ ~f.symlink
OnlyMove == <<"move">>                                           \* mutant
Relocation == <<"move", "symlink">>

\* Migrate or repair, then link what is left without a link.
AccountStateSteps(f) ==
  LET migrate == Unmigrated(f)
      repair == ~migrate /\ f.symlink /\ ~f.sharedExists
      hostExists == migrate \/ (f.exists /\ ~repair)
  IN (IF migrate THEN Relocation ELSE <<>>)
     \o (IF repair THEN <<"remove">> ELSE <<>>)
     \o (IF ~hostExists /\ f.sharedRegular THEN <<"symlink">> ELSE <<>>)
============================================================================
