----------------------------- MODULE PlanBuild -----------------------------
(***************************************************************************)
(* The resumable planner: plan.Build (internal/plan/plan.go), a function   *)
(* from the command line, the probed facts and the answers given so far to *)
(* the host steps it can already decide, and the driver buildAndApply      *)
(* (cmd/claude-contained/run.go), which applies the steps it has not       *)
(* applied yet, asks the pending prompt and builds again.                  *)
(*                                                                         *)
(* A path is the tuple of its names.  One repository is in play.           *)
(***************************************************************************)
EXTENDS Naturals, Sequences, FiniteSets, AccountSteps

CONSTANTS
  Repo,         \* the repository's main worktree
  Linked,       \* its linked worktrees
  Projects,     \* directories the launcher may be started for
  ExtraMounts,  \* sets of directories that may be mounted with -m
  AccountFacts  \* stat results of the two ~/.claude.json paths

PathIsAtOrUnder(path, parent) ==
  Len(path) >= Len(parent) /\ SubSeq(path, 1, Len(parent)) = parent

GitDir == Append(Repo, ".git")

ASSUME PlanAssumption ==
  /\ Repo \in Seq(STRING) /\ Linked \subseteq Seq(STRING) \ {Repo}
  /\ Projects \subseteq Seq(STRING)
  /\ \A m \in ExtraMounts : m \subseteq Seq(STRING)
  /\ AccountFacts \subseteq [DOMAIN NoFacts -> BOOLEAN]

Prompts == {"git", "locks", "node"}   \* PromptWorktreeGit, ...Locks, PromptNodeModules
NoPrompt == "none"

\* Command line and facts: all that Build reads besides the answers.
Inputs ==
  [project : Projects, extra : ExtraMounts,
   userLocked : SUBSET Linked,        \* locked with a reason of the user's
   gitFlag : BOOLEAN,                 \* -w
   lockFlag : BOOLEAN,                \* -W
   nodeFlag : BOOLEAN,                \* --contained-node-modules
   node : BOOLEAN,                    \* a mounted Node project was found
   zellij : BOOLEAN,
   account : AccountFacts,
   \* What --share-skills leads to: mounts, two that conflict, or a runtime on
   \* which Codex's own skills cannot be mounted into the shared ones.
   skills : {"none", "fine", "conflict", "unmountable"}]

VARIABLES
  in,       \* this run's inputs, fixed
  ans,      \* prompt -> "unasked", "yes" or "no"
  program,  \* what the last Build returned
  count,    \* appliedCount
  pc,       \* where buildAndApply is
  applied,  \* history: the steps applied, in order
  asked     \* history: the prompts asked, in order

vars == <<in, ans, program, count, pc, applied, asked>>
----------------------------------------------------------------------------
(* The facts that decide about the worktree locks.                         *)

\* WorktreeMainRepo: the project is itself a linked worktree.
LinkedProject(i) == i.project \in Linked

\* MainWorktreeRepoRoot finds the repository from its main worktree only.
InMainWorktree(i) ==
  /\ PathIsAtOrUnder(i.project, Repo)
  /\ \A w \in Linked : ~PathIsAtOrUnder(i.project, w)

PathVisibleInContainer(path, roots) == \E r \in roots : PathIsAtOrUnder(path, r)

HiddenWorktrees(i, roots) ==
  IF PathVisibleInContainer(GitDir, roots)
  THEN {w \in Linked \ i.userLocked : ~PathVisibleInContainer(w, roots)}
  ELSE {}

\* worktreeLockCandidates, for the two ways the .git question can end.
LockCandidates(i, withGit) ==
  LET roots == {i.project} \cup i.extra
  IN IF withGit THEN HiddenWorktrees(i, roots \cup {GitDir})
     ELSE IF InMainWorktree(i) THEN HiddenWorktrees(i, roots)
     ELSE {}
----------------------------------------------------------------------------
(* Build, stage by stage.                                                  *)

Step(do, on) == [do |-> do, on |-> on]
PrintLine(what) == Step("print", {<<what>>})
When(cond, seq) == IF cond THEN seq ELSE <<>>

\* The worktree .git question: worktreeRepo is non-empty afterwards iff this.
GitMounted(i, a) == LinkedProject(i) /\ (i.gitFlag \/ a["git"] = "yes")
AsksGit(i, a) == LinkedProject(i) /\ ~i.gitFlag /\ a["git"] = "unasked"
GitSteps(i) == When(LinkedProject(i), <<PrintLine("worktree")>>)

Directories(i) ==
  <<Step("mkdir", {<<"home">>})>>
    \o When(i.zellij, <<Step("mkdir", {Append(i.project, "zellij")})>>)

\* The auto-lock offer.
OfferedWithoutGit(i, a) == LockCandidates(i, FALSE)              \* mutant
Offered(i, a) == LockCandidates(i, GitMounted(i, a))
AsksLocksAgain(i, a) == Offered(i, a) # {} /\ ~i.lockFlag        \* mutant
AsksLocks(i, a) == Offered(i, a) # {} /\ ~i.lockFlag /\ a["locks"] = "unasked"
LockStepsOnce(i, a) ==                                           \* mutant
  When(AsksLocks(i, a), <<PrintLine("hidden")>>)
    \o When(i.lockFlag \/ a["locks"] = "yes", <<Step("lock", Offered(i, a))>>)
LockSteps(i, a) ==
  When(Offered(i, a) # {},
       <<PrintLine("hidden")>>
         \o When(i.lockFlag \/ a["locks"] = "yes", <<Step("lock", Offered(i, a))>>))

Account(i) ==
  LET do == AccountStateSteps(i.account)
  IN [n \in DOMAIN do |-> Step(do[n], {<<"home", "claude.json">>})]

\* Skills that cannot be mounted are found before any step; the steps that
\* precede a conflict of mounts survive it.
Skills(i) ==
  When(i.skills \in {"fine", "conflict"}, <<Step("mkdir", {<<"home", "skills">>})>>)
    \o When(i.skills = "fine", <<PrintLine("sharing")>>)

\* The node_modules overlay question.
AsksNode(i, a) == i.node /\ ~i.nodeFlag /\ a["node"] = "unasked"
NodeSteps(i, a) ==
  When(i.node /\ (i.nodeFlag \/ a["node"] = "yes"),
       <<Step("mkdir", {Append(i.project, "node_modules")}), PrintLine("created")>>)

\* The program ends at the first unanswered prompt or at an error of the skills.
Build(i, a) ==
  LET toLocks == GitSteps(i) \o Directories(i) \o LockSteps(i, a)
      toSkills == toLocks \o Account(i) \o Skills(i)
      Ends(steps, pending, result) ==
        [steps |-> steps, pending |-> pending, result |-> result]
  IN IF AsksGit(i, a) THEN Ends(GitSteps(i), "git", "partial")
     ELSE IF AsksLocks(i, a) THEN Ends(toLocks, "locks", "partial")
     ELSE IF i.skills \in {"conflict", "unmountable"} THEN Ends(toSkills, NoPrompt, "error")
     ELSE IF AsksNode(i, a) THEN Ends(toSkills, "node", "partial")
     ELSE Ends(toSkills \o NodeSteps(i, a), NoPrompt, "run")

\* The host directories the run mounts, where they bear on git metadata.
Mounted(i, a) ==
  {i.project} \cup i.extra \cup (IF GitMounted(i, a) THEN {GitDir} ELSE {})
----------------------------------------------------------------------------
(* buildAndApply.                                                          *)

Init ==
  /\ in \in Inputs
  /\ ans = [p \in Prompts |-> "unasked"]
  /\ program = [steps |-> <<>>, pending |-> NoPrompt, result |-> "partial"]
  /\ count = 0 /\ pc = "build"
  /\ applied = <<>> /\ asked = <<>>

BuildRound ==
  /\ pc = "build"
  /\ program' = Build(in, ans)
  /\ pc' = "apply"
  /\ UNCHANGED <<in, ans, count, applied, asked>>

DueEarly == count + 1 < Len(program.steps)                       \* mutant
Due == count < Len(program.steps)

ApplyStep ==
  /\ pc = "apply" /\ Due
  /\ applied' = Append(applied, program.steps[count + 1])
  /\ count' = count + 1
  /\ UNCHANGED <<in, ans, program, pc, asked>>

\* Printing never fails, and a worktree that cannot be locked is a warning.
StepFails ==
  /\ pc = "apply" /\ Due
  /\ program.steps[count + 1].do \notin {"print", "lock"}
  /\ pc' = "failed"
  /\ UNCHANGED <<in, ans, program, count, applied, asked>>

RoundEnds ==
  /\ pc = "apply" /\ ~Due
  /\ count' = Len(program.steps)
  /\ \/ program.result = "error" /\ pc' = "failed" /\ UNCHANGED asked
     \/ program.result = "run" /\ pc' = "launched" /\ UNCHANGED asked
     \/ /\ program.result = "partial"
        /\ pc' = "ask" /\ asked' = Append(asked, program.pending)
  /\ UNCHANGED <<in, ans, program, applied>>

Answer ==
  /\ pc = "ask"
  /\ \E answer \in {"yes", "no"} : ans' = [ans EXCEPT ![program.pending] = answer]
  /\ pc' = "build"
  /\ UNCHANGED <<in, program, count, applied, asked>>

\* End of input, or a signal at the prompt.
NoAnswer ==
  /\ pc = "ask"
  /\ pc' = "failed"
  /\ UNCHANGED <<in, ans, program, count, applied, asked>>

Ended == pc \in {"launched", "failed"} /\ UNCHANGED vars

Next ==
  \/ BuildRound \/ ApplyStep \/ StepFails \/ RoundEnds \/ Answer \/ NoAnswer
  \/ Ended

Spec == Init /\ [][Next]_vars
----------------------------------------------------------------------------
(* Properties.                                                             *)

\* "A later call re-emits the same prefix, so the driver skips what it has
\* already applied by index" (plan.go:32): whatever the answers, the steps
\* applied are the first ones of the program those answers lead to, each
\* applied once and none left out.
AppliedIsPrefix ==
  LET now == Build(in, ans).steps
  IN Len(applied) <= Len(now) /\ applied = SubSeq(now, 1, Len(applied))

\* The program that is launched was applied to its end.
LaunchedIsComplete == pc = "launched" => applied = Build(in, ans).steps

\* No prompt is asked twice: the rounds of buildAndApply come to an end.
NoPromptTwice == \A m, n \in DOMAIN asked : asked[m] = asked[n] => m = n

\* Where a run may be abandoned - at a prompt, or for good with a container -
\* no ~/.claude.json has been moved without its link being in place.
PromptNeverSplitsMigration ==
  pc \in {"ask", "launched"} =>
    \A n \in DOMAIN applied :
      applied[n].do = "move" =>
        n < Len(applied) /\ applied[n + 1] = Step("symlink", applied[n].on)

\* Only through the project's own main worktree is the repository's metadata
\* mounted without the .git question: no -m brings it along, and no project
\* directory lies above the repository.
MetadataIsTheProjects ==
  \A i \in Inputs :
    PathVisibleInContainer(GitDir, {i.project} \cup i.extra) => InMainWorktree(i)

\* "If mounted Git metadata can see linked worktrees outside the mounted
\* directories, the launcher offers to auto-lock them" (USAGE.md:68): with the
\* mounts the container really gets, each such worktree is locked, unless the
\* user declined the offer.
HiddenWorktreesProtected ==
  pc = "launched" /\ ans["locks"] # "no" =>
    \A w \in HiddenWorktrees(in, Mounted(in, ans)) :
      \E n \in DOMAIN applied : applied[n].do = "lock" /\ w \in applied[n].on
============================================================================
