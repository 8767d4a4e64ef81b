---------------------------- MODULE AccountState ----------------------------
(***************************************************************************)
(* The relocation of ~/.claude.json: the stat calls of probeFacts          *)
(* (cmd/claude-contained/probe.go), the decision of accountStateSteps      *)
(* (internal/plan/plan.go) and the steps apply performs for it, by         *)
(* launchers that may overlap and may be killed between two steps.         *)
(***************************************************************************)
EXTENDS Naturals, FiniteSets, AccountSteps

CONSTANTS
  Runs,        \* launcher runs that reach probeFacts
  Serial,      \* runs do not overlap
  MaxKills,    \* runs killed between two steps (model bound)
  StartStates  \* pairs <<host, shared>> the home directory may start with

\* What ~/.claude.json can be: missing, a regular file, a link to the shared
\* path, or the user's own link to a file or to nothing.
HostKinds == {"none", "file", "link", "ownLink", "ownDangling"}
\* What ~/.claude-contained/.claude.json can be; a rename of the link over it
\* makes it a link to itself.
SharedKinds == {"none", "file", "dir", "selfLink"}
\* Account states: nobody's, the host's, the one already shared, and the one
\* behind the user's own link.
Contents == {"nothing", "hosts", "shareds", "users"}

ASSUME AccountAssumption ==
  /\ Serial \in BOOLEAN /\ MaxKills \in Nat
  /\ StartStates \subseteq HostKinds \X (SharedKinds \ {"selfLink"})

VARIABLES
  host, shared, \* what is at the two paths
  sharedData,   \* the account state in the shared file, if it is a file
  hostData,     \* the account state in the host file, if it is a file
  before,       \* history: the account state the host saw at the start
  pc, facts,    \* run -> where it is, AccountStateFacts as probed so far
  steps         \* run -> account steps still to apply

homeVars == <<host, shared, hostData, sharedData>>
vars == <<host, shared, sharedData, hostData, before, pc, facts, steps>>

\* What opening ~/.claude.json gives.
Seen ==
  CASE host = "file" -> hostData
    [] host = "link" /\ shared = "file" -> sharedData
    [] host = "ownLink" -> "users"
    [] OTHER -> "nothing"

Init ==
  /\ \E start \in StartStates : host = start[1] /\ shared = start[2]
  /\ hostData = "hosts" /\ sharedData = "shareds"
  /\ before = Seen
  /\ pc = [r \in Runs |-> "idle"]
  /\ facts = [r \in Runs |-> NoFacts]
  /\ steps = [r \in Runs |-> <<>>]

Goto(r, where) == pc' = [pc EXCEPT ![r] = where]
Active(r) == pc[r] \notin {"idle", "started", "failed", "killed"}
Learn(r, f) == facts' = [facts EXCEPT ![r] = f]
----------------------------------------------------------------------------
(* probeFacts: one system call each.                                       *)

\* os.Lstat(claudeJSON)
Lstat(r) ==
  /\ pc[r] = "idle"
  /\ Serial => \A q \in Runs : ~Active(q)
  /\ Learn(r, [NoFacts EXCEPT !.symlink = host \in {"link", "ownLink", "ownDangling"}])
  /\ Goto(r, "lstat")
  /\ UNCHANGED <<homeVars, before, steps>>

\* os.Stat(claudeJSON) follows the link.
Stat(r) ==
  /\ pc[r] = "lstat"
  /\ LET target == IF host = "link" THEN shared ELSE host
     IN Learn(r, [facts[r] EXCEPT
                    !.exists = target \in {"file", "dir", "ownLink"},
                    !.regular = target \in {"file", "ownLink"}])
  /\ Goto(r, "stat")
  /\ UNCHANGED <<homeVars, before, steps>>

\* os.Stat(shared); plan.Build then turns the facts into steps, and nothing
\* looks at the two paths again before they are applied.
StatShared(r) ==
  /\ pc[r] = "stat"
  /\ LET f == [facts[r] EXCEPT !.sharedExists = shared \in {"file", "dir"},
                               !.sharedRegular = shared = "file"]
     IN Learn(r, f) /\ steps' = [steps EXCEPT ![r] = AccountStateSteps(f)]
  /\ Goto(r, "apply")
  /\ UNCHANGED <<homeVars, before>>
----------------------------------------------------------------------------
(* apply, one step at a time.                                              *)

NextStep(r, step) ==
  /\ pc[r] = "apply" /\ steps[r] # <<>> /\ Head(steps[r]) = step

StepDone(r) == steps' = [steps EXCEPT ![r] = Tail(@)] /\ UNCHANGED pc
StepFails(r) == Goto(r, "failed") /\ UNCHANGED <<steps, homeVars>>

\* os.Rename replaces whatever is at the target, a directory excepted.  Only a
\* regular file was ever seen here, so that a link found now is a launcher's.
MoveFile(r) ==
  /\ NextStep(r, "move")
  /\ \/ (host = "none" \/ shared = "dir") /\ StepFails(r)
     \/ /\ host # "none" /\ shared # "dir"
        /\ host' = "none"
        /\ shared' = IF host = "file" THEN "file" ELSE "selfLink"
        /\ sharedData' = IF host = "file" THEN hostData ELSE sharedData
        /\ UNCHANGED hostData
        /\ StepDone(r)
  /\ UNCHANGED <<before, facts>>

\* os.Symlink fails when anything is at the link's path.
Symlink(r) ==
  /\ NextStep(r, "symlink")
  /\ \/ host # "none" /\ StepFails(r)
     \/ /\ host = "none"
        /\ host' = "link" /\ StepDone(r)
        /\ UNCHANGED <<shared, hostData, sharedData>>
  /\ UNCHANGED <<before, facts>>

\* os.Remove; a missing file is not an error.
RemoveFile(r) ==
  /\ NextStep(r, "remove")
  /\ host' = "none" /\ StepDone(r)
  /\ UNCHANGED <<shared, hostData, sharedData, before, facts>>

\* All account steps are applied and the container starts.
StartContainer(r) ==
  /\ pc[r] = "apply" /\ steps[r] = <<>>
  /\ Goto(r, "started")
  /\ UNCHANGED <<homeVars, before, facts, steps>>

\* The launcher is killed (before the trap, or by SIGKILL after it).
Kill(r) ==
  /\ Active(r)
  /\ Cardinality({q \in Runs : pc[q] = "killed"}) < MaxKills
  /\ Goto(r, "killed")
  /\ UNCHANGED <<homeVars, before, facts, steps>>
----------------------------------------------------------------------------
Ended == (\A r \in Runs : pc[r] # "idle" /\ ~Active(r)) /\ UNCHANGED vars

Next ==
  \/ \E r \in Runs :
       \/ Lstat(r) \/ Stat(r) \/ StatShared(r)
       \/ MoveFile(r) \/ Symlink(r) \/ RemoveFile(r)
       \/ StartContainer(r) \/ Kill(r)
  \/ Ended

Spec == Init /\ [][Next]_vars
----------------------------------------------------------------------------
(* Properties.                                                             *)

\* The account state the host had is somewhere on disk at every moment,
\* between the rename and the new link too: "treating it as a regular file
\* would rename it over its own target" is the loss the probes' separate
\* predicates are there to prevent (facts.go:11, plan.go:411).
AccountStateSurvives ==
  before # "nothing" =>
    \/ host = "file" /\ hostData = before
    \/ shared = "file" /\ sharedData = before
    \/ before = "users"

\* A container starts only with the host's account state readable where it was,
\* killed runs before it included: the next run finishes what they left.
ReadableWhenStarted ==
  \A r \in Runs :
    pc[r] = "started" /\ before # "nothing" /\ (\A q \in Runs : ~Active(q)) => Seen = before

============================================================================
