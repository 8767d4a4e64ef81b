--------------------------- MODULE OwnerRegistry ---------------------------
(***************************************************************************)
(* What the auto-lock bookkeeping of internal/host/worktreelock.go         *)
(* promises, with every file, mutex and process left out: each hidden      *)
(* worktree has the set of owner tokens that keep it locked, and an owner  *)
(* leaves the set only when no container runs under its name any more.     *)
(* WorktreeLock is shown to implement it.                                  *)
(***************************************************************************)
CONSTANTS
  Worktrees,  \* linked worktrees of one repository
  Names       \* owner tokens (container names)

VARIABLES
  owners,     \* worktree -> owner tokens in its lock reason
  userLocked, \* worktrees the user locked with a reason of their own
  active      \* names of the containers that are running

vars == <<owners, userLocked, active>>

Init ==
  /\ owners = [w \in Worktrees |-> {}]
  /\ userLocked = {}
  /\ active = {}

\* addAutoLockOwner: a worktree the user locked is left unchanged.
Add(n, w) ==
  /\ w \notin userLocked
  /\ owners' = [owners EXCEPT ![w] = @ \cup {n}]
  /\ UNCHANGED <<userLocked, active>>

\* removeAutoLockOwner: only for a container that is not running.
Remove(n, w) ==
  /\ n \notin active
  /\ owners' = [owners EXCEPT ![w] = @ \ {n}]
  /\ UNCHANGED <<userLocked, active>>

\* `git worktree lock` by the user: git refuses a worktree already locked.
UserLock(w) ==
  /\ owners[w] = {}
  /\ userLocked' = userLocked \cup {w}
  /\ UNCHANGED <<owners, active>>

\* The runtime starts a container: names of running containers are unique.
Start(n) ==
  /\ n \notin active
  /\ active' = active \cup {n}
  /\ UNCHANGED <<owners, userLocked>>

Stop(n) ==
  /\ active' = active \ {n}
  /\ UNCHANGED <<owners, userLocked>>

Next ==
  \/ \E n \in Names, w \in Worktrees : Add(n, w) \/ Remove(n, w)
  \/ \E w \in Worktrees : UserLock(w)
  \/ \E n \in Names : Start(n) \/ Stop(n)

Spec == Init /\ [][Next]_vars
============================================================================
