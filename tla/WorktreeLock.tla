---------------------------- MODULE WorktreeLock ----------------------------
(***************************************************************************)
(* The worktree auto-lock of internal/host/worktreelock.go as its callers  *)
(* use it: launchers of one repository scan for hidden worktrees, take the *)
(* mkdir mutex, edit the owner lists in git's `locked` files, run their    *)
(* container and take the owner out again.  One action is one system call  *)
(* (or one git subprocess) that another process can see or get in front of.*)
(*                                                                         *)
(* Four constants say how well the machine treats the launchers:           *)
(*   QuickOwner    nobody looks between mkdir and the owner file, or       *)
(*                 between the two Removes of a release                    *)
(*   QuickReclaim  nobody acts between another's look at the holder and    *)
(*                 the end of the reclaim it leads to                      *)
(*   Pace          "prompt": no live holder outlasts a waiter's patience   *)
(*                 (5 s); "slow": a holder may; "stalled": it may also     *)
(*                 outlast the 30 s age limit                              *)
(*   MaySeal       git's metadata may become unwritable: permissions, a    *)
(*                 read-only or full file system                           *)
(***************************************************************************)
EXTENDS Naturals, FiniteSets

CONSTANTS
  Launchers,   \* launcher processes on one repository
  Worktrees,   \* its linked worktrees
  Hides,       \* launcher -> worktrees its container cannot see
  Bases,       \* container names before de-duplication
  BaseOf,      \* launcher -> its base name
  StaleGrace,  \* polls before a waiter looks at the holder (5)
  MaxWaits,    \* polls before a waiter gives up (50)
  QuickOwner, QuickReclaim, Pace, MaySeal, \* see above
  MaxCrashes,  \* launchers that may be killed outright (model bound)
  MayVanish,   \* may a working tree be deleted behind the launchers' back?
  Nobody,      \* no process
  NoTree       \* no worktree

ASSUME ConstantsAssumption ==
  /\ IsFiniteSet(Launchers)
  /\ Hides \in [Launchers -> SUBSET Worktrees]
  /\ BaseOf \in [Launchers -> Bases]
  /\ StaleGrace \in Nat /\ MaxWaits \in Nat /\ StaleGrace <= MaxWaits
  /\ {QuickOwner, QuickReclaim, MaySeal, MayVanish} \subseteq BOOLEAN
  /\ Pace \in {"prompt", "slow", "stalled"}
  /\ MaxCrashes \in Nat
  /\ Nobody \notin Launchers
  /\ "absent" \notin Launchers /\ "blank" \notin Launchers

Names == Bases \X (1..Cardinality(Launchers))

VARIABLES
  dir,      \* the process whose Mkdir made the mutex directory, or Nobody
  stamp,    \* its owner file: "absent", "blank", or the pid written in it
  lock,     \* worktree -> its `locked` file
  present,  \* worktrees whose working tree is on disk
  sealed,   \* does git's metadata refuse changes?
  running,  \* launchers whose container is running
  pc, op,   \* launcher -> where it is, and which owner-list edit it is in
  waited,   \* launcher -> polls of the mutex so far
  held,     \* launcher -> acquireMutex returned it a mutex not yet released
  todo,     \* launcher -> worktrees still to edit
  cur, buf, \* launcher -> worktree being edited, owners about to be written
  name,     \* launcher -> container name, its owner token
  locked,   \* launcher -> worktrees it locked (what it must release)
  skipped   \* launcher -> hidden worktrees its scan took for user-locked

mutexVars == <<dir, stamp>>
editVars == <<todo, cur, buf, locked>>
sessionVars == <<running, name, skipped>>
vars == <<dir, stamp, lock, present, sealed, running, pc, op, waited, held, todo,
          cur, buf, name, locked, skipped>>

NoFile == [kind |-> "none", owners |-> {}]
UserReason == [kind |-> "user", owners |-> {}]
AutoReason(S) == [kind |-> "auto", owners |-> S]
\* An empty file.  Its owners are history: what its writer has yet to write.
Truncated(S) == [kind |-> "empty", owners |-> S]

IsLocked(w) == lock[w].kind # "none"
\* parseAutoLockOwners: the reason carries AutoLockPrefix; an empty file does not.
AnyReason(w) == lock[w].kind # "none"                            \* mutant
Ours(w) == lock[w].kind = "auto"

Goto(l, where) == pc' = [pc EXCEPT ![l] = where]
Alive(l) == pc[l] \notin {"crashed", "done"}

Init ==
  /\ dir = Nobody /\ stamp = "absent"
  /\ lock = [w \in Worktrees |-> NoFile]
  /\ present = Worktrees
  /\ sealed = FALSE
  /\ running = {}
  /\ pc = [l \in Launchers |-> "scan"]
  /\ op = [l \in Launchers |-> "lock"]
  /\ waited = [l \in Launchers |-> 0]
  /\ held = [l \in Launchers |-> FALSE]
  /\ todo = [l \in Launchers |-> {}]
  /\ cur = [l \in Launchers |-> NoTree]
  /\ buf = [l \in Launchers |-> {}]
  /\ name = [l \in Launchers |-> <<BaseOf[l], 1>>]
  /\ locked = [l \in Launchers |-> {}]
  /\ skipped = [l \in Launchers |-> {}]
----------------------------------------------------------------------------
(* Before the mutex: probeFacts and plan.Build.                            *)

\* HiddenWorktrees, without the mutex: a worktree locked with a reason that
\* is not the launcher's is left out.
Scan(l) ==
  /\ pc[l] = "scan"
  /\ LET seen == Hides[l] \cap present
     IN /\ todo' = [todo EXCEPT ![l] = {w \in seen : Ours(w) \/ ~IsLocked(w)}]
        /\ skipped' = [skipped EXCEPT ![l] = {w \in seen : IsLocked(w) /\ ~Ours(w)}]
  /\ Goto(l, "name")
  /\ UNCHANGED <<mutexVars, lock, present, sealed, running, op, waited, held, cur,
                 buf, name, locked>>

\* deduplicateName against the containers running now: the first free suffix.
FreeName(l, n) ==
  /\ \A q \in running : name[q] # <<BaseOf[l], n>>
  /\ \A m \in 1..(n - 1) : \E q \in running : name[q] = <<BaseOf[l], m>>

\* RunningContainers is probed and the name chosen; then the auto-lock offer,
\* made only for a non-empty candidate list, is accepted or declined.
ChooseName(l) ==
  /\ pc[l] = "name"
  /\ \E n \in 1..Cardinality(Launchers) :
       FreeName(l, n) /\ name' = [name EXCEPT ![l] = <<BaseOf[l], n>>]
  /\ \/ todo[l] # {} /\ Goto(l, "mkdir") /\ UNCHANGED todo
     \/ Goto(l, "launch") /\ todo' = [todo EXCEPT ![l] = {}]
  /\ UNCHANGED <<mutexVars, lock, present, sealed, running, op, waited, held, cur,
                 buf, locked, skipped>>
----------------------------------------------------------------------------
(* acquireMutexContext and release.                                        *)

Look == {"observe", "reclaimOwner", "reclaimDir"}

\* QuickReclaim: l does not act while another is between a failed Mkdir and the
\* end of what that failure leads to.
Undisturbed(l) == QuickReclaim => \A q \in Launchers \ {l} : pc[q] \notin Look

\* QuickOwner: nobody is met without an owner file it is about to have, or with
\* a directory it is about to remove.
NobodyHalfway == QuickOwner => \A q \in Launchers : pc[q] \notin {"create", "releaseDir"}

\* os.Mkdir, unlike os.MkdirAll, makes the directory only when there is none.
\* Every error it returns counts as contention.
Free == dir = Nobody /\ ~sealed

Mkdir(l) ==
  /\ pc[l] = "mkdir" /\ Free
  /\ Undisturbed(l)
  /\ dir' = l
  /\ held' = [held EXCEPT ![l] = TRUE]
  /\ waited' = [waited EXCEPT ![l] = 0]
  /\ Goto(l, "create")
  /\ UNCHANGED <<stamp, lock, present, sealed, op, editVars, sessionVars>>

\* Sleep one poll interval and count it.
SleepUncounted(l) == UNCHANGED waited                            \* mutant
SleepTwice(l) == waited' = [waited EXCEPT ![l] = @ + 2]          \* mutant
Sleep(l) == waited' = [waited EXCEPT ![l] = @ + 1]

\* Mkdir failed before the grace period is over.
Poll(l) ==
  /\ pc[l] = "mkdir" /\ ~Free
  /\ waited[l] < StaleGrace
  /\ Sleep(l)
  /\ UNCHANGED <<mutexVars, lock, present, sealed, pc, op, held, editVars, sessionVars>>

\* Mkdir failed after it: look at the holder.
LookAtHolder(l) ==
  /\ pc[l] = "mkdir" /\ ~Free
  /\ waited[l] >= StaleGrace
  /\ Undisturbed(l)
  /\ NobodyHalfway
  /\ Pace = "prompt" /\ waited[l] >= MaxWaits /\ dir # Nobody => ~held[dir]
  /\ Goto(l, "observe")
  /\ UNCHANGED <<mutexVars, lock, present, sealed, op, waited, held, editVars, sessionVars>>

\* observeMutexHolder: no owner file, a dead pid, or too old.  A blank file
\* (pid 0, no time) is an active holder.
StaleAlways == TRUE                                              \* mutant
StaleIfMissing == stamp = "absent"                               \* mutant
Stale ==
  \/ stamp = "absent"
  \/ stamp \in Launchers /\ ~Alive(stamp)
MaybeExpired == Pace = "stalled" /\ stamp \in Launchers

FindStale(l) ==
  /\ pc[l] = "observe"
  /\ NobodyHalfway
  /\ Stale \/ MaybeExpired
  /\ Goto(l, "reclaimOwner")
  /\ UNCHANGED <<mutexVars, lock, present, sealed, op, waited, held, editVars, sessionVars>>

FindActive(l) ==
  /\ pc[l] = "observe" /\ ~Stale
  /\ waited[l] < MaxWaits
  /\ Sleep(l)
  /\ Goto(l, "mkdir")
  /\ UNCHANGED <<mutexVars, lock, present, sealed, op, held, editVars, sessionVars>>

\* Out of patience: a launch locks anyway, a cleanup leaves the locks alone.
TimeOut(l) ==
  /\ pc[l] = "observe" /\ ~Stale
  /\ waited[l] >= MaxWaits
  /\ waited' = [waited EXCEPT ![l] = 0]
  /\ Goto(l, IF op[l] = "lock" THEN "edit" ELSE "done")
  /\ UNCHANGED <<mutexVars, lock, present, sealed, op, held, editVars, sessionVars>>

\* A Remove of the owner file; its error is ignored.
RemoveOwner == stamp' = "absent" \/ (sealed /\ UNCHANGED stamp)

ReclaimOwner(l) ==
  /\ pc[l] = "reclaimOwner"
  /\ RemoveOwner
  /\ Goto(l, "reclaimDir")
  /\ UNCHANGED <<dir, lock, present, sealed, op, waited, held, editVars, sessionVars>>

\* os.Remove takes the directory only when it is empty; its error is ignored.
LeaveDir == UNCHANGED dir                                        \* mutant
RemoveDir == dir' = IF stamp = "absent" /\ ~sealed THEN Nobody ELSE dir

ReclaimDir(l) ==
  /\ pc[l] = "reclaimDir"
  /\ RemoveDir
  /\ waited' = [waited EXCEPT ![l] = 0]
  /\ Goto(l, "mkdir")
  /\ UNCHANGED <<stamp, lock, present, sealed, op, held, editVars, sessionVars>>

\* os.Create of the owner file, best effort: it fails when the directory went.
CreateOwner(l) ==
  /\ pc[l] = "create"
  /\ Undisturbed(l)
  /\ \/ dir # Nobody /\ stamp' = "blank" /\ Goto(l, "stamp")
     \/ (dir = Nobody \/ sealed) /\ Goto(l, "edit") /\ UNCHANGED stamp
  /\ UNCHANGED <<dir, lock, present, sealed, op, waited, held, editVars, sessionVars>>

\* The write of "pid time"; a file that was removed meanwhile stays removed.
StampOwner(l) ==
  /\ pc[l] = "stamp"
  /\ Undisturbed(l)
  /\ \/ stamp' = IF stamp = "absent" THEN stamp ELSE l
     \/ sealed /\ UNCHANGED stamp
  /\ Goto(l, "edit")
  /\ UNCHANGED <<dir, lock, present, sealed, op, waited, held, editVars, sessionVars>>

ReleaseOwner(l) ==
  /\ pc[l] = "releaseOwner"
  /\ Undisturbed(l)
  /\ RemoveOwner
  /\ Goto(l, "releaseDir")
  /\ UNCHANGED <<dir, lock, present, sealed, op, waited, held, editVars, sessionVars>>

ReleaseDir(l) ==
  /\ pc[l] = "releaseDir"
  /\ Undisturbed(l)
  /\ RemoveDir
  /\ held' = [held EXCEPT ![l] = FALSE]
  /\ Goto(l, IF op[l] = "lock" THEN "launch" ELSE "done")
  /\ UNCHANGED <<stamp, lock, present, sealed, op, waited, editVars, sessionVars>>
----------------------------------------------------------------------------
(* The owner-list edits.                                                   *)

\* The loop moves on to its next worktree: cur and buf go out of scope.
Advance(l, w) ==
  /\ todo' = [todo EXCEPT ![l] = @ \ {w}]
  /\ cur' = [cur EXCEPT ![l] = NoTree]
  /\ buf' = [buf EXCEPT ![l] = {}]
  /\ Goto(l, "edit")

EditsDone(l) ==
  /\ pc[l] = "edit" /\ todo[l] = {}
  /\ Goto(l, IF held[l] THEN "releaseOwner" ELSE "launch")
  /\ UNCHANGED <<mutexVars, lock, present, sealed, op, waited, held, editVars, sessionVars>>

\* addAutoLockOwner up to its Stat of the lock file.
StartAdd(l, w) ==
  /\ pc[l] = "edit" /\ op[l] = "lock" /\ w \in todo[l]
  /\ \/ w \notin present /\ Advance(l, w)
     \/ /\ w \in present
        /\ cur' = [cur EXCEPT ![l] = w]
        /\ Goto(l, IF IsLocked(w) THEN "append" ELSE "gitLock")
        /\ UNCHANGED <<todo, buf>>
  /\ UNCHANGED <<mutexVars, lock, present, sealed, op, waited, held, locked, sessionVars>>

\* `git worktree lock --reason`; when git refuses, the append is tried.
GitLock(l) ==
  /\ pc[l] = "gitLock"
  /\ \/ /\ ~IsLocked(cur[l])
        /\ lock' = [lock EXCEPT ![cur[l]] = AutoReason({name[l]})]
        /\ locked' = [locked EXCEPT ![l] = @ \cup {cur[l]}]
        /\ Advance(l, cur[l])
     \/ /\ IsLocked(cur[l]) \/ sealed
        /\ Goto(l, "append")
        /\ UNCHANGED <<lock, editVars>>
  /\ UNCHANGED <<mutexVars, present, sealed, op, waited, held, sessionVars>>

\* appendAutoLockOwner up to its write: it re-reads the file.
ReadForAppend(l) ==
  /\ pc[l] = "append"
  /\ \/ /\ ~Ours(cur[l])
        /\ Advance(l, cur[l])
        /\ UNCHANGED locked
     \/ /\ Ours(cur[l]) /\ name[l] \in lock[cur[l]].owners
        /\ locked' = [locked EXCEPT ![l] = @ \cup {cur[l]}]
        /\ Advance(l, cur[l])
     \/ /\ Ours(cur[l]) /\ name[l] \notin lock[cur[l]].owners
        /\ buf' = [buf EXCEPT ![l] = lock[cur[l]].owners \cup {name[l]}]
        /\ Goto(l, "truncate")
        /\ UNCHANGED <<todo, cur, locked>>
  /\ UNCHANGED <<mutexVars, lock, present, sealed, op, waited, held, sessionVars>>

\* The owners that stay.
RemainingNone(l, w) == {}                                        \* mutant
RemainingAll(l, w) == lock[w].owners                             \* mutant
Remaining(l, w) == lock[w].owners \ {name[l]}

\* removeAutoLockOwner up to its write or unlock.
StartRemove(l, w) ==
  /\ pc[l] = "edit" /\ op[l] = "unlock" /\ w \in todo[l]
  /\ LET rest == Remaining(l, w)
         mine == w \in present /\ Ours(w) /\ name[l] \in lock[w].owners
     IN \/ ~mine /\ Advance(l, w)
        \/ /\ mine
           /\ cur' = [cur EXCEPT ![l] = w]
           /\ buf' = [buf EXCEPT ![l] = rest]
           /\ Goto(l, IF rest = {} THEN "gitUnlock" ELSE "truncate")
           /\ UNCHANGED todo
  /\ UNCHANGED <<mutexVars, lock, present, sealed, op, waited, held, locked, sessionVars>>

\* `git worktree unlock`, or removing the file when git fails; nobody looks
\* whether that worked.
GitUnlock(l) ==
  /\ pc[l] = "gitUnlock"
  /\ lock' = [lock EXCEPT ![cur[l]] = NoFile] \/ (sealed /\ UNCHANGED lock)
  /\ Advance(l, cur[l])
  /\ UNCHANGED <<mutexVars, present, sealed, op, waited, held, locked, sessionVars>>

\* writeAutoLockReason is os.WriteFile: open with O_CREATE and O_TRUNC, ...
Truncate(l) ==
  /\ pc[l] = "truncate"
  /\ \/ /\ lock' = [lock EXCEPT ![cur[l]] = Truncated(buf[l])]
        /\ Goto(l, "write")
        /\ UNCHANGED <<todo, cur, buf>>
     \/ sealed /\ Advance(l, cur[l]) /\ UNCHANGED lock
  /\ UNCHANGED <<mutexVars, present, sealed, op, waited, held, locked, sessionVars>>

\* ... then write.  A file unlinked in between stays unlinked.
Write(l) ==
  /\ pc[l] = "write"
  /\ \/ /\ lock' = [lock EXCEPT ![cur[l]] = IF IsLocked(cur[l]) THEN AutoReason(buf[l]) ELSE @]
        /\ locked' = IF op[l] = "lock" THEN [locked EXCEPT ![l] = @ \cup {cur[l]}] ELSE locked
     \/ sealed /\ UNCHANGED <<lock, locked>>
  /\ Advance(l, cur[l])
  /\ UNCHANGED <<mutexVars, present, sealed, op, waited, held, sessionVars>>
----------------------------------------------------------------------------
(* The container, and what happens around the launchers.                   *)

\* The deferred releaseLocks: nothing to do when nothing was locked.
Cleanup(l) ==
  /\ Goto(l, IF locked[l] = {} THEN "done" ELSE "mkdir")
  /\ op' = [op EXCEPT ![l] = "unlock"]
  /\ todo' = [todo EXCEPT ![l] = locked[l]]
  /\ UNCHANGED <<mutexVars, lock, present, sealed, waited, held, cur, buf, locked, name, skipped>>

\* The runtime refuses a name that a running container has.
StartContainer(l) ==
  /\ pc[l] = "launch"
  /\ \A q \in running : name[q] # name[l]
  /\ running' = running \cup {l}
  /\ Goto(l, "wait")
  /\ UNCHANGED <<mutexVars, lock, present, sealed, op, waited, held, editVars, name, skipped>>

\* A later step, a prompt or the run itself fails, or a signal is pending.
NoContainer(l) ==
  /\ pc[l] = "launch"
  /\ Cleanup(l)
  /\ UNCHANGED running

ContainerExits(l) ==
  /\ l \in running
  /\ running' = running \ {l}
  /\ \/ pc[l] = "wait" /\ Cleanup(l)
     \/ /\ pc[l] = "crashed"
        /\ UNCHANGED <<mutexVars, lock, present, sealed, pc, op, waited, held,
                       editVars, name, skipped>>

\* A launcher is killed outright: no deferred call runs, its container may
\* live on.
Crash(l) ==
  /\ Alive(l)
  /\ Cardinality({q \in Launchers : pc[q] = "crashed"}) < MaxCrashes
  /\ QuickOwner => pc[l] # "stamp"
  /\ Goto(l, "crashed")
  /\ held' = [held EXCEPT ![l] = FALSE]
  /\ UNCHANGED <<mutexVars, lock, present, sealed, op, waited, editVars, sessionVars>>

\* The user's `git worktree lock`, which git refuses on a locked worktree.
UserLocks(w) ==
  /\ ~IsLocked(w)
  /\ lock' = [lock EXCEPT ![w] = UserReason]
  /\ UNCHANGED <<mutexVars, present, sealed, pc, op, waited, held, editVars, sessionVars>>

\* A working tree is deleted; git's metadata, lock file included, stays.
Vanish(w) ==
  /\ MayVanish /\ w \in present
  /\ present' = present \ {w}
  /\ UNCHANGED <<mutexVars, lock, sealed, pc, op, waited, held, editVars, sessionVars>>

\* From here on a change of git's metadata may fail; .git itself takes no new
\* entry and gives none up.
Seal ==
  /\ MaySeal /\ ~sealed
  /\ sealed' = TRUE
  /\ UNCHANGED <<mutexVars, lock, present, pc, op, waited, held, editVars, sessionVars>>
----------------------------------------------------------------------------
Mutex(l) ==
  \/ Mkdir(l) \/ Poll(l) \/ LookAtHolder(l)
  \/ FindStale(l) \/ FindActive(l) \/ TimeOut(l)
  \/ ReclaimOwner(l) \/ ReclaimDir(l)
  \/ CreateOwner(l) \/ StampOwner(l)
  \/ ReleaseOwner(l) \/ ReleaseDir(l)

Edit(l) ==
  \/ EditsDone(l)
  \/ \E w \in Worktrees : StartAdd(l, w) \/ StartRemove(l, w)
  \/ GitLock(l) \/ ReadForAppend(l) \/ GitUnlock(l)
  \/ Truncate(l) \/ Write(l)

Session(l) ==
  \/ Scan(l) \/ ChooseName(l)
  \/ StartContainer(l) \/ NoContainer(l) \/ ContainerExits(l)

Step(l) == Mutex(l) \/ Edit(l) \/ Session(l)

Finished ==
  /\ \A l \in Launchers : ~Alive(l)
  /\ running = {}
  /\ UNCHANGED vars

Next ==
  \/ \E l \in Launchers : Step(l) \/ Crash(l)
  \/ \E w \in Worktrees : UserLocks(w) \/ Vanish(w)
  \/ Seal
  \/ Finished

Spec == Init /\ [][Next]_vars

\* The scheduler runs every launcher, and every container ends some day.
FairSpec == Spec /\ \A l \in Launchers : WF_vars(Step(l))
----------------------------------------------------------------------------
(* Properties.                                                             *)

Places == {"scan", "name", "mkdir", "observe", "reclaimOwner", "reclaimDir",
           "create", "stamp", "edit", "gitLock", "append", "truncate", "write",
           "gitUnlock", "releaseOwner", "releaseDir", "launch", "wait",
           "crashed", "done"}

Reasons == {NoFile, UserReason} \cup [kind : {"auto", "empty"}, owners : SUBSET Names]

\* Every variable has its type.
TypeOK ==
  /\ dir \in Launchers \cup {Nobody}
  /\ stamp \in Launchers \cup {"absent", "blank"}
  /\ lock \in [Worktrees -> Reasons]
  /\ present \subseteq Worktrees /\ running \subseteq Launchers
  /\ sealed \in BOOLEAN /\ (sealed => MaySeal)
  /\ pc \in [Launchers -> Places]
  /\ op \in [Launchers -> {"lock", "unlock"}]
  /\ waited \in [Launchers -> 0..MaxWaits]
  /\ held \in [Launchers -> BOOLEAN]
  /\ todo \in [Launchers -> SUBSET Worktrees]
  /\ cur \in [Launchers -> Worktrees \cup {NoTree}]
  /\ buf \in [Launchers -> SUBSET Names]
  /\ name \in [Launchers -> Names]
  /\ locked \in [Launchers -> SUBSET Worktrees]
  /\ skipped \in [Launchers -> SUBSET Worktrees]

\* The mutex "serializes owner-list edits" (worktreelock.go:28): two launchers
\* that both came out of acquireMutex with it never overlap, however long a
\* holder takes, whoever crashed and whoever reclaimed what.  It needs both quick
\* sequences: acquireMutexContext removes what it finds at lockDir, which is no
\* longer what it looked at when another launcher got in between.
MutualExclusion == \A p, q \in Launchers : held[p] /\ held[q] => p = q

\* Why it holds when both sequences are quick and nobody stalls: the holder of the mutex made
\* the directory, its owner file tells an observer so, and nobody is past the
\* observation while it is held.
Editing == {"edit", "gitLock", "append", "truncate", "write", "gitUnlock", "releaseOwner"}
HolderOf(l) ==
  /\ dir = l
  /\ pc[l] \in Editing \cup {"create", "stamp", "releaseDir"}
  /\ pc[l] = "stamp" => stamp = "blank"
  /\ pc[l] \in Editing => stamp = l
  /\ pc[l] \in {"create", "releaseDir"} => \A q \in Launchers : pc[q] \notin Look
  /\ \A q \in Launchers : pc[q] \notin {"reclaimOwner", "reclaimDir"}
HolderInv ==
  \A l \in Launchers :
    /\ held[l] => HolderOf(l)
    /\ pc[l] \in {"create", "stamp", "releaseOwner", "releaseDir"} => held[l]

\* The reason for the whole component: while a container runs, a hidden
\* worktree its launcher locked stays locked, whatever the other launchers
\* do meanwhile (LockWorktreesContext, removeAutoLockOwner).
ProtectedWhileRunning == \A l \in running : \A w \in locked[l] : IsLocked(w)

\* An owner list about to be written still is the list on disk plus or minus
\* the writer's own name: no update is lost between the read and the write
\* (appendAutoLockOwner, removeAutoLockOwner).
NoLostUpdate ==
  \A l \in Launchers :
    pc[l] = "truncate" =>
      /\ Ours(cur[l])
      /\ lock[cur[l]].owners \ {name[l]} = buf[l] \ {name[l]}

\* A launcher in the middle of an edit has a worktree to edit.
CurrentTree ==
  \A l \in Launchers :
    pc[l] \in {"gitLock", "append", "truncate", "write", "gitUnlock"} => cur[l] \in Worktrees

\* Why owner lists are safe when holders are prompt too.  A launcher edits only
\* as the holder: the mutex passes on only from a dead process, whose owner file
\* is missing or names it, so that no waiter runs out of patience.
SerialInv ==
  /\ dir = Nobody => stamp = "absent"
  /\ dir # Nobody => held[dir] \/ (pc[dir] = "crashed" /\ stamp \in {"absent", dir})
  /\ \A l \in Launchers :
       /\ pc[l] \in {"create", "releaseDir"} => stamp = "absent"
       /\ pc[l] \in Editing => held[l]
       /\ pc[l] \in Look => dir # Nobody /\ \A q \in Launchers \ {l} : pc[q] \notin Look
       /\ pc[l] = "observe" /\ waited[l] >= MaxWaits => ~held[dir]

\* What the lock files then say of every launcher that has not begun to release:
\* its name is on each worktree it locked, or in what a writer is about to put
\* there, or a killed writer left an empty file, which nobody touches again.
Recorded(l, w) == lock[w].kind = "empty" \/ (Ours(w) /\ name[l] \in lock[w].owners)
Pending(p) ==
  /\ pc[p] \in {"truncate", "gitUnlock"} =>
       Ours(cur[p]) /\ lock[cur[p]].owners \ {name[p]} = buf[p] \ {name[p]}
  /\ pc[p] = "gitUnlock" => buf[p] = {} /\ op[p] = "unlock"
  /\ pc[p] = "write" =>
       /\ lock[cur[p]].kind = "empty" /\ lock[cur[p]].owners = buf[p]
       /\ \A q \in Launchers \ {p} :
            op[q] = "lock" /\ cur[p] \in locked[q] => name[q] \in buf[p]
  /\ pc[p] \in {"truncate", "write"} /\ op[p] = "lock" => name[p] \in buf[p]
LedgerInv ==
  \A l \in Launchers :
    /\ name[l][1] = BaseOf[l]
    /\ pc[l] \in {"scan", "name"} => locked[l] = {}
    /\ pc[l] \in {"scan", "name", "launch"} => op[l] = "lock"
    /\ l \in running => op[l] = "lock" /\ pc[l] \in {"wait", "crashed"}
    /\ op[l] = "lock" => \A w \in locked[l] : Recorded(l, w)
    /\ Pending(l)

\* HiddenWorktrees leaves out what the user locked "because it is already
\* protected" (worktree.go:37-38): it is still locked while the container runs.
SkippedStaysProtected == \A l \in running : \A w \in skipped[l] : IsLocked(w)

\* Once every launcher has ended by itself, no worktree that is still there keeps
\* an auto-lock: each owner that was added was removed, and the last one unlocked
\* (ReleaseWorktreeLocks).
NothingLeaks == (\A l \in Launchers : pc[l] = "done") => \A w \in present : ~Ours(w)

\* Why nothing leaks: every owner on the list of a worktree that is still there
\* is a launcher that will take itself off it, or was killed, and a list is never
\* left empty.  A file that is being written lists who is about to be on it.
Writing(w) == {p \in Launchers : pc[p] = "write" /\ cur[p] = w}
Owes(p, w) ==
  \/ pc[p] = "crashed" \/ p \in Writing(w)
  \/ op[p] = "lock" /\ w \in locked[p]
  \/ op[p] = "unlock" /\ w \in todo[p]
OwedInv ==
  /\ \A w \in present : Ours(w) \/ Writing(w) # {} =>
       /\ lock[w].owners # {}
       /\ \A o \in lock[w].owners : \E p \in Launchers : name[p] = o /\ Owes(p, w)
  /\ \A p \in Launchers :
       /\ pc[p] \in {"gitLock", "append"} => op[p] = "lock"
       /\ pc[p] = "done" => op[p] = "unlock"
       /\ op[p] = "unlock" /\ pc[p] \in {"releaseOwner", "releaseDir", "done"} => todo[p] = {}
       /\ pc[p] \in {"truncate", "write"} /\ op[p] = "unlock" =>
            buf[p] # {} /\ name[p] \notin buf[p]

\* A lock the user took is never changed by a launcher (addAutoLockOwner's
\* three ways, removeAutoLockOwner's early returns).
UserLockKept ==
  [][\A w \in Worktrees : lock[w].kind = "user" => lock'[w].kind = "user"]_vars

\* No launcher waits for the mutex for ever: the poll limit ("iterations before
\* giving up", worktreelock.go:25), the reclaims and the fail-safe and fail-open
\* ways out bring each one to its end.  The code keeps this only as long as git's
\* metadata can be written: a reclaim starts the count again, without a sleep,
\* whether or not it removed anything.
EveryLauncherEnds == \A l \in Launchers : <>(~Alive(l) \/ sealed)

\* The mutex of a killed launcher does not survive the next one that waits for
\* it ("so a later run can detect a stale hold", worktreelock.go:96), unless it
\* was killed between creating its owner file and filling it, or the metadata
\* became unwritable.
StaleHoldReclaimed ==
  \A p, q \in Launchers :
    (pc[p] = "crashed" /\ dir = p /\ stamp # "blank" /\ pc[q] = "mkdir")
      ~> (dir # p \/ sealed)

\* "stale launcher locks are reclaimed on a later run" (USAGE.md:68): once a
\* launcher was killed and its container is gone, a later launcher that locks
\* the same worktree gets rid of the dead owner.  Only the mutex is reclaimed.
StaleOwnersReclaimed ==
  \A p, q \in Launchers, w \in Worktrees :
    (/\ pc[p] = "crashed" /\ p \notin running
     /\ pc[q] = "mkdir" /\ op[q] = "lock" /\ w \in todo[q])
      ~> name[p] \notin lock[w].owners

\* The abstract registry this component implements, for a reader who waits for
\* a write to end: what a truncated file is about to hold counts as its owners.
Registry == INSTANCE OwnerRegistry WITH
  owners <- [w \in Worktrees |-> lock[w].owners],
  userLocked <- {w \in Worktrees : lock[w].kind = "user"},
  active <- {name[l] : l \in running}

ImplementsRegistry == Registry!Spec
============================================================================
