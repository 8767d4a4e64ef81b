------------------------- MODULE WorktreeLockProofs -------------------------
(***************************************************************************)
(* What holds of WorktreeLock for every number of launchers and worktrees, *)
(* and that it implements OwnerRegistry.                                   *)
(***************************************************************************)
EXTENDS WorktreeLock, FiniteSetTheorems, TLAPS

TypeInv == TypeOK /\ CurrentTree

\* There is a first name to choose as soon as there is a launcher to choose it.
LEMMA FirstName == \A l \in Launchers : <<BaseOf[l], 1>> \in Names
<1> SUFFICES ASSUME NEW l \in Launchers PROVE 1 \in 1..Cardinality(Launchers)
  BY ConstantsAssumption DEF Names
<1>1. Cardinality(Launchers) \in Nat
  BY ConstantsAssumption, FS_CardinalityType
<1>2. Cardinality(Launchers) # 0
  BY ConstantsAssumption, FS_EmptySet
<1> QED BY <1>1, <1>2

\* The four contents of a lock file are of the type of lock files.
LEMMA ReasonsTyped ==
  /\ NoFile \in Reasons /\ UserReason \in Reasons
  /\ \A S \in SUBSET Names : AutoReason(S) \in Reasons /\ Truncated(S) \in Reasons
  /\ \A r \in Reasons : r.owners \subseteq Names
BY DEF Reasons, NoFile, Truncated, UserReason, AutoReason

\* Types hold at the start.
LEMMA InitTyped == Init => TypeInv
<1> SUFFICES ASSUME Init PROVE TypeInv
  OBVIOUS
<1>1. name \in [Launchers -> Names]
  BY FirstName DEF Init
<1>2. sealed \in BOOLEAN /\ (sealed => MaySeal)
  BY DEF Init
<1> QED BY <1>1, <1>2, ReasonsTyped, ConstantsAssumption
        DEF Init, TypeInv, TypeOK, CurrentTree, Places

\* Mutex steps keep the types.
LEMMA MutexTyped ==
  ASSUME TypeInv, NEW l \in Launchers, Mutex(l) PROVE TypeInv'
<1> USE ConstantsAssumption DEF TypeInv, TypeOK, CurrentTree, Places, Goto,
        editVars, sessionVars, mutexVars
<1>1. CASE Mkdir(l) BY <1>1 DEF Mkdir, Free
<1>2. CASE Poll(l) BY <1>2 DEF Poll, Free, Sleep
<1>3. CASE LookAtHolder(l) BY <1>3 DEF LookAtHolder, Free
<1>4. CASE FindStale(l) BY <1>4 DEF FindStale
<1>5. CASE FindActive(l) BY <1>5 DEF FindActive, Sleep
<1>6. CASE TimeOut(l) BY <1>6 DEF TimeOut
<1>7. CASE ReclaimOwner(l) BY <1>7 DEF ReclaimOwner, RemoveOwner
<1>8. CASE ReclaimDir(l) BY <1>8 DEF ReclaimDir, RemoveDir
<1>9. CASE CreateOwner(l) BY <1>9 DEF CreateOwner
<1>10. CASE StampOwner(l) BY <1>10 DEF StampOwner
<1>11. CASE ReleaseOwner(l) BY <1>11 DEF ReleaseOwner, RemoveOwner
<1>12. CASE ReleaseDir(l) BY <1>12 DEF ReleaseDir, RemoveDir
<1> QED BY <1>1, <1>2, <1>3, <1>4, <1>5, <1>6, <1>7, <1>8, <1>9, <1>10,
           <1>11, <1>12 DEF Mutex

\* Owner-list edits keep the types.
LEMMA EditTyped ==
  ASSUME TypeInv, NEW l \in Launchers, Edit(l) PROVE TypeInv'
<1> USE DEF TypeInv, TypeOK, CurrentTree, Places, Goto, Advance,
        editVars, sessionVars, mutexVars
<1>1. CASE EditsDone(l) BY <1>1 DEF EditsDone
<1>2. ASSUME NEW w \in Worktrees, StartAdd(l, w) PROVE TypeInv'
  BY <1>2 DEF StartAdd
<1>3. ASSUME NEW w \in Worktrees, StartRemove(l, w) PROVE TypeInv'
  <2>1. lock[w].owners \subseteq Names
    BY ReasonsTyped
  <2> QED BY <1>3, <2>1 DEF StartRemove, Remaining
<1>4. CASE GitLock(l)
  <2>1. cur[l] \in Worktrees
    BY <1>4 DEF GitLock
  <2>2. AutoReason({name[l]}) \in Reasons
    BY ReasonsTyped
  <2>3. CASE /\ lock' = [lock EXCEPT ![cur[l]] = AutoReason({name[l]})]
             /\ locked' = [locked EXCEPT ![l] = @ \cup {cur[l]}]
             /\ Advance(l, cur[l])
    <3>1. lock' \in [Worktrees -> Reasons]
      BY <2>1, <2>2, <2>3
    <3> QED BY <1>4, <2>1, <2>3, <3>1 DEF GitLock
  <2>4. CASE Goto(l, "append") /\ UNCHANGED <<lock, editVars>>
    BY <1>4, <2>1, <2>4 DEF GitLock
  <2> QED BY <1>4, <2>3, <2>4 DEF GitLock
<1>5. CASE ReadForAppend(l)
  <2>1. cur[l] \in Worktrees
    BY <1>5 DEF ReadForAppend
  <2>2. lock[cur[l]].owners \subseteq Names
    BY <2>1, ReasonsTyped
  <2> QED BY <1>5, <2>1, <2>2 DEF ReadForAppend
<1>6. CASE GitUnlock(l)
  BY <1>6, ReasonsTyped DEF GitUnlock
<1>7. CASE Truncate(l)
  <2>1. Truncated(buf[l]) \in Reasons
    BY ReasonsTyped
  <2> QED BY <1>7, <2>1 DEF Truncate
<1>8. CASE Write(l)
  <2>1. cur[l] \in Worktrees
    BY <1>8 DEF Write
  <2>2. AutoReason(buf[l]) \in Reasons
    BY ReasonsTyped
  <2> QED BY <1>8, <2>1, <2>2 DEF Write
<1> QED BY <1>1, <1>2, <1>3, <1>4, <1>5, <1>6, <1>7, <1>8 DEF Edit

\* Scanning, naming and running a container keep the types.
LEMMA SessionTyped ==
  ASSUME TypeInv, NEW l \in Launchers, Session(l) \/ Crash(l) PROVE TypeInv'
<1> USE ConstantsAssumption DEF TypeInv, TypeOK, CurrentTree, Places, Goto,
        Cleanup, editVars, sessionVars, mutexVars
<1>1. CASE Scan(l) BY <1>1 DEF Scan
<1>2. CASE ChooseName(l)
  <2>1. \A n \in 1..Cardinality(Launchers) : <<BaseOf[l], n>> \in Names
    BY DEF Names
  <2> QED BY <1>2, <2>1 DEF ChooseName
<1>3. CASE StartContainer(l) BY <1>3 DEF StartContainer
<1>4. CASE NoContainer(l) BY <1>4 DEF NoContainer
<1>5. CASE ContainerExits(l) BY <1>5 DEF ContainerExits
<1>6. CASE Crash(l) BY <1>6 DEF Crash
<1> QED BY <1>1, <1>2, <1>3, <1>4, <1>5, <1>6 DEF Session

\* User locks, vanished working trees and metadata gone read-only keep the types.
LEMMA WorldTyped ==
  ASSUME TypeInv, Seal \/ \E w \in Worktrees : UserLocks(w) \/ Vanish(w) PROVE TypeInv'
<1> USE DEF TypeInv, TypeOK, CurrentTree, editVars, sessionVars, mutexVars
<1>1. ASSUME NEW w \in Worktrees, UserLocks(w) PROVE TypeInv'
  BY <1>1, ReasonsTyped DEF UserLocks
<1>2. ASSUME NEW w \in Worktrees, Vanish(w) PROVE TypeInv'
  BY <1>2 DEF Vanish
<1>3. CASE Seal
  BY <1>3 DEF Seal
<1> QED BY <1>1, <1>2, <1>3

\* So does doing nothing.
LEMMA StutterTyped == ASSUME TypeInv, UNCHANGED vars PROVE TypeInv'
BY DEF TypeInv, TypeOK, CurrentTree, vars, editVars, sessionVars, mutexVars

\* Every variable keeps its type, and a launcher in the middle of an owner-list
\* edit has a worktree to edit, for any launchers, worktrees, pace, crashes and
\* whatever git's metadata refuses.
THEOREM TypeCorrect == Spec => [](TypeOK /\ CurrentTree)
<1>1. TypeInv /\ [Next]_vars => TypeInv'
  BY MutexTyped, EditTyped, SessionTyped, WorldTyped, StutterTyped
     DEF Next, Step, Finished
<1> QED BY InitTyped, <1>1, PTL DEF Spec, TypeInv
----------------------------------------------------------------------------
(* Mutual exclusion, where nobody is met half-way through a short sequence *)
(* and no live holder is taken for dead.                                   *)

Polite == QuickOwner /\ QuickReclaim /\ Pace # "stalled"

\* The directory has one maker, so there is one holder.
LEMMA HolderAlone ==
  ASSUME TypeOK, HolderInv, NEW p \in Launchers, NEW q \in Launchers,
         held[p], held[q]
  PROVE p = q
BY DEF HolderInv, HolderOf

\* Mutex steps keep the holder's directory and owner file.
LEMMA MutexHolder ==
  ASSUME Polite, ~sealed, TypeOK, HolderInv, NEW l \in Launchers, Mutex(l)
  PROVE HolderInv'
<1> USE ConstantsAssumption DEF Polite, TypeOK, HolderInv, HolderOf, Places, Goto,
        Look, Editing, mutexVars, editVars, sessionVars
<1>1. CASE Mkdir(l) BY <1>1 DEF Mkdir, Free, Undisturbed
<1>2. CASE Poll(l) BY <1>2 DEF Poll, Free, Sleep
<1>3. CASE LookAtHolder(l) BY <1>3 DEF LookAtHolder, Free, Undisturbed, NobodyHalfway
<1>4. CASE FindStale(l)
  <2>1. \A p \in Launchers : ~held[p]
    BY <1>4 DEF FindStale, Stale, MaybeExpired, Alive
  <2> QED BY <1>4, <2>1 DEF FindStale
<1>5. CASE FindActive(l) BY <1>5 DEF FindActive, Sleep
<1>6. CASE TimeOut(l) BY <1>6 DEF TimeOut
<1>7. CASE ReclaimOwner(l) BY <1>7 DEF ReclaimOwner, RemoveOwner
<1>8. CASE ReclaimDir(l) BY <1>8 DEF ReclaimDir, RemoveDir
<1>9. CASE CreateOwner(l)
  <2>1. held[l] /\ dir = l
    BY <1>9 DEF CreateOwner
  <2> QED BY <1>9, <2>1 DEF CreateOwner, Undisturbed
<1>10. CASE StampOwner(l) BY <1>10 DEF StampOwner, Undisturbed
<1>11. CASE ReleaseOwner(l) BY <1>11 DEF ReleaseOwner, RemoveOwner, Undisturbed
<1>12. CASE ReleaseDir(l) BY <1>12 DEF ReleaseDir, RemoveDir, Undisturbed
<1> QED BY <1>1, <1>2, <1>3, <1>4, <1>5, <1>6, <1>7, <1>8, <1>9, <1>10,
           <1>11, <1>12 DEF Mutex

\* Owner-list edits leave the mutex alone.
LEMMA EditHolder ==
  ASSUME TypeOK, HolderInv, NEW l \in Launchers, Edit(l) PROVE HolderInv'
<1> USE DEF TypeOK, HolderInv, HolderOf, Places, Goto, Look, Editing, Advance,
        mutexVars, editVars, sessionVars
<1>1. CASE EditsDone(l) BY <1>1 DEF EditsDone
<1>2. ASSUME NEW w \in Worktrees, StartAdd(l, w) PROVE HolderInv'
  BY <1>2 DEF StartAdd
<1>3. ASSUME NEW w \in Worktrees, StartRemove(l, w) PROVE HolderInv'
  BY <1>3 DEF StartRemove, Remaining
<1>4. CASE GitLock(l) BY <1>4 DEF GitLock
<1>5. CASE ReadForAppend(l) BY <1>5 DEF ReadForAppend
<1>6. CASE GitUnlock(l) BY <1>6 DEF GitUnlock
<1>7. CASE Truncate(l) BY <1>7 DEF Truncate
<1>8. CASE Write(l) BY <1>8 DEF Write
<1> QED BY <1>1, <1>2, <1>3, <1>4, <1>5, <1>6, <1>7, <1>8 DEF Edit

\* So do the steps around the container.
LEMMA SessionHolder ==
  ASSUME TypeOK, HolderInv, NEW l \in Launchers, Session(l) \/ Crash(l)
  PROVE HolderInv'
<1> USE DEF TypeOK, HolderInv, HolderOf, Places, Goto, Look, Editing, Cleanup,
        mutexVars, editVars, sessionVars
<1>1. CASE Scan(l) BY <1>1 DEF Scan
<1>2. CASE ChooseName(l) BY <1>2 DEF ChooseName
<1>3. CASE StartContainer(l) BY <1>3 DEF StartContainer
<1>4. CASE NoContainer(l) BY <1>4 DEF NoContainer
<1>5. CASE ContainerExits(l) BY <1>5 DEF ContainerExits
<1>6. CASE Crash(l) BY <1>6 DEF Crash
<1> QED BY <1>1, <1>2, <1>3, <1>4, <1>5, <1>6 DEF Session

\* A kill ends the hold; the rest of the world leaves the mutex alone.
LEMMA OthersHolder ==
  ASSUME HolderInv,
         UNCHANGED vars \/ \E w \in Worktrees : UserLocks(w) \/ Vanish(w)
  PROVE HolderInv'
BY DEF HolderInv, HolderOf, UserLocks, Vanish, vars, mutexVars, editVars, sessionVars

\* While git's metadata refuses changes nobody gets the mutex.
LEMMA NoneAcquires ==
  ASSUME sealed, TypeOK, MutualExclusion, NEW l \in Launchers, Step(l) \/ Crash(l)
  PROVE MutualExclusion'
<1>1. \A p \in Launchers : held'[p] => held[p]
  BY DEF Step, Mutex, Mkdir, Free, Poll, LookAtHolder, FindStale, FindActive, TimeOut,
     ReclaimOwner, ReclaimDir, CreateOwner, StampOwner, ReleaseOwner, ReleaseDir,
     Edit, EditsDone, StartAdd, StartRemove, GitLock, ReadForAppend, GitUnlock, Truncate,
     Write, Session, Scan, ChooseName, StartContainer, NoContainer, Cleanup,
     ContainerExits, Crash, TypeOK
<1> QED BY <1>1 DEF MutualExclusion

\* Whoever came out of acquireMutex with the mutex is alone, whatever the number
\* of launchers, crashes and reclaims, and whatever git's metadata refuses - as
\* long as the two sequences of system calls the code takes for instantaneous
\* are, and no live holder is so slow that the 30 s age limit takes it for dead.
THEOREM Exclusion == Polite => (Spec => []MutualExclusion)
<1> SUFFICES ASSUME Polite PROVE Spec => []MutualExclusion
  OBVIOUS
<1> DEFINE IInv == MutualExclusion /\ (sealed \/ HolderInv)
<1>1. Init => IInv
  BY DEF Init, HolderInv, HolderOf, MutualExclusion
<1>2. ASSUME TypeOK, TypeOK', IInv, [Next]_vars PROVE IInv'
  <2>1. CASE Seal
    BY <1>2, <2>1 DEF Seal, MutualExclusion
  <2>2. CASE UNCHANGED vars \/ \E w \in Worktrees : UserLocks(w) \/ Vanish(w)
    <3>1. held' = held /\ sealed' = sealed
      BY <2>2 DEF UserLocks, Vanish, vars
    <3> QED BY <1>2, <2>2, <3>1, OthersHolder DEF MutualExclusion
  <2>3. ASSUME NEW l \in Launchers, Step(l) \/ Crash(l) PROVE IInv'
    <3>1. sealed' = sealed
      BY <2>3 DEF Step, Mutex, Mkdir, Poll, LookAtHolder, FindStale, FindActive, TimeOut,
         ReclaimOwner, ReclaimDir, CreateOwner, StampOwner, ReleaseOwner, ReleaseDir,
         Edit, EditsDone, StartAdd, StartRemove, GitLock, ReadForAppend, GitUnlock,
         Truncate, Write, Session, Scan, ChooseName, StartContainer, NoContainer,
         Cleanup, ContainerExits, Crash
    <3>2. CASE sealed
      BY <1>2, <2>3, <3>1, <3>2, NoneAcquires
    <3>3. CASE ~sealed
      <4>1. HolderInv'
        BY <1>2, <2>3, <3>3, MutexHolder, EditHolder, SessionHolder DEF Step
      <4> QED BY <1>2, <4>1, HolderAlone DEF MutualExclusion, TypeOK, HolderInv, HolderOf
    <3> QED BY <3>2, <3>3
  <2> QED BY <1>2, <2>1, <2>2, <2>3 DEF Next, Finished
<1> QED BY <1>1, <1>2, TypeCorrect, PTL DEF Spec
----------------------------------------------------------------------------
(* The owner lists, where holders are prompt too and no two launchers can  *)
(* choose one name.                                                        *)

Prompt == QuickOwner /\ QuickReclaim /\ Pace = "prompt" /\ ~MaySeal
Base == TypeInv /\ HolderInv /\ SerialInv /\ ~MaySeal
OwnNames == \A p, q \in Launchers : BaseOf[p] = BaseOf[q] => p = q

\* Prompt holders are never overtaken: the mutex passes on from the dead only.
LEMMA MutexSerial ==
  ASSUME Prompt, TypeOK, HolderInv, SerialInv, NEW l \in Launchers, Mutex(l)
  PROVE SerialInv'
<1> USE ConstantsAssumption DEF Prompt, TypeOK, HolderInv, HolderOf, SerialInv,
        Places, Goto, Look, Editing, mutexVars, editVars, sessionVars
<1>1. CASE Mkdir(l) BY <1>1 DEF Mkdir, Free, Undisturbed
<1>2. CASE Poll(l) BY <1>2 DEF Poll, Free, Sleep
<1>3. CASE LookAtHolder(l) BY <1>3 DEF LookAtHolder, Free, Undisturbed, NobodyHalfway
<1>4. CASE FindStale(l) BY <1>4 DEF FindStale
<1>5. CASE FindActive(l) BY <1>5 DEF FindActive, Sleep
<1>6. CASE TimeOut(l)
  <2>1. dir # Nobody /\ ~held[dir]
    BY <1>6 DEF TimeOut
  <2>2. Stale
    BY <2>1 DEF Stale, Alive
  <2> QED BY <1>6, <2>2 DEF TimeOut
<1>7. CASE ReclaimOwner(l) BY <1>7 DEF ReclaimOwner, RemoveOwner
<1>8. CASE ReclaimDir(l) BY <1>8 DEF ReclaimDir, RemoveDir
<1>9. CASE CreateOwner(l)
  <2>1. held[l] /\ dir = l
    BY <1>9 DEF CreateOwner
  <2> QED BY <1>9, <2>1, HolderAlone DEF CreateOwner, Undisturbed
<1>10. CASE StampOwner(l)
  <2>1. held[l] /\ dir = l
    BY <1>10 DEF StampOwner
  <2> QED BY <1>10, <2>1, HolderAlone DEF StampOwner, Undisturbed
<1>11. CASE ReleaseOwner(l) BY <1>11, HolderAlone DEF ReleaseOwner, RemoveOwner, Undisturbed
<1>12. CASE ReleaseDir(l) BY <1>12, HolderAlone DEF ReleaseDir, RemoveDir, Undisturbed
<1> QED BY <1>1, <1>2, <1>3, <1>4, <1>5, <1>6, <1>7, <1>8, <1>9, <1>10,
           <1>11, <1>12 DEF Mutex

\* An editor stays the holder until it releases.
LEMMA EditSerial ==
  ASSUME TypeOK, HolderInv, SerialInv, NEW l \in Launchers, Edit(l) PROVE SerialInv'
<1> USE DEF TypeOK, HolderInv, HolderOf, SerialInv, Places, Goto, Look, Editing,
        Advance, mutexVars, editVars, sessionVars
<1>1. CASE EditsDone(l) BY <1>1 DEF EditsDone
<1>2. ASSUME NEW w \in Worktrees, StartAdd(l, w) PROVE SerialInv'
  BY <1>2 DEF StartAdd
<1>3. ASSUME NEW w \in Worktrees, StartRemove(l, w) PROVE SerialInv'
  BY <1>3 DEF StartRemove, Remaining
<1>4. CASE GitLock(l) BY <1>4 DEF GitLock
<1>5. CASE ReadForAppend(l) BY <1>5 DEF ReadForAppend
<1>6. CASE GitUnlock(l) BY <1>6 DEF GitUnlock
<1>7. CASE Truncate(l) BY <1>7 DEF Truncate
<1>8. CASE Write(l) BY <1>8 DEF Write
<1> QED BY <1>1, <1>2, <1>3, <1>4, <1>5, <1>6, <1>7, <1>8 DEF Edit

\* Nobody enters an edit but through the mutex.
LEMMA SessionSerial ==
  ASSUME Prompt, TypeOK, HolderInv, SerialInv, NEW l \in Launchers, Session(l) \/ Crash(l)
  PROVE SerialInv'
<1> USE DEF Prompt, TypeOK, HolderInv, HolderOf, SerialInv, Places, Goto, Look, Editing,
        Cleanup, mutexVars, editVars, sessionVars
<1>1. CASE Scan(l) BY <1>1 DEF Scan
<1>2. CASE ChooseName(l) BY <1>2 DEF ChooseName
<1>3. CASE StartContainer(l) BY <1>3 DEF StartContainer
<1>4. CASE NoContainer(l) BY <1>4 DEF NoContainer
<1>5. CASE ContainerExits(l) BY <1>5 DEF ContainerExits
<1>6. CASE Crash(l) BY <1>6 DEF Crash, Alive
<1> QED BY <1>1, <1>2, <1>3, <1>4, <1>5, <1>6 DEF Session

\* A killed holder leaves a directory that the next waiter may take.
LEMMA OthersSerial ==
  ASSUME SerialInv,
         UNCHANGED vars \/ \E w \in Worktrees : UserLocks(w) \/ Vanish(w)
  PROVE SerialInv'
BY DEF SerialInv, UserLocks, Vanish, vars, mutexVars, editVars, sessionVars

\* With prompt holders a launcher edits an owner list only while it holds the
\* mutex: no waiter ever gives up on a live holder or on a dead one.
THEOREM SerialEdits == Prompt => (Spec => []Base)
<1> SUFFICES ASSUME Prompt PROVE Spec => []Base
  OBVIOUS
<1>1. Init => HolderInv /\ SerialInv
  BY DEF Init, HolderInv, HolderOf, SerialInv, Editing, Look
<1>2. Polite
  BY DEF Prompt, Polite
<1>0. ~Seal /\ (TypeOK => ~sealed)
  BY DEF Prompt, Seal, TypeOK
<1>3. TypeOK /\ HolderInv /\ [Next]_vars => HolderInv'
  BY <1>0, <1>2, MutexHolder, EditHolder, SessionHolder, OthersHolder
     DEF Next, Step, Finished
<1>4. TypeOK /\ HolderInv /\ SerialInv /\ [Next]_vars => SerialInv'
  BY <1>0, MutexSerial, EditSerial, SessionSerial, OthersSerial DEF Next, Step, Finished
<1>5. TypeInv /\ HolderInv /\ SerialInv => Base
  BY DEF Prompt, Base
<1> QED BY <1>1, <1>3, <1>4, <1>5, TypeCorrect, PTL DEF Spec, TypeInv

\* The editors' own places: whoever is there holds the mutex, so is alone.
LEMMA EditorAlone ==
  ASSUME Base, NEW p \in Launchers, NEW q \in Launchers,
         pc[p] \in Editing, pc[q] \in Editing
  PROVE p = q
BY HolderAlone DEF Base, TypeInv, SerialInv

\* Under the same conditions git's metadata takes every change.
LEMMA Writable == ASSUME Base PROVE ~sealed
BY DEF Base, TypeInv, TypeOK

\* Different base names give different owner tokens.
LEMMA NamesDiffer ==
  ASSUME OwnNames, LedgerInv, NEW p \in Launchers, NEW q \in Launchers, p # q
  PROVE name[p] # name[q]
BY DEF OwnNames, LedgerInv

\* A step that leaves lock files, names, locks taken and edits in progress
\* alone, and that starts no container and no writing.
LEMMA LedgerFrame ==
  ASSUME TypeOK, LedgerInv, NEW l \in Launchers,
         UNCHANGED <<lock, op, cur, buf, name, locked, running>>,
         NEW where, pc' = [pc EXCEPT ![l] = where],
         where \notin {"scan", "name", "truncate", "gitUnlock", "write"},
         where = "launch" => op[l] = "lock",
         l \in running => where = "crashed"
  PROVE LedgerInv'
BY DEF TypeOK, LedgerInv, Pending, Recorded, Ours

\* Mutex steps touch no owner list.
LEMMA MutexLedger ==
  ASSUME Base, LedgerInv, NEW l \in Launchers, Mutex(l) PROVE LedgerInv'
<1> USE DEF Base, TypeInv
<1>1. UNCHANGED <<lock, op, cur, buf, name, locked, running>>
  BY DEF Mutex, Mkdir, Poll, LookAtHolder, FindStale, FindActive, TimeOut, ReclaimOwner,
         ReclaimDir, CreateOwner, StampOwner, ReleaseOwner, ReleaseDir,
         editVars, sessionVars
<1>2. l \notin running
  BY DEF LedgerInv, Mutex, Mkdir, Poll, LookAtHolder, FindStale, FindActive, TimeOut,
         ReclaimOwner, ReclaimDir, CreateOwner, StampOwner, ReleaseOwner, ReleaseDir
<1>3. pc' = pc \/ \E where \in {"create", "observe", "reclaimOwner", "mkdir", "edit",
                                "done", "reclaimDir", "stamp", "releaseDir", "launch"} :
                    (where = "launch" => op[l] = "lock") /\ pc' = [pc EXCEPT ![l] = where]
  BY DEF Mutex, Mkdir, Poll, LookAtHolder, FindStale, FindActive, TimeOut, ReclaimOwner,
         ReclaimDir, CreateOwner, StampOwner, ReleaseOwner, ReleaseDir, Goto
<1>4. CASE pc' = pc
  BY <1>1, <1>4 DEF LedgerInv, Pending, Recorded, Ours
<1> QED BY <1>1, <1>2, <1>3, <1>4, LedgerFrame

\* Edits by the holder keep every other owner on the lists.
LEMMA EditLedger ==
  ASSUME OwnNames, Base, LedgerInv, NEW l \in Launchers, Edit(l) PROVE LedgerInv'
<1> USE DEF Base, TypeInv, TypeOK, CurrentTree, LedgerInv, Pending, Recorded, Ours,
        IsLocked, Goto, Advance, Editing, NoFile, Truncated, AutoReason,
        mutexVars, editVars, sessionVars
<1>1. CASE EditsDone(l)
  BY <1>1 DEF EditsDone, SerialInv
<1>2. ASSUME NEW w \in Worktrees, StartAdd(l, w) PROVE LedgerInv'
  BY <1>2 DEF StartAdd
<1>3. ASSUME NEW w \in Worktrees, StartRemove(l, w) PROVE LedgerInv'
  BY <1>3 DEF StartRemove, Remaining
<1>4. CASE GitLock(l)
  <2>1. \A q \in Launchers \ {l} : pc[q] \notin Editing
    BY <1>4, EditorAlone DEF GitLock
  <2>2. CASE IsLocked(cur[l])
    BY <1>4, <2>2 DEF GitLock
  <2>3. CASE ~IsLocked(cur[l])
    <3>1. cur[l] \in Worktrees /\ pc[l] = "gitLock" /\ lock[cur[l]].kind = "none"
      BY <1>4, <2>3 DEF GitLock
    <3>2. /\ lock' = [lock EXCEPT ![cur[l]] = AutoReason({name[l]})]
          /\ locked' = [locked EXCEPT ![l] = @ \cup {cur[l]}]
          /\ UNCHANGED <<op, name, running>>
          /\ pc' = [pc EXCEPT ![l] = "edit"]
          /\ cur' = [cur EXCEPT ![l] = NoTree] /\ buf' = [buf EXCEPT ![l] = {}]
      BY <1>4, <2>3 DEF GitLock
    <3>3. ASSUME NEW q \in Launchers, op[q] = "lock", NEW w \in locked'[q]
          PROVE Recorded(q, w)'
      <4>1. CASE w = cur[l]
        <5>1. q = l
          BY <3>1, <3>2, <3>3, <4>1
        <5> QED BY <3>1, <3>2, <4>1, <5>1
      <4>2. CASE w # cur[l]
        BY <3>1, <3>2, <3>3, <4>2
      <4> QED BY <4>1, <4>2
    <3>4. ASSUME NEW q \in Launchers PROVE Pending(q)'
      BY <2>1, <3>1, <3>2
    <3>5. l \notin running
      BY <3>1
    <3> QED BY <3>1, <3>2, <3>3, <3>4, <3>5
  <2> QED BY <2>2, <2>3
<1>5. CASE ReadForAppend(l)
  BY <1>5, SMTT(30) DEF ReadForAppend
<1>6. CASE GitUnlock(l)
  BY <1>6, Writable, EditorAlone, NamesDiffer DEF GitUnlock
<1>7. CASE Truncate(l)
  <2>1. /\ pc[l] = "truncate"
        /\ lock' = [lock EXCEPT ![cur[l]] = Truncated(buf[l])]
        /\ pc' = [pc EXCEPT ![l] = "write"]
        /\ UNCHANGED <<op, cur, buf, name, locked, running>>
    BY <1>7, Writable DEF Truncate
  <2> QED BY <2>1, EditorAlone, NamesDiffer
<1>8. CASE Write(l)
  BY <1>8, EditorAlone DEF Write
<1> QED BY <1>1, <1>2, <1>3, <1>4, <1>5, <1>6, <1>7, <1>8 DEF Edit

\* A container starts and ends with its owner on the lists.
LEMMA SessionLedger ==
  ASSUME Base, LedgerInv, NEW l \in Launchers, Session(l) \/ Crash(l) PROVE LedgerInv'
<1> USE DEF Base, TypeInv, TypeOK, LedgerInv, Pending, Recorded, Ours, Goto, Cleanup,
        mutexVars, editVars, sessionVars
<1>1. CASE Scan(l) BY <1>1 DEF Scan
<1>2. CASE ChooseName(l) BY <1>2 DEF ChooseName, Names
<1>3. CASE StartContainer(l) BY <1>3 DEF StartContainer
<1>4. CASE NoContainer(l) BY <1>4 DEF NoContainer
<1>5. CASE ContainerExits(l) BY <1>5 DEF ContainerExits
<1>6. CASE Crash(l) BY <1>6, LedgerFrame DEF Crash
<1> QED BY <1>1, <1>2, <1>3, <1>4, <1>5, <1>6 DEF Session

\* Kills and user locks take no owner off a list.
LEMMA OthersLedger ==
  ASSUME Base, LedgerInv,
         UNCHANGED vars \/ \E w \in Worktrees : UserLocks(w) \/ Vanish(w)
  PROVE LedgerInv'
<1> USE DEF LedgerInv, Pending, Recorded, Ours, vars, mutexVars, editVars, sessionVars
<1>1. CASE UNCHANGED vars BY <1>1
<1>2. ASSUME NEW w \in Worktrees, UserLocks(w) PROVE LedgerInv'
  BY <1>2 DEF UserLocks, IsLocked, UserReason, Base, TypeInv, TypeOK, CurrentTree
<1>3. ASSUME NEW w \in Worktrees, Vanish(w) PROVE LedgerInv'
  BY <1>3 DEF Vanish
<1> QED BY <1>1, <1>2, <1>3

\* The purpose of the component: while a container runs, every hidden worktree
\* its launcher locked stays locked; no owner is lost between a read and the
\* write that follows it - for any number of launchers, worktrees and kills.
THEOREM Protection ==
  Prompt /\ OwnNames => (Spec => [](ProtectedWhileRunning /\ NoLostUpdate))
<1> SUFFICES ASSUME Prompt, OwnNames
             PROVE Spec => [](ProtectedWhileRunning /\ NoLostUpdate)
  OBVIOUS
<1>1. Init => LedgerInv
  BY DEF Init, LedgerInv, Pending
<1>2. Base /\ LedgerInv /\ [Next]_vars => LedgerInv'
  BY MutexLedger, EditLedger, SessionLedger, OthersLedger
     DEF Next, Step, Finished, Seal, Base
<1>3. TypeOK /\ LedgerInv => ProtectedWhileRunning /\ NoLostUpdate
  BY DEF LedgerInv, Pending, Recorded, ProtectedWhileRunning, NoLostUpdate,
         Ours, IsLocked, TypeOK
<1> QED BY <1>1, <1>2, <1>3, SerialEdits, PTL DEF Spec, Base, TypeInv

\* No launcher ever changes a lock of the user's, under the same conditions.
THEOREM UsersLock == Prompt /\ OwnNames => (Spec => UserLockKept)
<1> SUFFICES ASSUME Prompt, OwnNames PROVE Spec => UserLockKept
  OBVIOUS
<1>1. Init => LedgerInv
  BY DEF Init, LedgerInv, Pending
<1>2. Base /\ LedgerInv /\ [Next]_vars => LedgerInv'
  BY MutexLedger, EditLedger, SessionLedger, OthersLedger
     DEF Next, Step, Finished, Seal, Base
<1>3. ASSUME Base, LedgerInv, [Next]_vars, NEW w \in Worktrees, lock[w].kind = "user"
      PROVE lock'[w].kind = "user"
  <2> USE <1>3 DEF Base, TypeInv, TypeOK, mutexVars, editVars, sessionVars, Ours, IsLocked
  <2>1. CASE lock' = lock
    BY <2>1
  <2>2. ASSUME NEW l \in Launchers, GitLock(l) PROVE lock'[w].kind = "user"
    BY <2>2 DEF GitLock
  <2>3. ASSUME NEW l \in Launchers, GitUnlock(l) PROVE lock'[w].kind = "user"
    BY <2>3 DEF GitUnlock, LedgerInv, Pending
  <2>4. ASSUME NEW l \in Launchers, Truncate(l) PROVE lock'[w].kind = "user"
    BY <2>4 DEF Truncate, LedgerInv, Pending
  <2>5. ASSUME NEW l \in Launchers, Write(l) PROVE lock'[w].kind = "user"
    BY <2>5 DEF Write, LedgerInv, Pending
  <2>6. ASSUME NEW v \in Worktrees, UserLocks(v) PROVE lock'[w].kind = "user"
    BY <2>6 DEF UserLocks, UserReason
  <2>7. ASSUME NEW l \in Launchers, Mutex(l) \/ Session(l) \/ Crash(l) PROVE lock' = lock
    BY <2>7 DEF Mutex, Mkdir, Poll, LookAtHolder, FindStale, FindActive, TimeOut,
       ReclaimOwner, ReclaimDir, CreateOwner, StampOwner, ReleaseOwner, ReleaseDir,
       Session, Scan, ChooseName, StartContainer, NoContainer, Cleanup, ContainerExits,
       Crash
  <2>8. ASSUME NEW l \in Launchers,
               EditsDone(l) \/ ReadForAppend(l)
                 \/ \E v \in Worktrees : StartAdd(l, v) \/ StartRemove(l, v)
        PROVE lock' = lock
    BY <2>8 DEF EditsDone, ReadForAppend, StartAdd, StartRemove
  <2>9. ASSUME UNCHANGED vars \/ \E v \in Worktrees : Vanish(v) PROVE lock' = lock
    BY <2>9 DEF vars, Vanish
  <2>10. ~Seal
    BY DEF Seal
  <2> QED BY <2>1, <2>2, <2>3, <2>4, <2>5, <2>6, <2>7, <2>8, <2>9, <2>10
          DEF Next, Step, Edit, Finished
<1>4. Base /\ LedgerInv /\ [Next]_vars
        => [\A w \in Worktrees : lock[w].kind = "user" => lock'[w].kind = "user"]_vars
  BY <1>3
<1> QED BY <1>1, <1>2, <1>4, SerialEdits, PTL DEF Spec, Base, TypeInv, UserLockKept
----------------------------------------------------------------------------
(* Nothing leaks: whoever is on an owner list will take itself off it.     *)

\* A step that leaves lock files, names and edits in progress alone, and takes a
\* launcher neither into a write nor, with a worktree to unlock, to its end.
LEMMA OwedFrame ==
  ASSUME TypeOK, OwedInv, NEW l \in Launchers,
         UNCHANGED <<lock, present, op, cur, buf, name, locked, todo>>,
         NEW where, pc' = [pc EXCEPT ![l] = where], pc[l] # "write", pc[l] # "crashed",
         where \notin {"gitLock", "append", "truncate", "write"},
         where = "done" => op[l] = "unlock",
         op[l] = "unlock" /\ where \in {"releaseOwner", "releaseDir", "done"} => todo[l] = {}
  PROVE OwedInv'
<1>1. \A w \in Worktrees : Writing(w)' = Writing(w)
  BY DEF Writing, TypeOK
<1>2. \A p \in Launchers, w \in Worktrees : Owes(p, w) => Owes(p, w)'
  BY <1>1 DEF Owes, TypeOK
<1>3. \A w \in present : w \in Worktrees
  BY DEF TypeOK
<1> QED BY <1>1, <1>2, <1>3 DEF OwedInv, Ours, TypeOK

\* Mutex steps touch no owner list; nobody gives up on an unlock.
LEMMA MutexOwed ==
  ASSUME Prompt, Base, OwedInv, NEW l \in Launchers, Mutex(l) PROVE OwedInv'
<1> USE DEF Base, TypeInv
<1>1. UNCHANGED <<lock, present, op, cur, buf, name, locked, todo>>
  BY DEF Mutex, Mkdir, Poll, LookAtHolder, FindStale, FindActive, TimeOut, ReclaimOwner,
         ReclaimDir, CreateOwner, StampOwner, ReleaseOwner, ReleaseDir,
         editVars, sessionVars
<1>2. CASE pc' = pc
  BY <1>1, <1>2 DEF OwedInv, Owes, Writing, Ours
<1>3. CASE TimeOut(l)
  <2>1. dir # Nobody /\ ~held[dir]
    BY <1>3 DEF TimeOut, SerialInv, Look
  <2>2. Stale
    BY <2>1 DEF Stale, Alive, SerialInv, TypeOK
  <2> QED BY <1>3, <2>2 DEF TimeOut
<1>4. CASE ~TimeOut(l) /\ pc' # pc
  <2>1. \E where \in {"create", "observe", "reclaimOwner", "mkdir", "edit", "done",
                      "reclaimDir", "stamp", "releaseDir", "launch"} :
          /\ pc' = [pc EXCEPT ![l] = where]
          /\ where = "done" => op[l] # "lock"
          /\ where \in {"releaseDir", "done"} => pc[l] \in {"releaseOwner", "releaseDir"}
    BY <1>4 DEF Mutex, Mkdir, Poll, LookAtHolder, FindStale, FindActive, ReclaimOwner,
       ReclaimDir, CreateOwner, StampOwner, ReleaseOwner, ReleaseDir, Goto
  <2>2. pc[l] \notin {"write", "crashed"}
    BY DEF Mutex, Mkdir, Poll, LookAtHolder, FindStale, FindActive, TimeOut, ReclaimOwner,
       ReclaimDir, CreateOwner, StampOwner, ReleaseOwner, ReleaseDir
  <2>3. op[l] \in {"lock", "unlock"}
    BY DEF TypeOK
  <2>4. PICK where \in {"create", "observe", "reclaimOwner", "mkdir", "edit", "done",
                      "reclaimDir", "stamp", "releaseDir", "launch"} :
          /\ pc' = [pc EXCEPT ![l] = where]
          /\ where = "done" => op[l] # "lock"
          /\ where \in {"releaseDir", "done"} => pc[l] \in {"releaseOwner", "releaseDir"}
    BY <2>1
  <2>5. op[l] = "unlock" /\ where \in {"releaseOwner", "releaseDir", "done"} => todo[l] = {}
    BY <2>4 DEF OwedInv
  <2>6. where \notin {"gitLock", "append", "truncate", "write"}
    BY <2>4
  <2> QED BY ONLY <1>1, <2>2, <2>3, <2>4, <2>5, <2>6, OwedInv, TypeOK, l \in Launchers, OwedFrame
<1> QED BY <1>2, <1>3, <1>4

\* An edit puts on a list only the name of one who will take it off, and takes
\* off only its own.
LEMMA EditOwed ==
  ASSUME OwnNames, Base, LedgerInv, OwedInv, NEW l \in Launchers, Edit(l) PROVE OwedInv'
<1> USE DEF Base, TypeInv, TypeOK, CurrentTree, OwedInv, Owes, Writing, Ours,
        IsLocked, Goto, Advance, Editing, NoFile, Truncated, AutoReason,
        mutexVars, editVars, sessionVars
<1>1. CASE EditsDone(l)
  BY <1>1 DEF EditsDone, SerialInv
<1>2. ASSUME NEW w \in Worktrees, StartAdd(l, w) PROVE OwedInv'
  BY <1>2 DEF StartAdd
<1>3. ASSUME NEW w \in Worktrees, StartRemove(l, w) PROVE OwedInv'
  <2>1. CASE w \in present /\ Ours(w) /\ name[l] \in lock[w].owners
    BY <1>3, <2>1 DEF StartRemove, Remaining
  <2>2. CASE ~(w \in present /\ Ours(w) /\ name[l] \in lock[w].owners)
    <3>1. /\ pc[l] = "edit" /\ op[l] = "unlock"
          /\ pc' = [pc EXCEPT ![l] = "edit"] /\ todo' = [todo EXCEPT ![l] = @ \ {w}]
          /\ cur' = [cur EXCEPT ![l] = NoTree] /\ buf' = [buf EXCEPT ![l] = {}]
          /\ UNCHANGED <<lock, present, op, name, locked>>
      BY <1>3, <2>2 DEF StartRemove
    <3>2. \A v \in Worktrees : Writing(v)' = Writing(v)
      BY <3>1
    <3>3. ASSUME NEW v \in present, NEW p \in Launchers, Owes(p, v), Ours(v) \/ Writing(v) # {},
                 name[p] \in lock[v].owners
          PROVE Owes(p, v)'
      <4>1. CASE p = l /\ v = w
        <5>1. Writing(w) = {}
          BY <3>1, <1>3, EditorAlone DEF StartRemove
        <5> QED BY <2>2, <3>3, <4>1, <5>1
      <4>2. CASE p # l \/ v # w
        BY <3>1, <3>3, <4>2
      <4> QED BY <4>1, <4>2
    <3>4. \A v \in present' : (Ours(v) \/ Writing(v) # {})' =>
             /\ lock'[v].owners # {}
             /\ \A o \in lock'[v].owners : \E p \in Launchers : name'[p] = o /\ Owes(p, v)'
      <4> HIDE DEF Owes, Writing, Ours
      <4>1. \A v \in present : v \in Worktrees
        OBVIOUS
      <4>2. \A v \in present : Ours(v)' = Ours(v)
        BY <3>1 DEF Ours
      <4> QED BY <3>1, <3>2, <3>3, <4>1, <4>2
    <3> QED BY <3>1, <3>4
  <2> QED BY <2>1, <2>2
<1>4. CASE GitLock(l)
  <2>1. CASE IsLocked(cur[l])
    BY <1>4, <2>1 DEF GitLock
  <2>2. CASE ~IsLocked(cur[l])
    <3>w. PICK w \in Worktrees : w = cur[l]
      BY <1>4 DEF GitLock
    <3>1. /\ pc[l] = "gitLock" /\ op[l] = "lock" /\ w \in Worktrees
          /\ lock' = [lock EXCEPT ![w] = AutoReason({name[l]})]
          /\ locked' = [locked EXCEPT ![l] = @ \cup {w}]
          /\ pc' = [pc EXCEPT ![l] = "edit"] /\ todo' = [todo EXCEPT ![l] = @ \ {w}]
          /\ cur' = [cur EXCEPT ![l] = NoTree] /\ buf' = [buf EXCEPT ![l] = {}]
          /\ UNCHANGED <<present, op, name>>
      BY <1>4, <2>2, <3>w DEF GitLock
    <3>2. \A v \in Worktrees : Writing(v)' = Writing(v)
      BY <3>1
    <3>3. \A p \in Launchers, v \in Worktrees : Owes(p, v) => Owes(p, v)'
      <4> HIDE DEF Writing
      <4> QED BY <3>1, <3>2
    <3>4. Owes(l, w)' /\ lock'[w].owners = {name[l]}
      BY <3>1
    <3>5. \A v \in Worktrees : v # w => lock'[v] = lock[v]
      BY <3>1
    <3>6. ASSUME NEW v \in present', (Ours(v) \/ Writing(v) # {})'
          PROVE /\ lock'[v].owners # {}
                /\ \A o \in lock'[v].owners : \E p \in Launchers : name'[p] = o /\ Owes(p, v)'
      <4> HIDE DEF Owes, Writing
      <4>1. CASE v = w
        <5>1. lock'[v].owners = {name[l]} /\ Owes(l, v)' /\ name' = name
          BY <3>1, <3>4, <4>1
        <5> QED BY <5>1, Zenon
      <4>2. CASE v # w
        <5>1. Ours(v) \/ Writing(v) # {}
          BY <3>1, <3>2, <3>5, <3>6, <4>2
        <5> QED BY <3>1, <3>3, <3>5, <4>2, <5>1
      <4> QED BY <4>1, <4>2
    <3>7. \A p \in Launchers : p # l => pc'[p] = pc[p] /\ todo'[p] = todo[p] /\ buf'[p] = buf[p]
      BY <3>1
    <3>8. pc'[l] = "edit"
      BY <3>1
    <3>9. \A v \in present' : (Ours(v) \/ Writing(v) # {})' =>
             /\ lock'[v].owners # {}
             /\ \A o \in lock'[v].owners : \E p \in Launchers : name'[p] = o /\ Owes(p, v)'
      <4> HIDE DEF Owes, Writing, Ours
      <4> QED BY ONLY <3>6
    <3>10. \A p \in Launchers :
             /\ pc'[p] \in {"gitLock", "append"} => op'[p] = "lock"
             /\ pc'[p] = "done" => op'[p] = "unlock"
             /\ op'[p] = "unlock" /\ pc'[p] \in {"releaseOwner", "releaseDir", "done"} => todo'[p] = {}
             /\ pc'[p] \in {"truncate", "write"} /\ op'[p] = "unlock" =>
                  buf'[p] # {} /\ name'[p] \notin buf'[p]
      BY <3>1, <3>7, <3>8
    <3> HIDE DEF Owes, Writing, Ours
    <3> QED BY ONLY <3>9, <3>10 DEF OwedInv
  <2> QED BY <2>1, <2>2
<1>5. CASE ReadForAppend(l)
  <2>1. /\ pc[l] = "append" /\ op[l] = "lock" /\ UNCHANGED <<lock, present, op, name>>
        /\ \/ /\ pc' = [pc EXCEPT ![l] = "edit"]
              /\ cur' = [cur EXCEPT ![l] = NoTree] /\ buf' = [buf EXCEPT ![l] = {}]
              /\ todo' = [todo EXCEPT ![l] = @ \ {cur[l]}]
              /\ locked' = locked \/ locked' = [locked EXCEPT ![l] = @ \cup {cur[l]}]
           \/ pc' = [pc EXCEPT ![l] = "truncate"] /\ UNCHANGED <<todo, cur, locked>>
    BY <1>5 DEF ReadForAppend
  <2>2. \A v \in Worktrees : Writing(v)' = Writing(v)
    BY <2>1
  <2>3. \A p \in Launchers, v \in Worktrees : Owes(p, v) => Owes(p, v)'
    <3> HIDE DEF Writing
    <3> QED BY <2>1, <2>2
  <2>4. \A v \in present' : (Ours(v) \/ Writing(v) # {})' =>
             /\ lock'[v].owners # {}
             /\ \A o \in lock'[v].owners : \E p \in Launchers : name'[p] = o /\ Owes(p, v)'
    <3> HIDE DEF Owes, Writing
    <3> QED BY <2>1, <2>2, <2>3
  <2>5. \A p \in Launchers : p # l => pc'[p] = pc[p] /\ todo'[p] = todo[p] /\ buf'[p] = buf[p]
    BY <1>5 DEF ReadForAppend
  <2> QED BY <2>1, <2>4, <2>5
<1>6. CASE GitUnlock(l)
  BY <1>6, EditorAlone, SMTT(30) DEF GitUnlock
<1>7. CASE Truncate(l)
  BY <1>7, EditorAlone, SMTT(30) DEF Truncate, LedgerInv, Pending
<1>8. CASE Write(l)
  <2>1. /\ pc[l] = "write" /\ cur[l] \in Worktrees /\ lock[cur[l]].owners = buf[l]
        /\ lock' = [lock EXCEPT ![cur[l]] = AutoReason(buf[l])]
        /\ locked' = IF op[l] = "lock" THEN [locked EXCEPT ![l] = @ \cup {cur[l]}] ELSE locked
        /\ pc' = [pc EXCEPT ![l] = "edit"] /\ todo' = [todo EXCEPT ![l] = @ \ {cur[l]}]
        /\ cur' = [cur EXCEPT ![l] = NoTree] /\ buf' = [buf EXCEPT ![l] = {}]
        /\ UNCHANGED <<present, op, name>>
    BY <1>8 DEF Write, LedgerInv, Pending
  <2>2. \A v \in Worktrees : Writing(v) = IF v = cur[l] THEN {l} ELSE {}
    BY <2>1, EditorAlone
  <2>3. \A v \in Worktrees : lock'[v].owners = lock[v].owners /\ (Ours(v)' => Ours(v) \/ Writing(v) # {})
    BY <2>1, <2>2
  <2>4. \A v \in Worktrees : Writing(v)' = {}
    BY <2>1, EditorAlone
  <2>5. ASSUME NEW v \in present, NEW p \in Launchers, Owes(p, v), name[p] \in lock[v].owners
        PROVE Owes(p, v)'
    <3>1. CASE p # l
      <4>1. p \notin Writing(v)
        BY <2>2, <3>1
      <4> QED BY <2>1, <2>5, <3>1, <4>1
    <3>2. CASE p = l /\ op[l] = "lock"
      BY <2>1, <2>5, <3>2
    <3>3. CASE p = l /\ op[l] = "unlock"
      <4>1. v # cur[l]
        BY <2>1, <2>5, <3>3
      <4> QED BY <2>1, <2>5, <3>3, <4>1
    <3> QED BY <3>1, <3>2, <3>3
  <2>6. \A v \in present' : (Ours(v) \/ Writing(v) # {})' =>
             /\ lock'[v].owners # {}
             /\ \A o \in lock'[v].owners : \E p \in Launchers : name'[p] = o /\ Owes(p, v)'
    <3> HIDE DEF Owes, Writing, Ours
    <3>1. \A v \in present : v \in Worktrees
      OBVIOUS
    <3> QED BY <2>1, <2>3, <2>4, <2>5, <3>1
  <2> QED BY <2>1, <2>6
<1> QED BY <1>1, <1>2, <1>3, <1>4, <1>5, <1>6, <1>7, <1>8 DEF Edit

\* A launcher that ends has nothing left to take off, or goes on to do so.
LEMMA SessionOwed ==
  ASSUME Base, LedgerInv, OwedInv, NEW l \in Launchers, Session(l) \/ Crash(l)
  PROVE OwedInv'
<1> USE DEF Base, TypeInv, TypeOK, OwedInv, Owes, Writing, Ours, Goto, Cleanup,
        mutexVars, editVars, sessionVars
<1>1. CASE Scan(l)
  <2>1. /\ pc[l] = "scan" /\ op[l] = "lock" /\ locked[l] = {}
        /\ pc' = [pc EXCEPT ![l] = "name"] /\ \A p \in Launchers : p # l => todo'[p] = todo[p]
        /\ UNCHANGED <<lock, present, op, cur, buf, name, locked>>
    BY <1>1 DEF Scan, LedgerInv
  <2>2. \A v \in Worktrees : Writing(v)' = Writing(v)
    BY <2>1
  <2>3. \A p \in Launchers, v \in Worktrees : Owes(p, v) => Owes(p, v)'
    <3> HIDE DEF Writing
    <3> QED BY <2>1, <2>2
  <2> HIDE DEF Writing, Owes
  <2> QED BY <2>1, <2>2, <2>3
<1>2. CASE ChooseName(l) BY <1>2 DEF ChooseName, LedgerInv
<1>3. CASE StartContainer(l) BY <1>3 DEF StartContainer
<1>4. CASE NoContainer(l) BY <1>4 DEF NoContainer, LedgerInv
<1>5. CASE ContainerExits(l) BY <1>5 DEF ContainerExits, LedgerInv
<1>6. CASE Crash(l) BY <1>6 DEF Crash, Alive
<1> QED BY <1>1, <1>2, <1>3, <1>4, <1>5, <1>6 DEF Session

\* The user's locks are nobody's debt, and a vanished tree releases its own.
LEMMA OthersOwed ==
  ASSUME Base, LedgerInv, OwedInv,
         UNCHANGED vars \/ \E w \in Worktrees : UserLocks(w) \/ Vanish(w)
  PROVE OwedInv'
<1> USE DEF OwedInv, Owes, Writing, Ours, vars, mutexVars, editVars, sessionVars
<1>1. CASE UNCHANGED vars BY <1>1
<1>2. ASSUME NEW w \in Worktrees, UserLocks(w) PROVE OwedInv'
  BY <1>2 DEF UserLocks, IsLocked, UserReason, LedgerInv, Pending, Base, TypeInv, TypeOK,
     CurrentTree
<1>3. ASSUME NEW w \in Worktrees, Vanish(w) PROVE OwedInv'
  BY <1>3 DEF Vanish
<1> QED BY <1>1, <1>2, <1>3

\* Once every launcher has ended by itself, no worktree that is still there keeps
\* an auto-lock, under the same conditions: whatever was locked, vanished or was
\* refused by a user's lock in between.
THEOREM NoLeak == Prompt /\ OwnNames => (Spec => []NothingLeaks)
<1> SUFFICES ASSUME Prompt, OwnNames PROVE Spec => []NothingLeaks
  OBVIOUS
<1>1. Init => LedgerInv /\ OwedInv
  BY DEF Init, LedgerInv, Pending, OwedInv, Ours, Writing, NoFile
<1>2. Base /\ LedgerInv /\ [Next]_vars => LedgerInv'
  BY MutexLedger, EditLedger, SessionLedger, OthersLedger
     DEF Next, Step, Finished, Seal, Base
<1>3. Base /\ LedgerInv /\ OwedInv /\ [Next]_vars => OwedInv'
  BY MutexOwed, EditOwed, SessionOwed, OthersOwed
     DEF Next, Step, Finished, Seal, Base
<1>4. TypeOK /\ OwedInv => NothingLeaks
  BY DEF OwedInv, Owes, Writing, NothingLeaks
<1> QED BY <1>1, <1>2, <1>3, <1>4, SerialEdits, PTL DEF Spec, Base, TypeInv
----------------------------------------------------------------------------
(* WorktreeLock implements OwnerRegistry: the owner lists, as a reader who *)
(* waits for the writes sees them, lose an owner only when no container    *)
(* runs under its name.                                                    *)

\* A file that is no launcher's lists no owner.
LEMMA OwnersTyped ==
  ASSUME TypeOK, NEW w \in Worktrees
  PROVE lock[w].kind \notin {"auto", "empty"} => lock[w].owners = {}
BY DEF TypeOK, Reasons, NoFile, UserReason

\* What the registry sees: the lock files and the names of running containers.
LEMMA RegistryFrame ==
  ASSUME lock' = lock, \A q \in running : name'[q] = name[q], running' = running
  PROVE UNCHANGED Registry!vars
BY DEF Registry!vars

\* The mutex is invisible to the registry.
LEMMA MutexMaps ==
  ASSUME Base, LedgerInv, NEW l \in Launchers, Mutex(l)
  PROVE UNCHANGED Registry!vars
<1>1. UNCHANGED <<lock, name, running>>
  BY DEF Mutex, Mkdir, Poll, LookAtHolder, FindStale, FindActive, TimeOut, ReclaimOwner,
         ReclaimDir, CreateOwner, StampOwner, ReleaseOwner, ReleaseDir,
         editVars, sessionVars
<1> QED BY <1>1, RegistryFrame

\* A launcher that writes or unlocks for its removal runs no container.
LEMMA NotActive ==
  ASSUME OwnNames, Base, LedgerInv, NEW l \in Launchers, l \notin running
  PROVE name[l] \notin {name[q] : q \in running}
BY NamesDiffer DEF Base, TypeInv, TypeOK

\* A truncation or a git command is where an owner joins or leaves.
LEMMA EditMaps ==
  ASSUME OwnNames, Base, LedgerInv, NEW l \in Launchers, Edit(l)
  PROVE Registry!Next \/ UNCHANGED Registry!vars
<1>n. PICK n \in Names : n = name[l]
  BY DEF Base, TypeInv, TypeOK
<1>w. PICK w : w = cur[l]
  OBVIOUS
<1>a. UNCHANGED <<name, running>>
  BY DEF Edit, EditsDone, StartAdd, StartRemove, GitLock, ReadForAppend,
         GitUnlock, Truncate, Write, sessionVars, editVars
<1>1. CASE GitLock(l) /\ ~IsLocked(w)
  <2>1. w \in Worktrees /\ lock[w].owners = {} /\ lock[w].kind = "none"
    BY <1>1, <1>w, OwnersTyped DEF GitLock, Base, TypeInv, CurrentTree, IsLocked
  <2>2. lock' = [lock EXCEPT ![w] = AutoReason({n})]
    BY <1>1, <1>n, <1>w, Writable DEF GitLock
  <2>3. Registry!Add(n, w)
    BY <1>a, <2>1, <2>2 DEF Registry!Add, AutoReason, Base, TypeInv, TypeOK
  <2> QED BY <2>1, <2>3 DEF Registry!Next
<1>2. CASE GitUnlock(l)
  <2>1. /\ w \in Worktrees /\ lock[w].kind = "auto"
        /\ lock[w].owners \ {n} = {}
        /\ l \notin running
    BY <1>2, <1>n, <1>w DEF GitUnlock, Base, TypeInv, CurrentTree, LedgerInv, Pending, Ours
  <2>2. lock' = [lock EXCEPT ![w] = NoFile]
    BY <1>2, <1>w, Writable DEF GitUnlock
  <2>3. Registry!Remove(n, w)
    BY <1>a, <2>1, <2>2, NotActive, <1>n DEF Registry!Remove, NoFile, Base, TypeInv, TypeOK
  <2> QED BY <2>1, <2>3 DEF Registry!Next
<1>3. CASE Truncate(l)
  <2>1. /\ w \in Worktrees /\ lock[w].kind = "auto"
        /\ lock[w].owners \ {n} = buf[l] \ {n}
        /\ l \notin running
    BY <1>3, <1>n, <1>w DEF Truncate, Base, TypeInv, CurrentTree, LedgerInv, Pending, Ours
  <2>2. lock' = [lock EXCEPT ![w] = Truncated(buf[l])]
    BY <1>3, <1>w, Writable DEF Truncate
  <2>3. /\ \A v \in Worktrees \ {w} : lock'[v] = lock[v]
        /\ lock'[w].owners = buf[l] /\ lock'[w].kind = "empty"
    BY <2>1, <2>2 DEF Truncated, Base, TypeInv, TypeOK
  <2>4. {v \in Worktrees : lock'[v].kind = "user"} = {v \in Worktrees : lock[v].kind = "user"}
    BY <2>1, <2>3
  <2>5. CASE n \in buf[l]
    <3>1. buf[l] = lock[w].owners \cup {n}
      BY <2>1, <2>5
    <3>2. Registry!Add(n, w)
      BY <1>a, <2>1, <2>3, <2>4, <3>1 DEF Registry!Add
    <3> QED BY <2>1, <3>2 DEF Registry!Next
  <2>6. CASE n \notin buf[l]
    <3>1. buf[l] = lock[w].owners \ {n}
      BY <2>1, <2>6
    <3>2. n \notin {name[q] : q \in running}
      BY <1>n, <2>1, NotActive
    <3>3. Registry!Remove(n, w)
      BY <1>a, <2>1, <2>3, <2>4, <3>1, <3>2 DEF Registry!Remove
    <3> QED BY <2>1, <3>3 DEF Registry!Next
  <2> QED BY <2>5, <2>6
<1>4. CASE Write(l)
  <2>1. w \in Worktrees /\ lock[w].kind = "empty" /\ lock[w].owners = buf[l]
    BY <1>4, <1>w DEF Write, Base, TypeInv, CurrentTree, LedgerInv, Pending
  <2>2. lock' = [lock EXCEPT ![w] = AutoReason(buf[l])]
    BY <1>4, <1>w, <2>1, Writable DEF Write, IsLocked
  <2>3. /\ \A v \in Worktrees : lock'[v].owners = lock[v].owners
        /\ \A v \in Worktrees : lock'[v].kind = "user" <=> lock[v].kind = "user"
    BY <2>1, <2>2 DEF AutoReason, Base, TypeInv, TypeOK
  <2> QED BY <1>a, <2>3 DEF Registry!vars
<1>5. CASE \/ EditsDone(l) \/ ReadForAppend(l)
           \/ \E v \in Worktrees : StartAdd(l, v) \/ StartRemove(l, v)
           \/ GitLock(l) /\ IsLocked(w)
  <2>1. lock' = lock
    BY <1>5, <1>w DEF EditsDone, ReadForAppend, StartAdd, StartRemove, GitLock
  <2> QED BY <1>a, <2>1, RegistryFrame
<1> QED BY <1>1, <1>2, <1>3, <1>4, <1>5 DEF Edit

\* Containers start and stop; choosing a name is not seen before that.
LEMMA SessionMaps ==
  ASSUME OwnNames, Base, LedgerInv, NEW l \in Launchers, Session(l) \/ Crash(l)
  PROVE Registry!Next \/ UNCHANGED Registry!vars
<1>n. PICK n \in Names : n = name[l]
  BY DEF Base, TypeInv, TypeOK
<1>a. lock' = lock
  BY DEF Session, Scan, ChooseName, StartContainer, NoContainer, Cleanup,
         ContainerExits, Crash, sessionVars, editVars
<1>1. CASE StartContainer(l)
  <2>1. name' = name /\ running' = running \cup {l} /\ n \notin {name[q] : q \in running}
    BY <1>1, <1>n DEF StartContainer
  <2>2. Registry!Start(n)
    BY <1>a, <1>n, <2>1 DEF Registry!Start
  <2> QED BY <2>2 DEF Registry!Next
<1>2. CASE ContainerExits(l)
  <2>1. name' = name /\ running' = running \ {l}
    BY <1>2 DEF ContainerExits, Cleanup
  <2>2. running \subseteq Launchers
    BY DEF Base, TypeInv, TypeOK
  <2>3. {name[q] : q \in running \ {l}} = {name[q] : q \in running} \ {name[l]}
    BY <2>2, NamesDiffer
  <2>4. Registry!Stop(n)
    BY <1>a, <1>n, <2>1, <2>3 DEF Registry!Stop
  <2> QED BY <2>4 DEF Registry!Next
<1>3. CASE Scan(l) \/ ChooseName(l) \/ NoContainer(l) \/ Crash(l)
  <2>1. running' = running
    BY <1>3 DEF Scan, ChooseName, NoContainer, Crash, sessionVars
  <2>2. \A q \in running : name'[q] = name[q]
    BY <1>3 DEF Scan, ChooseName, NoContainer, Cleanup, Crash, sessionVars, LedgerInv,
                Base, TypeInv, TypeOK
  <2> QED BY <1>a, <2>1, <2>2, RegistryFrame
<1> QED BY <1>1, <1>2, <1>3 DEF Session

\* The user locks a worktree; a vanished working tree changes no owner.
LEMMA WorldMaps ==
  ASSUME Base, NEW v \in Worktrees, UserLocks(v) \/ Vanish(v)
  PROVE Registry!Next \/ UNCHANGED Registry!vars
<1>a. UNCHANGED <<name, running>>
  BY DEF UserLocks, Vanish, sessionVars
<1>1. CASE UserLocks(v)
  <2>1. lock[v].owners = {} /\ lock' = [lock EXCEPT ![v] = UserReason]
    BY <1>1, OwnersTyped DEF UserLocks, IsLocked, Base, TypeInv
  <2>2. Registry!UserLock(v)
    BY <1>a, <2>1 DEF Registry!UserLock, UserReason, Base, TypeInv, TypeOK
  <2> QED BY <2>2 DEF Registry!Next
<1>2. CASE Vanish(v)
  BY <1>a, <1>2, RegistryFrame DEF Vanish
<1> QED BY <1>1, <1>2

\* The bookkeeping - mutex, reclaims, truncating writes and kills included -
\* implements the registry, for prompt holders and names that cannot collide.
THEOREM Refinement == Prompt /\ OwnNames => (Spec => ImplementsRegistry)
<1> SUFFICES ASSUME Prompt, OwnNames PROVE Spec => ImplementsRegistry
  OBVIOUS
<1>1. Init => LedgerInv /\ Registry!Init
  BY DEF Init, LedgerInv, Pending, Registry!Init, NoFile
<1>2. Base /\ LedgerInv /\ [Next]_vars => LedgerInv'
  BY MutexLedger, EditLedger, SessionLedger, OthersLedger
     DEF Next, Step, Finished, Seal, Base
<1>3. Base /\ LedgerInv /\ [Next]_vars => [Registry!Next]_(Registry!vars)
  <2> SUFFICES ASSUME Base, LedgerInv, [Next]_vars
               PROVE Registry!Next \/ UNCHANGED Registry!vars
    OBVIOUS
  <2>1. CASE UNCHANGED vars
    BY <2>1, RegistryFrame DEF vars
  <2> QED BY <2>1, MutexMaps, EditMaps, SessionMaps, WorldMaps
      DEF Next, Step, Finished, Seal, Base
<1> QED BY <1>1, <1>2, <1>3, SerialEdits, PTL
        DEF Spec, Base, TypeInv, ImplementsRegistry, Registry!Spec
============================================================================
