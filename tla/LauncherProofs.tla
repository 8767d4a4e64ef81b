--------------------------- MODULE LauncherProofs ---------------------------
(***************************************************************************)
(* What holds of one launcher whatever signals it gets, however many, and  *)
(* whatever statuses its container ends with.                              *)
(***************************************************************************)
EXTENDS Launcher, TLAPS

\* 128 plus a signal number is a status and never success.
LEMMA Statuses == \A s \in Signals : SignalExit(s) \in 0..255 /\ SignalExit(s) # 0
BY LauncherAssumption DEF SignalExit

\* The stages of runWith before the trap, and the statuses they return early with.
LEMMA Stages ==
  /\ DOMAIN EarlyExits = {"parse", "level", "open", "validate", "select", "envFlags",
       "shareSkills", "ensureUp", "dispatch", "mounts", "envFile", "injection", "gate",
       "layer", "probe", "trap"}
  /\ \A p \in DOMAIN Following : Following[p] \in DOMAIN EarlyExits \ {"parse"}
  /\ \A p \in DOMAIN EarlyExits : EarlyExits[p] \subseteq {0, 1, 2}
  /\ DOMAIN Following = DOMAIN EarlyExits \ {"trap"}
BY DEF EarlyExits, Following

\* Nothing before the trap takes a lock or starts a container.
LEMMA StartupCleanupInv ==
  ASSUME CleanupInv, ExitEarly \/ Proceed \/ Rebuild \/ Attach \/ Trap
  PROVE CleanupInv'
<1> USE Stages DEF CleanupInv, Gone, Planning, Supervising, Unwinding,
        Goto, ownVars, signalVars, childVars
<1>1. CASE ExitEarly BY <1>1 DEF ExitEarly, AfterOpen
<1>2. CASE Proceed BY <1>2 DEF Proceed
<1>3. CASE Rebuild BY <1>3 DEF Rebuild
<1>4. CASE AttachDecides BY <1>4 DEF AttachDecides, TrapFor
<1>5. CASE Flush BY <1>5 DEF Flush
<1>6. CASE Replace BY <1>6 DEF Replace
<1>7. CASE Trap BY <1>7 DEF Trap
<1> QED BY <1>1, <1>2, <1>3, <1>4, <1>5, <1>6, <1>7 DEF Attach

\* Plan rounds take locks only under the trap.
LEMMA PlanCleanupInv == ASSUME CleanupInv, Plan \/ User PROVE CleanupInv'
<1> USE Stages DEF CleanupInv, Gone, Planning, Supervising, Unwinding,
        Goto, ownVars, signalVars, childVars
<1>1. CASE ApplyLock BY <1>1 DEF ApplyLock
<1>2. CASE ApplyFails BY <1>2 DEF ApplyFails
<1>3. CASE RoundEnds BY <1>3 DEF RoundEnds
<1>4. CASE AskInterrupted BY <1>4 DEF AskInterrupted
<1>5. CASE CheckPending BY <1>5 DEF CheckPending
<1>6. CASE Answer BY <1>6 DEF Answer
<1>7. CASE EndOfInput BY <1>7 DEF EndOfInput
<1> QED BY <1>1, <1>2, <1>3, <1>4, <1>5, <1>6, <1>7 DEF Plan, User

\* The child lives only while the launcher waits for it.
LEMMA ChildCleanupInv == ASSUME CleanupInv, Child \/ ChildExits PROVE CleanupInv'
<1> USE Stages DEF CleanupInv, Gone, Planning, Supervising, Unwinding,
        Goto, ownVars, signalVars, childVars
<1>1. CASE Spawn BY <1>1 DEF Spawn, WaitFor
<1>2. CASE ChildExits BY <1>2 DEF ChildExits, ChildCodes
<1>3. CASE SignalAtEnd BY <1>3 DEF SignalAtEnd, Waiting, Returning
<1>4. CASE OwnStatus BY <1>4 DEF OwnStatus, NoSignalFound, OwnExit, Waiting, Returning
<1> QED BY <1>1, <1>2, <1>3, <1>4 DEF Child

\* The deferred calls undo locks, litter and trap in that order.
LEMMA UnwindCleanupInv == ASSUME CleanupInv, Unwind PROVE CleanupInv'
<1> USE Stages DEF CleanupInv, Gone, Planning, Supervising, Unwinding,
        Goto, ownVars, signalVars, childVars
<1>1. CASE ReleaseLocks BY <1>1 DEF ReleaseLocks
<1>2. CASE Sweep BY <1>2 DEF Sweep
<1>3. CASE StopTrap BY <1>3 DEF StopTrap
<1>4. CASE Close BY <1>4 DEF Close
<1> QED BY <1>1, <1>2, <1>3, <1>4 DEF Unwind

\* A signal under the trap moves nothing; without it nothing is held.
LEMMA SignalsCleanupInv ==
  ASSUME CleanupInv, NEW s \in Signals, Send(s) \/ Deliver(s) PROVE CleanupInv'
<1> USE Stages DEF CleanupInv, Gone, Planning, Supervising, Unwinding,
        Goto, ownVars, signalVars, childVars
<1>1. CASE Send(s) BY <1>1 DEF Send
<1>2. CASE Deliver(s) BY <1>2 DEF Deliver
<1> QED BY <1>1, <1>2

\* No signal is in the channel before the trap.
LEMMA StartupSignalInv ==
  ASSUME CleanupInv, SignalInv, ExitEarly \/ Proceed \/ Rebuild \/ Attach \/ Trap
  PROVE SignalInv'
<1> USE LauncherAssumption, Stages, Statuses
    DEF CleanupInv, SignalInv, Gone, NotCaught, Planning,
        Supervising, Unwinding, Goto, ownVars, signalVars, childVars
<1>1. CASE ExitEarly BY <1>1 DEF ExitEarly, AfterOpen
<1>2. CASE Proceed BY <1>2 DEF Proceed
<1>3. CASE Rebuild BY <1>3 DEF Rebuild
<1>4. CASE AttachDecides BY <1>4 DEF AttachDecides, TrapFor
<1>5. CASE Flush BY <1>5 DEF Flush
<1>6. CASE Replace BY <1>6 DEF Replace
<1>7. CASE Trap BY <1>7 DEF Trap
<1> QED BY <1>1, <1>2, <1>3, <1>4, <1>5, <1>6, <1>7 DEF Attach

\* A signal caught while planning never gets past the check.
LEMMA PlanSignalInv == ASSUME CleanupInv, SignalInv, Plan \/ User PROVE SignalInv'
<1> USE LauncherAssumption, Stages, Statuses
    DEF CleanupInv, SignalInv, Gone, NotCaught, Planning,
        Supervising, Unwinding, Goto, ownVars, signalVars, childVars
<1>1. CASE ApplyLock BY <1>1 DEF ApplyLock
<1>2. CASE ApplyFails BY <1>2 DEF ApplyFails
<1>3. CASE RoundEnds BY <1>3 DEF RoundEnds
<1>4. CASE AskInterrupted BY <1>4 DEF AskInterrupted
<1>5. CASE CheckPending BY <1>5 DEF CheckPending
<1>6. CASE Answer BY <1>6 DEF Answer
<1>7. CASE EndOfInput BY <1>7 DEF EndOfInput
<1> QED BY <1>1, <1>2, <1>3, <1>4, <1>5, <1>6, <1>7 DEF Plan, User

\* A signal caught while supervising becomes the status when the child ends.
LEMMA ChildSignalInv ==
  ASSUME CleanupInv, SignalInv, Child \/ ChildExits
  PROVE SignalInv'
<1> USE LauncherAssumption, Stages, Statuses
    DEF CleanupInv, SignalInv, Gone, NotCaught, Planning,
        Supervising, Unwinding, Goto, ownVars, signalVars, childVars
<1>1. CASE Spawn BY <1>1 DEF Spawn, WaitFor
<1>2. CASE ChildExits BY <1>2 DEF ChildExits, ChildCodes
<1>3. CASE SignalAtEnd BY <1>3 DEF SignalAtEnd, Waiting, Returning
<1>4. CASE OwnStatus BY <1>4 DEF OwnStatus, NoSignalFound, OwnExit, Waiting, Returning
<1> QED BY <1>1, <1>2, <1>3, <1>4 DEF Child

\* The deferred calls change no status but a success.
LEMMA UnwindSignalInv == ASSUME CleanupInv, SignalInv, Unwind PROVE SignalInv'
<1> USE LauncherAssumption, Stages, Statuses
    DEF CleanupInv, SignalInv, Gone, NotCaught, Planning,
        Supervising, Unwinding, Goto, ownVars, signalVars, childVars
<1>1. CASE ReleaseLocks BY <1>1 DEF ReleaseLocks
<1>2. CASE Sweep BY <1>2 DEF Sweep
<1>3. CASE StopTrap BY <1>3 DEF StopTrap
<1>4. CASE Close BY <1>4 DEF Close
<1> QED BY <1>1, <1>2, <1>3, <1>4 DEF Unwind

\* The first signal caught keeps its place in the channel.
LEMMA SignalsSignalInv ==
  ASSUME CleanupInv, SignalInv, NEW s \in Signals, Send(s) \/ Deliver(s) PROVE SignalInv'
<1> USE LauncherAssumption, Stages, Statuses
    DEF CleanupInv, SignalInv, Gone, NotCaught, Planning,
        Supervising, Unwinding, Goto, ownVars, signalVars, childVars
<1>1. CASE Send(s) BY <1>1 DEF Send
<1>2. CASE Deliver(s) BY <1>2 DEF Deliver
<1> QED BY <1>1, <1>2

\* What each place of runWith goes with, in every reachable state.
LEMMA CleanupHolds == Spec => []CleanupInv
<1>1. Init => CleanupInv
  BY DEF Init, CleanupInv, Planning, Supervising, Unwinding
<1>2. CleanupInv /\ [Next]_vars => CleanupInv'
  <2>1. CASE UNCHANGED vars
    BY <2>1 DEF CleanupInv, vars
  <2> QED BY <2>1, StartupCleanupInv, PlanCleanupInv, ChildCleanupInv, UnwindCleanupInv,
             SignalsCleanupInv DEF Next, Ended
<1> QED BY <1>1, <1>2, PTL DEF Spec

\* However the process ends - return, kill or exec, with signals at any moment -
\* no worktree lock and no container litter is left behind.
THEOREM NothingLeftBehind == Spec => []NothingStranded
<1>1. CleanupInv => NothingStranded
  BY DEF CleanupInv, NothingStranded, Gone, Planning
<1> QED BY <1>1, CleanupHolds, PTL

\* A process replaced by the runtime's exec held nothing, caught nothing and had
\* flushed its diagnostics.
THEOREM ReplacedClean == Spec => []ReplacementHoldsNothing
<1>1. CleanupInv => ReplacementHoldsNothing
  <2> SUFFICES ASSUME CleanupInv, pc = "replaced" PROVE ~holding /\ ~trapped /\ flushed
    BY DEF ReplacementHoldsNothing
  <2> QED BY DEF CleanupInv, Planning
<1> QED BY <1>1, CleanupHolds, PTL

\* The worktree locks are given up only when no child of the launcher runs.
THEOREM LocksLast == Spec => LocksOutliveChild
<1>1. CleanupInv /\ [Next]_vars => [holding /\ ~holding' => child # "running"]_vars
  <2> SUFFICES ASSUME CleanupInv, [Next]_vars, holding, ~holding'
               PROVE child # "running"
    OBVIOUS
  <2>1. ReleaseLocks
    BY DEF Next, Attach, Plan, User, Child, Unwind, ExitEarly, Proceed, Rebuild,
       AttachDecides, Flush, Replace, Trap, ApplyLock, ApplyFails, RoundEnds,
       AskInterrupted, CheckPending, Answer, EndOfInput, Spawn, ChildExits,
       SignalAtEnd, OwnStatus, Sweep, StopTrap, Close, Send, Deliver, Ended,
       ownVars, vars
  <2> QED BY <2>1 DEF CleanupInv, ReleaseLocks
<1> QED BY <1>1, CleanupHolds, PTL DEF Spec, LocksOutliveChild

\* Where the first caught signal is, in every reachable state.
LEMMA SignalHolds == Spec => []SignalInv
<1>1. Init => SignalInv
  BY DEF Init, SignalInv, Planning, Supervising, Unwinding, NotCaught
<1>2. CleanupInv /\ SignalInv /\ [Next]_vars => SignalInv'
  <2>1. CASE UNCHANGED vars
    BY <2>1 DEF SignalInv, vars
  <2> QED BY <2>1, StartupSignalInv, PlanSignalInv, ChildSignalInv, UnwindSignalInv,
             SignalsSignalInv DEF Next, Ended
<1> QED BY <1>1, <1>2, CleanupHolds, PTL DEF Spec

\* No container starts after a signal caught while the plan is built or applied.
THEOREM EarlySignals == Spec => []EarlySignalStopsLaunch
<1>1. SignalInv => EarlySignalStopsLaunch BY DEF SignalInv, EarlySignalStopsLaunch
<1> QED BY <1>1, SignalHolds, PTL

\* A signal caught while the child is supervised is the exit status, for every
\* set of signals, every number of them and every status of the container.
THEOREM SignalsDecide == Spec => []SignalReported
<1>1. SignalInv => SignalReported BY DEF SignalInv, SignalReported, Unwinding
<1> QED BY <1>1, SignalHolds, PTL

\* Status 0 is reported only for a child that succeeded with no signal caught.
THEOREM TrueSuccess == Spec => []NoFalseSuccess
<1>1. SignalInv => NoFalseSuccess
  BY Statuses DEF SignalInv, NoFalseSuccess, Unwinding, Planning, Supervising
<1> QED BY <1>1, SignalHolds, PTL
----------------------------------------------------------------------------
(* Types.                                                                  *)

\* A status of a child is one a process can exit with.
LEMMA OwnStatuses == \A code \in ChildCodes : OwnExit(code) \in 0..255
BY LauncherAssumption DEF ChildCodes, OwnExit, Killed

\* Before the trap nothing but the place, the status and the trap changes.
LEMMA StartupTypes ==
  ASSUME TypeOK, ExitEarly \/ Proceed \/ Rebuild \/ Attach \/ Trap PROVE TypeOK'
<1> USE Stages, OwnStatuses
    DEF TypeOK, Places, Gone, Goto, ownVars, signalVars, childVars
<1>1. CASE ExitEarly
  <2>1. \E code \in {0, 1, 2} : status' = code BY <1>1 DEF ExitEarly
  <2>2. pc' \in {"close", "exited"} BY <1>1 DEF ExitEarly
  <2> QED BY <1>1, <2>1, <2>2 DEF ExitEarly
<1>2. CASE Proceed
  <2>1. pc' \in DOMAIN EarlyExits BY <1>2 DEF Proceed
  <2> QED BY <1>2, <2>1 DEF Proceed
<1>3. CASE Rebuild
  <2>1. status' \in 0..255 BY <1>3 DEF Rebuild
  <2> QED BY <1>3, <2>1 DEF Rebuild
<1>4. CASE AttachDecides
  <2>1. pc' \in Places BY <1>4 DEF AttachDecides
  <2>2. status' \in 0..255 BY <1>4 DEF AttachDecides
  <2>3. trapped' \in BOOLEAN BY <1>4 DEF AttachDecides, TrapFor
  <2> QED BY <1>4, <2>1, <2>2, <2>3 DEF AttachDecides
<1>5. CASE Flush
  <2>1. pc' \in Places BY <1>5 DEF Flush
  <2>2. status' = status \/ status' = 1 BY <1>5 DEF Flush
  <2>3. flushed' \in BOOLEAN BY <1>5 DEF Flush
  <2>4. status' \in 0..255 BY <2>2
  <2> QED BY <1>5, <2>1, <2>3, <2>4 DEF Flush
<1>6. CASE Replace BY <1>6 DEF Replace
<1>7. CASE Trap BY <1>7 DEF Trap
<1> QED BY <1>1, <1>2, <1>3, <1>4, <1>5, <1>6, <1>7 DEF Attach

\* The prompts asked stay within their bound.
LEMMA PlanTypes == ASSUME TypeOK, Plan \/ User PROVE TypeOK'
<1> USE LauncherAssumption, Statuses
    DEF TypeOK, Places, Gone, Goto, ownVars, signalVars, childVars
<1>1. CASE ApplyLock BY <1>1 DEF ApplyLock
<1>2. CASE ApplyFails BY <1>2 DEF ApplyFails
<1>3. CASE RoundEnds BY <1>3 DEF RoundEnds
<1>4. CASE AskInterrupted BY <1>4 DEF AskInterrupted
<1>5. CASE CheckPending BY <1>5 DEF CheckPending
<1>6. CASE Answer BY <1>6 DEF Answer
<1>7. CASE EndOfInput BY <1>7 DEF EndOfInput
<1> QED BY <1>1, <1>2, <1>3, <1>4, <1>5, <1>6, <1>7 DEF Plan, User

\* The status is a signal's or the child's own.
LEMMA ChildTypes == ASSUME TypeOK, CleanupInv, Child \/ ChildExits PROVE TypeOK'
<1> USE LauncherAssumption, Statuses
    DEF TypeOK, Places, Gone, Goto, ownVars, signalVars, childVars
<1>1. CASE Spawn BY <1>1 DEF Spawn, WaitFor
<1>2. CASE ChildExits BY <1>2 DEF ChildExits, ChildCodes
<1>3. CASE SignalAtEnd BY <1>3 DEF SignalAtEnd, Waiting, Returning
<1>4. CASE OwnStatus
  <2>1. OwnExit(childCode) \in 0..255 BY OwnStatuses DEF OwnExit, ChildCodes, Killed
  <2> QED BY <1>4, <2>1 DEF OwnStatus, Waiting, Returning
<1> QED BY <1>1, <1>2, <1>3, <1>4 DEF Child

\* Nor do the deferred calls and the signals give a value of another type.
LEMMA EndTypes ==
  ASSUME TypeOK, Unwind \/ (\E s \in Signals : Send(s) \/ Deliver(s)) PROVE TypeOK'
<1> USE LauncherAssumption
    DEF TypeOK, Places, Gone, Goto, ownVars, signalVars, childVars
<1>1. CASE ReleaseLocks
  <2>1. pc' \in Places /\ holding' \in BOOLEAN BY <1>1 DEF ReleaseLocks
  <2> QED BY <1>1, <2>1 DEF ReleaseLocks
<1>2. CASE Sweep
  <2>1. pc' \in Places /\ litter' \in BOOLEAN BY <1>2 DEF Sweep
  <2> QED BY <1>2, <2>1 DEF Sweep
<1>3. CASE StopTrap
  <2>1. pc' \in Places /\ trapped' \in BOOLEAN BY <1>3 DEF StopTrap
  <2> QED BY <1>3, <2>1 DEF StopTrap
<1>4. CASE Close BY <1>4 DEF Close
<1>5. ASSUME NEW s \in Signals, Send(s) PROVE TypeOK'
  <2>1. sent' \in 0..MaxSignals /\ inFlight' \subseteq Signals BY <1>5 DEF Send
  <2>2. doomed' \in BOOLEAN BY <1>5 DEF Send
  <2> QED BY <1>5, <2>1, <2>2 DEF Send
<1>6. ASSUME NEW s \in Signals, Deliver(s) PROVE TypeOK' BY <1>6 DEF Deliver
<1> QED BY <1>1, <1>2, <1>3, <1>4, <1>5, <1>6 DEF Unwind

\* Every variable keeps its type: in particular the status is always one a
\* process can exit with, a child a signal killed included.
THEOREM TypeCorrect == Spec => []TypeOK
<1>1. Init => TypeOK
  <2> SUFFICES ASSUME Init PROVE TypeOK
    OBVIOUS
  <2>1. pc \in Places BY Stages DEF Init, Places
  <2>2. caught \in [sig : Signals \cup {NoSignal}, in : Places \cup {"never"}]
    BY DEF Init, NotCaught
  <2>3. status \in 0..255 /\ channel \in Signals \cup {NoSignal} /\ inFlight \subseteq Signals
    BY DEF Init
  <2>4. sent \in 0..MaxSignals /\ prompts \in 0..MaxPrompts
    BY LauncherAssumption DEF Init
  <2>5. childCode \in ContainerCodes \cup {0, Killed} /\ child \in {"none", "running", "dead"}
    BY DEF Init
  <2>6. {trapped, doomed, holding, litter, flushed} \subseteq BOOLEAN BY DEF Init
  <2> QED BY <2>1, <2>2, <2>3, <2>4, <2>5, <2>6 DEF TypeOK
<1>2. TypeOK /\ CleanupInv /\ [Next]_vars => TypeOK'
  <2>1. CASE UNCHANGED vars BY <2>1 DEF TypeOK, vars
  <2> QED BY <2>1, StartupTypes, PlanTypes, ChildTypes, EndTypes DEF Next, Ended
<1> QED BY <1>1, <1>2, CleanupHolds, PTL DEF Spec
============================================================================
