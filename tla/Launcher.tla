------------------------------ MODULE Launcher ------------------------------
(***************************************************************************)
(* One launcher process: runWith in cmd/claude-contained/run.go, with the  *)
(* attach and rebuild ways out, the signals that reach it and its child,   *)
(* and the deferred calls that run on every return.  The worktree locks    *)
(* are one bit here (held or not); WorktreeLock is their own model.        *)
(***************************************************************************)
EXTENDS Naturals

CONSTANTS
  Signals,        \* numbers of the signals caught (SIGHUP, SIGINT, SIGTERM)
  ContainerCodes, \* statuses a container can exit with by itself
  MaxSignals,     \* signals sent in one behaviour (model bound)
  MaxPrompts,     \* prompts plan.Build asks in one run (model bound)
  NoSignal

ASSUME LauncherAssumption ==
  /\ Signals \subseteq 1..127
  /\ ContainerCodes \subseteq 0..255
  /\ MaxSignals \in Nat /\ MaxPrompts \in Nat
  /\ NoSignal \notin Signals

VARIABLES
  pc,       \* where runWith is
  status,   \* what it is about to return
  trapped,  \* catchInterrupts has been called and not stopped
  channel,  \* the signal in the channel of capacity one
  inFlight, \* signals sent to the launcher, not delivered yet
  sent,     \* number of signals sent so far
  child,    \* the runtime process: "none", "running", "dead"
  childCode,\* its exit code as Go reports it; Killed when a signal ended it
  doomed,   \* the running child's process group was signalled
  prompts,  \* prompts asked so far
  holding,  \* worktree locks are held
  litter,   \* a container may have left placeholder files
  caught,   \* history: first signal caught since the trap, and when
  flushed   \* the diagnostic stream was flushed before a replacement

ownVars == <<status, prompts, holding, litter, flushed>>
signalVars == <<trapped, channel, inFlight, sent, caught>>
childVars == <<child, childCode, doomed>>
vars == <<pc, status, trapped, channel, inFlight, sent, child, childCode,
          doomed, prompts, holding, litter, caught, flushed>>

Killed == 256            \* ExitCode() = -1
NotCaught == [sig |-> NoSignal, in |-> "never"]
SignalExit(s) == 128 + s \* signalExitCode
\* os.Exit of a code as Go reports it.
AsReported(code) == code                                         \* mutant
KillIsSuccess(code) == IF code = Killed THEN 0 ELSE code         \* mutant
OwnExit(code) == IF code = Killed THEN 255 ELSE code
ChildCodes == ContainerCodes \cup {Killed}

\* What runWith does before it installs the trap, in order.
Following ==
  [parse |-> "level", level |-> "open", open |-> "validate",
   validate |-> "select", select |-> "envFlags", envFlags |-> "shareSkills",
   shareSkills |-> "ensureUp", ensureUp |-> "dispatch", dispatch |-> "mounts",
   mounts |-> "envFile", envFile |-> "injection", injection |-> "gate",
   gate |-> "layer", layer |-> "probe", probe |-> "trap"]

\* The statuses each of those can return early with.
EarlyExits ==
  [parse |-> {0}, level |-> {2}, open |-> {2}, validate |-> {2},
   select |-> {2}, envFlags |-> {2}, shareSkills |-> {2}, ensureUp |-> {1},
   dispatch |-> {}, mounts |-> {2}, envFile |-> {2}, injection |-> {2},
   gate |-> {1}, layer |-> {1, 2}, probe |-> {1}, trap |-> {}]

\* The stream exists from here on, and the deferred Close with it.
AfterOpen == DOMAIN EarlyExits \ {"parse", "level", "open"}

Gone == {"killed", "exited", "replaced"}
Goto(where) == pc' = where

Init ==
  /\ pc = "parse" /\ status = 0
  /\ trapped = FALSE /\ channel = NoSignal /\ inFlight = {} /\ sent = 0
  /\ child = "none" /\ childCode = 0 /\ doomed = FALSE
  /\ prompts = 0 /\ holding = FALSE /\ litter = FALSE
  /\ caught = NotCaught /\ flushed = FALSE
----------------------------------------------------------------------------
(* Before the trap.                                                        *)

\* A check fails (or --help was asked for): return, closing the stream last.
ExitEarly ==
  /\ pc \in DOMAIN EarlyExits
  /\ \E code \in EarlyExits[pc] : status' = code
  /\ Goto(IF pc \in AfterOpen THEN "close" ELSE "exited")
  /\ UNCHANGED <<signalVars, childVars, prompts, holding, litter, flushed>>

Proceed ==
  /\ pc \in DOMAIN Following
  /\ Goto(Following[pc])
  /\ UNCHANGED <<ownVars, signalVars, childVars>>

\* --rebuild: its children are waited for with no trap installed, and the last
\* build's status is the launcher's.
Rebuild ==
  /\ pc = "dispatch"
  /\ status' \in {0, 1, 2} \cup {OwnExit(code) : code \in ChildCodes}
  /\ Goto("close")
  /\ UNCHANGED <<signalVars, childVars, prompts, holding, litter, flushed>>

\* execDecision installs a trap only to proxy its child (--log-only).
TrapAlways(where) == trapped' = TRUE                             \* mutant
TrapFor(where) == trapped' = (where = "flushProxy")

\* --attach, plain or Zellij: a decision without an exec, or execDecision.
AttachDecides ==
  /\ pc = "dispatch"
  /\ \/ status' \in {0, 1} /\ Goto("close") /\ UNCHANGED trapped
     \/ /\ \E where \in {"flush", "flushProxy"} : Goto(where) /\ TrapFor(where)
        /\ UNCHANGED status
  /\ UNCHANGED <<channel, inFlight, sent, caught, childVars, prompts, holding,
                 litter, flushed>>

\* The stream is flushed before the process is replaced or proxies.
Flush ==
  /\ pc \in {"flush", "flushProxy"}
  /\ \/ /\ flushed' = TRUE
        /\ Goto(IF pc = "flush" THEN "replace" ELSE "proxy")
        /\ UNCHANGED status
     \/ status' = 1 /\ Goto("stop") /\ UNCHANGED flushed
  /\ UNCHANGED <<signalVars, childVars, prompts, holding, litter>>

Replace ==
  /\ pc = "replace"
  /\ \/ Goto("replaced") /\ UNCHANGED status
     \/ status' = 127 /\ Goto("close")
  /\ UNCHANGED <<signalVars, childVars, prompts, holding, litter, flushed>>

\* catchInterrupts, and the deferred cleanup registered after it.
Trap ==
  /\ pc = "trap"
  /\ trapped' = TRUE
  /\ Goto("apply")
  /\ UNCHANGED <<ownVars, channel, inFlight, sent, caught, childVars>>
----------------------------------------------------------------------------
(* buildAndApply.                                                          *)

\* The WorktreeAutoLock step, at most one in a plan.
ApplyLock ==
  /\ pc = "apply" /\ ~holding
  /\ holding' = TRUE
  /\ UNCHANGED <<pc, status, prompts, litter, flushed, signalVars, childVars>>

\* A step fails, or Build does: a --share-skills conflict is a usage error.
ApplyFails ==
  /\ pc = "apply"
  /\ status' \in {1, 2}
  /\ Goto("release")
  /\ UNCHANGED <<prompts, holding, litter, flushed, signalVars, childVars>>

\* The round ends with a prompt to ask, or with a complete program.
RoundEnds ==
  /\ pc = "apply"
  /\ \/ prompts < MaxPrompts /\ prompts' = prompts + 1 /\ Goto("ask")
     \/ Goto("check") /\ UNCHANGED prompts
  /\ UNCHANGED <<status, holding, litter, flushed, signalVars, childVars>>

Answer ==
  /\ pc = "ask"
  /\ Goto("apply")
  /\ UNCHANGED <<ownVars, signalVars, childVars>>

EndOfInput ==
  /\ pc = "ask"
  /\ status' = 1
  /\ Goto("release")
  /\ UNCHANGED <<prompts, holding, litter, flushed, signalVars, childVars>>

AskDeaf == FALSE                                                 \* mutant
\* ask's select takes the signal out of the channel; its caller returns 1.
AskInterrupted ==
  /\ pc = "ask" /\ channel # NoSignal
  /\ channel' = NoSignal
  /\ status' = 1
  /\ Goto("release")
  /\ UNCHANGED <<prompts, holding, litter, flushed, trapped, inFlight, sent,
                 caught, childVars>>

CheckNothing ==                                                  \* mutant
  pc = "check" /\ Goto("run") /\ UNCHANGED <<ownVars, signalVars, childVars>>
\* ints.pending() between the plan and the container.
CheckPending ==
  /\ pc = "check"
  /\ \/ /\ channel # NoSignal
        /\ status' = SignalExit(channel) /\ channel' = NoSignal
        /\ Goto("release")
     \/ channel = NoSignal /\ Goto("run") /\ UNCHANGED <<status, channel>>
  /\ UNCHANGED <<prompts, holding, litter, flushed, trapped, inFlight, sent,
                 caught, childVars>>
----------------------------------------------------------------------------
(* The child: the container, or the runtime's exec of a proxied attach.    *)

AfterSpawn == IF pc = "run" THEN "release" ELSE "stop"           \* mutant
WaitFor == IF pc = "run" THEN "wait" ELSE "proxyWait"
Spawn ==
  /\ pc \in {"run", "proxy"}
  /\ child' = "running"
  /\ litter' = (litter \/ pc = "run")
  /\ Goto(WaitFor)
  /\ UNCHANGED <<status, prompts, holding, flushed, signalVars, childCode, doomed>>

ChildExits ==
  /\ child = "running"
  /\ child' = "dead"
  /\ childCode' \in ChildCodes
  /\ UNCHANGED <<pc, ownVars, signalVars, doomed>>

Waiting == pc \in {"wait", "proxyWait"} /\ child = "dead"
ReturningBare(code) == status' = code /\ Goto("stop")            \* mutant
Returning(code) ==
  /\ status' = code
  /\ Goto(IF pc = "wait" THEN "release" ELSE "stop")

\* awaitPendingSignal finds a signal: at once, or within its bounded poll.
SignalAtEnd ==
  /\ Waiting /\ channel # NoSignal
  /\ Returning(SignalExit(channel))
  /\ channel' = NoSignal
  /\ UNCHANGED <<prompts, holding, litter, flushed, trapped, inFlight, sent,
                 caught, childVars>>

NeverLooked == TRUE                                              \* mutant
NoSignalFound == channel = NoSignal /\ (childCode = Killed => inFlight = {})

\* It finds none; after a kill only when the poll ran out, which the half
\* second it lasts makes impossible while a signal is still on its way.
OwnStatus ==
  /\ Waiting /\ NoSignalFound
  /\ Returning(OwnExit(childCode))
  /\ UNCHANGED <<prompts, holding, litter, flushed, signalVars, childVars>>
----------------------------------------------------------------------------
(* The deferred calls, last registered first.                              *)

ReleaseLocks ==
  /\ pc = "release"
  /\ holding' = FALSE
  /\ Goto("sweep")
  /\ UNCHANGED <<status, prompts, litter, flushed, signalVars, childVars>>

\* CleanupPlaceholderFiles on every mounted root.
Sweep ==
  /\ pc = "sweep"
  /\ litter' = FALSE
  /\ Goto("stop")
  /\ UNCHANGED <<status, prompts, holding, flushed, signalVars, childVars>>

StopTrap ==
  /\ pc = "stop"
  /\ trapped' = FALSE
  /\ Goto("close")
  /\ UNCHANGED <<ownVars, channel, inFlight, sent, caught, childVars>>

\* stream.Close: an error turns a success into a failure, nothing else.
Close ==
  /\ pc = "close"
  /\ \/ UNCHANGED status
     \/ status' = IF status = 0 THEN 1 ELSE status
  /\ Goto("exited")
  /\ UNCHANGED <<prompts, holding, litter, flushed, signalVars, childVars>>
----------------------------------------------------------------------------
(* Signals.                                                                *)

\* A signal is sent to the launcher, or to the whole process group.
Send(s) ==
  /\ pc \notin Gone /\ sent < MaxSignals /\ s \notin inFlight
  /\ sent' = sent + 1
  /\ inFlight' = inFlight \cup {s}
  /\ \/ child = "running" /\ doomed' = TRUE
     \/ UNCHANGED doomed
  /\ UNCHANGED <<pc, ownVars, trapped, channel, caught, child, childCode>>

\* signal.Notify never blocks: a second signal is dropped.  Without the trap
\* the default action ends the process and no deferred call runs.
Deliver(s) ==
  /\ pc \notin Gone /\ s \in inFlight
  /\ inFlight' = inFlight \ {s}
  /\ \/ /\ trapped
        /\ channel' = IF channel = NoSignal THEN s ELSE channel
        /\ caught' = IF caught = NotCaught THEN [sig |-> s, in |-> pc] ELSE caught
        /\ UNCHANGED pc
     \/ ~trapped /\ Goto("killed") /\ UNCHANGED <<channel, caught>>
  /\ UNCHANGED <<ownVars, trapped, sent, childVars>>
----------------------------------------------------------------------------
Unwind == ReleaseLocks \/ Sweep \/ StopTrap \/ Close
Attach == AttachDecides \/ Flush \/ Replace
Plan == ApplyLock \/ ApplyFails \/ RoundEnds \/ AskInterrupted \/ CheckPending
User == Answer \/ EndOfInput
Child == Spawn \/ SignalAtEnd \/ OwnStatus

Ended == pc \in Gone /\ UNCHANGED vars

Next ==
  \/ ExitEarly \/ Proceed \/ Rebuild \/ Attach \/ Trap
  \/ Plan \/ User \/ Child \/ ChildExits \/ Unwind
  \/ \E s \in Signals : Send(s) \/ Deliver(s)
  \/ Ended

Spec == Init /\ [][Next]_vars

\* Once the trap is set the launcher's own steps and the delivery of signals
\* happen; a user need not answer, and a child ends for sure only when its
\* group was signalled.
FairSpec ==
  /\ Spec
  /\ WF_vars(Plan) /\ WF_vars(Child) /\ WF_vars(Unwind)
  /\ WF_vars(doomed /\ ChildExits)
  /\ \A s \in Signals : WF_vars(Deliver(s))
----------------------------------------------------------------------------
(* Properties.                                                             *)

Places == DOMAIN EarlyExits \cup Gone \cup
  {"flush", "flushProxy", "replace", "proxy", "proxyWait", "apply", "ask", "check", "run",
   "wait", "release", "sweep", "stop", "close"}

\* Every variable has its type.
TypeOK ==
  /\ pc \in Places /\ status \in 0..255
  /\ trapped \in BOOLEAN /\ channel \in Signals \cup {NoSignal}
  /\ inFlight \subseteq Signals /\ sent \in 0..MaxSignals
  /\ child \in {"none", "running", "dead"}
  /\ childCode \in ContainerCodes \cup {0, Killed} /\ doomed \in BOOLEAN
  /\ prompts \in 0..MaxPrompts /\ holding \in BOOLEAN
  /\ litter \in BOOLEAN /\ flushed \in BOOLEAN
  /\ caught \in [sig : Signals \cup {NoSignal}, in : Places \cup {"never"}]

Planning == {"apply", "ask", "check"}
Supervising == {"check", "run", "wait", "proxy", "proxyWait"}
Unwinding == {"release", "sweep", "stop", "close", "exited"}

\* "Deferred cleanup does not run on a direct exit" (ADR-0004): however the
\* process ends - return, signal, exec - it leaves no lock and no container
\* litter behind, a signal during the cleanup included (run.go:325-338).
NothingStranded == pc \in Gone => ~holding /\ ~litter

\* "Nothing is held that exec would strand" (attach.go:40): a replaced process
\* held nothing, had no trap installed and had flushed its stream.
ReplacementHoldsNothing == pc = "replaced" => ~holding /\ ~trapped /\ flushed

\* The locks protect the container to its end: they are given up only when no
\* child of the launcher runs.
LocksOutliveChild == [][holding /\ ~holding' => child # "running"]_vars

\* "A signal that arrived during the run wins over the container's own status"
\* (run.go:358), from the check before the start to the end of the wait.
SignalReported ==
  pc = "exited" /\ caught.in \in Supervising => status = SignalExit(caught.sig)

\* A signal caught "while building/applying the plan wins over launching the
\* container at all" (run.go:345): no container starts after it.
EarlySignalStopsLaunch == caught.in \in Planning => child = "none"

\* Success is reported only for a child that succeeded and for no run that a
\* signal cut short, whatever closing the stream adds to the status.
NoFalseSuccess ==
  pc = "exited" /\ status = 0 =>
    /\ child # "none" => child = "dead" /\ childCode = 0
    /\ caught.in \notin Planning \cup Supervising

\* A signal caught at a prompt, and one that reached the child's group, each
\* bring the launcher to its end without any further input.
SignalEndsRun ==
  (doomed \/ (pc = "ask" /\ channel # NoSignal)) ~> pc \in Gone

\* The caller of ask tells a signal from the end of input "via ints.pending()"
\* (run.go:596): the signal that aborts a prompt is the exit status.
PromptSignalReported ==
  [][pc = "ask" /\ channel # NoSignal /\ channel' = NoSignal
       => status' = SignalExit(channel)]_vars
----------------------------------------------------------------------------
(* What each place of runWith goes with: why the properties above hold.    *)

\* Locks and litter exist only where a trap protects the calls that undo them.
CleanupInv ==
  /\ pc \in Planning \cup Supervising \cup {"release", "sweep"} => trapped
  /\ holding => pc \in Planning \cup {"run", "wait", "release"}
  /\ litter => pc \in {"wait", "release", "sweep"}
  /\ child = "running" => pc \in {"wait", "proxyWait"}
  /\ child # "none" => pc \in {"wait", "proxyWait", "killed"} \cup Unwinding
  /\ pc = "flush" => ~trapped
  /\ pc = "flushProxy" => trapped
  /\ pc \in {"replace", "replaced"} => flushed /\ ~trapped

\* The first signal stays in the channel until the check that reports it.
SignalInv ==
  /\ channel \in Signals \cup {NoSignal}
  /\ caught = NotCaught => channel = NoSignal
  /\ caught.in # "never" => caught.sig \in Signals
  /\ caught.in \in Planning =>
       /\ child = "none"
       /\ pc \in Planning \cup Unwinding \cup {"killed"}
       /\ pc \in Planning => channel # NoSignal
       /\ pc \in Unwinding => status # 0
  /\ caught.in \in Supervising =>
       /\ pc \in Supervising \cup Unwinding \cup {"killed"}
       /\ pc \in Supervising => channel = caught.sig
       /\ pc \in Unwinding => status = SignalExit(caught.sig)
  /\ pc \in Unwinding /\ status = 0 /\ child # "none" => child = "dead" /\ childCode = 0
============================================================================
