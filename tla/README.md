# A verification of claude-contained in TLA+

claude-contained starts AI coding tools in a container (Docker or Apple
Containers) with the user's project mounted. The launcher is one Go process per
session. What makes it more than a command-line wrapper is the state it shares
with other launchers, with git and with the runtime: locks on linked worktrees, a
relocated account file, images under tags that name their contents, Zellij sessions
behind container names; and the promise to undo what it did however it ends.

## Inventory

| component | state | operations | hard part | what makes it correct |
|---|---|---|---|---|
| command line (`internal/cli`) | the scanned configuration | scan, validate | what a token is depends on all before it | the command comes through whole, or the call is refused |
| environment store (`internal/env`) | one ordered entry per key | set, load file, defaults | four sources, reserved keys, places kept | the highest source wins, reserved keys never |
| launch driver (`cmd/claude-contained/run.go`) | trap, channel of one signal, deferred calls, locks held | the stages of `runWith`, plan rounds, one child, unwinding | a signal at any step, a status chosen among several, exec | nothing stranded, the right status, the run ends |
| runtimes (`internal/runtime`) | none of their own | select, ensure up, list, inspect, describe | a daemon that comes and goes, reports of many shapes, absence against failure | only the named runtime is touched, what is read is what was said |
| rebuild (`rebuild.go`) | base image tag | tools refresh, then full | the second attempt, launchers that derive from the base meanwhile | last status reported, derived images notice a base that moved |
| tooling layer (`layer.go`, `internal/layer`) | derived and staging images | find, hash, probe, confirm, build, promote, remove | context or base change in between, faults, kills | the tag names what was built, no silent leftovers of a launch that ends by itself |
| Zellij session gate (`zellij.go`, `internal/zellij`) | the running containers | list, inspect, refuse | looked at long before the launch | one live session per name, no unfounded refusal |
| attach, Zellij attach (`attach.go`) | none | list, choose, exec or proxy | containers exit and names are reused while it looks; exec runs no deferred call | the right container; nothing held at exec |
| planner (`internal/plan`) | answers, applied count | `Build`, `apply`, `ask` | replaying a prefix that depends on answers | each step of the final plan applied once, in order |
| account relocation (`plan.go`, `probe.go`) | `~/.claude.json`, `~/.claude-contained/.claude.json` | five stats, then move, symlink, remove | killed between steps, overlapping runs, links | the account state is never lost, and readable |
| worktree discovery (`worktree.go`, `state.go`, `probe.go`) | none | hidden worktrees for a set of mounts | done before the mutex and before the questions | each worktree the mounted metadata can prune is offered |
| worktree auto-lock (`internal/host/worktreelock.go`) | mutex directory and its owner file; one `locked` file per linked worktree | acquire, observe, reclaim, release; add and remove an owner | no atomic primitive but `mkdir`, kills, time-outs that fail safe or fail open | a running container's hidden worktrees stay locked; the user's locks are left alone; nothing leaks |
| diagnostic stream (`internal/diagnostic`) | partial lines, first error, mutex | write, log, flush, close | two copying goroutines beside the launcher, a destination that fails half-way | whole lines, no lost tail, no success over a broken log |
| placeholder sweep (`placeholder.go`) | empty files left by the runtime | sweep | before and after a run | none left behind |
| shared skills and mount registry, image scripts, test harness | none | | | not modelled, see the end |

The driver calls everything else in one order: parse, open the stream, validate,
environment, `EnsureUp`, (rebuild or attach leave here), mounts, project file, gate,
layer, probe, trap, plan rounds, container, deferred cleanup. Launchers never talk to
each other; they meet in the file system and in the runtime's images and containers.

`PROJECT.json` lists the hazards of this code, each at its line, with the properties
that cover it or the reason why none does.

## Modules

| module | models | stands on |
|---|---|---|
| `CommandLine` | `cli.go` as functions of a sequence of tokens | |
| `ToolEnvironment` | the ordered store and its sources | |
| `FrontEnd` | one launcher from its arguments to the hand-over, beside a daemon that comes and goes | `CommandLine`, `ToolEnvironment` |
| `Launcher` | one launcher process from there on, its child and its signals | |
| `LineLog` | abstract: what becomes of relocated text | |
| `DiagnosticStream` | the stream, its writers and its destination | implements `LineLog` |
| `LayerImage` | launchers over one image store, beside edits, prunes and a base tag that moves | |
| `AppleInspect` | `parseAppleInspect` as functions of a JSON value | |
| `Sessions` | launching, Zellij-launching and attaching clients among containers | `AppleInspect` |
| `AccountSteps` | the decision of `accountStateSteps`, an operator | |
| `AccountState` | the two paths on disk, probing and applying runs | `AccountSteps` |
| `PlanBuild` | `plan.Build` as an operator, `buildAndApply` as actions | `AccountSteps` |
| `OwnerRegistry` | abstract: owners per worktree, removed only when not running | |
| `WorktreeLock` | mutex, owner lists, launchers, kills, the user | implements `OwnerRegistry` |
| `*Proofs` | theorems about the module they are named for | |
| `MC*` | instances for TLC | |

Operators marked `\* mutant` are the plausible mistakes each property was tried
against; no action uses them.

### FrontEnd, CommandLine, ToolEnvironment

`pc` is the stage; one action is one stage or one question to the outside. A call is a
sequence of tokens and a `World` (platform, launchd, files, what the project file
says). `Parse` is the silent scan that keeps the first error, `Validate` the ordered
checks after it; `SetFlags`, `ReadMounts`, `CompleteEnv` fill the store in the code's
order. `MountPath` is what `splitMountMode` and the resolving make of a `--mount`
value. `daemon` may flip between any two polls. `contacted` and `asked` are history:
which runtime's program has run, and whether the user was asked to start it. The
properties say what a command line and its sources mean by the places of the tokens,
not by a second scan. A text is a value with a number of quote pairs around it.
Sanitizing of `--name` is left out.

### Launcher

`pc` is the stage of `runWith`. `Following` and `EarlyExits` are the order of the
stages and the statuses each can return with; from `trap` on every statement that
changes state is an action. `channel` has capacity one and `Deliver` drops a second
signal, as `signal.Notify` does; without the trap a signal kills. `Send` may reach the
child's group as well (`doomed`). `WorktreeLock` is one bit here (`holding`), and
placeholder files another (`litter`). A child that cannot be started is one that exits
at once with a status of its own.

### DiagnosticStream and LineLog

A routed `Write` takes the mutex, splits what it was given at newlines and emits line
by line; the rest stays in `pending`. A destination write may fail, wholly or half-way
(a torn record); the first failure is kept in `first`. The launcher logs and prints
beside one copying goroutine per output of the child, waits for both, flushes, and
closes or is replaced. `LineLog` knows three variables a reader cares about: what each
route was given, how much was taken and what the log says; the mapping takes the text
that left `pending` as taken. A write after `Close` cannot happen in this program and
is not modelled.

### LayerImage

One action is one file read, one runtime command or one prompt. An image is what was
sent and the base it stands on; a tag is the base and the contents that were hashed,
file by file. `SendContext` copies the directory when the builder is given it,
`ResolveFrom` is the builder's own look at `FROM`. Staged builds are checked and
promoted; the staging image is removed on every way out and looked for again
(`RemoveStage`, `Recheck`). `Edit`, `PruneStage`, `MoveBase` and `Killed` are the
outside world; `Fault` is any command that fails. `MoveBase` lets the base's tag name
any other identity, an earlier one again, or nothing: a rebuild of cached layers, the
user's `tag` and `rmi`. A builder that fails may have written its image. A killed
launcher may leave its builder running (`orphan`). `named` says whether the reports of
an inspect name the image; older Apple reports do not. History: `clean`, no edit since
this launcher began to hash; `drift`, where the base's tag was between the two checks;
`built`, what the builder exited with. Files that differ in more of their mode than
the execute bit are one version (`gitMode`).

### Sessions and AppleInspect

A client lists the containers, inspects them one by one, decides at the gate, looks at
the names, and starts; or chooses one and connects. Containers exit between any two of
these, and a name freed can be taken again. `InspectEnv` renders the environment a
container has in the shape the runtime uses (strings, pairs, members; at one of four
paths; alone, or among other documents) and reads it back with the code's rules.
`atList` and `atFacts` are history: what ran when the client looked. An unanswered
question counts as nothing running, as in the code, and marks the client `blind`.
Texts hold no newline and are not empty, so that splitting lines again
(`splitEnvLines`) is left out. Names are a base and a suffix; runtimes report them in lower case already; the listing
order is any fixed one. A container's shape does not change while it runs. Zellij and
tool wrappers around the attached command are left out.

### AccountState and PlanBuild

`AccountState` has the two paths, with links, and performs each stat and each step by
itself. `PlanBuild` computes `Build(in, ans)` for every command line and set of facts:
the steps, and the prompt or error or run it ends with. Prints, directories and mounts
are reduced to one step each per stage, which is all the prefix property needs; skills
that cannot be mounted end `Build` before their directories, a conflict of mounts after
the first of them; the
.gitconfig copy, the notices of `-H` and the "creating named container" line depend on
no answer and are left out.

### WorktreeLock

One action is one system call, or one git subprocess, that another process can observe
or get in front of. `dir` is the mutex directory and records which process made it;
`stamp` is the owner file (absent, created but blank, or a pid). `lock[w]` is the
content of git's `locked` file: none, the user's reason, an auto-lock reason with its
owner tokens, or empty between the truncation and the write of `os.WriteFile`. The
owners of an empty file are history (what its writer is about to write) and no guard
reads them.

`acquireMutexContext` is `Mkdir`, `Poll`, `LookAtHolder`, `FindStale` or `FindActive`
or `TimeOut`, `ReclaimOwner`, `ReclaimDir`, `CreateOwner`, `StampOwner`; `release` is
`ReleaseOwner`, `ReleaseDir`. `addAutoLockOwner` is `StartAdd`, then `GitLock` or
`ReadForAppend`, then `Truncate`, `Write`; `removeAutoLockOwner` is `StartRemove`, then
`GitUnlock` or `Truncate`, `Write`. `Scan` and `ChooseName` come before the mutex, as
in `probeFacts`.

Five constants describe how well the machine treats the launchers, because what the
code promises depends on it:

* `QuickOwner`: nobody looks between the mkdir and the owner file ("within
  microseconds", worktreelock.go:137) or between the two Removes of a release.
* `QuickReclaim`: nobody acts between a look at the holder and the end of the reclaim it
  leads to.
* `Pace`: `prompt`, no live holder outlasts the 5 s a waiter is patient; `slow`, it may;
  `stalled`, it may also outlast the 30 s age limit.
* `MaySeal`: from some moment on git's metadata refuses changes (`sealed`). Then Mkdir
  fails, Removes of the directory fail, and the changes to files and lists fail or not,
  with what the code does about each error, which is mostly nothing.
* `MayVanish`: working trees may be deleted.

Abstractions: the edits of one loop are made in any order; a git command is atomic and
succeeds unless the worktree is already locked or unlocked; two unserialized writers of
one file are last-write-wins; process ids are not reused and `kill -0` fails only for
the dead; the scan of all worktrees is one step; what became unwritable stays so.
`SIGKILL` inside `os.WriteFile` leaves the empty file, which stays as a lock
that is nobody's.

## Runs

| run | instance | shows |
|---|---|---|
| `front_end` | every command line of up to three tokens of a grammar of twenty, two deeper families, and chosen lines in every place; the daemon flips twice; fair | a command is run whole or refused, the environment is the promised one, the offer to start a runtime is founded, waiting ends |
| `launcher_run` | 2 signals, 2 prompts, statuses 0 and 3; fair | locks, litter, statuses, the end of signalled runs |
| `stream_lines` | 2 outputs of up to 4 characters, a record, 1 write failure | success means complete, replacement loses nothing, the line log is implemented |
| `layer_images` | 2 launchers in 6 ways, 2 files of 2 contents, 2 bases, 2 moves of the base and 2 faults, or 1 edit, 1 move and 1 fault | a tag names its contents, and its base with the ADR's exception; nothing runs in place of it; a launch that ends by itself leaves no silent leftover |
| `sessions` | 2 clients of 8 calls, 4 older containers in 5 worlds and 6 report shapes, 1 unanswered question, 1 exit | the gate, refusals, attach by session, names |
| `account_serial` | 4 runs in a row, 2 killed, 14 initial homes | no lost account, readable at each start |
| `plan_rounds` | 4 projects, 2 linked worktrees, 3 mount sets, all flags | prefix replay, completeness, no prompt twice, the offer covers what is mounted |
| `lock_serialized` | 3 launchers, 2 worktrees, 1 kill, deletions; quick, prompt, no grace | mutual exclusion, running containers stay protected, no leak, the user's locks are kept, the registry is implemented |
| `lock_liveness` | 2 launchers, 1 kill; not quick, stalled, metadata that may become unwritable; fair | every launcher ends and a dead one's mutex is reclaimed, while the metadata can be written |

Three further runs end in a violation, each of something the repository says of
itself: `same_name` (two launchers of one directory and minute share an owner token),
`prompt_signal` (a signal at a prompt ends the run with status 1), `account_race` (two
overlapping first runs lose the account file). `findings` in `PROJECT.json` quotes the
sentence and tells the counterexample. The other disagreements are under "Known limits".

Why the bounds are enough. *Locks*: a lost protection needs a holder, an intruder and
a third launcher whose owner is lost, and two worktrees make a launcher edit one while
another is still to do; one poll before the grace and one or two before the limit visit
each branch of the loop, because the code compares the counter with nothing else. In
`lock_serialized` a waiter looks at once (`StaleGrace = 0`), so that it meets live
holders, which are gone by its last look, since they are prompt. The
chain of hidden worktrees (one launcher hides both, the two others one each) keeps each
file shared and halves the size. *Driver*: a second signal is what the channel of one
can lose. *Account*: a second kill meets the leftovers of the first. *Stream*: four
characters are a partial line, its end and another line; one failure, since the first
is the one kept. *Images*: two files are the least that can be hashed around an edit;
two moves take the base's tag away and back; two faults reach the
removal that fails after a build that failed. An edit is about the contents and a second
move about the base: `OneOrTheOther` keeps to one of the two in a behaviour. *Sessions*: two clients overlap in every
way two can, and an older container that exits frees the name a third party needs.
*Front end*: three tokens are a flag, its value or what looks like one, and what
follows; the families add a leading `--env` and a fourth and fifth token where the
separator matters; two flips are a daemon that comes up and goes down again.
`MaxCrashes`, `MaxSignals`, `MaxPrompts`, `MaxKills`, `MaxFaults`,
`MaxExits`, `MaxEdits`, `MaxMoves`, `MaxFlips`, `MaxGiven` and `MaxRecords` bound the
environment and are not the code's own.

Fairness. In `WorktreeLock` each launcher's steps, the exit of its container included,
are weakly fair: processes are scheduled, and the properties are about what launchers
do to each other, not about sessions that never end. In `Launcher` the launcher's own
steps after the trap and the delivery of signals are; the user need never answer; a
child is sure to end only when its group was signalled, which rests on the caught
disposition being reset on exec (run.go:396-402) and on a child that does not catch the
signal. In `FrontEnd` the poll for Docker Desktop is weakly fair, and no stage that the
launcher leaves by itself lasts for ever (`[]<>(pc # stage)`: some action is enabled
throughout each of them, so this is weak fairness of what can be done there); the
waiting stage is not among them, and the daemon owes nothing but what the property
itself assumes.

## Proofs

All theorems are checked by TLAPS for every value of the constants that satisfies the
module's assumptions, and the hypotheses named here.

| module | theorems | the argument |
|---|---|---|
| `WorktreeLockProofs` | `TypeCorrect`; `Exclusion` if quick and not stalled; `SerialEdits`, `Protection`, `UsersLock`, `NoLeak`, `Refinement` if quick, with prompt holders and writable metadata (and base names of their own) | `HolderInv`: who holds the mutex made the directory, its owner file says so whenever somebody may look, and nobody is between a look and the removal it leads to. Mutual exclusion alone is not inductive: a waiter past its look removes whatever directory is there. `SerialInv`: an editor is a holder. `LedgerInv`: where each owner is recorded (on disk, in a pending write, or under an empty file nobody touches again). `OwedInv`: whoever is on the owner list of a worktree still there was killed or will take itself off, and a list is never left empty. `Refinement`: a truncation, a git lock or a git unlock is the registry's step, everything else stutters |
| `FrontEndProofs` | `CommandRuns`, `EnvironmentPromised`, `OffersFounded` | the scan, the store and the values given are folds: `IterExists` and `Chain` turn a fold into the run of its step, and the scan is then compared with the places of the tokens from one to the next (`FlagStep`, `EndStep`, `CommandStep`, together `ParseMeans`). `Leaves`: what the first n assignments leave, in what order; it is kept by every way the store takes the next one, given that the assignments of one source stand together. `FrontInv`: what each stage knows of the call and has in the store, and that whoever was contacted or offered is the runtime of a call found right |
| `LauncherProofs` | `TypeCorrect`, `NothingLeftBehind`, `ReplacedClean`, `LocksLast`, `EarlySignals`, `SignalsDecide`, `TrueSuccess` | `CleanupInv`: what each place of `runWith` goes with; `SignalInv`: where the first caught signal is |
| `DiagnosticStreamProofs` | `TypeCorrect`, `Refinement`, `SuccessComplete`, `ReplacesIntact` | `StreamInv`: what is buffered is the end of what was given; `LineInv`: a whole line is buffered only while its writer holds the mutex, so that the tail a flush publishes is no line torn from its rest. `WholeInv`: while the stream reports no failure, what the log tells of a route and what is buffered of it are together what it was given. `FlattenSeq` and `Printed` are recursive: the lemmas `FlattenAppend`, `PrintedJoin` and `PrintedPlain` get what they compute from a least counterexample instead of an induction theorem |
| `LayerImageProofs` | `TypeCorrect`, `BaseCorrect`, `ContentCorrect`, `RunCorrect`, `LeftoversCorrect` | `PhaseInv`: what a launcher knows where it stands; `BaseInv`: while the base's tag stays what it was at the first check of a staged build, the builder can have resolved nothing else, and where it did not stay `drift` says so; `CleanInv`: while nobody edits, what was hashed begins the directory, and what was sent, staged and tagged is what was hashed; `RunInv`, `WarnInv` for the last two |
| `PlanBuildProofs` | `Prefix`, `Complete`, `PromptsOnce`, `MigrationsWhole`; `HiddenLocked` if `MetadataIsTheProjects` | the lemma `AnswerExtends`: one more answer to the pending prompt extends the list of steps and takes nothing away. `PlanInv`: what is applied is a prefix of what the facts and answers give; `AskedInv`: what was asked is answered |
| `AccountStateProofs` | `StateSurvives`, `ReadableAtStart` if `Serial` and without the start state `Misread` | `SerialInv`: one run at a time is under way; `HomeInv`: the home is one of four that hold the account state, and the run under way has found, and has still to do, exactly what that home calls for |
| `SessionsProofs` | `FreshNames`; `GateKept`, `RefusalsTrue`, `AttachesToOne` if `SessionsReadable` | of n + 1 names one is free of n. `ListInv`: what was listed runs unchanged or is gone, and what else runs was started since; `RecordInv`: every record is of a container started for its session; `CoverInv`: every session listed is still to be inspected, or on record, or in nobody's way |

Hypotheses. *quick, prompt, writable, own base names*: see `WorktreeLock`; the limits
below and the run `same_name` are what happens without them. `MetadataIsTheProjects` says that the repository's metadata
comes with the project mount and no other. `Serial` and `Misread`: see the limits.
`SessionsReadable` says that whichever shape an environment is reported in, the session
a container was started for is read back; `MCPlanBuild` and `MCSessions` assume the two
formulas by name, so that TLC evaluates them on the instances of `plan_rounds` and
`sessions` (for `sessions`, over every shape it uses).

What each strengthening is for is said above it; `SerialEdits`, `HolderInv`,
`LedgerInv` and `NoLostUpdate` are such strengthenings and are not checked as properties
of runs. `Exclusion` needs neither prompt holders nor writable metadata: where the
directory can be neither removed nor made anew, whoever holds it keeps it. `lock_serialized`
checks it for prompt holders and writable metadata only.

`BaseCorrect` says what `TagNamesBase` says, the exception included: nothing is claimed
of an image whose base was moved and moved back between the two checks.
`LeftoversCorrect` is about launches that end by themselves; a killed one cleans up
nothing. `CommandRuns` says of every call whose flags are right whether it is refused.

`FrontEndProofs` rests on `FrontEndAssumption` alone: a call is a sequence of tokens in
a place, and the launcher's own values (the time zone and the GitHub token) have
different keys. Its meaning of a command line (`IsValue`, `Boundary`, `CommandGiven`,
`ValuesGiven`) is told by places and shares no step with `Scan`.

Only model-checked: liveness (fairness and `ENABLED` are beyond the prover), and that
environments are readable, since `InspectLines` descends through a tree.

## Known limits of the code, seen while modelling

Besides the findings, each of these is reproduced by changing a constant, or adding a
definition already in the module to a configuration, unless it says otherwise.

* *Locks, not quick.* With `QuickReclaim = FALSE` in `lock_serialized`,
  `MutualExclusion` fails: a waiter that looked removes the directory another has just
  made anew, against worktreelock.go:28 ("serializes owner-list edits").
* *Locks, slow holders.* With `Pace = "slow"`, two launchers and one worktree,
  `ProtectedWhileRunning` fails: a cleanup is about to unlock a worktree when a launcher
  that ran out of patience adds its owner without the mutex; the unlock takes the lock
  of a running container. worktreelock.go:320-322 says that a racing append "at worst
  leaks a lock". `UserLockKept` and `NothingLeaks` fail in the same way.
* *Locks, unwritable metadata.* Every error of `Mkdir` counts as contention, a directory
  without owner file as stale; the errors of the Removes are ignored, and the count
  starts again without a sleep (worktreelock.go:47-51, 71-80). Where `.git` cannot be
  written, a launcher goes round this loop for ever, although worktreelock.go:25 calls
  the limit "iterations before giving up". `EveryLauncherEnds` and `StaleHoldReclaimed`
  except it by their `sealed`, and fail in `lock_liveness` without.
* *Truncated lists.* `SkippedStaysProtected` fails with three launchers that all hide one
  worktree: a scan that reads a `locked` file between truncation and write takes an
  auto-lock for a user's, leaves the worktree out "because it is already protected"
  (worktree.go:37-39), and the owner then removes it.
* *Dead owners.* `StaleOwnersReclaimed` fails after one kill, in `lock_liveness` with
  `MaySeal = FALSE`: the owner token of a killed launcher is never looked at again,
  although USAGE.md:68 says "stale launcher locks are reclaimed on a later run".
* *Commands that begin with a dash.* `SeparatorIsLegal` fails in `front_end`. USAGE.md:11
  and ADR-0009:97-100 give a command whose first token looks like a flag as the use of
  `--` ("`claude-contained -- --model sonnet`"); cli.go:224-232 refuses exactly it.
* *Commands beside `-R`.* `CommandBesideRebuild` fails in `front_end`: ADR-0009:127-128
  lets `--` introduce a command beside `-R`, and the validation refuses it
  (cli.go:676-680). `CommandRunsOrIsRefused` states which calls the code refuses, these
  two kinds among them.
* *Environment at an attach.* `AttachChangesNoEnvironment` fails in `front_end`: USAGE.md:413
  and help_contained.txt:96-98 say that environment changes do not apply when attaching;
  a plain attach hands the values of `-e` to the command it executes (run.go:195,
  attach.go:207-220). `EnvironmentAsPromised` is about launches.
* *Status of a layer build.* `BuilderStatusCarried` fails in `layer_images` with
  `BuilderCodes = {1, 3}`: USAGE.md:281 and ADR-0006:156 announce "the builder's own exit
  status", and layer.go:206 returns a plain failure.
* *Blank owner file.* A launcher killed between creating and filling its owner file
  leaves a mutex that is never stale: pid 0 and no time count as an active holder.
  `StaleHoldReclaimed` leaves that state out (`stamp # "blank"`), and fails with it.
* *Metadata by `-m`.* With the main worktree among the extra mounts of a project outside
  it, its metadata is mounted, no candidate is computed, and the offer is not made.
  `ExtrasApart` leaves this mount out; with it `MetadataIsTheProjects` and
  `HiddenWorktreesProtected` fail.
* *The user's own link.* A link from `~/.claude.json` to a real file is removed when
  nothing is shared yet: the repair tests only for a link and a missing shared file.
  `Homes` leaves this start state out; with it `ReadableWhenStarted` fails. Where the
  link dangles and a shared file exists, every launch fails at the symlink step.
* *Edits while hashing.* A file edited after it was hashed and before the directory is
  sent gives a tag contents it does not name, and the tag is then found and used
  (layer.go:138-139). `CleanImagesMatch` without its `clean` fails.
* *Base moved and moved back.* Where the tag of the base is moved and put back between
  the two checks of a staged build, the image may stand on what it named in between
  (ADR-0007:61-63). `TagNamesBase` without its exception fails in `layer_images`.
* *Staging images.* Where the probe after a failed removal fails as an absent
  image does, a staging image stays behind without a warning: `LeftoversReported`
  without `faults' = faults` fails. A launcher killed during a staged build leaves its
  image too. Where the reports of Apple's inspect carry no name, a warning is given of
  an image that is gone.
* *Late refusals.* A `-C` directory that is mounted read-only, an unknown rebuild
  mode, a bad `--build-context` or `--layer` are refused only after the user was asked to
  start the runtime.
* *Late signals.* A signal between the last check and the start of the container is
  reported only when the container ends.
* *Overlapping launches* into one Zellij session are both let through: the gate sees
  what runs, not what is about to.
* *Deleted working trees* keep their auto-lock in git's metadata: `removeAutoLockOwner`
  returns before it looks at the list. `NothingLeaks` is about trees still present.

## Not modelled

* *Shared skills and mount registry* (`mounts.go`, `sharedskills.go`): path arithmetic
  over the mount list inside one planning round; nothing outlives the call. Its outcome,
  fine, a conflict, or skills that cannot be mounted, enters the planner.
* *Placeholder files*: one bit of litter. The guards on a file (regular, empty, no
  link, not tracked by git) are tests made one after another before the `Remove`, and a
  file that is filled in between is lost; what a container still does with a mount point
  another launcher sweeps is decided by the runtime.
* *Prompter*: how far a `bufio.Reader` reads ahead of the container depends on the
  timing of the terminal or pipe.
* *Runtimes*: rendering of arguments. *Worktree discovery*: parsing of git's output.
  *Stream*: securing the log file. *Names*: sanitizing. *Planner*: the arguments of the
  container run, the .gitconfig copy.
* *Image scripts*: shell run inside the container, set-up of users, sandbox and sockets.
* *Composition* of `Launcher` with `WorktreeLock` in place of the bit `holding`: the
  driver's part of the contract is `NothingStranded` and `LocksOutliveChild`, the lock's
  part `ProtectedWhileRunning`; their product is beyond what TLC explores in minutes.
* Wording of messages, file modes, the test harness.
