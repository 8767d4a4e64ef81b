------------------------------ MODULE FrontEnd ------------------------------
(***************************************************************************)
(* runWith from the command line to the start of the real work: in which   *)
(* order a launcher refuses, asks and touches things, and what it hands on *)
(* (cmd/claude-contained/run.go, EnsureUp and Select of internal/runtime). *)
(* The container runtime's daemon comes and goes behind its back.  What    *)
(* follows the hand-over is the matter of Sessions, LayerImage, PlanBuild, *)
(* WorktreeLock and Launcher.                                              *)
(***************************************************************************)
EXTENDS CommandLine, ToolEnvironment

CONSTANTS
  Cases,        \* calls: pairs of a sequence of tokens and a World
  Meaning,      \* the assignment a value of --env spells, by value
  IllFormedSessions,  \* session names the pattern does not match
  ReadOnly,     \* values that end in :ro
  ReadWrite,    \* values that end in :rw
  MountPath,    \* the path a value of --mount names, without the mode, resolved
  Dirs,         \* values that name a directory
  Checkouts,    \* values that name a directory with a Dockerfile
  BuilderCodes, \* exit statuses of a failed image build
  MaxFlips      \* bound: how often the daemon comes up or goes down by itself

\* Where a launcher is called: `dock' whether its own name selects Docker,
\* `file' and `injection' the project's env and command injection files, with
\* the lines of the one and the program-to-flag map of the other, `self'
\* whether the launcher was installed inside a checkout.
Files == {"absent", "unreadable", "regular"}
World == [platform : {"darwin", "linux"}, dock : BOOLEAN, envRuntime : STRING,
          envLevel : STRING, stream : BOOLEAN, launchd : BOOLEAN, file : Files,
          lines : Seq([key : STRING, text : STRING, quotes : Nat]),
          builtins : Seq([key : STRING, text : STRING, quotes : Nat]),
          injection : Files, injected : Seq(Seq(STRING)),
          buildContext : STRING, self : BOOLEAN]

ASSUME FrontEndAssumption ==
  /\ Cases \subseteq Seq(Token) \X World
  /\ \A c \in Cases : \A i, j \in DOMAIN c[2].builtins :   \* TZ and GH_TOKEN
       c[2].builtins[i].key = c[2].builtins[j].key => i = j
  /\ MaxFlips \in Nat

VARIABLES
  args, world,  \* the tokens of the command line, and where it is given
  pc,           \* the stage the launcher is in
  cfg,          \* the parsed command line
  runtime,      \* the runtime selected
  store,        \* the environment so far
  modes,        \* the modes of the extra mounts
  attempts,     \* the image builds a rebuild has still to try
  litter,       \* empty placeholder files lie in the project directory
  daemon,       \* the runtime answers
  flips,        \* how often it came or went by itself
  contacted,    \* history: the runtimes whose program was started
  asked,        \* history: the user was asked to have the runtime started
  outcome       \* what was handed on, or the exit status

vars == <<args, world, pc, cfg, runtime, store, modes, attempts, litter, daemon, flips,
          contacted, asked, outcome>>

Levels == {"debug", "info", "warn", "error", "off"}
Running == [kind |-> "running", status |-> 0, command |-> <<>>, env |-> <<>>]
Ended(status) == [Running EXCEPT !.kind = "exit", !.status = status]
Finish(o) == pc' = "done" /\ outcome' = o
Exit(status) == Finish(Ended(status))
Goto(stage) == pc' = stage /\ UNCHANGED outcome
----------------------------------------------------------------------------
(* Which runtime.  The choice is total; the complaint about it comes later.*)

DefaultRuntime(w) == IF w.dock \/ w.platform # "darwin" THEN "docker" ELSE "apple"
EnvironmentFirst(c, w) ==       \* mutant
  IF w.envRuntime \in {"apple", "docker"} THEN w.envRuntime
  ELSE IF Value(c, Runtime) \in {"apple", "docker"} THEN Value(c, Runtime) ELSE DefaultRuntime(w)
Select(c, w) ==
  IF Value(c, Runtime) \in {"apple", "docker"} THEN Value(c, Runtime)
  ELSE IF w.envRuntime \in {"apple", "docker"} THEN w.envRuntime ELSE DefaultRuntime(w)

\* Only the source used is looked at.
ValidSelection(c, w) ==
  LET used == IF Value(c, Runtime) # "" THEN Value(c, Runtime) ELSE w.envRuntime
  IN  used \in {"", "docker"} \/ (used = "apple" /\ w.platform = "darwin")

\* The level the flag, the environment or --log-only asks for is a level.
LevelResolves(c, w) ==
  IF IsSet(c, "--log-level") THEN Value(c, "--log-level") \in Levels
  ELSE w.envLevel \in Levels \cup {""}
----------------------------------------------------------------------------
Init ==
  /\ \E c \in Cases : args = c[1] /\ world = c[2]
  /\ pc = "parse" /\ cfg = Blank /\ runtime = "" /\ store = Empty
  /\ modes = <<>> /\ attempts = <<>> /\ litter = TRUE
  /\ daemon \in BOOLEAN /\ flips = 0
  /\ contacted = {} /\ asked = FALSE /\ outcome = Running

\* Help is printed for the runtime selected, whatever else is wrong; then the
\* stream must open before anything is reported.
ParseArgs ==
  /\ pc = "parse"
  /\ cfg' = Parse(args)
  /\ runtime' = Select(cfg', world)
  /\ IF cfg'.help THEN Finish([Running EXCEPT !.kind = "help"])
     ELSE IF LevelResolves(cfg', world) /\ world.stream THEN Goto("validate")
     ELSE Exit(2)
  /\ UNCHANGED <<args, world, store, modes, attempts, litter, daemon, flips, contacted, asked>>

CheckCommandLine ==
  /\ pc = "validate"
  /\ IF Validate(cfg, IllFormedSessions) = NoFailure /\ ValidSelection(cfg, world)
     THEN Goto("environment") ELSE Exit(2)
  /\ UNCHANGED <<args, world, cfg, runtime, store, modes, attempts, litter, daemon, flips,
                 contacted, asked>>

FlagValues(c) == [i \in DOMAIN c.val["--env"] |-> Meaning[c.val["--env"][i]]]

SetFlags ==
  /\ pc = "environment"
  /\ store' = SetAll(store, FlagValues(cfg), "flag")
  /\ LET skills == Value(cfg, "--share-skills")
     IN  IF store'.refused \/ skills \notin Dirs \cup {""} THEN Exit(2) ELSE Goto("probe")
  /\ UNCHANGED <<args, world, cfg, runtime, modes, attempts, litter, daemon, flips,
                 contacted, asked>>
----------------------------------------------------------------------------
(* EnsureUp.  Only an application on macOS can be started from here.       *)

Startable == world.platform = "darwin" /\ (runtime = "apple" => world.launchd)

ProbeRuntime ==
  /\ pc = "probe"
  /\ contacted' = contacted \cup {runtime}
  /\ IF daemon THEN Goto("ready") ELSE IF Startable THEN Goto("confirm") ELSE Exit(1)
  /\ UNCHANGED <<args, world, cfg, runtime, store, modes, attempts, litter, daemon, flips, asked>>

\* Docker Desktop is opened, if it can be; Apple's system is started by a
\* command whose result counts.
Confirm ==
  /\ pc = "confirm"
  /\ asked' = TRUE
  /\ \/ Exit(1)
     \/ Goto(IF runtime = "docker" THEN "wait" ELSE "start")
  /\ UNCHANGED <<args, world, cfg, runtime, store, modes, attempts, litter, daemon, flips, contacted>>

StartApple ==
  /\ pc = "start"
  /\ \/ daemon' = TRUE /\ Goto("ready")
     \/ UNCHANGED daemon /\ Exit(1)
  /\ UNCHANGED <<args, world, cfg, runtime, store, modes, attempts, litter, flips, contacted, asked>>

TrustsFirstProbe == pc = "wait" /\ daemon /\ ~asked /\ Goto("ready")   \* mutant
\* The poll that finds the daemon up; before it, sleeping and polls in vain.
Answered == pc = "wait" /\ daemon /\ Goto("ready")

PollDocker ==
  /\ Answered
  /\ UNCHANGED <<args, world, cfg, runtime, store, modes, attempts, litter, daemon, flips,
                 contacted, asked>>

Sleeps == pc = "wait" /\ UNCHANGED vars

DaemonFlips ==
  /\ flips < MaxFlips /\ pc # "done"
  /\ daemon' = ~daemon /\ flips' = flips + 1
  /\ UNCHANGED <<args, world, pc, cfg, runtime, store, modes, attempts, litter, contacted, asked, outcome>>
----------------------------------------------------------------------------
(* What the launcher was called for.  The wrappers that go around a        *)
(* command (tool-env, sandbox, Zellij) are left out.                       *)

ShellPath == Word("/usr/local/bin/shell-run")
ZellijShell == Word("bash")
AttachCommand(c) == IF c.command = <<>> THEN <<ShellPath>> ELSE c.command

\* A rebuild retries a failed refresh from scratch, and ends.
Attempts(mode) == CASE mode = "tools" -> <<"tools", "full">> [] mode = "full" -> <<"full">>
                    [] OTHER -> <<>>
FindBuildContext(c, w) ==
  LET explicit == SelectSeq(<<Value(c, "--build-context"), w.buildContext>>, LAMBDA d : d # "")
  IN  CASE explicit = <<>> -> IF w.self THEN "found" ELSE "none"
        [] explicit # <<>> -> IF Head(explicit) \in Checkouts THEN "found" ELSE "bad"

Dispatch ==
  /\ pc = "ready"
  /\ LET mode == RebuildMode(cfg)   context == FindBuildContext(cfg, world)
     IN  CASE mode # "none" /\ Attempts(mode) = <<>> -> Exit(1) /\ UNCHANGED attempts
           [] mode # "none" /\ Attempts(mode) # <<>> ->
                IF context = "found" THEN attempts' = Attempts(mode) /\ Goto("rebuild")
                ELSE Exit(IF context = "bad" THEN 2 ELSE 1) /\ UNCHANGED attempts
           [] mode = "none" /\ IsOn(cfg, "--attach") ->
                /\ UNCHANGED attempts
                /\ Finish([kind |-> IF IsOn(cfg, "--zellij") THEN "zellij-attach" ELSE "attach",
                           status |-> 0, command |-> IF IsOn(cfg, "--zellij") THEN <<>> ELSE AttachCommand(cfg),
                           env |-> IF IsOn(cfg, "--zellij") THEN <<>> ELSE store.entries])
           [] OTHER -> UNCHANGED attempts /\ Goto("project")
  /\ UNCHANGED <<args, world, cfg, runtime, store, modes, litter, daemon, flips, contacted, asked>>

\* The last build's status is the launcher's.
Rebuild ==
  /\ pc = "rebuild"
  /\ \/ Exit(0) /\ UNCHANGED attempts
     \/ Len(attempts) = 1 /\ (\E code \in BuilderCodes : Exit(code)) /\ UNCHANGED attempts
     \/ Len(attempts) > 1 /\ attempts' = Tail(attempts) /\ Goto("rebuild")
  /\ UNCHANGED <<args, world, cfg, runtime, store, modes, litter, daemon, flips, contacted, asked>>

Mode(c, v) ==
  IF v \in ReadOnly \/ (v \notin ReadWrite /\ IsOn(c, "--readonly-extras")) THEN "ro" ELSE "rw"

\* Modes, then the first sweep of placeholder files.
ReadMounts ==
  /\ pc = "project"
  /\ IF Value(cfg, "--dir") \in ReadOnly
     THEN Exit(2) /\ UNCHANGED <<modes, litter>>
     ELSE /\ modes' = [i \in DOMAIN cfg.val["--mount"] |-> Mode(cfg, cfg.val["--mount"][i])]
          /\ litter' = FALSE /\ Goto("file")
  /\ UNCHANGED <<args, world, cfg, runtime, store, attempts, daemon, flips, contacted, asked>>

CompleteEnv ==
  /\ pc = "file"
  /\ LET reads == ~IsOn(cfg, "--no-project-env")
         loaded == IF reads /\ world.file = "regular" THEN LoadFile(store, world.lines) ELSE store
         unreadable == reads /\ world.file = "unreadable"
     IN  /\ store' = IF unreadable THEN store ELSE Defaults(loaded, world.builtins)
         /\ IF unreadable \/ store'.refused THEN Exit(2) ELSE Goto("injection")
  /\ UNCHANGED <<args, world, cfg, runtime, modes, attempts, litter, daemon, flips, contacted, asked>>

\* The program whose first word is configured gets each extra mount named.
InjectMountFlags(c, w) ==
  LET hits == {i \in DOMAIN w.injected :
                 c.command # <<>> /\ Head(c.command) = Word(w.injected[i][1])}
  IN  IF w.injection # "regular" \/ hits = {} THEN c.command
      ELSE c.command \o FlattenSeq([i \in DOMAIN c.val["--mount"] |->
                          <<Flag(w.injected[Min(hits)][2]), Word(MountPath[c.val["--mount"][i]])>>])

ContainerCommand(c, w) ==
  IF IsOn(c, "--shell") THEN <<IF IsOn(c, "--zellij") THEN ZellijShell ELSE ShellPath>>
  ELSE InjectMountFlags(c, w)

Launch ==
  /\ pc = "injection"
  /\ IF world.injection = "unreadable" THEN Exit(2)
     ELSE Finish([kind |-> "launch", status |-> 0, command |-> ContainerCommand(cfg, world),
                  env |-> store.entries])
  /\ UNCHANGED <<args, world, cfg, runtime, store, modes, attempts, litter, daemon, flips,
                 contacted, asked>>

Next ==
  \/ ParseArgs \/ CheckCommandLine \/ SetFlags
  \/ ProbeRuntime \/ Confirm \/ StartApple \/ PollDocker \/ Sleeps \/ DaemonFlips
  \/ Dispatch \/ Rebuild \/ ReadMounts \/ CompleteEnv \/ Launch
  \/ pc = "done" /\ UNCHANGED vars

Spec == Init /\ [][Next]_vars
\* Stages the launcher leaves by itself: one action of it is enabled in the
\* whole of the stage, and to stay there for ever would deny it weak fairness.
\* The launcher does not stop between two statements, its user answers, and
\* the programs it starts return.
Stages == {"parse", "validate", "environment", "probe", "confirm", "start", "ready",
           "rebuild", "project", "file", "injection"}
FairSpec == Spec /\ WF_vars(PollDocker) /\ \A stage \in Stages : []<>(pc # stage)
----------------------------------------------------------------------------
(* What a command line means, told by the places of its tokens rather than *)
(* by a scan.                                                              *)

Takes(t, u) ==
  /\ t.kind = "flag"
  /\ \/ t.flag \in Required \cup {"--tool"}
     \/ t.flag = Runtime /\ ~Dashed(u)
     \/ t.flag \in Optional /\ ~Dashed(u) /\ u.value # ""
IsValue(as) ==
  LET v[i \in DOMAIN as] == i > 1 /\ ~v[i - 1] /\ Takes(as[i - 1], as[i]) IN v

\* Where the flags end.
Boundary(as) ==
  LET v == IsValue(as)
      ends == {i \in DOMAIN as : ~v[i] /\ as[i].kind \in {"word", "separator"}}
  IN  IF ends = {} THEN Len(as) + 1 ELSE CHOOSE i \in ends : \A j \in ends : i <= j
CommandGiven(as) ==
  LET b == Boundary(as)
  IN  SubSeq(as, IF b <= Len(as) /\ as[b] = Separator THEN b + 1 ELSE b, Len(as))

\* The values given for f, in order.
ValuesGiven(as, f) ==
  LET v == IsValue(as)
      Names(i) == IF v[i] THEN as[i - 1].flag = f ELSE as[i].kind = "inline" /\ as[i].flag = f
  IN  FoldLeft(LAMBDA vs, i : IF Names(i) THEN Append(vs, as[i].value) ELSE vs,
               <<>>, [i \in 1..Boundary(as) - 1 |-> i])

AssignmentsGiven ==
  LET vs == ValuesGiven(args, "--env") IN [k \in DOMAIN vs |-> Entry(Meaning[vs[k]], "flag")]
MountsNamed(flag) ==
  LET ms == ValuesGiven(args, "--mount")
  IN  FlattenSeq([k \in DOMAIN ms |-> <<Flag(flag), Word(MountPath[ms[k]])>>])

\* The call without its command, and whether a call is refused for what its
\* command line says.
FlagsAlone(as) == Parse(SubSeq(as, 1, Boundary(as) - 1))
Refused(c) == Validate(c, IllFormedSessions) # NoFailure

\* The command as is cannot run: the flags run something else or nothing, or
\* an attach has no `--' before it, or it begins with a flag after `--'.
NoPlaceForCommand(c, as) ==
  \/ IsOn(c, "--shell") \/ RebuildMode(c) # "none"
  \/ IsOn(c, "--attach") /\ (IsOn(c, "--zellij") \/ as[Boundary(as)] # Separator)
  \/ as[Boundary(as)] = Separator /\ Dashed(Head(CommandGiven(as)))

\* A command on the command line reaches the container to the last token,
\* further separators included, with at most the mounts appended; where none
\* can run (--shell, --rebuild, a Zellij attach) the call is refused instead
\* of dropping it (cli.go, ADR-0009).  Without one nothing is made up.  A call
\* whose flags alone are right is refused for its command where that has no
\* place, and nowhere else.
CommandRunsOrIsRefused ==
  LET command == CommandGiven(args)
      extended == {command} \cup {command \o MountsNamed(p[2]) : p \in ToSet(world.injected)}
  IN  /\ outcome.kind = "launch" =>
           IF command = <<>> THEN outcome.command \in {<<>>, <<ShellPath>>, <<ZellijShell>>}
           ELSE outcome.command \in extended
      /\ outcome.kind = "attach" =>
           outcome.command = IF command = <<>> THEN <<ShellPath>> ELSE command
      /\ outcome.kind = "zellij-attach" \/ attempts # <<>> => command = <<>>
      /\ pc = "validate" /\ command # <<>> =>
           LET c == FlagsAlone(args)
           IN  ~c.help /\ ~Refused(c) => (Refused(cfg) <=> NoPlaceForCommand(c, args))

\* The assignments a run may use, in the order the sources rank, and the one
\* that wins for a key: the last of the command line, else the last of the
\* project file, else the launcher's own.
Sources ==
  LET Tagged(as, o) == [i \in DOMAIN as |-> Entry(as[i], o)]
      lines == [i \in DOMAIN world.lines |-> Unquoted(world.lines[i])]
      reads == "--no-project-env" \notin cfg.on /\ world.file = "regular"
  IN  AssignmentsGiven \o (IF reads THEN Tagged(lines, "file") ELSE <<>>)
                      \o Tagged(world.builtins, "builtin")
Wins(ss, i) ==
  /\ \A j \in DOMAIN ss : ss[j].key = ss[i].key /\ j < i => ss[j].origin = ss[i].origin
  /\ \A j \in DOMAIN ss : ss[j].key = ss[i].key /\ j > i => ss[j].origin # ss[i].origin
FirstPlace(ss, key) == CHOOSE i \in DOMAIN ss :
  ss[i].key = key /\ \A j \in DOMAIN ss : ss[j].key = key => i <= j

Promises(ss, es) ==
  /\ {es[i].key : i \in DOMAIN es} = {ss[i].key : i \in DOMAIN ss}
  /\ \A i, j \in DOMAIN es : i < j => FirstPlace(ss, es[i].key) < FirstPlace(ss, es[j].key)
  /\ \A i \in DOMAIN es : \E k \in DOMAIN ss : Wins(ss, k) /\ es[i] = ss[k]
  /\ \A i \in DOMAIN es : Valid(es[i], es[i].origin)

\* What a new container is given holds every key once, in the order of first
\* appearance, with the text of the source that ranks highest; reserved keys
\* never, and the sandbox's own only from the command line (env.go, parse.go).
EnvironmentAsPromised == outcome.kind = "launch" => Promises(Sources, outcome.env)

NamedRuntime ==
  LET named == ValuesGiven(args, Runtime)
  IN  IF named # <<>> THEN Last(named)
      ELSE IF world.envRuntime # "" THEN world.envRuntime
      ELSE IF world.platform = "darwin" /\ ~world.dock THEN "apple" ELSE "docker"

\* No runtime's program runs but the one the call names, and not before the
\* syntax of the flags, every --env and --share-skills have been found right
\* (a read-only --dir, a rebuild mode, --build-context and --layer are looked
\* at later); the user is asked to start one only where the
\* start can work (run.go: "a bad -e fails without first offering to start
\* the container runtime"; docker.go, apple.go: no [Y/n] whose yes cannot work).
OfferIsFounded ==
  /\ contacted # {} =>
       /\ contacted = {NamedRuntime}
       /\ \A k \in DOMAIN AssignmentsGiven : Valid(AssignmentsGiven[k], "flag")
       /\ LET ds == ValuesGiven(args, "--share-skills") IN ds # <<>> => Last(ds) \in Dirs
       /\ Validate(Parse(args), IllFormedSessions) = NoFailure
  /\ asked => /\ world.platform = "darwin" /\ contacted # {}
              /\ NamedRuntime = "apple" => world.launchd

\* Waiting for Docker Desktop has no bound, but it ends once the daemon stays
\* up, and so does every call (docker.go, the polling loop).
WaitingEnds == <>[]daemon => <>(pc = "done")

(* What the documents say and the code does otherwise.                     *)

\* `--' is always legal: it is needed where the command's first token would be
\* read as a flag of the launcher (USAGE.md, the help text, ADR-0009).  The
\* code refuses exactly such a command.
SeparatorIsLegal ==
  pc = "validate" /\ args # <<>> /\ Head(args) = Separator => ~Refused(cfg)

\* A container command may stand beside -R, after `--' (ADR-0009).  The code
\* refuses every command beside a rebuild.
CommandBesideRebuild ==
  pc = "validate" /\ Len(args) > 2 /\ args[1] = Flag("-R") /\ args[2] = Separator
    /\ ~Dashed(args[3]) => ~Refused(cfg)

\* The environment of a container attached to is not changed (USAGE.md, the
\* help text).  The code sets every --env for the process it starts there.
AttachChangesNoEnvironment == outcome.kind = "attach" => outcome.env = <<>>
=============================================================================
