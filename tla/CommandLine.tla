---------------------------- MODULE CommandLine ----------------------------
(***************************************************************************)
(* The launcher's command line (internal/cli/cli.go): the silent scan that *)
(* records what each token says and the first thing wrong with it, and the *)
(* validation that reports it.  A token is a bare word, a flag, a flag     *)
(* with its value inline, or the separator `--'.  A flag is named by its   *)
(* long form where it has one, except -R, which differs from --rebuild.    *)
(***************************************************************************)
EXTENDS Naturals, Sequences, SequencesExt

Word(v) == [kind |-> "word", flag |-> "", value |-> v]
Flag(f) == [kind |-> "flag", flag |-> f, value |-> ""]
Inline(f, v) == [kind |-> "inline", flag |-> f, value |-> v]
Separator == [kind |-> "separator", flag |-> "", value |-> ""]
Token == {t \in [kind : {"word", "flag", "inline", "separator"}, flag : STRING, value : STRING] :
            t.kind = "separator" => t = Separator}
Dashed(t) == t.kind # "word"

Runtime == "--container-runtime"
Lists == {"--mount", "--env", "-p", "-H", "--dns", "--allow-host"}
\* Flags whose separate form needs a value, and consumes the next token even
\* if that cannot be one.
Required == Lists \cup {"--dir", "--name", "--session", "--build-context", "--layer",
                        "--log-level", "--log-file", "--share-skills"}
Optional == {"-R", "--attach"}
\* What an empty inline value does: it is recorded as an error and kept, it is
\* an error and dropped, or it is a value like any other.
KeptInline == {"--dir", "--mount", "--name", "--session", Runtime, "--build-context",
               "--layer", "--share-skills"}
DroppedInline == {"--log-level", "--log-file"}
FreeInline == {"--env", "--dns", "--allow-host", "--rebuild"}
Switches == {"--build-layer", "--no-layer", "--log-only", "--readonly-extras",
             "--share-host-claude", "--shell", "--ssh", "--worktree", "--lock-worktrees",
             "--contained-node-modules", "--no-project-env", "--no-sandbox", "--zellij",
             "--new-session"}
Valued == Required \cup {Runtime, "--rebuild", "--attach"}

NoFailure == "none"
Blank == [help |-> FALSE, failure |-> NoFailure, on |-> {}, val |-> [f \in Valued |-> <<>>],
          command |-> <<>>, separator |-> FALSE, waiting |-> "", ended |-> FALSE]

IsOn(c, f) == f \in c.on
IsSet(c, f) == c.val[f] # <<>>
Value(c, f) == IF IsSet(c, f) THEN Last(c.val[f]) ELSE ""
RebuildMode(c) == IF IsSet(c, "--rebuild") THEN Value(c, "--rebuild") ELSE "none"
----------------------------------------------------------------------------
(* The scan.  `waiting' is the flag whose value the next token may be.     *)

\* Only the first failure is ever reported.
Failed(c, kind) == IF c.failure = NoFailure THEN [c EXCEPT !.failure = kind] ELSE c
Given(c, f, v) == [c EXCEPT !.val[f] = IF f \in Lists THEN Append(@, v) ELSE <<v>>]
Checked(c, v) == IF v = "" THEN Failed(c, "required-value") ELSE c

Named(c, f) ==
  CASE f = "--help"           -> IF c.failure = NoFailure THEN [c EXCEPT !.help = TRUE] ELSE c
    [] f \in Required \cup {Runtime} -> [c EXCEPT !.waiting = f]
    [] f = "--attach"         -> [c EXCEPT !.on = @ \cup {f}, !.waiting = f]
    [] f = "-R"               -> [Given(c, "--rebuild", "tools") EXCEPT !.waiting = f]
    [] f = "--rebuild"        -> Given(c, f, "tools")
    [] f \in Switches         -> [c EXCEPT !.on = @ \cup {f}]
    [] f = "--yolo"           -> Failed(c, "yolo-flag-removed")
    [] f = "--tool"           -> [Failed(c, "tool-flag-removed") EXCEPT !.waiting = f]
    [] OTHER                  -> Failed(c, "unknown-flag")

WithInline(c, f, v) ==
  CASE f \in KeptInline       -> Checked(Given(c, f, v), v)
    [] f \in DroppedInline    -> IF v = "" THEN Checked(c, v) ELSE Given(c, f, v)
    [] f \in FreeInline       -> Given(c, f, v)
    [] f = "--new-session"    -> Failed(c, "new-session-value")
    [] OTHER                  -> Failed(c, "unknown-flag")

\* A token that is no flag's value.
Arm(c, t) ==
  CASE t.kind = "word"        -> [c EXCEPT !.command = <<t>>, !.ended = TRUE]
    [] t.kind = "separator"   -> [c EXCEPT !.separator = TRUE, !.ended = TRUE]
    [] t.kind = "flag"        -> Named(c, t.flag)
    [] OTHER                  -> WithInline(c, t.flag, t.value)

InnerSeparatorDropped(c, t) ==  \* mutant
  IF t = Separator /\ c.command # <<>> THEN c ELSE [c EXCEPT !.command = Append(@, t)]
\* The command is taken as it stands; after `--' it must not begin with a flag.
InCommand(c, t) ==
  LET d == [c EXCEPT !.command = Append(@, t)]
  IN  IF c.command = <<>> /\ Dashed(t) THEN Failed(d, "command-starts-with-flag") ELSE d

\* A runtime is the one required value whose flag leaves a dashed token alone.
AsValue(c, f, t) ==
  CASE f = "--tool"           -> c
    [] f \in Optional         ->
         IF Dashed(t) \/ t.value = "" THEN Arm(c, t)
         ELSE Given(c, IF f = "-R" THEN "--rebuild" ELSE f, t.value)
    [] f = Runtime            ->
         IF Dashed(t) THEN Arm(Failed(c, "required-value"), t)
         ELSE Checked(Given(c, f, t.value), t.value)
    [] OTHER                  ->
         IF Dashed(t) \/ t.value = "" THEN Failed(c, "required-value")
         ELSE Given(c, f, t.value)

Scan(c, t) ==
  IF c.ended THEN InCommand(c, t)
  ELSE IF c.waiting # "" THEN AsValue([c EXCEPT !.waiting = ""], c.waiting, t)
  ELSE Arm(c, t)

Parse(args) ==
  LET c == FoldLeft(Scan, Blank, args)
  IN  IF c.waiting \in Required \cup {Runtime} THEN Failed(c, "required-value") ELSE c
----------------------------------------------------------------------------
(* Validation: the first complaint in this order, or NoFailure.            *)

Complaints(c, illFormed) ==
  LET zellij == IsOn(c, "--zellij")   attach == IsOn(c, "--attach")
      command == c.command # <<>>     session == Value(c, "--session")
  IN  << <<c.failure # NoFailure, c.failure>>,
         <<IsOn(c, "--new-session") /\ ~zellij, "new-session-without-zellij">>,
         <<IsSet(c, "--session") /\ ~zellij, "session-without-zellij">>,
         <<zellij /\ attach /\ IsOn(c, "--shell"), "zellij-attach-shell">>,
         <<zellij /\ Value(c, "--attach") # "", "zellij-attach-name">>,
         <<attach /\ Value(c, "--name") # "", "attach-custom-name">>,
         <<IsSet(c, "--session") /\ session = "", "zellij-session-empty">>,
         <<IsSet(c, "--session") /\ session \in illFormed, "zellij-session-invalid">>,
         <<zellij /\ attach /\ IsSet(c, "--env"), "zellij-attach-environment">>,
         <<command /\ IsOn(c, "--shell"), "shell-with-command">>,
         <<command /\ RebuildMode(c) # "none", "rebuild-with-command">>,
         <<command /\ zellij /\ attach, "zellij-attach-with-command">>,
         <<command /\ attach /\ ~c.separator, "attach-bare-command">>,
         <<IsOn(c, "--no-layer") /\ (Value(c, "--layer") # "" \/ IsOn(c, "--build-layer")),
           "layer-flag-conflict">> >>

Validate(c, illFormed) ==
  LET all == Complaints(c, illFormed)
      found == {i \in DOMAIN all : all[i][1]}
  IN  IF c.help \/ found = {} THEN NoFailure ELSE all[Min(found)][2]
=============================================================================
