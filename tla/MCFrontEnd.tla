----------------------------- MODULE MCFrontEnd -----------------------------
(* A bounded instance of FrontEnd: every short command line over a small   *)
(* set of tokens in a plain place, and chosen command lines in every place.*)
EXTENDS FrontEnd

MCMeaning == [v \in {"A=1", "A=2", "B=1", "TZ=x", "LD_PRELOAD=l", "HOME=h", "junk", "", "ls"} |->
  CASE v = "A=1" -> Assignment("A", "1", 0)  [] v = "A=2" -> Assignment("A", "2", 1)
    [] v = "B=1" -> Assignment("B", "1", 0)  [] v = "TZ=x" -> Assignment("TZ", "x", 0)
    [] v = "LD_PRELOAD=l" -> Assignment("LD_PRELOAD", "l", 0)
    [] v = "HOME=h" -> Assignment("HOME", "h", 0)
    [] OTHER -> Assignment(NoKey, v, 0)]

MCMountPath == [v \in {"ls", "m", "m:ro", "m:rw", "A=1"} |-> IF v \in {"m:ro", "m:rw"} THEN "m" ELSE v]

SeqsUpTo(S, n) == UNION {[1..k -> S] : k \in 0..n}

Plain == [platform |-> "darwin", dock |-> FALSE, envRuntime |-> "", envLevel |-> "",
          stream |-> TRUE, launchd |-> TRUE, file |-> "absent", lines |-> <<>>,
          builtins |-> <<Assignment("TZ", "utc", 0)>>, injection |-> "regular",
          injected |-> <<<<"ls", "--add-dir">>>>, buildContext |-> "", self |-> TRUE]

\* How flags take, refuse and leave their next token, and where a command begins.
Grammar == {Word("ls"), Word(""), Separator, Flag("-R"), Flag("--attach"), Flag("--mount"),
            Flag("--env"), Flag(Runtime), Flag("--help"), Flag("--tool"), Flag("--shell"),
            Flag("--zellij"), Flag("--bogus"), Inline("--env", ""), Inline("--mount", ""),
            Inline("--log-file", ""), Inline(Runtime, "docker"), Inline("--rebuild", "none"),
            Inline("--name", "n"), Inline("--session", "s!")}
Lines == {s \o t : s \in SeqsUpTo({Flag("--env")}, 1), t \in SeqsUpTo(Grammar, 3)}
   \cup {<<Inline("--mount", "m:ro")>> \o t :
           t \in SeqsUpTo({Word("ls"), Separator, Flag("--attach"), Flag("-R")}, 4)}
Env(v) == <<Flag("--env"), Word(v)>>

\* Environments: what the command line and the file may both say.
FlagSets == {FlattenSeq([i \in DOMAIN vs |-> Env(vs[i])]) :
               vs \in SeqsUpTo({"A=1", "A=2", "TZ=x", "LD_PRELOAD=l", "HOME=h"}, 2)}
FileLines == SeqsUpTo({Assignment("A", "3", 2), Assignment("C", "4", 1),
                       Assignment("LD_PRELOAD", "f", 0), Assignment("PATH", "p", 0)}, 2)
Places == {[Plain EXCEPT !.file = f, !.lines = ls,
              !.builtins = <<Assignment("TZ", "utc", 0), Assignment("GH_TOKEN", "t", 0)>>] :
             f \in Files, ls \in FileLines}
Tails == {<<>>, <<Flag("--no-project-env")>>, <<Flag("--attach")>>}

\* Runtimes: how one is chosen, and whether it can be started.
Selections == {<<>>, <<Inline(Runtime, "apple")>>, <<Flag(Runtime), Word("docker")>>,
            <<Flag(Runtime), Word("podman")>>, <<Flag(Runtime), Word("podman"), Inline(Runtime, "docker")>>}
Hosts == {[Plain EXCEPT !.platform = p, !.dock = d, !.envRuntime = e, !.launchd = l] :
            p \in {"darwin", "linux"}, d \in BOOLEAN, e \in {"", "apple", "docker", "podman"},
            l \in BOOLEAN}
   \cup {[Plain EXCEPT !.envLevel = v, !.stream = st] : v \in {"", "loud"}, st \in BOOLEAN}
   \cup {[Plain EXCEPT !.injection = j, !.self = sf, !.buildContext = b] :
           j \in {"regular", "unreadable"}, sf \in BOOLEAN, b \in {"", "checkout", "elsewhere"}}
Works == {<<>>, <<Flag("-R")>>, <<Flag("-R"), Word("full")>>, <<Inline("--rebuild", "x")>>,
          <<Inline("--log-level", "info"), Inline("--share-skills", "skills")>>,
          <<Inline("--dir", "m:ro"), Flag("--share-skills"), Word("gone")>>,
          <<Inline("--dir", "m:ro")>>, <<Flag("--log-level"), Word("x"), Flag("--readonly-extras")>>}

MCCases == {<<l, Plain>> : l \in Lines}
  \cup {<<f \o t, w>> : f \in FlagSets, t \in Tails, w \in Places}
  \cup {<<c \o k, h>> : c \in Selections, k \in Works, h \in Hosts}
=============================================================================
