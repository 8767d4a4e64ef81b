----------------------------- MODULE MCSessions -----------------------------
(* Instances of Sessions for TLC. *)
EXTENDS Sessions

Container(base, n) == [prefixed |-> TRUE, base |-> base, n |-> n]

\* Two containers back "s", one of them with a repeated variable; one has only
\* the session and one the marker; one is no container of ours.
OldNames ==
  [o1 |-> Container("x", 1), o2 |-> Container("x", 2), o3 |-> Container("y", 1),
   o4 |-> [prefixed |-> FALSE, base |-> "x", n |-> 1]]
OldEnvs ==
  [o1 |-> <<<<"HOME", "/h">>>> \o ZellijEnv("s"),
   o2 |-> <<<<"CLAUDE_CONTAINED_ZELLIJ_SESSION", "t">>>> \o ZellijEnv("s"),
   o3 |-> <<<<"CLAUDE_CONTAINED_ZELLIJ_SESSION", "t">>, <<"HOME", "/h">>>>,
   o4 |-> ZellijEnv("t")]

OldSessions == [o1 |-> "s", o2 |-> "s", o3 |-> NoSession, o4 |-> "t"]

Launch(s, new, base) == [op |-> "launch", session |-> s, new |-> new, base |-> base, answer |-> 0]
Attach(base, answer) ==
  [op |-> "attach", session |-> NoSession, new |-> FALSE, base |-> base, answer |-> answer]
ZellijAttach(s, answer) ==
  [op |-> "zellij-attach", session |-> s, new |-> FALSE, base |-> "", answer |-> answer]

AllCalls ==
  {Launch("s", FALSE, "y"), Launch("s", TRUE, "x"), Launch("t", TRUE, "y"), Launch(NoSession, FALSE, "x"),
   Attach("x", 0), Attach("", 2), ZellijAttach("s", 0), ZellijAttach(NoSession, 2)}

AllWorlds == {{}, {"o1"}, {"o1", "o2"}, {"o3", "o4"}, {"o1", "o2", "o3", "o4"}}

\* Every form at every place, one per container.
AllShapes ==
  [o1 |-> [form |-> "object", extra |-> "beside", path |-> AppleEnvPaths[4]],
   o2 |-> [form |-> "members", extra |-> "before", path |-> AppleEnvPaths[3]],
   o3 |-> [form |-> "strings", extra |-> "none", path |-> AppleEnvPaths[1]],
   o4 |-> [form |-> "strings", extra |-> "none", path |-> AppleEnvPaths[1]],
   p |-> [form |-> "strings", extra |-> "none", path |-> AppleEnvPaths[1]],
   q |-> [form |-> "pairs", extra |-> "after", path |-> AppleEnvPaths[2]]]

\* What the gate's promise rests on, see Sessions.
ASSUME ReadableAssumption == SessionsReadable
=============================================================================
