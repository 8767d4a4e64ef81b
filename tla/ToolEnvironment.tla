-------------------------- MODULE ToolEnvironment --------------------------
(***************************************************************************)
(* The environment of the tool process (internal/env): an ordered store    *)
(* with one entry per key, filled by the command line, the project env     *)
(* file and the launcher's own values.  An assignment is a key and a text  *)
(* with a number of matching quote pairs around it; one without `=' has    *)
(* the key NoKey.                                                          *)
(***************************************************************************)
EXTENDS Naturals, Sequences, SequencesExt

CONSTANTS
  IllFormedKeys,  \* keys that are no variable names
  OwnedKeys       \* keys in the launcher's own namespaces HOST_, SRT_, CLAUDE_CONTAINED_

NoKey == "no key"
Assignment(key, text, quotes) == [key |-> key, text |-> text, quotes |-> quotes]

ReservedAlways ==
  OwnedKeys \cup {"STAY_ROOT", "SSH_AUTH_SOCK", "GIT_PROTECT_DIRS", "HOME", "PATH"}
ReservedInFile == {"LD_PRELOAD", "LD_LIBRARY_PATH", "NODE_OPTIONS"}

Valid(a, origin) ==
  /\ a.key \notin {NoKey} \cup IllFormedKeys \cup ReservedAlways
  /\ origin = "file" => a.key \notin ReservedInFile

\* A store and whether an assignment was refused; nothing is read after that.
Empty == [entries |-> <<>>, refused |-> FALSE]
Index(s, key) == {i \in DOMAIN s.entries : s.entries[i].key = key}
Entry(a, origin) == [key |-> a.key, text |-> a.text, quotes |-> a.quotes, origin |-> origin]

\* A key keeps the place of its first appearance.
Set(s, a, origin) ==
  IF s.refused \/ ~Valid(a, origin) THEN [s EXCEPT !.refused = TRUE]
  ELSE IF Index(s, a.key) = {} THEN [s EXCEPT !.entries = Append(@, Entry(a, origin))]
  ELSE [s EXCEPT !.entries = [i \in DOMAIN @ |->
          IF i \in Index(s, a.key) THEN Entry(a, origin) ELSE @[i]]]

Default(s, a, origin) == IF Index(s, a.key) # {} THEN s ELSE Set(s, a, origin)

SetAll(s, as, origin) == FoldLeft(LAMBDA r, a : Set(r, a, origin), s, as)

\* A line of the file is skipped unseen when a flag has set its key; one pair
\* of quotes is removed.  Blank lines and comments are no lines here.
Unquoted(a) == [a EXCEPT !.quotes = IF @ = 0 THEN 0 ELSE @ - 1]
LineOverFlag(s, a) == Set(s, Unquoted(a), "file")     \* mutant
Line(s, a) ==
  IF \E i \in Index(s, a.key) : s.entries[i].origin = "flag" THEN s
  ELSE Set(s, Unquoted(a), "file")
LoadFile(s, lines) == FoldLeft(Line, s, lines)

\* The launcher's own values fill what is left.
Defaults(s, as) == FoldLeft(LAMBDA r, a : Default(r, a, "builtin"), s, as)
=============================================================================
