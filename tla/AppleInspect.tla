---------------------------- MODULE AppleInspect ----------------------------
(***************************************************************************)
(* parseAppleInspect (internal/runtime/apple_inspect.go): the lines of a   *)
(* container's environment, read out of any of the JSON shapes the runtime *)
(* has emitted.  A JSON value is a record with its `kind'; a line is a     *)
(* pair of a name and a text.  Texts hold no newline, and none is empty:   *)
(* splitEnvLines (runtime.go) changes no such line and drops none.         *)
(***************************************************************************)
EXTENDS Naturals, Sequences, SequencesExt

Null == [kind |-> "null"]
Other == [kind |-> "other"]            \* a number or a boolean
Text(t) == [kind |-> "string", text |-> t]
Array(elems) == [kind |-> "array", elems |-> elems]
Object(members) == [kind |-> "object", members |-> members]   \* <<key, value>> pairs
Unreadable == [kind |-> "unreadable"]  \* not JSON
Fatal == [kind |-> "fatal"]            \* where the jq program would have stopped

\* A repeated key keeps its first place and its last value.
Decoded(obj) ==
  LET Keep(seen, m) ==
        IF \E i \in DOMAIN seen : seen[i][1] = m[1]
        THEN [i \in DOMAIN seen |-> IF seen[i][1] = m[1] THEN m ELSE seen[i]]
        ELSE Append(seen, m)
  IN  FoldLeft(Keep, <<>>, obj.members)

Has(obj, key) == \E i \in DOMAIN obj.members : obj.members[i][1] = key
Member(obj, key) ==
  LET ms == Decoded(obj) IN ms[CHOOSE i \in DOMAIN ms : ms[i][1] = key][2]

\* Only the last component tolerates a value that is no object.
LookupPath(doc, path) ==
  LET at[i \in 0..Len(path)] ==
        IF i = 0 THEN doc ELSE
        CASE at[i-1].kind \in {"null", "fatal"} -> at[i-1]
          [] at[i-1].kind = "object" ->
               IF Has(at[i-1], path[i]) THEN Member(at[i-1], path[i]) ELSE Null
          [] OTHER -> IF i = Len(path) THEN Null ELSE Fatal
  IN  at[Len(path)]

RenderValue(v) == IF v.kind = "string" THEN v.text ELSE v.kind
MemberLines(obj) ==
  LET ms == Decoded(obj) IN [i \in DOMAIN ms |-> <<ms[i][1], RenderValue(ms[i][2])>>]

\* A string is a whole line, an object is a pair by its name and value, or its
\* members.
ElementLines(elem) ==
  CASE elem.kind = "string" -> <<elem.text>>
    [] elem.kind = "object" ->
         IF Has(elem, "name") /\ Has(elem, "value")
         THEN <<<<RenderValue(Member(elem, "name")), RenderValue(Member(elem, "value"))>>>>
         ELSE MemberLines(elem)
    [] OTHER -> <<>>

EnvLines(v) ==
  CASE v.kind = "array" -> FlattenSeq([i \in DOMAIN v.elems |-> ElementLines(v.elems[i])])
    [] v.kind = "object" -> MemberLines(v)
    [] OTHER -> <<>>

AppleEnvPaths ==
  <<<<"configuration", "initProcess", "environment">>,
    <<"Configuration", "InitProcess", "Environment">>,
    <<"config", "env">>,
    <<"Config", "Env">>>>

Values(doc) == [i \in DOMAIN AppleEnvPaths |-> LookupPath(doc, AppleEnvPaths[i])]

\* All four places count; one that cannot be reached loses the document.
FirstPlace(doc) ==                                               \* mutant
  LET found == {i \in DOMAIN Values(doc) : Values(doc)[i] # Null}
  IN  IF found = {} THEN <<>> ELSE EnvLines(Values(doc)[CHOOSE i \in found : \A j \in found : i <= j])
DocumentLines(doc) ==
  FlattenSeq([i \in DOMAIN AppleEnvPaths |-> EnvLines(Values(doc)[i])])

Stops(doc) == Fatal \in ToSet(Values(doc))

\* Documents before the one that stops the program still count.
InspectLines(top) ==
  LET docs == CASE top.kind = "unreadable" -> <<>>
                [] top.kind = "array" -> top.elems
                [] OTHER -> <<top>>
      read == SelectInSeq(docs, Stops)
  IN  FlattenSeq([i \in 1..(IF read = 0 THEN Len(docs) ELSE read - 1) |-> DocumentLines(docs[i])])
=============================================================================
