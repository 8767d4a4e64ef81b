------------------------------ MODULE Sessions ------------------------------
(***************************************************************************)
(* Launchers that look at the running containers before they act: the      *)
(* Zellij launch gate and attach (cmd/claude-contained/zellij.go,          *)
(* internal/zellij), the plain attach (attach.go, internal/attach) and the *)
(* choice of a container name (plan.go).  The runtime is asked for the     *)
(* names and then for each container's environment, while containers start *)
(* and exit; a question it does not answer counts as nothing running.      *)
(***************************************************************************)
EXTENDS AppleInspect, FiniteSets

CONSTANTS
  Clients,     \* launcher processes
  Olds,        \* containers that may run already
  OldName,     \* their names, see ContainerName
  OldEnv,      \* their environments, as sequences of lines
  OldSession,  \* the sessions they were started for, or NoSession
  Calls,       \* how a launcher may be called, see Call
  Worlds,      \* which of them run: sets of containers
  Shape,       \* how Apple Containers renders a container, see Rendering
  MaxFaults,   \* bound: questions the runtime does not answer
  MaxExits     \* bound: containers that exit

NoSession == ""
\* `launch' starts a container, in Zellij if a session is named; `attach' and
\* `zellij-attach' join one, asking which if none is named.  `answer' is what
\* the user enters: a position in the list, or 0 for none of them.
Call == [op : {"launch", "attach", "zellij-attach"}, session : STRING, new : BOOLEAN,
         base : STRING, answer : Nat]

\* A name with or without the launcher's prefix; n > 1 stands for a suffix -n.
ContainerName == [prefixed : BOOLEAN, base : STRING, n : Nat]

ASSUME SessionsAssumption ==
  /\ IsFiniteSet(Clients) /\ IsFiniteSet(Olds)
  /\ OldName \in [Olds -> ContainerName] /\ OldSession \in [Olds -> STRING]
  /\ Calls \subseteq Call /\ Clients \cap Olds = {} /\ Worlds \subseteq SUBSET Olds
  /\ MaxFaults \in Nat /\ MaxExits \in Nat

VARIABLES
  apple,    \* the runtime is Apple Containers, not Docker
  running,  \* container -> its name, for those that run
  call, pc, \* launcher -> how it was called, where it is
  queue,    \* launcher -> the names it has still to inspect
  records,  \* launcher -> the sessions found: sequence of [name, session]
  name,     \* launcher -> the name it has chosen, for or of a container
  session,  \* launcher -> the session it attaches to
  atList,   \* history: launcher -> what ran when it listed what it may join or not
  atFacts,  \* history: launcher -> what ran when it chose its container's name
  blind,    \* history: launcher -> a question of it was not answered
  faults, exits

vars == <<apple, running, call, pc, queue, records, name, session, atList, atFacts, blind, faults, exits>>

NoName == [prefixed |-> FALSE, base |-> "", n |-> 0]
Containers == Olds \cup Clients   \* a launcher's container goes by the launcher
----------------------------------------------------------------------------
(* The environment of a container and what is read of it.                  *)

Marker(l) == l = <<"CLAUDE_CONTAINED_ZELLIJ", "1">>
SessionLine(l) == l[1] = "CLAUDE_CONTAINED_ZELLIJ_SESSION"
ZellijEnv(s) ==
  IF s = NoSession THEN <<>>
  ELSE <<<<"CLAUDE_CONTAINED_ZELLIJ", "1">>, <<"CLAUDE_CONTAINED_ZELLIJ_SESSION", s>>>>

EnvOf(k) == IF k \in Olds THEN OldEnv[k] ELSE ZellijEnv(call[k].session)

\* Docker prints the lines.  Apple nests them in a document at one of its
\* paths, as strings, as pairs or as members; other documents and places with
\* nothing to say may come before or after.
Nested(path, v) ==
  LET at[i \in 1..Len(path) + 1] ==
        IF i > Len(path) THEN v ELSE Object(<<<<path[i], at[i + 1]>>>>)
  IN  at[1]
Rendering(shape, lines) ==
  LET Elem(l) == CASE shape.form = "strings" -> Text(l)
                   [] shape.form = "pairs" ->
                        Object(<<<<"name", Text(l[1])>>, <<"value", Text(l[2])>>>>)
                   [] OTHER -> Object(<<<<l[1], Text(l[2])>>>>)
      value == IF shape.form = "object"
               THEN Object([i \in DOMAIN lines |-> <<lines[i][1], Text(lines[i][2])>>])
               ELSE Array([i \in DOMAIN lines |-> Elem(lines[i])])
      found == Nested(shape.path, value)
  IN  CASE shape.extra = "none" -> found
        [] shape.extra = "before" -> Array(<<Nested(<<"config">>, Other), found>>)
        [] shape.extra = "after" -> Array(<<found, Nested(<<"configuration">>, Other)>>)
        [] shape.extra = "beside" ->
             Object(<<<<"config", Object(<<<<"env", Array(<<Other>>)>>>>)>>>> \o found.members)

Reported(byApple, k, lines) ==
  IF byApple THEN InspectLines(Rendering(Shape[k], lines)) ELSE lines
InspectEnv(k) == Reported(apple, k, EnvOf(k))

\* The marker and the last session named; one without the other is nothing.
SessionFromEnv(lines) ==
  LET named == SelectSeq(lines, SessionLine)
  IN  IF (\E i \in DOMAIN lines : Marker(lines[i])) /\ named # <<>> THEN Last(named)[2]
      ELSE NoSession
----------------------------------------------------------------------------
Init ==
  /\ apple \in BOOLEAN
  /\ \E some \in Worlds : running = [k \in some |-> OldName[k]]
  /\ \A k, m \in DOMAIN running : running[k] = running[m] => k = m
  /\ call \in [Clients -> Calls]
  /\ pc = [c \in Clients |-> "called"]
  /\ queue = [c \in Clients |-> <<>>] /\ records = [c \in Clients |-> <<>>]
  /\ name = [c \in Clients |-> NoName] /\ session = [c \in Clients |-> NoSession]
  /\ atList = [c \in Clients |-> <<>>] /\ atFacts = [c \in Clients |-> {}]
  /\ blind = [c \in Clients |-> FALSE]
  /\ faults = 0 /\ exits = 0

Goto(c, place) == pc' = [pc EXCEPT ![c] = place]
Names == {running[k] : k \in DOMAIN running}

\* A question that fails is answered with nothing.
Unanswered(c) ==
  /\ faults < MaxFaults /\ faults' = faults + 1
  /\ blind' = [blind EXCEPT ![c] = TRUE]
Answered == UNCHANGED <<faults, blind>>

\* List, in an order of the runtime's; FilterRunning keeps the conventional names.
Conventional(n) == n.prefixed
Unfiltered(c) ==                                                 \* mutant
  \/ Unanswered(c) /\ queue' = [queue EXCEPT ![c] = <<>>]
  \/ Answered /\ queue' = [queue EXCEPT ![c] = SetToSeq(Names)]
Listed(c) ==
  \/ Unanswered(c) /\ queue' = [queue EXCEPT ![c] = <<>>]
  \/ Answered /\ queue' = [queue EXCEPT ![c] = SetToSeq({n \in Names : Conventional(n)})]

InZellij(c) == call[c].op = "zellij-attach" \/ (call[c].op = "launch" /\ call[c].session # NoSession)

Look(c) ==
  /\ pc[c] = "called"
  /\ Goto(c, IF InZellij(c) THEN "inspect" ELSE IF call[c].op = "attach" THEN "choose" ELSE "facts")
  /\ IF call[c].op = "launch" /\ ~InZellij(c)
     THEN UNCHANGED <<queue, atList>> /\ Answered
     ELSE Listed(c) /\ atList' = [atList EXCEPT ![c] = running]
  /\ UNCHANGED <<apple, running, call, records, name, session, atFacts, exits>>

\* By name: whoever holds it now answers, and nobody does once it is gone.
Inspect(c) ==
  LET n == Head(queue[c])
      holders == {k \in DOMAIN running : running[k] = n}
      Note(s) == records' = IF s = NoSession THEN records
                            ELSE [records EXCEPT ![c] = Append(@, [name |-> n, session |-> s])]
  IN
  /\ pc[c] = "inspect" /\ queue[c] # <<>>
  /\ \/ holders # {} /\ Unanswered(c) /\ UNCHANGED records
     \/ holders = {} /\ Answered /\ UNCHANGED records
     \/ Answered /\ \E k \in holders : Note(SessionFromEnv(InspectEnv(k)))
  /\ queue' = [queue EXCEPT ![c] = Tail(@)]
  /\ UNCHANGED <<apple, running, call, pc, name, session, atList, atFacts, exits>>

Inspected(c) ==
  /\ pc[c] = "inspect" /\ queue[c] = <<>>
  /\ Goto(c, IF call[c].op = "launch" THEN "gate" ELSE "choose")
  /\ UNCHANGED <<apple, running, call, queue, records, name, session, atList, atFacts, blind, faults, exits>>
----------------------------------------------------------------------------
(* Launching.                                                              *)

\* --new-session is no leave to take a session that is live.
NewSessionFirst(c) == call[c].new \/ records[c] = <<>>           \* mutant
MayLaunch(c) ==
  /\ \A i \in DOMAIN records[c] : records[c][i].session # call[c].session
  /\ call[c].new \/ records[c] = <<>>

Gate(c) ==
  /\ pc[c] = "gate"
  /\ Goto(c, IF MayLaunch(c) THEN "facts" ELSE "refused")
  /\ UNCHANGED <<apple, running, call, queue, records, name, session, atList, atFacts, blind, faults, exits>>

\* The name, or the first of name-2, name-3, ... that is not taken.
Numbered(base, n) == [prefixed |-> TRUE, base |-> base, n |-> n]
Plain(base) == Numbered(base, 1)
SuffixOnce(base, taken) ==                                       \* mutant
  IF Plain(base) \in taken THEN Numbered(base, 2) ELSE Plain(base)
Deduplicated(base, taken) ==
  LET Free(n) == Numbered(base, n) \notin taken
  IN  Numbered(base, CHOOSE n \in 1..Cardinality(taken) + 1 :
                       Free(n) /\ \A m \in 1..n - 1 : ~Free(m))

\* Between the gate and this lie the layer and its prompt; between this and the
\* start, the lock prompts.
ProbeFacts(c) ==
  /\ pc[c] = "facts"
  /\ \/ Unanswered(c) /\ name' = [name EXCEPT ![c] = Deduplicated(call[c].base, {})]
     \/ Answered /\ name' = [name EXCEPT ![c] = Deduplicated(call[c].base, Names)]
  /\ atFacts' = [atFacts EXCEPT ![c] = DOMAIN running]
  /\ Goto(c, "start")
  /\ UNCHANGED <<apple, running, call, queue, records, session, atList, exits>>

StartContainer(c) ==
  /\ pc[c] = "start"
  /\ IF name[c] \in Names
     THEN Goto(c, "clash") /\ UNCHANGED running
     ELSE Goto(c, "started") /\ running' = [k \in DOMAIN running \cup {c} |->
                                              IF k = c THEN name[c] ELSE running[k]]
  /\ UNCHANGED <<apple, call, queue, records, name, session, atList, atFacts, blind, faults, exits>>
----------------------------------------------------------------------------
(* Attaching.                                                              *)

\* The session a container was started for.
SessionOf(k) == IF k \in Olds THEN OldSession[k] ELSE call[k].session

Attaches(c, n, s) ==
  /\ Goto(c, "attach")
  /\ name' = [name EXCEPT ![c] = n] /\ session' = [session EXCEPT ![c] = s]
Leaves(c, place) == Goto(c, place) /\ UNCHANGED <<name, session>>

\* What it can choose from: the sessions found, or the names listed.
Offered(c) ==
  IF call[c].op = "attach"
  THEN [i \in DOMAIN queue[c] |-> [name |-> queue[c][i], session |-> NoSession]]
  ELSE records[c]

\* Named: exactly one.  (A container name is unique anyway.)
FirstMatch(c) ==                                                 \* mutant
  LET wanted == SelectSeq(Offered(c), LAMBDA r : call[c].session = r.session)
  IN  IF wanted = <<>> THEN Leaves(c, "failed") ELSE Attaches(c, wanted[1].name, wanted[1].session)
ByName(c) ==
  LET offered == Offered(c)
      Wanted(r) == IF call[c].op = "attach" THEN r.name = Plain(call[c].base)
                   ELSE r.session = call[c].session
      wanted == {i \in DOMAIN offered : Wanted(offered[i])}
  IN  \/ \E i \in wanted : wanted = {i} /\ Attaches(c, offered[i].name, offered[i].session)
      \/ (\A i \in wanted : wanted # {i}) /\ Leaves(c, "failed")

\* Not named: none is no failure, the only Zellij session is taken unasked, and
\* an answer must be a position in the list.
ByChoice(c) ==
  LET offered == Offered(c) IN
  CASE offered = <<>> -> Leaves(c, "done")
    [] Len(offered) = 1 /\ call[c].op = "zellij-attach" ->
         Attaches(c, offered[1].name, offered[1].session)
    [] OTHER ->
         IF call[c].answer \in DOMAIN offered
         THEN Attaches(c, offered[call[c].answer].name, offered[call[c].answer].session)
         ELSE Leaves(c, IF call[c].answer = 0 THEN "done" ELSE "failed")

Named(c) == IF call[c].op = "attach" THEN call[c].base # "" ELSE call[c].session # NoSession

Choose(c) ==
  /\ pc[c] = "choose"
  /\ IF Named(c) THEN ByName(c) ELSE ByChoice(c)
  /\ UNCHANGED <<apple, running, call, queue, records, atList, atFacts, blind, faults, exits>>

\* The helper in the container looks whether the session lives there.
Connect(c) ==
  /\ pc[c] = "attach"
  /\ Goto(c, IF \E k \in DOMAIN running :
                  running[k] = name[c] /\ session[c] \in {NoSession, SessionOf(k)}
             THEN "connected" ELSE "failed")
  /\ UNCHANGED <<apple, running, call, queue, records, name, session, atList, atFacts, blind, faults, exits>>

Exit(k) ==
  /\ k \in DOMAIN running /\ exits < MaxExits /\ exits' = exits + 1
  /\ running' = [m \in DOMAIN running \ {k} |-> running[m]]
  /\ UNCHANGED <<apple, call, pc, queue, records, name, session, atList, atFacts, blind, faults>>

Over == {"refused", "started", "clash", "connected", "failed", "done"}

Idle == (\A c \in Clients : pc[c] \in Over) /\ UNCHANGED vars

Next ==
  \/ \E c \in Clients :
       \/ Look(c) \/ Inspect(c) \/ Inspected(c) \/ Gate(c)
       \/ ProbeFacts(c) \/ StartContainer(c) \/ Choose(c) \/ Connect(c)
  \/ \E k \in Containers : Exit(k)
  \/ Idle

Spec == Init /\ [][Next]_vars
----------------------------------------------------------------------------
(* Properties.                                                             *)

\* Whichever runtime reports an environment, and in whatever shape, the session
\* its container was started for is read back.
SessionsReadable ==
  \A byApple \in BOOLEAN :
    /\ \A k \in Olds : SessionFromEnv(Reported(byApple, k, OldEnv[k])) = OldSession[k]
    /\ \A c \in Clients, a \in Calls :
         SessionFromEnv(Reported(byApple, c, ZellijEnv(a.session))) = a.session

Backs(k, n) == Conventional(n) /\ SessionOf(k) # NoSession

\* ResolveLaunch's refusals (zellij.go:98-101): of two live containers, the one
\* whose launcher could see the other when it looked was asked for as another
\* session, and with --new-session.  Overlapping launches are let through, and
\* so is one whose questions went unanswered.
GateHonoured ==
  \A c \in Clients \cap DOMAIN running, k \in DOMAIN running :
    (k # c /\ SessionOf(c) # NoSession /\ k \in DOMAIN atList[c] /\ Backs(k, running[k]) /\ ~blind[c])
      => call[c].new /\ SessionOf(k) # SessionOf(c)

\* No launch is refused for a session nobody had: what the gate takes for a live
\* session, in whatever shape the runtime reports it, is one (SessionFromEnv's
\* "either alone yields ''", zellij.go:70-74), now or when it looked.
RefusalsFounded ==
  \A c \in Clients :
    pc[c] = "refused" =>
      \E k \in DOMAIN atList[c] \cup {m \in Clients : pc[m] = "started"} :
        /\ SessionOf(k) # NoSession
        /\ ~call[c].new \/ SessionOf(k) = call[c].session
        /\ k \in DOMAIN atList[c] => Conventional(atList[c][k])

\* "refusing ambiguous attach" (zellij.go:194): a Zellij client goes to a named
\* session only if no second container backed it the whole time.
AttachUnambiguous ==
  [][\A c \in Clients :
       (pc[c] = "choose" /\ pc'[c] = "attach" /\ call[c].op = "zellij-attach" /\ Named(c) /\ ~blind[c])
         => \A k \in DOMAIN running \cap DOMAIN atList[c] :
              Backs(k, running[k]) /\ SessionOf(k) = call[c].session => running[k] = name'[c]]_vars

\* A container is refused for its name only if another took that name after the
\* names were looked at, or they could not be (deduplicateName, plan.go:384).
ClashMeansOverlap ==
  [][\A c \in Clients :
       (pc[c] = "start" /\ pc'[c] = "clash" /\ ~blind[c]) =>
         \A k \in DOMAIN running : running[k] = name[c] => k \notin atFacts[c]]_vars
============================================================================
