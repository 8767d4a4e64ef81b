--------------------------- MODULE SessionsProofs ---------------------------
(***************************************************************************)
(* The session gate and the choice of a container's name, for every number *)
(* of launchers and containers, however they start, exit and overlap, and  *)
(* however many questions the runtime leaves unanswered.                   *)
(***************************************************************************)
EXTENDS Sessions, FiniteSetTheorems, SequenceTheorems, WellFoundedInduction, TLAPS

Record == [name : ContainerName, session : STRING]
PCs == {"called", "inspect", "choose", "gate", "facts", "start", "attach"} \cup Over

\* What launchers and containers are; a client's container runs only when the
\* client has started it, and no two containers share a name.
SessInv ==
  /\ apple \in BOOLEAN /\ call \in [Clients -> Calls] /\ pc \in [Clients -> PCs]
  /\ DOMAIN running \subseteq Containers
  /\ \A k \in DOMAIN running : running[k] \in ContainerName
  /\ \A k, m \in DOMAIN running : running[k] = running[m] => k = m
  /\ \A k \in DOMAIN running \cap Clients : pc[k] = "started"
  /\ DOMAIN queue = Clients /\ DOMAIN records = Clients
  /\ DOMAIN name = Clients /\ DOMAIN blind = Clients
  /\ DOMAIN atList = Clients /\ DOMAIN atFacts = Clients

\* The name chosen is none of those that still run of the ones it was chosen by.
NameInv(c) ==
  pc[c] = "start" =>
    /\ name[c] \in ContainerName
    /\ \A k \in atFacts[c] \cap Clients : pc[k] = "started"
    /\ ~blind[c] => \A k \in atFacts[c] \cap DOMAIN running : running[k] # name[c]

Basics == SessInv /\ \A c \in Clients : NameInv(c)

\* What a launch into a session has looked at runs unchanged or is gone, and
\* what runs besides was started since.
InSession(c) == call[c].op = "launch" /\ call[c].session # NoSession
Known(c, k) == k \in DOMAIN atList[c] \/ (k \in Clients /\ pc[k] = "started")
ListInv(c) ==
  /\ \A k \in DOMAIN running \cap Olds : k \in DOMAIN atList[c]
  /\ \A k \in DOMAIN atList[c] \cap DOMAIN running : atList[c][k] = running[k]
  /\ \A k \in DOMAIN atList[c] \cap Clients : pc[k] = "started"
  /\ queue[c] \in Seq(ContainerName) /\ records[c] \in Seq(Record)
  /\ \A i \in 1..Len(queue[c]) : Conventional(queue[c][i])

\* Every record is of a container that was started for its session.
Source(c, s) ==
  \E k \in Containers :
    /\ Known(c, k) /\ SessionOf(k) = s /\ SessionOf(k) # NoSession
    /\ k \in DOMAIN atList[c] => Conventional(atList[c][k])
RecordInv(c) == \A i \in 1..Len(records[c]) : Source(c, records[c][i].session)

\* Every container listed that backs a session is still to be inspected or
\* recorded, and once the gate is passed stands in nobody's way.
Awaited(c, k) == \E i \in 1..Len(queue[c]) : queue[c][i] = running[k]
Recorded(c, k) == \E i \in 1..Len(records[c]) :
  records[c][i] = [name |-> running[k], session |-> SessionOf(k)]
Seen(c, k) == k \in DOMAIN atList[c] \cap DOMAIN running /\ Backs(k, running[k])
CoverInv(c) ==
  ~blind[c] => \A k \in Containers : Seen(c, k) =>
    /\ pc[c] = "inspect" => Awaited(c, k) \/ Recorded(c, k)
    /\ pc[c] \in {"gate", "choose"} => Recorded(c, k)
    /\ pc[c] \in {"facts", "start", "started"} => call[c].new /\ SessionOf(k) # call[c].session

\* Where a launcher is tells how it was called; a refused one found a session.
PlaceInv(c) ==
  /\ pc[c] \in {"gate", "refused"} => InSession(c)
  /\ pc[c] \in {"facts", "start", "started"} => call[c].op = "launch"
  /\ pc[c] = "inspect" => InZellij(c)
  /\ pc[c] = "refused" => ~MayLaunch(c)
  /\ pc[c] = "called" => records[c] = <<>>

ClientInv(c) ==
  PlaceInv(c) /\ (InZellij(c) /\ pc[c] # "called" => ListInv(c) /\ RecordInv(c) /\ CoverInv(c))

GateInv == Basics /\ \A c \in Clients : ClientInv(c)
----------------------------------------------------------------------------
(* Names and sessions.                                                     *)

\* Finitely many containers run, under finitely many names.
LEMMA FinitelyMany ==
  ASSUME SessInv PROVE IsFiniteSet(DOMAIN running) /\ IsFiniteSet(Names)
<1>1. IsFiniteSet(Containers) BY SessionsAssumption, FS_Union DEF Containers
<1>2. IsFiniteSet(DOMAIN running) BY <1>1, FS_Subset DEF SessInv
<1> DEFINE f == [k \in DOMAIN running |-> running[k]]
<1>3. f \in Surjection(DOMAIN running, Names) BY DEF Surjection, Names
<1>4. IsFiniteSet(Names) BY <1>2, <1>3, FS_Surjection
<1> QED BY <1>2, <1>4

\* A set of numbers that is not empty has a least one.
LEMMA Least ==
  ASSUME NEW S \in SUBSET Nat, S # {} PROVE \E x \in S : \A y \in S : x <= y
<1> DEFINE R == {ss \in Nat \X Nat : ss[1] < ss[2]}
<1>1. IsWellFoundedOn(R, Nat) BY NatLessThanWellFounded DEF OpToRel
<1>2. \A x, y \in Nat : x < y => <<x, y>> \in R OBVIOUS
<1> HIDE DEF R
<1>3. PICK x \in S : \A y \in S : ~(<<y, x>> \in R) BY <1>1, WFMin
<1>4. \A y \in S : ~(y < x) BY <1>2, <1>3
<1> QED BY <1>4

\* A free name is found: of n + 1 names not all are among n.
LEMMA FreeName ==
  ASSUME NEW base \in STRING, NEW taken, IsFiniteSet(taken)
  PROVE /\ Deduplicated(base, taken) \in ContainerName
        /\ Deduplicated(base, taken) \notin taken
<1> DEFINE N == Cardinality(taken) + 1
           Free(n) == Numbered(base, n) \notin taken
<1>1. Cardinality(taken) \in Nat BY FS_CardinalityType
<1>2. \A m \in Nat : Numbered(base, m) \in ContainerName BY DEF Numbered, ContainerName
<1>3. \E n \in 1..N : Free(n)
  <2> SUFFICES ASSUME \A n \in 1..N : ~Free(n) PROVE FALSE
    OBVIOUS
  <2> DEFINE f == [n \in 1..N |-> Numbered(base, n)]
  <2>1. f \in [1..N -> taken] OBVIOUS
  <2>2. IsFiniteSet(1..N) /\ Cardinality(1..N) = N
    <3>1. 1 \in Int /\ N \in Int /\ ~(1 > N) /\ N - 1 + 1 = N BY <1>1
    <3> HIDE DEF N
    <3> QED BY <3>1, FS_Interval
  <2>3. Cardinality(taken) < Cardinality(1..N) BY <1>1, <2>2
  <2> HIDE DEF f
  <2>4. \E x, y \in 1..N : x # y /\ f[x] = f[y] BY <2>1, <2>2, <2>3, FS_PigeonHole
  <2>5. PICK x, y \in 1..N : x # y /\ f[x] = f[y] BY <2>4
  <2>6. Numbered(base, x) = Numbered(base, y) BY <2>5 DEF f
  <2>7. Numbered(base, x).n = x /\ Numbered(base, y).n = y BY DEF Numbered
  <2> QED BY <2>5, <2>6, <2>7
<1>4. \E n \in 1..N : Free(n) /\ \A m \in 1..n - 1 : ~Free(m)
  <2> DEFINE S == {n \in 1..N : Free(n)}
  <2>1. \A n \in 1..N : n \in Nat OBVIOUS
  <2>6. S \in SUBSET Nat BY <2>1, Zenon
  <2>5. S # {} BY <1>3
  <2> HIDE DEF S
  <2>2. PICK n \in S : \A m \in S : n <= m BY <2>5, <2>6, Least
  <2>3. n \in 1..N /\ Free(n) BY <2>2 DEF S
  <2>4. ASSUME NEW m \in 1..n - 1 PROVE ~Free(m)
    <3>1. m \in 1..N /\ ~(n <= m) BY <1>1, <2>3
    <3> QED BY <2>2, <3>1 DEF S
  <2> QED BY <2>3, <2>4
<1> DEFINE least == CHOOSE n \in 1..N : Free(n) /\ \A m \in 1..n - 1 : ~Free(m)
<1>5. least \in 1..N /\ Free(least) BY <1>4
<1>6. Deduplicated(base, taken) = Numbered(base, least) BY DEF Deduplicated
<1> HIDE DEF least
<1>7. least \in Nat BY <1>1, <1>5
<1> QED BY <1>2, <1>5, <1>6, <1>7
----------------------------------------------------------------------------
(* Names: what runs, and what a launcher's name was chosen by.             *)

\* What a step leaves of the world: launchers that started something have, and
\* what runs ran before, under its name, or is a launcher's that had not.
World ==
  /\ call' = call /\ apple' = apple
  /\ \A k \in Clients : pc[k] = "started" => pc'[k] = "started"
  /\ \A k \in DOMAIN running' :
       \/ k \in DOMAIN running /\ running'[k] = running[k]
       \/ k \in Clients /\ pc[k] # "started"

\* A container's name and session are those of a call.
LEMMA CallType ==
  ASSUME SessInv, NEW c \in Clients
  PROVE call[c].base \in STRING /\ call[c].session \in STRING /\ c \notin Olds
<1>1. call[c] \in Call BY SessionsAssumption DEF SessInv
<1> QED BY <1>1, SessionsAssumption DEF Call

\* Every step keeps the world in order.
LEMMA WorldStep ==
  ASSUME SessInv, [Next]_vars PROVE World
<1> USE DEF SessInv, World
<1>1. ASSUME NEW c \in Clients, Look(c) PROVE World BY <1>1 DEF Look, Goto
<1>2. ASSUME NEW c \in Clients, Inspect(c) PROVE World BY <1>2 DEF Inspect
<1>3. ASSUME NEW c \in Clients, Inspected(c) PROVE World BY <1>3 DEF Inspected, Goto
<1>4. ASSUME NEW c \in Clients, Gate(c) PROVE World BY <1>4 DEF Gate, Goto
<1>5. ASSUME NEW c \in Clients, ProbeFacts(c) PROVE World BY <1>5 DEF ProbeFacts, Goto
<1>6. ASSUME NEW c \in Clients, StartContainer(c) PROVE World BY <1>6 DEF StartContainer, Goto
<1>7. ASSUME NEW c \in Clients, Choose(c) PROVE World
  BY <1>7 DEF Choose, ByName, ByChoice, Attaches, Leaves, Goto
<1>8. ASSUME NEW c \in Clients, Connect(c) PROVE World BY <1>8 DEF Connect, Goto
<1>9. ASSUME NEW k \in Containers, Exit(k) PROVE World BY <1>9 DEF Exit
<1>10. CASE UNCHANGED vars BY <1>10 DEF vars
<1> QED BY <1>1, <1>2, <1>3, <1>4, <1>5, <1>6, <1>7, <1>8, <1>9, <1>10 DEF Next, Idle

\* The launchers' and the containers' states stay what they are.
LEMMA SessStep ==
  ASSUME Basics, [Next]_vars PROVE SessInv'
<1> USE DEF Basics, SessInv, Goto
<1>1. ASSUME NEW c \in Clients, Look(c) PROVE SessInv'
  <2>1. pc' \in [Clients -> PCs] BY <1>1 DEF Look, PCs, Over
  <2> QED BY <1>1, <2>1 DEF Look, Listed, Unanswered, Answered
<1>2. ASSUME NEW c \in Clients, Inspect(c) PROVE SessInv' BY <1>2 DEF Inspect, Unanswered, Answered
<1>3. ASSUME NEW c \in Clients, Inspected(c) PROVE SessInv' BY <1>3 DEF Inspected, PCs, Over
<1>4. ASSUME NEW c \in Clients, Gate(c) PROVE SessInv' BY <1>4 DEF Gate, PCs, Over
<1>5. ASSUME NEW c \in Clients, ProbeFacts(c) PROVE SessInv'
  BY <1>5 DEF ProbeFacts, Unanswered, Answered, PCs, Over
<1>6. ASSUME NEW c \in Clients, StartContainer(c) PROVE SessInv'
  <2>1. pc' \in [Clients -> PCs] BY <1>6 DEF StartContainer, PCs, Over
  <2>2. CASE name[c] \in Names BY <1>6, <2>1, <2>2 DEF StartContainer
  <2>3. CASE name[c] \notin Names
    <3>1. running' = [k \in DOMAIN running \cup {c} |-> IF k = c THEN name[c] ELSE running[k]]
      BY <1>6, <2>3 DEF StartContainer
    <3>2. DOMAIN running' \subseteq Containers BY <3>1 DEF Containers
    <3>3. name[c] \in ContainerName BY <1>6 DEF StartContainer, NameInv
    <3>4. \A k \in DOMAIN running' : running'[k] \in ContainerName BY <3>1, <3>3
    <3>5. \A k \in DOMAIN running : running[k] # name[c] BY <2>3 DEF Names
    <3>6. \A k, m \in DOMAIN running' : running'[k] = running'[m] => k = m BY <3>1, <3>5
    <3>7. \A k \in DOMAIN running' \cap Clients : pc'[k] = "started"
      BY <1>6, <2>3, <3>1 DEF StartContainer
    <3> QED BY <1>6, <2>1, <3>2, <3>4, <3>6, <3>7 DEF StartContainer
  <2> QED BY <2>2, <2>3
<1>7. ASSUME NEW c \in Clients, Choose(c) PROVE SessInv'
  <2>1. pc' \in [Clients -> PCs]
    BY <1>7 DEF Choose, ByName, ByChoice, Attaches, Leaves, PCs, Over
  <2>2. DOMAIN name' = Clients BY <1>7 DEF Choose, ByName, ByChoice, Attaches, Leaves
  <2>3. \A k \in DOMAIN running \cap Clients : pc'[k] = "started"
    BY <1>7 DEF Choose, ByName, ByChoice, Attaches, Leaves
  <2> QED BY <1>7, <2>1, <2>2, <2>3 DEF Choose
<1>8. ASSUME NEW c \in Clients, Connect(c) PROVE SessInv' BY <1>8 DEF Connect, PCs, Over
<1>9. ASSUME NEW k \in Containers, Exit(k) PROVE SessInv' BY <1>9 DEF Exit
<1>10. CASE UNCHANGED vars BY <1>10 DEF vars
<1> QED BY <1>1, <1>2, <1>3, <1>4, <1>5, <1>6, <1>7, <1>8, <1>9, <1>10 DEF Next, Idle

\* A name that was free of those that ran stays free of those that still do.
LEMMA NameStep ==
  ASSUME Basics, [Next]_vars, NEW d \in Clients PROVE NameInv(d)'
<1> USE DEF Goto
<1>0. SessInv /\ NameInv(d) /\ World BY WorldStep DEF Basics
<1>1. ASSUME pc'[d] = "start" => pc[d] = "start" /\ name'[d] = name[d] /\ atFacts'[d] = atFacts[d],
             blind[d] => blind'[d]
      PROVE  NameInv(d)'
  BY <1>0, <1>1 DEF NameInv, World
<1> DEFINE Kept == /\ pc'[d] = "start" => pc[d] = "start" /\ name'[d] = name[d] /\ atFacts'[d] = atFacts[d]
                   /\ blind[d] => blind'[d]
<1> USE DEF SessInv
<1>2. ASSUME NEW c \in Clients, Look(c) PROVE Kept
  BY <1>0, <1>2 DEF Look, Listed, Unanswered, Answered
<1>3. ASSUME NEW c \in Clients, Inspect(c) PROVE Kept BY <1>0, <1>3 DEF Inspect, Unanswered, Answered
<1>4. ASSUME NEW c \in Clients, Inspected(c) PROVE Kept BY <1>0, <1>4 DEF Inspected
<1>5. ASSUME NEW c \in Clients, Gate(c) PROVE Kept BY <1>0, <1>5 DEF Gate
<1>6. ASSUME NEW c \in Clients, ProbeFacts(c) PROVE NameInv(d)'
  <2>1. CASE d # c
    <3>1. Kept BY <1>0, <1>6, <2>1 DEF ProbeFacts, Unanswered, Answered
    <3> QED BY <1>1, <3>1
  <2>2. CASE d = c
    <3>1. IsFiniteSet({}) /\ IsFiniteSet(Names) /\ call[d].base \in STRING
      BY <1>0, FS_EmptySet, FinitelyMany, CallType
    <3>2. name'[d] \in ContainerName
      <4>1. Deduplicated(call[d].base, {}) \in ContainerName BY <3>1, FreeName
      <4>2. Deduplicated(call[d].base, Names) \in ContainerName BY <3>1, FreeName
      <4> QED BY <1>0, <1>6, <2>2, <4>1, <4>2 DEF ProbeFacts
    <3>3. ~blind'[d] => \A k \in DOMAIN running : running[k] # name'[d]
      <4>1. Deduplicated(call[d].base, Names) \notin Names BY <3>1, FreeName
      <4>2. ~blind'[d] => name'[d] = Deduplicated(call[d].base, Names)
        BY <1>0, <1>6, <2>2 DEF ProbeFacts, Unanswered
      <4> QED BY <4>1, <4>2 DEF Names
    <3>4. atFacts'[d] = DOMAIN running /\ running' = running /\ DOMAIN running \subseteq Containers
      BY <1>0, <1>6, <2>2 DEF ProbeFacts
    <3>5. \A k \in DOMAIN running \cap Clients : pc'[k] = "started" BY <1>0 DEF World
    <3> QED BY <3>2, <3>3, <3>4, <3>5 DEF NameInv
  <2> QED BY <2>1, <2>2
<1>7. ASSUME NEW c \in Clients, StartContainer(c) PROVE Kept BY <1>0, <1>7 DEF StartContainer
<1>8. ASSUME NEW c \in Clients, Choose(c) PROVE Kept
  BY <1>0, <1>8 DEF Choose, ByName, ByChoice, Attaches, Leaves
<1>9. ASSUME NEW c \in Clients, Connect(c) PROVE Kept BY <1>0, <1>9 DEF Connect
<1>10. ASSUME NEW k \in Containers, Exit(k) PROVE Kept BY <1>10 DEF Exit
<1>11. CASE UNCHANGED vars BY <1>1, <1>11 DEF vars
<1>12. Kept => NameInv(d)' BY <1>1
<1> HIDE DEF Kept
<1> QED
  BY <1>2, <1>3, <1>4, <1>5, <1>6, <1>7, <1>8, <1>9, <1>10, <1>11, <1>12 DEF Next, Idle

\* At first nobody has started or chosen anything.
LEMMA BasicsInit ==
  ASSUME Init PROVE Basics
<1>1. PICK some \in Worlds : running = [k \in some |-> OldName[k]] BY DEF Init
<1>2. some \subseteq Olds BY SessionsAssumption
<1>3. /\ DOMAIN running \subseteq Containers /\ DOMAIN running \cap Clients = {}
      /\ \A k \in DOMAIN running : running[k] \in ContainerName
  BY <1>1, <1>2, SessionsAssumption DEF Containers
<1>4. pc \in [Clients -> PCs] /\ \A c \in Clients : pc[c] # "start" BY DEF Init, PCs
<1> QED BY <1>3, <1>4 DEF Init, Basics, SessInv, NameInv

\* The state invariant of the names.
LEMMA BasicsHold == Spec => []Basics
<1>1. Basics /\ [Next]_vars => Basics' BY SessStep, NameStep DEF Basics
<1> QED BY <1>1, BasicsInit, PTL DEF Spec

\* A container is refused for its name only if another took it after the names
\* were looked at (deduplicateName, plan.go:384): the number of names that run,
\* plus one, is always enough to find a free one.
THEOREM FreshNames == Spec => ClashMeansOverlap
<1> DEFINE Fair(c) == (pc[c] = "start" /\ pc'[c] = "clash" /\ ~blind[c]) =>
                        \A k \in DOMAIN running : running[k] = name[c] => k \notin atFacts[c]
<1>1. Basics /\ [Next]_vars => [\A c \in Clients : Fair(c)]_vars BY DEF Basics, NameInv
<1> HIDE DEF Fair
<1> QED BY <1>1, BasicsHold, PTL DEF Spec, ClashMeansOverlap, Fair
----------------------------------------------------------------------------
(* The gate: what a launch into a session knows of the others.             *)

\* The session read of a container is the one it was started for.
LEMMA ReadsSession ==
  ASSUME SessionsReadable, SessInv, NEW k \in Containers
  PROVE SessionFromEnv(InspectEnv(k)) = SessionOf(k) /\ SessionOf(k) \in STRING
<1>1. apple \in BOOLEAN BY DEF SessInv
<1>2. CASE k \in Olds
  BY <1>1, <1>2, SessionsAssumption DEF SessionsReadable, InspectEnv, EnvOf, SessionOf
<1>3. CASE k \notin Olds
  <2>1. k \in Clients /\ call[k] \in Calls BY <1>3 DEF Containers, SessInv
  <2>2. SessionFromEnv(Reported(apple, k, ZellijEnv(call[k].session))) = call[k].session
    BY <1>1, <2>1 DEF SessionsReadable
  <2> QED BY <1>3, <2>1, <2>2, CallType DEF InspectEnv, EnvOf, SessionOf
<1> QED BY <1>2, <1>3

\* What a launcher has found out is left as it is; its blindness may only grow.
Same(c) ==
  /\ queue'[c] = queue[c] /\ records'[c] = records[c] /\ atList'[c] = atList[c]
  /\ blind[c] => blind'[c]

\* What it has found out then stays true, and it has seen nothing new.
LEMMA StaysTrue ==
  ASSUME SessInv, World, NEW c \in Clients, Same(c), ListInv(c), RecordInv(c)
  PROVE /\ ListInv(c)' /\ RecordInv(c)'
        /\ \A k \in Containers : Seen(c, k)' =>
             /\ Seen(c, k) /\ SessionOf(k)' = SessionOf(k)
             /\ Awaited(c, k) => Awaited(c, k)'
             /\ Recorded(c, k) => Recorded(c, k)'
<1>1. \A k : SessionOf(k)' = SessionOf(k) BY DEF World, SessionOf
<1>2. Clients \cap Olds = {} BY SessionsAssumption
<1>3. \A k \in DOMAIN atList[c] \cap DOMAIN running' : k \in DOMAIN running /\ running'[k] = running[k]
  BY DEF World, ListInv
<1>4. ListInv(c)' BY <1>2, <1>3 DEF World, Same, ListInv
<1>5. ASSUME NEW s, Source(c, s) PROVE Source(c, s)'
  <2>1. PICK k \in Containers : /\ Known(c, k) /\ SessionOf(k) = s /\ SessionOf(k) # NoSession
                                /\ k \in DOMAIN atList[c] => Conventional(atList[c][k])
    BY <1>5 DEF Source
  <2>2. Known(c, k)' BY <2>1 DEF Known, World, Same
  <2> QED BY <1>1, <2>1, <2>2 DEF Source, Same
<1>6. RecordInv(c)' BY <1>5 DEF RecordInv, Same
<1>7. ASSUME NEW k \in Containers, Seen(c, k)'
      PROVE Seen(c, k) /\ (Awaited(c, k) => Awaited(c, k)') /\ (Recorded(c, k) => Recorded(c, k)')
  <2>1. k \in DOMAIN running /\ running'[k] = running[k] BY <1>3, <1>7 DEF Seen, Same
  <2> QED BY <1>1, <1>7, <2>1 DEF Seen, Backs, Awaited, Recorded, Same
<1> QED BY <1>1, <1>4, <1>6, <1>7

\* Whoever a step is not of keeps what holds of it.
LEMMA Bystander ==
  ASSUME SessInv, World, NEW c \in Clients, Same(c), pc'[c] = pc[c], ClientInv(c)
  PROVE ClientInv(c)'
<1>1. call' = call BY DEF World
<1>2. PlaceInv(c)' BY <1>1 DEF ClientInv, PlaceInv, InSession, InZellij, MayLaunch, Same
<1>3. ASSUME InZellij(c), pc[c] # "called" PROVE ListInv(c)' /\ RecordInv(c)' /\ CoverInv(c)'
  <2>1. ListInv(c) /\ RecordInv(c) /\ CoverInv(c) BY <1>3 DEF ClientInv
  <2>2. CoverInv(c)' BY <1>1, <2>1, StaysTrue DEF CoverInv, Same
  <2> QED BY <2>1, <2>2, StaysTrue
<1> QED BY <1>1, <1>2, <1>3 DEF ClientInv, InZellij

\* A finite set written as a sequence is a sequence of all its elements.
LEMMA Enumerated ==
  ASSUME NEW S, IsFiniteSet(S)
  PROVE  /\ SetToSeq(S) \in Seq(S) /\ Len(SetToSeq(S)) \in Nat
         /\ \A i \in 1..Len(SetToSeq(S)) : SetToSeq(S)[i] \in S
         /\ \A x \in S : \E i \in 1..Len(SetToSeq(S)) : SetToSeq(S)[i] = x
<1> DEFINE n == Cardinality(S)
           f == SetToSeq(S)
<1>1. n \in Nat /\ ExistsBijection(1..n, S) BY FS_CardinalityType
<1>2. \E g \in [1..n -> S] : IsInjective(g)
  <2>1. PICK g \in Bijection(1..n, S) : TRUE BY <1>1 DEF ExistsBijection
  <2> QED BY <2>1 DEF Bijection, Injection, IsInjective
<1>3. f \in [1..n -> S] /\ IsInjective(f) BY <1>2 DEF SetToSeq
<1> HIDE DEF f
<1>4. f \in Injection(1..n, S) BY <1>3 DEF Injection
<1>5. Cardinality(1..n) = n
  <2>1. 1 \in Int /\ n \in Int /\ (n > 0 => ~(1 > n)) /\ n - 1 + 1 = n BY <1>1
  <2> HIDE DEF n
  <2> QED BY <1>1, <2>1, FS_Interval
<1>6. f \in Surjection(1..n, S) BY <1>4, <1>5, FS_Injection
<1>7. f \in Seq(S) /\ Len(f) = n BY <1>1, <1>3
<1>8. \A x \in S : \E i \in 1..n : f[i] = x BY <1>6 DEF Surjection
<1> HIDE DEF n
<1> QED BY <1>1, <1>3, <1>7, <1>8 DEF f

\* Looking, a launcher takes down every container that could back a session.
LEMMA LookOwn ==
  ASSUME SessInv, World, NEW c \in Clients, ClientInv(c), Look(c) PROVE ClientInv(c)'
<1> USE DEF SessInv, Goto
<1> DEFINE backing == {n \in Names : Conventional(n)}
<1>1. pc[c] = "called" /\ records[c] = <<>> /\ call' = call /\ running' = running /\ records' = records
  BY DEF Look, ClientInv, PlaceInv
<1>2. pc'[c] = IF InZellij(c) THEN "inspect" ELSE IF call[c].op = "attach" THEN "choose" ELSE "facts"
  BY DEF Look
<1>3. PlaceInv(c)'
  <2>1. call[c].op \in {"launch", "attach", "zellij-attach"}
    BY SessionsAssumption DEF Call
  <2> QED BY <1>1, <1>2, <2>1 DEF PlaceInv, InZellij
<1>4. ASSUME InZellij(c) PROVE ListInv(c)' /\ RecordInv(c)' /\ CoverInv(c)'
  <2>1. InZellij(c) /\ pc'[c] = "inspect" BY <1>2, <1>4
  <2>2. atList'[c] = running /\ Listed(c) BY <2>1 DEF Look
  <2>3. backing \subseteq ContainerName /\ IsFiniteSet(backing)
    BY FinitelyMany, FS_Subset DEF Names
  <2>4. \/ blind'[c] /\ queue'[c] = <<>>
        \/ queue'[c] = SetToSeq(backing)
    BY <2>2 DEF Listed, Unanswered
  <2> HIDE DEF backing
  <2>5. queue'[c] \in Seq(ContainerName) /\ \A i \in 1..Len(queue'[c]) : Conventional(queue'[c][i])
    <3>1. CASE queue'[c] = <<>> BY <3>1
    <3>2. CASE queue'[c] = SetToSeq(backing)
      <4>1. SetToSeq(backing) \in Seq(ContainerName) BY <2>3, Enumerated, SeqMonotonic
      <4>2. \A i \in 1..Len(SetToSeq(backing)) : SetToSeq(backing)[i] \in backing BY <2>3, Enumerated
      <4>3. \A n \in backing : Conventional(n) BY DEF backing
      <4> QED BY <3>2, <4>1, <4>2, <4>3
    <3> QED BY <2>4, <3>1, <3>2
  <2>6. ListInv(c)' BY <1>1, <2>2, <2>5 DEF ListInv, Containers, World
  <2>7. RecordInv(c)' BY <1>1 DEF RecordInv
  <2>8. ASSUME ~blind'[c], NEW k \in Containers, Seen(c, k)' PROVE Awaited(c, k)'
    <3>1. k \in DOMAIN running /\ Conventional(running[k]) BY <1>1, <2>8 DEF Seen, Backs, Conventional
    <3>2. running[k] \in backing BY <3>1 DEF backing, Names
    <3>3. \A x \in backing : \E i \in 1..Len(SetToSeq(backing)) : SetToSeq(backing)[i] = x
      BY ONLY <2>3, Enumerated
    <3>4. queue'[c] = SetToSeq(backing) BY <2>4, <2>8
    <3>5. \E j \in 1..Len(queue'[c]) : queue'[c][j] = running'[k] BY ONLY <1>1, <3>2, <3>3, <3>4
    <3> QED BY <3>5 DEF Awaited
  <2> QED BY <2>1, <2>6, <2>7, <2>8 DEF CoverInv
<1>5. InZellij(c)' => InZellij(c) BY <1>1 DEF InZellij
<1> QED BY <1>3, <1>4, <1>5 DEF ClientInv

\* Inspecting a container that backs a session records it.
LEMMA InspectOwn ==
  ASSUME SessionsReadable, SessInv, World, NEW c \in Clients, ClientInv(c), Inspect(c)
  PROVE  ClientInv(c)'
<1> USE DEF SessInv
<1>1. /\ pc[c] = "inspect" /\ queue[c] # <<>> /\ pc' = pc /\ call' = call /\ running' = running
      /\ atList' = atList /\ queue'[c] = Tail(queue[c])
  BY DEF Inspect
<1>2. PlaceInv(c)' BY <1>1 DEF ClientInv, PlaceInv, InSession, InZellij
<1>3. ASSUME InZellij(c) PROVE ListInv(c)' /\ RecordInv(c)' /\ CoverInv(c)'
  <2> DEFINE n == Head(queue[c])
             holders == {k \in DOMAIN running : running[k] = n}
  <2>1. ListInv(c) /\ RecordInv(c) /\ CoverInv(c) BY <1>1, <1>3 DEF ClientInv
  <2>2. queue[c] \in Seq(ContainerName) /\ records[c] \in Seq(Record) BY <2>1 DEF ListInv
  <2>3. /\ n \in ContainerName /\ Len(queue[c]) \in Nat /\ Len(queue[c]) # 0 /\ n = queue[c][1]
        /\ queue'[c] \in Seq(ContainerName) /\ Len(queue'[c]) = Len(queue[c]) - 1
        /\ \A i \in 1..Len(queue'[c]) : queue'[c][i] = queue[c][i + 1]
    BY <1>1, <2>2, HeadTailProperties, EmptySeq
  <2>4. \A i \in 1..Len(queue'[c]) : i + 1 \in 1..Len(queue[c]) BY <2>3
  <2>5. Conventional(n) /\ \A i \in 1..Len(queue'[c]) : Conventional(queue'[c][i])
    BY <2>1, <2>3, <2>4 DEF ListInv
  <2>6. \A k : Source(c, k)' <=> Source(c, k)
    BY <1>1 DEF Source, Known, SessionOf
  \* The sessions on record are those of before, and one a holder was started for.
  <2> DEFINE Grown == \E k \in holders, r \in Record :
                        /\ SessionOf(k) # NoSession
                        /\ r = [name |-> running[k], session |-> SessionOf(k)]
                        /\ records'[c] = Append(records[c], r)
  <2>7. /\ records'[c] = records[c] \/ Grown
        /\ ~blind'[c] => ~blind[c] /\
             \A k \in holders : SessionOf(k) # NoSession => Grown
    <3>1. \A k \in holders : SessionFromEnv(InspectEnv(k)) = SessionOf(k) /\ SessionOf(k) \in STRING
      BY ReadsSession
    <3>2. CASE Unanswered(c) /\ UNCHANGED records BY <3>2 DEF Unanswered
    <3>3. CASE holders = {} /\ Answered /\ UNCHANGED records BY <3>3 DEF Answered
    <3>4. CASE Answered /\ \E k \in holders :
                 records' = IF SessionFromEnv(InspectEnv(k)) = NoSession THEN records
                            ELSE [records EXCEPT ![c] =
                                    Append(@, [name |-> n, session |-> SessionFromEnv(InspectEnv(k))])]
      <4>1. PICK k \in holders :
              records' = IF SessionOf(k) = NoSession THEN records
                         ELSE [records EXCEPT ![c] = Append(@, [name |-> n, session |-> SessionOf(k)])]
        BY <3>1, <3>4
      <4>2. \A m \in holders : m = k BY DEF SessInv
      <4>3. SessionOf(k) \in STRING BY <3>1
      <4>4. [name |-> n, session |-> SessionOf(k)] \in Record BY <2>3, <4>3 DEF Record
      <4>5. CASE SessionOf(k) = NoSession BY <3>4, <4>1, <4>2, <4>5 DEF Answered
      <4>6. CASE SessionOf(k) # NoSession
        <5>1. Grown
          <6> DEFINE r == [name |-> n, session |-> SessionOf(k)]
          <6>1. records'[c] = Append(records[c], r) BY <4>1, <4>6
          <6> QED BY <4>4, <4>6, <6>1
        <5> QED BY <3>4, <5>1 DEF Answered
      <4> QED BY <4>5, <4>6
    <3> QED BY <3>2, <3>3, <3>4 DEF Inspect
  <2> HIDE DEF n, holders, Grown
  <2>8. /\ records'[c] \in Seq(Record) /\ RecordInv(c)'
        /\ \A k : Recorded(c, k) => Recorded(c, k)'
        /\ Grown => \E k \in holders : SessionOf(k) # NoSession /\ Recorded(c, k)'
    <3>1. \A k : SessionOf(k)' = SessionOf(k) BY <1>1 DEF SessionOf
    <3>2. CASE records'[c] = records[c] /\ ~Grown
      BY <1>1, <2>1, <2>2, <2>6, <3>1, <3>2 DEF RecordInv, Recorded
    <3>3. CASE Grown
      <4>1. PICK k \in holders, r \in Record :
              /\ SessionOf(k) # NoSession
              /\ r = [name |-> running[k], session |-> SessionOf(k)]
              /\ records'[c] = Append(records[c], r)
        BY <3>3 DEF Grown
      <4>2. /\ Len(records[c]) \in Nat /\ records'[c] \in Seq(Record)
            /\ Len(records'[c]) = Len(records[c]) + 1
            /\ \A i \in 1..Len(records[c]) : records'[c][i] = records[c][i]
            /\ records'[c][Len(records[c]) + 1] = r
        BY <2>2, <4>1, AppendProperties, LenProperties
      <4>3. k \in DOMAIN running /\ running[k] = n /\ k \in Containers BY DEF holders
      <4>4. Known(c, k) BY <2>1, <4>3 DEF Known, ListInv, Containers
      <4>5. k \in DOMAIN atList[c] => Conventional(atList[c][k]) BY <2>1, <2>5, <4>3 DEF ListInv
      <4>6. Source(c, r.session) BY <4>1, <4>3, <4>4, <4>5 DEF Source
      <4>7. \A i \in 1..Len(records'[c]) : i \in 1..Len(records[c]) \/ i = Len(records[c]) + 1
        BY <4>2
      <4>8. RecordInv(c)' BY <2>1, <2>6, <4>2, <4>6, <4>7 DEF RecordInv
      <4>9. \A m : Recorded(c, m) => Recorded(c, m)' BY <1>1, <3>1, <4>2 DEF Recorded
      <4>10. Recorded(c, k)' BY <1>1, <3>1, <4>1, <4>2 DEF Recorded
      <4> QED BY <4>1, <4>2, <4>8, <4>9, <4>10
    <3> QED BY <2>7, <3>2, <3>3
  <2>9. ListInv(c)' BY <1>1, <2>1, <2>3, <2>5, <2>8 DEF ListInv
  <2>10. ASSUME ~blind'[c], NEW k \in Containers, Seen(c, k)' PROVE Awaited(c, k)' \/ Recorded(c, k)'
    <3>1. Seen(c, k) /\ k \in DOMAIN running /\ SessionOf(k) # NoSession
      BY <1>1, <2>10 DEF Seen, Backs, SessionOf
    <3>2. Awaited(c, k) \/ Recorded(c, k) BY <1>1, <2>1, <2>7, <2>10, <3>1 DEF CoverInv
    <3>3. ASSUME Awaited(c, k) PROVE Awaited(c, k)' \/ Recorded(c, k)'
      <4>1. PICK i \in 1..Len(queue[c]) : queue[c][i] = running[k] BY <3>3 DEF Awaited
      <4>2. CASE i = 1
        <5>1. k \in holders BY <2>3, <3>1, <4>1, <4>2 DEF holders
        <5>2. \A m \in holders : m = k BY <5>1 DEF holders
        <5> QED BY <2>7, <2>8, <2>10, <3>1, <5>1, <5>2
      <4>3. CASE i # 1
        <5>1. i - 1 \in 1..Len(queue'[c]) /\ queue'[c][i - 1] = running[k] BY <2>3, <4>1, <4>3
        <5> QED BY <1>1, <5>1 DEF Awaited
      <4> QED BY <4>2, <4>3
    <3> QED BY <2>8, <3>2, <3>3
  <2> QED BY <1>1, <2>8, <2>9, <2>10 DEF CoverInv
<1>4. InZellij(c)' => InZellij(c) BY <1>1 DEF InZellij
<1> QED BY <1>2, <1>3, <1>4 DEF ClientInv

\* Past its inspections, a launcher only moves on; the gate lets it pass when
\* nothing on record stands in its way.
LEMMA MovesOwn ==
  ASSUME SessInv, World, NEW c \in Clients, ClientInv(c),
         \/ Inspected(c) \/ Gate(c) \/ ProbeFacts(c) \/ StartContainer(c) \/ Choose(c) \/ Connect(c)
  PROVE  ClientInv(c)'
<1> USE DEF SessInv, Goto
<1>1. Same(c) /\ call' = call
  <2>1. CASE Inspected(c) BY <2>1 DEF Inspected, Same
  <2>2. CASE Gate(c) BY <2>2 DEF Gate, Same
  <2>3. CASE ProbeFacts(c) BY <2>3 DEF ProbeFacts, Unanswered, Answered, Same
  <2>4. CASE StartContainer(c) BY <2>4 DEF StartContainer, Same
  <2>5. CASE Choose(c) BY <2>5 DEF Choose, Same
  <2>6. CASE Connect(c) BY <2>6 DEF Connect, Same
  <2> QED BY <2>1, <2>2, <2>3, <2>4, <2>5, <2>6
<1>2. /\ InSession(c)' <=> InSession(c)
      /\ InZellij(c)' <=> InZellij(c)
      /\ MayLaunch(c)' <=> MayLaunch(c)
  BY <1>1 DEF InSession, InZellij, MayLaunch, Same
<1>3. \/ pc[c] = "inspect" /\ queue[c] = <<>> /\ pc'[c] = IF call[c].op = "launch" THEN "gate" ELSE "choose"
      \/ pc[c] = "gate" /\ pc'[c] = IF MayLaunch(c) THEN "facts" ELSE "refused"
      \/ pc[c] = "facts" /\ pc'[c] = "start"
      \/ pc[c] = "start" /\ pc'[c] \in {"clash", "started"}
      \/ pc[c] \in {"choose", "attach"} /\ pc'[c] \in {"attach", "done", "failed", "connected"}
  <2>1. CASE Inspected(c) BY <2>1 DEF Inspected
  <2>2. CASE Gate(c) BY <2>2 DEF Gate
  <2>3. CASE ProbeFacts(c) BY <2>3 DEF ProbeFacts
  <2>4. CASE StartContainer(c) BY <2>4 DEF StartContainer
  <2>5. CASE Choose(c) BY <2>5 DEF Choose, ByName, ByChoice, Attaches, Leaves
  <2>6. CASE Connect(c) BY <2>6 DEF Connect
  <2> QED BY <2>1, <2>2, <2>3, <2>4, <2>5, <2>6
<1>4. PlaceInv(c)' BY <1>1, <1>2, <1>3 DEF ClientInv, PlaceInv, InSession, InZellij
<1>5. ASSUME InZellij(c) PROVE ListInv(c)' /\ RecordInv(c)' /\ CoverInv(c)'
  <2>1. ListInv(c) /\ RecordInv(c) /\ CoverInv(c) BY <1>3, <1>5 DEF ClientInv
  <2>2. ASSUME ~blind'[c], NEW k \in Containers, Seen(c, k)'
        PROVE  /\ pc'[c] # "inspect"
               /\ pc'[c] \in {"gate", "choose"} => Recorded(c, k)'
               /\ pc'[c] \in {"facts", "start", "started"} => call[c].new /\ SessionOf(k)' # call[c].session
    <3>1. /\ ~blind[c] /\ Seen(c, k) /\ SessionOf(k)' = SessionOf(k)
          /\ Recorded(c, k) => Recorded(c, k)'
      BY <1>1, <2>1, <2>2, StaysTrue DEF Same
    <3>2. queue[c] = <<>> => ~Awaited(c, k) BY DEF Awaited
    <3>3. Recorded(c, k) /\ MayLaunch(c) => call[c].new /\ SessionOf(k) # call[c].session
      <4>1. records[c] \in Seq(Record) BY <2>1 DEF ListInv
      <4>2. DOMAIN records[c] = 1..Len(records[c]) BY <4>1, LenProperties
      <4> QED BY <4>2 DEF Recorded, MayLaunch
    <3> QED BY <1>3, <2>1, <2>2, <3>1, <3>2, <3>3 DEF CoverInv
  <2>3. CoverInv(c)' BY <1>1, <2>2 DEF CoverInv
  <2> QED BY <1>1, <2>1, <2>3, StaysTrue
<1> QED BY <1>2, <1>4, <1>5 DEF ClientInv

\* Every step keeps what the launchers know.
LEMMA GateStep ==
  ASSUME SessionsReadable, GateInv, [Next]_vars, NEW d \in Clients PROVE ClientInv(d)'
<1>1. SessInv /\ World /\ ClientInv(d) BY WorldStep DEF GateInv, Basics
<1>2. Same(d) /\ pc'[d] = pc[d] => ClientInv(d)' BY <1>1, Bystander
<1> DEFINE Still == Same(d) /\ pc'[d] = pc[d]
<1> USE DEF SessInv, Goto
<1>3. ASSUME NEW c \in Clients, Look(c) PROVE ClientInv(d)'
  <2>1. d # c => Still BY <1>1, <1>3 DEF Look, Listed, Unanswered, Answered, Same
  <2> QED BY <1>1, <1>2, <1>3, <2>1, LookOwn
<1>4. ASSUME NEW c \in Clients, Inspect(c) PROVE ClientInv(d)'
  <2>1. d # c => Still BY <1>1, <1>4 DEF Inspect, Unanswered, Answered, Same
  <2> QED BY <1>1, <1>2, <1>4, <2>1, InspectOwn
<1>5. ASSUME NEW c \in Clients, Inspected(c) PROVE ClientInv(d)'
  <2>1. d # c => Still BY <1>1, <1>5 DEF Inspected, Same
  <2> QED BY <1>1, <1>2, <1>5, <2>1, MovesOwn
<1>6. ASSUME NEW c \in Clients, Gate(c) PROVE ClientInv(d)'
  <2>1. d # c => Still BY <1>1, <1>6 DEF Gate, Same
  <2> QED BY <1>1, <1>2, <1>6, <2>1, MovesOwn
<1>7. ASSUME NEW c \in Clients, ProbeFacts(c) PROVE ClientInv(d)'
  <2>1. d # c => Still BY <1>1, <1>7 DEF ProbeFacts, Unanswered, Answered, Same
  <2> QED BY <1>1, <1>2, <1>7, <2>1, MovesOwn
<1>8. ASSUME NEW c \in Clients, StartContainer(c) PROVE ClientInv(d)'
  <2>1. d # c => Still BY <1>1, <1>8 DEF StartContainer, Same
  <2> QED BY <1>1, <1>2, <1>8, <2>1, MovesOwn
<1>9. ASSUME NEW c \in Clients, Choose(c) PROVE ClientInv(d)'
  <2>1. d # c => Still BY <1>1, <1>9 DEF Choose, ByName, ByChoice, Attaches, Leaves, Same
  <2> QED BY <1>1, <1>2, <1>9, <2>1, MovesOwn
<1>10. ASSUME NEW c \in Clients, Connect(c) PROVE ClientInv(d)'
  <2>1. d # c => Still BY <1>1, <1>10 DEF Connect, Same
  <2> QED BY <1>1, <1>2, <1>10, <2>1, MovesOwn
<1>11. ASSUME NEW k \in Containers, Exit(k) PROVE ClientInv(d)' BY <1>2, <1>11 DEF Exit, Same
<1>12. CASE UNCHANGED vars BY <1>2, <1>12 DEF vars, Same
<1> QED
  BY <1>3, <1>4, <1>5, <1>6, <1>7, <1>8, <1>9, <1>10, <1>11, <1>12 DEF Next, Idle

\* The state invariant of the gate.
LEMMA GateInvHolds ==
  ASSUME SessionsReadable PROVE Spec => []GateInv
<1>1. ASSUME Init PROVE GateInv
  <2>1. \A c \in Clients : pc[c] = "called" /\ records[c] = <<>> BY <1>1 DEF Init
  <2> QED BY <1>1, <2>1, BasicsInit DEF GateInv, ClientInv, PlaceInv
<1>2. ASSUME GateInv, [Next]_vars PROVE GateInv'
  BY <1>2, SessStep, NameStep, GateStep DEF GateInv, Basics
<1> QED BY <1>1, <1>2, PTL DEF Spec

\* A session's own launcher names it.
LEMMA OwnSession ==
  ASSUME NEW c \in Clients PROVE SessionOf(c) = call[c].session
BY SessionsAssumption DEF SessionOf

\* ResolveLaunch's refusals (zellij.go:98-101): no container that backs a live
\* session is followed by another for that session, nor by one for any other
\* without --new-session, if its launcher could see it and was answered.
THEOREM GateKept ==
  ASSUME SessionsReadable PROVE Spec => []GateHonoured
<1>1. ASSUME GateInv PROVE GateHonoured
  <2> SUFFICES ASSUME NEW c \in Clients \cap DOMAIN running, NEW k \in DOMAIN running,
                      SessionOf(c) # NoSession, k \in DOMAIN atList[c], Backs(k, running[k]), ~blind[c]
               PROVE  call[c].new /\ SessionOf(k) # SessionOf(c)
    BY DEF GateHonoured
  <2>1. pc[c] = "started" /\ k \in Containers BY <1>1 DEF GateInv, Basics, SessInv
  <2>2. InZellij(c) BY <1>1, <2>1, OwnSession DEF GateInv, ClientInv, PlaceInv, InZellij
  <2>3. CoverInv(c) BY <1>1, <2>1, <2>2 DEF GateInv, ClientInv
  <2> QED BY <2>1, <2>3, OwnSession DEF CoverInv, Seen
<1> QED BY <1>1, GateInvHolds, PTL

\* No launch is refused for a session nobody had (SessionFromEnv, zellij.go:70).
THEOREM RefusalsTrue ==
  ASSUME SessionsReadable PROVE Spec => []RefusalsFounded
<1>1. ASSUME GateInv PROVE RefusalsFounded
  <2> SUFFICES ASSUME NEW c \in Clients, pc[c] = "refused"
               PROVE  \E k \in DOMAIN atList[c] \cup {m \in Clients : pc[m] = "started"} :
                        /\ SessionOf(k) # NoSession
                        /\ ~call[c].new \/ SessionOf(k) = call[c].session
                        /\ k \in DOMAIN atList[c] => Conventional(atList[c][k])
    BY DEF RefusalsFounded
  <2>1. InSession(c) /\ ~MayLaunch(c) BY <1>1 DEF GateInv, ClientInv, PlaceInv
  <2>2. ListInv(c) /\ RecordInv(c) BY <1>1, <2>1 DEF GateInv, ClientInv, InSession, InZellij
  <2>3. Len(records[c]) \in Nat /\ DOMAIN records[c] = 1..Len(records[c])
    BY <2>2, LenProperties DEF ListInv
  <2>4. records[c] # <<>> => 1 \in 1..Len(records[c]) BY <2>2, <2>3, EmptySeq DEF ListInv
  <2>5. \E i \in 1..Len(records[c]) : ~call[c].new \/ records[c][i].session = call[c].session
    BY <2>1, <2>3, <2>4 DEF MayLaunch
  <2>6. PICK i \in 1..Len(records[c]) : ~call[c].new \/ records[c][i].session = call[c].session
    BY <2>5
  <2>7. Source(c, records[c][i].session) BY <2>2 DEF RecordInv
  <2> QED BY <2>6, <2>7 DEF Source, Known
<1> QED BY <1>1, GateInvHolds, PTL

\* "refusing ambiguous attach" (zellij.go:194): of the containers that backed the
\* named session when the client listed them and still do, all go by the name it
\* attaches to, so there is one.
THEOREM AttachesToOne ==
  ASSUME SessionsReadable PROVE Spec => AttachUnambiguous
<1> DEFINE Sure(c) ==
      (pc[c] = "choose" /\ pc'[c] = "attach" /\ call[c].op = "zellij-attach" /\ Named(c) /\ ~blind[c])
        => \A k \in DOMAIN running \cap DOMAIN atList[c] :
             Backs(k, running[k]) /\ SessionOf(k) = call[c].session => running[k] = name'[c]
<1>1. ASSUME GateInv, [Next]_vars, NEW c \in Clients PROVE Sure(c)
  <2> SUFFICES ASSUME pc[c] = "choose", pc'[c] = "attach", call[c].op = "zellij-attach", Named(c),
                      ~blind[c], NEW k \in DOMAIN running \cap DOMAIN atList[c],
                      Backs(k, running[k]), SessionOf(k) = call[c].session
               PROVE  running[k] = name'[c]
    OBVIOUS
  <2>1. SessInv /\ ListInv(c) /\ CoverInv(c) BY <1>1 DEF GateInv, Basics, ClientInv, InZellij
  <2>2. Choose(c)
    <3> USE <2>1 DEF SessInv, Goto
    <3>1. ASSUME NEW d \in Clients
          PROVE  /\ ~Look(d) /\ ~Inspect(d) /\ ~Inspected(d) /\ ~Gate(d)
                 /\ ~ProbeFacts(d) /\ ~StartContainer(d) /\ ~Connect(d)
                 /\ Choose(d) => d = c
      <4>1. ~Look(d) BY DEF Look
      <4>2. ~Inspect(d) BY DEF Inspect
      <4>3. ~Inspected(d) BY DEF Inspected
      <4>4. ~Gate(d) BY DEF Gate
      <4>5. ~ProbeFacts(d) BY DEF ProbeFacts
      <4>6. ~StartContainer(d) BY DEF StartContainer
      <4>7. ~Connect(d) BY DEF Connect
      <4>8. Choose(d) => d = c BY DEF Choose, ByName, ByChoice, Attaches, Leaves
      <4> QED BY <4>1, <4>2, <4>3, <4>4, <4>5, <4>6, <4>7, <4>8
    <3>2. \A m \in Containers : ~Exit(m) BY DEF Exit
    <3>3. ~Idle /\ ~UNCHANGED vars BY DEF Idle, vars
    <3> QED BY <1>1, <3>1, <3>2, <3>3 DEF Next
  <2>3. ByName(c) BY <2>2 DEF Choose
  <2>4. PICK i \in DOMAIN records[c] :
          /\ \A j \in DOMAIN records[c] : records[c][j].session = call[c].session => j = i
          /\ name' = [name EXCEPT ![c] = records[c][i].name]
    BY <2>1, <2>3 DEF ByName, Offered, Attaches, Leaves, Goto, SessInv
  <2>5. k \in Containers /\ Seen(c, k) BY <2>1 DEF SessInv, Seen
  <2>6. PICK j \in 1..Len(records[c]) : records[c][j] = [name |-> running[k], session |-> SessionOf(k)]
    BY <2>1, <2>5 DEF CoverInv, Recorded
  <2>7. DOMAIN records[c] = 1..Len(records[c]) BY <2>1, LenProperties DEF ListInv
  <2>8. j = i BY <2>4, <2>6, <2>7
  <2> QED BY <2>1, <2>4, <2>6, <2>8 DEF SessInv
<1>2. GateInv /\ [Next]_vars => [\A c \in Clients : Sure(c)]_vars BY <1>1
<1> HIDE DEF Sure
<1> QED BY <1>2, GateInvHolds, PTL DEF Spec, AttachUnambiguous, Sure
=============================================================================
