-------------------------- MODULE PlanBuildProofs --------------------------
(***************************************************************************)
(* The planner's promise holds for every repository, set of worktrees and  *)
(* facts, and for all answers: what is applied is always the beginning of  *)
(* the program the answers lead to, each prompt is asked once, and what is *)
(* launched is complete.                                                   *)
(***************************************************************************)
EXTENDS PlanBuild, SequenceTheorems, TLAPS

\* Where steps are made, and the steps.
Places ==
  Linked \cup {<<"home">>, <<"home", "claude.json">>, <<"home", "skills">>}
         \cup {<<what>> : what \in {"worktree", "hidden", "sharing", "created"}}
         \cup {Append(p, name) : p \in Projects, name \in {"zellij", "node_modules"}}
Kinds == {"print", "mkdir", "lock", "move", "symlink", "remove"}
StepSet == [do : Kinds, on : SUBSET Places]
Steps == Seq(StepSet)
Answers == [Prompts -> {"unasked", "yes", "no"}]

\* s is the beginning of t.
Begins(s, t) == Len(s) <= Len(t) /\ \A n \in 1..Len(s) : s[n] = t[n]

\* Every file that is moved is linked back by the next step.
Whole(s) ==
  \A n \in 1..Len(s) :
    s[n].do = "move" => n < Len(s) /\ s[n + 1] = Step("symlink", s[n].on)

\* The program up to the lock offer, and up to the skills.
ToLocks(i, a) == GitSteps(i) \o Directories(i) \o LockSteps(i, a)
ToSkills(i, a) == ToLocks(i, a) \o Account(i) \o Skills(i)
----------------------------------------------------------------------------
(* Sequences.                                                              *)

\* Every sequence begins its continuations.
LEMMA BeginsConcat ==
  ASSUME NEW S, NEW s \in Seq(S), NEW t \in Seq(S) PROVE Begins(s, s \o t)
<1>1. /\ Len(s \o t) = Len(s) + Len(t) /\ Len(s) \in Nat /\ Len(t) \in Nat
      /\ \A n \in 1..Len(s) + Len(t) : (s \o t)[n] = IF n <= Len(s) THEN s[n] ELSE t[n - Len(s)]
  BY ConcatProperties
<1> QED BY <1>1 DEF Begins

\* To begin is transitive.
LEMMA BeginsTrans ==
  ASSUME NEW S, NEW s \in Seq(S), NEW t \in Seq(S), NEW u \in Seq(S), Begins(s, t), Begins(t, u)
  PROVE Begins(s, u)
<1>1. Len(s) \in Nat /\ Len(t) \in Nat /\ Len(u) \in Nat OBVIOUS
<1> QED BY <1>1 DEF Begins

\* A beginning that is as long is the whole.
LEMMA BeginsAll ==
  ASSUME NEW S, NEW s \in Seq(S), NEW t \in Seq(S), Begins(s, t), Len(s) = Len(t) PROVE s = t
BY SeqEqual DEF Begins

\* What follows the same steps begins what follows them.
LEMMA BeginsAfter ==
  ASSUME NEW S, NEW s \in Seq(S), NEW t \in Seq(S), NEW u \in Seq(S), Begins(t, u)
  PROVE Begins(s \o t, s \o u)
<1>1. /\ Len(s \o t) = Len(s) + Len(t) /\ Len(s) \in Nat /\ Len(t) \in Nat
      /\ \A n \in 1..Len(s) + Len(t) : (s \o t)[n] = IF n <= Len(s) THEN s[n] ELSE t[n - Len(s)]
  BY ConcatProperties
<1>2. /\ Len(s \o u) = Len(s) + Len(u) /\ Len(u) \in Nat
      /\ \A n \in 1..Len(s) + Len(u) : (s \o u)[n] = IF n <= Len(s) THEN s[n] ELSE u[n - Len(s)]
  BY ConcatProperties
<1>3. ASSUME NEW n \in 1..Len(s \o t) PROVE (s \o t)[n] = (s \o u)[n]
  <2>1. n \in 1..Len(s) + Len(t) /\ n \in 1..Len(s) + Len(u) BY <1>1, <1>2 DEF Begins
  <2>2. CASE n <= Len(s) BY <1>1, <1>2, <2>1, <2>2
  <2>3. CASE n > Len(s)
    <3>1. n - Len(s) \in 1..Len(t) BY <1>1, <2>1, <2>3
    <3>2. t[n - Len(s)] = u[n - Len(s)] BY <3>1 DEF Begins
    <3>3. ~(n <= Len(s)) BY <1>1, <2>1, <2>3
    <3> QED BY <1>1, <1>2, <2>1, <3>2, <3>3
  <2>4. n <= Len(s) \/ n > Len(s) BY <1>1, <2>1
  <2> QED BY ONLY <2>2, <2>3, <2>4, Zenon
<1> QED BY <1>1, <1>2, <1>3 DEF Begins

\* Programs that are whole are whole one after the other.
LEMMA WholeConcat ==
  ASSUME NEW s \in Steps, NEW t \in Steps, Whole(s), Whole(t)
  PROVE s \o t \in Steps /\ Whole(s \o t)
<1>1. /\ s \o t \in Steps
      /\ Len(s \o t) = Len(s) + Len(t) /\ Len(s) \in Nat /\ Len(t) \in Nat
      /\ \A n \in 1..Len(s) + Len(t) : (s \o t)[n] = IF n <= Len(s) THEN s[n] ELSE t[n - Len(s)]
  BY ConcatProperties DEF Steps
<1>2. ASSUME NEW n \in 1..Len(s \o t), (s \o t)[n].do = "move"
      PROVE n < Len(s \o t) /\ (s \o t)[n + 1] = Step("symlink", (s \o t)[n].on)
  <2>1. n \in 1..Len(s) + Len(t) BY <1>1
  <2>2. CASE n <= Len(s)
    <3>1. n \in 1..Len(s) /\ (s \o t)[n] = s[n] BY <1>1, <2>1, <2>2
    <3>2. n < Len(s) /\ s[n + 1] = Step("symlink", s[n].on) BY <1>2, <3>1 DEF Whole
    <3>3. n + 1 \in 1..Len(s) + Len(t) /\ n + 1 <= Len(s) BY <1>1, <3>1, <3>2
    <3>4. (s \o t)[n + 1] = s[n + 1] BY <1>1, <3>3
    <3>5. n < Len(s) + Len(t) BY <1>1, <3>1, <3>2
    <3> QED BY <1>1, <3>1, <3>2, <3>4, <3>5
  <2>3. CASE n > Len(s)
    <3> DEFINE m == n - Len(s)
    <3>1. m \in 1..Len(t) /\ ~(n <= Len(s)) BY <1>1, <2>1, <2>3
    <3>2. (s \o t)[n] = t[m] BY <1>1, <2>1, <3>1
    <3>3. m < Len(t) /\ t[m + 1] = Step("symlink", t[m].on) BY <1>2, <3>1, <3>2 DEF Whole
    <3>4. n + 1 \in 1..Len(s) + Len(t) /\ ~(n + 1 <= Len(s)) /\ n + 1 - Len(s) = m + 1
      BY <1>1, <2>1, <3>1, <3>3
    <3>5. (s \o t)[n + 1] = t[m + 1] BY <1>1, <3>4
    <3>6. n < Len(s) + Len(t) BY <1>1, <2>1, <3>3
    <3> QED BY <1>1, <3>2, <3>3, <3>5, <3>6
  <2>4. n <= Len(s) \/ n > Len(s) BY <1>1, <2>1
  <2> QED BY ONLY <2>2, <2>3, <2>4, Zenon
<1> QED BY <1>1, <1>2 DEF Whole
----------------------------------------------------------------------------
(* The stages of Build.                                                    *)

\* A step that moves nothing is a whole program.
LEMMA OneStep ==
  ASSUME NEW d \in Kinds, d # "move", NEW o \in SUBSET Places
  PROVE <<Step(d, o)>> \in Steps /\ Whole(<<Step(d, o)>>)
<1>1. Step(d, o) \in StepSet /\ Step(d, o).do # "move" BY DEF Step, StepSet
<1> DEFINE x == Step(d, o)
<1> HIDE DEF x
<1>2. <<x>> \in Steps BY <1>1 DEF Steps, x
<1>3. Len(<<x>>) = 1 /\ <<x>>[1] = x OBVIOUS
<1>4. Whole(<<x>>)
  <2> SUFFICES ASSUME NEW n \in 1..1 PROVE <<x>>[n].do # "move"
    BY <1>3 DEF Whole
  <2>1. n = 1 OBVIOUS
  <2> QED BY <1>1, <1>3, <2>1 DEF x
<1> QED BY <1>2, <1>4 DEF x

\* So are two, of which the second links what the first moved, if it did.
LEMMA TwoSteps ==
  ASSUME NEW x \in StepSet, NEW y \in StepSet, y.do # "move",
         x.do = "move" => y = Step("symlink", x.on)
  PROVE <<x, y>> \in Steps /\ Whole(<<x, y>>)
<1>1. <<x, y>> \in Steps BY DEF Steps
<1>2. Len(<<x, y>>) = 2 /\ <<x, y>>[1] = x /\ <<x, y>>[2] = y OBVIOUS
<1> DEFINE s == <<x, y>>
<1> HIDE DEF s
<1>3. Whole(s)
  <2> SUFFICES ASSUME NEW n \in 1..2, s[n].do = "move"
               PROVE n < 2 /\ s[n + 1] = Step("symlink", s[n].on)
    BY <1>2 DEF Whole, s
  <2>1. n = 1 \/ n = 2 OBVIOUS
  <2>2. n = 1 BY <1>2, <2>1 DEF s
  <2>3. s[1] = x /\ s[1 + 1] = y BY <1>2 DEF s
  <2> QED BY <2>2, <2>3
<1> QED BY <1>1, <1>3 DEF s

\* The empty program is whole.
LEMMA NoStep == <<>> \in Steps /\ Whole(<<>>)
BY DEF Steps, Whole

\* Only Build's account steps move anything.
LEMMA Pieces ==
  ASSUME NEW i \in Inputs, NEW a \in Answers
  PROVE /\ GitSteps(i) \in Steps /\ Whole(GitSteps(i))
        /\ Directories(i) \in Steps /\ Whole(Directories(i))
        /\ LockSteps(i, a) \in Steps /\ Whole(LockSteps(i, a))
        /\ Skills(i) \in Steps /\ Whole(Skills(i))
        /\ NodeSteps(i, a) \in Steps /\ Whole(NodeSteps(i, a))
<1>1. i.project \in Projects BY DEF Inputs
<1>2. ASSUME NEW what \in {"worktree", "hidden", "sharing", "created"}
      PROVE <<PrintLine(what)>> \in Steps /\ Whole(<<PrintLine(what)>>)
  <2>1. {<<what>>} \in SUBSET Places BY DEF Places
  <2>2. "print" \in Kinds BY DEF Kinds
  <2> QED BY <2>1, <2>2, OneStep DEF PrintLine
<1>3. ASSUME NEW name \in {"zellij", "node_modules"}
      PROVE {Append(i.project, name)} \in SUBSET Places
  BY <1>1 DEF Places
<1>k. "mkdir" \in Kinds /\ "lock" \in Kinds BY DEF Kinds
<1>4. GitSteps(i) \in Steps /\ Whole(GitSteps(i)) BY <1>2, NoStep DEF GitSteps, When
<1>5. Directories(i) \in Steps /\ Whole(Directories(i))
  <2>1. {<<"home">>} \in SUBSET Places BY DEF Places
  <2>2. <<Step("mkdir", {<<"home">>})>> \in Steps /\ Whole(<<Step("mkdir", {<<"home">>})>>)
    BY <1>k, <2>1, OneStep
  <2> DEFINE z == <<Step("mkdir", {Append(i.project, "zellij")})>>
  <2>3. z \in Steps /\ Whole(z) BY <1>3, <1>k, OneStep
  <2> HIDE DEF z
  <2>4. When(i.zellij, z) \in Steps /\ Whole(When(i.zellij, z)) BY <2>3, NoStep DEF When
  <2> QED BY <2>2, <2>4, WholeConcat DEF Directories, z
<1>6. LockSteps(i, a) \in Steps /\ Whole(LockSteps(i, a))
  <2>1. Offered(i, a) \in SUBSET Places
    BY DEF Offered, LockCandidates, HiddenWorktrees, Places
  <2>2. <<Step("lock", Offered(i, a))>> \in Steps /\ Whole(<<Step("lock", Offered(i, a))>>)
    BY <1>k, <2>1, OneStep
  <2> DEFINE l == When(i.lockFlag \/ a["locks"] = "yes", <<Step("lock", Offered(i, a))>>)
             s == <<PrintLine("hidden")>> \o l
  <2>3. l \in Steps /\ Whole(l) BY <2>2, NoStep DEF When
  <2> HIDE DEF l
  <2>4. s \in Steps /\ Whole(s) BY <1>2, <2>3, WholeConcat
  <2> HIDE DEF s
  <2>5. When(Offered(i, a) # {}, s) \in Steps /\ Whole(When(Offered(i, a) # {}, s))
    BY <2>4, NoStep DEF When
  <2> QED BY <2>5 DEF LockSteps, s, l
<1>7. Skills(i) \in Steps /\ Whole(Skills(i))
  <2>1. {<<"home", "skills">>} \in SUBSET Places BY DEF Places
  <2> DEFINE m == <<Step("mkdir", {<<"home", "skills">>})>>
  <2>2. m \in Steps /\ Whole(m) BY <1>k, <2>1, OneStep
  <2> HIDE DEF m
  <2>3. When(i.skills \in {"fine", "conflict"}, m) \in Steps /\ Whole(When(i.skills \in {"fine", "conflict"}, m))
    BY <2>2, NoStep DEF When
  <2>4. /\ When(i.skills = "fine", <<PrintLine("sharing")>>) \in Steps
        /\ Whole(When(i.skills = "fine", <<PrintLine("sharing")>>))
    <3>1. <<PrintLine("sharing")>> \in Steps /\ Whole(<<PrintLine("sharing")>>) BY <1>2
    <3> QED BY <3>1, NoStep DEF When
  <2> QED BY <2>3, <2>4, WholeConcat DEF Skills, m
<1>8. NodeSteps(i, a) \in Steps /\ Whole(NodeSteps(i, a))
  <2> DEFINE m == Step("mkdir", {Append(i.project, "node_modules")})
             p == PrintLine("created")
  <2>1. {Append(i.project, "node_modules")} \in SUBSET Places BY <1>3
  <2>2. {<<"created">>} \in SUBSET Places BY DEF Places
  <2>3. m \in StepSet /\ m.do # "move" BY <1>k, <2>1 DEF Step, StepSet
  <2>4. p \in StepSet /\ p.do # "move" BY <2>2 DEF PrintLine, Step, StepSet, Kinds
  <2> HIDE DEF m, p
  <2>5. <<m, p>> \in Steps /\ Whole(<<m, p>>) BY <2>3, <2>4, TwoSteps
  <2> QED BY <2>5, NoStep DEF NodeSteps, When, m, p
<1> QED BY <1>4, <1>5, <1>6, <1>7, <1>8

\* The account steps move ~/.claude.json only to link it back.
LEMMA AccountWhole == ASSUME NEW i \in Inputs PROVE Account(i) \in Steps /\ Whole(Account(i))
<1> DEFINE do == AccountStateSteps(i.account)
           on == {<<"home", "claude.json">>}
<1>1. /\ do \in {<<>>, <<"move", "symlink">>, <<"remove">>, <<"symlink">>, <<"remove", "symlink">>}
  <2>1. CASE Unmigrated(i.account)
    <3>1. do = Relocation \o <<>> \o <<>> BY <2>1 DEF AccountStateSteps
    <3> QED BY <3>1 DEF Relocation
  <2>2. CASE ~Unmigrated(i.account)
    <3>1. do \in {<<>> \o <<>> \o <<>>, <<>> \o <<"remove">> \o <<>>, <<>> \o <<>> \o <<"symlink">>,
                  <<>> \o <<"remove">> \o <<"symlink">>}
      BY <2>2 DEF AccountStateSteps
    <3> QED BY <3>1
  <2> QED BY <2>1, <2>2
<1>2. on \in SUBSET Places BY DEF Places
<1>3. Account(i) = [n \in DOMAIN do |-> Step(do[n], on)] BY DEF Account
<1> HIDE DEF do, on
<1>4. /\ Step("move", on) \in StepSet /\ Step("move", on).on = on
      /\ Step("symlink", on) \in StepSet /\ Step("symlink", on).do # "move"
      /\ Step("remove", on) \in StepSet /\ Step("remove", on).do # "move"
  BY <1>2 DEF Step, StepSet, Kinds
<1>5. CASE do = <<>>
  <2>1. Account(i) = <<>> BY <1>3, <1>5
  <2> QED BY <2>1, NoStep
<1>6. CASE do = <<"move", "symlink">>
  <2>1. Account(i) = <<Step("move", on), Step("symlink", on)>> BY <1>3, <1>6
  <2> QED BY <1>4, <2>1, TwoSteps
<1>7. CASE do = <<"remove">>
  <2>1. Account(i) = <<Step("remove", on)>> BY <1>3, <1>7
  <2> QED BY <1>2, <2>1, OneStep DEF Kinds
<1>8. CASE do = <<"symlink">>
  <2>1. Account(i) = <<Step("symlink", on)>> BY <1>3, <1>8
  <2> QED BY <1>2, <2>1, OneStep DEF Kinds
<1>9. CASE do = <<"remove", "symlink">>
  <2>1. Account(i) = <<Step("remove", on), Step("symlink", on)>> BY <1>3, <1>9
  <2>2. Step("remove", on).do # "move" BY <1>4
  <2> QED BY <1>4, <2>1, <2>2, TwoSteps
<1> QED BY <1>1, <1>5, <1>6, <1>7, <1>8, <1>9

\* The longer programs of Build are whole.
LEMMA Wholes ==
  ASSUME NEW i \in Inputs, NEW a \in Answers
  PROVE /\ ToLocks(i, a) \in Steps /\ Whole(ToLocks(i, a))
        /\ ToSkills(i, a) \in Steps /\ Whole(ToSkills(i, a))
        /\ ToSkills(i, a) \o NodeSteps(i, a) \in Steps
        /\ Whole(ToSkills(i, a) \o NodeSteps(i, a))
<1>1. GitSteps(i) \o Directories(i) \in Steps /\ Whole(GitSteps(i) \o Directories(i))
  BY Pieces, WholeConcat
<1>2. ToLocks(i, a) \in Steps /\ Whole(ToLocks(i, a))
  BY <1>1, Pieces, WholeConcat DEF ToLocks
<1>3. ToLocks(i, a) \o Account(i) \in Steps /\ Whole(ToLocks(i, a) \o Account(i))
  BY <1>2, AccountWhole, WholeConcat
<1>4. ToSkills(i, a) \in Steps /\ Whole(ToSkills(i, a))
  BY <1>3, Pieces, WholeConcat DEF ToSkills
<1>5. /\ ToSkills(i, a) \o NodeSteps(i, a) \in Steps
      /\ Whole(ToSkills(i, a) \o NodeSteps(i, a))
  BY <1>4, Pieces, WholeConcat
<1> QED BY <1>2, <1>4, <1>5

\* What Build returns, by where it stops.
LEMMA Results ==
  ASSUME NEW i \in Inputs, NEW a \in Answers
  PROVE LET b == Build(i, a) IN
    /\ AsksGit(i, a) =>
         b.steps = GitSteps(i) /\ b.pending = "git" /\ b.result = "partial"
    /\ ~AsksGit(i, a) /\ AsksLocks(i, a) =>
         b.steps = ToLocks(i, a) /\ b.pending = "locks" /\ b.result = "partial"
    /\ ~AsksGit(i, a) /\ ~AsksLocks(i, a) =>
         \/ b.steps = ToSkills(i, a) /\ b.pending = "none" /\ b.result = "error"
         \/ /\ b.steps = ToSkills(i, a) /\ b.pending = "node" /\ b.result = "partial"
            /\ AsksNode(i, a)
         \/ /\ b.steps = ToSkills(i, a) \o NodeSteps(i, a)
            /\ b.pending = "none" /\ b.result = "run"
BY DEF Build, ToLocks, ToSkills, NoPrompt

\* Build's program is whole, but for nothing.
LEMMA BuildWhole ==
  ASSUME NEW i \in Inputs, NEW a \in Answers
  PROVE Build(i, a).steps \in Steps /\ Whole(Build(i, a).steps)
BY Results, Pieces, Wholes

\* Up to the lock offer, and from there, programs go on from each other.
LEMMA Continues ==
  ASSUME NEW i \in Inputs, NEW a \in Answers
  PROVE /\ Begins(GitSteps(i), ToLocks(i, a))
        /\ Begins(ToLocks(i, a), ToSkills(i, a))
        /\ Begins(ToSkills(i, a), ToSkills(i, a) \o NodeSteps(i, a))
<1>1. /\ GitSteps(i) \in Steps /\ Directories(i) \in Steps /\ LockSteps(i, a) \in Steps
      /\ Skills(i) \in Steps /\ NodeSteps(i, a) \in Steps /\ Account(i) \in Steps
      /\ ToLocks(i, a) \in Steps /\ ToSkills(i, a) \in Steps
  BY Pieces, AccountWhole, Wholes
<1>2. GitSteps(i) \o Directories(i) \in Steps BY <1>1, ConcatProperties DEF Steps
<1>3. Begins(GitSteps(i), ToLocks(i, a))
  <2>1. Begins(GitSteps(i), GitSteps(i) \o Directories(i)) BY <1>1, BeginsConcat DEF Steps
  <2>2. Begins(GitSteps(i) \o Directories(i), ToLocks(i, a))
    BY <1>1, <1>2, BeginsConcat DEF Steps, ToLocks
  <2> QED BY <1>1, <1>2, <2>1, <2>2, BeginsTrans DEF Steps
<1>4. Begins(ToLocks(i, a), ToSkills(i, a))
  <2>1. ToLocks(i, a) \o Account(i) \in Steps BY <1>1, ConcatProperties DEF Steps
  <2>2. Begins(ToLocks(i, a), ToLocks(i, a) \o Account(i)) BY <1>1, BeginsConcat DEF Steps
  <2>3. Begins(ToLocks(i, a) \o Account(i), ToSkills(i, a))
    BY <1>1, <2>1, BeginsConcat DEF Steps, ToSkills
  <2> QED BY <1>1, <2>1, <2>2, <2>3, BeginsTrans DEF Steps
<1>5. Begins(ToSkills(i, a), ToSkills(i, a) \o NodeSteps(i, a))
  BY <1>1, BeginsConcat DEF Steps
<1> QED BY <1>3, <1>4, <1>5

\* Whatever Build stops at, it has at least the steps up to the lock offer once
\* the .git question is answered, and those up to the skills once both are.
LEMMA BuildBegins ==
  ASSUME NEW i \in Inputs, NEW a \in Answers
  PROVE /\ ~AsksGit(i, a) => Begins(ToLocks(i, a), Build(i, a).steps)
        /\ ~AsksGit(i, a) /\ ~AsksLocks(i, a) => Begins(ToSkills(i, a), Build(i, a).steps)
<1>1. ToLocks(i, a) \in Steps /\ ToSkills(i, a) \in Steps /\ NodeSteps(i, a) \in Steps
      /\ ToSkills(i, a) \o NodeSteps(i, a) \in Steps
  BY Wholes, Pieces
<1>2. \A s \in Steps : Begins(s, s) BY DEF Begins, Steps
<1>3. ~AsksGit(i, a) /\ ~AsksLocks(i, a) =>
        /\ Begins(ToSkills(i, a), Build(i, a).steps)
        /\ Begins(ToLocks(i, a), Build(i, a).steps)
  <2>1. Begins(ToLocks(i, a), ToSkills(i, a) \o NodeSteps(i, a))
    <3>1. /\ Begins(ToLocks(i, a), ToSkills(i, a))
          /\ Begins(ToSkills(i, a), ToSkills(i, a) \o NodeSteps(i, a))
      BY Continues
    <3> DEFINE u == ToSkills(i, a) \o NodeSteps(i, a)
    <3> HIDE DEF u
    <3>2. Begins(ToSkills(i, a), u) /\ u \in Steps BY <1>1, <3>1 DEF u
    <3>3. Begins(ToLocks(i, a), u) BY <1>1, <3>1, <3>2, BeginsTrans DEF Steps
    <3> QED BY <3>3 DEF u
  <2> QED BY <1>1, <1>2, <2>1, Results, Continues
<1>4. ~AsksGit(i, a) /\ AsksLocks(i, a) => Begins(ToLocks(i, a), Build(i, a).steps)
  BY <1>1, <1>2, Results
<1> QED BY <1>3, <1>4

\* An answer only adds steps: the program before it begins the one after it.
LEMMA AnswerExtends ==
  ASSUME NEW i \in Inputs, NEW a \in Answers, NEW answer \in {"yes", "no"},
         Build(i, a).result = "partial"
  PROVE LET b == [a EXCEPT ![Build(i, a).pending] = answer] IN
        /\ Build(i, a).pending \in Prompts /\ a[Build(i, a).pending] = "unasked"
        /\ b \in Answers
        /\ Begins(Build(i, a).steps, Build(i, b).steps)
<1> DEFINE p == Build(i, a).pending   b == [a EXCEPT ![p] = answer]
<1>1. CASE AsksGit(i, a)
  <2>1. p = "git" /\ Build(i, a).steps = GitSteps(i) BY <1>1, Results
  <2>2. a["git"] = "unasked" BY <1>1 DEF AsksGit
  <2>3. b \in Answers /\ b["git"] = answer BY <2>1 DEF Answers, Prompts
  <2> HIDE DEF b
  <2>4. ~AsksGit(i, b) BY <2>3 DEF AsksGit
  <2>5. Begins(GitSteps(i), Build(i, b).steps)
    <3>1. GitSteps(i) \in Steps /\ ToLocks(i, b) \in Steps /\ Build(i, b).steps \in Steps
      BY <2>3, Pieces, Wholes, BuildWhole
    <3> QED BY <2>3, <2>4, <3>1, Continues, BuildBegins, BeginsTrans DEF Steps
  <2> QED BY <2>1, <2>2, <2>3, <2>5 DEF Prompts, b
<1>2. CASE ~AsksGit(i, a) /\ AsksLocks(i, a)
  <2>1. p = "locks" /\ Build(i, a).steps = ToLocks(i, a) BY <1>2, Results
  <2>2. a["locks"] = "unasked" /\ ~i.lockFlag /\ Offered(i, a) # {} BY <1>2 DEF AsksLocks
  <2>3. b \in Answers /\ b["locks"] = answer /\ b["git"] = a["git"]
    BY <2>1 DEF Answers, Prompts
  <2> HIDE DEF b
  <2>4. ~AsksGit(i, b) BY <1>2, <2>3 DEF AsksGit
  <2>5. Offered(i, b) = Offered(i, a) BY <2>3 DEF Offered, GitMounted
  <2>6. Begins(LockSteps(i, a), LockSteps(i, b))
    <3> DEFINE hidden == <<PrintLine("hidden")>>
               yes == When(i.lockFlag \/ b["locks"] = "yes", <<Step("lock", Offered(i, b))>>)
    <3>0. i.lockFlag = FALSE BY <2>2 DEF Inputs
    <3>1. LockSteps(i, a) = hidden \o <<>> BY <2>2 DEF LockSteps, When
    <3>2. LockSteps(i, b) = hidden \o yes BY <2>2, <2>5 DEF LockSteps, When
    <3>3. ASSUME NEW x, NEW y PROVE <<x>> \in Seq({x, y}) /\ <<y>> \in Seq({x, y}) /\ <<>> \in Seq({x, y})
      OBVIOUS
    <3>5. /\ hidden \in Seq({PrintLine("hidden"), Step("lock", Offered(i, b))})
          /\ yes \in Seq({PrintLine("hidden"), Step("lock", Offered(i, b))})
      BY <3>3, Zenon DEF When
    <3>4. hidden \o <<>> = hidden BY <3>5, ConcatEmptySeq
    <3> HIDE DEF hidden, yes
    <3> QED BY <3>1, <3>2, <3>4, <3>5, BeginsConcat
  <2>7. Begins(ToLocks(i, a), ToLocks(i, b))
    <3>1. GitSteps(i) \o Directories(i) \in Steps /\ LockSteps(i, a) \in Steps
          /\ LockSteps(i, b) \in Steps
      <4>1. GitSteps(i) \in Steps /\ Directories(i) \in Steps BY Pieces
      <4> QED BY <2>3, <4>1, Pieces, ConcatProperties DEF Steps
    <3> QED BY <2>6, <3>1, BeginsAfter DEF ToLocks, Steps
  <2>8. Begins(ToLocks(i, a), Build(i, b).steps)
    <3>1. ToLocks(i, a) \in Steps /\ ToLocks(i, b) \in Steps /\ Build(i, b).steps \in Steps
      BY <2>3, Wholes, BuildWhole
    <3> QED BY <2>3, <2>4, <2>7, <3>1, BuildBegins, BeginsTrans DEF Steps
  <2> QED BY <2>1, <2>2, <2>3, <2>8 DEF Prompts, b
<1>3. CASE ~AsksGit(i, a) /\ ~AsksLocks(i, a)
  <2>1. p = "node" /\ Build(i, a).steps = ToSkills(i, a) /\ AsksNode(i, a)
    BY <1>3, Results
  <2>2. a["node"] = "unasked" BY <2>1 DEF AsksNode
  <2>3. b \in Answers /\ b["git"] = a["git"] /\ b["locks"] = a["locks"]
    BY <2>1 DEF Answers, Prompts
  <2> HIDE DEF b
  <2>4. ToSkills(i, b) = ToSkills(i, a)
    BY <2>3 DEF ToSkills, ToLocks, LockSteps, Offered, GitMounted
  <2>5. ~AsksGit(i, b) /\ ~AsksLocks(i, b)
    BY <1>3, <2>3 DEF AsksGit, AsksLocks, Offered, GitMounted
  <2>6. Begins(ToSkills(i, b), Build(i, b).steps) BY <2>3, <2>5, BuildBegins
  <2> QED BY <2>1, <2>2, <2>3, <2>4, <2>6 DEF Prompts, b
<1> QED BY <1>1, <1>2, <1>3
----------------------------------------------------------------------------
(* buildAndApply.                                                          *)

\* What is applied begins the program that the answers so far lead to; at a
\* prompt and at the launch it is all of it.
PlanInv ==
  /\ in \in Inputs /\ ans \in Answers
  /\ applied \in Steps /\ count = Len(applied)
  /\ pc \in {"build", "apply", "ask", "launched", "failed"}
  /\ Begins(applied, Build(in, ans).steps)
  /\ pc \in {"apply", "ask", "launched"} => program = Build(in, ans)
  /\ pc \in {"ask", "launched"} => Len(applied) = Len(program.steps)
  /\ pc = "ask" => program.result = "partial"
  /\ pc = "launched" => program.result = "run"

\* Every prompt asked has been answered, but for the one that is open.
AskedInv ==
  /\ asked \in Seq(Prompts)
  /\ \A m, n \in 1..Len(asked) : asked[m] = asked[n] => m = n
  /\ \A n \in 1..Len(asked) :
       ans[asked[n]] # "unasked" \/ (pc \in {"ask", "failed"} /\ n = Len(asked))
  /\ pc = "ask" => asked # <<>> /\ asked[Len(asked)] = program.pending

\* A step of the program is applied, in its place.
LEMMA ApplyKeeps == ASSUME PlanInv, AskedInv, ApplyStep PROVE PlanInv' /\ AskedInv'
<1>1. /\ pc = "apply" /\ count < Len(program.steps) /\ program = Build(in, ans)
      /\ applied' = Append(applied, program.steps[count + 1]) /\ count' = count + 1
      /\ UNCHANGED <<in, ans, program, pc, asked>>
  BY DEF ApplyStep, Due, PlanInv
<1>2. program.steps \in Steps /\ applied \in Steps /\ count = Len(applied)
  BY <1>1, BuildWhole DEF PlanInv
<1>3. Len(applied) \in Nat /\ Len(program.steps) \in Nat BY <1>2 DEF Steps
<1>4. program.steps[count + 1] \in StepSet
  <2>1. count + 1 \in 1..Len(program.steps) BY <1>1, <1>2, <1>3
  <2> QED BY <1>2, <2>1, ElementOfSeq DEF Steps
<1>5. /\ applied' \in Steps /\ Len(applied') = Len(applied) + 1
      /\ \A n \in 1..Len(applied) : applied'[n] = applied[n]
      /\ applied'[Len(applied) + 1] = program.steps[count + 1]
  BY <1>1, <1>2, <1>4, AppendProperties DEF Steps
<1>6. Begins(applied', program.steps)
  <2>1. \A n \in 1..Len(applied) : applied[n] = program.steps[n] BY <1>1 DEF PlanInv, Begins
  <2>2. Len(applied') <= Len(program.steps) BY <1>1, <1>2, <1>3, <1>5
  <2>3. ASSUME NEW n \in 1..Len(applied') PROVE applied'[n] = program.steps[n]
    <3>1. n \in 1..Len(applied) \/ n = Len(applied) + 1 BY <1>3, <1>5
    <3> QED BY <1>2, <1>5, <2>1, <3>1
  <2> QED BY <2>2, <2>3 DEF Begins
<1>7. PlanInv' BY <1>1, <1>2, <1>5, <1>6 DEF PlanInv
<1>8. AskedInv' BY <1>1 DEF AskedInv
<1> QED BY <1>7, <1>8

\* A round that ends has applied its program; a prompt it opens is a new one.
LEMMA RoundKeeps == ASSUME PlanInv, AskedInv, RoundEnds PROVE PlanInv' /\ AskedInv'
<1>1. /\ pc = "apply" /\ ~(count < Len(program.steps)) /\ program = Build(in, ans)
      /\ count' = Len(program.steps) /\ UNCHANGED <<in, ans, program, applied>>
      /\ \/ pc' = "failed" /\ asked' = asked
         \/ program.result = "run" /\ pc' = "launched" /\ asked' = asked
         \/ program.result = "partial" /\ pc' = "ask" /\ asked' = Append(asked, program.pending)
  BY DEF RoundEnds, Due, PlanInv
<1>2. Len(applied) = Len(program.steps)
  <2>1. program.steps \in Steps /\ applied \in Steps /\ count = Len(applied)
    BY <1>1, BuildWhole DEF PlanInv
  <2>2. Len(applied) <= Len(program.steps) BY <1>1 DEF PlanInv, Begins
  <2> QED BY <1>1, <2>1, <2>2 DEF Steps
<1>3. PlanInv' BY <1>1, <1>2 DEF PlanInv
<1>4. AskedInv'
  <2>1. CASE asked' = asked BY <1>1, <2>1 DEF AskedInv
  <2>2. CASE program.result = "partial" /\ pc' = "ask" /\ asked' = Append(asked, program.pending)
    <3>1. program.pending \in Prompts /\ ans[program.pending] = "unasked"
      BY <1>1, <2>2, AnswerExtends DEF PlanInv
    <3>2. \A n \in 1..Len(asked) : ans[asked[n]] # "unasked" BY <1>1 DEF AskedInv
    <3>3. asked \in Seq(Prompts) /\ Len(asked) \in Nat BY DEF AskedInv
    <3>4. /\ asked' \in Seq(Prompts) /\ Len(asked') = Len(asked) + 1
          /\ \A n \in 1..Len(asked) : asked'[n] = asked[n]
          /\ asked'[Len(asked) + 1] = program.pending
      BY <2>2, <3>1, <3>3, AppendProperties
    <3>5. \A n \in 1..Len(asked') : n \in 1..Len(asked) \/ n = Len(asked) + 1
      BY <3>3, <3>4
    <3>6. \A m, n \in 1..Len(asked') : asked'[m] = asked'[n] => m = n
      BY <3>1, <3>2, <3>4, <3>5 DEF AskedInv
    <3>7. \A n \in 1..Len(asked') : ans[asked'[n]] # "unasked" \/ n = Len(asked')
      BY <3>2, <3>4, <3>5
    <3>8. asked' # <<>> BY <3>3, <3>4
    <3> QED BY <1>1, <2>2, <3>4, <3>6, <3>7, <3>8 DEF AskedInv
  <2> QED BY <1>1, <2>1, <2>2
<1> QED BY <1>3, <1>4

\* An answer only adds steps to come.
LEMMA AnswerKeeps == ASSUME PlanInv, AskedInv, Answer PROVE PlanInv' /\ AskedInv'
<1>1. /\ pc = "ask" /\ pc' = "build" /\ program = Build(in, ans) /\ program.result = "partial"
      /\ UNCHANGED <<in, program, count, applied, asked>>
  BY DEF Answer, PlanInv
<1>2. PICK answer \in {"yes", "no"} : ans' = [ans EXCEPT ![program.pending] = answer]
  BY DEF Answer
<1>3. /\ program.pending \in Prompts /\ ans' \in Answers
      /\ Begins(program.steps, Build(in, ans').steps)
  BY <1>1, <1>2, AnswerExtends DEF PlanInv
<1>4. Begins(applied, Build(in, ans').steps)
  <2>1. applied \in Steps /\ program.steps \in Steps /\ Build(in, ans').steps \in Steps
    BY <1>1, <1>3, BuildWhole DEF PlanInv
  <2>2. Begins(applied, program.steps) BY <1>1 DEF PlanInv
  <2> QED BY <1>3, <2>1, <2>2, BeginsTrans DEF Steps
<1>5. PlanInv' BY <1>1, <1>3, <1>4 DEF PlanInv
<1>6. ASSUME NEW n \in 1..Len(asked) PROVE ans'[asked[n]] # "unasked"
  <2>1. asked[n] \in Prompts BY ElementOfSeq DEF AskedInv
  <2>2. asked[n] = program.pending \/ ans[asked[n]] # "unasked" BY <1>1 DEF AskedInv
  <2> QED BY <1>2, <1>3, <2>1, <2>2 DEF PlanInv, Answers
<1>7. AskedInv' BY <1>1, <1>6 DEF AskedInv
<1> QED BY <1>5, <1>7

\* Both hold of the start and are kept by every step.
LEMMA PlanKept == Spec => [](PlanInv /\ AskedInv)
<1>1. Init => PlanInv /\ AskedInv
  <2> SUFFICES ASSUME Init PROVE PlanInv /\ AskedInv
    OBVIOUS
  <2>1. in \in Inputs /\ ans \in Answers BY DEF Init, Answers, Prompts
  <2>2. Build(in, ans).steps \in Steps BY <2>1, BuildWhole
  <2>3. applied = <<>> /\ <<>> \in Steps /\ Len(<<>>) = 0 BY DEF Init, Steps
  <2>4. Begins(<<>>, Build(in, ans).steps) BY <2>2, <2>3 DEF Begins, Steps
  <2>5. PlanInv BY <2>1, <2>3, <2>4 DEF Init, PlanInv
  <2>6. AskedInv BY DEF Init, AskedInv
  <2> QED BY <2>5, <2>6
<1>2. PlanInv /\ AskedInv /\ [Next]_vars => (PlanInv /\ AskedInv)'
  <2> SUFFICES ASSUME PlanInv, AskedInv, [Next]_vars PROVE PlanInv' /\ AskedInv'
    OBVIOUS
  <2>1. CASE BuildRound
    <3>1. /\ pc' = "apply" /\ program' = Build(in, ans)
          /\ UNCHANGED <<in, ans, count, applied, asked>> /\ pc = "build"
      BY <2>1 DEF BuildRound
    <3>2. PlanInv' BY <3>1 DEF PlanInv
    <3>3. AskedInv' BY <3>1 DEF AskedInv
    <3> QED BY <3>2, <3>3
  <2>2. CASE StepFails \/ NoAnswer
    <3>1. pc' = "failed" /\ UNCHANGED <<in, ans, program, count, applied, asked>>
      BY <2>2 DEF StepFails, NoAnswer
    <3>2. PlanInv' BY <3>1 DEF PlanInv
    <3>3. AskedInv' BY <3>1 DEF AskedInv
    <3> QED BY <3>2, <3>3
  <2>3. CASE Ended \/ UNCHANGED vars
    <3>1. UNCHANGED vars BY <2>3 DEF Ended
    <3> QED BY <3>1 DEF vars, PlanInv, AskedInv
  <2> QED BY <2>1, <2>2, <2>3, ApplyKeeps, RoundKeeps, AnswerKeeps DEF Next
<1> QED BY <1>1, <1>2, PTL DEF Spec

\* "A later call re-emits the same prefix" (plan.go:32), whatever the answers:
\* the steps applied are the first ones of the program they lead to.
THEOREM Prefix == Spec => []AppliedIsPrefix
<1>1. PlanInv => AppliedIsPrefix
  <2> SUFFICES ASSUME PlanInv PROVE AppliedIsPrefix
    OBVIOUS
  <2> DEFINE now == Build(in, ans).steps
  <2>1. applied \in Steps /\ now \in Steps /\ Begins(applied, now) BY BuildWhole DEF PlanInv
  <2> HIDE DEF now
  <2>2. Len(applied) \in Nat /\ Len(now) \in Nat /\ Len(applied) <= Len(now)
    BY <2>1 DEF Steps, Begins
  <2>3. \A n \in 1..Len(applied) : now[n] \in StepSet
    <3> TAKE n \in 1..Len(applied)
    <3>1. n \in 1..Len(now) BY <2>2
    <3> QED BY <2>1, <3>1, ElementOfSeq DEF Steps
  <2> DEFINE p == SubSeq(now, 1, Len(applied))
  <2>4. /\ p \in Seq(StepSet)
        /\ Len(p) = IF 1 <= Len(applied) THEN Len(applied) - 1 + 1 ELSE 0
        /\ \A n \in 1..Len(applied) - 1 + 1 : p[n] = now[1 + n - 1]
    BY <2>2, <2>3, SubSeqProperties
  <2> HIDE DEF p
  <2>5. Len(p) = Len(applied) BY <2>2, <2>4
  <2>6. \A n \in 1..Len(applied) : applied[n] = p[n]
    <3> TAKE n \in 1..Len(applied)
    <3>1. n \in 1..Len(applied) - 1 + 1 /\ 1 + n - 1 = n BY <2>2
    <3>2. p[n] = now[n] BY <2>4, <3>1
    <3> QED BY <2>1, <3>2 DEF Begins
  <2>7. applied = p BY <2>1, <2>4, <2>5, <2>6, SeqEqual DEF Steps
  <2> QED BY <2>2, <2>7 DEF AppliedIsPrefix, now, p
<1> QED BY <1>1, PlanKept, PTL

\* At a prompt and at the launch the program is applied to its end.
LEMMA AppliedAll == ASSUME PlanInv, pc \in {"ask", "launched"} PROVE applied = Build(in, ans).steps
<1>1. applied \in Steps /\ Build(in, ans).steps \in Steps BY BuildWhole DEF PlanInv
<1>2. Begins(applied, Build(in, ans).steps) /\ Len(applied) = Len(Build(in, ans).steps)
  BY DEF PlanInv
<1> QED BY <1>1, <1>2, BeginsAll DEF Steps

\* The program that is launched was applied to its end (buildAndApply).
THEOREM Complete == Spec => []LaunchedIsComplete
<1>1. PlanInv => LaunchedIsComplete BY AppliedAll DEF LaunchedIsComplete
<1> QED BY <1>1, PlanKept, PTL

\* No prompt is asked twice, so that the rounds come to an end (run.go).
THEOREM PromptsOnce == Spec => []NoPromptTwice
<1>1. AskedInv => NoPromptTwice
  <2>1. AskedInv => DOMAIN asked = 1..Len(asked) BY DEF AskedInv
  <2> QED BY <2>1 DEF AskedInv, NoPromptTwice
<1> QED BY <1>1, PlanKept, PTL

\* Where a run may be abandoned, no ~/.claude.json has been moved without its
\* link being in place, for all facts, those of no real directory included.
THEOREM MigrationsWhole == Spec => []PromptNeverSplitsMigration
<1>1. PlanInv => PromptNeverSplitsMigration
  <2> SUFFICES ASSUME PlanInv, pc \in {"ask", "launched"},
                      NEW n \in DOMAIN applied, applied[n].do = "move"
               PROVE n < Len(applied) /\ applied[n + 1] = Step("symlink", applied[n].on)
    BY DEF PromptNeverSplitsMigration
  <2>1. applied = Build(in, ans).steps BY AppliedAll
  <2>2. applied \in Steps /\ Whole(applied) BY <2>1, BuildWhole DEF PlanInv
  <2>3. n \in 1..Len(applied) BY <2>2 DEF Steps
  <2> QED BY <2>2, <2>3 DEF Whole
<1> QED BY <1>1, PlanKept, PTL

\* Every worktree hidden from a container that sees its repository's metadata
\* is locked before the launch, unless the offer was declined (USAGE.md:68).
THEOREM HiddenLocked == ASSUME MetadataIsTheProjects PROVE Spec => []HiddenWorktreesProtected
<1>1. PlanInv => HiddenWorktreesProtected
  <2> SUFFICES ASSUME PlanInv, pc = "launched", ans["locks"] # "no",
                      NEW w \in HiddenWorktrees(in, Mounted(in, ans))
               PROVE \E n \in DOMAIN applied : applied[n].do = "lock" /\ w \in applied[n].on
    BY DEF HiddenWorktreesProtected
  <2>0. in \in Inputs /\ ans \in Answers BY DEF PlanInv
  <2>1. w \in Offered(in, ans)
    <3>1. CASE GitMounted(in, ans)
      <4>1. Mounted(in, ans) = ({in.project} \cup in.extra) \cup {GitDir} BY <3>1 DEF Mounted
      <4> QED BY <3>1, <4>1 DEF Offered, LockCandidates
    <3>2. CASE ~GitMounted(in, ans)
      <4>1. Mounted(in, ans) = {in.project} \cup in.extra BY <3>2 DEF Mounted
      <4>2. PathVisibleInContainer(GitDir, {in.project} \cup in.extra)
        BY <4>1 DEF HiddenWorktrees
      <4>3. InMainWorktree(in) BY <2>0, <4>2 DEF MetadataIsTheProjects
      <4> QED BY <3>2, <4>1, <4>3 DEF Offered, LockCandidates
    <3> QED BY <3>1, <3>2
  <2>2. program = Build(in, ans) /\ program.result = "run" BY DEF PlanInv
  <2>3. ~AsksGit(in, ans) /\ ~AsksLocks(in, ans) BY <2>0, <2>2, Results
  <2>4. in.lockFlag \/ ans["locks"] = "yes"
    <3>1. ans["locks"] \in {"unasked", "yes", "no"} BY <2>0 DEF Answers, Prompts
    <3> QED BY <2>1, <2>3, <3>1 DEF AsksLocks
  <2> DEFINE lock == Step("lock", Offered(in, ans))
             head == GitSteps(in) \o Directories(in)
             print == PrintLine("hidden")
  <2>5. LockSteps(in, ans) = <<print>> \o <<lock>> BY <2>1, <2>4 DEF LockSteps, When
  <2>6. head \in Steps /\ LockSteps(in, ans) \in Steps
    <3>1. GitSteps(in) \in Steps /\ Directories(in) \in Steps /\ LockSteps(in, ans) \in Steps
      BY <2>0, Pieces
    <3> QED BY <3>1, ConcatProperties DEF Steps
  <2> HIDE DEF lock, head, print
  <2>7. Len(LockSteps(in, ans)) = 2 /\ LockSteps(in, ans)[2] = lock BY <2>5
  <2>8. ToLocks(in, ans) = head \o LockSteps(in, ans) BY DEF ToLocks, head
  <2>9. /\ Len(ToLocks(in, ans)) = Len(head) + 2 /\ Len(head) \in Nat
        /\ ToLocks(in, ans)[Len(head) + 2] = lock
    <3>1. /\ Len(head \o LockSteps(in, ans)) = Len(head) + Len(LockSteps(in, ans))
          /\ \A n \in 1..Len(head) + Len(LockSteps(in, ans)) :
               (head \o LockSteps(in, ans))[n] =
                 IF n <= Len(head) THEN head[n] ELSE LockSteps(in, ans)[n - Len(head)]
      BY <2>6, ConcatProperties DEF Steps
    <3>2. Len(head) \in Nat BY <2>6 DEF Steps
    <3>3. Len(head) + 2 \in 1..Len(head) + 2 /\ ~(Len(head) + 2 <= Len(head))
          /\ Len(head) + 2 - Len(head) = 2
      BY <3>2
    <3>4. (head \o LockSteps(in, ans))[Len(head) + 2] = lock BY <2>7, <3>1, <3>3
    <3> QED BY <2>7, <2>8, <3>1, <3>2, <3>4
  <2>10. applied = Build(in, ans).steps /\ applied \in Steps BY AppliedAll DEF PlanInv
  <2>11. Begins(ToLocks(in, ans), applied) BY <2>0, <2>3, <2>10, BuildBegins
  <2>12. Len(head) + 2 \in DOMAIN applied /\ applied[Len(head) + 2] = lock
    <3>1. Len(applied) \in Nat /\ DOMAIN applied = 1..Len(applied) BY <2>10 DEF Steps
    <3>2. Len(head) + 2 <= Len(applied) BY <2>9, <2>11 DEF Begins
    <3>3. Len(head) + 2 \in 1..Len(ToLocks(in, ans)) BY <2>9
    <3> QED BY <2>9, <2>11, <3>1, <3>2, <3>3 DEF Begins
  <2>13. lock.do = "lock" /\ w \in lock.on BY <2>1 DEF lock, Step
  <2> QED BY <2>12, <2>13
<1> QED BY <1>1, PlanKept, PTL
=============================================================================
