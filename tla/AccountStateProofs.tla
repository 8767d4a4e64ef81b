------------------------- MODULE AccountStateProofs -------------------------
(***************************************************************************)
(* Launchers that do not overlap keep the host's account state, and leave  *)
(* it readable where it was, whatever their number, wherever they are      *)
(* killed, and for every home directory they may find but one.             *)
(***************************************************************************)
EXTENDS AccountState, TLAPS

\* The home directory where ~/.claude.json is the user's own link to a file and
\* nothing is shared yet: that link is taken for a broken one and removed.
Misread == <<"ownLink", "none">>

PCs == {"idle", "lstat", "stat", "apply", "started", "failed", "killed"}
LinkKinds == {"link", "ownLink", "ownDangling"}

FactSet == [exists : BOOLEAN, regular : BOOLEAN, symlink : BOOLEAN,
            sharedExists : BOOLEAN, sharedRegular : BOOLEAN]

\* One launcher at a time is between its first stat and its end.
SerialInv ==
  /\ pc \in [Runs -> PCs]
  /\ facts \in [Runs -> FactSet]
  /\ DOMAIN steps = Runs
  /\ \A q, r \in Runs : Active(q) /\ Active(r) => q = r

\* Where the account state is, by whose it was.
Home ==
  \/ before = "users" /\ host = "ownLink" /\ shared \in {"file", "dir"}
  \/ before = "shareds" /\ host = "link" /\ shared = "file" /\ sharedData = "shareds"
  \/ before = "hosts" /\ host = "file" /\ hostData = "hosts" /\ shared \in {"none", "file", "dir"}
  \/ before = "hosts" /\ host \in {"none", "link"} /\ shared = "file" /\ sharedData = "hosts"

\* What the stat calls find, and the steps still to apply, in that home.
Found ==
  [exists |-> host # "none", regular |-> host # "none",
   symlink |-> host \in LinkKinds, sharedExists |-> FALSE, sharedRegular |-> FALSE]
DueSteps ==
  CASE host = "file" -> <<"move", "symlink">>
    [] host = "none" -> <<"symlink">>
    [] OTHER -> <<>>

RunInv(r) ==
  /\ pc[r] = "lstat" => facts[r] = [NoFacts EXCEPT !.symlink = host \in LinkKinds]
  /\ pc[r] = "stat" => facts[r] = Found
  /\ pc[r] = "apply" => steps[r] = DueSteps
  /\ pc[r] = "started" => host \in {"link", "ownLink"}

HomeInv == before # "nothing" => Home /\ \A r \in Runs : RunInv(r)
----------------------------------------------------------------------------
\* The steps of a launcher that finds such a home are those due there.
LEMMA Decision ==
  ASSUME Home, NEW f,
         f = [Found EXCEPT !.sharedExists = shared \in {"file", "dir"},
                           !.sharedRegular = shared = "file"]
  PROVE AccountStateSteps(f) = DueSteps
<1>1. f = [exists |-> host # "none", regular |-> host # "none", symlink |-> host \in LinkKinds,
           sharedExists |-> shared \in {"file", "dir"}, sharedRegular |-> shared = "file"]
  BY DEF Found
<1>e. f.exists = (host # "none") BY ONLY <1>1
<1>r. f.regular = (host # "none") BY ONLY <1>1
<1>s. f.symlink = (host \in LinkKinds) BY ONLY <1>1
<1>t. f.sharedExists = (shared \in {"file", "dir"}) BY ONLY <1>1
<1>u. f.sharedRegular = (shared = "file") BY ONLY <1>1
<1>2. CASE host = "file"
  <2>r. f.regular = TRUE BY <1>r, <1>2
  <2>n. (host \in LinkKinds) = FALSE BY <1>2 DEF LinkKinds
  <2>s. f.symlink = FALSE BY <1>s, <2>n
  <2>1. Unmigrated(f) BY <2>r, <2>s DEF Unmigrated
  <2>2. AccountStateSteps(f) = Relocation \o <<>> \o <<>> BY <2>1 DEF AccountStateSteps
  <2> QED BY <1>2, <2>2 DEF Relocation, DueSteps
<1>3. CASE host = "none"
  <2>1. ~Unmigrated(f) /\ ~f.symlink /\ ~f.exists /\ f.sharedRegular
    <3>e. f.exists = FALSE BY <1>e, <1>3
    <3>r. f.regular = FALSE BY <1>r, <1>3
    <3>n. (host \in LinkKinds) = FALSE BY <1>3 DEF LinkKinds
    <3>s. f.symlink = FALSE BY <1>s, <3>n
    <3>u. f.sharedRegular = TRUE BY <1>u, <1>3 DEF Home
    <3> QED BY <3>e, <3>r, <3>s, <3>u DEF Unmigrated
  <2>2. AccountStateSteps(f) = <<>> \o <<>> \o <<"symlink">> BY <2>1 DEF AccountStateSteps
  <2> QED BY <1>3, <2>2 DEF DueSteps
<1>4. CASE host \in {"link", "ownLink"}
  <2>1. ~Unmigrated(f) /\ f.exists /\ f.sharedExists
    <3>e. f.exists = TRUE BY <1>e, <1>4
    <3>s. f.symlink = TRUE BY <1>s, <1>4 DEF LinkKinds
    <3>t. f.sharedExists = TRUE BY <1>t, <1>4 DEF Home
    <3> QED BY <3>e, <3>s, <3>t DEF Unmigrated
  <2>2. AccountStateSteps(f) = <<>> \o <<>> \o <<>> BY <2>1 DEF AccountStateSteps
  <2> QED BY <1>4, <2>2 DEF DueSteps
<1> QED BY <1>2, <1>3, <1>4 DEF Home

\* Launchers take turns.
LEMMA SerialStep == ASSUME Serial, SerialInv, [Next]_vars PROVE SerialInv'
<1>1. ASSUME NEW r \in Runs, NEW where \in PCs, Goto(r, where)
      PROVE /\ pc' \in [Runs -> PCs] /\ pc'[r] = where
            /\ \A q \in Runs : q # r => pc'[q] = pc[q]
  BY <1>1 DEF Goto, SerialInv
<1>2. ASSUME NEW r \in Runs, Lstat(r) PROVE SerialInv'
  <2>1. Goto(r, "lstat") /\ (\A q \in Runs : ~Active(q)) /\ steps' = steps
    BY <1>2 DEF Lstat
  <2>2. facts' \in [Runs -> FactSet]
    <3> DEFINE f == [NoFacts EXCEPT !.symlink = host \in {"link", "ownLink", "ownDangling"}]
    <3>1. (host \in {"link", "ownLink", "ownDangling"}) \in BOOLEAN OBVIOUS
    <3>2. f \in FactSet BY <3>1 DEF NoFacts, FactSet
    <3>3. facts' = [facts EXCEPT ![r] = f] BY <1>2 DEF Lstat, Learn
    <3> QED BY <3>2, <3>3 DEF SerialInv
  <2>3. \A q \in Runs : Active(q)' => q = r BY <1>1, <2>1 DEF Active, PCs
  <2> QED BY <1>1, <2>1, <2>2, <2>3 DEF SerialInv, PCs
<1>3. ASSUME NEW r \in Runs,
             Stat(r) \/ StatShared(r) \/ MoveFile(r) \/ Symlink(r) \/ RemoveFile(r)
               \/ StartContainer(r) \/ Kill(r)
      PROVE SerialInv'
  <2>1. Active(r)
    BY <1>3 DEF Stat, StatShared, MoveFile, Symlink, RemoveFile, NextStep, StartContainer, Kill,
                Active
  <2>2. pc' = pc \/ \E where \in PCs : Goto(r, where)
    BY <1>3 DEF Stat, StatShared, MoveFile, Symlink, RemoveFile, StepDone, StepFails,
                StartContainer, Kill, PCs
  <2>3. pc' \in [Runs -> PCs] /\ \A q \in Runs : q # r => pc'[q] = pc[q]
    BY <1>1, <2>2 DEF SerialInv
  <2>4. facts' \in [Runs -> FactSet]
    <3>1. facts[r] \in FactSet BY DEF SerialInv
    <3>2. CASE Stat(r)
      <4> DEFINE target == IF host = "link" THEN shared ELSE host
                 f == [facts[r] EXCEPT !.exists = target \in {"file", "dir", "ownLink"},
                                       !.regular = target \in {"file", "ownLink"}]
      <4>1. facts' = [facts EXCEPT ![r] = f] BY <3>2 DEF Stat, Learn
      <4>2. (target \in {"file", "dir", "ownLink"}) \in BOOLEAN
            /\ (target \in {"file", "ownLink"}) \in BOOLEAN
        OBVIOUS
      <4> HIDE DEF target
      <4>3. f \in FactSet BY <3>1, <4>2 DEF FactSet
      <4> QED BY <4>1, <4>3 DEF SerialInv
    <3>3. CASE StatShared(r)
      <4> DEFINE f == [facts[r] EXCEPT !.sharedExists = shared \in {"file", "dir"},
                                       !.sharedRegular = shared = "file"]
      <4>1. facts' = [facts EXCEPT ![r] = f] BY <3>3 DEF StatShared, Learn
      <4>2. (shared \in {"file", "dir"}) \in BOOLEAN /\ (shared = "file") \in BOOLEAN OBVIOUS
      <4>3. f \in FactSet BY <3>1, <4>2 DEF FactSet
      <4> QED BY <4>1, <4>3 DEF SerialInv
    <3>4. CASE ~Stat(r) /\ ~StatShared(r)
      BY <1>3, <3>4 DEF MoveFile, Symlink, RemoveFile, StartContainer, Kill, SerialInv
    <3> QED BY <3>2, <3>3, <3>4
  <2>5. DOMAIN steps' = Runs
    BY <1>3 DEF Stat, StatShared, MoveFile, Symlink, RemoveFile, StepDone, StepFails,
                StartContainer, Kill, SerialInv
  <2>6. \A q \in Runs : Active(q)' => Active(q) BY <2>1, <2>3 DEF Active
  <2> QED BY <2>3, <2>4, <2>5, <2>6 DEF SerialInv
<1>4. CASE Ended \/ UNCHANGED vars
  BY <1>4 DEF Ended, vars, homeVars, SerialInv, Active
<1> QED BY <1>2, <1>3, <1>4 DEF Next

\* A launcher whose turn it is not is where it was, and its own part stands as
\* long as the links do.
LEMMA Others ==
  ASSUME SerialInv, NEW r \in Runs, Active(r), NEW q \in Runs, q # r,
         RunInv(q), pc'[q] = pc[q],
         host \in {"link", "ownLink"} => host' = host
  PROVE RunInv(q)'
<1>1. ~Active(q) BY DEF SerialInv
<1>2. pc[q] \notin {"lstat", "stat", "apply"} BY <1>1 DEF Active
<1> QED BY <1>2 DEF RunInv

\* The account state goes where the steps due say, and nowhere else.
LEMMA HomeStep ==
  ASSUME Serial, SerialInv, HomeInv, [Next]_vars, before # "nothing" PROVE HomeInv'
<1>0. Home /\ \A r \in Runs : RunInv(r) BY DEF HomeInv
<1>1. ASSUME NEW r \in Runs, Lstat(r) PROVE HomeInv'
  <2>1. /\ pc' = [pc EXCEPT ![r] = "lstat"] /\ \A q \in Runs : ~Active(q)
        /\ facts' = [facts EXCEPT ![r] = [NoFacts EXCEPT !.symlink = host \in LinkKinds]]
        /\ UNCHANGED <<host, shared, hostData, sharedData, before, steps>>
    BY <1>1 DEF Lstat, Goto, Learn, homeVars, LinkKinds
  <2>2. Home' BY <1>0, <2>1 DEF Home
  <2>3. ASSUME NEW q \in Runs PROVE RunInv(q)'
    <3>1. pc[q] \notin {"lstat", "stat", "apply"} BY <2>1 DEF Active
    <3>2. CASE q = r BY <2>1, <3>2 DEF RunInv, SerialInv
    <3>3. CASE q # r BY <1>0, <2>1, <3>1, <3>3 DEF RunInv, SerialInv
    <3> QED BY <3>2, <3>3
  <2> QED BY <2>2, <2>3 DEF HomeInv
<1>2. ASSUME NEW r \in Runs, Stat(r) PROVE HomeInv'
  <2>1. /\ pc' = [pc EXCEPT ![r] = "stat"] /\ pc[r] = "lstat" /\ Active(r)
        /\ UNCHANGED <<host, shared, hostData, sharedData, before, steps>>
    BY <1>2 DEF Stat, Goto, homeVars, Active
  <2>2. facts'[r] = Found
    <3>1. facts[r] = [NoFacts EXCEPT !.symlink = host \in LinkKinds] BY <1>0, <2>1 DEF RunInv
    <3> DEFINE target == IF host = "link" THEN shared ELSE host
    <3>2. facts'[r] = [facts[r] EXCEPT !.exists = target \in {"file", "dir", "ownLink"},
                                       !.regular = target \in {"file", "ownLink"}]
      BY <1>2 DEF Stat, Learn, SerialInv
    <3>3. /\ (target \in {"file", "dir", "ownLink"}) = (host # "none")
          /\ (target \in {"file", "ownLink"}) = (host # "none")
      BY <1>0 DEF Home
    <3> HIDE DEF target
    <3> QED BY <3>1, <3>2, <3>3 DEF NoFacts, Found
  <2>3. Home' BY <1>0, <2>1 DEF Home
  <2>4. Found' = Found BY <2>1 DEF Found
  <2>5. ASSUME NEW q \in Runs PROVE RunInv(q)'
    <3>1. CASE q = r BY <2>1, <2>2, <2>4, <3>1 DEF RunInv, SerialInv
    <3>2. CASE q # r BY <1>0, <2>1, <3>2, Others DEF SerialInv
    <3> QED BY <3>1, <3>2
  <2> QED BY <2>3, <2>5 DEF HomeInv
<1>3. ASSUME NEW r \in Runs, StatShared(r) PROVE HomeInv'
  <2> DEFINE f == [facts[r] EXCEPT !.sharedExists = shared \in {"file", "dir"},
                                   !.sharedRegular = shared = "file"]
  <2>1. /\ pc' = [pc EXCEPT ![r] = "apply"] /\ pc[r] = "stat" /\ Active(r)
        /\ steps' = [steps EXCEPT ![r] = AccountStateSteps(f)]
        /\ UNCHANGED <<host, shared, hostData, sharedData, before>>
    BY <1>3 DEF StatShared, Goto, homeVars, Active
  <2>2. facts[r] = Found BY <1>0, <2>1 DEF RunInv
  <2>3. AccountStateSteps(f) = DueSteps BY <1>0, <2>2, Decision
  <2>4. steps'[r] = DueSteps' BY <2>1, <2>3 DEF SerialInv, DueSteps
  <2>5. Home' BY <1>0, <2>1 DEF Home
  <2>6. ASSUME NEW q \in Runs PROVE RunInv(q)'
    <3>1. CASE q = r BY <2>1, <2>4, <3>1 DEF RunInv, SerialInv
    <3>2. CASE q # r BY <1>0, <2>1, <3>2, Others DEF SerialInv
    <3> QED BY <3>1, <3>2
  <2> QED BY <2>5, <2>6 DEF HomeInv
<1>4. ASSUME NEW r \in Runs, NEW step \in {"move", "symlink", "remove"}, NextStep(r, step)
      PROVE /\ Active(r) /\ pc[r] = "apply" /\ steps[r] = DueSteps
            /\ \/ step = "move" /\ host = "file" /\ Tail(steps[r]) = <<"symlink">>
               \/ step = "symlink" /\ host = "none" /\ Tail(steps[r]) = <<>>
  <2>1. pc[r] = "apply" /\ steps[r] # <<>> /\ Head(steps[r]) = step BY <1>4 DEF NextStep
  <2>2. steps[r] = DueSteps BY <1>0, <2>1 DEF RunInv
  <2>3. CASE host = "file" BY <2>1, <2>2, <2>3 DEF DueSteps, Active
  <2>4. CASE host = "none" BY <2>1, <2>2, <2>4 DEF DueSteps, Active
  <2>5. CASE host \notin {"file", "none"} BY <2>1, <2>2, <2>5 DEF DueSteps
  <2> QED BY <2>3, <2>4, <2>5
<1>5. ASSUME NEW r \in Runs, MoveFile(r) PROVE HomeInv'
  <2>1. /\ Active(r) /\ pc[r] = "apply" /\ host = "file" /\ Tail(steps[r]) = <<"symlink">>
    BY <1>4, <1>5 DEF MoveFile
  <2>2. CASE StepFails(r)
    <3>1. pc' = [pc EXCEPT ![r] = "failed"]
          /\ UNCHANGED <<host, shared, hostData, sharedData, before>>
      BY <1>5, <2>2 DEF MoveFile, StepFails, Goto, homeVars
    <3>2. Home' BY <1>0, <3>1 DEF Home
    <3>3. ASSUME NEW q \in Runs PROVE RunInv(q)'
      <4>1. CASE q = r BY <3>1, <4>1 DEF RunInv, SerialInv
      <4>2. CASE q # r BY <1>0, <2>1, <3>1, <4>2, Others DEF SerialInv
      <4> QED BY <4>1, <4>2
    <3> QED BY <3>2, <3>3 DEF HomeInv
  <2>3. CASE ~StepFails(r)
    <3>1. /\ host' = "none" /\ shared' = "file" /\ sharedData' = hostData
          /\ UNCHANGED <<hostData, before, pc>>
          /\ steps' = [steps EXCEPT ![r] = Tail(steps[r])]
      BY <1>5, <2>1, <2>3 DEF MoveFile, StepDone
    <3>2. Home' BY <1>0, <2>1, <3>1 DEF Home
    <3>3. ASSUME NEW q \in Runs PROVE RunInv(q)'
      <4>1. CASE q = r BY <2>1, <3>1, <4>1 DEF RunInv, SerialInv, DueSteps
      <4>2. CASE q # r BY <1>0, <2>1, <3>1, <4>2, Others
      <4> QED BY <4>1, <4>2
    <3> QED BY <3>2, <3>3 DEF HomeInv
  <2> QED BY <2>2, <2>3
<1>6. ASSUME NEW r \in Runs, Symlink(r) PROVE HomeInv'
  <2>1. Active(r) /\ pc[r] = "apply" /\ host = "none" /\ Tail(steps[r]) = <<>>
    BY <1>4, <1>6 DEF Symlink
  <2>2. /\ host' = "link" /\ UNCHANGED <<shared, hostData, sharedData, before, pc>>
        /\ steps' = [steps EXCEPT ![r] = Tail(steps[r])]
    BY <1>6, <2>1 DEF Symlink, StepDone
  <2>3. Home' BY <1>0, <2>1, <2>2 DEF Home
  <2>4. ASSUME NEW q \in Runs PROVE RunInv(q)'
    <3>1. CASE q = r BY <2>1, <2>2, <3>1 DEF RunInv, SerialInv, DueSteps
    <3>2. CASE q # r BY <1>0, <2>1, <2>2, <3>2, Others
    <3> QED BY <3>1, <3>2
  <2> QED BY <2>3, <2>4 DEF HomeInv
<1>7. ASSUME NEW r \in Runs, RemoveFile(r) PROVE HomeInv'
  BY <1>4, <1>7 DEF RemoveFile
<1>8. ASSUME NEW r \in Runs, StartContainer(r) \/ Kill(r) PROVE HomeInv'
  <2>1. /\ Active(r) /\ UNCHANGED <<host, shared, hostData, sharedData, before, facts, steps>>
        /\ \/ pc' = [pc EXCEPT ![r] = "killed"]
           \/ pc' = [pc EXCEPT ![r] = "started"] /\ pc[r] = "apply" /\ steps[r] = <<>>
    BY <1>8 DEF StartContainer, Kill, Goto, homeVars, Active
  <2>2. Home' BY <1>0, <2>1 DEF Home
  <2>3. pc[r] = "apply" /\ steps[r] = <<>> => host \in {"link", "ownLink"}
    BY <1>0 DEF RunInv, DueSteps, Home
  <2>4. ASSUME NEW q \in Runs PROVE RunInv(q)'
    <3>1. CASE q = r BY <2>1, <2>3, <3>1 DEF RunInv, SerialInv
    <3>2. CASE q # r BY <1>0, <2>1, <3>2, Others DEF SerialInv
    <3> QED BY <3>1, <3>2
  <2> QED BY <2>2, <2>4 DEF HomeInv
<1>9. CASE Ended \/ UNCHANGED vars
  BY <1>9 DEF Ended, vars, HomeInv, Home, RunInv, Found, DueSteps
<1> QED BY <1>1, <1>2, <1>3, <1>5, <1>6, <1>7, <1>8, <1>9 DEF Next

\* The start, where the state is looked at.
LEMMA InitHome ==
  ASSUME Init, Misread \notin StartStates PROVE SerialInv /\ HomeInv
<1>1. SerialInv
  <2>1. NoFacts \in FactSet BY DEF NoFacts, FactSet
  <2>2. facts \in [Runs -> FactSet] BY <2>1 DEF Init
  <2> QED BY <2>2 DEF Init, SerialInv, PCs, Active
<1>2. PICK start \in StartStates : host = start[1] /\ shared = start[2] BY DEF Init
<1>3. start = <<host, shared>> /\ shared \in {"none", "file", "dir"} /\ host \in HostKinds
  BY <1>2, AccountAssumption DEF SharedKinds
<1>4. ~(host = "ownLink" /\ shared = "none") BY <1>3 DEF Misread
<1>5. HomeInv
  <2>1. ASSUME before # "nothing" PROVE Home BY <1>3, <1>4, <2>1 DEF Init, Seen, Home, HostKinds
  <2>2. ASSUME NEW r \in Runs PROVE RunInv(r) BY DEF Init, RunInv
  <2> QED BY <2>1, <2>2 DEF HomeInv
<1> QED BY <1>1, <1>5

\* Both, always, for launchers that do not overlap.
LEMMA HomeKept ==
  ASSUME Serial, Misread \notin StartStates PROVE Spec => [](SerialInv /\ HomeInv)
<1>1. Init => SerialInv /\ HomeInv BY InitHome
<1>2. SerialInv /\ HomeInv /\ [Next]_vars => (SerialInv /\ HomeInv)'
  <2> SUFFICES ASSUME SerialInv, HomeInv, [Next]_vars PROVE SerialInv' /\ HomeInv'
    OBVIOUS
  <2>1. before' = before
    BY DEF Next, Lstat, Stat, StatShared, MoveFile, Symlink, RemoveFile, StartContainer, Kill,
           Ended, vars
  <2>2. CASE before = "nothing" BY <2>1, <2>2, SerialStep DEF HomeInv
  <2> QED BY <2>2, SerialStep, HomeStep, <2>1 DEF HomeInv
<1> QED BY <1>1, <1>2, PTL DEF Spec

\* "Treating it as a regular file would rename it over its own target"
\* (facts.go:11): runs that do not overlap never lose the host's account state,
\* wherever any of them is killed.
THEOREM StateSurvives ==
  ASSUME Serial, Misread \notin StartStates PROVE Spec => []AccountStateSurvives
<1>1. HomeInv => AccountStateSurvives BY DEF HomeInv, Home, AccountStateSurvives
<1> QED BY <1>1, HomeKept, PTL

\* A container that starts finds the host's account state where it was, also
\* after runs that were killed between two steps (accountStateSteps, plan.go).
THEOREM ReadableAtStart ==
  ASSUME Serial, Misread \notin StartStates PROVE Spec => []ReadableWhenStarted
<1>1. HomeInv => ReadableWhenStarted
  BY DEF HomeInv, Home, RunInv, ReadableWhenStarted, Seen
<1> QED BY <1>1, HomeKept, PTL
=============================================================================
