--------------------------- MODULE FrontEndProofs ---------------------------
(***************************************************************************)
(* What the front end hands on is what the command line says, for every    *)
(* command line, environment and project file.  The scan, the environment  *)
(* store and the values given are folds; the first part says what a fold   *)
(* computes, without an induction theorem.                                 *)
(***************************************************************************)
EXTENDS FrontEnd, SequenceTheorems, WellFoundedInduction, TLAPS

----------------------------------------------------------------------------
(* Folds.                                                                  *)

\* A set of numbers that is not empty has a least one.
LEMMA Least ==
  ASSUME NEW S \in SUBSET Nat, S # {} PROVE \E x \in S : \A y \in S : x <= y
<1> DEFINE R == {ss \in Nat \X Nat : ss[1] < ss[2]}
<1>1. IsWellFoundedOn(R, Nat) BY NatLessThanWellFounded DEF OpToRel
<1>2. \A x, y \in Nat : x < y => <<x, y>> \in R OBVIOUS
<1> HIDE DEF R
<1>3. PICK x \in S : \A y \in S : ~(<<y, x>> \in R) BY <1>1, WFMin
<1>4. \A y \in S : ~(y < x) BY <1>2, <1>3
<1> QED BY <1>4

\* A set that contains 0 and, with each number up to n, the next, contains them all.
LEMMA Climb ==
  ASSUME NEW n \in Nat, NEW S, 0 \in S, \A k \in 1..n : k - 1 \in S => k \in S
  PROVE \A k \in 0..n : k \in S
<1> DEFINE Bad == {k \in 0..n : k \notin S}
<1> SUFFICES ASSUME Bad # {} PROVE FALSE OBVIOUS
<1>1. Bad \in SUBSET Nat OBVIOUS
<1>2. PICK k \in Bad : \A j \in Bad : k <= j BY <1>1, Least
<1>3. k \in 1..n /\ k - 1 \in 0..n OBVIOUS
<1>4. k - 1 \notin Bad BY <1>2, <1>3
<1> QED BY <1>3, <1>4

\* The last of the first numbers.
LEMMA MaxIs ==
  ASSUME NEW n \in Nat, NEW s \in SUBSET (1..n), n \in s PROVE Max(s) = n
<1>1. \A x \in s : (\A y \in s : x >= y) <=> x = n OBVIOUS
<1> QED BY <1>1 DEF Max

\* The first places of a sequence end with the last of them.
LEMMA FirstPlaces ==
  ASSUME NEW n \in Nat, NEW k \in 1..n
  PROVE /\ 1..k \in SUBSET (1..n) /\ 1..k # {} /\ (1..k) \ {k} = 1..k - 1
        /\ Max(1..k) = k
<1>1. k \in Nat /\ 1..k \in SUBSET (1..n) /\ k \in 1..k OBVIOUS
<1>2. \A x \in 1..k : x # k <=> x <= k - 1 OBVIOUS
<1>3. (1..k) \ {k} = 1..k - 1 BY <1>2
<1>4. Max(1..k) = k BY <1>1, MaxIs
<1> QED BY <1>1, <1>3, <1>4

\* What MapThenFoldSet iterates, over the places of a sequence: g is the step.
Iterates(it, n, base, g) ==
  \A s \in SUBSET (1..n) : it[s] = IF s = {} THEN base ELSE g[<<it[s \ {Max(s)}], Max(s)>>]

\* A run of the step from the first place to the last.
Runs(f, n, base, g) == f[0] = base /\ \A k \in 1..n : f[k] = g[<<f[k - 1], k>>]

\* A step on every state has its iterates.
LEMMA IterExists ==
  ASSUME NEW n \in Nat, NEW X, NEW base \in X, NEW g, \A x \in X, k \in 1..n : g[<<x, k>>] \in X
  PROVE \E it \in [SUBSET (1..n) -> X] : Iterates(it, n, base, g)
<1> DEFINE Is(it, m) == Iterates(it, m, base, g)
           S == {m \in 0..n : \E it \in [SUBSET (1..m) -> X] : Is(it, m)}
<1>1. 0 \in S
  <2> DEFINE it == [s \in SUBSET (1..0) |-> base]
  <2>1. \A s \in SUBSET (1..0) : s = {} OBVIOUS
  <2>2. it \in [SUBSET (1..0) -> X] /\ Is(it, 0) BY <2>1 DEF Iterates
  <2>3. 0 \in 0..n OBVIOUS
  <2> HIDE DEF it, Is
  <2> QED BY <2>2, <2>3
<1>2. ASSUME NEW m \in 1..n, m - 1 \in S PROVE m \in S
  <2>1. PICK it \in [SUBSET (1..m - 1) -> X] : Is(it, m - 1) BY <1>2
  <2> DEFINE up == [s \in SUBSET (1..m) |->
                      IF m \in s THEN g[<<it[s \ {m}], m>>] ELSE it[s]]
  <2>2. m \in Nat /\ m # 0 OBVIOUS
  <2>3. \A s \in SUBSET (1..m) : s \ {m} \in SUBSET (1..m - 1) BY <2>2
  <2>4. ASSUME NEW s \in SUBSET (1..m), m \notin s PROVE s \in SUBSET (1..m - 1)
    BY <2>2, <2>4
  <2>5. ASSUME NEW s \in SUBSET (1..m) PROVE up[s] \in X
    <3>1. CASE m \in s BY <2>3, <3>1
    <3>2. CASE m \notin s BY <2>4, <3>2
    <3> QED BY <3>1, <3>2
  <2>6. ASSUME NEW s \in SUBSET (1..m)
        PROVE up[s] = IF s = {} THEN base ELSE g[<<up[s \ {Max(s)}], Max(s)>>]
    <3>1. CASE m \in s
      <4>1. Max(s) = m BY <2>2, <3>1, MaxIs
      <4>2. s \ {m} \in SUBSET (1..m) /\ m \notin s \ {m} OBVIOUS
      <4>3. up[s \ {m}] = it[s \ {m}] BY <4>2
      <4> QED BY <3>1, <4>1, <4>3
    <3>2. CASE m \notin s
      <4>1. s \in SUBSET (1..m - 1) BY <2>4, <3>2
      <4>2. up[s] = it[s] BY <3>2
      <4>3. CASE s = {} BY <2>1, <4>1, <4>2, <4>3 DEF Iterates
      <4>4. CASE s # {}
        <5>1. it[s] = g[<<it[s \ {Max(s)}], Max(s)>>] BY <2>1, <4>1, <4>4 DEF Iterates
        <5>2. up[s \ {Max(s)}] = it[s \ {Max(s)}] BY <3>2
        <5> QED BY <4>2, <4>4, <5>1, <5>2
      <4> QED BY <4>3, <4>4
    <3> QED BY <3>1, <3>2
  <2>7. up \in [SUBSET (1..m) -> X] /\ Is(up, m) BY <2>5, <2>6 DEF Iterates
  <2>8. m \in 0..n OBVIOUS
  <2> HIDE DEF up, Is
  <2> QED BY <2>7, <2>8
<1>3. n \in S
  <2> HIDE DEF S
  <2>1. \A m \in 0..n : m \in S BY <1>1, <1>2, Climb
  <2> QED BY <2>1
<1> QED BY <1>3

\* The last of some of the first numbers is one of them.
LEMMA MaxIn ==
  ASSUME NEW n \in Nat, NEW s \in SUBSET (1..n), s # {} PROVE Max(s) \in s
<1> DEFINE S == {m \in 0..n : \E x \in s : x = n - m}
<1>1. S \in SUBSET Nat OBVIOUS
<1>2. S # {}
  <2>1. PICK x \in s : TRUE OBVIOUS
  <2>2. n - x \in 0..n /\ x = n - (n - x) OBVIOUS
  <2>3. n - x \in S BY <2>1, <2>2
  <2> QED BY <2>3
<1>3. PICK m \in S : \A k \in S : m <= k BY <1>1, <1>2, Least
<1>4. n - m \in s BY <1>3
<1>5. ASSUME NEW y \in s PROVE n - m >= y
  <2>1. n - y \in 0..n /\ y = n - (n - y) OBVIOUS
  <2>2. n - y \in S BY <2>1
  <2> QED BY <1>3, <2>2
<1>6. \E x \in s : \A y \in s : x >= y BY <1>4, <1>5
<1> QED BY <1>6 DEF Max

\* Along the beginnings of the sequence, the iteration is a run of the step.
LEMMA Chain ==
  ASSUME NEW n \in Nat, NEW X, NEW base \in X, NEW g, \A x \in X, k \in 1..n : g[<<x, k>>] \in X,
         NEW it, it[{}] = base,
         \A k \in 1..n : it[1..k - 1] \in X => it[1..k] = g[<<it[1..k - 1], k>>]
  PROVE \E f \in [0..n -> X] : f[n] = it[1..n] /\ Runs(f, n, base, g)
<1> DEFINE S == {k \in 0..n : it[1..k] \in X}  f == [k \in 0..n |-> it[1..k]]
<1>1. 1..0 = {} OBVIOUS
<1>2. \A k \in 0..n : k \in S
  <2>1. 0 \in S BY <1>1
  <2>2. ASSUME NEW k \in 1..n, k - 1 \in S PROVE k \in S
    <3>1. it[1..k] = g[<<it[1..k - 1], k>>] BY <2>2
    <3>2. k \in 0..n OBVIOUS
    <3> QED BY <2>2, <3>1, <3>2
  <2> HIDE DEF S
  <2> QED BY <2>1, <2>2, Climb
<1>3. f \in [0..n -> X] BY <1>2
<1>4. f[0] = base /\ f[n] = it[1..n] BY <1>1
<1>5. ASSUME NEW k \in 1..n PROVE f[k] = g[<<f[k - 1], k>>]
  <2>1. k \in 0..n /\ k - 1 \in 0..n OBVIOUS
  <2> QED BY <1>2, <2>1
<1> HIDE DEF f
<1> QED BY <1>3, <1>4, <1>5 DEF Runs
----------------------------------------------------------------------------
(* The scan.                                                               *)

\* The flags that wait for a value.
Waiters == Required \cup {Runtime, "--tool"} \cup Optional

\* The strings; the provers do not know that a literal is one.
Kinds == {"required-value", "yolo-flag-removed", "tool-flag-removed", "unknown-flag",
          "new-session-value", "command-starts-with-flag"}
Text == STRING \cup Kinds \cup {NoFailure, "", "tools"}
Cfg == [help : BOOLEAN, failure : Text, on : SUBSET Text, val : [Valued -> Seq(Text)],
        command : Seq(Token), separator : BOOLEAN, waiting : Waiters \cup {""}, ended : BOOLEAN]

\* The flags whose values the proofs follow through the scan.
Ours == {"--env", "--mount", Runtime, "--share-skills"}
Plainly(c, d) == d.ended = c.ended /\ d.command = c.command /\ d.separator = c.separator
Put(vs, f, v) == IF f \in Lists THEN Append(vs, v) ELSE <<v>>

\* d is c with v given for f.
Recorded(c, d, f, v) ==
  /\ d \in Cfg /\ d.failure = c.failure /\ d.waiting = c.waiting /\ Plainly(c, d)
  /\ \A h \in Valued : d.val[h] = IF h = f THEN Put(c.val[h], h, v) ELSE c.val[h]

\* Unless it is a failure, d is c, with w waiting; or with the value v given for f.
Quiet(c, d, w) ==
  /\ d \in Cfg
  /\ d.failure = NoFailure =>
       /\ c.failure = NoFailure /\ Plainly(c, d) /\ d.waiting = w
       /\ \A h \in Ours : d.val[h] = c.val[h]
Gives(c, d, f, v) ==
  /\ d \in Cfg
  /\ d.failure = NoFailure =>
       /\ c.failure = NoFailure /\ Plainly(c, d) /\ d.waiting = c.waiting
       /\ \A h \in Ours : d.val[h] = IF h = f THEN Put(c.val[h], h, v) ELSE c.val[h]
       /\ f \in {Runtime, "--share-skills"} => v # ""

\* A failure is told from none.
LEMMA KindsFail == Kinds \subseteq Text /\ \A k \in Kinds : k # NoFailure
BY DEF Kinds, Text, NoFailure

\* Which flags are which.
LEMMA Flags ==
  /\ \A f \in Required \cup {Runtime} :
       /\ f \notin Switches /\ f \in Valued /\ f \in Waiters /\ f \notin Optional
       /\ f \notin {"--help", "--attach", "-R", "--rebuild", "--yolo", "--tool", ""}
  /\ \A f \in Switches :
       /\ f \notin Waiters /\ f \notin Optional
       /\ f \notin {"--help", "--attach", "-R", "--rebuild", "--yolo", "--tool", ""}
  /\ Optional = {"-R", "--attach"} /\ Optional \subseteq Waiters
  /\ "--tool" \in Waiters /\ "" \notin Waiters
  /\ "--help" \notin Waiters /\ "--rebuild" \notin Waiters
  /\ {"--rebuild", "--attach"} \subseteq Valued
  /\ Runtime \notin Required /\ "--share-skills" \in Required /\ Lists \subseteq Required
BY DEF Required, Lists, Runtime, Switches, Waiters, Optional, Valued

\* The flags whose values matter here take a value.
LEMMA OursFlags ==
  /\ Ours \subseteq Valued /\ \A f \in Ours : f \notin Optional \cup {"--rebuild", "--tool"}
  /\ Runtime \notin Lists /\ "--share-skills" \notin Lists
  /\ "--env" \in Lists /\ "--mount" \in Lists
BY DEF Ours, Required, Lists, Runtime, Optional, Valued

\* How they take an inline value.
LEMMA InlineFlags ==
  /\ \A f \in KeptInline : f \in Valued /\ f \notin DroppedInline /\ f \notin FreeInline /\ f # "--new-session"
  /\ \A f \in DroppedInline : f \in Valued /\ f \notin FreeInline /\ f \notin Ours /\ f # "--new-session"
  /\ \A f \in FreeInline : f \in Valued /\ f \notin {Runtime, "--share-skills", "--new-session"}
  /\ Ours \subseteq KeptInline \cup FreeInline
BY DEF KeptInline, DroppedInline, FreeInline, Ours, Required, Lists, Runtime, Valued

\* A sequence of one.
LEMMA Alone == ASSUME NEW S, NEW x \in S PROVE <<x>> \in Seq(S)
OBVIOUS

\* The scan begins well typed, with nothing given.
LEMMA BlankType == Blank \in Cfg
<1>1. [f \in Valued |-> <<>>] \in [Valued -> Seq(Text)] OBVIOUS
<1>2. <<>> \in Seq(Token) OBVIOUS
<1>3. NoFailure \in Text /\ "" \in Text /\ {} \in SUBSET Text BY DEF Text
<1> HIDE DEF Token, Valued
<1> QED BY <1>1, <1>2, <1>3 DEF Blank, Cfg

\* A failure is for good.
LEMMA FailedEffect ==
  ASSUME NEW c \in Cfg, NEW kind \in Kinds
  PROVE Failed(c, kind) \in Cfg /\ Failed(c, kind).failure # NoFailure
<1>1. kind \in Text /\ kind # NoFailure BY KindsFail
<1> QED BY <1>1 DEF Failed, Cfg

\* What recording a value does.
LEMMA GivenEffect ==
  ASSUME NEW c \in Cfg, NEW f \in Valued, NEW v \in Text
  PROVE Recorded(c, Given(c, f, v), f, v)
<1>1. c.val \in [Valued -> Seq(Text)] BY DEF Cfg
<1>2. Put(c.val[f], f, v) \in Seq(Text)
  <2>1. c.val[f] \in Seq(Text) BY <1>1
  <2>2. Append(c.val[f], v) \in Seq(Text) BY <2>1, AppendProperties
  <2>3. <<v>> \in Seq(Text) OBVIOUS
  <2> QED BY <2>2, <2>3 DEF Put
<1>3. Given(c, f, v) = [c EXCEPT !.val = [@ EXCEPT ![f] = Put(c.val[f], f, v)]]
  BY DEF Given, Put, Cfg
<1> HIDE DEF Valued
<1>4. [c.val EXCEPT ![f] = Put(c.val[f], f, v)] \in [Valued -> Seq(Text)] BY <1>1, <1>2
<1>5. Given(c, f, v) \in Cfg BY <1>3, <1>4 DEF Cfg
<1>6. Given(c, f, v).val = [c.val EXCEPT ![f] = Put(c.val[f], f, v)] BY <1>3 DEF Cfg
<1>7. \A h \in Valued : Given(c, f, v).val[h] = IF h = f THEN Put(c.val[h], h, v) ELSE c.val[h]
  BY <1>1, <1>6
<1>8. /\ Given(c, f, v).failure = c.failure /\ Given(c, f, v).waiting = c.waiting
      /\ Plainly(c, Given(c, f, v))
  BY <1>3 DEF Cfg, Plainly
<1> QED BY <1>5, <1>7, <1>8 DEF Recorded

\* What an empty value does.
LEMMA CheckedEffect ==
  ASSUME NEW c \in Cfg, NEW v \in Text
  PROVE /\ Checked(c, v) \in Cfg
        /\ Checked(c, v).failure = NoFailure => v # "" /\ Checked(c, v) = c
<1>1. "required-value" \in Kinds BY DEF Kinds
<1> QED BY <1>1, FailedEffect DEF Checked

\* Waiting for a value changes nothing else.
LEMMA WaitingEffect ==
  ASSUME NEW c \in Cfg, NEW f \in Waiters \cup {""}
  PROVE [c EXCEPT !.waiting = f] \in Cfg /\ Quiet(c, [c EXCEPT !.waiting = f], f)
BY DEF Quiet, Cfg, Plainly

\* A flag by itself sets nothing of ours; it may wait for a value.
LEMMA NamedEffect ==
  ASSUME NEW c \in Cfg, NEW f \in Text, c.waiting = ""
  PROVE Quiet(c, Named(c, f), IF f \in Waiters THEN f ELSE "")
<1>1. CASE f = "--help"
  <2>1. Named(c, f) = IF c.failure = NoFailure THEN [c EXCEPT !.help = TRUE] ELSE c
    BY <1>1, Flags DEF Named
  <2>2. f \notin Waiters BY <1>1, Flags
  <2> QED BY <2>1, <2>2 DEF Cfg, Plainly, Quiet
<1>2. CASE f \in Required \cup {Runtime}
  <2>1. Named(c, f) = [c EXCEPT !.waiting = f] BY <1>2, Flags DEF Named
  <2> QED BY <1>2, <2>1, WaitingEffect, Flags
<1>3. CASE f = "--attach"
  <2>1. Named(c, f) = [c EXCEPT !.on = @ \cup {f}, !.waiting = f]
    BY <1>3, Flags DEF Named
  <2>2. f \in Waiters BY <1>3, Flags
  <2>3. c.on \cup {f} \in SUBSET Text BY DEF Cfg
  <2> QED BY <2>1, <2>2, <2>3 DEF Cfg, Plainly, Quiet
<1>4. CASE f = "-R"
  <2> DEFINE d == Given(c, "--rebuild", "tools")
  <2>1. Named(c, f) = [d EXCEPT !.waiting = f] BY <1>4, Flags DEF Named
  <2>2. f \in Waiters /\ "tools" \in Text BY <1>4, Flags DEF Text
  <2>3. /\ d \in Cfg /\ d.failure = c.failure /\ Plainly(c, d)
        /\ \A h \in Valued : h # "--rebuild" => d.val[h] = c.val[h]
    <3>1. "--rebuild" \in Valued BY Flags
    <3>2. Recorded(c, d, "--rebuild", "tools") BY <2>2, <3>1, GivenEffect
    <3> HIDE DEF d
    <3> QED BY <3>2 DEF Recorded
  <2> HIDE DEF d
  <2>4. Quiet(d, [d EXCEPT !.waiting = f], f) BY <2>2, <2>3, WaitingEffect
  <2> QED BY <2>1, <2>2, <2>3, <2>4, OursFlags DEF Plainly, Quiet
<1>5. CASE f = "--rebuild"
  <2> DEFINE d == Given(c, f, "tools")
  <2>1. Named(c, f) = d BY <1>5, Flags DEF Named
  <2>2. f \notin Waiters /\ f \in Valued /\ "tools" \in Text BY <1>5, Flags DEF Text
  <2>3. /\ d \in Cfg /\ d.failure = c.failure /\ d.waiting = c.waiting /\ Plainly(c, d)
        /\ \A h \in Valued : h # f => d.val[h] = c.val[h]
    <3>1. Recorded(c, d, f, "tools") BY <2>2, GivenEffect
    <3> HIDE DEF d
    <3> QED BY <3>1 DEF Recorded
  <2> HIDE DEF d
  <2> QED BY <1>5, <2>1, <2>2, <2>3, OursFlags DEF Quiet
<1>6. CASE f \in Switches
  <2>1. Named(c, f) = [c EXCEPT !.on = @ \cup {f}] BY <1>6, Flags DEF Named
  <2>2. f \notin Waiters BY <1>6, Flags
  <2>3. c.on \cup {f} \in SUBSET Text BY DEF Cfg
  <2> QED BY <2>1, <2>2, <2>3 DEF Cfg, Plainly, Quiet
<1>7. CASE f = "--tool"
  <2>1. Named(c, f) = [Failed(c, "tool-flag-removed") EXCEPT !.waiting = f]
    BY <1>7, Flags DEF Named
  <2>2. "tool-flag-removed" \in Kinds BY DEF Kinds
  <2> DEFINE d == Failed(c, "tool-flag-removed")
  <2>3. d \in Cfg /\ d.failure # NoFailure BY <2>2, FailedEffect
  <2> HIDE DEF d
  <2>4. Quiet(d, [d EXCEPT !.waiting = f], f) BY <1>7, <2>3, WaitingEffect, Flags
  <2> QED BY <2>1, <2>3, <2>4 DEF Quiet, d
<1>8. CASE /\ f \notin Required \cup {Runtime} \cup Switches
           /\ f \notin {"--help", "--attach", "-R", "--rebuild", "--tool"}
  <2>1. Named(c, f) = Failed(c, "yolo-flag-removed") \/ Named(c, f) = Failed(c, "unknown-flag")
    BY <1>8 DEF Named
  <2>2. "yolo-flag-removed" \in Kinds /\ "unknown-flag" \in Kinds BY DEF Kinds
  <2> QED BY <2>1, <2>2, FailedEffect DEF Quiet
<1> QED BY <1>1, <1>2, <1>3, <1>4, <1>5, <1>6, <1>7, <1>8

\* A flag with its value inline gives the value, if it may have it.
LEMMA InlineEffect ==
  ASSUME NEW c \in Cfg, NEW f \in Text, NEW v \in Text
  PROVE Gives(c, WithInline(c, f, v), f, v)
<1> DEFINE d == Given(c, f, v)
<1>1. ASSUME f \in Valued
      PROVE /\ d \in Cfg /\ d.failure = c.failure /\ d.waiting = c.waiting /\ Plainly(c, d)
            /\ \A h \in Ours : d.val[h] = IF h = f THEN Put(c.val[h], h, v) ELSE c.val[h]
  <2>1. Recorded(c, d, f, v) BY <1>1, GivenEffect
  <2> HIDE DEF d
  <2> QED BY <2>1, OursFlags DEF Recorded
<1> HIDE DEF d
<1>2. CASE f \in KeptInline
  <2>1. WithInline(c, f, v) = Checked(d, v) BY <1>2, InlineFlags DEF WithInline, d
  <2>2. d \in Cfg BY <1>1, <1>2, InlineFlags
  <2>3. Checked(d, v) \in Cfg /\ (Checked(d, v).failure = NoFailure => v # "" /\ Checked(d, v) = d)
    BY <2>2, CheckedEffect
  <2> QED BY <1>1, <1>2, <2>1, <2>3, InlineFlags DEF Gives
<1>3. CASE f \in DroppedInline
  <2>1. WithInline(c, f, v) = IF v = "" THEN Checked(c, v) ELSE d
    BY <1>3, InlineFlags DEF WithInline, d
  <2>2. v = "" => Checked(c, v) \in Cfg /\ Checked(c, v).failure # NoFailure BY CheckedEffect
  <2>3. f \notin {Runtime, "--share-skills"} BY <1>3, InlineFlags DEF Ours
  <2> QED BY <1>1, <1>3, <2>1, <2>2, <2>3, InlineFlags DEF Gives
<1>4. CASE f \in FreeInline
  <2>1. WithInline(c, f, v) = d BY <1>4, InlineFlags DEF WithInline, d
  <2> QED BY <1>1, <1>4, <2>1, InlineFlags DEF Gives
<1>5. CASE f \notin KeptInline \cup DroppedInline \cup FreeInline
  <2>1. WithInline(c, f, v) = Failed(c, "new-session-value") \/ WithInline(c, f, v) = Failed(c, "unknown-flag")
    BY <1>5 DEF WithInline
  <2>2. "new-session-value" \in Kinds /\ "unknown-flag" \in Kinds BY DEF Kinds
  <2> QED BY <2>1, <2>2, FailedEffect DEF Gives
<1> QED BY <1>2, <1>3, <1>4, <1>5

\* The value a flag that waits for one takes.
TakesFor(w, u) ==
  \/ w \in Required \cup {"--tool"}
  \/ w = Runtime /\ ~Dashed(u)
  \/ w \in Optional /\ ~Dashed(u) /\ u.value # ""
\* The flags end with t: it begins the command, or stands before it.
Alike(c, d) == d.val = c.val /\ d.on = c.on /\ d.help = c.help
Ends(c, d, t) ==
  /\ d \in Cfg /\ d.failure = c.failure /\ d.waiting = c.waiting /\ Alike(c, d)
  /\ d.separator = (t.kind = "separator" \/ c.separator)
  /\ d.ended /\ d.command = IF t.kind = "word" THEN <<t>> ELSE c.command

\* The parts of a token.
LEMMA TokenType ==
  ASSUME NEW t \in Token
  PROVE t.kind \in {"word", "flag", "inline", "separator"} /\ t.flag \in Text /\ t.value \in Text
BY DEF Token, Text

\* What a token that is no value does.
LEMMA ArmEffect ==
  ASSUME NEW c \in Cfg, c.waiting = "", NEW t \in Token
  PROVE /\ Arm(c, t) \in Cfg /\ (Arm(c, t).failure = NoFailure => c.failure = NoFailure)
        /\ t.kind = "flag" => Quiet(c, Arm(c, t), IF t.flag \in Waiters THEN t.flag ELSE "")
        /\ t.kind = "inline" => Gives(c, Arm(c, t), t.flag, t.value)
        /\ t.kind \in {"word", "separator"} => Ends(c, Arm(c, t), t)
<1>1. CASE t.kind = "flag"
  <2>1. Arm(c, t) = Named(c, t.flag) BY <1>1 DEF Arm
  <2>2. Quiet(c, Named(c, t.flag), IF t.flag \in Waiters THEN t.flag ELSE "")
    BY TokenType, NamedEffect
  <2> QED BY <1>1, <2>1, <2>2 DEF Quiet
<1>2. CASE t.kind = "inline"
  <2>1. Arm(c, t) = WithInline(c, t.flag, t.value) BY <1>2 DEF Arm
  <2>2. Gives(c, WithInline(c, t.flag, t.value), t.flag, t.value) BY TokenType, InlineEffect
  <2> QED BY <1>2, <2>1, <2>2 DEF Gives
<1>3. CASE t.kind = "word"
  <2>1. Arm(c, t) = [c EXCEPT !.command = <<t>>, !.ended = TRUE] BY <1>3 DEF Arm
  <2>2. <<t>> \in Seq(Token) BY Alone
  <2> QED BY <1>3, <2>1, <2>2 DEF Ends, Alike, Cfg
<1>4. CASE t.kind = "separator"
  <2>1. Arm(c, t) = [c EXCEPT !.separator = TRUE, !.ended = TRUE] BY <1>4 DEF Arm
  <2> QED BY <1>4, <2>1 DEF Ends, Alike, Cfg
<1> QED BY <1>1, <1>2, <1>3, <1>4, TokenType

\* What a token does after a flag that waits.
LEMMA AsValueEffect ==
  ASSUME NEW c \in Cfg, c.waiting = "", NEW w \in Waiters, NEW t \in Token
  PROVE /\ AsValue(c, w, t) \in Cfg
        /\ AsValue(c, w, t).failure = NoFailure =>
             /\ c.failure = NoFailure
             /\ TakesFor(w, t) => Gives(c, AsValue(c, w, t), w, t.value)
             /\ ~TakesFor(w, t) => AsValue(c, w, t) = Arm(c, t)
<1>1. t.value \in Text /\ "required-value" \in Kinds BY TokenType DEF Kinds
<1>2. /\ Arm(c, t) \in Cfg
      /\ Arm(c, t).failure = NoFailure => c.failure = NoFailure
  BY ArmEffect
<1>3. CASE w = "--tool"
  <2>1. AsValue(c, w, t) = c BY <1>3, Flags DEF AsValue
  <2> QED BY <1>3, <2>1, OursFlags DEF Gives, TakesFor, Plainly, Ours, Runtime
<1>4. CASE w \in Optional
  <2> DEFINE f == IF w = "-R" THEN "--rebuild" ELSE w
  <2>1. AsValue(c, w, t) = IF Dashed(t) \/ t.value = "" THEN Arm(c, t) ELSE Given(c, f, t.value)
    BY <1>4, Flags DEF AsValue
  <2>2. f \in Valued /\ f \notin Ours /\ w \notin Ours BY <1>4, Flags, OursFlags
  <2> HIDE DEF f
  <2> DEFINE d == Given(c, f, t.value)
  <2>7. Recorded(c, d, f, t.value) BY <1>1, <2>2, GivenEffect
  <2> HIDE DEF d
  <2>4. d \in Cfg /\ d.failure = c.failure /\ d.waiting = c.waiting /\ Plainly(c, d)
    BY <2>7 DEF Recorded
  <2>6. ASSUME NEW h \in Ours PROVE d.val[h] = c.val[h]
    <3>1. h \in Valued /\ h # f BY <2>2, OursFlags
    <3> QED BY <2>7, <3>1 DEF Recorded
  <2>3. Gives(c, d, w, t.value)
    <3> QED BY <2>2, <2>4, <2>6 DEF Gives, Ours
  <2>5. TakesFor(w, t) <=> ~(Dashed(t) \/ t.value = "") BY <1>4, Flags DEF TakesFor
  <2> QED BY <1>2, <2>1, <2>3, <2>4, <2>5 DEF d
<1>5. CASE w = Runtime
  <2> DEFINE d == Given(c, w, t.value)
  <2>1. w \in Valued /\ w \notin Optional /\ w # "--tool" BY <1>5, Flags
  <2>2. AsValue(c, w, t) = IF Dashed(t) THEN Arm(Failed(c, "required-value"), t)
                           ELSE Checked(d, t.value)
    BY <1>5, <2>1 DEF AsValue
  <2>9. Recorded(c, d, w, t.value) BY <1>1, <2>1, GivenEffect
  <2> HIDE DEF d
  <2>4. d \in Cfg /\ d.failure = c.failure /\ d.waiting = c.waiting /\ Plainly(c, d)
    BY <2>9 DEF Recorded
  <2>8. ASSUME NEW h \in Ours
        PROVE d.val[h] = IF h = w THEN Put(c.val[h], h, t.value) ELSE c.val[h]
    <3>1. h \in Valued BY OursFlags
    <3> QED BY <2>9, <3>1 DEF Recorded
  <2>3. Gives(c, d, w, t.value) \/ t.value = "" BY <2>4, <2>8 DEF Gives
  <2>5. TakesFor(w, t) <=> ~Dashed(t) BY <1>5, Flags DEF TakesFor
  <2>6. CASE Dashed(t)
    <3> DEFINE e == Failed(c, "required-value")
    <3>1. e \in Cfg /\ e.failure # NoFailure BY <1>1, FailedEffect
    <3>2. e.waiting = "" BY DEF Failed, Cfg
    <3> HIDE DEF e
    <3>3. Arm(e, t) \in Cfg /\ Arm(e, t).failure # NoFailure BY <3>1, <3>2, ArmEffect
    <3> QED BY <2>2, <2>6, <3>3 DEF e
  <2>7. CASE ~Dashed(t)
    <3>1. /\ Checked(d, t.value) \in Cfg
          /\ Checked(d, t.value).failure = NoFailure => t.value # "" /\ Checked(d, t.value) = d
      BY <1>1, <2>4, CheckedEffect
    <3> QED BY <2>2, <2>3, <2>4, <2>5, <2>7, <3>1
  <2> QED BY <2>6, <2>7
<1>6. CASE w \in Required
  <2> DEFINE d == Given(c, w, t.value)
  <2>1. w \in Valued /\ w \notin Optional /\ w # "--tool" /\ w # Runtime BY <1>6, Flags
  <2>2. AsValue(c, w, t) = IF Dashed(t) \/ t.value = "" THEN Failed(c, "required-value") ELSE d
    BY <2>1 DEF AsValue
  <2>9. Recorded(c, d, w, t.value) BY <1>1, <2>1, GivenEffect
  <2> HIDE DEF d
  <2>4. d \in Cfg /\ d.failure = c.failure /\ d.waiting = c.waiting /\ Plainly(c, d)
    BY <2>9 DEF Recorded
  <2>8. ASSUME NEW h \in Ours
        PROVE d.val[h] = IF h = w THEN Put(c.val[h], h, t.value) ELSE c.val[h]
    <3>1. h \in Valued BY OursFlags
    <3> QED BY <2>9, <3>1 DEF Recorded
  <2>3. Gives(c, d, w, t.value) \/ t.value = "" BY <2>4, <2>8 DEF Gives
  <2>5. Failed(c, "required-value") \in Cfg /\ Failed(c, "required-value").failure # NoFailure
    BY <1>1, FailedEffect
  <2>6. TakesFor(w, t) BY <1>6 DEF TakesFor
  <2> QED BY <2>2, <2>3, <2>4, <2>5, <2>6
<1> QED BY <1>3, <1>4, <1>5, <1>6 DEF Waiters

\* What a token of the command does.
LEMMA InCommandEffect ==
  ASSUME NEW c \in Cfg, NEW t \in Token
  PROVE /\ InCommand(c, t) \in Cfg
        /\ InCommand(c, t).command = Append(c.command, t)
        /\ InCommand(c, t).ended = c.ended /\ InCommand(c, t).waiting = c.waiting
        /\ Alike(c, InCommand(c, t)) /\ InCommand(c, t).separator = c.separator
        /\ InCommand(c, t).failure = NoFailure <=>
             c.failure = NoFailure /\ ~(c.command = <<>> /\ Dashed(t))
<1> DEFINE d == [c EXCEPT !.command = Append(@, t)]
<1>1. c.command \in Seq(Token) BY DEF Cfg
<1>2. Append(c.command, t) \in Seq(Token) BY <1>1, AppendProperties
<1>3. /\ d \in Cfg /\ d.failure = c.failure /\ d.command = Append(c.command, t)
      /\ d.ended = c.ended /\ d.waiting = c.waiting /\ Alike(c, d) /\ d.separator = c.separator
  BY <1>2 DEF Cfg, Alike
<1>4. InCommand(c, t) = IF c.command = <<>> /\ Dashed(t) THEN Failed(d, "command-starts-with-flag") ELSE d
  BY DEF InCommand
<1>5. "command-starts-with-flag" \in Kinds BY DEF Kinds
<1> DEFINE e == Failed(d, "command-starts-with-flag")
<1> HIDE DEF d
<1>6. e \in Cfg /\ e.failure # NoFailure BY <1>3, <1>5, FailedEffect
<1>7. /\ e.command = d.command /\ e.ended = d.ended /\ e.waiting = d.waiting /\ Alike(d, e)
      /\ e.separator = d.separator
  BY <1>3 DEF Failed, Cfg, Alike
<1> HIDE DEF e
<1> QED BY <1>3, <1>4, <1>6, <1>7 DEF Alike, e

\* The scan keeps its type.
LEMMA ScanType ==
  ASSUME NEW c \in Cfg, NEW t \in Token
  PROVE Scan(c, t) \in Cfg /\ (Scan(c, t).failure = NoFailure => c.failure = NoFailure)
<1> DEFINE d == [c EXCEPT !.waiting = ""]
<1>1. d \in Cfg /\ d.waiting = "" /\ d.failure = c.failure /\ c.waiting \in Waiters \cup {""}
  BY DEF Cfg
<1>2. Scan(c, t) = IF c.ended THEN InCommand(c, t)
                   ELSE IF c.waiting # "" THEN AsValue(d, c.waiting, t) ELSE Arm(c, t)
  BY DEF Scan
<1> HIDE DEF d
<1>3. CASE c.ended
  <2>1. Scan(c, t) = InCommand(c, t) BY <1>2, <1>3
  <2> QED BY <2>1, InCommandEffect
<1>4. CASE ~c.ended /\ c.waiting # ""
  <2>1. c.waiting \in Waiters BY <1>1, <1>4
  <2>2. AsValue(d, c.waiting, t) \in Cfg
        /\ (AsValue(d, c.waiting, t).failure = NoFailure => d.failure = NoFailure)
    BY <1>1, <2>1, AsValueEffect
  <2> QED BY <1>1, <1>2, <1>4, <2>2
<1>5. CASE ~c.ended /\ c.waiting = ""
  <2>1. Scan(c, t) = Arm(c, t) BY <1>2, <1>5
  <2>2. Arm(c, t) \in Cfg /\ (Arm(c, t).failure = NoFailure => c.failure = NoFailure)
    BY <1>5, ArmEffect
  <2> QED BY <2>1, <2>2
<1> QED BY <1>3, <1>4, <1>5

\* What FoldLeft computes of a command line.
LEMMA ScanFold ==
  ASSUME NEW as \in Seq(Token)
  PROVE \E f \in [0..Len(as) -> Cfg] :
          /\ f[0] = Blank /\ f[Len(as)] = FoldLeft(Scan, Blank, as)
          /\ \A k \in 1..Len(as) : f[k] = Scan(f[k - 1], as[k])
<1> DEFINE n == Len(as)  g == [p \in Cfg \X (1..n) |-> Scan(p[1], as[p[2]])]
           Fold(it) == it = [s \in SUBSET DOMAIN as |->
                               IF s = {} THEN Blank ELSE Scan(it[s \ {Max(s)}], as[Max(s)])]
           it == CHOOSE it : Fold(it)
<1>1. n \in Nat /\ DOMAIN as = 1..n /\ \A k \in 1..n : as[k] \in Token
  BY LenProperties, ElementOfSeq
<1>2. \A c \in Cfg, k \in 1..n : g[<<c, k>>] = Scan(c, as[k]) OBVIOUS
<1>3. \A c \in Cfg, k \in 1..n : g[<<c, k>>] \in Cfg BY <1>1, <1>2, ScanType
<1> HIDE DEF n, g
<1>4. PICK i \in [SUBSET (1..n) -> Cfg] : Iterates(i, n, Blank, g)
  BY <1>1, <1>3, BlankType, IterExists
<1>5. Fold(i)
  <2>1. ASSUME NEW s \in SUBSET (1..n)
        PROVE i[s] = IF s = {} THEN Blank ELSE Scan(i[s \ {Max(s)}], as[Max(s)])
    <3>1. CASE s # {}
      <4>1. Max(s) \in 1..n BY <1>1, <3>1, MaxIn
      <4>2. i[s \ {Max(s)}] \in Cfg OBVIOUS
      <4> QED BY <1>2, <1>4, <3>1, <4>1, <4>2 DEF Iterates
    <3>2. CASE s = {} BY <1>4, <3>2 DEF Iterates
    <3> QED BY <3>1, <3>2
  <2>2. i = [s \in SUBSET (1..n) |-> i[s]] OBVIOUS
  <2> QED BY <1>1, <2>1, <2>2
<1>6. Fold(it) BY <1>5
<1>7. FoldLeft(Scan, Blank, as) = it[1..n] BY <1>1 DEF FoldLeft, MapThenFoldSet
<1>8. it[{}] = Blank BY <1>1, <1>6
<1>9. ASSUME NEW k \in 1..n, it[1..k - 1] \in Cfg PROVE it[1..k] = g[<<it[1..k - 1], k>>]
  <2>3. 1..k \in SUBSET (1..n) /\ 1..k # {} BY <1>1, FirstPlaces
  <2>1. it[1..k] = Scan(it[(1..k) \ {Max(1..k)}], as[Max(1..k)]) BY <1>1, <1>6, <2>3
  <2>2. it[1..k] = Scan(it[1..k - 1], as[k]) BY <1>1, <2>1, FirstPlaces
  <2> QED BY <1>2, <1>9, <2>2
<1> HIDE DEF it
<1>10. PICK f \in [0..n -> Cfg] : f[n] = it[1..n] /\ Runs(f, n, Blank, g)
  BY <1>1, <1>3, <1>8, <1>9, BlankType, Chain
<1>11. \A k \in 1..n : k - 1 \in 0..n BY <1>1
<1>12. f[0] = Blank /\ \A k \in 1..n : f[k] = Scan(f[k - 1], as[k])
  BY <1>2, <1>10, <1>11 DEF Runs
<1> QED BY <1>7, <1>10, <1>12 DEF n
----------------------------------------------------------------------------
(* What the places of the tokens say.                                      *)

\* v tells the values among the first m tokens.
Marks(as, v, m) ==
  \A i \in 1..m : v[i] = (i > 1 /\ ~v[i - 1] /\ Takes(as[i - 1], as[i]))

\* The marks that IsValue places exist.
LEMMA MarksExist ==
  ASSUME NEW as, NEW n \in Nat PROVE \E v \in [1..n -> BOOLEAN] : Marks(as, v, n)
<1> DEFINE S == {m \in 0..n : \E v \in [1..m -> BOOLEAN] : Marks(as, v, m)}
<1>1. 0 \in S
  <2>1. [i \in 1..0 |-> FALSE] \in [1..0 -> BOOLEAN] OBVIOUS
  <2>2. Marks(as, [i \in 1..0 |-> FALSE], 0) BY DEF Marks
  <2>3. 0 \in 0..n OBVIOUS
  <2> QED BY <2>1, <2>2, <2>3
<1>2. ASSUME NEW m \in 1..n, m - 1 \in S PROVE m \in S
  <2>1. PICK v \in [1..m - 1 -> BOOLEAN] : Marks(as, v, m - 1) BY <1>2
  <2> DEFINE new == m > 1 /\ ~v[m - 1] /\ Takes(as[m - 1], as[m])
             u == [i \in 1..m |-> IF i = m THEN new ELSE v[i]]
  <2>2. new \in BOOLEAN OBVIOUS
  <2>3. u \in [1..m -> BOOLEAN]
    <3> HIDE DEF new
    <3>1. \A i \in 1..m : i # m => i \in 1..m - 1 OBVIOUS
    <3> QED BY <2>2, <3>1
  <2>4. u[m] = new OBVIOUS
  <2>5. ASSUME NEW i \in 1..m - 1 PROVE i \in 1..m /\ u[i] = v[i]
    <3> HIDE DEF new
    <3>1. i \in 1..m /\ i # m OBVIOUS
    <3> QED BY <3>1
  <2>6. ASSUME NEW i \in 1..m PROVE u[i] = (i > 1 /\ ~u[i - 1] /\ Takes(as[i - 1], as[i]))
    <3>1. i > 1 => i - 1 \in 1..m - 1 OBVIOUS
    <3> HIDE DEF u
    <3>2. i > 1 => u[i - 1] = v[i - 1] BY <2>5, <3>1
    <3>3. CASE i = m BY <2>4, <3>2, <3>3
    <3>4. CASE i # m
      <4>1. i \in 1..m - 1 BY <3>4
      <4> HIDE DEF new
      <4>2. u[i] = v[i] BY <2>5, <4>1
      <4>3. v[i] = (i > 1 /\ ~v[i - 1] /\ Takes(as[i - 1], as[i])) BY <2>1, <4>1 DEF Marks
      <4> QED BY <3>2, <4>2, <4>3
    <3> QED BY <3>3, <3>4
  <2>7. m \in 0..n OBVIOUS
  <2> HIDE DEF u
  <2>8. Marks(as, u, m) BY <2>6 DEF Marks
  <2> QED BY <2>3, <2>7, <2>8
<1>3. n \in S
  <2> HIDE DEF S
  <2>1. \A m \in 0..n : m \in S BY <1>1, <1>2, Climb
  <2> QED BY <2>1
<1> QED BY <1>3

\* IsValue places them.
LEMMA IsValueIs ==
  ASSUME NEW as \in Seq(Token)
  PROVE IsValue(as) \in [1..Len(as) -> BOOLEAN] /\ Marks(as, IsValue(as), Len(as))
<1> DEFINE n == Len(as)
           Told(v) == v = [i \in DOMAIN as |-> i > 1 /\ ~v[i - 1] /\ Takes(as[i - 1], as[i])]
<1>1. n \in Nat /\ DOMAIN as = 1..n BY LenProperties
<1> HIDE DEF n
<1>2. PICK v \in [1..n -> BOOLEAN] : Marks(as, v, n) BY <1>1, MarksExist
<1>3. Told(v)
  <2>1. v = [i \in 1..n |-> v[i]] OBVIOUS
  <2> QED BY <1>1, <1>2, <2>1 DEF Marks
<1>4. IsValue(as) = CHOOSE u : Told(u) BY DEF IsValue
<1>5. Told(IsValue(as))
  <2> HIDE DEF Told
  <2> QED BY <1>3, <1>4
<1>6. \A i \in 1..n :
        IsValue(as)[i] = (i > 1 /\ ~IsValue(as)[i - 1] /\ Takes(as[i - 1], as[i]))
  BY <1>1, <1>5
<1>7. IsValue(as) \in [1..n -> BOOLEAN] BY <1>1, <1>5
<1> QED BY <1>6, <1>7 DEF Marks, n

\* The flags end at the first token that is no value and no flag.
LEMMA BoundaryIs ==
  ASSUME NEW as \in Seq(Token)
  PROVE /\ Boundary(as) \in 1..Len(as) + 1
        /\ \A i \in 1..Boundary(as) - 1 : i \in 1..Len(as) /\ (IsValue(as)[i] \/ as[i].kind \in {"flag", "inline"})
        /\ Boundary(as) <= Len(as) =>
             ~IsValue(as)[Boundary(as)] /\ as[Boundary(as)].kind \in {"word", "separator"}
<1> DEFINE n == Len(as)  v == IsValue(as)
           ends == {i \in DOMAIN as : ~v[i] /\ as[i].kind \in {"word", "separator"}}
<1>0. n \in Nat BY LenProperties
<1>1. DOMAIN as = 1..n /\ \A i \in 1..n : as[i] \in Token BY LenProperties, ElementOfSeq
<1>2. \A i \in 1..n : as[i].kind \in {"word", "flag", "inline", "separator"} BY <1>1, TokenType
<1>3. Boundary(as) = IF ends = {} THEN n + 1 ELSE CHOOSE i \in ends : \A j \in ends : i <= j
  BY DEF Boundary
<1> HIDE DEF n, v
<1>4. CASE ends = {}
  <2>1. \A i \in 1..n : v[i] \/ as[i].kind \in {"flag", "inline"} BY <1>1, <1>2, <1>4
  <2>2. Boundary(as) = n + 1 BY <1>3, <1>4
  <2> HIDE DEF ends
  <2> DEFINE b == Boundary(as)
  <2>5. b = n + 1 BY <2>2
  <2> HIDE DEF b
  <2>6. b \in 1..n + 1 /\ 1..b - 1 = 1..n /\ ~(b <= n) BY <1>0, <2>5
  <2> QED BY <2>1, <2>6 DEF n, v, b
<1>5. CASE ends # {}
  <2>1. \A i \in ends : i \in Nat BY <1>1
  <2>2. Boundary(as) \in ends /\ \A j \in ends : Boundary(as) <= j
    <3> HIDE DEF ends
    <3> QED BY <1>3, <1>5, <2>1, Least
  <2> DEFINE b == Boundary(as)
  <2>6. b \in 1..n BY <1>1, <2>2
  <2>3. ~v[b] /\ as[b].kind \in {"word", "separator"} BY <1>1, <2>2
  <2> HIDE DEF b
  <2>4. ASSUME NEW i \in 1..b - 1
        PROVE i \in 1..n /\ (v[i] \/ as[i].kind \in {"flag", "inline"})
    <3>1. i \in 1..n /\ ~(b <= i) BY <1>0, <2>6
    <3>2. i \notin ends BY <2>2, <3>1 DEF b
    <3> QED BY <1>1, <1>2, <3>1, <3>2
  <2>5. b \in 1..n + 1 BY <1>0, <2>6
  <2> HIDE DEF ends
  <2> QED BY <2>3, <2>4, <2>5 DEF n, v, b
<1> QED BY <1>4, <1>5

\* The i-th token is a value given for f.
Names(as, f, i) ==
  IF IsValue(as)[i] THEN as[i - 1].flag = f ELSE as[i].kind = "inline" /\ as[i].flag = f

ValuesRun(w, as, f) ==
  /\ w \in [0..Boundary(as) - 1 -> Seq(Text)]
  /\ w[0] = <<>> /\ w[Boundary(as) - 1] = ValuesGiven(as, f)
  /\ \A k \in 1..Boundary(as) - 1 :
       w[k] = IF Names(as, f, k) THEN Append(w[k - 1], as[k].value) ELSE w[k - 1]

\* What FoldLeft computes of the values given.
LEMMA ValuesFold ==
  ASSUME NEW as \in Seq(Token), NEW f PROVE \E w : ValuesRun(w, as, f)
<1> DEFINE n == Boundary(as) - 1  X == Seq(Text)  seq == [i \in 1..n |-> i]
           Op(vs, i) == IF Names(as, f, i) THEN Append(vs, as[i].value) ELSE vs
           g == [p \in X \X (1..n) |-> Op(p[1], p[2])]
           Fold(it) == it = [s \in SUBSET DOMAIN seq |->
                               IF s = {} THEN <<>> ELSE Op(it[s \ {Max(s)}], seq[Max(s)])]
           it == CHOOSE it : Fold(it)
<1>0. n \in Nat
  <2> DEFINE b == Boundary(as)  l == Len(as)
  <2>1. l \in Nat BY LenProperties
  <2>2. b \in 1..l + 1 BY BoundaryIs
  <2> HIDE DEF b, l
  <2>3. b - 1 \in Nat BY <2>1, <2>2
  <2> QED BY <2>3 DEF b
<1>1. DOMAIN seq = 1..n /\ \A k \in 1..n : seq[k] = k /\ as[k].value \in Text
  <2>2. \A k \in 1..n : k \in 1..Len(as) BY BoundaryIs
  <2>3. \A k \in 1..n : as[k].value \in Text BY <2>2, ElementOfSeq, TokenType
  <2> HIDE DEF n
  <2> QED BY <2>3
<1>2. \A c \in X, k \in 1..n : g[<<c, k>>] = Op(c, k) OBVIOUS
<1>3. \A c \in X, k \in 1..n : Op(c, k) \in X BY <1>1, AppendProperties
<1>4. <<>> \in X OBVIOUS
<1>5. ValuesGiven(as, f) = FoldLeft(Op, <<>>, seq) BY DEF ValuesGiven, Names
<1>6. FoldLeft(Op, <<>>, seq) = it[DOMAIN seq] BY DEF FoldLeft, MapThenFoldSet
<1> HIDE DEF n, g, Op, X, seq
<1>15. \A c \in X, k \in 1..n : g[<<c, k>>] \in X BY <1>2, <1>3
<1>7. PICK i \in [SUBSET (1..n) -> X] : Iterates(i, n, <<>>, g)
  BY <1>0, <1>4, <1>15, IterExists
<1>8. Fold(i)
  <2>1. ASSUME NEW s \in SUBSET (1..n)
        PROVE i[s] = IF s = {} THEN <<>> ELSE Op(i[s \ {Max(s)}], seq[Max(s)])
    <3>1. CASE s # {}
      <4>1. Max(s) \in 1..n BY <1>0, <3>1, MaxIn
      <4>2. i[s \ {Max(s)}] \in X OBVIOUS
      <4>3. i[s] = g[<<i[s \ {Max(s)}], Max(s)>>] BY <1>7, <3>1 DEF Iterates
      <4>4. i[s] = Op(i[s \ {Max(s)}], Max(s)) BY <1>2, <4>1, <4>2, <4>3
      <4> QED BY <1>1, <3>1, <4>1, <4>4
    <3>2. CASE s = {} BY <1>7, <3>2 DEF Iterates
    <3> QED BY <3>1, <3>2
  <2>2. i = [s \in SUBSET (1..n) |-> i[s]] OBVIOUS
  <2> QED BY <1>1, <2>1, <2>2
<1>9. Fold(it) BY <1>8
<1>10. it[{}] = <<>> BY <1>1, <1>9
<1>11. ASSUME NEW k \in 1..n, it[1..k - 1] \in X PROVE it[1..k] = g[<<it[1..k - 1], k>>]
  <2>3. 1..k \in SUBSET (1..n) /\ 1..k # {} BY <1>0, FirstPlaces
  <2>1. it[1..k] = Op(it[(1..k) \ {Max(1..k)}], seq[Max(1..k)]) BY <1>1, <1>9, <2>3
  <2>4. it[1..k] = Op(it[1..k - 1], k) BY <1>0, <1>1, <2>1, FirstPlaces
  <2> QED BY <1>2, <1>11, <2>4
<1> HIDE DEF it
<1>12. PICK w \in [0..n -> X] : w[n] = it[1..n] /\ Runs(w, n, <<>>, g)
  BY <1>0, <1>4, <1>10, <1>11, <1>15, Chain
<1>13. \A k \in 1..n : k - 1 \in 0..n BY <1>0
<1>14. w[0] = <<>> /\ \A k \in 1..n : w[k] = Op(w[k - 1], k) BY <1>2, <1>12, <1>13 DEF Runs
<1>16. w[n] = ValuesGiven(as, f) BY <1>1, <1>5, <1>6, <1>12
<1>17. \A k \in 1..n : w[k] = IF Names(as, f, k) THEN Append(w[k - 1], as[k].value) ELSE w[k - 1]
  BY <1>14 DEF Op
<1> QED BY <1>12, <1>14, <1>16, <1>17 DEF n, X, ValuesRun
----------------------------------------------------------------------------
(* The scan finds what the places say.                                     *)

\* A place of a sequence.
LEMMA AtMost == ASSUME NEW n \in Nat, NEW k \in 1..n PROVE k \in Nat /\ k > 0 /\ k <= n
OBVIOUS

\* The flag whose value the token after the k-th may be.
Waits(as, k) ==
  IF k > 0 /\ ~IsValue(as)[k] /\ as[k].kind = "flag" /\ as[k].flag \in Waiters
  THEN as[k].flag ELSE ""

\* A flag waits for exactly the tokens it takes.
LEMMA WaitsTakes ==
  ASSUME NEW as \in Seq(Token), NEW k \in 1..Len(as)
  PROVE IsValue(as)[k] <=> Waits(as, k - 1) # "" /\ TakesFor(Waits(as, k - 1), as[k])
<1> DEFINE v == IsValue(as)  n == Len(as)
<1>1. n \in Nat BY LenProperties
<1>2. v[k] <=> k > 1 /\ ~v[k - 1] /\ Takes(as[k - 1], as[k]) BY IsValueIs DEF Marks
<1>3. k - 1 > 0 <=> k > 1 BY <1>1
<1> HIDE DEF v
<1>4. Takes(as[k - 1], as[k]) <=>
        as[k - 1].kind = "flag" /\ as[k - 1].flag \in Waiters /\ TakesFor(as[k - 1].flag, as[k])
  BY Flags DEF Takes, TakesFor, Waiters
<1>5. as[k - 1].flag \in Waiters => as[k - 1].flag # "" BY Flags
<1>6. Waits(as, k - 1) = IF k > 1 /\ ~v[k - 1] /\ as[k - 1].kind = "flag" /\ as[k - 1].flag \in Waiters
                         THEN as[k - 1].flag ELSE "" BY <1>3 DEF Waits, v
<1>7. Waits(as, k - 1) # "" <=>
        k > 1 /\ ~v[k - 1] /\ as[k - 1].kind = "flag" /\ as[k - 1].flag \in Waiters
  BY <1>5, <1>6
<1>8. v[k] <=> Waits(as, k - 1) # "" /\ TakesFor(as[k - 1].flag, as[k])
  BY <1>2, <1>4, <1>7
<1>9. Waits(as, k - 1) # "" => Waits(as, k - 1) = as[k - 1].flag BY <1>6
<1> QED BY <1>8, <1>9 DEF v

\* What the k-th token does to the values followed.
Records(as, k, c, d) ==
  \A h \in Ours :
    IF Names(as, h, k) THEN /\ d.val[h] = Put(c.val[h], h, as[k].value)
                            /\ h \in {Runtime, "--share-skills"} => as[k].value # ""
    ELSE d.val[h] = c.val[h]

\* A token among the flags.
LEMMA FlagStep ==
  ASSUME NEW as \in Seq(Token), NEW k \in 1..Len(as), k < Boundary(as),
         NEW c \in Cfg, ~c.ended, c.waiting = Waits(as, k - 1),
         Scan(c, as[k]).failure = NoFailure
  PROVE LET d == Scan(c, as[k]) IN
        /\ c.failure = NoFailure /\ ~d.ended /\ d.command = c.command
        /\ d.separator = c.separator /\ d.waiting = Waits(as, k) /\ Records(as, k, c, d)
<1> DEFINE t == as[k]  e == [c EXCEPT !.waiting = ""]  w == c.waiting  d == Scan(c, t)
<1>0. k \in Nat /\ k > 0 /\ k \in 1..Boundary(as) - 1
  <2> DEFINE b == Boundary(as)  n == Len(as)
  <2>1. n \in Nat /\ k \in 1..n BY LenProperties
  <2>2. b \in 1..n + 1 /\ k < b BY BoundaryIs
  <2> HIDE DEF b, n
  <2>3. k \in Nat /\ k > 0 /\ k \in 1..b - 1 BY <2>1, <2>2
  <2> QED BY <2>3 DEF b
<1>1. t \in Token BY ElementOfSeq
<1>2. /\ e \in Cfg /\ e.waiting = "" /\ w \in Waiters \cup {""} /\ Plainly(e, c)
      /\ e.failure = c.failure /\ e.val = c.val
  BY DEF Cfg, Plainly
<1>3. d = IF w # "" THEN AsValue(e, w, t) ELSE Arm(e, t)
  <2>1. w = "" => e = c BY DEF Cfg
  <2> QED BY <2>1 DEF Scan
<1>4. IsValue(as)[k] <=> w # "" /\ TakesFor(w, t) BY WaitsTakes
<1>5. IsValue(as)[k] \/ t.kind \in {"flag", "inline"} BY <1>0, BoundaryIs
<1>6. \A h : Names(as, h, k) <=> IF IsValue(as)[k] THEN h = w ELSE t.kind = "inline" /\ h = t.flag
  <2>1. w # "" => as[k - 1].flag = w BY DEF Waits
  <2> QED BY <1>4, <2>1 DEF Names
<1>7. Waits(as, k) = IF ~IsValue(as)[k] /\ t.kind = "flag" /\ t.flag \in Waiters
                     THEN t.flag ELSE "" BY <1>0 DEF Waits
<1> HIDE DEF t, e, w, d
<1>8. d.failure = NoFailure BY DEF d, t
<1>9. CASE IsValue(as)[k]
  <2>1. Gives(e, d, w, t.value) BY <1>1, <1>2, <1>3, <1>4, <1>8, <1>9, AsValueEffect
  <2>2. /\ e.failure = NoFailure /\ Plainly(e, d) /\ d.waiting = ""
        /\ \A h \in Ours : d.val[h] = IF h = w THEN Put(c.val[h], h, t.value) ELSE c.val[h]
        /\ w \in {Runtime, "--share-skills"} => t.value # ""
    BY <1>2, <1>8, <2>1 DEF Gives
  <2>3. Records(as, k, c, d) BY <1>6, <1>9, <2>2 DEF Records, t
  <2> QED BY <1>2, <1>7, <1>9, <2>2, <2>3 DEF Plainly, d, t
<1>10. CASE ~IsValue(as)[k]
  <2>1. d = Arm(e, t) BY <1>1, <1>2, <1>3, <1>4, <1>8, <1>10, AsValueEffect
  <2>2. CASE t.kind = "flag"
    <3>1. Quiet(e, d, Waits(as, k)) BY <1>1, <1>2, <1>7, <1>10, <2>1, <2>2, ArmEffect
    <3>2. /\ e.failure = NoFailure /\ Plainly(e, d) /\ d.waiting = Waits(as, k)
          /\ \A h \in Ours : d.val[h] = c.val[h]
      BY <1>2, <1>8, <3>1 DEF Quiet
    <3>3. Records(as, k, c, d) BY <1>6, <1>10, <2>2, <3>2 DEF Records
    <3> QED BY <1>2, <3>2, <3>3 DEF Plainly, d, t
  <2>3. CASE t.kind = "inline"
    <3>1. Gives(e, d, t.flag, t.value) BY <1>1, <1>2, <2>1, <2>3, ArmEffect
    <3>2. /\ e.failure = NoFailure /\ Plainly(e, d) /\ d.waiting = ""
          /\ \A h \in Ours : d.val[h] = IF h = t.flag THEN Put(c.val[h], h, t.value) ELSE c.val[h]
          /\ t.flag \in {Runtime, "--share-skills"} => t.value # ""
      BY <1>2, <1>8, <3>1 DEF Gives
    <3>3. Records(as, k, c, d) BY <1>6, <1>10, <2>3, <3>2 DEF Records, t
    <3> QED BY <1>2, <1>7, <2>3, <3>2, <3>3 DEF Plainly, d, t
  <2> QED BY <1>5, <1>10, <2>2, <2>3
<1> QED BY <1>9, <1>10

\* The token that ends the flags.
LEMMA EndStep ==
  ASSUME NEW as \in Seq(Token), NEW k \in 1..Len(as), k = Boundary(as),
         NEW c \in Cfg, ~c.ended, c.waiting = Waits(as, k - 1),
         Scan(c, as[k]).failure = NoFailure
  PROVE LET d == Scan(c, as[k]) IN
        /\ c.failure = NoFailure /\ d.ended /\ d.waiting = "" /\ d.val = c.val
        /\ as[k].kind \in {"word", "separator"}
        /\ d.command = IF as[k].kind = "word" THEN <<as[k]>> ELSE c.command
<1> DEFINE t == as[k]  e == [c EXCEPT !.waiting = ""]  w == c.waiting  d == Scan(c, t)
<1>1. t \in Token BY ElementOfSeq
<1>2. /\ e \in Cfg /\ e.waiting = "" /\ w \in Waiters \cup {""}
      /\ e.failure = c.failure /\ e.val = c.val /\ e.command = c.command
  BY DEF Cfg
<1>3. d = IF w # "" THEN AsValue(e, w, t) ELSE Arm(e, t)
  <2>1. w = "" => e = c BY DEF Cfg
  <2> QED BY <2>1 DEF Scan
<1>4. IsValue(as)[k] <=> w # "" /\ TakesFor(w, t) BY WaitsTakes
<1>5. ~IsValue(as)[k] /\ t.kind \in {"word", "separator"}
  <2>1. k <= Len(as)
    <3>1. Len(as) \in Nat BY LenProperties
    <3> QED BY <3>1, AtMost
  <2> QED BY <2>1, BoundaryIs
<1> HIDE DEF t, e, w, d
<1>6. d.failure = NoFailure BY DEF d, t
<1>7. d = Arm(e, t) BY <1>1, <1>2, <1>3, <1>4, <1>5, <1>6, AsValueEffect
<1>8. Ends(e, d, t) BY <1>1, <1>2, <1>5, <1>7, ArmEffect
<1> QED BY <1>2, <1>5, <1>6, <1>8 DEF Ends, Alike, d, t

\* A token of the command.
LEMMA CommandStep ==
  ASSUME NEW t \in Token, NEW c \in Cfg, c.ended, Scan(c, t).failure = NoFailure
  PROVE LET d == Scan(c, t) IN
        /\ c.failure = NoFailure /\ d.ended /\ d.waiting = c.waiting /\ d.val = c.val
        /\ d.command = Append(c.command, t)
<1>1. Scan(c, t) = InCommand(c, t) BY DEF Scan
<1> QED BY <1>1, InCommandEffect DEF Alike

\* What is kept of the values given for h: all of a list, else the last.
Kept(h, vs) == IF h \in Lists THEN vs ELSE IF vs = <<>> THEN <<>> ELSE <<Last(vs)>>
Filled(h, vs) == h \in {Runtime, "--share-skills"} /\ vs # <<>> => Last(vs) # ""

\* A value more, among those given and among those kept.
LEMMA KeptPut ==
  ASSUME NEW vs \in Seq(Text), NEW v \in Text, NEW h
  PROVE /\ Put(Kept(h, vs), h, v) = Kept(h, Append(vs, v))
        /\ Filled(h, Append(vs, v)) <=> (h \in {Runtime, "--share-skills"} => v # "")
<1>1. Append(vs, v) # <<>> /\ Last(Append(vs, v)) = v BY AppendProperties DEF Last
<1> QED BY <1>1 DEF Put, Kept, Filled

\* Where the command begins.
Begins(as) ==
  IF Boundary(as) <= Len(as) /\ as[Boundary(as)] = Separator THEN Boundary(as) + 1 ELSE Boundary(as)

\* The configuration c after k tokens, if nothing failed; vs are the values for h.
Scanned(as, h, k, c, vs) ==
  c.failure = NoFailure =>
    /\ c.ended <=> k >= Boundary(as)
    /\ c.waiting = IF k < Boundary(as) THEN Waits(as, k) ELSE ""
    /\ c.command = IF k < Boundary(as) THEN <<>> ELSE SubSeq(as, Begins(as), k)
    /\ k < Boundary(as) => ~c.separator
    /\ c.val[h] = Kept(h, vs) /\ Filled(h, vs)

\* One token before the command.
LEMMA ScannedFlag ==
  ASSUME NEW as \in Seq(Token), NEW h \in Ours, NEW k \in 1..Len(as), k < Boundary(as),
         NEW c \in Cfg, NEW vs \in Seq(Text), Scanned(as, h, k - 1, c, vs)
  PROVE Scanned(as, h, k, Scan(c, as[k]),
                IF Names(as, h, k) THEN Append(vs, as[k].value) ELSE vs)
<1> DEFINE b == Boundary(as)  n == Len(as)  d == Scan(c, as[k])
           us == IF Names(as, h, k) THEN Append(vs, as[k].value) ELSE vs
<1> SUFFICES ASSUME d.failure = NoFailure PROVE Scanned(as, h, k, d, us)
  BY DEF Scanned
<1>1. n \in Nat /\ b \in 1..n + 1 /\ k \in 1..n /\ k < b BY LenProperties, BoundaryIs
<1>2. as[k] \in Token /\ as[k].value \in Text BY ElementOfSeq, TokenType
<1>3. c.failure = NoFailure BY <1>2, ScanType
<1> HIDE DEF b, n
<1>4. k - 1 < b /\ ~(k >= b) /\ ~(k - 1 >= b) BY <1>1
<1>5. /\ ~c.ended /\ c.waiting = Waits(as, k - 1) /\ c.command = <<>> /\ ~c.separator
      /\ c.val[h] = Kept(h, vs) /\ Filled(h, vs)
  BY <1>3, <1>4 DEF Scanned, b
<1>6. /\ ~d.ended /\ d.command = c.command /\ d.waiting = Waits(as, k) /\ Records(as, k, c, d)
      /\ d.separator = c.separator
  BY <1>5, FlagStep
<1> HIDE DEF d
<1>7. d.val[h] = Kept(h, us) /\ Filled(h, us)
  <2>1. CASE Names(as, h, k)
    <3>1. us = Append(vs, as[k].value) BY <2>1
    <3> HIDE DEF us
    <3>2. /\ d.val[h] = Put(c.val[h], h, as[k].value)
          /\ h \in {Runtime, "--share-skills"} => as[k].value # ""
      BY <1>6, <2>1 DEF Records
    <3>3. /\ Put(Kept(h, vs), h, as[k].value) = Kept(h, Append(vs, as[k].value))
          /\ Filled(h, Append(vs, as[k].value))
      BY <1>2, <3>2, KeptPut
    <3> QED BY <1>5, <3>1, <3>2, <3>3
  <2>2. CASE ~Names(as, h, k) BY <1>5, <1>6, <2>2 DEF Records
  <2> QED BY <2>1, <2>2
<1> HIDE DEF us
<1> QED BY <1>1, <1>4, <1>5, <1>6, <1>7 DEF Scanned, b

\* The token that ends the flags.
LEMMA ScannedEnd ==
  ASSUME NEW as \in Seq(Token), NEW h \in Ours, NEW k \in 1..Len(as), k = Boundary(as),
         NEW c \in Cfg, NEW vs \in Seq(Text), Scanned(as, h, k - 1, c, vs)
  PROVE Scanned(as, h, k, Scan(c, as[k]), vs)
<1> DEFINE b == Boundary(as)  n == Len(as)  d == Scan(c, as[k])
<1> SUFFICES ASSUME d.failure = NoFailure PROVE Scanned(as, h, k, d, vs) BY DEF Scanned
<1>1. n \in Nat /\ k \in 1..n /\ k = b BY LenProperties
<1>2. as[k] \in Token BY ElementOfSeq
<1>3. c.failure = NoFailure BY <1>2, ScanType
<1> HIDE DEF b, n
<1>4. k - 1 < b /\ k >= b /\ ~(k < b) /\ ~(k - 1 >= b) /\ k <= n /\ k \in k..n /\ k - 1 < k /\ k < k + 1
  BY <1>1
<1>5. /\ ~c.ended /\ c.waiting = Waits(as, k - 1) /\ c.command = <<>>
      /\ c.val[h] = Kept(h, vs) /\ Filled(h, vs)
  BY <1>3, <1>4 DEF Scanned, b
<1>6. /\ d.ended /\ d.waiting = "" /\ d.val = c.val /\ as[k].kind \in {"word", "separator"}
      /\ d.command = IF as[k].kind = "word" THEN <<as[k]>> ELSE c.command
  BY <1>5, EndStep, ZenonT(60)
<1> HIDE DEF d
<1>7. d.command = SubSeq(as, Begins(as), k)
  <2>1. CASE as[k].kind = "word"
    <3>0. Separator.kind = "separator" BY DEF Separator
    <3>1. as[k] # Separator BY <2>1, <3>0
    <3>2. Begins(as) = k BY <1>1, <1>4, <3>1 DEF Begins, b, n
    <3>3. SubSeq(as, k, k) = SubSeq(as, k, k - 1) \o <<as[k]>>
      BY <1>4, SubSeqRecursiveSecond DEF n
    <3>4. SubSeq(as, k, k - 1) = <<>> BY <1>1, <1>4, SubSeqEmpty
    <3>5. <<>> \o <<as[k]>> = <<as[k]>> BY <1>2, Alone, ConcatEmptySeq
    <3> QED BY <1>6, <2>1, <3>2, <3>3, <3>4, <3>5
  <2>2. CASE as[k].kind = "separator"
    <3>1. as[k] = Separator BY <1>2, <2>2 DEF Token
    <3>2. Begins(as) = k + 1 BY <1>1, <1>4, <3>1 DEF Begins, b, n
    <3>3. SubSeq(as, k + 1, k) = <<>> BY <1>1, <1>4, SubSeqEmpty
    <3> QED BY <1>5, <1>6, <2>2, <3>2, <3>3
  <2> QED BY <1>6, <2>1, <2>2
<1> QED BY <1>4, <1>5, <1>6, <1>7 DEF Scanned, b

\* One token of the command.
LEMMA ScannedCommand ==
  ASSUME NEW as \in Seq(Token), NEW h \in Ours, NEW k \in 1..Len(as), k > Boundary(as),
         NEW c \in Cfg, NEW vs \in Seq(Text), Scanned(as, h, k - 1, c, vs)
  PROVE Scanned(as, h, k, Scan(c, as[k]), vs)
<1> DEFINE b == Boundary(as)  n == Len(as)  d == Scan(c, as[k])  m == Begins(as)
<1> SUFFICES ASSUME d.failure = NoFailure PROVE Scanned(as, h, k, d, vs) BY DEF Scanned
<1>1. n \in Nat /\ k \in 1..n /\ k > b /\ b \in 1..n + 1 BY LenProperties, BoundaryIs
<1>2. as[k] \in Token BY ElementOfSeq
<1>3. c.failure = NoFailure BY <1>2, ScanType
<1>8. m = b \/ m = b + 1 BY DEF Begins
<1> HIDE DEF b, n, m
<1>4. ~(k - 1 < b) /\ k >= b /\ ~(k < b) /\ k - 1 >= b /\ m \in 1..n /\ k \in m..n
  BY <1>1, <1>8
<1>5. /\ c.ended /\ c.waiting = "" /\ c.command = SubSeq(as, m, k - 1)
      /\ c.val[h] = Kept(h, vs) /\ Filled(h, vs)
  BY <1>3, <1>4 DEF Scanned, b, m
<1>6. /\ d.ended /\ d.waiting = c.waiting /\ d.val = c.val /\ d.command = Append(c.command, as[k])
  BY <1>2, <1>5, CommandStep
<1> HIDE DEF d
<1>7. d.command = SubSeq(as, m, k)
  <2>1. SubSeq(as, m, k) = SubSeq(as, m, k - 1) \o <<as[k]>> BY <1>4, SubSeqRecursiveSecond DEF n
  <2>2. c.command \in Seq(Token) BY DEF Cfg
  <2>3. Append(c.command, as[k]) = c.command \o <<as[k]>> BY <1>2, <2>2, AppendIsConcat
  <2> QED BY <1>5, <1>6, <2>1, <2>3
<1> QED BY <1>4, <1>5, <1>6, <1>7 DEF Scanned, b, m

\* The flags among the first k tokens.
Flagged(as, k) == IF k < Boundary(as) THEN k ELSE Boundary(as) - 1

\* f are the configurations of the scan, w the values for h.
ScanRun(f, w, as, h) ==
  /\ f \in [0..Len(as) -> Cfg] /\ f[0] = Blank /\ f[Len(as)] = FoldLeft(Scan, Blank, as)
  /\ \A k \in 1..Len(as) : f[k] = Scan(f[k - 1], as[k])
  /\ ValuesRun(w, as, h)
  /\ \A k \in 0..Len(as) : Scanned(as, h, k, f[k], w[Flagged(as, k)])

\* The configurations of the scan, token by token.
LEMMA ScanStates ==
  ASSUME NEW as \in Seq(Token), NEW h \in Ours PROVE \E f, w : ScanRun(f, w, as, h)
<1> DEFINE n == Len(as)  b == Boundary(as)
           m(k) == IF k < b THEN k ELSE b - 1
<1>1. n \in Nat /\ b \in 1..n + 1 BY LenProperties, BoundaryIs
<1>2. PICK f \in [0..n -> Cfg] :
        /\ f[0] = Blank /\ f[n] = FoldLeft(Scan, Blank, as)
        /\ \A k \in 1..n : f[k] = Scan(f[k - 1], as[k])
  BY ScanFold
<1>11. PICK w : ValuesRun(w, as, h) BY ValuesFold
<1>3. /\ w \in [0..b - 1 -> Seq(Text)] /\ w[0] = <<>> /\ w[b - 1] = ValuesGiven(as, h)
      /\ \A k \in 1..b - 1 :
           w[k] = IF Names(as, h, k) THEN Append(w[k - 1], as[k].value) ELSE w[k - 1]
  BY <1>11 DEF ValuesRun
<1> HIDE DEF n, b
<1> DEFINE S == {k \in 0..n : Scanned(as, h, k, f[k], w[m(k)])}
<1>4. 0 \in S
  <2>1. 0 < b /\ ~(0 >= b) /\ 0 \in 0..n /\ m(0) = 0 BY <1>1
  <2>2. Waits(as, 0) = "" BY DEF Waits
  <2>3. h \in Valued BY OursFlags
  <2>4. /\ ~Blank.ended /\ Blank.waiting = "" /\ Blank.command = <<>> /\ Blank.val[h] = <<>>
        /\ ~Blank.separator
    BY <2>3 DEF Blank
  <2>5. Kept(h, <<>>) = <<>> /\ Filled(h, <<>>) BY DEF Kept, Filled
  <2>6. Scanned(as, h, 0, Blank, <<>>) BY <2>1, <2>2, <2>4, <2>5 DEF Scanned, b
  <2> QED BY <1>2, <1>3, <2>1, <2>6
<1>5. ASSUME NEW k \in 1..n, k - 1 \in S PROVE k \in S
  <2>1. f[k] = Scan(f[k - 1], as[k]) /\ f[k - 1] \in Cfg /\ k \in 0..n
    <3>1. k - 1 \in 0..n /\ k \in 0..n BY <1>1
    <3> QED BY <1>2, <3>1
  <2>2. Scanned(as, h, k - 1, f[k - 1], w[m(k - 1)]) BY <1>5
  <2>3. CASE k < b
    <3>1. m(k) = k /\ m(k - 1) = k - 1 /\ k \in 1..b - 1 /\ k - 1 \in 0..b - 1 BY <1>1, <2>3
    <3> HIDE DEF m
    <3>2. w[k - 1] \in Seq(Text) BY <1>3, <3>1
    <3>3. w[k] = IF Names(as, h, k) THEN Append(w[k - 1], as[k].value) ELSE w[k - 1] BY <1>3, <3>1
    <3>4. Scanned(as, h, k, f[k], w[k]) BY <2>1, <2>2, <2>3, <3>1, <3>2, <3>3, ScannedFlag DEF n, b
    <3> QED BY <2>1, <3>1, <3>4
  <2>4. CASE k = b
    <3>1. m(k) = b - 1 /\ m(k - 1) = b - 1 /\ b - 1 \in 0..b - 1 BY <1>1, <2>4
    <3> HIDE DEF m
    <3>2. w[b - 1] \in Seq(Text) BY <1>3, <3>1
    <3>3. Scanned(as, h, k, f[k], w[b - 1]) BY <2>1, <2>2, <2>4, <3>1, <3>2, ScannedEnd DEF n, b
    <3> QED BY <2>1, <3>1, <3>3
  <2>5. CASE k > b
    <3>1. m(k) = b - 1 /\ m(k - 1) = b - 1 /\ b - 1 \in 0..b - 1 BY <1>1, <2>5
    <3> HIDE DEF m
    <3>2. w[b - 1] \in Seq(Text) BY <1>3, <3>1
    <3>3. Scanned(as, h, k, f[k], w[b - 1]) BY <2>1, <2>2, <2>5, <3>1, <3>2, ScannedCommand DEF n, b
    <3> QED BY <2>1, <3>1, <3>3
  <2>6. k < b \/ k = b \/ k > b
    <3>1. k \in Nat BY <1>1, AtMost
    <3> QED BY <1>1, <3>1
  <2> QED BY <2>3, <2>4, <2>5, <2>6
<1>6. \A k \in 0..n : Scanned(as, h, k, f[k], w[m(k)])
  <2> HIDE DEF S
  <2>1. \A k \in 0..n : k \in S BY <1>1, <1>4, <1>5, Climb
  <2> QED BY <2>1 DEF S
<1>7. \A k : m(k) = Flagged(as, k) BY DEF Flagged, b
<1> HIDE DEF m
<1>8. \A k \in 0..n : Scanned(as, h, k, f[k], w[Flagged(as, k)]) BY <1>6, <1>7
<1> QED BY <1>2, <1>8, <1>11 DEF ScanRun, n

\* The configuration when the tokens are used up.
LEMMA ScanEnds ==
  ASSUME NEW as \in Seq(Token), NEW h \in Ours
  PROVE LET c == FoldLeft(Scan, Blank, as)   vs == ValuesGiven(as, h) IN
        /\ c \in Cfg
        /\ c.failure = NoFailure =>
             c.command = CommandGiven(as) /\ c.val[h] = Kept(h, vs) /\ Filled(h, vs)
<1> DEFINE n == Len(as)  b == Boundary(as)
<1>1. n \in Nat /\ b \in 1..n + 1 BY LenProperties, BoundaryIs
<1>2. PICK f, w : ScanRun(f, w, as, h) BY ScanStates
<1>3. w[b - 1] = ValuesGiven(as, h) BY <1>2 DEF ScanRun, ValuesRun
<1>7. Flagged(as, n) = b - 1
  <2> HIDE DEF n, b
  <2>1. n < b => n = b - 1 BY <1>1
  <2> QED BY <2>1 DEF Flagged, b
<1>4. n \in 0..n
  <2> HIDE DEF n
  <2> QED BY <1>1
<1>6. Scanned(as, h, n, f[n], w[b - 1]) /\ f[n] \in Cfg /\ f[n] = FoldLeft(Scan, Blank, as)
  BY <1>2, <1>4, <1>7 DEF ScanRun
<1> HIDE DEF n, b
<1>8. ASSUME f[n].failure = NoFailure PROVE f[n].command = CommandGiven(as)
  <2>1. CommandGiven(as) = SubSeq(as, Begins(as), n) BY DEF CommandGiven, Begins, n
  <2>2. CASE n < b
    <3>1. b = n + 1 /\ ~(b <= n) BY <1>1, <2>2
    <3>2. Begins(as) = n + 1 BY <3>1 DEF Begins, b, n
    <3>3. SubSeq(as, n + 1, n) = <<>> BY <1>1, SubSeqEmpty
    <3> QED BY <1>6, <1>8, <2>1, <2>2, <3>2, <3>3 DEF Scanned, b
  <2>3. CASE ~(n < b) BY <1>6, <1>8, <2>1, <2>3 DEF Scanned, b
  <2> QED BY <2>2, <2>3
<1> QED BY <1>3, <1>6, <1>8 DEF Scanned

\* A command line without a failure: the command as given, and of our flags
\* the values as given.
LEMMA ParseMeans ==
  ASSUME NEW as \in Seq(Token), Parse(as).failure = NoFailure
  PROVE /\ Parse(as).command = CommandGiven(as)
        /\ \A h \in Ours : /\ Parse(as).val[h] = Kept(h, ValuesGiven(as, h))
                           /\ Filled(h, ValuesGiven(as, h))
<1> DEFINE c == FoldLeft(Scan, Blank, as)
<1>1. Parse(as) = IF c.waiting \in Required \cup {Runtime} THEN Failed(c, "required-value") ELSE c
  BY DEF Parse
<1>2. \A h \in Ours :
        /\ c \in Cfg
        /\ c.failure = NoFailure =>
             /\ c.command = CommandGiven(as) /\ c.val[h] = Kept(h, ValuesGiven(as, h))
             /\ Filled(h, ValuesGiven(as, h))
  BY ScanEnds
<1> HIDE DEF c
<1>3. "--env" \in Ours /\ "required-value" \in Kinds BY DEF Ours, Kinds
<1>4. c \in Cfg BY <1>2, <1>3
<1>5. Parse(as) = c BY <1>1, <1>3, <1>4, FailedEffect
<1> QED BY <1>2, <1>3, <1>5

\* The values given are text.
LEMMA ValuesType ==
  ASSUME NEW as \in Seq(Token), NEW f PROVE ValuesGiven(as, f) \in Seq(Text)
<1> DEFINE b == Boundary(as)
<1>3. PICK w : ValuesRun(w, as, f) BY ValuesFold
<1>1. w \in [0..b - 1 -> Seq(Text)] /\ w[b - 1] = ValuesGiven(as, f) BY <1>3 DEF ValuesRun
<1>2. b - 1 \in 0..b - 1
  <2> DEFINE l == Len(as)
  <2>1. l \in Nat BY LenProperties
  <2>2. b \in 1..l + 1 BY BoundaryIs
  <2> HIDE DEF b, l
  <2> QED BY <2>1, <2>2
<1> QED BY <1>1, <1>2
----------------------------------------------------------------------------
(* Validation.                                                             *)

\* The least of a set is one of it.
LEMMA MinIn ==
  ASSUME NEW S \in SUBSET Nat, S # {} PROVE Min(S) \in S
BY Least DEF Min

\* A call is refused for a complaint.
LEMMA RefusedMeans ==
  ASSUME NEW c, ~c.help
  PROVE Refused(c) <=> \E i \in 1..14 : Complaints(c, IllFormedSessions)[i][1]
<1> DEFINE all == Complaints(c, IllFormedSessions)
           found == {i \in DOMAIN all : all[i][1]}
<1>1. DOMAIN all = 1..14 BY DEF Complaints
<1>2. ASSUME NEW i \in 1..14, all[i][1] PROVE all[i][2] # NoFailure
  <2>1. all[1][1] <=> all[1][2] # NoFailure BY DEF Complaints
  <2>2. /\ all[2][2] # NoFailure /\ all[3][2] # NoFailure /\ all[4][2] # NoFailure
        /\ all[5][2] # NoFailure /\ all[6][2] # NoFailure /\ all[7][2] # NoFailure
        /\ all[8][2] # NoFailure /\ all[9][2] # NoFailure /\ all[10][2] # NoFailure
        /\ all[11][2] # NoFailure /\ all[12][2] # NoFailure /\ all[13][2] # NoFailure
        /\ all[14][2] # NoFailure
    BY DEF Complaints, NoFailure
  <2> HIDE DEF all
  <2> QED BY <1>2, <2>1, <2>2
<1>3. Validate(c, IllFormedSessions) = IF found = {} THEN NoFailure ELSE all[Min(found)][2]
  BY DEF Validate
<1> HIDE DEF all
<1>4. ASSUME found # {} PROVE all[Min(found)][2] # NoFailure
  <2>1. \A i \in found : i \in 1..14 /\ all[i][1] BY <1>1
  <2>2. Min(found) \in found
    <3> HIDE DEF found
    <3>1. found \in SUBSET Nat BY <2>1
    <3> QED BY <1>4, <3>1, MinIn
  <2> QED BY <1>2, <2>1, <2>2
<1>5. found # {} <=> \E i \in 1..14 : all[i][1] BY <1>1
<1> QED BY <1>3, <1>4, <1>5 DEF Refused, all

\* The call goes on only without any of the complaints about the command.
LEMMA ValidateMeans ==
  ASSUME NEW c, ~Refused(c), ~c.help
  PROVE /\ c.failure = NoFailure
        /\ ~(c.command # <<>> /\ IsOn(c, "--shell"))
        /\ ~(c.command # <<>> /\ RebuildMode(c) # "none")
        /\ ~(c.command # <<>> /\ IsOn(c, "--zellij") /\ IsOn(c, "--attach"))
<1> DEFINE all == Complaints(c, IllFormedSessions)
<1>1. \A i \in 1..14 : ~all[i][1] BY RefusedMeans
<1>2. /\ all[1][1] <=> c.failure # NoFailure
      /\ all[10][1] <=> c.command # <<>> /\ IsOn(c, "--shell")
      /\ all[11][1] <=> c.command # <<>> /\ RebuildMode(c) # "none"
      /\ all[12][1] <=> c.command # <<>> /\ IsOn(c, "--zellij") /\ IsOn(c, "--attach")
  BY DEF Complaints
<1> HIDE DEF all
<1>3. ~all[1][1] /\ ~all[10][1] /\ ~all[11][1] /\ ~all[12][1] BY <1>1
<1> QED BY <1>2, <1>3
----------------------------------------------------------------------------
(* The command and the flags before it.                                    *)

\* The flags by themselves are scanned as they are before a command.
LEMMA SameScan ==
  ASSUME NEW as \in Seq(Token), Boundary(as) <= Len(as),
         NEW f \in [0..Len(as) -> Cfg], f[0] = Blank,
         \A k \in 1..Len(as) : f[k] = Scan(f[k - 1], as[k])
  PROVE FoldLeft(Scan, Blank, SubSeq(as, 1, Boundary(as) - 1)) = f[Boundary(as) - 1]
<1> DEFINE n == Len(as)  b == Boundary(as)  m == b - 1  flags == SubSeq(as, 1, m)
<1>1. n \in Nat /\ b \in 1..n + 1 /\ b <= n BY LenProperties, BoundaryIs
<1>6. \A k \in 1..n : f[k] = Scan(f[k - 1], as[k]) OBVIOUS
<1> HIDE DEF n, b
<1>2. m \in 0..n - 1 /\ \A k \in 1..m : k \in 1..n /\ k \in 0..m /\ k - 1 \in 0..m BY <1>1
<1> HIDE DEF m
<1>3. flags \in Seq(Token) /\ Len(flags) = m /\ \A k \in 1..m : flags[k] = as[k]
  <2>1. ASSUME NEW k \in 1..m PROVE as[k] \in Token BY <1>2, ElementOfSeq DEF n
  <2>2. flags = [i \in 1..m |-> as[i]] BY <1>1, <1>2 DEF n
  <2>3. flags \in [1..m -> Token] BY <2>1, <2>2
  <2>4. m \in Nat BY <1>1, <1>2
  <2> HIDE DEF flags
  <2>5. flags \in Seq(Token) BY <2>3, <2>4
  <2>6. Len(flags) = m BY <2>2, <2>4
  <2> QED BY <2>2, <2>5, <2>6
<1> HIDE DEF flags
<1>4. PICK g \in [0..m -> Cfg] :
        /\ g[0] = Blank /\ g[m] = FoldLeft(Scan, Blank, flags)
        /\ \A k \in 1..m : g[k] = Scan(g[k - 1], flags[k])
  <2>1. \E g \in [0..Len(flags) -> Cfg] :
          /\ g[0] = Blank /\ g[Len(flags)] = FoldLeft(Scan, Blank, flags)
          /\ \A k \in 1..Len(flags) : g[k] = Scan(g[k - 1], flags[k])
    BY <1>3, ScanFold
  <2> QED BY <1>3, <2>1
<1> DEFINE S == {k \in 0..m : g[k] = f[k]}
<1>5. \A k \in 0..m : k \in S
  <2>1. m \in Nat /\ 0 \in 0..m BY <1>1, <1>2
  <2>2. 0 \in S BY <1>4, <2>1
  <2>3. ASSUME NEW k \in 1..m, k - 1 \in S PROVE k \in S
    <3>1. k \in 1..n /\ k \in 0..m BY <1>2
    <3>2. g[k] = Scan(g[k - 1], as[k]) BY <1>3, <1>4
    <3>3. f[k] = Scan(f[k - 1], as[k]) BY <1>6, <3>1
    <3>4. g[k - 1] = f[k - 1] BY <2>3
    <3> QED BY <3>1, <3>2, <3>3, <3>4
  <2> HIDE DEF S
  <2> QED BY <2>1, <2>2, <2>3, Climb
<1>7. m \in 0..m BY <1>1, <1>2
<1>8. g[m] = f[m] BY <1>5, <1>7
<1> QED BY <1>4, <1>8 DEF flags, m, b

\* The token that ends the flags, when none needs it for its value.
LEMMA EndArm ==
  ASSUME NEW as \in Seq(Token), NEW k \in 1..Len(as), k = Boundary(as),
         NEW c \in Cfg, ~c.ended, c.waiting = Waits(as, k - 1),
         c.waiting \notin Required \cup {Runtime}
  PROVE /\ as[k].kind \in {"word", "separator"}
        /\ Ends([c EXCEPT !.waiting = ""], Scan(c, as[k]), as[k])
<1> DEFINE t == as[k]  e == [c EXCEPT !.waiting = ""]  w == c.waiting  d == Scan(c, t)
<1>1. t \in Token BY ElementOfSeq
<1>2. e \in Cfg /\ e.waiting = "" /\ w \in Waiters \cup {""} BY DEF Cfg
<1>3. d = IF w # "" THEN AsValue(e, w, t) ELSE Arm(e, t)
  <2>1. w = "" => e = c BY DEF Cfg
  <2> QED BY <2>1 DEF Scan
<1>4. IsValue(as)[k] <=> w # "" /\ TakesFor(w, t) BY WaitsTakes
<1>5. ~IsValue(as)[k] /\ t.kind \in {"word", "separator"}
  <2>1. k <= Len(as)
    <3>1. Len(as) \in Nat BY LenProperties
    <3> QED BY <3>1, AtMost
  <2> QED BY <2>1, BoundaryIs
<1>6. w = "" \/ w \in Optional \/ w = "--tool" BY <1>2 DEF Waiters
<1> HIDE DEF t, e, w, d
<1>7. d = Arm(e, t)
  <2>1. CASE w = "" BY <1>3, <2>1
  <2>2. CASE w # ""
    <3>1. ~TakesFor(w, t) BY <1>4, <1>5, <2>2
    <3>2. w # "--tool" /\ w \in Optional BY <1>6, <2>2, <3>1 DEF TakesFor
    <3>3. Dashed(t) \/ t.value = "" BY <3>1, <3>2 DEF TakesFor
    <3>4. AsValue(e, w, t) = Arm(e, t) BY <3>2, <3>3, Flags DEF AsValue
    <3> QED BY <1>3, <2>2, <3>4
  <2> QED BY <2>1, <2>2
<1>8. Ends(e, Arm(e, t), t) BY <1>1, <1>2, <1>5, ArmEffect
<1> QED BY <1>5, <1>7, <1>8 DEF t, e, d

\* The configuration d after k tokens, the command begun; e is that of the flags.
InTail(as, e, k, d) ==
  /\ d \in Cfg /\ d.ended /\ d.waiting = "" /\ Alike(e, d)
  /\ d.separator <=> as[Boundary(as)] = Separator
  /\ d.command = SubSeq(as, Begins(as), k)
  /\ d.failure = NoFailure <=>
       ~(as[Boundary(as)] = Separator /\ k > Boundary(as) /\ Dashed(as[Boundary(as) + 1]))

\* It begins at the end of the flags.
LEMMA TailBegins ==
  ASSUME NEW as \in Seq(Token), Boundary(as) <= Len(as), NEW c \in Cfg, ~c.ended,
         c.waiting = Waits(as, Boundary(as) - 1), c.waiting \notin Required \cup {Runtime},
         c.failure = NoFailure, c.command = <<>>, ~c.separator
  PROVE InTail(as, c, Boundary(as), Scan(c, as[Boundary(as)]))
<1> DEFINE b == Boundary(as)  n == Len(as)  t == as[b]  e == [c EXCEPT !.waiting = ""]
           d == Scan(c, t)
<1>1. n \in Nat /\ b \in 1..n + 1 /\ b <= n BY LenProperties, BoundaryIs
<1>2. b \in 1..n
  <2> HIDE DEF b, n
  <2> QED BY <1>1
<1>3. t.kind \in {"word", "separator"} /\ Ends(e, d, t) BY <1>2, EndArm
<1>4. /\ e.failure = NoFailure /\ e.waiting = "" /\ e.command = <<>> /\ ~e.separator /\ Alike(c, e)
  BY DEF Cfg, Alike
<1>5. t \in Token BY <1>2, ElementOfSeq
<1>6. t.kind = "separator" <=> t = Separator
  <2>1. Separator.kind = "separator" BY DEF Separator
  <2>2. t.kind = "separator" => t = Separator BY <1>5 DEF Token
  <2> QED BY <2>1, <2>2
<1> HIDE DEF d, e, t
<1>7. /\ d \in Cfg /\ d.ended /\ d.waiting = "" /\ Alike(c, d) /\ d.failure = NoFailure
      /\ d.separator <=> t = Separator
      /\ d.command = IF t.kind = "word" THEN <<t>> ELSE <<>>
  BY <1>3, <1>4, <1>6 DEF Ends, Alike
<1> HIDE DEF b, n
<1>8. b \in Nat /\ b - 1 < b /\ ~(b > b) /\ b \in b..n /\ b < b + 1 /\ b \in Int /\ b - 1 \in Int
      /\ b + 1 \in Int
  BY <1>2
<1>9. d.command = SubSeq(as, Begins(as), b)
  <2>1. CASE t.kind = "word"
    <3>1. t # Separator /\ Begins(as) = b BY <1>6, <2>1 DEF Begins, b, t, Separator
    <3>2. SubSeq(as, b, b) = SubSeq(as, b, b - 1) \o <<t>> BY <1>2, <1>8, SubSeqRecursiveSecond DEF n, t
    <3>3. SubSeq(as, b, b - 1) = <<>> BY <1>8, SubSeqEmpty
    <3>4. <<>> \o <<t>> = <<t>> BY <1>5, Alone, ConcatEmptySeq
    <3> QED BY <1>7, <2>1, <3>1, <3>2, <3>3, <3>4
  <2>2. CASE t.kind = "separator"
    <3>1. Begins(as) = b + 1 BY <1>1, <1>6, <2>2 DEF Begins, b, t, n
    <3>2. SubSeq(as, b + 1, b) = <<>> BY <1>8, SubSeqEmpty
    <3> QED BY <1>7, <2>2, <3>1, <3>2
  <2> QED BY <1>3, <2>1, <2>2
<1> QED BY <1>7, <1>8, <1>9 DEF InTail, b, d, t

\* It goes on with every token of the command.
LEMMA TailGoesOn ==
  ASSUME NEW as \in Seq(Token), NEW k \in 1..Len(as), k > Boundary(as),
         NEW e \in Cfg, NEW c \in Cfg, InTail(as, e, k - 1, c)
  PROVE InTail(as, e, k, Scan(c, as[k]))
<1> DEFINE b == Boundary(as)  n == Len(as)  m == Begins(as)  t == as[k]  d == Scan(c, t)
           Bad == as[b] = Separator /\ Dashed(as[b + 1])
<1>1. n \in Nat /\ k \in 1..n /\ k > b /\ b \in 1..n + 1 BY LenProperties, BoundaryIs
<1>2. t \in Token BY ElementOfSeq
<1>3. Scan(c, t) = InCommand(c, t) BY DEF Scan, InTail
<1>4. /\ d \in Cfg /\ d.command = Append(c.command, t) /\ d.ended = c.ended
      /\ d.waiting = c.waiting /\ Alike(c, d) /\ d.separator = c.separator
      /\ d.failure = NoFailure <=> c.failure = NoFailure /\ ~(c.command = <<>> /\ Dashed(t))
  <2> HIDE DEF t
  <2>1. /\ InCommand(c, t) \in Cfg /\ InCommand(c, t).command = Append(c.command, t)
        /\ InCommand(c, t).ended = c.ended /\ InCommand(c, t).waiting = c.waiting
        /\ Alike(c, InCommand(c, t)) /\ InCommand(c, t).separator = c.separator
        /\ InCommand(c, t).failure = NoFailure <=>
             c.failure = NoFailure /\ ~(c.command = <<>> /\ Dashed(t))
    BY <1>2, InCommandEffect
  <2> QED BY <1>3, <2>1, Zenon
<1>5. /\ c.ended /\ c.waiting = "" /\ Alike(e, c) /\ (c.separator <=> as[b] = Separator)
      /\ c.command = SubSeq(as, m, k - 1)
      /\ c.failure = NoFailure <=> ~(k - 1 > b /\ Bad)
  BY DEF InTail
<1>6. m = IF as[b] = Separator THEN b + 1 ELSE b
  <2> HIDE DEF b, n
  <2>1. b <= n BY <1>1
  <2> QED BY <2>1 DEF Begins, b, n
<1> HIDE DEF b, n, m, d
<1>7. m \in 1..n /\ k \in m..n /\ m \in Nat /\ k \in Nat /\ b \in Nat
  <2>1. b \in Nat /\ k \in Nat /\ b >= 1 BY <1>1
  <2>2. m = b \/ m = b + 1 BY <1>6
  <2> QED BY <1>1, <2>1, <2>2
<1>8. d.command = SubSeq(as, m, k)
  <2>1. SubSeq(as, m, k) = SubSeq(as, m, k - 1) \o <<t>> BY <1>7, SubSeqRecursiveSecond DEF n
  <2>2. c.command \in Seq(Token) BY DEF Cfg
  <2>3. Append(c.command, t) = c.command \o <<t>> BY <1>2, <2>2, AppendIsConcat
  <2> QED BY <1>4, <1>5, <2>1, <2>3
<1>9. c.command = <<>> <=> k = m
  <2>1. CASE k = m
    <3>1. SubSeq(as, m, k - 1) = <<>>
      <4>1. k - 1 < m /\ m \in Int /\ k - 1 \in Int BY <1>7, <2>1
      <4> QED BY <4>1, SubSeqEmpty
    <3> QED BY <1>5, <2>1, <3>1
  <2>2. CASE k # m
    <3>1. k - 1 \in m..n /\ k - 1 - 1 \in Nat BY <1>1, <1>7, <2>2
    <3>2. SubSeq(as, m, k - 1) = SubSeq(as, m, k - 1 - 1) \o <<as[k - 1]>>
      BY <1>7, <3>1, SubSeqRecursiveSecond DEF n
    <3>3. Len(SubSeq(as, m, k - 1)) = k - 1 - m + 1 BY <1>7, <3>1 DEF n
    <3>4. k - 1 - m + 1 # 0 BY <1>7, <3>1
    <3>5. SubSeq(as, m, k - 1) # <<>> BY <3>3, <3>4
    <3> QED BY <1>5, <2>2, <3>5
  <2> QED BY <2>1, <2>2
<1>10. d.failure = NoFailure <=> ~(k > b /\ Bad)
  <2>1. CASE as[b] = Separator
    <3>1. m = b + 1 BY <1>6, <2>1
    <3>2. k = m <=> ~(k - 1 > b) BY <1>1, <1>7, <3>1
    <3>3. k = m => t = as[b + 1] BY <3>1
    <3> QED BY <1>1, <1>4, <1>5, <1>9, <2>1, <3>2, <3>3
  <2>2. CASE as[b] # Separator
    <3>1. m = b /\ k # m BY <1>1, <1>6, <1>7, <2>2
    <3> QED BY <1>4, <1>5, <1>9, <2>2, <3>1
  <2> QED BY <2>1, <2>2
<1> QED BY <1>4, <1>5, <1>8, <1>10 DEF InTail, Alike, b, d, m

\* What a command adds to flags that are right: itself, the separator before
\* it, and a failure where it begins with a flag after that.
LEMMA CommandAdds ==
  ASSUME NEW as \in Seq(Token), CommandGiven(as) # <<>>, FlagsAlone(as).failure = NoFailure
  PROVE /\ FlagsAlone(as) \in Cfg /\ FlagsAlone(as).command = <<>>
        /\ Alike(FlagsAlone(as), Parse(as)) /\ Parse(as).command = CommandGiven(as)
        /\ Parse(as).separator <=> as[Boundary(as)] = Separator
        /\ Parse(as).failure = NoFailure <=>
             ~(as[Boundary(as)] = Separator /\ Dashed(Head(CommandGiven(as))))
<1> DEFINE n == Len(as)  b == Boundary(as)  m == Begins(as)
           a == FoldLeft(Scan, Blank, SubSeq(as, 1, b - 1))
<1>1. n \in Nat /\ b \in 1..n + 1 BY LenProperties, BoundaryIs
<1>2. CommandGiven(as) = SubSeq(as, m, n) BY DEF CommandGiven, Begins
<1>3. b <= n
  <2>1. ASSUME ~(b <= n) PROVE FALSE
    <3>1. m = b BY <2>1 DEF Begins
    <3> HIDE DEF n, b, m
    <3>2. n < m /\ m \in Int /\ n \in Int BY <1>1, <2>1, <3>1
    <3>3. SubSeq(as, m, n) = <<>> BY <3>2, SubSeqEmpty
    <3> QED BY <1>2, <3>3
  <2> QED BY <2>1
<1>4. PICK f, w : ScanRun(f, w, as, "--env") BY ScanStates DEF Ours
<1>5. /\ f \in [0..n -> Cfg] /\ f[0] = Blank /\ f[n] = FoldLeft(Scan, Blank, as)
      /\ \A k \in 1..n : f[k] = Scan(f[k - 1], as[k])
      /\ \A k \in 0..n : Scanned(as, "--env", k, f[k], w[Flagged(as, k)])
  BY <1>4 DEF ScanRun
<1>6. a = f[b - 1] BY <1>3, <1>5, SameScan
<1> HIDE DEF n, b, m, a
<1>7. b - 1 \in 0..n /\ b \in 1..n /\ b - 1 < b /\ b \in Nat /\ b <= n BY <1>1, <1>3
<1>8. a \in Cfg BY <1>5, <1>6, <1>7
<1>9. a.waiting \notin Required \cup {Runtime} /\ FlagsAlone(as) = a
  <2>1. FlagsAlone(as) = IF a.waiting \in Required \cup {Runtime} THEN Failed(a, "required-value") ELSE a
    BY DEF FlagsAlone, Parse, a, b
  <2>2. "required-value" \in Kinds BY DEF Kinds
  <2>3. Failed(a, "required-value").failure # NoFailure BY <1>8, <2>2, FailedEffect
  <2> QED BY <2>1, <2>3
<1>10. a.failure = NoFailure BY <1>9
<1>11. /\ ~a.ended /\ a.waiting = Waits(as, b - 1) /\ a.command = <<>> /\ ~a.separator
  <2>1. Scanned(as, "--env", b - 1, a, w[Flagged(as, b - 1)]) BY <1>5, <1>6, <1>7
  <2>2. ~(b - 1 >= b) BY <1>7
  <2> QED BY <1>7, <1>10, <2>1, <2>2 DEF Scanned, b
<1> DEFINE S == {k \in 0..n : k >= b => InTail(as, a, k, f[k])}
<1>12. \A k \in 0..n : k \in S
  <2>1. 0 \in S
    <3>1. 0 \in 0..n /\ ~(0 >= b) BY <1>1
    <3> QED BY <3>1
  <2>2. ASSUME NEW k \in 1..n, k - 1 \in S PROVE k \in S
    <3>1. k \in 0..n /\ k - 1 \in 0..n /\ k \in Nat BY <1>1
    <3>2. f[k] = Scan(f[k - 1], as[k]) /\ f[k - 1] \in Cfg BY <1>5, <3>1
    <3>3. CASE k < b
      <4>1. ~(k >= b) BY <1>7, <3>1, <3>3
      <4> QED BY <3>1, <4>1
    <3>4. CASE k = b
      <4>1. InTail(as, a, b, Scan(a, as[b])) BY <1>7, <1>8, <1>9, <1>10, <1>11, TailBegins DEF b, n
      <4> QED BY <1>6, <3>1, <3>2, <3>4, <4>1
    <3>5. CASE k > b
      <4>1. k - 1 >= b BY <1>7, <3>1, <3>5
      <4>2. InTail(as, a, k - 1, f[k - 1]) BY <2>2, <4>1
      <4>3. InTail(as, a, k, Scan(f[k - 1], as[k])) BY <1>8, <3>2, <3>5, <4>2, TailGoesOn DEF b, n
      <4> QED BY <3>1, <3>2, <4>3
    <3>6. k < b \/ k = b \/ k > b BY <1>7, <3>1
    <3> QED BY <3>3, <3>4, <3>5, <3>6
  <2> HIDE DEF S
  <2> QED BY <1>1, <2>1, <2>2, Climb
<1>13. InTail(as, a, n, f[n])
  <2>1. n \in 0..n /\ n >= b BY <1>1, <1>7
  <2>2. n \in S BY <1>12, <2>1
  <2> QED BY <2>1, <2>2
<1>14. Parse(as) = f[n]
  <2>1. f[n].waiting = "" /\ "" \notin Required \cup {Runtime}
    BY <1>13, Flags DEF InTail
  <2> QED BY <1>5, <2>1 DEF Parse
<1>15. as[b] = Separator => n > b /\ Head(CommandGiven(as)) = as[b + 1]
  <2> SUFFICES ASSUME as[b] = Separator PROVE n > b /\ Head(CommandGiven(as)) = as[b + 1] OBVIOUS
  <2>1. m = b + 1 BY <1>3 DEF Begins, m, b, n
  <2>2. n > b
    <3> SUFFICES ASSUME ~(n > b) PROVE FALSE OBVIOUS
    <3>1. n < m /\ m \in Int /\ n \in Int BY <1>1, <1>7, <2>1
    <3>2. SubSeq(as, m, n) = <<>> BY <3>1, SubSeqEmpty
    <3> QED BY <1>2, <3>2
  <2>3. m \in 1..n /\ n \in m..n BY <1>1, <1>7, <2>1, <2>2
  <2>4. Head(SubSeq(as, m, n)) = as[m] BY <2>3, HeadTailOfSubSeq DEF n
  <2> QED BY <1>2, <2>1, <2>2, <2>4
<1>16. /\ Alike(a, Parse(as)) /\ Parse(as).command = CommandGiven(as)
       /\ Parse(as).separator <=> as[b] = Separator
       /\ Parse(as).failure = NoFailure <=> ~(as[b] = Separator /\ n > b /\ Dashed(as[b + 1]))
  BY <1>2, <1>13, <1>14 DEF InTail, b, m
<1> QED BY <1>8, <1>9, <1>11, <1>15, <1>16 DEF b

\* A call whose flags alone are right is refused for its command exactly where
\* that has no place.
LEMMA CommandPlace ==
  ASSUME NEW as \in Seq(Token), CommandGiven(as) # <<>>,
         ~FlagsAlone(as).help, ~Refused(FlagsAlone(as))
  PROVE Refused(Parse(as)) <=> NoPlaceForCommand(FlagsAlone(as), as)
<1> DEFINE a == FlagsAlone(as)  c == Parse(as)  t == as[Boundary(as)]
           As == Complaints(a, IllFormedSessions)  Cs == Complaints(c, IllFormedSessions)
           Dash == t = Separator /\ Dashed(Head(CommandGiven(as)))
<1>1. \A i \in 1..14 : ~As[i][1] BY RefusedMeans
<1>2. a.failure = NoFailure
  <2>1. As[1][1] <=> a.failure # NoFailure BY DEF Complaints
  <2> HIDE DEF As
  <2>2. ~As[1][1] BY <1>1
  <2> QED BY <2>1, <2>2
<1>3. /\ a.command = <<>> /\ Alike(a, c) /\ c.command = CommandGiven(as)
      /\ c.separator <=> t = Separator
      /\ c.failure = NoFailure <=> ~Dash
  BY <1>2, CommandAdds
<1> HIDE DEF a, c, t
<1>4. c.val = a.val /\ c.on = a.on /\ c.help = a.help /\ c.command # <<>> BY <1>3 DEF Alike
<1>5. \A f : IsOn(c, f) <=> IsOn(a, f) BY <1>4 DEF IsOn
<1>6. \A f : IsSet(c, f) <=> IsSet(a, f) BY <1>4 DEF IsSet
<1>7. \A f : Value(c, f) = Value(a, f) BY <1>4, <1>6 DEF Value
<1>8. RebuildMode(c) = RebuildMode(a) BY <1>6, <1>7 DEF RebuildMode
<1>9. \A i \in 2..9 \cup {14} : ~Cs[i][1]
  <2> DEFINE Xs(x) == Complaints(x, IllFormedSessions)
  <2>1. ASSUME NEW x
        PROVE /\ Xs(x)[2][1] <=> IsOn(x, "--new-session") /\ ~IsOn(x, "--zellij")
              /\ Xs(x)[3][1] <=> IsSet(x, "--session") /\ ~IsOn(x, "--zellij")
              /\ Xs(x)[4][1] <=> IsOn(x, "--zellij") /\ IsOn(x, "--attach") /\ IsOn(x, "--shell")
              /\ Xs(x)[5][1] <=> IsOn(x, "--zellij") /\ Value(x, "--attach") # ""
              /\ Xs(x)[6][1] <=> IsOn(x, "--attach") /\ Value(x, "--name") # ""
              /\ Xs(x)[7][1] <=> IsSet(x, "--session") /\ Value(x, "--session") = ""
              /\ Xs(x)[8][1] <=> IsSet(x, "--session") /\ Value(x, "--session") \in IllFormedSessions
              /\ Xs(x)[9][1] <=> IsOn(x, "--zellij") /\ IsOn(x, "--attach") /\ IsSet(x, "--env")
              /\ Xs(x)[14][1] <=> IsOn(x, "--no-layer") /\ (Value(x, "--layer") # "" \/ IsOn(x, "--build-layer"))
    BY DEF Complaints
  <2>2. As = Xs(a) /\ Cs = Xs(c) OBVIOUS
  <2> HIDE DEF As, Cs, Xs
  <2>3. ~Cs[2][1]
    <3>1. ~Xs(a)[2][1] BY <1>1, <2>2
    <3> QED BY <1>5, <2>1, <2>2, <3>1, Zenon
  <2>4. ~Cs[3][1]
    <3>1. ~Xs(a)[3][1] BY <1>1, <2>2
    <3> QED BY <1>5, <1>6, <1>7, <2>1, <2>2, <3>1, Zenon
  <2>5. ~Cs[4][1]
    <3>1. ~Xs(a)[4][1] BY <1>1, <2>2
    <3> QED BY <1>5, <1>6, <1>7, <2>1, <2>2, <3>1, Zenon
  <2>6. ~Cs[5][1]
    <3>1. ~Xs(a)[5][1] BY <1>1, <2>2
    <3> QED BY <1>5, <1>6, <1>7, <2>1, <2>2, <3>1, Zenon
  <2>7. ~Cs[6][1]
    <3>1. ~Xs(a)[6][1] BY <1>1, <2>2
    <3> QED BY <1>5, <1>6, <1>7, <2>1, <2>2, <3>1, Zenon
  <2>8. ~Cs[7][1]
    <3>1. ~Xs(a)[7][1] BY <1>1, <2>2
    <3> QED BY <1>5, <1>6, <1>7, <2>1, <2>2, <3>1, Zenon
  <2>9. ~Cs[8][1]
    <3>1. ~Xs(a)[8][1] BY <1>1, <2>2
    <3> QED BY <1>5, <1>6, <1>7, <2>1, <2>2, <3>1, Zenon
  <2>10. ~Cs[9][1]
    <3>1. ~Xs(a)[9][1] BY <1>1, <2>2
    <3> QED BY <1>5, <1>6, <1>7, <2>1, <2>2, <3>1, Zenon
  <2>11. ~Cs[14][1]
    <3>1. ~Xs(a)[14][1] BY <1>1, <2>2
    <3> QED BY <1>5, <1>7, <2>1, <2>2, <3>1, Zenon
  <2>12. \A i \in 2..9 \cup {14} : i \in {2, 3, 4, 5, 6, 7, 8, 9, 14} OBVIOUS
  <2> QED BY <2>3, <2>4, <2>5, <2>6, <2>7, <2>8, <2>9, <2>10, <2>11, <2>12
<1>10. /\ Cs[1][1] <=> c.failure # NoFailure
       /\ Cs[10][1] <=> c.command # <<>> /\ IsOn(c, "--shell")
       /\ Cs[11][1] <=> c.command # <<>> /\ RebuildMode(c) # "none"
       /\ Cs[12][1] <=> c.command # <<>> /\ IsOn(c, "--zellij") /\ IsOn(c, "--attach")
       /\ Cs[13][1] <=> c.command # <<>> /\ IsOn(c, "--attach") /\ ~c.separator
  BY DEF Complaints
<1>11. ~c.help BY <1>4 DEF a
<1>12. Refused(c) <=> \E i \in 1..14 : Cs[i][1] BY <1>11, RefusedMeans
<1> HIDE DEF As, Cs
<1>13. Refused(c) <=> Cs[1][1] \/ Cs[10][1] \/ Cs[11][1] \/ Cs[12][1] \/ Cs[13][1]
  <2>1. \A i \in 1..14 : i \in 2..9 \cup {14} \/ i \in {1, 10, 11, 12, 13} OBVIOUS
  <2> QED BY <1>9, <1>12, <2>1
<1>14. Refused(c) <=> \/ Dash \/ IsOn(a, "--shell") \/ RebuildMode(a) # "none"
                      \/ IsOn(a, "--zellij") /\ IsOn(a, "--attach")
                      \/ IsOn(a, "--attach") /\ t # Separator
  BY <1>3, <1>4, <1>5, <1>8, <1>10, <1>13
<1> QED BY <1>14 DEF NoPlaceForCommand, a, c, t
----------------------------------------------------------------------------
(* The environment store.  ss are the assignments of all sources, in order.*)

Store(E) == [entries : Seq(E), refused : BOOLEAN]
FirstAt(ss, p, key) == ss[p].key = key /\ \A q \in 1..p - 1 : ss[q].key # key
WinsAmong(ss, k, n) ==
  \A j \in 1..n : ss[j].key = ss[k].key =>
    /\ j < k => ss[j].origin = ss[k].origin
    /\ j > k => ss[j].origin # ss[k].origin

\* es is what the first n assignments leave.
Leaves(es, ss, n) ==
  /\ \A i \in DOMAIN es : \E k \in 1..n : es[i] = ss[k] /\ WinsAmong(ss, k, n)
  /\ \A k \in 1..n : \E i \in DOMAIN es : es[i].key = ss[k].key
  /\ \A i, j \in DOMAIN es : i < j =>
       \E p, q \in 1..n : p < q /\ FirstAt(ss, p, es[i].key) /\ FirstAt(ss, q, es[j].key)
  /\ \A i \in DOMAIN es : Valid(es[i], es[i].origin)
  /\ \A k \in 1..n : ss[k].origin = "flag" => Valid(ss[k], "flag")
Holds(s, ss, n) == ~s.refused => Leaves(s.entries, ss, n)

\* Assignments of one source stand together.
Together(ss, n) ==
  \A i, j, k \in 1..n : i < j /\ j < k /\ ss[i].origin = ss[k].origin => ss[j].origin = ss[k].origin

\* An entry made again is the same.
LEMMA EntryAgain ==
  ASSUME NEW a, NEW origin, NEW s
  PROVE LET e == Entry(a, origin) IN
        Set(s, a, origin) = Set(s, e, origin) /\ e.origin = origin /\ Entry(e, origin) = e
BY DEF Entry, Set, Valid, Index

\* Setting an assignment keeps the store's type.
LEMMA SetType ==
  ASSUME NEW E, NEW s \in Store(E), NEW a, NEW origin, Entry(a, origin) \in E
  PROVE Set(s, a, origin) \in Store(E) /\ (s.refused => Set(s, a, origin).refused)
<1> DEFINE e == Entry(a, origin)
           es == [i \in DOMAIN s.entries |-> IF i \in Index(s, a.key) THEN e ELSE s.entries[i]]
<1>1. s.entries \in Seq(E) /\ s.refused \in BOOLEAN BY DEF Store
<1>2. Append(s.entries, e) \in Seq(E) BY <1>1, AppendProperties
<1>3. es \in Seq(E)
  <2>1. DOMAIN s.entries = 1..Len(s.entries) /\ Len(s.entries) \in Nat
        /\ \A i \in 1..Len(s.entries) : s.entries[i] \in E BY <1>1, LenProperties, ElementOfSeq
  <2> HIDE DEF e
  <2>2. es \in [1..Len(s.entries) -> E] BY <2>1 DEF e
  <2> QED BY <2>1, <2>2, IsASeq
<1>4. /\ [s EXCEPT !.refused = TRUE] \in Store(E) /\ [s EXCEPT !.refused = TRUE].refused
      /\ [s EXCEPT !.entries = Append(@, e)] \in Store(E)
      /\ [s EXCEPT !.entries = es] \in Store(E)
  BY <1>1, <1>2, <1>3 DEF Store
<1>5. Set(s, a, origin) =
        IF s.refused \/ ~Valid(a, origin) THEN [s EXCEPT !.refused = TRUE]
        ELSE IF Index(s, a.key) = {} THEN [s EXCEPT !.entries = Append(@, e)]
        ELSE [s EXCEPT !.entries = es]
  BY DEF Set, Store
<1> HIDE DEF e, es
<1> QED BY <1>1, <1>4, <1>5

\* No key stands twice.
LEMMA OneEach ==
  ASSUME NEW es, NEW E, es \in Seq(E), NEW ss, NEW n \in Nat, Leaves(es, ss, n),
         NEW i \in DOMAIN es, NEW j \in DOMAIN es, es[i].key = es[j].key
  PROVE i = j
<1>1. i \in Nat /\ j \in Nat BY LenProperties
<1>2. \A a, b \in DOMAIN es : a < b => es[a].key # es[b].key
  <2> SUFFICES ASSUME NEW a \in DOMAIN es, NEW b \in DOMAIN es, a < b, es[a].key = es[b].key
               PROVE FALSE OBVIOUS
  <2>1. PICK p, q \in 1..n : p < q /\ FirstAt(ss, p, es[a].key) /\ FirstAt(ss, q, es[b].key)
    BY DEF Leaves
  <2>2. p \in 1..q - 1 BY <2>1
  <2> QED BY <2>1, <2>2 DEF FirstAt
<1> QED BY <1>1, <1>2

\* An assignment that is skipped: what stands for its key comes from elsewhere.
LEMMA SkipLeaves ==
  ASSUME NEW es, NEW E, es \in Seq(E), NEW ss, NEW n \in Nat, n # 0, Leaves(es, ss, n - 1),
         NEW m \in DOMAIN es, es[m].key = ss[n].key, es[m].origin # ss[n].origin,
         ss[n].origin # "flag"
  PROVE Leaves(es, ss, n)
<1>0. n - 1 \in Nat /\ n \in 1..n /\ \A k \in 1..n : k # n => k \in 1..n - 1 OBVIOUS
<1>9. \A k \in 1..n - 1 : k \in 1..n /\ k < n OBVIOUS
<1>1. ASSUME NEW i \in DOMAIN es
      PROVE \E k \in 1..n : es[i] = ss[k] /\ WinsAmong(ss, k, n)
  <2>1. PICK k \in 1..n - 1 : es[i] = ss[k] /\ WinsAmong(ss, k, n - 1) BY DEF Leaves
  <2>2. ss[n].key = ss[k].key => ss[n].origin # ss[k].origin
    <3>1. es[i].key = es[m].key => i = m BY <1>0, OneEach
    <3> QED BY <2>1, <3>1
  <2>3. WinsAmong(ss, k, n)
    <3> SUFFICES ASSUME NEW j \in 1..n, ss[j].key = ss[k].key
                 PROVE (j < k => ss[j].origin = ss[k].origin) /\ (j > k => ss[j].origin # ss[k].origin)
      BY DEF WinsAmong
    <3>1. CASE j = n BY <1>9, <2>2, <3>1
    <3>2. CASE j # n BY <1>0, <2>1, <3>2 DEF WinsAmong
    <3> QED BY <3>1, <3>2
  <2> QED BY <1>9, <2>1, <2>3
<1>2. \A k \in 1..n : \E i \in DOMAIN es : es[i].key = ss[k].key BY <1>0 DEF Leaves
<1>3. \A i, j \in DOMAIN es : i < j =>
        \E p, q \in 1..n : p < q /\ FirstAt(ss, p, es[i].key) /\ FirstAt(ss, q, es[j].key)
  BY <1>9 DEF Leaves
<1>4. \A k \in 1..n : ss[k].origin = "flag" => Valid(ss[k], "flag") BY <1>0 DEF Leaves
<1> QED BY <1>1, <1>2, <1>3, <1>4 DEF Leaves

\* A key that appears has a first place.
LEMMA FirstExists ==
  ASSUME NEW ss, NEW n \in Nat, NEW key, NEW k \in 1..n, ss[k].key = key
  PROVE \E p \in 1..n : FirstAt(ss, p, key)
<1> DEFINE S == {i \in 1..n : ss[i].key = key}
<1>1. S \in SUBSET Nat /\ S # {} OBVIOUS
<1>2. PICK p \in S : \A q \in S : p <= q BY <1>1, Least
<1>3. \A q \in 1..p - 1 : q \in 1..n /\ ~(p <= q) OBVIOUS
<1> QED BY <1>2, <1>3 DEF FirstAt

\* An assignment of a new key goes to the end.
LEMMA AddLeaves ==
  ASSUME NEW es, NEW E, es \in Seq(E), NEW ss, NEW n \in Nat, n # 0, Leaves(es, ss, n - 1),
         ss[n] \in E, \A i \in DOMAIN es : es[i].key # ss[n].key, Valid(ss[n], ss[n].origin)
  PROVE Leaves(Append(es, ss[n]), ss, n)
<1> DEFINE new == Append(es, ss[n])  l == Len(es)
<1>0. n \in 1..n /\ \A k \in 1..n : k # n => k \in 1..n - 1 OBVIOUS
<1>9. \A k \in 1..n - 1 : k \in 1..n /\ k < n /\ k # n OBVIOUS
<1>1. /\ l \in Nat /\ DOMAIN es = 1..l /\ DOMAIN new = 1..l + 1
      /\ \A i \in 1..l : new[i] = es[i] /\ i \in 1..l + 1
      /\ new[l + 1] = ss[n] /\ l + 1 \in 1..l + 1
  <2>1. l \in Nat /\ DOMAIN es = 1..l BY LenProperties
  <2>2. new \in Seq(E) /\ Len(new) = l + 1 /\ new[l + 1] = ss[n] /\ \A i \in 1..l : new[i] = es[i]
    BY AppendProperties
  <2>3. DOMAIN new = 1..l + 1 BY <2>2, LenProperties
  <2> HIDE DEF new, l
  <2> QED BY <2>1, <2>2, <2>3
<1> HIDE DEF new, l
<1>2. \A i \in 1..l + 1 : i = l + 1 \/ i \in 1..l BY <1>1
<1>3. \A k \in 1..n - 1 : ss[k].key # ss[n].key BY DEF Leaves
<1>4. FirstAt(ss, n, ss[n].key) BY <1>3 DEF FirstAt
<1>5. ASSUME NEW i \in 1..l + 1
      PROVE \E k \in 1..n : new[i] = ss[k] /\ WinsAmong(ss, k, n)
  <2>1. CASE i = l + 1
    <3>1. WinsAmong(ss, n, n) BY <1>0, <1>3 DEF WinsAmong
    <3> QED BY <1>0, <1>1, <2>1, <3>1
  <2>2. CASE i \in 1..l
    <3>1. PICK k \in 1..n - 1 : es[i] = ss[k] /\ WinsAmong(ss, k, n - 1) BY <1>1, <2>2 DEF Leaves
    <3>2. WinsAmong(ss, k, n) BY <1>0, <1>3, <3>1 DEF WinsAmong
    <3> QED BY <1>1, <1>9, <2>2, <3>1, <3>2
  <2> QED BY <1>2, <2>1, <2>2
<1>6. ASSUME NEW k \in 1..n PROVE \E i \in 1..l + 1 : new[i].key = ss[k].key
  <2>1. CASE k = n BY <1>1, <2>1
  <2>2. CASE k # n
    <3>1. PICK i \in DOMAIN es : es[i].key = ss[k].key BY <1>0, <2>2 DEF Leaves
    <3> QED BY <1>1, <3>1
  <2> QED BY <2>1, <2>2
<1>7. ASSUME NEW i \in 1..l + 1, NEW j \in 1..l + 1, i < j
      PROVE \E p, q \in 1..n : p < q /\ FirstAt(ss, p, new[i].key) /\ FirstAt(ss, q, new[j].key)
  <2>1. i \in 1..l BY <1>1, <1>7
  <2>2. CASE j = l + 1
    <3>1. PICK k \in 1..n - 1 : ss[k].key = es[i].key BY <1>1, <2>1 DEF Leaves
    <3>2. \E p \in 1..n - 1 : FirstAt(ss, p, es[i].key) 
      <4>1. n - 1 \in Nat OBVIOUS
      <4> QED BY <3>1, <4>1, FirstExists
    <3> QED BY <1>0, <1>1, <1>4, <1>9, <2>1, <2>2, <3>2
  <2>3. CASE j \in 1..l
    <3>1. PICK p, q \in 1..n - 1 : p < q /\ FirstAt(ss, p, es[i].key) /\ FirstAt(ss, q, es[j].key)
      BY <1>1, <1>7, <2>1, <2>3 DEF Leaves
    <3> QED BY <1>1, <1>9, <2>1, <2>3, <3>1
  <2> QED BY <1>2, <2>2, <2>3
<1>8. \A i \in 1..l + 1 : Valid(new[i], new[i].origin) BY <1>1, <1>2 DEF Leaves
<1>10. \A k \in 1..n : ss[k].origin = "flag" => Valid(ss[k], "flag") BY <1>0 DEF Leaves
<1>11. DOMAIN new = 1..l + 1 BY <1>1
<1>12. Leaves(new, ss, n) BY <1>5, <1>6, <1>7, <1>8, <1>10, <1>11 DEF Leaves
<1> QED BY <1>12 DEF new

\* An assignment of a key that has one of the same source takes its place.
LEMMA ReplaceLeaves ==
  ASSUME NEW es, NEW E, es \in Seq(E), NEW ss, NEW n \in Nat, n # 0, Leaves(es, ss, n - 1),
         Together(ss, n), NEW m \in DOMAIN es, es[m].key = ss[n].key,
         es[m].origin = ss[n].origin, Valid(ss[n], ss[n].origin), NEW new,
         new = [i \in DOMAIN es |-> IF i = m THEN ss[n] ELSE es[i]]
  PROVE Leaves(new, ss, n)
<1>0. n - 1 \in Nat /\ n \in 1..n /\ \A k \in 1..n : k # n => k \in 1..n - 1 OBVIOUS
<1>9. \A k \in 1..n - 1 : k \in 1..n /\ k < n /\ k # n OBVIOUS
<1>1. DOMAIN new = DOMAIN es /\ new[m] = ss[n] /\ (\A i \in DOMAIN es : i # m => new[i] = es[i])
      /\ \A i \in DOMAIN es : new[i].key = es[i].key OBVIOUS
<1>2. \A i \in DOMAIN es : i # m => es[i].key # ss[n].key BY <1>0, OneEach
<1>3. WinsAmong(ss, n, n)
  <2>1. PICK k \in 1..n - 1 : es[m] = ss[k] /\ WinsAmong(ss, k, n - 1) BY DEF Leaves
  <2>2. ASSUME NEW j \in 1..n - 1, ss[j].key = ss[n].key PROVE ss[j].origin = ss[n].origin
    <3>1. j < k => ss[j].origin = ss[k].origin BY <2>1, <2>2 DEF WinsAmong
    <3>2. j > k => ss[j].origin # ss[k].origin BY <2>1, <2>2 DEF WinsAmong
    <3>3. j > k => ss[j].origin = ss[n].origin BY <1>0, <1>9, <2>1 DEF Together
    <3>4. j < k \/ j = k \/ j > k OBVIOUS
    <3> QED BY <2>1, <3>1, <3>2, <3>3, <3>4
  <2> QED BY <1>0, <2>2 DEF WinsAmong
<1>4. ASSUME NEW i \in DOMAIN es PROVE \E k \in 1..n : new[i] = ss[k] /\ WinsAmong(ss, k, n)
  <2>1. CASE i = m BY <1>0, <1>1, <1>3, <2>1
  <2>2. CASE i # m
    <3>1. PICK k \in 1..n - 1 : es[i] = ss[k] /\ WinsAmong(ss, k, n - 1) BY DEF Leaves
    <3>2. ss[k].key # ss[n].key BY <1>2, <2>2, <3>1
    <3>3. WinsAmong(ss, k, n) BY <1>0, <3>1, <3>2 DEF WinsAmong
    <3> QED BY <1>1, <1>9, <2>2, <3>1, <3>3
  <2> QED BY <2>1, <2>2
<1>5. ASSUME NEW k \in 1..n PROVE \E i \in DOMAIN es : new[i].key = ss[k].key
  <2>1. CASE k = n BY <1>1, <2>1
  <2>2. CASE k # n
    <3>1. k \in 1..n - 1 BY <1>0, <2>2
    <3>2. PICK i \in DOMAIN es : es[i].key = ss[k].key BY <3>1 DEF Leaves
    <3> QED BY <1>1, <3>2
  <2> QED BY <2>1, <2>2
<1>6. ASSUME NEW i \in DOMAIN es, NEW j \in DOMAIN es, i < j
      PROVE \E p, q \in 1..n : p < q /\ FirstAt(ss, p, new[i].key) /\ FirstAt(ss, q, new[j].key)
  <2>1. PICK p, q \in 1..n - 1 : p < q /\ FirstAt(ss, p, es[i].key) /\ FirstAt(ss, q, es[j].key)
    BY <1>6 DEF Leaves
  <2> QED BY <1>1, <1>9, <2>1
<1>7. \A i \in DOMAIN es : Valid(new[i], new[i].origin) BY <1>1 DEF Leaves
<1>8. \A k \in 1..n : ss[k].origin = "flag" => Valid(ss[k], "flag") BY <1>0 DEF Leaves
<1>10. DOMAIN new = DOMAIN es BY <1>1
<1> QED BY <1>4, <1>5, <1>6, <1>7, <1>8, <1>10 DEF Leaves

\* To set the next assignment is right where its key is new or has the same source.
LEMMA SetHolds ==
  ASSUME NEW E, NEW s \in Store(E), NEW ss, NEW n \in Nat, n # 0, Holds(s, ss, n - 1),
         NEW a, NEW origin, ss[n] = Entry(a, origin), ss[n] \in E, Together(ss, n),
         \A i \in Index(s, a.key) : s.entries[i].origin = origin
  PROVE Set(s, a, origin) \in Store(E) /\ Holds(Set(s, a, origin), ss, n)
<1> DEFINE e == ss[n]  r == Set(s, a, origin)  es == s.entries
           new == [i \in DOMAIN es |-> IF i \in Index(s, a.key) THEN e ELSE es[i]]
<1>1. r \in Store(E) /\ (s.refused => r.refused) BY SetType
<1>2. es \in Seq(E) BY DEF Store
<1>3. e.key = a.key /\ e.origin = origin /\ (Valid(e, e.origin) <=> Valid(a, origin))
  BY DEF Entry, Valid
<1>4. r = IF s.refused \/ ~Valid(a, origin) THEN [s EXCEPT !.refused = TRUE]
          ELSE IF Index(s, a.key) = {} THEN [s EXCEPT !.entries = Append(es, e)]
          ELSE [s EXCEPT !.entries = new]
  BY DEF Set, Store
<1>5. Index(s, a.key) = {i \in DOMAIN es : es[i].key = e.key} BY <1>3 DEF Index
<1> HIDE DEF e, r, es, new
<1>6. CASE s.refused \/ ~Valid(a, origin) BY <1>1, <1>4, <1>6 DEF Holds, Store, r
<1>7. CASE ~s.refused /\ Valid(a, origin) /\ Index(s, a.key) = {}
  <2>1. \A i \in DOMAIN es : es[i].key # e.key BY <1>5, <1>7
  <2>2. Leaves(es, ss, n - 1) BY <1>7 DEF Holds, es
  <2>3. Leaves(Append(es, e), ss, n) BY <1>2, <1>3, <1>7, <2>1, <2>2, AddLeaves DEF e
  <2>4. r.entries = Append(es, e) BY <1>4, <1>7 DEF Store
  <2> QED BY <1>1, <2>3, <2>4 DEF Holds, r
<1>8. CASE ~s.refused /\ Valid(a, origin) /\ Index(s, a.key) # {}
  <2>1. PICK m \in DOMAIN es : es[m].key = e.key /\ m \in Index(s, a.key) BY <1>5, <1>8
  <2>2. Leaves(es, ss, n - 1) BY <1>8 DEF Holds, es
  <2>3. es[m].origin = e.origin BY <1>3, <2>1 DEF es
  <2>4. \A i \in DOMAIN es : i \in Index(s, a.key) <=> i = m
    <3>1. n - 1 \in Nat OBVIOUS
    <3> QED BY <1>2, <1>5, <2>1, <2>2, <3>1, OneEach
  <2>5. new = [i \in DOMAIN es |-> IF i = m THEN e ELSE es[i]] BY <2>4 DEF new
  <2>6. Leaves(new, ss, n) BY <1>2, <1>3, <1>8, <2>1, <2>2, <2>3, <2>5, ReplaceLeaves DEF e
  <2>7. r.entries = new BY <1>4, <1>8 DEF Store
  <2> QED BY <1>1, <2>6, <2>7 DEF Holds, r
<1> QED BY <1>6, <1>7, <1>8

\* To skip the next assignment is right where its key has another source.
LEMMA SkipHolds ==
  ASSUME NEW E, NEW s \in Store(E), NEW ss, NEW n \in Nat, n # 0, Holds(s, ss, n - 1),
         ss[n].origin # "flag",
         \E i \in Index(s, ss[n].key) : ~s.refused => s.entries[i].origin # ss[n].origin
  PROVE Holds(s, ss, n)
<1> SUFFICES ASSUME ~s.refused PROVE Leaves(s.entries, ss, n) BY DEF Holds
<1>1. s.entries \in Seq(E) BY DEF Store
<1>2. PICK m \in DOMAIN s.entries : s.entries[m].key = ss[n].key /\ s.entries[m].origin # ss[n].origin
  BY DEF Index
<1>3. Leaves(s.entries, ss, n - 1) BY DEF Holds
<1> QED BY <1>1, <1>2, <1>3, SkipLeaves

\* The sources, one after the other: of the first a assignments each is a flag's,
\* of the next l each a line's, of the rest each the launcher's own.
Layout(ss, a, l, N) ==
  /\ \A i \in 1..N : ss[i].origin = IF i <= a THEN "flag" ELSE IF i <= a + l THEN "file" ELSE "builtin"
  /\ \A i, j \in 1..N : ss[i].origin = "builtin" /\ ss[j].origin = "builtin" /\ ss[i].key = ss[j].key => i = j

\* In the layout, the assignments of one source stand together.
LEMMA LayoutTogether ==
  ASSUME NEW ss, NEW a \in Nat, NEW l \in Nat, NEW N \in Nat, Layout(ss, a, l, N), NEW n \in 1..N
  PROVE Together(ss, n)
<1> SUFFICES ASSUME NEW i \in 1..n, NEW j \in 1..n, NEW k \in 1..n, i < j, j < k,
                    ss[i].origin = ss[k].origin
             PROVE ss[j].origin = ss[k].origin
  BY DEF Together
<1>1. i \in 1..N /\ j \in 1..N /\ k \in 1..N OBVIOUS
<1> DEFINE Of(x) == IF x <= a THEN "flag" ELSE IF x <= a + l THEN "file" ELSE "builtin"
<1>2. ss[i].origin = Of(i) /\ ss[j].origin = Of(j) /\ ss[k].origin = Of(k) BY <1>1 DEF Layout
<1>3. Of(i) = Of(k) => Of(j) = Of(k) OBVIOUS
<1> QED BY <1>2, <1>3

\* One assignment of the command line.
LEMMA FlagHolds ==
  ASSUME NEW E, NEW s \in Store(E), NEW ss, NEW a \in Nat, NEW l \in Nat, NEW N \in Nat,
         Layout(ss, a, l, N), NEW n \in 1..N, n <= a, Holds(s, ss, n - 1),
         NEW x, ss[n] = Entry(x, "flag"), ss[n] \in E
  PROVE Set(s, x, "flag") \in Store(E) /\ Holds(Set(s, x, "flag"), ss, n)
<1>1. Together(ss, n) BY LayoutTogether
<1>2. CASE s.refused
  <2>1. Set(s, x, "flag") \in Store(E) /\ Set(s, x, "flag").refused BY <1>2, SetType
  <2> QED BY <2>1 DEF Holds
<1>3. CASE ~s.refused
  <2>1. ASSUME NEW i \in Index(s, x.key) PROVE s.entries[i].origin = "flag"
    <3>1. PICK k \in 1..n - 1 : s.entries[i] = ss[k] BY <1>3 DEF Holds, Leaves, Index
    <3>2. k \in 1..N /\ k <= a OBVIOUS
    <3> QED BY <3>1, <3>2 DEF Layout
  <2>2. n \in Nat /\ n # 0 OBVIOUS
  <2> QED BY <1>1, <2>1, <2>2, SetHolds
<1> QED BY <1>2, <1>3

\* One line of the project file.
LEMMA LineHolds ==
  ASSUME NEW E, NEW s \in Store(E), NEW ss, NEW a \in Nat, NEW l \in Nat, NEW N \in Nat,
         Layout(ss, a, l, N), NEW n \in 1..N, n > a, n <= a + l, Holds(s, ss, n - 1),
         NEW x, ss[n] = Entry(Unquoted(x), "file"), ss[n] \in E, Unquoted(x).key = x.key
  PROVE Line(s, x) \in Store(E) /\ Holds(Line(s, x), ss, n)
<1> DEFINE u == Unquoted(x)
<1>1. Together(ss, n) BY LayoutTogether
<1>2. Set(s, u, "file") \in Store(E) /\ (s.refused => Set(s, u, "file").refused) BY SetType
<1>3. ss[n].key = x.key /\ ss[n].origin = "file" BY DEF Entry
<1> HIDE DEF u
<1>4. n \in Nat /\ n # 0 OBVIOUS
<1>5. CASE \E i \in Index(s, x.key) : s.entries[i].origin = "flag"
  <2>1. Line(s, x) = s BY <1>5 DEF Line
  <2>2. Holds(s, ss, n) BY <1>3, <1>4, <1>5, SkipHolds
  <2> QED BY <2>1, <2>2
<1>6. CASE ~\E i \in Index(s, x.key) : s.entries[i].origin = "flag"
  <2>1. Line(s, x) = Set(s, u, "file") BY <1>6 DEF Line, u
  <2>2. CASE s.refused BY <1>2, <2>1, <2>2 DEF Holds
  <2>3. CASE ~s.refused
    <3>1. ASSUME NEW i \in Index(s, u.key) PROVE s.entries[i].origin = "file"
      <4>1. i \in Index(s, x.key) BY DEF u
      <4>2. PICK k \in 1..n - 1 : s.entries[i] = ss[k] BY <2>3, <4>1 DEF Holds, Leaves, Index
      <4>3. k \in 1..N /\ k <= a + l OBVIOUS
      <4>4. ss[k].origin = IF k <= a THEN "flag" ELSE "file" BY <4>3 DEF Layout
      <4> QED BY <1>6, <4>1, <4>2, <4>4
    <3> QED BY <1>1, <1>4, <2>1, <3>1, SetHolds DEF u
  <2> QED BY <2>2, <2>3
<1> QED BY <1>5, <1>6

\* One value of the launcher's own.
LEMMA DefaultHolds ==
  ASSUME NEW E, NEW s \in Store(E), NEW ss, NEW a \in Nat, NEW l \in Nat, NEW N \in Nat,
         Layout(ss, a, l, N), NEW n \in 1..N, n > a + l, Holds(s, ss, n - 1),
         NEW x, ss[n] = Entry(x, "builtin"), ss[n] \in E
  PROVE Default(s, x, "builtin") \in Store(E) /\ Holds(Default(s, x, "builtin"), ss, n)
<1>1. Together(ss, n) BY LayoutTogether
<1>2. ss[n].key = x.key /\ ss[n].origin = "builtin" BY DEF Entry
<1>3. n \in Nat /\ n # 0 OBVIOUS
<1>4. CASE Index(s, x.key) # {}
  <2>1. Default(s, x, "builtin") = s BY <1>4 DEF Default
  <2>2. ASSUME ~s.refused, NEW i \in Index(s, x.key) PROVE s.entries[i].origin # "builtin"
    <3>1. PICK k \in 1..n - 1 : s.entries[i] = ss[k] BY <2>2 DEF Holds, Leaves, Index
    <3>2. k \in 1..N /\ k # n OBVIOUS
    <3>3. ss[k].key = ss[n].key BY <1>2, <3>1 DEF Index
    <3> QED BY <1>2, <3>1, <3>2, <3>3 DEF Layout
  <2>3. Holds(s, ss, n) BY <1>2, <1>3, <1>4, <2>2, SkipHolds
  <2> QED BY <2>1, <2>3
<1>5. CASE Index(s, x.key) = {}
  <2>1. Default(s, x, "builtin") = Set(s, x, "builtin") BY <1>5 DEF Default
  <2> QED BY <1>1, <1>3, <1>5, <2>1, SetHolds
<1> QED BY <1>4, <1>5

\* What the three folds that fill the store compute.
\* The folds of the store: the condition on the states they run through, and the run.
FlagsStay(X, n, seq) == DOMAIN seq = 1..n /\ \A x \in X, k \in 1..n : Set(x, seq[k], "flag") \in X
FlagRun(f, X, s, n, seq) ==
  /\ f \in [0..n -> X] /\ f[0] = s /\ f[n] = SetAll(s, seq, "flag")
  /\ \A k \in 1..n : f[k] = Set(f[k - 1], seq[k], "flag")

LEMMA SetAllFold ==
  ASSUME NEW X, NEW base \in X, NEW n \in Nat, NEW seq, FlagsStay(X, n, seq)
  PROVE \E f : FlagRun(f, X, base, n, seq)
<1>0. DOMAIN seq = 1..n /\ \A x \in X, k \in 1..n : Set(x, seq[k], "flag") \in X BY DEF FlagsStay
<1> USE <1>0
<1> DEFINE Op(r, a) == Set(r, a, "flag")
           g == [p \in X \X (1..n) |-> Op(p[1], seq[p[2]])]
           Fold(it) == it = [s \in SUBSET DOMAIN seq |->
                               IF s = {} THEN base ELSE Op(it[s \ {Max(s)}], seq[Max(s)])]
           it == CHOOSE it : Fold(it)
<1>1. \A x \in X, k \in 1..n : g[<<x, k>>] = Op(x, seq[k]) OBVIOUS
<1>2. \A x \in X, k \in 1..n : g[<<x, k>>] \in X BY <1>1
<1>3. SetAll(base, seq, "flag") = it[DOMAIN seq] BY DEF SetAll, FoldLeft, MapThenFoldSet
<1> HIDE DEF g, Op
<1>4. PICK i \in [SUBSET (1..n) -> X] : Iterates(i, n, base, g) BY <1>2, IterExists
<1>5. Fold(i)
  <2>1. ASSUME NEW s \in SUBSET (1..n)
        PROVE i[s] = IF s = {} THEN base ELSE Op(i[s \ {Max(s)}], seq[Max(s)])
    <3>1. CASE s # {}
      <4>1. Max(s) \in 1..n BY <3>1, MaxIn
      <4>2. i[s \ {Max(s)}] \in X OBVIOUS
      <4>3. i[s] = g[<<i[s \ {Max(s)}], Max(s)>>] BY <1>4, <3>1 DEF Iterates
      <4> QED BY <1>1, <3>1, <4>1, <4>2, <4>3
    <3>2. CASE s = {} BY <1>4, <3>2 DEF Iterates
    <3> QED BY <3>1, <3>2
  <2>2. i = [s \in SUBSET (1..n) |-> i[s]] OBVIOUS
  <2> QED BY <2>1, <2>2
<1>6. Fold(it) BY <1>5
<1>7. it[{}] = base BY <1>6
<1>8. ASSUME NEW k \in 1..n, it[1..k - 1] \in X PROVE it[1..k] = g[<<it[1..k - 1], k>>]
  <2>3. 1..k \in SUBSET (1..n) /\ 1..k # {} BY FirstPlaces
  <2>1. it[1..k] = Op(it[(1..k) \ {Max(1..k)}], seq[Max(1..k)]) BY <1>6, <2>3
  <2>2. it[1..k] = Op(it[1..k - 1], seq[k]) BY <2>1, FirstPlaces
  <2> QED BY <1>1, <1>8, <2>2
<1> HIDE DEF it
<1>9. PICK f \in [0..n -> X] : f[n] = it[1..n] /\ Runs(f, n, base, g)
  BY <1>2, <1>7, <1>8, Chain
<1>10. \A k \in 1..n : k - 1 \in 0..n OBVIOUS
<1>11. f[0] = base /\ \A k \in 1..n : f[k] = Op(f[k - 1], seq[k]) BY <1>1, <1>9, <1>10 DEF Runs
<1> QED
  <2>1. f \in [0..n -> X] /\ f[0] = base /\ f[n] = SetAll(base, seq, "flag") BY <1>3, <1>9, <1>11
  <2>2. \A k \in 1..n : f[k] = Set(f[k - 1], seq[k], "flag") BY <1>11 DEF Op
  <2> QED BY <2>1, <2>2 DEF FlagRun

LinesStay(X, n, seq) == DOMAIN seq = 1..n /\ \A x \in X, k \in 1..n : Line(x, seq[k]) \in X
LinesRun(f, X, s, n, seq) ==
  /\ f \in [0..n -> X] /\ f[0] = s /\ f[n] = LoadFile(s, seq)
  /\ \A k \in 1..n : f[k] = Line(f[k - 1], seq[k])

\* The fold of the project file.
LEMMA LoadFileFold ==
  ASSUME NEW X, NEW base \in X, NEW n \in Nat, NEW seq, LinesStay(X, n, seq)
  PROVE \E f : LinesRun(f, X, base, n, seq)
<1>0. DOMAIN seq = 1..n /\ \A x \in X, k \in 1..n : Line(x, seq[k]) \in X BY DEF LinesStay
<1> USE <1>0
<1> DEFINE Op(r, a) == Line(r, a)
           g == [p \in X \X (1..n) |-> Op(p[1], seq[p[2]])]
           Fold(it) == it = [s \in SUBSET DOMAIN seq |->
                               IF s = {} THEN base ELSE Op(it[s \ {Max(s)}], seq[Max(s)])]
           it == CHOOSE it : Fold(it)
<1>1. \A x \in X, k \in 1..n : g[<<x, k>>] = Op(x, seq[k]) OBVIOUS
<1>2. \A x \in X, k \in 1..n : g[<<x, k>>] \in X BY <1>1
<1>3. LoadFile(base, seq) = it[DOMAIN seq] BY DEF LoadFile, FoldLeft, MapThenFoldSet
<1> HIDE DEF g, Op
<1>4. PICK i \in [SUBSET (1..n) -> X] : Iterates(i, n, base, g) BY <1>2, IterExists
<1>5. Fold(i)
  <2>1. ASSUME NEW s \in SUBSET (1..n)
        PROVE i[s] = IF s = {} THEN base ELSE Op(i[s \ {Max(s)}], seq[Max(s)])
    <3>1. CASE s # {}
      <4>1. Max(s) \in 1..n BY <3>1, MaxIn
      <4>2. i[s \ {Max(s)}] \in X OBVIOUS
      <4>3. i[s] = g[<<i[s \ {Max(s)}], Max(s)>>] BY <1>4, <3>1 DEF Iterates
      <4> QED BY <1>1, <3>1, <4>1, <4>2, <4>3
    <3>2. CASE s = {} BY <1>4, <3>2 DEF Iterates
    <3> QED BY <3>1, <3>2
  <2>2. i = [s \in SUBSET (1..n) |-> i[s]] OBVIOUS
  <2> QED BY <2>1, <2>2
<1>6. Fold(it) BY <1>5
<1>7. it[{}] = base BY <1>6
<1>8. ASSUME NEW k \in 1..n, it[1..k - 1] \in X PROVE it[1..k] = g[<<it[1..k - 1], k>>]
  <2>3. 1..k \in SUBSET (1..n) /\ 1..k # {} BY FirstPlaces
  <2>1. it[1..k] = Op(it[(1..k) \ {Max(1..k)}], seq[Max(1..k)]) BY <1>6, <2>3
  <2>2. it[1..k] = Op(it[1..k - 1], seq[k]) BY <2>1, FirstPlaces
  <2> QED BY <1>1, <1>8, <2>2
<1> HIDE DEF it
<1>9. PICK f \in [0..n -> X] : f[n] = it[1..n] /\ Runs(f, n, base, g)
  BY <1>2, <1>7, <1>8, Chain
<1>10. \A k \in 1..n : k - 1 \in 0..n OBVIOUS
<1>11. f[0] = base /\ \A k \in 1..n : f[k] = Op(f[k - 1], seq[k]) BY <1>1, <1>9, <1>10 DEF Runs
<1> QED
  <2>1. f \in [0..n -> X] /\ f[0] = base /\ f[n] = LoadFile(base, seq) BY <1>3, <1>9, <1>11
  <2>2. \A k \in 1..n : f[k] = Line(f[k - 1], seq[k]) BY <1>11 DEF Op
  <2> QED BY <2>1, <2>2 DEF LinesRun

DefaultsStay(X, n, seq) ==
  DOMAIN seq = 1..n /\ \A x \in X, k \in 1..n : Default(x, seq[k], "builtin") \in X
DefaultsRun(f, X, s, n, seq) ==
  /\ f \in [0..n -> X] /\ f[0] = s /\ f[n] = Defaults(s, seq)
  /\ \A k \in 1..n : f[k] = Default(f[k - 1], seq[k], "builtin")

LEMMA DefaultsFold ==
  ASSUME NEW X, NEW base \in X, NEW n \in Nat, NEW seq, DefaultsStay(X, n, seq)
  PROVE \E f : DefaultsRun(f, X, base, n, seq)
<1>0. DOMAIN seq = 1..n /\ \A x \in X, k \in 1..n : Default(x, seq[k], "builtin") \in X BY DEF DefaultsStay
<1> USE <1>0
<1> DEFINE Op(r, a) == Default(r, a, "builtin")
           g == [p \in X \X (1..n) |-> Op(p[1], seq[p[2]])]
           Fold(it) == it = [s \in SUBSET DOMAIN seq |->
                               IF s = {} THEN base ELSE Op(it[s \ {Max(s)}], seq[Max(s)])]
           it == CHOOSE it : Fold(it)
<1>1. \A x \in X, k \in 1..n : g[<<x, k>>] = Op(x, seq[k]) OBVIOUS
<1>2. \A x \in X, k \in 1..n : g[<<x, k>>] \in X BY <1>1
<1>3. Defaults(base, seq) = it[DOMAIN seq] BY DEF Defaults, FoldLeft, MapThenFoldSet
<1> HIDE DEF g, Op
<1>4. PICK i \in [SUBSET (1..n) -> X] : Iterates(i, n, base, g) BY <1>2, IterExists
<1>5. Fold(i)
  <2>1. ASSUME NEW s \in SUBSET (1..n)
        PROVE i[s] = IF s = {} THEN base ELSE Op(i[s \ {Max(s)}], seq[Max(s)])
    <3>1. CASE s # {}
      <4>1. Max(s) \in 1..n BY <3>1, MaxIn
      <4>2. i[s \ {Max(s)}] \in X OBVIOUS
      <4>3. i[s] = g[<<i[s \ {Max(s)}], Max(s)>>] BY <1>4, <3>1 DEF Iterates
      <4> QED BY <1>1, <3>1, <4>1, <4>2, <4>3
    <3>2. CASE s = {} BY <1>4, <3>2 DEF Iterates
    <3> QED BY <3>1, <3>2
  <2>2. i = [s \in SUBSET (1..n) |-> i[s]] OBVIOUS
  <2> QED BY <2>1, <2>2
<1>6. Fold(it) BY <1>5
<1>7. it[{}] = base BY <1>6
<1>8. ASSUME NEW k \in 1..n, it[1..k - 1] \in X PROVE it[1..k] = g[<<it[1..k - 1], k>>]
  <2>3. 1..k \in SUBSET (1..n) /\ 1..k # {} BY FirstPlaces
  <2>1. it[1..k] = Op(it[(1..k) \ {Max(1..k)}], seq[Max(1..k)]) BY <1>6, <2>3
  <2>2. it[1..k] = Op(it[1..k - 1], seq[k]) BY <2>1, FirstPlaces
  <2> QED BY <1>1, <1>8, <2>2
<1> HIDE DEF it
<1>9. PICK f \in [0..n -> X] : f[n] = it[1..n] /\ Runs(f, n, base, g)
  BY <1>2, <1>7, <1>8, Chain
<1>10. \A k \in 1..n : k - 1 \in 0..n OBVIOUS
<1>11. f[0] = base /\ \A k \in 1..n : f[k] = Op(f[k - 1], seq[k]) BY <1>1, <1>9, <1>10 DEF Runs
<1> QED
  <2>1. f \in [0..n -> X] /\ f[0] = base /\ f[n] = Defaults(base, seq) BY <1>3, <1>9, <1>11
  <2>2. \A k \in 1..n : f[k] = Default(f[k - 1], seq[k], "builtin") BY <1>11 DEF Op
  <2> QED BY <2>1, <2>2 DEF DefaultsRun
----------------------------------------------------------------------------
(* The sources of one call.                                                *)

Called == <<args, world>> \in Cases
Reads == "--no-project-env" \notin cfg.on /\ world.file = "regular"
FlagCount == Len(ValuesGiven(args, "--env"))
LineCount == IF Reads THEN Len(world.lines) ELSE 0
AllCount == FlagCount + LineCount + Len(world.builtins)
EntrySet == {Sources[i] : i \in DOMAIN Sources}

\* A call is a sequence of tokens in a place.
LEMMA CaseType == ASSUME Called PROVE args \in Seq(Token) /\ world \in World
BY FrontEndAssumption DEF Called

\* A sequence with an entry for each of the first n numbers.
LEMMA Listed ==
  ASSUME NEW n \in Nat, NEW S, NEW f(_), \A i \in 1..n : f(i) \in S
  PROVE LET s == [i \in 1..n |-> f(i)] IN s \in Seq(S) /\ Len(s) = n
<1> DEFINE s == [i \in 1..n |-> f(i)]
<1>1. s \in [1..n -> S] OBVIOUS
<1>2. s \in Seq(S) BY <1>1, IsASeq
<1>3. Len(s) \in Nat /\ DOMAIN s = 1..Len(s) BY <1>2, LenProperties
<1>4. 1..Len(s) = 1..n BY <1>1, <1>3
<1>5. Len(s) = n BY <1>3, <1>4
<1> QED BY <1>2, <1>5

\* The assignment at each place of the sources.
LEMMA SourcesAre ==
  ASSUME Called
  PROVE /\ FlagCount \in Nat /\ LineCount \in Nat /\ Len(world.builtins) \in Nat
        /\ DOMAIN ValuesGiven(args, "--env") = 1..FlagCount
        /\ DOMAIN world.builtins = 1..Len(world.builtins)
        /\ Reads => DOMAIN world.lines = 1..LineCount
        /\ DOMAIN Sources = 1..AllCount
        /\ \A k \in 1..FlagCount :
             /\ Sources[k] = Entry(Meaning[ValuesGiven(args, "--env")[k]], "flag")
             /\ AssignmentsGiven[k] = Sources[k]
        /\ \A k \in 1..LineCount :
             Sources[FlagCount + k] = Entry(Unquoted(world.lines[k]), "file")
        /\ \A k \in 1..Len(world.builtins) :
             Sources[FlagCount + LineCount + k] = Entry(world.builtins[k], "builtin")
<1> DEFINE vs == ValuesGiven(args, "--env")  a == FlagCount  l == LineCount  b == Len(world.builtins)
           F(k) == Entry(Meaning[vs[k]], "flag")
           G(k) == Entry(Unquoted(world.lines[k]), "file")
           H(k) == Entry(world.builtins[k], "builtin")
           S == {F(k) : k \in 1..a} \cup {G(k) : k \in 1..l} \cup {H(k) : k \in 1..b}
           fs == [k \in 1..a |-> F(k)]  gs == [k \in 1..l |-> G(k)]  hs == [k \in 1..b |-> H(k)]
<1>1. args \in Seq(Token) /\ world \in World BY CaseType
<1>2. a \in Nat /\ DOMAIN vs = 1..a BY <1>1, ValuesType, LenProperties DEF FlagCount
<1>3. /\ Len(world.lines) \in Nat /\ DOMAIN world.lines = 1..Len(world.lines)
      /\ b \in Nat /\ DOMAIN world.builtins = 1..b
  BY <1>1, LenProperties DEF World
<1>4. l \in Nat /\ (Reads => DOMAIN world.lines = 1..l) BY <1>3 DEF LineCount
<1>5. AssignmentsGiven = fs BY <1>2 DEF AssignmentsGiven
<1>6. Sources = fs \o gs \o hs
  <2>1. Reads => [i \in DOMAIN world.lines |-> Entry(Unquoted(world.lines[i]), "file")] = gs BY <1>4
  <2>2. ~Reads => gs = <<>> BY DEF LineCount
  <2>3. [i \in DOMAIN world.builtins |-> H(i)] = hs BY <1>3
  <2> QED BY <1>5, <2>1, <2>2, <2>3 DEF Sources, Reads
<1> HIDE DEF a, l, b, vs, F, G, H
<1>7. fs \in Seq(S) /\ Len(fs) = a /\ gs \in Seq(S) /\ Len(gs) = l /\ hs \in Seq(S) /\ Len(hs) = b
  <2>1. fs \in Seq(S) /\ Len(fs) = a BY <1>2, Listed
  <2>2. gs \in Seq(S) /\ Len(gs) = l BY <1>4, Listed
  <2>3. hs \in Seq(S) /\ Len(hs) = b BY <1>3, Listed
  <2> QED BY <2>1, <2>2, <2>3
<1>8. /\ \A k \in 1..a : fs[k] = F(k)
      /\ \A k \in 1..l : gs[k] = G(k)
      /\ \A k \in 1..b : hs[k] = H(k) OBVIOUS
<1> HIDE DEF fs, gs, hs, S
<1>9. /\ fs \o gs \in Seq(S) /\ Len(fs \o gs) = a + l
      /\ \A i \in 1..a + l : (fs \o gs)[i] = IF i <= a THEN fs[i] ELSE gs[i - a]
  BY <1>7, ConcatProperties
<1> DEFINE u == fs \o gs  m == a + l
<1>17. u \in Seq(S) /\ Len(u) = m /\ m \in Nat BY <1>2, <1>4, <1>9
<1>18. Sources = u \o hs BY <1>6
<1>19. ASSUME NEW k \in 1..a PROVE k \in 1..m /\ u[k] = fs[k]
  <2>1. k \in 1..m /\ k <= a BY <1>2, <1>4
  <2> QED BY <1>9, <2>1
<1>20. ASSUME NEW k \in 1..l PROVE a + k \in 1..m /\ u[a + k] = gs[k]
  <2> DEFINE i == a + k
  <2>1. i \in 1..m /\ ~(i <= a) /\ i - a = k BY <1>2, <1>4
  <2> HIDE DEF i
  <2>2. u[i] = gs[k] BY <1>9, <2>1
  <2> QED BY <2>1, <2>2 DEF i
<1> HIDE DEF u, m
<1>10. /\ u \o hs \in Seq(S) /\ Len(u \o hs) = m + b
       /\ \A i \in 1..m + b : (u \o hs)[i] = IF i <= m THEN u[i] ELSE hs[i - m]
  BY <1>7, <1>17, ConcatProperties
<1>21. ASSUME NEW k \in 1..m PROVE Sources[k] = u[k]
  <2>1. k \in 1..m + b /\ k <= m BY <1>3, <1>17
  <2> QED BY <1>10, <1>18, <2>1
<1>22. ASSUME NEW k \in 1..b PROVE Sources[m + k] = hs[k]
  <2> DEFINE i == m + k
  <2>1. i \in 1..m + b /\ ~(i <= m) /\ i - m = k BY <1>3, <1>17
  <2> HIDE DEF i
  <2>2. Sources[i] = hs[k] BY <1>10, <1>18, <2>1
  <2> QED BY <2>2 DEF i
<1>11. DOMAIN Sources = 1..a + l + b BY <1>10, <1>18, LenProperties DEF m
<1>12. \A k \in 1..a : Sources[k] = F(k) BY <1>8, <1>19, <1>21
<1>13. \A k \in 1..l : Sources[a + k] = G(k) BY <1>8, <1>20, <1>21
<1>14. \A k \in 1..b : Sources[a + l + k] = H(k) BY <1>8, <1>22 DEF m
<1>15. \A k \in 1..a : AssignmentsGiven[k] = F(k) BY <1>5, <1>8
<1> QED BY <1>2, <1>3, <1>4, <1>11, <1>12, <1>13, <1>14, <1>15 DEF a, l, b, vs, F, G, H, AllCount

\* An entry has its source and its key.
LEMMA EntryFields ==
  ASSUME NEW x, NEW o PROVE Entry(x, o).origin = o /\ Entry(x, o).key = x.key
BY DEF Entry

\* A place of three sequences in a row is one of the first, the second or the third.
LEMMA ThreeParts ==
  ASSUME NEW a \in Nat, NEW l \in Nat, NEW b \in Nat, NEW i \in 1..a + l + b
  PROVE \/ i \in 1..a
        \/ i - a \in 1..l /\ i = a + (i - a) /\ i > a /\ i <= a + l
        \/ i - (a + l) \in 1..b /\ i = a + l + (i - (a + l)) /\ i > a /\ i > a + l
<1>1. i \in Nat /\ i > 0 /\ i <= a + l + b OBVIOUS
<1>2. CASE i <= a BY <1>1, <1>2
<1>3. CASE i > a /\ i <= a + l BY <1>1, <1>3
<1>4. CASE i > a + l BY <1>1, <1>4
<1> QED BY <1>1, <1>2, <1>3, <1>4

\* The sources are laid out by rank.
LEMMA SourcesLayout ==
  ASSUME Called
  PROVE Layout(Sources, FlagCount, LineCount, AllCount)
<1> DEFINE a == FlagCount  l == LineCount  b == Len(world.builtins)  N == AllCount  ss == Sources
<1>1. a \in Nat /\ l \in Nat /\ b \in Nat BY SourcesAre
<1>2. N = a + l + b BY DEF AllCount
<1>10. /\ \A k \in 1..a : ss[k] = Entry(Meaning[ValuesGiven(args, "--env")[k]], "flag")
       /\ \A k \in 1..l : ss[a + k] = Entry(Unquoted(world.lines[k]), "file")
       /\ \A k \in 1..b : ss[a + l + k] = Entry(world.builtins[k], "builtin")
  BY SourcesAre
<1>6. \A i, j \in 1..b : world.builtins[i].key = world.builtins[j].key => i = j
  <2>1. <<args, world>> \in Cases BY DEF Called
  <2>2. \A i, j \in DOMAIN <<args, world>>[2].builtins :
          <<args, world>>[2].builtins[i].key = <<args, world>>[2].builtins[j].key => i = j
    BY <2>1, FrontEndAssumption
  <2>3. DOMAIN world.builtins = 1..b BY SourcesAre
  <2> QED BY <2>2, <2>3
<1> HIDE DEF a, l, b, N, ss
<1>3. \A k \in 1..a : ss[k].origin = "flag" BY <1>10, EntryFields
<1>4. \A k \in 1..l : ss[a + k].origin = "file" BY <1>10, EntryFields
<1>5. \A k \in 1..b : ss[a + l + k].origin = "builtin" /\ ss[a + l + k].key = world.builtins[k].key
  BY <1>10, EntryFields
<1>7. ASSUME NEW i \in 1..N
      PROVE \/ i \in 1..a
            \/ i - a \in 1..l /\ i = a + (i - a) /\ i > a /\ i <= a + l
            \/ i - (a + l) \in 1..b /\ i = a + l + (i - (a + l)) /\ i > a /\ i > a + l
  BY <1>1, <1>2, ThreeParts
<1>8. ASSUME NEW i \in 1..N
      PROVE ss[i].origin = IF i <= a THEN "flag" ELSE IF i <= a + l THEN "file" ELSE "builtin"
  <2>1. CASE i \in 1..a
    <3>1. i <= a BY <1>1, <2>1
    <3> QED BY <1>3, <2>1, <3>1
  <2>2. CASE i - a \in 1..l /\ i = a + (i - a) /\ i > a /\ i <= a + l
    <3>1. ss[i].origin = "file" BY <1>4, <2>2
    <3>2. ~(i <= a) /\ i <= a + l BY <1>1, <2>2
    <3> QED BY <3>1, <3>2
  <2>3. CASE i - (a + l) \in 1..b /\ i = a + l + (i - (a + l)) /\ i > a /\ i > a + l
    <3>1. ss[i].origin = "builtin" BY <1>5, <2>3
    <3>2. ~(i <= a) /\ ~(i <= a + l) BY <1>1, <2>3
    <3> QED BY <3>1, <3>2
  <2> QED BY <1>7, <2>1, <2>2, <2>3
<1>9. ASSUME NEW i \in 1..N, NEW j \in 1..N, ss[i].origin = "builtin", ss[j].origin = "builtin",
             ss[i].key = ss[j].key
      PROVE i = j
  <2>1. ~(i <= a + l) /\ ~(i <= a) BY <1>8, <1>9
  <2>2. ~(j <= a + l) /\ ~(j <= a) BY <1>8, <1>9
  <2>3. /\ i - (a + l) \in 1..b /\ i = a + l + (i - (a + l))
        /\ j - (a + l) \in 1..b /\ j = a + l + (j - (a + l)) BY <1>1, <1>2, <2>1, <2>2
  <2>4. ss[i].key = world.builtins[i - (a + l)].key /\ ss[j].key = world.builtins[j - (a + l)].key
    BY <1>5, <2>3
  <2>5. i - (a + l) = j - (a + l) BY <1>6, <1>9, <2>3, <2>4
  <2> QED BY <2>3, <2>5
<1> QED BY <1>8, <1>9 DEF Layout, a, l, b, N, ss
----------------------------------------------------------------------------
(* The folds fill the store as the sources say.                            *)

\* Every assignment is among the entries a store may have.
LEMMA SourceIn ==
  ASSUME NEW n \in DOMAIN Sources PROVE Sources[n] \in EntrySet
BY DEF EntrySet

\* The empty store is what no assignment leaves.
LEMMA EmptyHolds == ASSUME NEW ss PROVE Empty \in Store(EntrySet) /\ Holds(Empty, ss, 0)
<1>1. Empty.entries = <<>> /\ Empty \in Store(EntrySet) BY DEF Empty, Store
<1>2. DOMAIN <<>> = {} /\ \A k \in 1..0 : FALSE OBVIOUS
<1>3. Leaves(<<>>, ss, 0) BY <1>2 DEF Leaves
<1> QED BY <1>1, <1>3 DEF Holds

\* After the command line.
LEMMA FlagsFill ==
  ASSUME Called, NEW fv, DOMAIN fv = 1..FlagCount,
         \A k \in 1..FlagCount : fv[k] = Meaning[ValuesGiven(args, "--env")[k]]
  PROVE /\ SetAll(Empty, fv, "flag") \in Store(EntrySet)
        /\ Holds(SetAll(Empty, fv, "flag"), Sources, FlagCount)
<1> DEFINE a == FlagCount  l == LineCount  N == AllCount  ss == Sources  X == Store(EntrySet)
<1>1. a \in Nat /\ l \in Nat /\ N \in Nat /\ \A k \in 1..a : k \in 1..N BY SourcesAre DEF AllCount
<1>2. \A k \in 1..a : ss[k] = Entry(fv[k], "flag") /\ ss[k] \in EntrySet
  <2>1. \A k \in 1..a : ss[k] = Entry(Meaning[ValuesGiven(args, "--env")[k]], "flag") BY SourcesAre
  <2>2. DOMAIN ss = 1..N BY SourcesAre
  <2> QED BY <1>1, <2>1, <2>2, SourceIn
<1>3. Layout(ss, a, l, N) BY SourcesLayout
<1>4. DOMAIN fv = 1..a OBVIOUS
<1> HIDE DEF a, l, N, ss
<1>5. \A x \in X, k \in 1..a : Set(x, fv[k], "flag") \in X BY <1>2, SetType
<1>6. Empty \in X /\ Holds(Empty, ss, 0) BY EmptyHolds
<1>14. Empty \in X BY <1>6
<1>15. a \in Nat BY <1>1
<1> HIDE DEF X
<1>16. FlagsStay(X, a, fv) BY <1>4, <1>5 DEF FlagsStay
<1>17. PICK f : FlagRun(f, X, Empty, a, fv) BY <1>14, <1>15, <1>16, SetAllFold
<1>7. /\ f \in [0..a -> X] /\ f[0] = Empty /\ f[a] = SetAll(Empty, fv, "flag")
      /\ \A k \in 1..a : f[k] = Set(f[k - 1], fv[k], "flag")
  BY <1>17 DEF FlagRun
<1> DEFINE S == {k \in 0..a : Holds(f[k], ss, k)}
<1>8. 0 \in S BY <1>1, <1>6, <1>7
<1>9. ASSUME NEW k \in 1..a, k - 1 \in S PROVE k \in S
  <2>1. k \in 1..N /\ k <= a /\ k - 1 \in 0..a /\ k \in 0..a BY <1>1
  <2>2. f[k - 1] \in Store(EntrySet) BY <1>7, <2>1 DEF X
  <2>3. Holds(f[k - 1], ss, k - 1) BY <1>9
  <2>4. Holds(Set(f[k - 1], fv[k], "flag"), ss, k) BY <1>1, <1>2, <1>3, <2>1, <2>2, <2>3, FlagHolds
  <2> QED BY <1>7, <2>1, <2>4
<1>10. Holds(f[a], ss, a)
  <2> HIDE DEF S
  <2>1. \A k \in 0..a : k \in S BY <1>1, <1>8, <1>9, Climb
  <2> QED BY <1>1, <2>1 DEF S
<1>11. f[a] \in X BY <1>1, <1>7
<1> QED BY <1>7, <1>10, <1>11 DEF a, ss, X

\* After the project file.
LEMMA LinesFill ==
  ASSUME Called, Reads, NEW s \in Store(EntrySet), Holds(s, Sources, FlagCount)
  PROVE /\ LoadFile(s, world.lines) \in Store(EntrySet)
        /\ Holds(LoadFile(s, world.lines), Sources, FlagCount + LineCount)
<1> DEFINE a == FlagCount  l == LineCount  N == AllCount  ss == Sources  X == Store(EntrySet)
           ws == world.lines
<1>1. a \in Nat /\ l \in Nat /\ N \in Nat /\ DOMAIN ws = 1..l /\ \A k \in 1..l : a + k \in 1..N
  BY SourcesAre DEF AllCount
<1>2. \A k \in 1..l : ss[a + k] = Entry(Unquoted(ws[k]), "file") /\ ss[a + k] \in EntrySet
  <2>1. \A k \in 1..l : ss[a + k] = Entry(Unquoted(ws[k]), "file") BY SourcesAre
  <2>2. DOMAIN ss = 1..N BY SourcesAre
  <2> QED BY <1>1, <2>1, <2>2, SourceIn
<1>3. Layout(ss, a, l, N) BY SourcesLayout
<1>4. \A k \in 1..l : Unquoted(ws[k]).key = ws[k].key
  <2>2. ws \in Seq([key : STRING, text : STRING, quotes : Nat]) BY CaseType DEF World
  <2>3. Len(ws) \in Nat /\ DOMAIN ws = 1..Len(ws) BY <2>2, LenProperties
  <2>1. \A k \in DOMAIN ws : ws[k] \in [key : STRING, text : STRING, quotes : Nat]
    <3> HIDE DEF ws
    <3> QED BY <2>2, <2>3, ElementOfSeq
  <2> QED BY <1>1, <2>1 DEF Unquoted
<1>12. Holds(s, ss, a) OBVIOUS
<1> HIDE DEF a, l, N, ss, ws
<1>5. ASSUME NEW x \in X, NEW k \in 1..l PROVE Line(x, ws[k]) \in X
  <2>1. Set(x, Unquoted(ws[k]), "file") \in X BY <1>2, SetType
  <2> QED BY <2>1 DEF Line
<1>14. l \in Nat /\ DOMAIN ws = 1..l /\ s \in X BY <1>1
<1> HIDE DEF X
<1>15. LinesStay(X, l, ws) BY <1>5, <1>14 DEF LinesStay
<1>16. PICK f : LinesRun(f, X, s, l, ws) BY <1>14, <1>15, LoadFileFold
<1>7. /\ f \in [0..l -> X] /\ f[0] = s /\ f[l] = LoadFile(s, ws)
      /\ \A k \in 1..l : f[k] = Line(f[k - 1], ws[k])
  BY <1>16 DEF LinesRun
<1> DEFINE S == {k \in 0..l : Holds(f[k], ss, a + k)}
<1>8. 0 \in S
  <2>1. a + 0 = a /\ 0 \in 0..l BY <1>1
  <2> QED BY <1>7, <1>12, <2>1
<1>9. ASSUME NEW k \in 1..l, k - 1 \in S PROVE k \in S
  <2> DEFINE n == a + k
  <2>1. n \in 1..N /\ n > a /\ n <= a + l /\ k - 1 \in 0..l /\ k \in 0..l /\ a + (k - 1) = n - 1
    BY <1>1
  <2>2. f[k - 1] \in Store(EntrySet) BY <1>7, <2>1 DEF X
  <2>3. Holds(f[k - 1], ss, n - 1) BY <1>9, <2>1
  <2>5. ss[n] = Entry(Unquoted(ws[k]), "file") /\ ss[n] \in EntrySet BY <1>2
  <2> HIDE DEF n
  <2>4. Holds(Line(f[k - 1], ws[k]), ss, n)
    BY <1>1, <1>3, <1>4, <2>1, <2>2, <2>3, <2>5, LineHolds
  <2> QED BY <1>7, <2>1, <2>4 DEF n
<1>10. Holds(f[l], ss, a + l)
  <2> HIDE DEF S
  <2>1. \A k \in 0..l : k \in S BY <1>1, <1>8, <1>9, Climb
  <2> QED BY <1>1, <2>1 DEF S
<1>11. f[l] \in X BY <1>1, <1>7
<1> QED BY <1>7, <1>10, <1>11 DEF a, l, ss, X, ws

\* After the launcher's own values.
LEMMA DefaultsFill ==
  ASSUME Called, NEW s \in Store(EntrySet), Holds(s, Sources, FlagCount + LineCount)
  PROVE /\ Defaults(s, world.builtins) \in Store(EntrySet)
        /\ Holds(Defaults(s, world.builtins), Sources, AllCount)
<1> DEFINE a == FlagCount  l == LineCount  b == Len(world.builtins)  N == AllCount
           ss == Sources  X == Store(EntrySet)  ws == world.builtins  m == a + l
<1>1. /\ a \in Nat /\ l \in Nat /\ N \in Nat /\ b \in Nat /\ m \in Nat /\ N = m + b
      /\ DOMAIN ws = 1..b /\ \A k \in 1..b : m + k \in 1..N
  BY SourcesAre DEF AllCount
<1>2. \A k \in 1..b : ss[m + k] = Entry(ws[k], "builtin") /\ ss[m + k] \in EntrySet
  <2>1. \A k \in 1..b : ss[m + k] = Entry(ws[k], "builtin") BY SourcesAre
  <2>2. DOMAIN ss = 1..N BY SourcesAre
  <2> QED BY <1>1, <2>1, <2>2, SourceIn
<1>3. Layout(ss, a, l, N) BY SourcesLayout
<1>12. Holds(s, ss, m) OBVIOUS
<1>13. m = a + l OBVIOUS
<1> HIDE DEF a, l, b, N, ss, ws, m
<1>5. ASSUME NEW x \in X, NEW k \in 1..b PROVE Default(x, ws[k], "builtin") \in X
  <2>1. Set(x, ws[k], "builtin") \in X BY <1>2, SetType
  <2> QED BY <2>1 DEF Default
<1>14. b \in Nat /\ DOMAIN ws = 1..b /\ s \in X BY <1>1
<1> HIDE DEF X
<1>15. DefaultsStay(X, b, ws) BY <1>5, <1>14 DEF DefaultsStay
<1>16. PICK f : DefaultsRun(f, X, s, b, ws) BY <1>14, <1>15, DefaultsFold
<1>7. /\ f \in [0..b -> X] /\ f[0] = s /\ f[b] = Defaults(s, ws)
      /\ \A k \in 1..b : f[k] = Default(f[k - 1], ws[k], "builtin")
  BY <1>16 DEF DefaultsRun
<1> DEFINE S == {k \in 0..b : Holds(f[k], ss, m + k)}
<1>8. 0 \in S
  <2>1. m + 0 = m /\ 0 \in 0..b BY <1>1
  <2> QED BY <1>7, <1>12, <2>1
<1>9. ASSUME NEW k \in 1..b, k - 1 \in S PROVE k \in S
  <2> DEFINE n == m + k
  <2>1. n \in 1..N /\ n > m /\ k - 1 \in 0..b /\ k \in 0..b /\ m + (k - 1) = n - 1 BY <1>1
  <2>2. f[k - 1] \in Store(EntrySet) BY <1>7, <2>1 DEF X
  <2>3. Holds(f[k - 1], ss, n - 1) BY <1>9, <2>1
  <2>5. ss[n] = Entry(ws[k], "builtin") /\ ss[n] \in EntrySet BY <1>2
  <2> HIDE DEF n
  <2>4. Holds(Default(f[k - 1], ws[k], "builtin"), ss, n)
    BY <1>1, <1>3, <1>13, <2>1, <2>2, <2>3, <2>5, DefaultHolds
  <2> QED BY <1>7, <2>1, <2>4 DEF n
<1>10. Holds(f[b], ss, m + b)
  <2> HIDE DEF S
  <2>1. \A k \in 0..b : k \in S BY <1>1, <1>8, <1>9, Climb
  <2> QED BY <1>1, <2>1 DEF S
<1>11. f[b] \in X BY <1>1, <1>7
<1> QED BY <1>1, <1>7, <1>10, <1>11 DEF N, ss, X, ws

\* What is left of the sources is what was promised.
LEMMA LeavesPromise ==
  ASSUME NEW es, NEW tt, NEW n \in Nat, Leaves(es, tt, n), NEW ss, DOMAIN ss = 1..n,
         \A k \in 1..n : ss[k] = tt[k]
  PROVE Promises(ss, es)
<1>1. \A i \in DOMAIN es : \E k \in 1..n : es[i] = ss[k] /\ WinsAmong(tt, k, n) BY DEF Leaves
<1>2. \A k \in 1..n : WinsAmong(tt, k, n) => Wins(ss, k) BY DEF WinsAmong, Wins
<1>3. ASSUME NEW k \in 1..n PROVE \E i \in DOMAIN es : es[i].key = ss[k].key
  <2>1. PICK i \in DOMAIN es : es[i].key = tt[k].key BY DEF Leaves
  <2>2. ss[k] = tt[k] OBVIOUS
  <2> QED BY <2>1, <2>2
<1>4. {es[i].key : i \in DOMAIN es} = {ss[i].key : i \in DOMAIN ss}
  <2>1. \A i \in DOMAIN es : es[i].key \in {ss[k].key : k \in 1..n} BY <1>1
  <2>2. \A k \in 1..n : ss[k].key \in {es[i].key : i \in DOMAIN es} BY <1>3
  <2> QED BY <2>1, <2>2
<1>5. ASSUME NEW p \in 1..n, NEW key, FirstAt(tt, p, key) PROVE FirstPlace(ss, key) = p
  <2> DEFINE Is(i) == ss[i].key = key /\ \A j \in DOMAIN ss : ss[j].key = key => i <= j
  <2>1. \A q \in 1..n : q < p => ss[q].key # key
    <3>1. \A q \in 1..n : q < p => q \in 1..p - 1 OBVIOUS
    <3> QED BY <1>5, <3>1 DEF FirstAt
  <2>2. Is(p) BY <1>5, <2>1 DEF FirstAt
  <2>3. \A i \in DOMAIN ss : Is(i) => i = p
    <3>1. \A i \in 1..n : i <= p /\ p <= i => i = p OBVIOUS
    <3> QED BY <2>2, <3>1
  <2>4. FirstPlace(ss, key) = CHOOSE i \in DOMAIN ss : Is(i) BY DEF FirstPlace
  <2> HIDE DEF Is
  <2> QED BY <2>2, <2>3, <2>4
<1>6. ASSUME NEW i \in DOMAIN es, NEW j \in DOMAIN es, i < j
      PROVE FirstPlace(ss, es[i].key) < FirstPlace(ss, es[j].key)
  <2>1. PICK p, q \in 1..n : p < q /\ FirstAt(tt, p, es[i].key) /\ FirstAt(tt, q, es[j].key)
    BY <1>6 DEF Leaves
  <2> QED BY <1>5, <2>1
<1>7. \A i \in DOMAIN es : Valid(es[i], es[i].origin) BY DEF Leaves
<1> QED BY <1>1, <1>2, <1>4, <1>6, <1>7 DEF Promises
----------------------------------------------------------------------------
(* What holds of a launcher at every stage.                                *)

Before == {"parse", "validate", "environment"}
After == {"probe", "confirm", "start", "wait", "ready", "rebuild", "project", "file"}

\* The call has been found right; its --env assignments; its skills directory.
Validated ==
  Validate(cfg, IllFormedSessions) = NoFailure /\ ValidSelection(cfg, world) /\ ~cfg.help
FlagsRight == \A k \in DOMAIN AssignmentsGiven : Valid(AssignmentsGiven[k], "flag")
SkillsRight == Value(cfg, "--share-skills") \in Dirs \cup {""}

\* The store is what the first n assignments leave, none of them refused.
Filling(n) ==
  store \in Store(EntrySet) /\ ~store.refused /\ Leaves(store.entries, Sources, n)

Parsed == pc # "parse" => cfg = Parse(args) /\ runtime = Select(cfg, world)
Checks ==
  /\ pc = "validate" => ~cfg.help
  /\ pc \in After \cup {"environment", "injection"} => Validated
  /\ pc \in After \cup {"injection"} => FlagsRight /\ SkillsRight
Stored ==
  /\ pc \in Before => store = Empty
  /\ pc \in After => Filling(FlagCount)
  /\ pc = "injection" => Filling(AllCount)
Contact ==
  contacted # {} =>
    pc \notin Before /\ contacted = {runtime} /\ Validated /\ FlagsRight /\ SkillsRight
Asking == asked \/ pc = "confirm" => contacted # {} /\ Startable
Building ==
  /\ attempts # <<>> \/ pc = "rebuild" => pc # "parse" /\ Validated /\ RebuildMode(cfg) # "none"
Going == pc # "done" => outcome = Running

\* What was handed on is what the command line says.
Handed ==
  LET command == CommandGiven(args)
      extended == {command} \cup {command \o MountsNamed(p[2]) : p \in ToSet(world.injected)}
  IN  /\ outcome.kind = "launch" =>
           IF command = <<>> THEN outcome.command \in {<<>>, <<ShellPath>>, <<ZellijShell>>}
           ELSE outcome.command \in extended
      /\ outcome.kind = "attach" =>
           outcome.command = IF command = <<>> THEN <<ShellPath>> ELSE command
      /\ outcome.kind = "zellij-attach" => command = <<>>

FrontInv ==
  /\ Called /\ Parsed /\ Checks /\ Stored /\ Contact /\ Asking /\ Building /\ Going
  /\ Handed /\ EnvironmentAsPromised

\* The sources are those of the call.
LEMMA SameSources ==
  ASSUME UNCHANGED <<args, world, cfg>>
  PROVE /\ AssignmentsGiven' = AssignmentsGiven /\ Sources' = Sources
        /\ EntrySet' = EntrySet
        /\ FlagCount' = FlagCount /\ AllCount' = AllCount
<1>1. AssignmentsGiven' = AssignmentsGiven BY DEF AssignmentsGiven
<1>2. Sources' = Sources BY <1>1 DEF Sources
<1>3. EntrySet' = EntrySet BY <1>2 DEF EntrySet
<1>4. FlagCount' = FlagCount /\ AllCount' = AllCount BY DEF FlagCount, AllCount, LineCount, Reads
<1> QED BY <1>1, <1>2, <1>3, <1>4

\* The call, what it says and whether it is right do not change.
LEMMA SameCall ==
  ASSUME UNCHANGED <<args, world, cfg, runtime>>
  PROVE /\ Called' <=> Called
        /\ (cfg = Parse(args))' <=> cfg = Parse(args)
        /\ (runtime = Select(cfg, world))' <=> runtime = Select(cfg, world)
        /\ Validated' <=> Validated
        /\ FlagsRight' <=> FlagsRight
        /\ SkillsRight' <=> SkillsRight
        /\ Startable' <=> Startable
        /\ (RebuildMode(cfg) # "none")' <=> RebuildMode(cfg) # "none"
        /\ (store' = store /\ Filling(FlagCount)) => Filling(FlagCount)'
        /\ (store' = store /\ Filling(AllCount)) => Filling(AllCount)'
        /\ outcome' = outcome => (Handed' <=> Handed)
        /\ outcome' = outcome => (EnvironmentAsPromised' <=> EnvironmentAsPromised)
<1>1. AssignmentsGiven' = AssignmentsGiven BY SameSources
<1>2. Sources' = Sources BY SameSources
<1>3. EntrySet' = EntrySet BY SameSources
<1>4. FlagCount' = FlagCount /\ AllCount' = AllCount BY SameSources
<1>5. Called' <=> Called BY DEF Called
<1>6. Validated' <=> Validated BY DEF Validated
<1>7. FlagsRight' <=> FlagsRight BY <1>1 DEF FlagsRight
<1>8. SkillsRight' <=> SkillsRight BY DEF SkillsRight
<1>9. Startable' <=> Startable BY DEF Startable
<1>10. ASSUME store' = store PROVE /\ Filling(FlagCount) => Filling(FlagCount)'
                                   /\ Filling(AllCount) => Filling(AllCount)'
  BY <1>2, <1>3, <1>4, <1>10 DEF Filling
<1>11. ASSUME outcome' = outcome PROVE Handed' <=> Handed BY <1>11 DEF Handed, MountsNamed
<1>12. ASSUME outcome' = outcome PROVE EnvironmentAsPromised' <=> EnvironmentAsPromised
  BY <1>2, <1>12 DEF EnvironmentAsPromised
<1> QED BY <1>5, <1>6, <1>7, <1>8, <1>9, <1>10, <1>11, <1>12

\* Nothing is promised of a launcher that goes on, gives up or prints help.
Silent(o) == o.kind \in {"running", "exit", "help"}

\* The outcomes that are silent.
LEMMA SilentOutcomes ==
  /\ Silent(Running) /\ Silent([Running EXCEPT !.kind = "help"])
  /\ \A status : Silent(Ended(status))
BY DEF Silent, Running, Ended

\* Of a silent outcome the promises hold.
LEMMA SilentHands == ASSUME Silent(outcome) PROVE Handed /\ EnvironmentAsPromised
BY DEF Silent, Handed, EnvironmentAsPromised

\* What every action after the first keeps, if it hands nothing on.
LEMMA Frame ==
  ASSUME FrontInv, UNCHANGED <<args, world, cfg, runtime>>, pc # "parse",
         outcome' = outcome \/ Silent(outcome')
  PROVE Called' /\ Parsed' /\ Handed' /\ EnvironmentAsPromised'
<1>1. Called' /\ Parsed' BY SameCall DEF FrontInv, Parsed
<1>2. CASE outcome' = outcome BY <1>1, <1>2, SameCall DEF FrontInv
<1>3. CASE Silent(outcome')
  <2>1. Handed' /\ EnvironmentAsPromised' BY <1>3, SilentHands DEF Silent, Handed, EnvironmentAsPromised
  <2> QED BY <1>1, <2>1
<1> QED BY <1>1, <1>2, <1>3

\* The invariant holds initially.
LEMMA InitInv == ASSUME Init PROVE FrontInv
<1>1. pc = "parse" /\ contacted = {} /\ asked = FALSE /\ attempts = <<>> /\ store = Empty
      /\ outcome = Running
  BY DEF Init
<1>2. Called
  <2>1. PICK c \in Cases : args = c[1] /\ world = c[2] BY DEF Init
  <2>2. c \in Seq(Token) \X World BY FrontEndAssumption
  <2>3. c = <<args, world>> BY <2>1, <2>2
  <2> QED BY <2>3 DEF Called
<1>3. Parsed /\ Checks /\ Stored BY <1>1 DEF Parsed, Checks, Stored, Before, After
<1>4. Contact /\ Asking /\ Building /\ Going BY <1>1 DEF Contact, Asking, Building, Going
<1>5. Handed /\ EnvironmentAsPromised BY <1>1, SilentOutcomes, SilentHands
<1> QED BY <1>2, <1>3, <1>4, <1>5 DEF FrontInv

\* Every action keeps the invariant.
LEMMA ParseArgsKeeps == ASSUME FrontInv, ParseArgs PROVE FrontInv'
<1>1. /\ pc = "parse" /\ cfg' = Parse(args) /\ runtime' = Select(cfg', world)
      /\ args' = args /\ world' = world /\ store' = store /\ attempts' = attempts
      /\ contacted' = contacted /\ asked' = asked
  BY DEF ParseArgs
<1>2. \/ pc' = "done" /\ Silent(outcome')
      \/ pc' = "validate" /\ ~cfg'.help /\ outcome' = outcome
  BY SilentOutcomes DEF ParseArgs, Finish, Goto, Exit
<1>3. Called' BY <1>1 DEF FrontInv, Called
<1>4. contacted = {} /\ store = Empty /\ outcome = Running
  BY <1>1 DEF FrontInv, Contact, Stored, Going, Before
<1>5. ~asked /\ attempts = <<>>
  <2>1. ~asked BY <1>4 DEF FrontInv, Asking
  <2>2. ~(attempts # <<>>) BY <1>1 DEF FrontInv, Building
  <2> QED BY <2>1, <2>2
<1>6. Parsed' BY <1>1 DEF Parsed
<1>7. Checks' /\ Stored' BY <1>1, <1>2, <1>4 DEF Checks, Stored, Before, After
<1>8. Contact' /\ Asking' /\ Building' BY <1>1, <1>2, <1>4, <1>5 DEF Contact, Asking, Building
<1>9. Going' BY <1>2, <1>4 DEF Going
<1>10. Handed' /\ EnvironmentAsPromised'
  <2>1. Silent(outcome') BY <1>2, <1>4, SilentOutcomes
  <2> QED BY <2>1 DEF Silent, Handed, EnvironmentAsPromised
<1> QED BY <1>3, <1>6, <1>7, <1>8, <1>9, <1>10 DEF FrontInv

LEMMA CheckCommandLineKeeps == ASSUME FrontInv, CheckCommandLine PROVE FrontInv'
<1>1. /\ pc = "validate" /\ UNCHANGED <<args, world, cfg, runtime>> /\ store' = store
      /\ attempts' = attempts /\ contacted' = contacted /\ asked' = asked
  BY DEF CheckCommandLine
<1>2. \/ pc' = "done" /\ Silent(outcome')
      \/ pc' = "environment" /\ Validate(cfg, IllFormedSessions) = NoFailure
                             /\ ValidSelection(cfg, world) /\ outcome' = outcome
  BY SilentOutcomes DEF CheckCommandLine, Finish, Goto, Exit
<1>3. store = Empty /\ ~cfg.help /\ contacted = {} /\ outcome = Running
  BY <1>1 DEF FrontInv, Stored, Checks, Contact, Going, Before
<1>4. ~asked BY <1>3 DEF FrontInv, Asking
<1>5. Called' /\ Parsed' /\ Handed' /\ EnvironmentAsPromised' BY <1>1, <1>2, Frame
<1>6. pc' = "environment" => Validated' BY <1>1, <1>2, <1>3, SameCall DEF Validated
<1>7. Checks' /\ Stored' BY <1>1, <1>2, <1>3, <1>6 DEF Checks, Stored, Before, After
<1>8. Contact' /\ Asking' BY <1>1, <1>2, <1>3, <1>4 DEF Contact, Asking
<1>9. Building' BY <1>1, <1>2, SameCall DEF FrontInv, Building
<1>10. Going' BY <1>2, <1>3 DEF Going
<1> QED BY <1>5, <1>7, <1>8, <1>9, <1>10 DEF FrontInv

\* What a call that has been found right says.
LEMMA CallMeans ==
  ASSUME Called, Parsed, pc # "parse", Validated
  PROVE /\ cfg.command = CommandGiven(args)
        /\ cfg.val["--env"] = ValuesGiven(args, "--env")
        /\ cfg.val["--mount"] = ValuesGiven(args, "--mount")
        /\ \A h \in {Runtime, "--share-skills"} :
             LET vs == ValuesGiven(args, h)
             IN  Value(cfg, h) = (IF vs = <<>> THEN "" ELSE Last(vs)) /\ (vs # <<>> => Last(vs) # "")
        /\ ~(cfg.command # <<>> /\ IsOn(cfg, "--shell"))
        /\ ~(cfg.command # <<>> /\ RebuildMode(cfg) # "none")
        /\ ~(cfg.command # <<>> /\ IsOn(cfg, "--zellij") /\ IsOn(cfg, "--attach"))
<1>1. args \in Seq(Token) /\ cfg = Parse(args) BY CaseType DEF Parsed
<1>2. /\ cfg.failure = NoFailure
      /\ ~(cfg.command # <<>> /\ IsOn(cfg, "--shell"))
      /\ ~(cfg.command # <<>> /\ RebuildMode(cfg) # "none")
      /\ ~(cfg.command # <<>> /\ IsOn(cfg, "--zellij") /\ IsOn(cfg, "--attach"))
  BY ValidateMeans DEF Validated, Refused
<1>3. /\ cfg.command = CommandGiven(args)
      /\ \A h \in Ours : /\ cfg.val[h] = Kept(h, ValuesGiven(args, h))
                         /\ Filled(h, ValuesGiven(args, h))
  BY <1>1, <1>2, ParseMeans
<1>4. /\ cfg.val["--env"] = ValuesGiven(args, "--env")
      /\ cfg.val["--mount"] = ValuesGiven(args, "--mount")
  BY <1>3 DEF Ours, Kept, Lists
<1>5. ASSUME NEW h \in {Runtime, "--share-skills"}
      PROVE LET vs == ValuesGiven(args, h)
            IN  Value(cfg, h) = (IF vs = <<>> THEN "" ELSE Last(vs)) /\ (vs # <<>> => Last(vs) # "")
  <2> DEFINE vs == ValuesGiven(args, h)
  <2>1. h \in Ours /\ h \notin Lists BY OursFlags DEF Ours, Lists, Runtime
  <2>2. cfg.val[h] = Kept(h, vs) /\ Filled(h, vs) BY <1>3, <2>1
  <2> HIDE DEF vs
  <2>3. vs # <<>> => Last(vs) # "" BY <2>2 DEF Filled
  <2>4. ASSUME vs = <<>> PROVE Value(cfg, h) = ""
    <3>1. cfg.val[h] = <<>> BY <2>1, <2>2, <2>4 DEF Kept
    <3> QED BY <3>1 DEF Value, IsSet
  <2>5. ASSUME vs # <<>> PROVE Value(cfg, h) = Last(vs)
    <3>1. cfg.val[h] = <<Last(vs)>> BY <2>1, <2>2, <2>5 DEF Kept
    <3>2. cfg.val[h] # <<>> /\ Last(cfg.val[h]) = Last(vs) BY <3>1 DEF Last
    <3> QED BY <3>2 DEF Value, IsSet
  <2> QED BY <2>3, <2>4, <2>5 DEF vs
<1> QED BY <1>2, <1>3, <1>4, <1>5

\* The command line fills the store, or the call is refused.
LEMMA SetFlagsKeeps == ASSUME FrontInv, SetFlags PROVE FrontInv'
<1>1. /\ pc = "environment" /\ UNCHANGED <<args, world, cfg, runtime>>
      /\ store' = SetAll(store, FlagValues(cfg), "flag")
      /\ attempts' = attempts /\ contacted' = contacted /\ asked' = asked
  BY DEF SetFlags
<1>2. \/ pc' = "done" /\ Silent(outcome')
      \/ pc' = "probe" /\ ~store'.refused /\ SkillsRight /\ outcome' = outcome
  BY SilentOutcomes DEF SetFlags, Finish, Goto, Exit, SkillsRight
<1>3. /\ store = Empty /\ Validated /\ contacted = {} /\ outcome = Running /\ Called /\ Parsed
  BY <1>1 DEF FrontInv, Stored, Checks, Contact, Going, Before
<1>4. ~asked BY <1>3 DEF FrontInv, Asking
<1>5. Called' /\ Parsed' /\ Handed' /\ EnvironmentAsPromised' BY <1>1, <1>2, Frame
<1> DEFINE vs == ValuesGiven(args, "--env")
<1>6. cfg.val["--env"] = vs /\ DOMAIN vs = 1..FlagCount BY <1>1, <1>3, CallMeans, SourcesAre
<1>7. /\ DOMAIN FlagValues(cfg) = 1..FlagCount
      /\ \A k \in 1..FlagCount : FlagValues(cfg)[k] = Meaning[vs[k]]
  BY <1>6 DEF FlagValues
<1>8. /\ SetAll(Empty, FlagValues(cfg), "flag") \in Store(EntrySet)
      /\ Holds(SetAll(Empty, FlagValues(cfg), "flag"), Sources, FlagCount)
  BY <1>3, <1>7, FlagsFill
<1>9. CASE pc' = "probe" /\ ~store'.refused /\ SkillsRight /\ outcome' = outcome
  <2>1. store' \in Store(EntrySet) /\ Leaves(store'.entries, Sources, FlagCount)
    BY <1>1, <1>3, <1>8, <1>9 DEF Holds
  <2>2. FlagsRight
    <3>1. DOMAIN AssignmentsGiven = 1..FlagCount BY <1>6 DEF AssignmentsGiven
    <3>2. ASSUME NEW k \in 1..FlagCount PROVE Valid(AssignmentsGiven[k], "flag")
      <4>1. AssignmentsGiven[k] = Sources[k] /\ Sources[k] = Entry(Meaning[vs[k]], "flag")
        BY <1>3, SourcesAre
      <4>4. Entry(Meaning[vs[k]], "flag").origin = "flag" BY EntryFields
      <4>2. Sources[k].origin = "flag" BY <4>1, <4>4
      <4>3. Valid(Sources[k], "flag") BY <2>1, <4>2 DEF Leaves
      <4> QED BY <4>1, <4>3
    <3> QED BY <3>1, <3>2 DEF FlagsRight
  <2>3. Filling(FlagCount)'
    <3>1. Sources' = Sources /\ EntrySet' = EntrySet /\ FlagCount' = FlagCount
      BY <1>1, SameSources
    <3> QED BY <1>9, <2>1, <3>1 DEF Filling
  <2>4. Validated' /\ FlagsRight' /\ SkillsRight' BY <1>1, <1>3, <1>9, <2>2, SameCall
  <2>5. Checks' /\ Stored' BY <1>9, <2>3, <2>4 DEF Checks, Stored, Before, After
  <2>6. Contact' /\ Asking' BY <1>1, <1>3, <1>4, <1>9 DEF Contact, Asking
  <2>7. Building' BY <1>1, <1>9, SameCall DEF FrontInv, Building
  <2>8. Going' BY <1>3, <1>9 DEF Going
  <2> QED BY <1>5, <2>5, <2>6, <2>7, <2>8 DEF FrontInv
<1>10. CASE pc' = "done" /\ Silent(outcome')
  <2>1. Checks' /\ Stored' BY <1>10 DEF Checks, Stored, Before, After
  <2>2. Contact' /\ Asking' BY <1>1, <1>3, <1>4, <1>10 DEF Contact, Asking
  <2>3. Building' BY <1>1, <1>10, SameCall DEF FrontInv, Building
  <2>4. Going' BY <1>10 DEF Going
  <2> QED BY <1>5, <2>1, <2>2, <2>3, <2>4 DEF FrontInv
<1> QED BY <1>2, <1>9, <1>10

\* What a step between the later stages keeps, whatever it asks or builds.
LEMMA Onward ==
  ASSUME FrontInv, UNCHANGED <<args, world, cfg, runtime, store>>, pc \in After,
         \/ pc' \in After /\ outcome' = outcome
         \/ pc' = "done" /\ Silent(outcome'),
         contacted' \in {contacted, {runtime}}
  PROVE /\ Called' /\ Parsed' /\ Checks' /\ Stored' /\ Contact' /\ Handed'
        /\ EnvironmentAsPromised' /\ Going'
<1>1. /\ pc \notin Before /\ pc # "done" /\ pc # "injection" /\ pc # "parse" BY DEF Before, After
<1>2. Called' /\ Parsed' /\ Handed' /\ EnvironmentAsPromised' BY <1>1, Frame
<1>3. outcome = Running BY <1>1 DEF FrontInv, Going
<1>4. Validated /\ FlagsRight /\ SkillsRight /\ Filling(FlagCount) BY DEF FrontInv, Checks, Stored
<1>5. Validated' /\ FlagsRight' /\ SkillsRight' /\ Filling(FlagCount)' BY <1>4, SameCall
<1>6. /\ pc' \notin Before /\ pc' # "validate" /\ pc' # "injection"
      /\ pc' \in After => outcome' = outcome
      /\ pc' = "done" \/ pc' \in After BY DEF Before, After
<1>7. Going' BY <1>3, <1>6 DEF Going
<1>8. Checks' /\ Stored' BY <1>5, <1>6 DEF Checks, Stored
<1>9. Contact'
  <2>1. contacted' # {} => contacted' = {runtime} BY DEF FrontInv, Contact
  <2> QED BY <1>5, <1>6, <2>1 DEF Contact
<1> QED BY <1>2, <1>7, <1>8, <1>9

LEMMA ProbeRuntimeKeeps == ASSUME FrontInv, ProbeRuntime PROVE FrontInv'
<1>1. /\ pc = "probe" /\ UNCHANGED <<args, world, cfg, runtime, store>>
      /\ attempts' = attempts /\ asked' = asked /\ contacted' = contacted \cup {runtime}
  BY DEF ProbeRuntime
<1>2. \/ pc' \in {"ready"} /\ outcome' = outcome
      \/ pc' = "confirm" /\ Startable /\ outcome' = outcome
      \/ pc' = "done" /\ Silent(outcome')
  BY SilentOutcomes DEF ProbeRuntime, Finish, Goto, Exit
<1>3. contacted' = {runtime} BY <1>1 DEF FrontInv, Contact
<1>4. pc \in After /\ (pc' \in {"ready", "confirm"} => pc' \in After) BY <1>1 DEF After
<1>5. /\ Called' /\ Parsed' /\ Checks' /\ Stored' /\ Contact' /\ Handed'
      /\ EnvironmentAsPromised' /\ Going'
  BY <1>1, <1>2, <1>3, <1>4, Onward
<1>6. Asking' BY <1>1, <1>2, <1>3, SameCall DEF FrontInv, Asking
<1>7. Building' BY <1>1, <1>2, SameCall DEF FrontInv, Building
<1> QED BY <1>5, <1>6, <1>7 DEF FrontInv

LEMMA ConfirmKeeps == ASSUME FrontInv, Confirm PROVE FrontInv'
<1>1. /\ pc = "confirm" /\ UNCHANGED <<args, world, cfg, runtime, store>>
      /\ attempts' = attempts /\ contacted' = contacted
  BY DEF Confirm
<1>2. \/ pc' \in {"wait", "start"} /\ outcome' = outcome
      \/ pc' = "done" /\ Silent(outcome')
  BY SilentOutcomes DEF Confirm, Finish, Goto, Exit
<1>3. pc \in After /\ (pc' \in {"wait", "start"} => pc' \in After) BY <1>1 DEF After
<1>4. /\ Called' /\ Parsed' /\ Checks' /\ Stored' /\ Contact' /\ Handed'
      /\ EnvironmentAsPromised' /\ Going'
  BY <1>1, <1>2, <1>3, Onward
<1>5. Asking' BY <1>1, SameCall DEF FrontInv, Asking
<1>6. Building' BY <1>1, <1>2, SameCall DEF FrontInv, Building
<1> QED BY <1>4, <1>5, <1>6 DEF FrontInv

LEMMA StartAppleKeeps == ASSUME FrontInv, StartApple PROVE FrontInv'
<1>1. /\ pc = "start" /\ UNCHANGED <<args, world, cfg, runtime, store>>
      /\ attempts' = attempts /\ contacted' = contacted /\ asked' = asked
  BY DEF StartApple
<1>2. \/ pc' = "ready" /\ outcome' = outcome
      \/ pc' = "done" /\ Silent(outcome')
  BY SilentOutcomes DEF StartApple, Finish, Goto, Exit
<1>3. pc \in After /\ (pc' = "ready" => pc' \in After) BY <1>1 DEF After
<1>4. /\ Called' /\ Parsed' /\ Checks' /\ Stored' /\ Contact' /\ Handed'
      /\ EnvironmentAsPromised' /\ Going'
  BY <1>1, <1>2, <1>3, Onward
<1>5. Asking' BY <1>1, <1>2, SameCall DEF FrontInv, Asking
<1>6. Building' BY <1>1, <1>2, SameCall DEF FrontInv, Building
<1> QED BY <1>4, <1>5, <1>6 DEF FrontInv

LEMMA PollDockerKeeps == ASSUME FrontInv, PollDocker PROVE FrontInv'
<1>1. /\ pc = "wait" /\ UNCHANGED <<args, world, cfg, runtime, store>>
      /\ attempts' = attempts /\ contacted' = contacted /\ asked' = asked
      /\ pc' = "ready" /\ outcome' = outcome
  BY DEF PollDocker, Answered, Goto
<1>2. pc \in After /\ pc' \in After BY <1>1 DEF After
<1>3. /\ Called' /\ Parsed' /\ Checks' /\ Stored' /\ Contact' /\ Handed'
      /\ EnvironmentAsPromised' /\ Going'
  BY <1>1, <1>2, Onward
<1>4. Asking' BY <1>1, SameCall DEF FrontInv, Asking
<1>5. Building' BY <1>1, SameCall DEF FrontInv, Building
<1> QED BY <1>3, <1>4, <1>5 DEF FrontInv

\* The daemon, the sleeps and the end change nothing the invariant speaks of.
LEMMA IdleKeeps ==
  ASSUME FrontInv, UNCHANGED <<args, world, pc, cfg, runtime, store, attempts, contacted, asked, outcome>>
  PROVE FrontInv'
<1>1. Called' BY SameCall DEF FrontInv
<1>2. Parsed' BY SameCall DEF FrontInv, Parsed
<1>3. Checks' BY SameCall DEF FrontInv, Checks
<1>4. Stored' BY SameCall DEF FrontInv, Stored
<1>5. Contact' BY SameCall DEF FrontInv, Contact
<1>6. Asking' BY SameCall DEF FrontInv, Asking
<1>7. Building' BY SameCall DEF FrontInv, Building
<1>8. Going' BY DEF FrontInv, Going
<1>9. Handed' /\ EnvironmentAsPromised' BY SameCall DEF FrontInv
<1> QED BY <1>1, <1>2, <1>3, <1>4, <1>5, <1>6, <1>7, <1>8, <1>9 DEF FrontInv

LEMMA RebuildKeeps == ASSUME FrontInv, Rebuild PROVE FrontInv'
<1>1. /\ pc = "rebuild" /\ UNCHANGED <<args, world, cfg, runtime, store>>
      /\ contacted' = contacted /\ asked' = asked
  BY DEF Rebuild
<1>2. \/ pc' = "rebuild" /\ outcome' = outcome
      \/ pc' = "done" /\ Silent(outcome')
  BY <1>1, SilentOutcomes DEF Rebuild, Finish, Goto, Exit
<1>3. pc \in After /\ (pc' = "rebuild" => pc' \in After) BY <1>1 DEF After
<1>4. /\ Called' /\ Parsed' /\ Checks' /\ Stored' /\ Contact' /\ Handed'
      /\ EnvironmentAsPromised' /\ Going'
  BY <1>1, <1>2, <1>3, Onward
<1>5. Asking' BY <1>1, <1>2, SameCall DEF FrontInv, Asking
<1>6. Building'
  <2>1. Validated /\ RebuildMode(cfg) # "none" BY <1>1 DEF FrontInv, Building
  <2>2. pc' # "parse" BY <1>2
  <2> QED BY <1>1, <2>1, <2>2, SameCall DEF Building
<1> QED BY <1>4, <1>5, <1>6 DEF FrontInv

LEMMA ReadMountsKeeps == ASSUME FrontInv, ReadMounts PROVE FrontInv'
<1>1. /\ pc = "project" /\ UNCHANGED <<args, world, cfg, runtime, store>>
      /\ attempts' = attempts /\ contacted' = contacted /\ asked' = asked
  BY DEF ReadMounts
<1>2. \/ pc' = "file" /\ outcome' = outcome
      \/ pc' = "done" /\ Silent(outcome')
  BY SilentOutcomes DEF ReadMounts, Finish, Goto, Exit
<1>3. pc \in After /\ (pc' = "file" => pc' \in After) BY <1>1 DEF After
<1>4. /\ Called' /\ Parsed' /\ Checks' /\ Stored' /\ Contact' /\ Handed'
      /\ EnvironmentAsPromised' /\ Going'
  BY <1>1, <1>2, <1>3, Onward
<1>5. Asking' BY <1>1, <1>2, SameCall DEF FrontInv, Asking
<1>6. Building' BY <1>1, <1>2, SameCall DEF FrontInv, Building
<1> QED BY <1>4, <1>5, <1>6 DEF FrontInv

\* A launcher that hands on ends.
LEMMA HandsOver ==
  ASSUME FrontInv, UNCHANGED <<args, world, cfg, runtime, store, attempts, contacted, asked>>,
         pc # "parse", pc' = "done", Handed', EnvironmentAsPromised'
  PROVE FrontInv'
<1>1. Called' /\ Parsed' BY SameCall DEF FrontInv, Parsed
<1>2. Checks' /\ Stored' /\ Going' BY DEF Checks, Stored, Going, Before, After
<1>3. Contact'
  <2>1. contacted # {} => contacted = {runtime} /\ Validated /\ FlagsRight /\ SkillsRight
    BY DEF FrontInv, Contact
  <2> QED BY <2>1, SameCall DEF Contact, Before
<1>4. Asking' BY SameCall DEF FrontInv, Asking
<1>5. Building' BY SameCall DEF FrontInv, Building
<1> QED BY <1>1, <1>2, <1>3, <1>4, <1>5 DEF FrontInv

\* The hand-over to a running one, or the way on.
LEMMA DispatchKeeps == ASSUME FrontInv, Dispatch PROVE FrontInv'
<1> DEFINE mode == RebuildMode(cfg)  zellij == IsOn(cfg, "--zellij")
           given == [kind |-> IF zellij THEN "zellij-attach" ELSE "attach", status |-> 0,
                     command |-> IF zellij THEN <<>> ELSE AttachCommand(cfg),
                     env |-> IF zellij THEN <<>> ELSE store.entries]
<1>1. /\ pc = "ready" /\ UNCHANGED <<args, world, cfg, runtime, store>>
      /\ contacted' = contacted /\ asked' = asked
  BY DEF Dispatch
<1>2. CASE mode # "none"
  <2>1. /\ attempts' \in {attempts, Attempts(mode)}
        /\ \/ pc' = "done" /\ Silent(outcome')
           \/ pc' = "rebuild" /\ outcome' = outcome
    BY <1>2, SilentOutcomes DEF Dispatch, Finish, Goto, Exit
  <2>2. pc \in After /\ (pc' = "rebuild" => pc' \in After) BY <1>1 DEF After
  <2>3. /\ Called' /\ Parsed' /\ Checks' /\ Stored' /\ Contact' /\ Handed'
        /\ EnvironmentAsPromised' /\ Going'
    BY <1>1, <2>1, <2>2, Onward
  <2>4. Asking' BY <1>1, <2>1, SameCall DEF FrontInv, Asking
  <2>5. Validated BY <2>2 DEF FrontInv, Checks
  <2>6. pc' # "parse" BY <2>1
  <2>7. Building' BY <1>1, <1>2, <2>5, <2>6, SameCall DEF Building
  <2> QED BY <2>3, <2>4, <2>7 DEF FrontInv
<1>3. CASE mode = "none" /\ ~IsOn(cfg, "--attach")
  <2>1. attempts' = attempts /\ pc' = "project" /\ outcome' = outcome
    BY <1>3 DEF Dispatch, Goto
  <2>2. pc \in After /\ pc' \in After BY <1>1, <2>1 DEF After
  <2>3. /\ Called' /\ Parsed' /\ Checks' /\ Stored' /\ Contact' /\ Handed'
        /\ EnvironmentAsPromised' /\ Going'
    BY <1>1, <2>1, <2>2, Onward
  <2>4. Asking' BY <1>1, <2>1, SameCall DEF FrontInv, Asking
  <2>5. Building' BY <1>1, <2>1, SameCall DEF FrontInv, Building
  <2> QED BY <2>3, <2>4, <2>5 DEF FrontInv
<1>4. CASE mode = "none" /\ IsOn(cfg, "--attach")
  <2>1. attempts' = attempts /\ pc' = "done" /\ outcome' = given
    BY <1>4 DEF Dispatch, Finish
  <2>2. pc \in After /\ pc # "parse" BY <1>1 DEF After
  <2>3. Called /\ Parsed /\ Validated /\ Filling(FlagCount) BY <2>2 DEF FrontInv, Checks, Stored
  <2>4. cfg.command = CommandGiven(args) /\ (zellij => cfg.command = <<>>)
    BY <1>4, <2>2, <2>3, CallMeans
  <2>5. /\ outcome'.kind = (IF zellij THEN "zellij-attach" ELSE "attach")
        /\ ~zellij => outcome'.command = AttachCommand(cfg) /\ outcome'.env = store.entries
    BY <2>1
  <2>6. Handed'
    <3>1. outcome'.kind # "launch" /\ (outcome'.kind = "attach" => ~zellij)
          /\ (outcome'.kind = "zellij-attach" => zellij) BY <2>5
    <3>2. ~zellij => outcome'.command =
            IF CommandGiven(args) = <<>> THEN <<ShellPath>> ELSE CommandGiven(args)
      BY <2>4, <2>5 DEF AttachCommand
    <3>3. args' = args BY <1>1
    <3> HIDE DEF zellij, given
    <3> QED BY <2>4, <3>1, <3>2, <3>3 DEF Handed
  <2>7. EnvironmentAsPromised' BY <2>5 DEF EnvironmentAsPromised
  <2> QED BY <1>1, <2>1, <2>2, <2>6, <2>7, HandsOver
<1> QED BY <1>2, <1>3, <1>4

\* The project file and the launcher's own values complete the store.
LEMMA CompleteEnvKeeps == ASSUME FrontInv, CompleteEnv PROVE FrontInv'
<1> DEFINE reads == ~IsOn(cfg, "--no-project-env")
           loaded == IF reads /\ world.file = "regular" THEN LoadFile(store, world.lines) ELSE store
<1>1. /\ pc = "file" /\ UNCHANGED <<args, world, cfg, runtime>>
      /\ attempts' = attempts /\ contacted' = contacted /\ asked' = asked
  BY DEF CompleteEnv
<1>2. \/ pc' = "done" /\ Silent(outcome')
      \/ /\ pc' = "injection" /\ outcome' = outcome
         /\ store' = Defaults(loaded, world.builtins) /\ ~store'.refused
  BY SilentOutcomes DEF CompleteEnv, Finish, Goto, Exit
<1>3. pc # "parse" /\ pc \in After BY <1>1 DEF After
<1>4. /\ Called /\ Validated /\ FlagsRight /\ SkillsRight /\ Filling(FlagCount) /\ outcome = Running
  BY <1>1, <1>3 DEF FrontInv, Checks, Stored, Going
<1>5. Called' /\ Parsed' /\ Handed' /\ EnvironmentAsPromised' BY <1>1, <1>2, <1>3, Frame
<1>6. Validated' /\ FlagsRight' /\ SkillsRight' BY <1>1, <1>4, SameCall
<1>7. Contact'
  <2>1. contacted # {} => contacted = {runtime} BY DEF FrontInv, Contact
  <2> QED BY <1>1, <1>2, <1>6, <2>1 DEF Contact, Before
<1>8. Asking' BY <1>1, <1>2, SameCall DEF FrontInv, Asking
<1>9. Building' BY <1>1, <1>2, SameCall DEF FrontInv, Building
<1>10. Going' BY <1>2, <1>4 DEF Going
<1>11. Checks' BY <1>2, <1>6 DEF Checks, Before, After
<1>12. Stored'
  <2>1. CASE pc' = "done" BY <2>1 DEF Stored, Before, After
  <2>2. CASE /\ pc' = "injection" /\ outcome' = outcome
             /\ store' = Defaults(loaded, world.builtins) /\ ~store'.refused
    <3>1. store \in Store(EntrySet) /\ Holds(store, Sources, FlagCount)
      BY <1>4 DEF Filling, Holds
    <3>2. loaded \in Store(EntrySet) /\ Holds(loaded, Sources, FlagCount + LineCount)
      <4>1. CASE Reads
        <5>1. loaded = LoadFile(store, world.lines) BY <4>1 DEF Reads, IsOn
        <5> QED BY <1>4, <3>1, <4>1, <5>1, LinesFill
      <4>2. CASE ~Reads
        <5>1. loaded = store BY <4>2 DEF Reads, IsOn
        <5>2. FlagCount \in Nat BY <1>4, SourcesAre
        <5>3. FlagCount + LineCount = FlagCount BY <4>2, <5>2 DEF LineCount
        <5> QED BY <3>1, <5>1, <5>3
      <4> QED BY <4>1, <4>2
    <3> HIDE DEF loaded
    <3>3. store' \in Store(EntrySet) /\ Holds(store', Sources, AllCount)
      BY <1>4, <2>2, <3>2, DefaultsFill
    <3>4. Sources' = Sources /\ EntrySet' = EntrySet /\ AllCount' = AllCount
      BY <1>1, SameSources
    <3>5. Filling(AllCount)' BY <2>2, <3>3, <3>4 DEF Filling, Holds
    <3> QED BY <2>2, <3>5 DEF Stored, Before, After
  <2> QED BY <1>2, <2>1, <2>2
<1> QED BY <1>5, <1>7, <1>8, <1>9, <1>10, <1>11, <1>12 DEF FrontInv

\* The command of a container is that of the command line, at most with the
\* mounts appended.
LEMMA ContainerCommandIs ==
  ASSUME Called, Parsed, pc # "parse", Validated
  PROVE LET command == CommandGiven(args)
            extended == {command} \cup {command \o MountsNamed(p[2]) : p \in ToSet(world.injected)}
        IN  IF command = <<>> THEN ContainerCommand(cfg, world) \in {<<>>, <<ShellPath>>, <<ZellijShell>>}
            ELSE ContainerCommand(cfg, world) \in extended
<1> DEFINE command == CommandGiven(args)
           extended == {command} \cup {command \o MountsNamed(p[2]) : p \in ToSet(world.injected)}
           hits == {i \in DOMAIN world.injected :
                      cfg.command # <<>> /\ Head(cfg.command) = Word(world.injected[i][1])}
           flag == world.injected[Min(hits)][2]
           ms == cfg.val["--mount"]
<1>1. /\ cfg.command = command /\ ms = ValuesGiven(args, "--mount")
      /\ ~(cfg.command # <<>> /\ IsOn(cfg, "--shell"))
  BY CallMeans
<1>2. CASE command = <<>>
  <2>1. hits = {} BY <1>1, <1>2
  <2>2. InjectMountFlags(cfg, world) = cfg.command BY <2>1 DEF InjectMountFlags
  <2>3. ContainerCommand(cfg, world) \in {<<>>, <<ShellPath>>, <<ZellijShell>>}
    BY <1>1, <1>2, <2>2 DEF ContainerCommand
  <2> QED BY <1>2, <2>3
<1>3. CASE command # <<>>
  <2>1. ContainerCommand(cfg, world) = InjectMountFlags(cfg, world)
    BY <1>1, <1>3 DEF ContainerCommand
  <2>2. CASE world.injection # "regular" \/ hits = {}
    <3>1. InjectMountFlags(cfg, world) = cfg.command BY <2>2 DEF InjectMountFlags
    <3> QED BY <1>1, <1>3, <2>1, <3>1
  <2>3. CASE ~(world.injection # "regular" \/ hits = {})
    <3>1. Min(hits) \in DOMAIN world.injected
      <4>1. world.injected \in Seq(Seq(STRING)) BY CaseType DEF World
      <4>2. hits \in SUBSET Nat /\ hits # {}
        <5>1. DOMAIN world.injected \subseteq Nat BY <4>1, LenProperties
        <5> QED BY <2>3, <5>1
      <4> HIDE DEF hits
      <4>3. Min(hits) \in hits BY <4>2, MinIn
      <4> QED BY <4>3 DEF hits
    <3>2. world.injected[Min(hits)] \in ToSet(world.injected) BY <3>1, Zenon DEF ToSet
    <3>3. InjectMountFlags(cfg, world) =
            cfg.command \o FlattenSeq([i \in DOMAIN ms |-> <<Flag(flag), Word(MountPath[ms[i]])>>])
      BY <2>3, Zenon DEF InjectMountFlags
    <3> HIDE DEF flag
    <3>4. FlattenSeq([i \in DOMAIN ms |-> <<Flag(flag), Word(MountPath[ms[i]])>>]) = MountsNamed(flag)
      BY <1>1 DEF MountsNamed
    <3>7. ContainerCommand(cfg, world) = command \o MountsNamed(flag)
      BY <1>1, <2>1, <3>3, <3>4, Zenon
    <3>5. ContainerCommand(cfg, world) = command \o MountsNamed(world.injected[Min(hits)][2])
      BY <3>7, Zenon DEF flag
    <3> HIDE DEF hits, command
    <3>6. ContainerCommand(cfg, world) \in extended BY <3>2, <3>5
    <3> QED BY <1>3, <3>6 DEF command
  <2> QED BY <2>2, <2>3
<1> QED BY <1>2, <1>3

\* The hand-over to a new container.
LEMMA LaunchKeeps == ASSUME FrontInv, Launch PROVE FrontInv'
<1> DEFINE given == [kind |-> "launch", status |-> 0, command |-> ContainerCommand(cfg, world),
                     env |-> store.entries]
<1>1. /\ pc = "injection" /\ pc' = "done"
      /\ UNCHANGED <<args, world, cfg, runtime, store, attempts, contacted, asked>>
      /\ Silent(outcome') \/ outcome' = given
  BY SilentOutcomes DEF Launch, Finish, Exit
<1>2. pc # "parse" /\ Called /\ Parsed /\ Validated /\ Filling(AllCount)
  BY <1>1 DEF FrontInv, Checks, Stored
<1>3. CASE Silent(outcome')
  <2>1. Handed' /\ EnvironmentAsPromised' BY <1>1, <1>2, <1>3, Frame
  <2> QED BY <1>1, <1>2, <2>1, HandsOver
<1>4. CASE outcome' = given
  <2>1. /\ outcome'.kind = "launch" /\ outcome'.command = ContainerCommand(cfg, world)
        /\ outcome'.env = store.entries BY <1>4
  <2>2. Handed'
    <3>1. args' = args /\ world' = world BY <1>1
    <3> HIDE DEF given
    <3> QED BY <1>2, <2>1, <3>1, ContainerCommandIs DEF Handed, MountsNamed
  <2>3. EnvironmentAsPromised'
    <3>1. Leaves(store.entries, Sources, AllCount) BY <1>2 DEF Filling
    <3>7. FlagCount \in Nat /\ LineCount \in Nat /\ Len(world.builtins) \in Nat BY <1>2, SourcesAre
    <3>8. AllCount \in Nat
      <4> DEFINE a == FlagCount  l == LineCount  b == Len(world.builtins)
      <4>1. a \in Nat /\ l \in Nat /\ b \in Nat BY <3>7
      <4> HIDE DEF a, l, b
      <4>2. a + l + b \in Nat BY <4>1
      <4> QED BY <4>2 DEF AllCount, a, l, b
    <3>2. AllCount \in Nat /\ DOMAIN Sources = 1..AllCount BY <1>2, <3>8, SourcesAre
    <3>3. Promises(Sources, store.entries) BY <3>1, <3>2, LeavesPromise
    <3>4. Sources' = Sources BY <1>1, SameSources
    <3> QED BY <2>1, <3>3, <3>4 DEF EnvironmentAsPromised
  <2> QED BY <1>1, <1>2, <2>2, <2>3, HandsOver
<1> QED BY <1>1, <1>3, <1>4

\* Every step keeps the invariant.
LEMMA NextKeeps == ASSUME FrontInv, [Next]_vars PROVE FrontInv'
<1>1. CASE ParseArgs BY <1>1, ParseArgsKeeps
<1>2. CASE CheckCommandLine BY <1>2, CheckCommandLineKeeps
<1>3. CASE SetFlags BY <1>3, SetFlagsKeeps
<1>4. CASE ProbeRuntime BY <1>4, ProbeRuntimeKeeps
<1>5. CASE Confirm BY <1>5, ConfirmKeeps
<1>6. CASE StartApple BY <1>6, StartAppleKeeps
<1>7. CASE PollDocker BY <1>7, PollDockerKeeps
<1>8. CASE Sleeps BY <1>8, IdleKeeps DEF Sleeps, vars
<1>9. CASE DaemonFlips BY <1>9, IdleKeeps DEF DaemonFlips
<1>10. CASE Dispatch BY <1>10, DispatchKeeps
<1>11. CASE Rebuild BY <1>11, RebuildKeeps
<1>12. CASE ReadMounts BY <1>12, ReadMountsKeeps
<1>13. CASE CompleteEnv BY <1>13, CompleteEnvKeeps
<1>14. CASE Launch BY <1>14, LaunchKeeps
<1>15. CASE UNCHANGED vars BY <1>15, IdleKeeps DEF vars
<1> QED BY <1>1, <1>2, <1>3, <1>4, <1>5, <1>6, <1>7, <1>8, <1>9, <1>10, <1>11, <1>12, <1>13,
           <1>14, <1>15 DEF Next

\* The invariant holds of every state.
LEMMA Always == Spec => []FrontInv
<1>1. Init => FrontInv BY InitInv
<1>2. FrontInv /\ [Next]_vars => FrontInv' BY NextKeeps
<1> QED BY <1>1, <1>2, PTL DEF Spec
----------------------------------------------------------------------------
(* The theorems.                                                           *)

\* For every command line, environment and project file, what a new container
\* is given is the environment the sources promise.
THEOREM EnvironmentPromised == Spec => []EnvironmentAsPromised
<1>1. FrontInv => EnvironmentAsPromised BY DEF FrontInv
<1> QED BY <1>1, Always, PTL

\* A command reaches the container as it was given, or the call is refused;
\* and it is refused for its command only where that has no place.
THEOREM CommandRuns == Spec => []CommandRunsOrIsRefused
<1>1. ASSUME FrontInv PROVE CommandRunsOrIsRefused
  <2>1. ASSUME attempts # <<>> PROVE CommandGiven(args) = <<>>
    <3>1. pc # "parse" /\ Validated /\ RebuildMode(cfg) # "none" BY <1>1, <2>1 DEF FrontInv, Building
    <3>2. Called /\ Parsed BY <1>1 DEF FrontInv
    <3> QED BY <3>1, <3>2, CallMeans
  <2>2. Handed BY <1>1 DEF FrontInv
  <2>3. ASSUME pc = "validate", CommandGiven(args) # <<>>, ~FlagsAlone(args).help,
               ~Refused(FlagsAlone(args))
        PROVE Refused(cfg) <=> NoPlaceForCommand(FlagsAlone(args), args)
    <3>1. args \in Seq(Token) /\ cfg = Parse(args) BY <1>1, <2>3, CaseType DEF FrontInv, Parsed
    <3> QED BY <2>3, <3>1, CommandPlace
  <2> QED BY <2>1, <2>2, <2>3 DEF Handed, CommandRunsOrIsRefused
<1>2. FrontInv => CommandRunsOrIsRefused BY <1>1
<1> QED BY <1>2, Always, PTL

\* The runtime of a call that has been found right is the one it names.
LEMMA SelectsNamed ==
  ASSUME Called, Parsed, pc # "parse", Validated PROVE runtime = NamedRuntime
<1> DEFINE named == ValuesGiven(args, Runtime)  value == Value(cfg, Runtime)
<1>1. value = (IF named = <<>> THEN "" ELSE Last(named)) /\ (named # <<>> => Last(named) # "")
  BY CallMeans
<1>2. runtime = Select(cfg, world) BY DEF Parsed
<1>3. LET used == IF value # "" THEN value ELSE world.envRuntime
      IN  used \in {"", "docker"} \/ (used = "apple" /\ world.platform = "darwin")
  BY DEF Validated, ValidSelection
<1>4. runtime = IF value \in {"apple", "docker"} THEN value
                ELSE IF world.envRuntime \in {"apple", "docker"} THEN world.envRuntime
                ELSE DefaultRuntime(world)
  BY <1>2 DEF Select
<1>5. NamedRuntime = IF named # <<>> THEN Last(named)
                     ELSE IF world.envRuntime # "" THEN world.envRuntime ELSE DefaultRuntime(world)
  BY DEF NamedRuntime, DefaultRuntime
<1> HIDE DEF named, value
<1>6. CASE named # <<>> BY <1>1, <1>3, <1>4, <1>5, <1>6
<1>7. CASE named = <<>> BY <1>1, <1>3, <1>4, <1>5, <1>7
<1> QED BY <1>6, <1>7

\* Only the runtime the call names is contacted, and only by a call that has
\* been found right; an offer to start it can be taken.
THEOREM OffersFounded == Spec => []OfferIsFounded
<1>1. ASSUME FrontInv PROVE OfferIsFounded
  <2>1. Called /\ Parsed /\ Contact /\ Asking BY <1>1 DEF FrontInv
  <2>2. ASSUME contacted # {}
        PROVE /\ contacted = {NamedRuntime} /\ runtime = NamedRuntime
              /\ \A k \in DOMAIN AssignmentsGiven : Valid(AssignmentsGiven[k], "flag")
              /\ LET ds == ValuesGiven(args, "--share-skills") IN ds # <<>> => Last(ds) \in Dirs
              /\ Validate(Parse(args), IllFormedSessions) = NoFailure
    <3>1. pc # "parse" /\ contacted = {runtime} /\ Validated /\ FlagsRight /\ SkillsRight
      BY <2>1, <2>2 DEF Contact, Before
    <3>2. runtime = NamedRuntime BY <2>1, <3>1, SelectsNamed
    <3>3. cfg = Parse(args) BY <2>1, <3>1 DEF Parsed
    <3> DEFINE ds == ValuesGiven(args, "--share-skills")
    <3>4. ds # <<>> => Value(cfg, "--share-skills") = Last(ds) /\ Last(ds) # ""
      BY <2>1, <3>1, CallMeans
    <3>5. ds # <<>> => Last(ds) \in Dirs BY <3>1, <3>4 DEF SkillsRight
    <3> QED BY <3>1, <3>2, <3>3, <3>5 DEF FlagsRight, Validated
  <2>3. ASSUME asked
        PROVE /\ world.platform = "darwin" /\ contacted # {}
              /\ NamedRuntime = "apple" => world.launchd
    <3>1. contacted # {} /\ Startable BY <2>1, <2>3 DEF Asking
    <3>2. runtime = NamedRuntime BY <2>2, <3>1
    <3> QED BY <3>1, <3>2 DEF Startable
  <2> QED BY <2>2, <2>3 DEF OfferIsFounded
<1>2. FrontInv => OfferIsFounded BY <1>1
<1> QED BY <1>2, Always, PTL
=============================================================================
