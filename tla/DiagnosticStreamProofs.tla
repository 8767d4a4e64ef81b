----------------------- MODULE DiagnosticStreamProofs -----------------------
(***************************************************************************)
(* The diagnostic stream keeps its types and implements the line log, for  *)
(* every text, in whatever parts it is written, every number of records    *)
(* and every failure of the destination.                                   *)
(***************************************************************************)
EXTENDS DiagnosticStream, SequenceTheorems, FiniteSetTheorems, WellFoundedInduction, TLAPS

\* What is buffered is the end of what was given.
Ends(p, g) ==
  /\ Len(p) <= Len(g)
  /\ \A i \in 1..Len(p) : p[i] = g[Len(g) - Len(p) + i]

\* A stream that is closed takes nothing any more.
StreamInv ==
  /\ \A r \in Routes : Ends(pending[r], given[r])
  /\ closed => stage = "ended"
----------------------------------------------------------------------------
(* Text and its lines.                                                     *)

\* A set of numbers that is not empty has a least one.
LEMMA Least ==
  ASSUME NEW S \in SUBSET Nat, S # {} PROVE \E x \in S : \A y \in S : x <= y
<1> DEFINE R == {ss \in Nat \X Nat : ss[1] < ss[2]}
<1>1. IsWellFoundedOn(R, Nat) BY NatLessThanWellFounded DEF OpToRel
<1>2. \A x, y \in Nat : x < y => <<x, y>> \in R OBVIOUS
<1> HIDE DEF R
<1>3. PICK x \in S : \A y \in S : ~(<<y, x>> \in R) BY <1>1, WFMin
<1>4. \A y \in S : ~(y < x) BY <1>2, <1>3
<1> QED BY <1>4

\* The end of the first line is a newline, and no newline comes before it.
LEMMA FirstLine ==
  ASSUME NEW t \in Text, HasLine(t)
  PROVE /\ LineEnd(t) \in 1..Len(t) /\ t[LineEnd(t)] = NL
        /\ \A m \in 1..(LineEnd(t) - 1) : t[m] # NL
<1> DEFINE S == {n \in 1..Len(t) : t[n] = NL}
<1>0. Len(t) \in Nat /\ DOMAIN t = 1..Len(t) BY DEF Text
<1>1. S \in SUBSET Nat /\ S # {} BY <1>0 DEF HasLine, Contains
<1>2. PICK n \in S : \A m \in S : n <= m BY <1>1, Least
<1>3. n \in DOMAIN t /\ t[n] = NL /\ \A m \in 1..(n - 1) : t[m] # NL
  BY <1>0, <1>2
<1>4. \E k \in DOMAIN t : t[k] = NL /\ \A m \in 1..(k - 1) : t[m] # NL BY <1>3
<1>5. LineEnd(t) \in DOMAIN t /\ t[LineEnd(t)] = NL
      /\ \A m \in 1..(LineEnd(t) - 1) : t[m] # NL
  BY <1>4 DEF LineEnd
<1> QED BY <1>0, <1>5

\* A piece of a text is a text.
LEMMA Piece ==
  ASSUME NEW t \in Text, NEW m \in Nat \ {0}, NEW n \in Nat, n <= Len(t)
  PROVE /\ SubSeq(t, m, n) \in Text
        /\ Len(SubSeq(t, m, n)) = IF m <= n THEN n - m + 1 ELSE 0
        /\ \A i \in 1..Len(SubSeq(t, m, n)) : SubSeq(t, m, n)[i] = t[m + i - 1]
<1> DEFINE C == Char \cup {NL}
<1>1. \A i \in m..n : t[i] \in C BY DEF Text
<1>2. /\ SubSeq(t, m, n) \in Seq(C)
      /\ Len(SubSeq(t, m, n)) = IF m <= n THEN n - m + 1 ELSE 0
      /\ \A i \in 1..n - m + 1 : SubSeq(t, m, n)[i] = t[m + i - 1]
  BY <1>1, SubSeqProperties
<1> QED BY <1>2 DEF Text

\* Text given to a route is text at the end of its buffer.
LEMMA EndsGrow ==
  ASSUME NEW p \in Text, NEW g \in Text, NEW t \in Text, Ends(p, g)
  PROVE /\ p \o t \in Text /\ g \o t \in Text /\ Ends(p \o t, g \o t)
        /\ Len(g \o t) - Len(p \o t) = Len(g) - Len(p)
<1> DEFINE C == Char \cup {NL}
<1>0. p \in Seq(C) /\ g \in Seq(C) /\ t \in Seq(C) BY DEF Text
<1>l. Len(p) \in Nat /\ Len(g) \in Nat /\ Len(t) \in Nat BY <1>0
<1>1. /\ p \o t \in Seq(C) /\ Len(p \o t) = Len(p) + Len(t)
      /\ \A i \in 1..Len(p) + Len(t) : (p \o t)[i] = IF i <= Len(p) THEN p[i] ELSE t[i - Len(p)]
  BY <1>0, ConcatProperties
<1>2. /\ g \o t \in Seq(C) /\ Len(g \o t) = Len(g) + Len(t)
      /\ \A i \in 1..Len(g) + Len(t) : (g \o t)[i] = IF i <= Len(g) THEN g[i] ELSE t[i - Len(g)]
  BY <1>0, ConcatProperties
<1>3. ASSUME NEW i \in 1..Len(p \o t)
      PROVE (p \o t)[i] = (g \o t)[Len(g \o t) - Len(p \o t) + i]
  <2>0. i \in Nat /\ Len(p) \in Nat BY <1>1, <1>l
  <2>1. Len(g \o t) - Len(p \o t) + i = Len(g) - Len(p) + i BY <1>1, <1>2, <1>l
  <2>2. Len(g) - Len(p) + i \in 1..Len(g) + Len(t) BY <1>1, <1>l DEF Ends
  <2>3. CASE i <= Len(p)
    <3>1. Len(g) - Len(p) + i <= Len(g) BY <1>l, <1>1, <2>3
    <3>2. p[i] = g[Len(g) - Len(p) + i] BY <1>l, <1>1, <2>3 DEF Ends
    <3>3. (g \o t)[Len(g) - Len(p) + i] = g[Len(g) - Len(p) + i] BY <1>2, <2>2, <3>1
    <3>4. (p \o t)[i] = p[i] BY <1>1, <1>l, <2>3
    <3> QED BY <2>1, <3>2, <3>3, <3>4
  <2>4. CASE i > Len(p)
    <3>1. ~(Len(g) - Len(p) + i <= Len(g)) BY <1>l, <1>1, <2>4
    <3>2. Len(g) - Len(p) + i - Len(g) = i - Len(p) BY <1>l, <1>1
    <3>5. (g \o t)[Len(g) - Len(p) + i] = t[Len(g) - Len(p) + i - Len(g)]
      BY <1>2, <2>2, <3>1
    <3>3. (g \o t)[Len(g) - Len(p) + i] = t[i - Len(p)] BY <3>2, <3>5
    <3>4. (p \o t)[i] = t[i - Len(p)] BY <1>1, <1>l, <2>4
    <3> QED BY <2>1, <3>3, <3>4
  <2>5. i <= Len(p) \/ i > Len(p) BY <2>0
  <2> QED BY ONLY <2>3, <2>4, <2>5, Zenon
<1> QED BY <1>1, <1>2, <1>3, <1>l DEF Ends, Text

\* What is left when a beginning is taken out of the buffer still ends it.
LEMMA EndsShrink ==
  ASSUME NEW p \in Text, NEW g \in Text, Ends(p, g), NEW n \in 0..Len(p)
  PROVE /\ SubSeq(p, n + 1, Len(p)) \in Text /\ Ends(SubSeq(p, n + 1, Len(p)), g)
        /\ Len(SubSeq(p, n + 1, Len(p))) = Len(p) - n
<1> DEFINE q == SubSeq(p, n + 1, Len(p))
<1>0. Len(p) \in Nat /\ Len(g) \in Nat BY DEF Text
<1>1. /\ q \in Text /\ Len(q) = Len(p) - n
      /\ \A i \in 1..Len(q) : q[i] = p[n + i]
  <2>1. /\ q \in Text /\ Len(q) = IF n + 1 <= Len(p) THEN Len(p) - (n + 1) + 1 ELSE 0
        /\ \A i \in 1..Len(q) : q[i] = p[n + 1 + i - 1]
    BY <1>0, Piece
  <2> QED BY <1>0, <2>1
<1> HIDE DEF q
<1>2. ASSUME NEW i \in 1..Len(q) PROVE q[i] = g[Len(g) - Len(q) + i]
  <2>1. n + i \in 1..Len(p) BY <1>0, <1>1
  <2>2. p[n + i] = g[Len(g) - Len(p) + (n + i)] BY <2>1 DEF Ends
  <2>3. Len(g) - Len(p) + (n + i) = Len(g) - Len(q) + i BY <1>0, <1>1
  <2> QED BY <1>1, <2>2, <2>3
<1>3. Ends(q, g) BY <1>0, <1>1, <1>2 DEF Ends
<1> QED BY <1>1, <1>3 DEF q

\* The buffer is what the line log has still to take.
LEMMA EndsRest ==
  ASSUME NEW p \in Text, NEW g \in Text, Ends(p, g)
  PROVE SubSeq(g, (Len(g) - Len(p)) + 1, Len(g)) = p
<1> DEFINE C == Char \cup {NL}
           s == SubSeq(g, (Len(g) - Len(p)) + 1, Len(g))
<1>0. p \in Seq(C) /\ Len(p) \in Nat /\ Len(g) \in Nat /\ Len(p) <= Len(g) BY DEF Text, Ends
<1>1. /\ s \in Text /\ Len(s) = IF (Len(g) - Len(p)) + 1 <= Len(g)
                                THEN Len(g) - ((Len(g) - Len(p)) + 1) + 1 ELSE 0
      /\ \A i \in 1..Len(s) : s[i] = g[(Len(g) - Len(p)) + 1 + i - 1]
  BY <1>0, Piece
<1> HIDE DEF s
<1>2. Len(s) = Len(p) BY <1>0, <1>1
<1>3. \A i \in 1..Len(s) : s[i] = p[i] BY <1>0, <1>1, <1>2 DEF Ends
<1>4. s \in Seq(C) BY <1>1 DEF Text
<1> QED BY <1>0, <1>2, <1>3, <1>4, SeqEqual DEF s
----------------------------------------------------------------------------
(* Texts put together.                                                     *)

\* f joins the first n of the texts s, one after the other.
Joins(f, s, n) ==
  /\ f \in [1..n -> Text]
  /\ \A i \in 1..n : f[i] = IF i = 1 THEN s[i] ELSE f[i - 1] \o s[i]

LEMMA TextJoin ==
  ASSUME NEW a \in Text, NEW b \in Text PROVE a \o b \in Text
BY ConcatProperties DEF Text

LEMMA JoinsAll ==
  ASSUME NEW s \in Seq(Text), Len(s) # 0 PROVE \E f : Joins(f, s, Len(s))
<1> DEFINE Bad == {n \in 1..Len(s) : ~\E f : Joins(f, s, n)}
<1>1. Len(s) \in Nat /\ \A i \in 1..Len(s) : s[i] \in Text BY ElementOfSeq, LenProperties
<1>2. Bad = {}
  <2> SUFFICES ASSUME Bad # {} PROVE FALSE OBVIOUS
  <2>1. Bad \in SUBSET Nat BY <1>1
  <2>2. PICK n \in Bad : \A m \in Bad : n <= m BY <2>1, Least
  <2>3. n \in 1..Len(s) /\ ~\E f : Joins(f, s, n) OBVIOUS
  <2>4. CASE n = 1
    <3> DEFINE f == [i \in 1..1 |-> s[i]]
    <3>1. Joins(f, s, 1) BY <1>1, <2>3, <2>4 DEF Joins
    <3> QED BY <2>3, <2>4, <3>1
  <2>5. CASE n # 1
    <3>1. n - 1 \in 1..Len(s) /\ n - 1 \notin Bad /\ n \in Nat /\ n - 1 \in 1..n - 1 BY <1>1, <2>2, <2>3, <2>5
    <3>2. PICK f : Joins(f, s, n - 1) BY <3>1
    <3> DEFINE g == [i \in 1..n |-> IF i = n THEN f[n - 1] \o s[n] ELSE f[i]]
    <3>3. g[n] \in Text /\ g[n] = f[n - 1] \o s[n]
      <4>1. f[n - 1] \in Text /\ s[n] \in Text BY <1>1, <2>3, <3>1, <3>2 DEF Joins
      <4>2. n \in 1..n BY <1>1, <2>3
      <4>3. g[n] = f[n - 1] \o s[n] BY <4>2
      <4> QED BY <4>1, <4>3, TextJoin
    <3>4. ASSUME NEW i \in 1..n
          PROVE g[i] \in Text /\ g[i] = IF i = 1 THEN s[i] ELSE g[i - 1] \o s[i]
      <4>1. CASE i = n
        <5>1. g[i - 1] = f[n - 1] BY <2>5, <3>1, <4>1
        <5> QED BY <2>5, <3>3, <4>1, <5>1
      <4>2. CASE i # n
        <5>1. i \in 1..n - 1 BY <3>1, <4>2
        <5>2. g[i] = f[i] /\ (i # 1 => g[i - 1] = f[i - 1]) BY <3>1, <4>2
        <5> QED BY <3>2, <5>1, <5>2 DEF Joins
      <4> QED BY <4>1, <4>2
    <3>5. Joins(g, s, n) BY <3>4 DEF Joins
    <3> QED BY <2>3, <3>5
  <2> QED BY <2>4, <2>5
<1>3. Len(s) \in 1..Len(s) BY <1>1
<1> QED BY <1>2, <1>3

LEMMA JoinsExist ==
  ASSUME NEW s \in Seq(Text), Len(s) # 0
  PROVE \E f : f = [i \in 1..Len(s) |-> IF i = 1 THEN s[i] ELSE f[i - 1] \o s[i]]
<1>4. PICK f : Joins(f, s, Len(s)) BY JoinsAll
<1>5. f = [i \in 1..Len(s) |-> f[i]] BY <1>4 DEF Joins
<1>6. \A i \in 1..Len(s) : f[i] = IF i = 1 THEN s[i] ELSE f[i - 1] \o s[i] BY <1>4 DEF Joins
<1>7. f = [i \in 1..Len(s) |-> IF i = 1 THEN s[i] ELSE f[i - 1] \o s[i]] BY <1>5, <1>6
<1> QED BY <1>7

\* FlattenSeq is the join of all of them.
LEMMA Flattened ==
  ASSUME NEW s \in Seq(Text), Len(s) # 0
  PROVE /\ FlattenSeq(s) \in Text
        /\ \A f : Joins(f, s, Len(s)) => f[Len(s)] = FlattenSeq(s)
<1> DEFINE g == CHOOSE f : f = [i \in 1..Len(s) |-> IF i = 1 THEN s[i] ELSE f[i - 1] \o s[i]]
<1>0. Len(s) \in Nat /\ \A i \in 1..Len(s) : s[i] \in Text BY ElementOfSeq, LenProperties
<1>1. g = [i \in 1..Len(s) |-> IF i = 1 THEN s[i] ELSE g[i - 1] \o s[i]]
  BY JoinsExist
<1>2. FlattenSeq(s) = g[Len(s)] BY DEF FlattenSeq
<1> HIDE DEF g
<1>3. ASSUME NEW f, Joins(f, s, Len(s)) PROVE \A i \in 1..Len(s) : f[i] = g[i]
  <2> DEFINE Bad == {i \in 1..Len(s) : f[i] # g[i]}
  <2> SUFFICES ASSUME Bad # {} PROVE FALSE OBVIOUS
  <2>1. Bad \in SUBSET Nat BY <1>0
  <2>2. PICK n \in Bad : \A m \in Bad : n <= m BY <2>1, Least
  <2>3. n \in 1..Len(s) /\ f[n] # g[n] OBVIOUS
  <2>4. n # 1 => n - 1 \in 1..Len(s) /\ f[n - 1] = g[n - 1] BY <1>0, <2>2, <2>3
  <2>5. g[n] = IF n = 1 THEN s[n] ELSE g[n - 1] \o s[n] BY <1>1, <2>3
  <2> QED BY <1>3, <2>3, <2>4, <2>5 DEF Joins
<1>4. \E f : Joins(f, s, Len(s)) BY JoinsAll
<1>5. Len(s) \in 1..Len(s) BY <1>0
<1>6. PICK f : Joins(f, s, Len(s)) BY <1>4
<1>7. f[Len(s)] \in Text BY <1>5, <1>6 DEF Joins
<1> QED BY <1>2, <1>3, <1>5, <1>6, <1>7

LEMMA FlattenNothing == FlattenSeq(<<>>) = <<>>
BY DEF FlattenSeq

LEMMA FlattenAppend ==
  ASSUME NEW s \in Seq(Text), NEW t \in Text
  PROVE FlattenSeq(s) \in Text /\ FlattenSeq(Append(s, t)) = FlattenSeq(s) \o t
<1> DEFINE n == Len(s)  u == Append(s, t)
<1>1. /\ n \in Nat /\ u \in Seq(Text) /\ Len(u) = n + 1 /\ u[n + 1] = t
      /\ \A i \in 1..n : u[i] = s[i]
  BY AppendProperties, LenProperties
<1> HIDE DEF n, u
<1>0. Len(u) # 0 BY <1>1
<1>2. PICK f : Joins(f, u, n + 1) BY <1>0, <1>1, JoinsAll
<1>3. FlattenSeq(u) = f[n + 1] BY <1>0, <1>1, <1>2, Flattened
<1>4. CASE n = 0
  <2>1. s = <<>> BY <1>4, EmptySeq DEF n
  <2>2. f[1] = t BY <1>1, <1>2, <1>4 DEF Joins
  <2>3. <<>> \o t = t /\ <<>> \in Text BY ConcatEmptySeq DEF Text
  <2>4. FlattenSeq(s) = <<>> BY <2>1, FlattenNothing
  <2> QED BY <1>3, <1>4, <2>2, <2>3, <2>4 DEF u
<1>5. CASE n # 0
  <2> DEFINE g == [i \in 1..n |-> f[i]]
  <2>1. g \in [1..n -> Text] BY <1>1, <1>2 DEF Joins
  <2>2. ASSUME NEW i \in 1..n PROVE g[i] = IF i = 1 THEN s[i] ELSE g[i - 1] \o s[i]
    <3>1. i \in 1..n + 1 /\ (i # 1 => i - 1 \in 1..n) BY <1>1
    <3> QED BY <1>1, <1>2, <3>1 DEF Joins
  <2>3. Joins(g, s, n) BY <2>1, <2>2 DEF Joins
  <2>4. n \in 1..n /\ n + 1 \in 1..n + 1 BY <1>1, <1>5
  <2>5. f[n + 1] = f[n] \o t
    <3>1. n + 1 # 1 /\ n + 1 - 1 = n BY <1>1, <1>5
    <3>2. \A k \in 1..n + 1 : f[k] = IF k = 1 THEN u[k] ELSE f[k - 1] \o u[k] BY <1>2 DEF Joins
    <3>3. PICK k \in 1..n + 1 : k = n + 1 BY <2>4
    <3>4. f[k] = f[k - 1] \o u[k] BY <3>1, <3>2, <3>3
    <3> QED BY <1>1, <3>1, <3>3, <3>4
  <2>6. g[n] = f[n] BY <2>4
  <2> HIDE DEF g
  <2>7. FlattenSeq(s) = f[n] /\ FlattenSeq(s) \in Text
    BY <1>5, <2>3, <2>6, Flattened DEF n
  <2> QED BY <1>3, <2>5, <2>7 DEF u
<1> QED BY <1>4, <1>5
----------------------------------------------------------------------------
(* What the log tells of a route.                                          *)

Record == [from : Routes \cup {"launcher", "torn"}, text : Text]

LEMMA ToldGrows ==
  ASSUME NEW e \in Record, log \in Seq(Record), log' = Append(log, e), NEW r \in Routes
  PROVE Told(r)' = IF e.from = r THEN Told(r) \o e.text ELSE Told(r)
<1> DEFINE Part(d) == IF d.from = r THEN d.text ELSE <<>>
           s == [n \in DOMAIN log |-> Part(log[n])]
           t == [n \in DOMAIN log' |-> Part(log'[n])]
<1>1. \A d \in Record : Part(d) \in Text BY DEF Record, Text
<1>2. /\ Len(log) \in Nat /\ DOMAIN log = 1..Len(log) /\ \A n \in 1..Len(log) : log[n] \in Record
      /\ log' \in Seq(Record) /\ Len(log') = Len(log) + 1 /\ DOMAIN log' = 1..Len(log) + 1
      /\ log'[Len(log) + 1] = e /\ \A n \in 1..Len(log) : log'[n] = log[n]
  BY AppendProperties, LenProperties, ElementOfSeq
<1> HIDE DEF Part
<1>3. s \in Seq(Text) /\ Len(s) = Len(log)
  <2>1. \A n \in 1..Len(log) : Part(log[n]) \in Text BY <1>1, <1>2
  <2> QED BY <1>2, <2>1, IsASeq, LenProperties
<1>4. t = Append(s, Part(e))
  <2>1. \A n \in 1..Len(log) + 1 : Part(log'[n]) \in Text
    BY <1>1, <1>2, ElementOfSeq
  <2>2. t \in Seq(Text) /\ Len(t) = Len(log) + 1 BY <1>2, <2>1, IsASeq, LenProperties
  <2>3. /\ Append(s, Part(e)) \in Seq(Text) /\ Len(Append(s, Part(e))) = Len(log) + 1
        /\ Append(s, Part(e))[Len(log) + 1] = Part(e)
        /\ \A n \in 1..Len(log) : Append(s, Part(e))[n] = s[n]
    BY <1>1, <1>3, AppendProperties
  <2>4. ASSUME NEW n \in 1..Len(log) + 1 PROVE t[n] = Append(s, Part(e))[n]
    <3>1. CASE n = Len(log) + 1 BY <1>2, <2>3, <3>1
    <3>2. CASE n # Len(log) + 1
      <4>1. n \in 1..Len(log) BY <1>2, <3>2
      <4> QED BY <1>2, <2>3, <4>1
    <3> QED BY <3>1, <3>2
  <2> QED BY <2>2, <2>3, <2>4, SeqEqual
<1> HIDE DEF s, t
<1>5. FlattenSeq(s) \in Text /\ FlattenSeq(t) = FlattenSeq(s) \o Part(e)
  BY <1>1, <1>3, <1>4, FlattenAppend
<1>6. Told(r) = FlattenSeq(s) /\ Told(r)' = FlattenSeq(t) BY DEF Told, s, t, Part
<1>7. FlattenSeq(s) \o <<>> = FlattenSeq(s) BY <1>5, ConcatEmptySeq DEF Text
<1> QED BY <1>5, <1>6, <1>7 DEF Part

LEMMA ToldText ==
  ASSUME log \in Seq(Record), NEW r \in Routes PROVE Told(r) \in Text
<1> DEFINE s == [n \in DOMAIN log |-> IF log[n].from = r THEN log[n].text ELSE <<>>]
<1>1. Len(log) \in Nat /\ DOMAIN log = 1..Len(log) /\ \A n \in 1..Len(log) : log[n] \in Record
  BY LenProperties, ElementOfSeq
<1>2. \A n \in 1..Len(log) : (IF log[n].from = r THEN log[n].text ELSE <<>>) \in Text
  BY <1>1 DEF Record, Text
<1>3. s \in Seq(Text) BY <1>1, <1>2, IsASeq
<1>4. <<>> \in Text BY DEF Text
<1> QED BY <1>3, <1>4, FlattenAppend DEF Told
----------------------------------------------------------------------------
(* The characters of a text.                                               *)

Shown(c) == IF c = NL THEN <<>> ELSE <<c>>

LEMMA ShownText == \A c \in Char \cup {NL} : Shown(c) \in Text
<1> SUFFICES ASSUME NEW c \in Char \cup {NL} PROVE Shown(c) \in Text
  OBVIOUS
<1>1. <<>> \in Text /\ <<c>> \in Text BY DEF Text
<1> QED BY <1>1 DEF Shown

LEMMA PrintedNothing == Printed(<<>>) = <<>>
<1>1. [n \in DOMAIN <<>> |-> IF <<>>[n] = NL THEN <<>> ELSE <<<<>>[n]>>] = <<>>
  OBVIOUS
<1> QED BY <1>1, FlattenNothing DEF Printed

LEMMA PrintedGrows ==
  ASSUME NEW t \in Text, NEW c \in Char \cup {NL}
  PROVE Printed(t) \in Text /\ Printed(Append(t, c)) = Printed(t) \o Shown(c)
<1> DEFINE C == Char \cup {NL}  u == Append(t, c)
           s == [n \in DOMAIN t |-> Shown(t[n])]  v == [n \in DOMAIN u |-> Shown(u[n])]
<1>0. t \in Seq(C) BY DEF Text
<1>1. \A d \in C : Shown(d) \in Text BY ShownText
<1>2. /\ Len(t) \in Nat /\ DOMAIN t = 1..Len(t) /\ \A n \in 1..Len(t) : t[n] \in C
      /\ u \in Seq(C) /\ Len(u) = Len(t) + 1 /\ DOMAIN u = 1..Len(t) + 1
      /\ u[Len(t) + 1] = c /\ \A n \in 1..Len(t) : u[n] = t[n]
  BY <1>0, AppendProperties, LenProperties, ElementOfSeq
<1> HIDE DEF u
<1>3. s \in Seq(Text) /\ Len(s) = Len(t)
  <2>1. \A n \in 1..Len(t) : Shown(t[n]) \in Text BY <1>1, <1>2
  <2> QED BY <1>2, <2>1, IsASeq, LenProperties
<1>4. v = Append(s, Shown(c))
  <2>1. \A n \in 1..Len(t) + 1 : Shown(u[n]) \in Text
    BY <1>1, <1>2, ElementOfSeq
  <2>2. v \in Seq(Text) /\ Len(v) = Len(t) + 1 BY <1>2, <2>1, IsASeq, LenProperties
  <2>3. /\ Append(s, Shown(c)) \in Seq(Text) /\ Len(Append(s, Shown(c))) = Len(t) + 1
        /\ Append(s, Shown(c))[Len(t) + 1] = Shown(c)
        /\ \A n \in 1..Len(t) : Append(s, Shown(c))[n] = s[n]
    BY <1>1, <1>3, AppendProperties
  <2>4. ASSUME NEW n \in 1..Len(t) + 1 PROVE v[n] = Append(s, Shown(c))[n]
    <3>1. CASE n = Len(t) + 1 BY <1>2, <2>3, <3>1
    <3>2. CASE n # Len(t) + 1
      <4>1. n \in 1..Len(t) BY <1>2, <3>2
      <4> QED BY <1>2, <2>3, <4>1
    <3> QED BY <3>1, <3>2
  <2> QED BY <2>2, <2>3, <2>4, SeqEqual
<1> HIDE DEF s, v
<1>5. FlattenSeq(s) \in Text /\ FlattenSeq(v) = FlattenSeq(s) \o Shown(c)
  BY <1>1, <1>3, <1>4, FlattenAppend
<1>6. Printed(t) = FlattenSeq(s) /\ Printed(u) = FlattenSeq(v) BY DEF Printed, s, v, Shown
<1> QED BY <1>5, <1>6 DEF u

LEMMA PrintedText == ASSUME NEW t \in Text PROVE Printed(t) \in Text
BY PrintedGrows

\* What holds of nothing and is kept by one character more holds of every text.
LEMMA PrintedJoin ==
  ASSUME NEW a \in Text, NEW b \in Text
  PROVE Printed(a \o b) = Printed(a) \o Printed(b)
<1> DEFINE C == Char \cup {NL}
           Right(t) == Printed(a \o t) = Printed(a) \o Printed(t)
           Bad == {n \in Nat : \E t \in Text : Len(t) = n /\ ~Right(t)}
<1>1. \A t \in Text : t \in Seq(C) /\ Len(t) \in Nat BY DEF Text
<1>2. \A t \in Text : Printed(t) \in Text BY PrintedGrows
<1>3. ASSUME Bad # {} PROVE FALSE
  <2>1. PICK n \in Bad : \A m \in Bad : n <= m BY <1>3, Least
  <2>2. PICK t \in Text : Len(t) = n /\ ~Right(t) OBVIOUS
  <2>3. t # <<>>
    <3>1. a \o <<>> = a /\ Printed(a) \o <<>> = Printed(a) BY <1>1, <1>2, ConcatEmptySeq
    <3> QED BY <2>2, <3>1, PrintedNothing
  <2>4. PICK u \in Seq(C), c \in C : t = Append(u, c) BY <1>1, <2>3, SequenceEmptyOrAppend
  <2>5. u \in Text /\ Len(u) < n /\ Len(u) \in Nat
    BY <2>2, <2>4, AppendProperties, LenProperties DEF Text
  <2>6. Right(u)
    <3>1. Len(u) \notin Bad BY <2>1, <2>5
    <3> QED BY <2>5, <3>1
  <2>7. a \o t = Append(a \o u, c) /\ a \o u \in Text
    <3>1. t = u \o <<c>> /\ a \o u \in Seq(C) /\ <<c>> \in Seq(C)
      BY <1>1, <2>4, AppendIsConcat, ConcatProperties
    <3>2. a \o t = (a \o u) \o <<c>> BY <1>1, <3>1, ConcatAssociative
    <3> QED BY <3>1, <3>2, AppendIsConcat DEF Text
  <2>8. Printed(a \o t) = Printed(a \o u) \o Shown(c) /\ Printed(t) = Printed(u) \o Shown(c)
    BY <2>4, <2>5, <2>7, PrintedGrows
  <2>9. Shown(c) \in Seq(C) /\ Printed(a) \in Seq(C) /\ Printed(u) \in Seq(C)
    BY <1>2, <2>4, <2>5, ShownText DEF Text
  <2>10. (Printed(a) \o Printed(u)) \o Shown(c) = Printed(a) \o (Printed(u) \o Shown(c))
    BY <2>9, ConcatAssociative
  <2> QED BY <2>2, <2>6, <2>8, <2>10
<1>4. Right(b)
  <2>1. Len(b) \notin Bad BY <1>3
  <2> QED BY <1>1, <2>1
<1> QED BY <1>4

\* A text without newlines is its characters.
LEMMA PrintedPlain ==
  ASSUME NEW a \in Text, \A i \in 1..Len(a) : a[i] # NL
  PROVE Printed(a) = a
<1> DEFINE C == Char \cup {NL}
           Plainly(t) == \A i \in 1..Len(t) : t[i] # NL
           Bad == {n \in Nat : \E t \in Text : Len(t) = n /\ Plainly(t) /\ Printed(t) # t}
<1>1. \A t \in Text : t \in Seq(C) /\ Len(t) \in Nat BY DEF Text
<1>3. ASSUME Bad # {} PROVE FALSE
  <2>1. PICK n \in Bad : \A m \in Bad : n <= m BY <1>3, Least
  <2>2. PICK t \in Text : Len(t) = n /\ Plainly(t) /\ Printed(t) # t OBVIOUS
  <2>3. t # <<>> BY <2>2, PrintedNothing
  <2>4. PICK u \in Seq(C), c \in C : t = Append(u, c) BY <1>1, <2>3, SequenceEmptyOrAppend
  <2>5. /\ u \in Text /\ Len(u) \in Nat /\ n = Len(u) + 1
        /\ t[Len(u) + 1] = c /\ \A i \in 1..Len(u) : t[i] = u[i]
    BY <2>2, <2>4, AppendProperties, LenProperties DEF Text
  <2>6. Plainly(u) /\ c # NL BY <2>2, <2>5
  <2>7. Printed(u) = u
    <3>1. Len(u) \notin Bad BY <2>1, <2>5
    <3> QED BY <2>5, <2>6, <3>1
  <2>8. Printed(t) = u \o <<c>> BY <2>4, <2>5, <2>6, <2>7, PrintedGrows DEF Shown
  <2> QED BY <2>2, <2>4, <2>8, AppendIsConcat
<1>4. Len(a) \notin Bad BY <1>3
<1> QED BY <1>1, <1>4
----------------------------------------------------------------------------
(* Types.                                                                  *)

\* A record costs at most one failure of the destination.
LEMMA EmitTypes ==
  ASSUME TypeOK, NEW e, Emit(e) PROVE first' \in BOOLEAN /\ faults' \in 0..MaxFaults
<1>1. first \in BOOLEAN BY DEF TypeOK
<1>2. first' = first \/ first' = TRUE BY DEF Emit
<1>3. first' \in BOOLEAN BY <1>1, <1>2
<1>4. faults' \in 0..MaxFaults BY StreamAssumption DEF Emit, TypeOK
<1> QED BY <1>3, <1>4

\* A call that changes neither buffers nor text keeps what is buffered.
LEMMA BufferFrame ==
  ASSUME StreamInv, pending' = pending, given' = given, closed' => stage' = "ended"
  PROVE StreamInv'
BY DEF StreamInv

\* Text is taken whole, under the mutex of one who may write.
LEMMA StartWriteTypes ==
  ASSUME TypeOK, StreamInv, NEW p \in Callers, NEW r \in Routes,
         NEW text \in (IF p = "main" THEN Prints ELSE Reads), StartWrite(p, r, text)
  PROVE TypeOK' /\ StreamInv'
<1>1. text \in Text BY StreamAssumption
<1>2. /\ pending' = [pending EXCEPT ![r] = pending[r] \o text]
      /\ given' = [given EXCEPT ![r] = given[r] \o text]
      /\ UNCHANGED <<ways, stage, log, first, closed, copier, status, records, faults, vain>>
      /\ mu' = p /\ on' = r /\ failed' = FALSE /\ MayWrite(p) /\ (p \in Routes => r = p)
  BY DEF StartWrite
<1>3. /\ pending[r] \o text \in Text /\ given[r] \o text \in Text
      /\ Ends(pending[r] \o text, given[r] \o text)
  BY <1>1, EndsGrow DEF TypeOK, StreamInv
<1>4. TypeOK'
  <2>1. pending' \in [Routes -> Text] /\ given' \in [Routes -> Text]
    BY <1>2, <1>3 DEF TypeOK
  <2>2. MayWrite(p)' BY <1>2 DEF MayWrite
  <2>3. (mu # "free" => MayWrite(mu) /\ (mu \in Routes => on = mu))' BY <1>2, <2>2
  <2> QED BY <1>2, <2>1, <2>3 DEF TypeOK, ways
<1>5. \A q \in Routes : Ends(pending[q], given[q])' BY <1>2, <1>3 DEF StreamInv, TypeOK
<1>6. (closed => stage = "ended")' BY <1>2 DEF StreamInv
<1> QED BY <1>4, <1>5, <1>6 DEF StreamInv

\* A line is taken out of the buffer whether or not it reaches the log.
LEMMA EmitLineTypes ==
  ASSUME TypeOK, StreamInv, NEW p \in Callers, EmitLine(p)
  PROVE TypeOK' /\ StreamInv'
<1>1. /\ pending' = [pending EXCEPT ![on] = AfterLine(on)] /\ Emit(Entry(on, LineOf(on)))
      /\ UNCHANGED <<ways, stage, mu, on, closed, copier, status, records, history>>
      /\ failed' = (failed \/ Failing)
  BY DEF EmitLine, EmitOutput
<1>2. on \in Routes /\ pending[on] \in Text /\ given[on] \in Text /\ HasLine(pending[on])
  BY DEF TypeOK, EmitLine
<1>3. LineEnd(pending[on]) \in 1..Len(pending[on]) BY <1>2, FirstLine
<1>4. AfterLine(on) \in Text /\ Ends(AfterLine(on), given[on])
  BY <1>2, <1>3, EndsShrink DEF AfterLine, StreamInv
<1>5. TypeOK'
  <2>1. first' \in BOOLEAN /\ faults' \in 0..MaxFaults BY <1>1, EmitTypes
  <2>2. pending' \in [Routes -> Text] BY <1>1, <1>2, <1>4 DEF TypeOK
  <2>3. failed' \in BOOLEAN BY <1>1
  <2>4. MayWrite(mu)' = MayWrite(mu) BY <1>1 DEF MayWrite
  <2> QED BY <1>1, <2>1, <2>2, <2>3, <2>4 DEF TypeOK, ways, history
<1>6. \A q \in Routes : Ends(pending[q], given[q])'
  BY <1>1, <1>2, <1>4 DEF StreamInv, TypeOK, history
<1> QED BY <1>1, <1>5, <1>6 DEF StreamInv

\* A tail is published by a flush.
LEMMA EmitTailTypes ==
  ASSUME TypeOK, StreamInv, EmitTail PROVE TypeOK' /\ StreamInv'
<1>1. FlushOne \in Routes BY DEF FlushOne, Routes
<1>2. /\ pending' = [pending EXCEPT ![FlushOne] = <<>>]
      /\ Emit(Entry(FlushOne, pending[FlushOne]))
      /\ UNCHANGED <<ways, stage, mu, on, failed, closed, copier, status, records, history>>
  BY DEF EmitTail, EmitOutput
<1>3. <<>> \in Text /\ \A g \in Text : Ends(<<>>, g) BY DEF Text, Ends
<1>4. TypeOK'
  <2>1. first' \in BOOLEAN /\ faults' \in 0..MaxFaults BY <1>2, EmitTypes
  <2>2. pending' \in [Routes -> Text] BY <1>2, <1>3 DEF TypeOK
  <2>3. MayWrite(mu)' = MayWrite(mu) BY <1>2 DEF MayWrite
  <2> QED BY <1>2, <2>1, <2>2, <2>3 DEF TypeOK, ways, history
<1>5. \A q \in Routes : Ends(pending[q], given[q])'
  BY <1>1, <1>2, <1>3 DEF StreamInv, TypeOK, history
<1> QED BY <1>2, <1>4, <1>5 DEF StreamInv

\* A copier that met an error reads no more; the launcher goes on.
LEMMA EndWriteTypes ==
  ASSUME TypeOK, StreamInv, NEW p \in Callers, EndWrite(p)
  PROVE TypeOK' /\ StreamInv'
<1>1. UNCHANGED <<ways, stage, on, failed, pending, log, first, closed, status, records,
                  faults, history>> /\ mu' = "free"
  BY DEF EndWrite
<1>2. copier' = copier \/ copier' = [copier EXCEPT ![p] = "stopped"] BY DEF EndWrite
<1>3. copier' \in [Routes -> {"reading", "stopped"}] BY <1>2 DEF TypeOK
<1>4. TypeOK' BY <1>1, <1>3 DEF TypeOK, ways, history
<1>5. StreamInv' BY <1>1, BufferFrame DEF StreamInv, history
<1> QED BY <1>4, <1>5

\* The launcher's own steps move it on only while it writes nothing.
LEMMA LauncherTypes ==
  ASSUME TypeOK, StreamInv,
         Open \/ StartChild \/ Flushed \/ ExecFailed \/ ChildEnds \/ StartClose \/ Close
  PROVE TypeOK' /\ StreamInv'
<1>1. UNCHANGED <<ways, mu, on, failed, pending, log, copier, records, history>>
  BY DEF Open, StartChild, Flushed, ExecFailed, ChildEnds, StartClose, Close
<1>2. mu = "free"
  BY DEF TypeOK, MayWrite, Callers, Open, StartChild, Flushed, ExecFailed, ChildEnds, CopiersDone,
         StartClose, Close
<1>3. stage' \in {"open", "before", "flush", "child", "execFailed", "after", "close",
                  "replaced", "ended"}
  BY DEF Open, StartChild, Flushed, ExecFailed, ChildEnds, StartClose, Close
<1>4. status' \in ChildStatuses \cup {0, 1, 2, 127}
  BY DEF Open, StartChild, Flushed, ExecFailed, ChildEnds, RunStatus, StartClose, Close,
         WithClose, TypeOK
<1>5. first' \in BOOLEAN /\ closed' \in BOOLEAN /\ faults' \in 0..MaxFaults
  <2>1. CASE Close
    <3>1. first \in BOOLEAN BY DEF TypeOK
    <3>2. (first' = first \/ first' = TRUE) /\ closed' = TRUE BY <2>1 DEF Close
    <3>3. faults' \in 0..MaxFaults BY <2>1, StreamAssumption DEF Close, TypeOK
    <3> QED BY <3>1, <3>2, <3>3
  <2>2. CASE ~Close
    BY <2>2 DEF Open, StartChild, Flushed, ExecFailed, ChildEnds, StartClose, TypeOK
  <2> QED BY <2>1, <2>2
<1>6. closed' => stage' = "ended"
  BY DEF StreamInv, Open, StartChild, Flushed, ExecFailed, ChildEnds, StartClose, Close
<1>7. StreamInv' BY <1>1, <1>6, BufferFrame DEF history
<1>8. TypeOK' BY <1>1, <1>2, <1>3, <1>4, <1>5 DEF TypeOK, ways, history
<1> QED BY <1>7, <1>8

\* A record, and output nobody reads, touch no buffer.
LEMMA RecordTypes ==
  ASSUME TypeOK, StreamInv, LogRecord \/ (\E r \in Routes : WriteInVain(r))
  PROVE TypeOK' /\ StreamInv'
<1>1. UNCHANGED <<ways, stage, mu, on, failed, pending, closed, copier, status, given>>
  BY DEF LogRecord, WriteInVain, history
<1>2. first' \in BOOLEAN /\ faults' \in 0..MaxFaults
  <2>1. CASE LogRecord
    <3>1. Emit(Entry("launcher", <<>>)) \/ UNCHANGED <<log, first, faults>>
      BY <2>1 DEF LogRecord
    <3> QED BY <3>1, EmitTypes DEF TypeOK
  <2>2. CASE \E r \in Routes : WriteInVain(r) BY <2>2 DEF WriteInVain, TypeOK
  <2> QED BY <2>1, <2>2
<1>3. records' \in 0..MaxRecords BY StreamAssumption DEF LogRecord, WriteInVain, TypeOK
<1>4. vain' \in BOOLEAN BY DEF LogRecord, WriteInVain, TypeOK, history
<1>5. MayWrite(mu)' = MayWrite(mu) BY <1>1 DEF MayWrite
<1>6. TypeOK' BY <1>1, <1>2, <1>3, <1>4, <1>5 DEF TypeOK, ways
<1>7. StreamInv' BY <1>1, BufferFrame DEF StreamInv
<1> QED BY <1>6, <1>7

\* Every step is one of these.
LEMMA TypeStep ==
  ASSUME TypeOK, StreamInv, [Next]_vars PROVE TypeOK' /\ StreamInv'
<1>1. CASE Ended \/ UNCHANGED vars
  <2>1. UNCHANGED vars BY <1>1 DEF Ended
  <2> QED BY <2>1 DEF vars, ways, history, TypeOK, StreamInv, MayWrite
<1> QED BY <1>1, StartWriteTypes, EmitLineTypes, EmitTailTypes, EndWriteTypes, LauncherTypes,
           RecordTypes DEF Next

\* Both hold of the start.
LEMMA InitTypes == ASSUME Init PROVE TypeOK /\ StreamInv
<1>1. <<>> \in Text /\ Ends(<<>>, <<>>) BY DEF Text, Ends
<1>2. TypeOK
  <2> USE DEF Init
  <2>1. {logOnly, enabled, attach, failed, first, closed, vain} \subseteq BOOLEAN OBVIOUS
  <2>2. pending \in [Routes -> Text] /\ given \in [Routes -> Text] BY <1>1
  <2>3. mu = "free" /\ on \in Routes /\ status = 0 /\ stage = "open" BY DEF Routes
  <2>4. copier \in [Routes -> {"reading", "stopped"}] OBVIOUS
  <2>5. records \in 0..MaxRecords /\ faults \in 0..MaxFaults BY StreamAssumption
  <2> QED BY ONLY <2>1, <2>2, <2>3, <2>4, <2>5 DEF TypeOK
<1>3. StreamInv BY <1>1 DEF Init, StreamInv
<1> QED BY <1>2, <1>3

\* What is buffered, always.
LEMMA TypeBuffers == Spec => [](TypeOK /\ StreamInv)
<1> QED BY InitTypes, TypeStep, PTL DEF Spec

\* Every variable keeps its type, and Stream.mu is held only by a goroutine that
\* may write at that stage: none holds it when the child has ended, when the
\* stream is flushed for a replacement or when it is closed (stream.go).
THEOREM TypeCorrect == Spec => []TypeOK
BY TypeBuffers, PTL
----------------------------------------------------------------------------
(* Whole lines are emitted before the mutex is given up.                   *)

LineInv == \A r \in Routes : HasLine(pending[r]) => mu # "free" /\ on = r

\* Only the holder's own buffer ever has a whole line in it.
LEMMA LineStep ==
  ASSUME TypeOK, StreamInv, LineInv, [Next]_vars PROVE LineInv'
<1>1. ASSUME NEW p \in Callers, NEW r \in Routes,
             NEW text \in (IF p = "main" THEN Prints ELSE Reads), StartWrite(p, r, text)
      PROVE LineInv'
  <2>1. /\ pending' = [pending EXCEPT ![r] = pending[r] \o text]
        /\ mu = "free" /\ mu' = p /\ on' = r
    BY <1>1 DEF StartWrite
  <2>2. p # "free" BY DEF Callers, Routes
  <2>3. \A q \in Routes \ {r} : ~HasLine(pending'[q]) BY <2>1 DEF LineInv, TypeOK
  <2> QED BY <2>1, <2>2, <2>3 DEF LineInv
<1>2. ASSUME NEW p \in Callers, EmitLine(p) PROVE LineInv'
  <2>1. /\ pending' = [pending EXCEPT ![on] = AfterLine(on)]
        /\ mu' = mu /\ on' = on /\ mu = p
    BY <1>2 DEF EmitLine, Held
  <2>2. p # "free" BY DEF Callers, Routes
  <2>3. \A q \in Routes : q # on => pending'[q] = pending[q] BY <2>1 DEF TypeOK
  <2> QED BY <2>1, <2>2, <2>3 DEF LineInv
<1>3. ASSUME NEW p \in Callers, EndWrite(p) PROVE LineInv'
  BY <1>3 DEF EndWrite, LineInv
<1>4. CASE EmitTail
  <2>1. pending' = [pending EXCEPT ![FlushOne] = <<>>] /\ mu' = mu /\ on' = on
    BY <1>4 DEF EmitTail
  <2>2. ~HasLine(<<>>) BY DEF HasLine, Contains
  <2>3. \A q \in Routes : pending'[q] = pending[q] \/ pending'[q] = <<>> BY <2>1 DEF TypeOK
  <2> QED BY <2>1, <2>2, <2>3 DEF LineInv
<1>5. CASE \/ Open \/ LogRecord \/ StartChild \/ Flushed \/ ExecFailed \/ ChildEnds
           \/ StartClose \/ Close \/ Ended \/ UNCHANGED vars
           \/ \E r \in Routes : WriteInVain(r)
  <2>1. UNCHANGED <<pending, mu, on>>
    BY <1>5 DEF Open, LogRecord, StartChild, Flushed, ExecFailed, ChildEnds, StartClose, Close,
         Ended, WriteInVain, vars
  <2> QED BY <2>1 DEF LineInv
<1> QED BY <1>1, <1>2, <1>3, <1>4, <1>5 DEF Next
----------------------------------------------------------------------------
(* The stream implements the line log.                                     *)

\* What the line log has still to take is what is buffered.
LEMMA RestIsPending ==
  ASSUME TypeOK, StreamInv, NEW r \in Routes PROVE Promise!Rest(r) = pending[r]
<1>1. pending[r] \in Text /\ given[r] \in Text /\ Ends(pending[r], given[r])
  BY DEF TypeOK, StreamInv
<1> QED BY <1>1, EndsRest DEF Promise!Rest

\* A step that leaves text, buffers and log alone, and does not begin or end a
\* flush, is invisible.
LEMMA Invisible ==
  ASSUME UNCHANGED <<given, pending, log, first, closed>>,
         (stage' \in {"flush", "close"}) <=> (stage \in {"flush", "close"})
  PROVE UNCHANGED Promise!vars
BY DEF Promise!vars

\* A record that is emitted is published, or the log is incomplete.
LEMMA EmitPublishes ==
  ASSUME NEW e, Emit(e) PROVE Promise!Publish(e)
BY DEF Emit, Promise!Publish, Torn, Entry, Promise!Torn, Promise!Entry

\* A Write gives the log text.
LEMMA WriteMaps ==
  ASSUME TypeOK, StreamInv, NEW p \in Callers, NEW r \in Routes,
         NEW text \in (IF p = "main" THEN Prints ELSE Reads), StartWrite(p, r, text)
  PROVE Promise!Give(r)
<1> DEFINE C == Char \cup {NL}
<1>1. text \in Seq(C) /\ text # <<>> BY StreamAssumption DEF Text
<1>2. /\ pending' = [pending EXCEPT ![r] = pending[r] \o text]
      /\ given' = [given EXCEPT ![r] = given[r] \o text]
      /\ UNCHANGED <<stage, log, first, closed>> /\ stage \in {"before", "after", "child"}
  BY DEF StartWrite, MayWrite
<1>3. pending[r] \in Text /\ given[r] \in Seq(C) /\ given[r] \in Text /\ text \in Text
  BY <1>1 DEF TypeOK, Text
<1>4. /\ given[r] \o text \in Seq(C)
      /\ Len(given[r] \o text) = Len(given[r]) + Len(text)
      /\ \A i \in 1..Len(given[r]) + Len(text) :
           (given[r] \o text)[i] = IF i <= Len(given[r]) THEN given[r][i] ELSE text[i - Len(given[r])]
  BY <1>1, <1>3, ConcatProperties
<1>5. Len(text) > 0 /\ Len(text) \in Nat /\ Len(given[r]) \in Nat BY <1>1, <1>3
<1>6. given'[r] = given[r] \o text BY <1>2 DEF TypeOK
<1>7. Promise!IsStrictPrefix(given[r], given'[r])
  <2> DEFINE g == given[r]  h == given[r] \o text  s == SubSeq(h, 1, Len(g))
  <2>1. SubSeq(g, 1, Len(g)) = g BY <1>3, SubSeqFull
  <2>2. h \in Text /\ Len(g) \in Nat /\ Len(g) <= Len(h) BY <1>4, <1>5 DEF Text
  <2>3. \A i \in 1..Len(g) : h[i] = g[i] BY <1>4, <1>5
  <2>4. h # g BY <1>4, <1>5
  <2>5. g \in Seq(C) BY <1>3
  <2>6. given'[r] = h BY <1>6
  <2> HIDE DEF g, h
  <2>7. /\ s \in Text /\ Len(s) = IF 1 <= Len(g) THEN Len(g) - 1 + 1 ELSE 0
        /\ \A i \in 1..Len(s) : s[i] = h[1 + i - 1]
    BY <2>2, Piece
  <2> HIDE DEF s
  <2>8. Len(s) = Len(g) BY <2>2, <2>7
  <2>9. \A i \in 1..Len(s) : s[i] = g[i] BY <2>2, <2>3, <2>7, <2>8
  <2>10. s = g
    <3>1. s \in Seq(C) BY <2>7 DEF Text
    <3> QED BY <2>5, <2>8, <2>9, <3>1, SeqEqual
  <2>11. Promise!IsPrefix(g, h) BY <2>1, <2>2, <2>10 DEF Promise!IsPrefix, s
  <2>12. Promise!IsStrictPrefix(g, h) BY <2>4, <2>11 DEF Promise!IsStrictPrefix
  <2> QED BY <2>6, <2>12 DEF g
<1>8. \A q \in Routes : Len(given'[q]) - Len(pending'[q]) = Len(given[q]) - Len(pending[q])
  <2>1. Len(given[r] \o text) - Len(pending[r] \o text) = Len(given[r]) - Len(pending[r])
    BY <1>3, EndsGrow DEF StreamInv
  <2> QED BY <1>2, <2>1 DEF TypeOK
<1>9. given' = [given EXCEPT ![r] = given'[r]] BY <1>2, <1>6
<1>10. ~closed /\ stage \notin {"flush", "close"} BY <1>2 DEF StreamInv
<1>11. [q \in Routes |-> Len(given'[q]) - Len(pending'[q])]
         = [q \in Routes |-> Len(given[q]) - Len(pending[q])]
  BY <1>8
<1> QED BY <1>2, <1>7, <1>9, <1>10, <1>11 DEF Promise!Give

\* A whole line is one record.
LEMMA LineMaps ==
  ASSUME TypeOK, StreamInv, NEW p \in Callers, EmitLine(p), NEW line \in Routes, line = on
  PROVE Promise!Line(line)
<1> DEFINE n == LineEnd(pending[on])
<1>1. /\ pending' = [pending EXCEPT ![on] = AfterLine(on)] /\ Emit(Entry(on, LineOf(on)))
      /\ UNCHANGED <<stage, closed, given>> /\ stage \in {"before", "child", "after"}
      /\ HasLine(pending[on])
  BY DEF EmitLine, EmitOutput, history
<1>2. on \in Routes /\ pending[on] \in Text /\ given[on] \in Text BY DEF TypeOK
<1>3. n \in 1..Len(pending[on]) /\ pending[on][n] = NL
      /\ \A m \in 1..(n - 1) : pending[on][m] # NL
  BY <1>1, <1>2, FirstLine
<1>4. Len(pending[on]) \in Nat /\ DOMAIN pending[on] = 1..Len(pending[on])
      /\ Len(given[on]) \in Nat
  BY <1>2 DEF Text
<1>5. Len(AfterLine(on)) = Len(pending[on]) - n
  BY <1>2, <1>3, EndsShrink DEF AfterLine, StreamInv
<1> HIDE DEF n
<1>6. Promise!Rest(on) = pending[on] BY <1>2, RestIsPending
<1>7. Promise!Publish(Promise!Entry(on, SubSeq(Promise!Rest(on), 1, n - 1)))
  BY <1>1, <1>6, EmitPublishes DEF Entry, Promise!Entry, LineOf, n
<1>8. [r \in Routes |-> Len(given'[r]) - Len(pending'[r])] =
        [[r \in Routes |-> Len(given[r]) - Len(pending[r])]
           EXCEPT ![on] = [r \in Routes |-> Len(given[r]) - Len(pending[r])][on] + n]
  <2>1. pending'[on] = AfterLine(on) /\ \A q \in Routes : q # on => pending'[q] = pending[q]
    BY <1>1, <1>2 DEF TypeOK
  <2>2. Len(given[on]) - Len(pending'[on]) = (Len(given[on]) - Len(pending[on])) + n
    <3>1. n \in Nat BY <1>3, <1>4
    <3>2. Len(pending'[on]) = Len(pending[on]) - n BY <1>5, <2>1
    <3>3. Len(pending[on]) \in Nat /\ Len(given[on]) \in Nat BY <1>4
    <3> QED BY ONLY <3>1, <3>2, <3>3
  <2>3. given' = given BY <1>1
  <2>4. \A r \in Routes : Len(given'[r]) - Len(pending'[r]) =
          IF r = on THEN (Len(given[on]) - Len(pending[on])) + n
                    ELSE Len(given[r]) - Len(pending[r])
    BY <2>1, <2>2, <2>3
  <2> QED BY <1>2, <2>4
<1>9. Promise!HasLine(Promise!Rest(on)) BY <1>3, <1>4, <1>6 DEF Promise!HasLine
<1>10. ~closed BY <1>1 DEF StreamInv
<1>11. \E k \in DOMAIN Promise!Rest(on) :
         /\ Promise!Rest(on)[k] = NL
         /\ \A m \in 1..(k - 1) : Promise!Rest(on)[m] # NL
         /\ [r \in Routes |-> Len(given'[r]) - Len(pending'[r])] =
              [[r \in Routes |-> Len(given[r]) - Len(pending[r])]
                 EXCEPT ![on] = [r \in Routes |-> Len(given[r]) - Len(pending[r])][on] + k]
         /\ Promise!Publish(Promise!Entry(on, SubSeq(Promise!Rest(on), 1, k - 1)))
  <2>1. n \in DOMAIN Promise!Rest(on) BY <1>3, <1>4, <1>6
  <2> WITNESS n \in DOMAIN Promise!Rest(on)
  <2> QED BY <1>3, <1>6, <1>7, <1>8
<1> QED BY <1>1, <1>9, <1>10, <1>11 DEF Promise!Line

\* A tail is a line nobody terminated, published by a flush.
LEMMA TailMaps ==
  ASSUME TypeOK, StreamInv, LineInv, EmitTail, NEW line \in Routes, line = FlushOne
  PROVE Promise!LastLine(line)
<1>1. FlushOne \in Routes /\ pending[FlushOne] # <<>>
  BY DEF FlushOne, Tails, Routes, EmitTail
<1>2. /\ pending' = [pending EXCEPT ![FlushOne] = <<>>]
      /\ Emit(Entry(FlushOne, pending[FlushOne])) /\ stage \in {"flush", "close"}
      /\ UNCHANGED <<stage, closed, given>>
  BY DEF EmitTail, EmitOutput, history
<1>3. Promise!Rest(FlushOne) = pending[FlushOne] BY <1>1, RestIsPending
<1>4. mu = "free" BY <1>2 DEF TypeOK, MayWrite, Callers
<1>5. ~Promise!HasLine(Promise!Rest(FlushOne))
  <2>1. ~HasLine(pending[FlushOne]) /\ pending[FlushOne] \in Text BY <1>1, <1>4 DEF LineInv, TypeOK
  <2> QED BY <1>3, <2>1 DEF HasLine, Contains, Promise!HasLine, Text
<1>6. Promise!Publish(Promise!Entry(FlushOne, Promise!Rest(FlushOne)))
  BY <1>2, <1>3, EmitPublishes DEF Entry, Promise!Entry
<1>7. [r \in Routes |-> Len(given'[r]) - Len(pending'[r])] =
        [[r \in Routes |-> Len(given[r]) - Len(pending[r])] EXCEPT ![FlushOne] = Len(given[FlushOne])]
  <2>1. pending'[FlushOne] = <<>> /\ \A q \in Routes : q # FlushOne => pending'[q] = pending[q]
    BY <1>1, <1>2 DEF TypeOK
  <2>2. given[FlushOne] \in Text BY <1>1 DEF TypeOK
  <2>3. Len(given[FlushOne]) - Len(pending'[FlushOne]) = Len(given[FlushOne])
    BY <2>1, <2>2 DEF Text
  <2>4. \A q \in Routes : Len(given'[q]) - Len(pending'[q]) =
          IF q = FlushOne THEN Len(given[q]) ELSE Len(given[q]) - Len(pending[q])
    <3> TAKE q \in Routes
    <3>1. given'[q] = given[q] BY <1>2
    <3>2. CASE q = FlushOne BY <2>3, <3>1, <3>2
    <3>3. CASE q # FlushOne BY <2>1, <3>1, <3>3
    <3> QED BY <3>2, <3>3
  <2> QED BY <1>1, <2>4
<1>8. ~closed BY <1>2 DEF StreamInv
<1> QED BY <1>1, <1>2, <1>3, <1>5, <1>6, <1>7, <1>8 DEF Promise!LastLine

\* A record of the launcher is a note.
LEMMA RecordMaps ==
  ASSUME TypeOK, StreamInv, LogRecord PROVE Promise!Note \/ UNCHANGED Promise!vars
<1>1. UNCHANGED <<stage, pending, closed, given>> /\ stage \in {"before", "after"}
  BY DEF LogRecord, history
<1>2. ~closed BY <1>1 DEF StreamInv
<1>3. CASE enabled
  <2>1. Promise!Publish(Promise!Entry("launcher", <<>>))
    BY <1>3, EmitPublishes DEF LogRecord, Entry, Promise!Entry
  <2> QED BY <1>1, <1>2, <2>1 DEF Promise!Note
<1>4. CASE ~enabled BY <1>1, <1>4, Invisible DEF LogRecord
<1> QED BY <1>3, <1>4

\* A flush or a close begins with text left and ends with none.
LEMMA FlushMaps ==
  ASSUME TypeOK, StreamInv, StartChild \/ StartClose \/ Flushed \/ Close
  PROVE Promise!Next \/ UNCHANGED Promise!vars
<1>1. UNCHANGED <<pending, log, given>>
  BY DEF StartChild, StartClose, Flushed, Close, history
<1>2. CASE StartChild /\ ~attach
  BY <1>1, <1>2, Invisible DEF StartChild
<1>3. CASE (StartChild /\ attach) \/ StartClose
  <2>1. UNCHANGED <<first, closed>> /\ ~closed /\ stage \in {"before", "after"}
        /\ stage' \in {"flush", "close"}
    BY <1>3 DEF StartChild, StartClose, StreamInv
  <2>2. Promise!Flush BY <1>1, <2>1 DEF Promise!Flush
  <2> QED BY <2>2 DEF Promise!Next
<1>4. ASSUME Flushed \/ Close PROVE \A r \in Routes : Promise!Rest(r) = <<>>
  <2>1. \A r \in Routes : pending[r] = <<>> BY <1>4 DEF Flushed, Close, Tails
  <2> QED BY <2>1, RestIsPending
<1>5. CASE Flushed
  <2>1. UNCHANGED <<first, closed>> /\ ~closed /\ stage = "flush"
        /\ stage' \notin {"flush", "close"}
    BY <1>5 DEF Flushed, StreamInv
  <2>2. Promise!Flushed BY <1>1, <1>4, <1>5, <2>1 DEF Promise!Flushed
  <2> QED BY <2>2 DEF Promise!Next
<1>6. CASE Close
  <2>1. /\ first' = first \/ first' = TRUE
        /\ closed' = TRUE /\ ~closed /\ stage = "close"
    BY <1>6 DEF Close, StreamInv
  <2>2. Promise!Close BY <1>1, <1>4, <1>6, <2>1 DEF Promise!Close
  <2> QED BY <2>2 DEF Promise!Next
<1> QED BY <1>2, <1>3, <1>5, <1>6

\* The stream - mutex, copying goroutines, failing destination and the two ways
\* to end the process included - implements the line log: every route's text
\* reaches the log line by line, in order, each line whole and once, unless the
\* stream reports a failure, and nothing is left behind when it closes.
THEOREM Refinement == Spec => ImplementsLineLog
<1>1. Init => LineInv /\ Promise!Init
  <2> SUFFICES ASSUME Init PROVE LineInv /\ Promise!Init
    OBVIOUS
  <2>1. ~HasLine(<<>>) BY DEF HasLine, Contains
  <2>2. \A r \in Routes : Len(given[r]) - Len(pending[r]) = 0 BY DEF Init
  <2> QED BY <2>1, <2>2 DEF Init, LineInv, Promise!Init
<1>2. TypeOK /\ StreamInv /\ LineInv /\ [Next]_vars => [Promise!Next]_(Promise!vars)
  <2> SUFFICES ASSUME TypeOK, StreamInv, LineInv, [Next]_vars
               PROVE Promise!Next \/ UNCHANGED Promise!vars
    OBVIOUS
  <2>1. ASSUME NEW p \in Callers, NEW r \in Routes,
               NEW text \in (IF p = "main" THEN Prints ELSE Reads), StartWrite(p, r, text)
        PROVE Promise!Next
    BY <2>1, WriteMaps DEF Promise!Next
  <2>2. ASSUME NEW p \in Callers, EmitLine(p) PROVE Promise!Next
    <3>1. PICK r \in Routes : r = on BY DEF TypeOK
    <3>2. Promise!Line(r) BY <2>2, <3>1, LineMaps
    <3> QED BY <3>1, <3>2 DEF Promise!Next
  <2>3. CASE EmitTail
    <3>1. PICK r \in Routes : r = FlushOne BY DEF FlushOne, Routes
    <3>2. Promise!LastLine(r) BY <2>3, <3>1, TailMaps
    <3> QED BY <3>1, <3>2 DEF Promise!Next
  <2>4. CASE LogRecord BY <2>4, RecordMaps DEF Promise!Next
  <2>5. CASE StartChild \/ StartClose \/ Flushed \/ Close BY <2>5, FlushMaps
  <2>6. CASE \/ Open \/ ExecFailed \/ ChildEnds \/ Ended \/ UNCHANGED vars
             \/ (\E p \in Callers : EndWrite(p)) \/ (\E r \in Routes : WriteInVain(r))
    <3>1. UNCHANGED <<given, pending, log, first, closed>>
      BY <2>6 DEF Open, ExecFailed, ChildEnds, Ended, vars, EndWrite, WriteInVain, history
    <3>2. (stage' \in {"flush", "close"}) <=> (stage \in {"flush", "close"})
      BY <2>6 DEF Open, ExecFailed, ChildEnds, Ended, vars, EndWrite, WriteInVain
    <3> QED BY <3>1, <3>2, Invisible
  <2> QED BY <2>1, <2>2, <2>3, <2>4, <2>5, <2>6 DEF Next
<1>3. TypeOK /\ StreamInv /\ LineInv /\ [Next]_vars => LineInv' BY LineStep
<1> QED BY <1>1, <1>2, <1>3, TypeBuffers, PTL DEF Spec, ImplementsLineLog, Promise!Spec
----------------------------------------------------------------------------
(* Nothing is lost unless the stream says so.                              *)

\* What a route was given is what the log tells of it and what is buffered.
Carried == \A r \in Routes : Told(r) \o Printed(pending[r]) = Printed(given[r])

\* As long as the stream reports no failure, everything is in the log or in a
\* buffer and no copier has given up; and it reports none where the launcher
\* ends well or is replaced.
WholeInv ==
  /\ log \in Seq(Record)
  /\ ~first =>
       /\ Carried
       /\ ~failed /\ ~vain /\ \A r \in Routes : copier[r] = "reading"
       /\ enabled => RecordsKept
  /\ (stage = "ended" /\ status = 0) \/ stage = "replaced" => ~first /\ Tails = {}

\* The log has a number of records.
LEMMA CountNat ==
  ASSUME log \in Seq(Record)
  PROVE Cardinality({n \in DOMAIN log : log[n].from = "launcher"}) \in Nat
<1>1. Len(log) \in Nat /\ DOMAIN log = 1..Len(log) BY LenProperties
<1>2. IsFiniteSet(1..Len(log)) BY <1>1, FS_Interval
<1> QED BY <1>1, <1>2, FS_Subset, FS_CardinalityType

\* Records are counted one by one.
LEMMA RecordCounted ==
  ASSUME log \in Seq(Record), NEW e \in Record, log' = Append(log, e)
  PROVE Cardinality({n \in DOMAIN log : log[n].from = "launcher"})'
          = Cardinality({n \in DOMAIN log : log[n].from = "launcher"})
              + (IF e.from = "launcher" THEN 1 ELSE 0)
<1> DEFINE S == {n \in DOMAIN log : log[n].from = "launcher"}
<1>1. /\ Len(log) \in Nat /\ DOMAIN log = 1..Len(log)
      /\ DOMAIN log' = 1..Len(log) + 1
      /\ log'[Len(log) + 1] = e /\ \A n \in 1..Len(log) : log'[n] = log[n]
  BY AppendProperties, LenProperties
<1>2. IsFiniteSet(S) /\ Cardinality(S) \in Nat
  <2>1. IsFiniteSet(1..Len(log)) BY <1>1, FS_Interval
  <2> QED BY <1>1, <2>1, FS_Subset, FS_CardinalityType
<1>3. CASE e.from = "launcher"
  <2>1. S' = S \cup {Len(log) + 1} BY <1>1, <1>3
  <2>2. Len(log) + 1 \notin S BY <1>1
  <2>3. Cardinality(S \cup {Len(log) + 1}) = Cardinality(S) + 1 BY <1>2, <2>2, FS_AddElement
  <2> QED BY <1>3, <2>1, <2>3
<1>4. CASE e.from # "launcher"
  <2>1. S' = S BY <1>1, <1>4
  <2>2. Cardinality(S) + 0 = Cardinality(S) BY <1>2
  <2> QED BY <1>4, <2>1, <2>2
<1> QED BY <1>3, <1>4

\* A step that leaves the log alone keeps what it tells.
LEMMA ToldFrame == ASSUME UNCHANGED log, NEW r \in Routes PROVE Told(r)' = Told(r)
BY DEF Told

\* A record is in the log, or the stream reports a failure.
LEMMA EmitKept ==
  ASSUME TypeOK, WholeInv, NEW e \in Record, Emit(e)
  PROVE /\ log' \in Seq(Record) /\ (first => first')
        /\ ~first' => /\ ~first /\ ~Failing
                      /\ \A r \in Routes :
                           Told(r)' = IF e.from = r THEN Told(r) \o e.text ELSE Told(r)
                      /\ Cardinality({n \in DOMAIN log : log[n].from = "launcher"})'
                           = Cardinality({n \in DOMAIN log : log[n].from = "launcher"})
                               + (IF e.from = "launcher" THEN 1 ELSE 0)
<1>1. Torn \in Record /\ log \in Seq(Record) BY DEF WholeInv, Torn, Entry, Record, Text
<1>2. log' \in Seq(Record) BY <1>1, AppendProperties DEF Emit
<1>3. first => first' BY DEF Emit
<1>4. ASSUME ~first' PROVE ~first /\ ~Failing /\ log' = Append(log, e)
  <2>1. log' = Append(log, e) /\ first' = first /\ faults' = faults BY <1>4 DEF Emit
  <2>2. ~(faults' > faults) BY <2>1 DEF TypeOK
  <2> QED BY <1>4, <2>1, <2>2 DEF Failing
<1> QED BY <1>1, <1>2, <1>3, <1>4, ToldGrows, RecordCounted

\* The start has told nothing and was given nothing.
LEMMA InitWhole == ASSUME Init PROVE WholeInv
<1>1. log = <<>> /\ ~first /\ stage = "open" /\ ~failed /\ ~vain /\ records = 0
      /\ (\A r \in Routes : pending[r] = <<>> /\ given[r] = <<>> /\ copier[r] = "reading")
  BY DEF Init
<1>2. log \in Seq(Record) BY <1>1
<1>3. \A r \in Routes : Told(r) = <<>>
  <2>1. \A r \in Routes : [n \in DOMAIN log |-> IF log[n].from = r THEN log[n].text ELSE <<>>] = <<>>
    BY <1>1
  <2> QED BY <2>1, FlattenNothing DEF Told
<1>4. Carried
  <2>1. <<>> \o <<>> = <<>> OBVIOUS
  <2> QED BY <1>1, <1>3, <2>1, PrintedNothing DEF Carried
<1>5. RecordsKept
  <2>1. {n \in DOMAIN log : log[n].from = "launcher"} = {} BY <1>1
  <2> QED BY <1>1, <2>1, FS_EmptySet DEF RecordsKept
<1> QED BY <1>1, <1>2, <1>4, <1>5 DEF WholeInv

\* Text given is text buffered.
LEMMA WriteWhole ==
  ASSUME TypeOK, WholeInv, NEW p \in Callers, NEW r \in Routes,
         NEW text \in (IF p = "main" THEN Prints ELSE Reads), StartWrite(p, r, text)
  PROVE WholeInv'
<1>1. /\ pending' = [pending EXCEPT ![r] = pending[r] \o text]
      /\ given' = [given EXCEPT ![r] = given[r] \o text] /\ failed' = FALSE
      /\ UNCHANGED <<ways, stage, log, first, copier, status, records, vain>>
      /\ stage \in {"before", "after", "child"}
  BY DEF StartWrite, MayWrite
<1>2. text \in Text /\ pending[r] \in Text /\ given[r] \in Text BY StreamAssumption DEF TypeOK
<1>3. ASSUME ~first' PROVE Carried'
  <2>1. Carried BY <1>1, <1>3 DEF WholeInv
  <2> SUFFICES ASSUME NEW q \in Routes PROVE Told(q)' \o Printed(pending'[q]) = Printed(given'[q])
    BY DEF Carried
  <2>2. Told(q)' = Told(q) BY <1>1, ToldFrame
  <2>3. CASE q = r
    <3>1. pending'[r] = pending[r] \o text /\ given'[r] = given[r] \o text BY <1>1 DEF TypeOK
    <3>2. /\ Printed(pending[r] \o text) = Printed(pending[r]) \o Printed(text)
          /\ Printed(given[r] \o text) = Printed(given[r]) \o Printed(text)
      BY <1>2, PrintedJoin
    <3>3. (Told(r) \o Printed(pending[r])) \o Printed(text)
            = Told(r) \o (Printed(pending[r]) \o Printed(text))
      <4>1. Told(r) \in Text /\ Printed(pending[r]) \in Text /\ Printed(text) \in Text
        BY <1>2, ToldText, PrintedText DEF WholeInv
      <4> QED BY <4>1, ConcatAssociative DEF Text
    <3> QED BY <2>1, <2>2, <2>3, <3>1, <3>2, <3>3 DEF Carried
  <2>4. CASE q # r
    <3>1. pending'[q] = pending[q] /\ given'[q] = given[q] BY <1>1, <2>4 DEF TypeOK
    <3> QED BY <2>1, <2>2, <3>1 DEF Carried
  <2> QED BY <2>3, <2>4
<1>4. RecordsKept' = RecordsKept BY <1>1 DEF RecordsKept
<1> QED BY <1>1, <1>3, <1>4 DEF WholeInv, ways

\* What is taken out of a buffer is in the log, or the stream reports a failure.
LEMMA TakenWhole ==
  ASSUME TypeOK, WholeInv, NEW r \in Routes, NEW line \in Text, NEW rest \in Text,
         Printed(pending[r]) = line \o Printed(rest), Emit(Entry(r, line)),
         pending' = [pending EXCEPT ![r] = rest],
         UNCHANGED <<ways, stage, copier, status, records, given, vain>>,
         failed' = failed \/ failed' = (failed \/ Failing),
         stage \notin {"ended", "replaced"}
  PROVE WholeInv'
<1>1. Entry(r, line) \in Record /\ Entry(r, line).from = r /\ Entry(r, line).text = line
  BY DEF Entry, Record
<1>2. r # "launcher" BY DEF Routes
<1>3. /\ log' \in Seq(Record) /\ (first => first')
      /\ ~first' => /\ ~first /\ ~Failing
                    /\ \A q \in Routes : Told(q)' = IF r = q THEN Told(q) \o line ELSE Told(q)
                    /\ RecordsKept' = RecordsKept
  <2>1. TypeOK /\ records \in Nat BY StreamAssumption DEF TypeOK
  <2>2. Cardinality({n \in DOMAIN log : log[n].from = "launcher"}) + 0
          = Cardinality({n \in DOMAIN log : log[n].from = "launcher"})
    BY CountNat DEF WholeInv
  <2> QED BY <1>1, <1>2, <2>2, EmitKept DEF RecordsKept
<1>4. ASSUME ~first' PROVE Carried'
  <2>1. Carried BY <1>3, <1>4 DEF WholeInv
  <2> SUFFICES ASSUME NEW q \in Routes PROVE Told(q)' \o Printed(pending'[q]) = Printed(given'[q])
    BY DEF Carried
  <2>2. CASE q = r
    <3>1. (Told(r) \o line) \o Printed(rest) = Told(r) \o (line \o Printed(rest))
      <4>1. Told(r) \in Text /\ Printed(rest) \in Text BY ToldText, PrintedText DEF WholeInv
      <4> QED BY <4>1, ConcatAssociative DEF Text
    <3>2. pending'[r] = rest BY DEF TypeOK
    <3>3. Told(r)' = Told(r) \o line BY <1>3, <1>4
    <3> QED BY <2>1, <2>2, <3>1, <3>2, <3>3 DEF Carried
  <2>3. CASE q # r
    <3>1. pending'[q] = pending[q] BY <2>3 DEF TypeOK
    <3>2. Told(q)' = Told(q) BY <1>3, <1>4, <2>3
    <3> QED BY <2>1, <3>1, <3>2 DEF Carried
  <2> QED BY <2>2, <2>3
<1>5. ~first' => ~failed' BY <1>3 DEF WholeInv
<1> QED BY <1>3, <1>4, <1>5 DEF WholeInv, ways

\* A whole line, its newline dropped.
LEMMA LineWhole ==
  ASSUME TypeOK, WholeInv, NEW p \in Callers, EmitLine(p) PROVE WholeInv'
<1> DEFINE t == pending[on]  n == LineEnd(t)  C == Char \cup {NL}
<1>1. /\ pending' = [pending EXCEPT ![on] = AfterLine(on)] /\ Emit(Entry(on, LineOf(on)))
      /\ failed' = (failed \/ Failing)
      /\ UNCHANGED <<ways, stage, copier, status, records, given, vain>>
      /\ stage \in {"before", "child", "after"} /\ HasLine(t)
  BY DEF EmitLine, EmitOutput, history
<1>2. on \in Routes /\ t \in Text /\ t \in Seq(C) /\ Len(t) \in Nat BY DEF TypeOK, Text
<1>3. n \in 1..Len(t) /\ t[n] = NL /\ \A m \in 1..(n - 1) : t[m] # NL BY <1>1, <1>2, FirstLine
<1> HIDE DEF t, n
<1>4. LineOf(on) = SubSeq(t, 1, n - 1) /\ AfterLine(on) = SubSeq(t, n + 1, Len(t))
  BY DEF LineOf, AfterLine, t, n
<1>5. /\ LineOf(on) \in Text /\ AfterLine(on) \in Text /\ Len(LineOf(on)) = n - 1
      /\ \A i \in 1..n - 1 : LineOf(on)[i] = t[i]
  <2>1. n - 1 \in Nat /\ n - 1 <= Len(t) /\ n + 1 \in Nat \ {0} BY <1>2, <1>3
  <2>2. AfterLine(on) \in Text BY <1>2, <1>4, <2>1, Piece
  <2>3. /\ LineOf(on) \in Text /\ Len(LineOf(on)) = IF 1 <= n - 1 THEN n - 1 - 1 + 1 ELSE 0
        /\ \A i \in 1..Len(LineOf(on)) : LineOf(on)[i] = t[1 + i - 1]
    BY <1>2, <1>4, <2>1, Piece
  <2> QED BY <2>1, <2>2, <2>3
<1>6. t = Append(LineOf(on), NL) \o AfterLine(on)
  <2>1. SubSeq(t, 1, n) \o SubSeq(t, n + 1, Len(t)) = SubSeq(t, 1, Len(t))
    BY <1>2, <1>3, ConcatAdjacentSubSeq
  <2>2. SubSeq(t, 1, Len(t)) = t BY <1>2, SubSeqFull
  <2>3. SubSeq(t, 1, n) = Append(LineOf(on), NL)
    <3> DEFINE a == SubSeq(t, 1, n)  b == Append(LineOf(on), NL)
    <3>1. /\ a \in Text /\ Len(a) = IF 1 <= n THEN n - 1 + 1 ELSE 0
          /\ \A i \in 1..Len(a) : a[i] = t[1 + i - 1]
      BY <1>2, <1>3, Piece
    <3>2. /\ b \in Seq(C) /\ Len(b) = n - 1 + 1 /\ b[n - 1 + 1] = NL
          /\ \A i \in 1..n - 1 : b[i] = LineOf(on)[i]
      BY <1>5, AppendProperties DEF Text
    <3> HIDE DEF a, b
    <3>3. a \in Seq(C) /\ Len(a) = n /\ Len(b) = n /\ b[n] = NL /\ n \in Nat
      BY <1>2, <1>3, <3>1, <3>2 DEF Text
    <3>4. ASSUME NEW i \in 1..n PROVE a[i] = b[i]
      <4>1. a[i] = t[i] BY <3>1, <3>3
      <4>2. CASE i = n BY <1>3, <3>3, <4>1, <4>2
      <4>3. CASE i # n
        <5>1. i \in 1..n - 1 BY <3>3, <4>3
        <5> QED BY <1>5, <3>2, <4>1, <5>1
      <4> QED BY <4>2, <4>3
    <3> QED BY <3>2, <3>3, <3>4, SeqEqual DEF a, b
  <2> QED BY <1>4, <2>1, <2>2, <2>3
<1>7. Printed(t) = LineOf(on) \o Printed(AfterLine(on))
  <2>1. Printed(LineOf(on)) = LineOf(on) BY <1>3, <1>5, PrintedPlain
  <2>2. Printed(Append(LineOf(on), NL)) = LineOf(on) \o <<>> BY <1>5, <2>1, PrintedGrows DEF Shown
  <2>3. LineOf(on) \o <<>> = LineOf(on) BY <1>5, ConcatEmptySeq DEF Text
  <2>4. Append(LineOf(on), NL) \in Text BY <1>5, AppendProperties DEF Text
  <2> QED BY <1>5, <1>6, <2>2, <2>3, <2>4, PrintedJoin
<1> QED BY <1>1, <1>2, <1>5, <1>7, TakenWhole DEF t

\* A tail has no newline in it.
LEMMA TailWhole ==
  ASSUME TypeOK, LineInv, WholeInv, EmitTail PROVE WholeInv'
<1>1. FlushOne \in Routes BY DEF FlushOne, Routes
<1>2. /\ pending' = [pending EXCEPT ![FlushOne] = <<>>] /\ Emit(Entry(FlushOne, pending[FlushOne]))
      /\ UNCHANGED <<ways, stage, copier, status, records, given, vain, failed>>
      /\ stage \in {"flush", "close"}
  BY DEF EmitTail, EmitOutput, history
<1>3. pending[FlushOne] \in Text /\ ~HasLine(pending[FlushOne])
  BY <1>1, <1>2 DEF TypeOK, MayWrite, Callers, LineInv
<1>4. Printed(pending[FlushOne]) = pending[FlushOne]
  <2>1. \A i \in 1..Len(pending[FlushOne]) : pending[FlushOne][i] # NL
    BY <1>3 DEF HasLine, Contains, Text
  <2> QED BY <1>3, <2>1, PrintedPlain
<1>5. pending[FlushOne] \o Printed(<<>>) = pending[FlushOne] /\ <<>> \in Text
  BY <1>3, ConcatEmptySeq, PrintedNothing DEF Text
<1> QED BY <1>1, <1>2, <1>3, <1>4, <1>5, TakenWhole

\* A record of the launcher that passes the level is counted.
LEMMA RecordWhole ==
  ASSUME TypeOK, WholeInv, LogRecord PROVE WholeInv'
<1>1. /\ records' = records + 1 /\ stage \in {"before", "after"}
      /\ UNCHANGED <<ways, stage, failed, pending, copier, status, given, vain>>
  BY DEF LogRecord, history
<1>2. CASE enabled
  <2> DEFINE e == Entry("launcher", <<>>)
  <2>1. Emit(e) /\ e \in Record /\ e.from = "launcher" BY <1>2 DEF LogRecord, Entry, Record, Text
  <2>2. \A r \in Routes : e.from # r BY <2>1 DEF Routes
  <2> HIDE DEF e
  <2>3. /\ log' \in Seq(Record) /\ (first => first')
        /\ ~first' => /\ ~first /\ \A r \in Routes : Told(r)' = Told(r)
                      /\ Cardinality({n \in DOMAIN log : log[n].from = "launcher"})'
                           = Cardinality({n \in DOMAIN log : log[n].from = "launcher"}) + 1
    BY <2>1, <2>2, EmitKept
  <2>4. ~first' => Carried' BY <1>1, <2>3 DEF WholeInv, Carried
  <2>5. ~first' => RecordsKept' BY <1>1, <1>2, <2>3 DEF WholeInv, RecordsKept
  <2> QED BY <1>1, <2>3, <2>4, <2>5 DEF WholeInv, ways
<1>3. CASE ~enabled
  <2>1. UNCHANGED <<log, first>> BY <1>3 DEF LogRecord
  <2>2. Carried' = Carried BY <1>1, <2>1, ToldFrame DEF Carried
  <2> QED BY <1>1, <1>3, <2>1, <2>2 DEF WholeInv, ways
<1> QED BY <1>2, <1>3

\* A step that touches neither text, log nor records keeps what is whole, if it
\* leaves copiers alone and ends the launcher well only when all is.
LEMMA WholeFrame ==
  ASSUME WholeInv, UNCHANGED <<enabled, log, pending, given, records>>, first => first',
         ~first' => UNCHANGED <<failed, vain, copier>>,
         (stage' = "ended" /\ status' = 0) \/ stage' = "replaced" => ~first' /\ Tails = {}
  PROVE WholeInv'
<1>1. Carried' = Carried BY ToldFrame DEF Carried
<1>2. RecordsKept' = RecordsKept /\ Tails' = Tails BY DEF RecordsKept, Tails
<1> QED BY <1>1, <1>2 DEF WholeInv

\* Every step keeps it.
LEMMA WholeStep ==
  ASSUME TypeOK, LineInv, WholeInv, [Next]_vars PROVE WholeInv'
<1>1. ASSUME NEW p \in Callers, EndWrite(p) PROVE WholeInv'
  <2>1. /\ UNCHANGED <<ways, stage, failed, pending, log, first, status, records, given, vain>>
        /\ (copier' = copier \/ failed) /\ stage \in {"before", "child", "after"}
    BY <1>1 DEF EndWrite, history
  <2>2. ~first => copier' = copier BY <2>1 DEF WholeInv
  <2> QED BY <2>1, <2>2, WholeFrame DEF ways
<1>2. ASSUME NEW r \in Routes, WriteInVain(r) PROVE WholeInv'
  <2>1. first /\ first' BY <1>2 DEF WriteInVain, WholeInv
  <2> QED BY <1>2, <2>1, WholeFrame DEF WriteInVain, ways
<1>3. CASE Open BY <1>3, WholeFrame DEF Open, ways, history
<1>4. CASE StartChild BY <1>4, WholeFrame DEF StartChild, ways, history
<1>5. CASE Flushed BY <1>5, WholeFrame DEF Flushed, AfterFlush, ways, history
<1>6. CASE ExecFailed BY <1>6, WholeFrame DEF ExecFailed, ways, history
<1>7. CASE ChildEnds BY <1>7, WholeFrame DEF ChildEnds, ways, history
<1>8. CASE StartClose BY <1>8, WholeFrame DEF StartClose, ways, history
<1>9. CASE Close BY <1>9, WholeFrame DEF Close, WithClose, ways, history
<1>10. CASE Ended \/ UNCHANGED vars
  <2>1. UNCHANGED vars BY <1>10 DEF Ended
  <2> QED BY <2>1, WholeFrame DEF vars, ways, history, WholeInv
<1> QED
  BY <1>1, <1>2, <1>3, <1>4, <1>5, <1>6, <1>7, <1>8, <1>9, <1>10, WriteWhole, LineWhole, TailWhole,
     RecordWhole DEF Next

LEMMA WholeHolds == Spec => [](TypeOK /\ WholeInv)
<1>1. Init => LineInv
  <2>1. ~HasLine(<<>>) BY DEF HasLine, Contains
  <2> QED BY <2>1 DEF Init, LineInv
<1> QED BY <1>1, InitWhole, LineStep, WholeStep, TypeBuffers, PTL DEF Spec

\* "A successful launcher result becomes a failure" (USAGE.md:80) when anything
\* was lost: a launch that reports success has all the output of its child and of
\* itself in the log, each character once and in order, and every record.
THEOREM SuccessComplete == Spec => []SuccessMeansComplete
<1>1. TypeOK /\ WholeInv => SuccessMeansComplete
  <2> SUFFICES ASSUME TypeOK, WholeInv, stage = "ended", status = 0
               PROVE (\A r \in Routes : Told(r) = Printed(given[r])) /\ ~vain /\ (enabled => RecordsKept)
    BY DEF SuccessMeansComplete
  <2>1. Carried /\ ~vain /\ (enabled => RecordsKept) /\ Tails = {} BY DEF WholeInv
  <2>2. ASSUME NEW r \in Routes PROVE Told(r) = Printed(given[r])
    <3>1. pending[r] = <<>> BY <2>1 DEF Tails
    <3>2. Told(r) \o <<>> = Told(r) BY ToldText, ConcatEmptySeq DEF WholeInv, Text
    <3> QED BY <2>1, <3>1, <3>2, PrintedNothing DEF Carried
  <2> QED BY <2>1, <2>2
<1> QED BY <1>1, WholeHolds, PTL

\* "Process replacement is blocked" (USAGE.md:80) unless all that was printed and
\* logged is in the log: nobody could write or report the rest.
THEOREM ReplacesIntact == Spec => []ReplacedIntact
<1>1. WholeInv => ReplacedIntact BY DEF WholeInv, ReplacedIntact, Tails
<1> QED BY <1>1, WholeHolds, PTL
=============================================================================
