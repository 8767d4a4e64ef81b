-------------------------- MODULE LayerImageProofs --------------------------
(***************************************************************************)
(* What holds of the tooling layer for any number of launchers, files,     *)
(* edits, moves of the base's tag and faults: the types, that a tag names  *)
(* the base and the contents its image was built from, that what runs is   *)
(* what was asked for, and that nothing is left behind silently.           *)
(***************************************************************************)
EXTENDS LayerImage, TLAPS

\* Where a launcher stands with the image it is deciding for.
Undecided == {"find", "base"}
Reading == {"find", "base", "hash"}
Before == Reading \cup {"confirm", "pre"}
Finishing == {"remove", "recheck"}
Over == {"run", "ended", "killed"}

\* What a launcher has looked up and hashed by the time it builds.
PhaseOf(p) ==
  /\ pc[p] \notin Undecided \cup Over => seen[p] # NoBase
  /\ Len(hash[p]) <= Len(Files)
  /\ pc[p] \notin Reading \cup Over => Len(hash[p]) = Len(Files)
  /\ pc[p] \in Undecided => hash[p] = <<>>
  /\ pc[p] \in Before => sent[p] = None
  /\ sent[p] = None => from[p] = NoBase
  /\ pc[p] \in {"post", "promote"} => from[p] # NoBase
  /\ from[p] # NoBase => seen[p] # NoBase /\ Len(hash[p]) = Len(Files)
PhaseInv == \A p \in Launchers : PhaseOf(p)

\* A direct build stands on the base looked up.  A staged one does if the base's
\* tag has not moved since the check before it, and then the tag still names that
\* base; the check after it lets none pass whose tag is away.
BaseOf(p) ==
  /\ ~staged /\ from[p] # NoBase => from[p] = seen[p]
  /\ pc[p] \in Before => drift[p] = "steady"
  /\ pc[p] \in {"build", "post"} =>
       /\ staged => (drift[p] # "away" <=> base = seen[p])
       /\ drift[p] = "steady" /\ from[p] # NoBase => from[p] = seen[p]
  /\ pc[p] = "promote" => from[p] = seen[p] \/ drift[p] = "back"
  /\ stage[p] # None => stage[p].base = from[p]
BaseInv == TagNamesBase /\ \A p \in Launchers : BaseOf(p)

\* As long as nobody edits, what was hashed is a beginning of the directory,
\* and what was sent, staged and tagged is what was hashed.
CleanOf(p) ==
  /\ clean[p] => \A i \in 1..Len(hash[p]) : hash[p][i] = dir[i]
  /\ sent[p] # None /\ sent[p].clean => sent[p].content = hash[p]
  /\ stage[p] # None => sent[p] # None
  /\ stage[p] # None /\ stage[p].clean => stage[p].content = hash[p]
CleanInv == CleanImagesMatch /\ \A p \in Launchers : CleanOf(p)

\* A launcher past the search goes for a layer somebody named, and once it is
\* settled on an image it is that of its own tag.
Wanted(p) == ~way[p].noLayer /\ "layer" \in {way[p].flag, way[p].env, way[p].project}
Settling(p) == runs[p] = TagOf(p) /\ TagOf(p) \in DOMAIN derived /\ exit[p] = 0
OnBase(p) ==
  /\ runs[p] = BaseImage
  /\ \/ way[p].noLayer
     \/ way[p].flag = "unset" /\ way[p].env = "unset" /\ way[p].project # "layer"
RunOf(p) ==
  /\ pc[p] \notin Finishing \cup Over => runs[p] = None /\ exit[p] = 0
  /\ pc[p] \notin {"find"} \cup Over => Wanted(p)
  /\ pc[p] \in Finishing => runs[p] = None \/ Settling(p)
  /\ pc[p] = "run" => OnBase(p) \/ (Settling(p) /\ Wanted(p))
RunInv == \A p \in Launchers : RunOf(p)
----------------------------------------------------------------------------
(* Types.                                                                  *)

\* A hash that reached the end of the directory has one version per file.
LEMMA WholeHash ==
  ASSUME NEW h \in Seq(Versions), Len(h) = Len(Files) PROVE h \in Context
BY LayerAssumption DEF Context

\* What is tagged carries a tag, and what is built an image.
LEMMA TagType ==
  ASSUME TypeOK, PhaseInv, NEW p \in Launchers, pc[p] \notin Reading \cup Over \/ from[p] # NoBase
  PROVE TagOf(p) \in Tag
<1>1. hash[p] \in Context BY WholeHash DEF TypeOK, PhaseInv, PhaseOf
<1>2. seen[p] \in Bases BY DEF TypeOK, PhaseInv, PhaseOf, Undecided, Reading, Over
<1> QED BY <1>1, <1>2 DEF TagOf, Tag

\* What a builder writes is an image.
LEMMA BuiltType ==
  ASSUME TypeOK, PhaseInv, NEW p \in Launchers, from[p] # NoBase, NEW r \in Tag \cup Launchers
  PROVE Built(p, r) \in Image
<1>1. sent[p] \in Sent BY DEF TypeOK, PhaseInv, PhaseOf
<1>2. from[p] \in Bases BY DEF TypeOK
<1> QED BY <1>1, <1>2 DEF Built, Image, Sent, Drifts

\* A builder writes an image under a tag or a staging tag.
LEMMA WrittenType ==
  ASSUME TypeOK, PhaseInv, NEW p \in Launchers,
         (from[p] # NoBase /\ WriteImage(p)) \/ UNCHANGED <<derived, stage>>
  PROVE /\ stage' \in [Launchers -> Image \cup {None}]
        /\ DOMAIN derived' \subseteq Tag /\ \A t \in DOMAIN derived' : derived'[t] \in Image
<1>1. CASE UNCHANGED <<derived, stage>> BY <1>1 DEF TypeOK
<1>2. CASE from[p] # NoBase /\ WriteImage(p)
  <2>1. TagOf(p) \in Tag /\ Built(p, p) \in Image /\ Built(p, TagOf(p)) \in Image
    BY <1>2, TagType, BuiltType
  <2>2. stage' \in [Launchers -> Image \cup {None}] BY <1>2, <2>1 DEF WriteImage, TypeOK
  <2>3. derived' = derived \/ derived' = Put(derived, TagOf(p), Built(p, TagOf(p)))
    BY <1>2 DEF WriteImage
  <2> QED BY <2>1, <2>2, <2>3 DEF Put, TypeOK
<1> QED BY <1>1, <1>2

\* A step of one launcher takes it to one place.
LEMMA GotoType ==
  ASSUME TypeOK, NEW p \in Launchers, NEW place \in Places, Goto(p, place)
  PROVE /\ pc' \in [Launchers -> Places] /\ pc'[p] = place
        /\ \A q \in Launchers \ {p} : pc'[q] = pc[q]
BY DEF Goto, TypeOK

\* It ends with one status.
LEMMA ExitType ==
  ASSUME TypeOK, NEW p \in Launchers, NEW code \in {0, 1, 2},
         exit' = exit \/ exit' = [exit EXCEPT ![p] = code]
  PROVE exit' \in [Launchers -> {0, 1, 2}]
BY DEF TypeOK

\* It starts an image of its own tag or the base's.
LEMMA RunsType ==
  ASSUME TypeOK, NEW p \in Launchers, NEW image \in Tag \cup {BaseImage},
         runs' = runs \/ runs' = [runs EXCEPT ![p] = image]
  PROVE runs' \in [Launchers -> Tag \cup {None, BaseImage}]
<1>1. image \in Tag \cup {None, BaseImage} OBVIOUS
<1> HIDE DEF Tag, None, BaseImage
<1> QED BY <1>1 DEF TypeOK

\* A probe that goes wrong is counted.
LEMMA FaultType ==
  ASSUME TypeOK, Fault \/ UNCHANGED faults PROVE faults' \in 0..MaxFaults
BY LayerAssumption DEF Fault, TypeOK

\* What a step of one launcher keeps of the types, and what is left to show.
LEMMA StepType ==
  ASSUME TypeOK, NEW p \in Launchers, UNCHANGED <<staged, named, dir, base, edits, moves, way>>,
         Fault \/ UNCHANGED faults,
         NEW place \in Places, pc' = pc \/ Goto(p, place),
         place \in {"pre", "post", "promote", "remove", "recheck"} => staged,
         NEW code \in {0, 1, 2}, exit' = exit \/ exit' = [exit EXCEPT ![p] = code],
         NEW image \in Tag \cup {BaseImage},
         runs' = runs \/ runs' = [runs EXCEPT ![p] = image]
  PROVE /\ UNCHANGED <<derived, stage, seen, from, hash, sent, clean, warned, drift, built>>
           => TypeOK'
        /\ faults' \in 0..MaxFaults /\ exit' \in [Launchers -> {0, 1, 2}]
        /\ runs' \in [Launchers -> Tag \cup {None, BaseImage}]
        /\ pc' \in [Launchers -> Places]
        /\ \A q \in Launchers :
             pc'[q] \in {"pre", "post", "promote", "remove", "recheck"} => staged
<1>1. faults' \in 0..MaxFaults BY FaultType
<1>2. exit' \in [Launchers -> {0, 1, 2}] BY ExitType
<1>3. runs' \in [Launchers -> Tag \cup {None, BaseImage}] BY RunsType
<1>4. /\ pc' \in [Launchers -> Places]
      /\ \A q \in Launchers :
           pc'[q] \in {"pre", "post", "promote", "remove", "recheck"} => staged
  <2>1. CASE pc' = pc BY <2>1 DEF TypeOK
  <2>2. CASE Goto(p, place) /\ pc' # pc BY <2>2, GotoType DEF TypeOK
  <2> QED BY <2>1, <2>2
<1> QED BY <1>1, <1>2, <1>3, <1>4 DEF TypeOK

\* No step of the decision gives a variable a value of another type.
LEMMA DecideTypes ==
  ASSUME TypeOK, PhaseInv, NEW p \in Launchers,
         FindLayer(p) \/ DescribeBase(p) \/ HashFile(p) \/ DescribeTag(p) \/ Confirm(p)
  PROVE TypeOK'
<1> USE DEF world
<1>1. CASE FindLayer(p)
  <2>1. PICK place \in {"ended", "base", "run"} : Goto(p, place)
    BY <1>1 DEF FindLayer, Fails, Start
  <2>2. /\ exit' = exit \/ exit' = [exit EXCEPT ![p] = 2]
        /\ runs' = runs \/ runs' = [runs EXCEPT ![p] = BaseImage]
        /\ UNCHANGED <<staged, named, dir, base, edits, moves, way, faults>>
        /\ UNCHANGED <<derived, stage, seen, from, hash, sent, clean, warned, drift, built>>
    BY <1>1 DEF FindLayer, Fails, Start
  <2> QED BY <2>1, <2>2, StepType DEF Places
<1>2. CASE DescribeBase(p)
  <2>1. PICK place \in {"ended", "hash"} : Goto(p, place) BY <1>2 DEF DescribeBase, Fails
  <2>2. /\ exit' = exit \/ exit' = [exit EXCEPT ![p] = 1]
        /\ seen' = seen \/ seen' = [seen EXCEPT ![p] = base]
        /\ Fault \/ UNCHANGED faults
        /\ UNCHANGED <<staged, named, dir, base, edits, moves, way, runs>>
        /\ UNCHANGED <<derived, stage, from, hash, sent, clean, warned, drift, built>>
    BY <1>2 DEF DescribeBase, Described, Fails
  <2>3. seen' \in [Launchers -> Bases \cup {NoBase}] BY <2>2 DEF TypeOK
  <2>4. /\ faults' \in 0..MaxFaults /\ exit' \in [Launchers -> {0, 1, 2}]
        /\ pc' \in [Launchers -> Places]
        /\ \A q \in Launchers :
             pc'[q] \in {"pre", "post", "promote", "remove", "recheck"} => staged
    BY <2>1, <2>2, StepType DEF Places
  <2> QED BY <2>2, <2>3, <2>4 DEF TypeOK
<1>3. CASE HashFile(p)
  <2>1. ReadNext(p) \in Seq(Versions)
    BY <1>3, LayerAssumption DEF HashFile, ReadNext, Context, TypeOK
  <2>2. pc' = pc \/ Goto(p, "ended") BY <1>3 DEF HashFile, Fails
  <2>3. /\ exit' = exit \/ exit' = [exit EXCEPT ![p] = 1]
        /\ hash' = hash \/ hash' = [hash EXCEPT ![p] = ReadNext(p)]
        /\ clean' = clean \/ clean' = [clean EXCEPT ![p] = TRUE]
        /\ Fault \/ UNCHANGED faults
        /\ UNCHANGED <<staged, named, dir, base, edits, moves, way, runs>>
        /\ UNCHANGED <<derived, stage, seen, from, sent, warned, drift, built>>
    BY <1>3 DEF HashFile, Fails
  <2>4. hash' \in [Launchers -> Seq(Versions)]
    <3>1. hash \in [Launchers -> Seq(Versions)] BY DEF TypeOK
    <3> QED BY ONLY <2>1, <2>3, <3>1
  <2>5. clean' \in [Launchers -> BOOLEAN] BY ONLY TypeOK, <2>3 DEF TypeOK
  <2>6. /\ faults' \in 0..MaxFaults /\ exit' \in [Launchers -> {0, 1, 2}]
        /\ pc' \in [Launchers -> Places]
        /\ \A q \in Launchers :
             pc'[q] \in {"pre", "post", "promote", "remove", "recheck"} => staged
    BY <2>2, <2>3, GotoType, ExitType, FaultType DEF Places, TypeOK
  <2> QED BY <2>3, <2>4, <2>5, <2>6 DEF TypeOK
<1>4. CASE DescribeTag(p)
  <2>1. TagOf(p) \in Tag
    <3>1. hash[p] \in Context BY <1>4, WholeHash DEF DescribeTag, TypeOK
    <3>2. seen[p] \in Bases BY <1>4 DEF DescribeTag, PhaseInv, PhaseOf, Undecided, Over, TypeOK
    <3> QED BY <3>1, <3>2 DEF TagOf, Tag
  <2>2. PICK place \in {"ended", "run", "confirm"} : Goto(p, place)
    BY <1>4 DEF DescribeTag, Fails, Start
  <2>3. /\ exit' = exit \/ exit' = [exit EXCEPT ![p] = 1]
        /\ runs' = runs \/ runs' = [runs EXCEPT ![p] = TagOf(p)]
        /\ Fault \/ UNCHANGED faults
        /\ UNCHANGED <<staged, named, dir, base, edits, moves, way>>
        /\ UNCHANGED <<derived, stage, seen, from, hash, sent, clean, warned, drift, built>>
    BY <1>4 DEF DescribeTag, Described, Fails, Start
  <2> QED BY <2>1, <2>2, <2>3, StepType DEF Places
<1>5. CASE Confirm(p)
  <2>1. PICK place \in {"ended", "pre", "build"} : Goto(p, place) /\ (place = "pre" => staged)
    BY <1>5 DEF Confirm, Fails
  <2>2. /\ exit' = exit \/ exit' = [exit EXCEPT ![p] = 1]
        /\ UNCHANGED <<staged, named, dir, base, edits, moves, way, faults, runs>>
        /\ UNCHANGED <<derived, stage, seen, from, hash, sent, clean, warned, drift, built>>
    BY <1>5 DEF Confirm, Fails
  <2> QED BY <2>1, <2>2, StepType DEF Places
<1> QED BY <1>1, <1>2, <1>3, <1>4, <1>5

\* Nor does the build: its image has the contents sent and the base resolved.
LEMMA BuildTypes ==
  ASSUME TypeOK, PhaseInv, NEW p \in Launchers,
         CheckBefore(p) \/ SendContext(p) \/ ResolveFrom(p) \/ BuildEnds(p) \/ BuildFails(p)
  PROVE TypeOK'
<1> USE DEF world
<1>1. CASE CheckBefore(p)
  <2>1. PICK place \in {"ended", "build"} : Goto(p, place) BY <1>1 DEF CheckBefore, Fails
  <2>2. /\ exit' = exit \/ exit' = [exit EXCEPT ![p] = 1]
        /\ Fault \/ UNCHANGED faults
        /\ UNCHANGED <<staged, named, dir, base, edits, moves, way, runs>>
        /\ UNCHANGED <<derived, stage, seen, from, hash, sent, clean, warned, drift, built>>
    BY <1>1 DEF CheckBefore, Described, Fails
  <2> QED BY <2>1, <2>2, StepType DEF Places
<1>2. CASE SendContext(p)
  <2>1. [image |-> "context", content |-> dir, clean |-> clean[p]] \in Sent BY DEF Sent, TypeOK
  <2> QED BY <1>2, <2>1 DEF SendContext, TypeOK
<1>3. CASE ResolveFrom(p)
  <2>1. BuildRef(p) \in Bases \cup {NoBase} BY DEF BuildRef, TypeOK
  <2> QED BY <1>3, <2>1 DEF ResolveFrom, TypeOK
<1>4. CASE BuildEnds(p)
  <2>1. TagOf(p) \in Tag BY <1>4, TagType DEF BuildEnds
  <2>2. /\ stage' \in [Launchers -> Image \cup {None}]
        /\ DOMAIN derived' \subseteq Tag /\ \A t \in DOMAIN derived' : derived'[t] \in Image
    BY <1>4, WrittenType DEF BuildEnds
  <2>3. PICK place \in {"killed", "post", "run"} : Goto(p, place) /\ (place = "post" => staged)
    BY <1>4 DEF BuildEnds, Start
  <2>4. /\ runs' = runs \/ runs' = [runs EXCEPT ![p] = TagOf(p)]
        /\ UNCHANGED <<staged, named, dir, base, edits, moves, way, faults, exit>>
        /\ UNCHANGED <<seen, from, hash, sent, clean, warned, drift, built>>
    BY <1>4 DEF BuildEnds, Start
  <2>5. /\ runs' \in [Launchers -> Tag \cup {None, BaseImage}]
        /\ pc' \in [Launchers -> Places]
        /\ \A q \in Launchers :
             pc'[q] \in {"pre", "post", "promote", "remove", "recheck"} => staged
    BY <2>1, <2>3, <2>4, GotoType, RunsType DEF Places, TypeOK
  <2> QED BY <2>2, <2>4, <2>5 DEF TypeOK
<1>5. CASE BuildFails(p)
  <2>1. /\ stage' \in [Launchers -> Image \cup {None}]
        /\ DOMAIN derived' \subseteq Tag /\ \A t \in DOMAIN derived' : derived'[t] \in Image
    BY <1>5, WrittenType DEF BuildFails
  <2>2. PICK place \in {"killed", "remove", "ended"} :
          Goto(p, place) /\ (place = "remove" => staged)
    BY <1>5 DEF BuildFails, AfterFailedBuild
  <2>3. /\ exit' = exit \/ exit' = [exit EXCEPT ![p] = 1]
        /\ built' = built \/ \E code \in BuilderCodes : built' = [built EXCEPT ![p] = code]
        /\ Fault \/ UNCHANGED faults
        /\ UNCHANGED <<staged, named, dir, base, edits, moves, way, runs>>
        /\ UNCHANGED <<seen, from, hash, sent, clean, warned, drift>>
    BY <1>5 DEF BuildFails
  <2>4. built' \in [Launchers -> {0} \cup BuilderCodes]
    <3>1. built \in [Launchers -> {0} \cup BuilderCodes] BY DEF TypeOK
    <3> QED BY ONLY <2>3, <3>1
  <2>5. /\ faults' \in 0..MaxFaults /\ exit' \in [Launchers -> {0, 1, 2}]
        /\ pc' \in [Launchers -> Places]
        /\ \A q \in Launchers :
             pc'[q] \in {"pre", "post", "promote", "remove", "recheck"} => staged
    BY <2>2, <2>3, StepType DEF Places
  <2> QED BY <2>1, <2>3, <2>4, <2>5 DEF TypeOK
<1> QED BY <1>1, <1>2, <1>3, <1>4, <1>5

\* Nor do promotion and removal.
LEMMA PromoteTypes ==
  ASSUME TypeOK, PhaseInv, NEW p \in Launchers,
         CheckAfter(p) \/ Promote(p) \/ RemoveStage(p) \/ Recheck(p)
  PROVE TypeOK'
<1>1. CASE CheckAfter(p)
  <2>1. PICK place \in {"promote", "remove"} : Goto(p, place) BY <1>1 DEF CheckAfter
  <2>2. /\ exit' = exit \/ exit' = [exit EXCEPT ![p] = 1]
        /\ Fault \/ UNCHANGED faults
        /\ UNCHANGED <<staged, named, dir, base, edits, moves, way, runs>>
        /\ UNCHANGED <<derived, stage, seen, from, hash, sent, clean, warned, drift, built>>
    BY <1>1 DEF CheckAfter, Described
  <2>3. staged BY <1>1 DEF CheckAfter, TypeOK
  <2> QED BY <2>1, <2>2, <2>3, StepType DEF Places
<1>2. CASE Promote(p)
  <2>1. TagOf(p) \in Tag BY <1>2, TagType DEF Promote, Reading, Over
  <2>2. stage[p] # None => [stage[p] EXCEPT !.drift = drift[p]] \in Image
    <3>1. drift[p] \in Drifts /\ (stage[p] # None => stage[p] \in Image) BY DEF TypeOK
    <3> QED BY ONLY <3>1 DEF Image
  <2>3. \/ derived' = derived
        \/ /\ stage[p] # None
           /\ derived' = Put(derived, TagOf(p), [stage[p] EXCEPT !.drift = drift[p]])
    BY <1>2 DEF Promote
  <2>4. DOMAIN derived' \subseteq Tag /\ \A t \in DOMAIN derived' : derived'[t] \in Image
    BY ONLY TypeOK, <2>1, <2>2, <2>3 DEF Put, TypeOK
  <2>5. /\ runs' = runs \/ runs' = [runs EXCEPT ![p] = TagOf(p)]
        /\ exit' = exit \/ exit' = [exit EXCEPT ![p] = 1]
        /\ Fault \/ UNCHANGED faults
        /\ UNCHANGED <<staged, named, dir, base, edits, moves, way>>
        /\ UNCHANGED <<stage, seen, from, hash, sent, clean, warned, drift, built>>
    BY <1>2 DEF Promote
  <2>6. Goto(p, "remove") /\ staged BY <1>2 DEF Promote, TypeOK
  <2>7. /\ faults' \in 0..MaxFaults /\ exit' \in [Launchers -> {0, 1, 2}]
        /\ runs' \in [Launchers -> Tag \cup {None, BaseImage}]
        /\ pc' \in [Launchers -> Places]
        /\ \A q \in Launchers :
             pc'[q] \in {"pre", "post", "promote", "remove", "recheck"} => staged
    BY <2>1, <2>5, <2>6, GotoType, ExitType, RunsType, FaultType DEF Places
  <2> QED BY <2>4, <2>5, <2>7 DEF TypeOK
<1>3. CASE RemoveStage(p) \/ Recheck(p)
  <2>1. staged BY <1>3 DEF RemoveStage, Recheck, TypeOK
  <2>2. PICK place \in {"recheck", "run", "ended"} : Goto(p, place)
    BY <1>3 DEF RemoveStage, Recheck, Settled
  <2>3. /\ stage' = stage \/ stage' = [stage EXCEPT ![p] = None]
        /\ warned' = warned \/ \E b \in BOOLEAN : warned' = [warned EXCEPT ![p] = @ \/ b]
        /\ Fault \/ UNCHANGED faults
        /\ UNCHANGED <<staged, named, dir, base, edits, moves, way, exit, runs>>
        /\ UNCHANGED <<derived, seen, from, hash, sent, clean, drift, built>>
    BY <1>3 DEF RemoveStage, Recheck, Described
  <2>4. stage' \in [Launchers -> Image \cup {None}] BY <2>3 DEF TypeOK
  <2>5. warned' \in [Launchers -> BOOLEAN] BY ONLY TypeOK, <2>3 DEF TypeOK
  <2>6. /\ faults' \in 0..MaxFaults
        /\ pc' \in [Launchers -> Places]
        /\ \A q \in Launchers :
             pc'[q] \in {"pre", "post", "promote", "remove", "recheck"} => staged
    BY <2>1, <2>2, <2>3, GotoType, FaultType DEF Places
  <2> QED BY <2>3, <2>4, <2>5, <2>6 DEF TypeOK
<1> QED BY <1>1, <1>2, <1>3

\* Nor do the others.
LEMMA OtherTypes ==
  ASSUME TypeOK,
         \/ \E p \in Launchers : PruneStage(p) \/ Killed(p)
         \/ Edit \/ MoveBase \/ Idle
  PROVE TypeOK'
<1> USE LayerAssumption DEF TypeOK, Places, Goto, Fault, launcher, world, vars
<1>1. ASSUME NEW p \in Launchers, PruneStage(p) PROVE TypeOK'
  <2>1. stage' \in [Launchers -> Image \cup {None}] BY <1>1 DEF PruneStage
  <2>2. UNCHANGED <<launcher, staged, named, dir, base, derived, edits, moves, faults>>
    BY <1>1 DEF PruneStage
  <2> QED BY <2>1, <2>2
<1>2. ASSUME NEW p \in Launchers, Killed(p) PROVE TypeOK'
  <2>1. PICK place \in {"killed", "orphan"} : Goto(p, place) BY <1>2 DEF Killed
  <2>2. /\ Fault
        /\ UNCHANGED <<staged, named, dir, base, edits, moves, way, exit, runs>>
        /\ UNCHANGED <<derived, stage, seen, from, hash, sent, clean, warned, drift, built>>
    BY <1>2 DEF Killed
  <2> QED BY <2>1, <2>2, StepType
<1>3. CASE Edit
  <2>1. dir' \in Context BY <1>3 DEF Edit, Context
  <2>2. clean' \in [Launchers -> BOOLEAN] BY <1>3 DEF Edit
  <2>3. edits' \in 0..MaxEdits BY <1>3 DEF Edit
  <2> QED BY <1>3, <2>1, <2>2, <2>3 DEF Edit
<1>5. CASE MoveBase
  <2>1. base' \in Bases \cup {NoBase} BY <1>5 DEF MoveBase
  <2>2. drift' \in [Launchers -> Drifts] BY <1>5 DEF MoveBase, DriftTo, Drifts
  <2>3. moves' \in 0..MaxMoves BY <1>5 DEF MoveBase
  <2> QED BY <1>5, <2>1, <2>2, <2>3 DEF MoveBase
<1>6. CASE Idle BY <1>6 DEF Idle
<1> QED BY <1>1, <1>2, <1>3, <1>5, <1>6

\* Every launcher starts with values of their types.
LEMMA InitTypes == ASSUME Init PROVE TypeOK
BY LayerAssumption DEF Init, TypeOK, Places, Drifts
----------------------------------------------------------------------------
(* Phases.                                                                 *)

\* What a launcher knows when it builds survives every step.
LEMMA InitPhase == ASSUME Init PROVE PhaseInv
BY LayerAssumption DEF Init, PhaseInv, PhaseOf, Undecided, Before, Reading, Over

\* No step of the decision forgets what was looked up and hashed.
LEMMA DecidePhase ==
  ASSUME TypeOK, PhaseInv, NEW p \in Launchers,
         FindLayer(p) \/ DescribeBase(p) \/ HashFile(p) \/ DescribeTag(p) \/ Confirm(p)
  PROVE PhaseInv'
<1> USE LayerAssumption
    DEF PhaseInv, PhaseOf, Undecided, Before, Reading, Over, Goto, Fails, Start,
        launcher, world
<1> USE DEF TypeOK
<1>1. CASE FindLayer(p) BY <1>1 DEF FindLayer
<1>2. CASE DescribeBase(p)
  <2>1. /\ UNCHANGED <<hash, sent, from>> /\ pc[p] = "base"
        /\ pc'[p] = "ended" \/ (pc'[p] = "hash" /\ seen'[p] = base /\ base # NoBase)
        /\ \A q \in Launchers \ {p} : pc'[q] = pc[q] /\ seen'[q] = seen[q]
    BY <1>2 DEF DescribeBase, Described
  <2> QED BY <2>1
<1>3. CASE HashFile(p)
  <2>1. ReadNext(p) \in Seq(Versions) /\ Len(ReadNext(p)) = Len(hash[p]) + 1
    BY <1>3 DEF HashFile, ReadNext, Context
  <2>2. hash' = hash \/ hash' = [hash EXCEPT ![p] = ReadNext(p)] BY <1>3 DEF HashFile
  <2>3. /\ pc'[p] \in {"hash", "ended"} /\ pc[p] = "hash" /\ Len(hash[p]) < Len(Files)
        /\ \A q \in Launchers \ {p} : pc'[q] = pc[q] /\ hash'[q] = hash[q]
        /\ seen' = seen /\ sent' = sent /\ from' = from
    BY <1>3 DEF HashFile
  <2>4. Len(hash'[p]) <= Len(Files) BY <2>1, <2>2, <2>3
  <2>5. sent[p] = None /\ from[p] = NoBase /\ seen[p] # NoBase BY <2>3
  <2> SUFFICES ASSUME NEW q \in Launchers PROVE PhaseOf(q)'
    BY DEF PhaseInv
  <2>6. CASE q = p BY ONLY <2>3, <2>4, <2>5, <2>6 DEF Undecided, Reading, Before, Over
  <2>7. CASE q # p BY <2>3, <2>7
  <2> QED BY <2>6, <2>7
<1>4. CASE DescribeTag(p) BY <1>4 DEF DescribeTag
<1>5. CASE Confirm(p) BY <1>5 DEF Confirm
<1> QED BY <1>1, <1>2, <1>3, <1>4, <1>5

\* Nor does the build: the builder resolves a base only once it has the context.
LEMMA BuildPhase ==
  ASSUME TypeOK, PhaseInv, NEW p \in Launchers,
         CheckBefore(p) \/ SendContext(p) \/ ResolveFrom(p) \/ BuildEnds(p) \/ BuildFails(p)
  PROVE PhaseInv'
<1> USE LayerAssumption
    DEF PhaseInv, PhaseOf, Undecided, Before, Reading, Over, Goto, Fails, Start,
        launcher, world
<1> USE DEF TypeOK
<1>1. CASE CheckBefore(p)
  <2>1. /\ UNCHANGED <<seen, hash, sent, from>> /\ pc[p] = "pre"
        /\ pc'[p] \in {"ended", "build"} /\ \A q \in Launchers \ {p} : pc'[q] = pc[q]
    BY <1>1 DEF CheckBefore
  <2> QED BY <2>1
<1>2. CASE SendContext(p)
  <2>1. [image |-> "context", content |-> dir, clean |-> clean[p]] # None BY DEF None
  <2> QED BY <1>2, <2>1 DEF SendContext, Building
<1>3. CASE ResolveFrom(p) BY <1>3 DEF ResolveFrom, Building
<1>4. CASE BuildEnds(p) \/ BuildFails(p)
  <2>1. /\ UNCHANGED <<seen, hash, sent, from>> /\ pc[p] \in {"build", "orphan"}
        /\ \A q \in Launchers \ {p} : pc'[q] = pc[q]
        /\ \/ pc'[p] \in {"ended", "killed"}
           \/ pc'[p] = "remove" /\ pc[p] = "build"
           \/ pc'[p] \in {"post", "run"} /\ from[p] # NoBase
    BY <1>4 DEF BuildEnds, BuildFails, Building, AfterFailedBuild
  <2> QED BY <2>1
<1> QED BY <1>1, <1>2, <1>3, <1>4

\* Nor do promotion and removal.
LEMMA PromotePhase ==
  ASSUME TypeOK, PhaseInv, NEW p \in Launchers,
         CheckAfter(p) \/ Promote(p) \/ RemoveStage(p) \/ Recheck(p)
  PROVE PhaseInv'
<1> USE LayerAssumption
    DEF PhaseInv, PhaseOf, Undecided, Before, Reading, Over, Goto, Fails, Start,
        launcher, world
<1> USE DEF TypeOK
<1>1. CASE CheckAfter(p) BY <1>1 DEF CheckAfter
<1>2. CASE Promote(p) BY <1>2 DEF Promote
<1>3. CASE RemoveStage(p)
  <2>1. /\ UNCHANGED <<seen, hash, sent, from>> /\ pc[p] = "remove"
        /\ pc'[p] \in {"recheck", "run", "ended"}
        /\ \A q \in Launchers \ {p} : pc'[q] = pc[q]
    BY <1>3 DEF RemoveStage, Settled
  <2> QED BY <2>1
<1>4. CASE Recheck(p) BY <1>4 DEF Recheck, Settled
<1> QED BY <1>1, <1>2, <1>3, <1>4

\* Nor do the others.
LEMMA OtherPhase ==
  ASSUME TypeOK, PhaseInv,
         \/ \E p \in Launchers : PruneStage(p) \/ Killed(p)
         \/ Edit \/ MoveBase \/ Idle
  PROVE PhaseInv'
<1> USE DEF PhaseInv, PhaseOf, Undecided, Before, Reading, Over, Goto, launcher, world, vars
<1> USE DEF TypeOK
<1>1. ASSUME NEW p \in Launchers, PruneStage(p) PROVE PhaseInv' BY <1>1 DEF PruneStage
<1>2. ASSUME NEW p \in Launchers, Killed(p) PROVE PhaseInv' BY <1>2 DEF Killed
<1>3. CASE Edit BY <1>3 DEF Edit
<1>4. CASE MoveBase BY <1>4 DEF MoveBase
<1>5. CASE Idle BY <1>5 DEF Idle
<1> QED BY <1>1, <1>2, <1>3, <1>4, <1>5

\* Both hold in every reachable state.
LEMMA TypePhaseStep ==
  ASSUME TypeOK, PhaseInv, [Next]_vars PROVE TypeOK' /\ PhaseInv'
<1>1. ASSUME NEW p \in Launchers,
             FindLayer(p) \/ DescribeBase(p) \/ HashFile(p) \/ DescribeTag(p) \/ Confirm(p)
      PROVE TypeOK' /\ PhaseInv' BY <1>1, DecideTypes, DecidePhase
<1>2. ASSUME NEW p \in Launchers,
             CheckBefore(p) \/ SendContext(p) \/ ResolveFrom(p) \/ BuildEnds(p) \/ BuildFails(p)
      PROVE TypeOK' /\ PhaseInv' BY <1>2, BuildTypes, BuildPhase
<1>3. ASSUME NEW p \in Launchers, CheckAfter(p) \/ Promote(p) \/ RemoveStage(p) \/ Recheck(p)
      PROVE TypeOK' /\ PhaseInv' BY <1>3, PromoteTypes, PromotePhase
<1>4. CASE \/ \E p \in Launchers : PruneStage(p) \/ Killed(p)
           \/ Edit \/ MoveBase \/ Idle
  BY <1>4, OtherTypes, OtherPhase
<1>5. CASE UNCHANGED vars
  BY <1>5 DEF TypeOK, PhaseInv, PhaseOf, vars, launcher, world
<1> QED BY <1>1, <1>2, <1>3, <1>4, <1>5 DEF Next

\* What a launcher has looked up and hashed by the time it builds, always.
LEMMA TypePhase == Spec => [](TypeOK /\ PhaseInv)
<1>1. Init => TypeOK /\ PhaseInv BY InitTypes, InitPhase
<1>2. TypeOK /\ PhaseInv /\ [Next]_vars => (TypeOK /\ PhaseInv)' BY TypePhaseStep
<1> QED BY <1>1, <1>2, PTL DEF Spec

\* Every variable keeps its type, and only staged builds are checked and
\* cleaned up (resolveLayerImage, layer.go).
THEOREM TypeCorrect == Spec => []TypeOK
BY TypePhase, PTL
----------------------------------------------------------------------------
(* The base a tag names.                                                   *)

\* A step that leaves the images and the bases alone keeps what they name, if it
\* starts no check, build or promotion.
LEMMA BaseFrame ==
  ASSUME TypeOK, BaseInv, UNCHANGED <<staged, base, seen, from, stage, derived, drift>>,
         \A q \in Launchers :
           /\ pc'[q] \in Before => pc[q] \in Before
           /\ pc'[q] \in {"build", "post", "promote"} => pc'[q] = pc[q]
  PROVE BaseInv'
<1>1. TagNamesBase' BY DEF BaseInv, TagNamesBase
<1>2. ASSUME NEW q \in Launchers PROVE BaseOf(q)'
  <2>1. BaseOf(q) BY DEF BaseInv
  <2> QED BY <2>1 DEF BaseOf
<1> QED BY <1>1, <1>2 DEF BaseInv

\* Looking up the base is safe as nothing is resolved yet.
LEMMA BaseLookup ==
  ASSUME TypeOK, PhaseInv, BaseInv, NEW p \in Launchers, DescribeBase(p) PROVE BaseInv'
<1>1. UNCHANGED <<staged, base, from, stage, derived, drift>> /\ pc[p] = "base"
  BY DEF DescribeBase
<1>2. seen' = seen \/ seen' = [seen EXCEPT ![p] = base] BY DEF DescribeBase
<1>3. from[p] = NoBase BY DEF DescribeBase, PhaseInv, PhaseOf, Before, Reading
<1>4. pc'[p] \in {"ended", "hash"} /\ \A q \in Launchers \ {p} : pc'[q] = pc[q]
  BY DEF DescribeBase, Goto, Fails, TypeOK
<1>5. TagNamesBase' BY <1>1 DEF BaseInv, TagNamesBase
<1>6. ASSUME NEW q \in Launchers PROVE BaseOf(q)'
  <2>1. BaseOf(q) /\ BaseOf(p) BY DEF BaseInv
  <2>2. CASE q = p BY <1>1, <1>3, <1>4, <2>1, <2>2 DEF BaseOf, Before, Reading
  <2>3. CASE q # p
    <3>1. seen'[q] = seen[q] BY <1>2, <2>3 DEF TypeOK
    <3> QED BY <1>1, <1>4, <2>1, <2>3, <3>1 DEF BaseOf
  <2> QED BY <2>2, <2>3
<1> QED BY <1>5, <1>6 DEF BaseInv

\* A staged build begins when the base's tag names what was looked up; a direct
\* one needs no check.
LEMMA BaseBegun ==
  ASSUME TypeOK, PhaseInv, BaseInv, NEW p \in Launchers, Confirm(p) \/ CheckBefore(p)
  PROVE BaseInv'
<1>1. UNCHANGED <<staged, base, seen, from, stage, derived, drift>> /\ pc[p] \in Before
  BY DEF Confirm, CheckBefore, Before, Reading, world
<1>2. /\ pc'[p] \in {"ended", "pre"} \/ (pc'[p] = "build" /\ (staged => base = seen[p]))
      /\ \A q \in Launchers \ {p} : pc'[q] = pc[q]
  BY DEF Confirm, CheckBefore, Goto, Fails, TypeOK
<1>3. from[p] = NoBase BY <1>1 DEF PhaseInv, PhaseOf
<1>4. TagNamesBase' BY <1>1 DEF BaseInv, TagNamesBase
<1>5. ASSUME NEW q \in Launchers PROVE BaseOf(q)'
  <2>1. BaseOf(q) BY DEF BaseInv
  <2>2. CASE q = p BY <1>1, <1>2, <1>3, <2>1, <2>2 DEF BaseOf, Before, Reading
  <2>3. CASE q # p BY <1>1, <1>2, <2>1, <2>3 DEF BaseOf
  <2> QED BY <2>2, <2>3
<1> QED BY <1>4, <1>5 DEF BaseInv

\* The builder resolves the identity looked up, or what the tag names by then.
LEMMA BaseResolved ==
  ASSUME TypeOK, PhaseInv, BaseInv, NEW p \in Launchers, ResolveFrom(p) PROVE BaseInv'
<1>1. UNCHANGED <<staged, base, seen, pc, stage, derived, drift>>
  BY DEF ResolveFrom, world
<1>2. from' = [from EXCEPT ![p] = BuildRef(p)] /\ from[p] = NoBase BY DEF ResolveFrom
<1>3. BaseOf(p) BY DEF BaseInv
<1>4. pc[p] \in {"build", "orphan"} BY DEF ResolveFrom, Building
<1>5. from'[p] = IF staged THEN base ELSE seen[p] BY <1>2 DEF BuildRef, TypeOK
<1>6. stage[p] = None
  <2>1. stage[p] # None => stage[p] \in Image BY DEF TypeOK
  <2> QED BY <1>2, <1>3, <2>1, LayerAssumption DEF BaseOf, Image
<1>7. TagNamesBase' BY <1>1 DEF BaseInv, TagNamesBase
<1>8. ASSUME NEW q \in Launchers PROVE BaseOf(q)'
  <2>1. BaseOf(q) BY DEF BaseInv
  <2>2. CASE q = p BY <1>1, <1>3, <1>4, <1>5, <1>6, <2>2 DEF BaseOf, Before, Reading
  <2>3. CASE q # p
    <3>1. from'[q] = from[q] BY <1>2, <2>3 DEF TypeOK
    <3> QED BY <1>1, <2>1, <3>1 DEF BaseOf
  <2> QED BY <2>2, <2>3
<1> QED BY <1>7, <1>8 DEF BaseInv

\* What a builder writes stands on what it resolved, and a direct build on the
\* base looked up, whether the builder then succeeds or fails.
LEMMA BaseWritten ==
  ASSUME TypeOK, PhaseInv, BaseInv, NEW p \in Launchers, BuildEnds(p) \/ BuildFails(p)
  PROVE BaseInv'
<1>1. UNCHANGED <<staged, base, seen, from, drift>> /\ pc[p] \in {"build", "orphan"}
  BY DEF BuildEnds, BuildFails, Building
<1>2. \/ stage' = stage /\ derived' = derived
      \/ /\ stage' = [stage EXCEPT ![p] = Built(p, p)] /\ derived' = derived
      \/ /\ stage' = stage /\ derived' = Put(derived, TagOf(p), Built(p, TagOf(p)))
         /\ ~staged /\ from[p] # NoBase
  BY DEF BuildEnds, BuildFails, WriteImage
<1>3. /\ pc'[p] \in {"killed", "remove", "ended", "run"} \/ (pc'[p] = "post" /\ pc[p] = "build")
      /\ \A q \in Launchers \ {p} : pc'[q] = pc[q]
  BY DEF BuildEnds, BuildFails, AfterFailedBuild, Goto, Start, TypeOK
<1>4. Built(p, p).base = from[p] /\ Built(p, TagOf(p)).base = from[p] BY DEF Built
<1>5. ASSUME ~staged, from[p] # NoBase PROVE from[p] = TagOf(p).base
  BY <1>5 DEF BaseInv, BaseOf, TagOf
<1>6. TagNamesBase' BY <1>2, <1>4, <1>5 DEF BaseInv, TagNamesBase, Put
<1>7. ASSUME NEW q \in Launchers PROVE BaseOf(q)'
  <2>1. BaseOf(q) BY DEF BaseInv
  <2>2. stage'[q] # None => stage'[q].base = from[q]
    BY <1>2, <1>4, <2>1 DEF BaseOf, TypeOK
  <2>3. CASE q = p BY <1>1, <1>3, <2>1, <2>2, <2>3 DEF BaseOf, Before, Reading
  <2>4. CASE q # p BY <1>1, <1>3, <2>1, <2>2, <2>4 DEF BaseOf
  <2> QED BY <2>3, <2>4
<1> QED BY <1>6, <1>7 DEF BaseInv

\* A staged build is promoted only while the tag names the base looked up: it has
\* not moved, and the build stands on that base, or it has moved and is back.
LEMMA BaseChecked ==
  ASSUME TypeOK, PhaseInv, BaseInv, NEW p \in Launchers, CheckAfter(p) PROVE BaseInv'
<1>1. UNCHANGED <<staged, base, seen, from, stage, derived, drift>> /\ pc[p] = "post"
  BY DEF CheckAfter
<1>2. pc'[p] = "remove" \/ (pc'[p] = "promote" /\ base = seen[p])
  BY DEF CheckAfter, MovedMeanwhile, Goto, TypeOK
<1>3. \A q \in Launchers \ {p} : pc'[q] = pc[q] BY DEF CheckAfter, Goto, TypeOK
<1>4. staged /\ from[p] # NoBase BY DEF CheckAfter, TypeOK, PhaseInv, PhaseOf
<1>5. TagNamesBase' BY <1>1 DEF BaseInv, TagNamesBase
<1>6. drift[p] \in {"steady", "away", "back"} BY DEF TypeOK, Drifts
<1>7. ASSUME NEW q \in Launchers PROVE BaseOf(q)'
  <2>1. BaseOf(q) BY DEF BaseInv
  <2>2. CASE q = p
    <3>1. drift[p] # "away" \/ pc'[p] = "remove" BY <1>1, <1>2, <1>4, <2>1, <2>2 DEF BaseOf
    <3> QED BY <1>1, <1>2, <1>4, <1>6, <2>1, <2>2, <3>1 DEF BaseOf, Before, Reading
  <2>3. CASE q # p BY <1>1, <1>3, <2>1, <2>3 DEF BaseOf
  <2> QED BY <2>2, <2>3
<1> QED BY <1>5, <1>7 DEF BaseInv

\* So the tag it gets names its base, or it is marked as one of those.
LEMMA BasePromoted ==
  ASSUME TypeOK, PhaseInv, BaseInv, NEW p \in Launchers, Promote(p) PROVE BaseInv'
<1> DEFINE image == [stage[p] EXCEPT !.drift = drift[p]]
<1>1. UNCHANGED <<staged, base, seen, from, stage, drift>> /\ pc[p] = "promote" BY DEF Promote
<1>2. derived' = derived \/ (stage[p] # None /\ derived' = Put(derived, TagOf(p), image))
  BY DEF Promote
<1>3. pc'[p] = "remove" /\ \A q \in Launchers \ {p} : pc'[q] = pc[q]
  BY DEF Promote, Goto, TypeOK
<1>4. stage[p] # None => image.base = stage[p].base /\ image.drift = drift[p]
  <2>1. stage[p] # None => stage[p] \in Image BY DEF TypeOK
  <2> QED BY <2>1 DEF Image
<1>5. stage[p] # None => image.base = TagOf(p).base \/ image.drift = "back"
  BY <1>1, <1>4 DEF BaseInv, BaseOf, TagOf
<1> HIDE DEF image
<1>6. TagNamesBase' BY <1>2, <1>5 DEF BaseInv, TagNamesBase, Put
<1>7. ASSUME NEW q \in Launchers PROVE BaseOf(q)'
  <2>1. BaseOf(q) BY DEF BaseInv
  <2>2. CASE q = p BY <1>1, <1>3, <2>1, <2>2 DEF BaseOf, Before, Reading
  <2>3. CASE q # p BY <1>1, <1>3, <2>1, <2>3 DEF BaseOf
  <2> QED BY <2>2, <2>3
<1> QED BY <1>6, <1>7 DEF BaseInv

\* Removing a staging image takes away an obligation.
LEMMA BaseRemoved ==
  ASSUME TypeOK, BaseInv, NEW p \in Launchers, RemoveStage(p) \/ PruneStage(p) PROVE BaseInv'
<1>1. UNCHANGED <<staged, base, seen, from, derived, drift>>
  BY DEF RemoveStage, PruneStage, launcher
<1>2. stage' = stage \/ stage' = [stage EXCEPT ![p] = None] BY DEF RemoveStage, PruneStage
<1>3. /\ pc'[p] \in {"recheck", "run", "ended"} \/ pc' = pc
      /\ \A q \in Launchers \ {p} : pc'[q] = pc[q]
  BY DEF RemoveStage, Settled, Goto, PruneStage, launcher, TypeOK
<1>4. TagNamesBase' BY <1>1 DEF BaseInv, TagNamesBase
<1>5. ASSUME NEW q \in Launchers PROVE BaseOf(q)'
  <2>1. BaseOf(q) BY DEF BaseInv
  <2>2. stage'[q] # None => stage'[q] = stage[q] BY <1>2 DEF TypeOK
  <2>3. CASE pc'[q] = pc[q] BY <1>1, <2>1, <2>2, <2>3 DEF BaseOf
  <2>4. CASE pc'[q] \in {"recheck", "run", "ended"}
    BY <1>1, <2>1, <2>2, <2>4 DEF BaseOf, Before, Reading
  <2> QED BY <1>3, <2>3, <2>4
<1> QED BY <1>4, <1>5 DEF BaseInv

\* A move of the base's tag is noted by every staged build it falls into.
LEMMA BaseMoved ==
  ASSUME TypeOK, BaseInv, MoveBase PROVE BaseInv'
<1>1. UNCHANGED <<staged, pc, seen, from, stage, derived>> /\ base' # base BY DEF MoveBase
<1>2. \A q \in Launchers :
        drift'[q] = IF ~staged \/ pc[q] \notin {"build", "post"} THEN drift[q]
                    ELSE IF base' = seen[q] THEN "back" ELSE "away"
  BY DEF MoveBase, DriftTo
<1>3. TagNamesBase' BY <1>1 DEF BaseInv, TagNamesBase
<1>4. ASSUME NEW q \in Launchers PROVE BaseOf(q)'
  <2>1. BaseOf(q) BY DEF BaseInv
  <2>2. CASE staged /\ pc[q] \in {"build", "post"}
    BY <1>1, <1>2, <2>1, <2>2 DEF BaseOf, Before, Reading
  <2>3. CASE ~(staged /\ pc[q] \in {"build", "post"})
    BY <1>1, <1>2, <2>1, <2>3 DEF BaseOf
  <2> QED BY <2>2, <2>3
<1> QED BY <1>3, <1>4 DEF BaseInv

\* Every step is one of these.
LEMMA BaseStep ==
  ASSUME TypeOK, PhaseInv, BaseInv, [Next]_vars PROVE BaseInv'
<1> USE DEF launcher, world, Before, Reading
<1>1. ASSUME NEW p \in Launchers, FindLayer(p) \/ HashFile(p) \/ DescribeTag(p)
      PROVE BaseInv'
  <2>1. UNCHANGED <<staged, base, seen, from, stage, derived, drift>>
    BY <1>1 DEF FindLayer, HashFile, DescribeTag
  <2>2. /\ pc[p] \in Before /\ pc'[p] \in Before \cup {"run", "ended"}
        /\ \A q \in Launchers \ {p} : pc'[q] = pc[q]
    BY <1>1 DEF FindLayer, HashFile, DescribeTag, Goto, Fails, Start, TypeOK
  <2> QED BY <2>1, <2>2, BaseFrame
<1>2. ASSUME NEW p \in Launchers, SendContext(p) \/ Recheck(p) \/ Killed(p)
      PROVE BaseInv'
  <2>1. UNCHANGED <<staged, base, seen, from, stage, derived, drift>>
    BY <1>2 DEF SendContext, Recheck, Killed
  <2>2. /\ pc'[p] \in {"run", "ended", "killed", "orphan"} \/ pc'[p] = pc[p]
        /\ \A q \in Launchers \ {p} : pc'[q] = pc[q]
    BY <1>2 DEF SendContext, Recheck, Killed, Goto, Settled, TypeOK
  <2> QED BY <2>1, <2>2, BaseFrame
<1>3. CASE Edit \/ Idle \/ UNCHANGED vars
  <2>1. UNCHANGED <<staged, base, seen, from, stage, derived, drift, pc>>
    BY <1>3 DEF Edit, Idle, vars
  <2> QED BY <2>1, BaseFrame
<1> QED BY <1>1, <1>2, <1>3, BaseLookup, BaseBegun, BaseResolved, BaseWritten, BaseChecked,
           BasePromoted, BaseRemoved, BaseMoved DEF Next

\* A derived image stands on the base its tag names, wherever the base's tag goes
\* and whatever other launchers, faults and kills do between the probe that looked
\* the base up, the builder's FROM and the promotion (layer.go), unless the tag
\* was moved and moved back between the checks of a staged build (ADR-0007).
THEOREM BaseCorrect == Spec => []TagNamesBase
<1>1. Init => BaseInv
  BY DEF Init, BaseInv, BaseOf, TagNamesBase, Before, Reading
<1>2. TypeOK /\ PhaseInv /\ BaseInv /\ [Next]_vars => BaseInv' BY BaseStep
<1>3. BaseInv => TagNamesBase BY DEF BaseInv
<1> QED BY <1>1, <1>2, <1>3, TypePhase, PTL DEF Spec
----------------------------------------------------------------------------
(* The contents a tag names.                                               *)

\* A step that leaves the images, what was hashed and the directory alone keeps
\* what they hold.
LEMMA CleanFrame ==
  ASSUME TypeOK, CleanInv, UNCHANGED <<dir, hash, sent, clean, derived>>,
         \A q \in Launchers : stage'[q] # None => stage'[q] = stage[q]
  PROVE CleanInv'
<1>1. CleanImagesMatch' BY DEF CleanInv, CleanImagesMatch
<1>2. ASSUME NEW q \in Launchers PROVE CleanOf(q)'
  <2>1. CleanOf(q) BY DEF CleanInv
  <2> QED BY <2>1 DEF CleanOf
<1> QED BY <1>1, <1>2 DEF CleanInv

\* A file is hashed as it is in the directory, and nothing is sent yet.
LEMMA CleanHashed ==
  ASSUME TypeOK, PhaseInv, CleanInv, NEW p \in Launchers, HashFile(p) PROVE CleanInv'
<1>1. UNCHANGED <<dir, sent, derived, stage>> BY DEF HashFile
<1>2. /\ hash' = hash \/ hash' = [hash EXCEPT ![p] = ReadNext(p)]
      /\ clean' = clean \/ (clean' = [clean EXCEPT ![p] = TRUE] /\ hash[p] = <<>>)
  BY DEF HashFile
<1>3. sent[p] = None BY DEF HashFile, PhaseInv, PhaseOf, Before, Reading
<1>4. CleanImagesMatch' BY <1>1 DEF CleanInv, CleanImagesMatch
<1>5. ASSUME NEW q \in Launchers PROVE CleanOf(q)'
  <2>1. CleanOf(q) BY DEF CleanInv
  <2>2. CASE q # p
    <3>1. hash'[q] = hash[q] BY <1>2, <2>2 DEF TypeOK
    <3>2. clean'[q] = clean[q] BY ONLY TypeOK, <1>2, <2>2 DEF TypeOK
    <3> QED BY <1>1, <2>1, <3>1, <3>2 DEF CleanOf
  <2>3. CASE q = p
    <3>1. clean'[p] => clean[p] \/ hash[p] = <<>> BY ONLY TypeOK, <1>2 DEF TypeOK
    <3>2. clean'[p] => \A i \in 1..Len(hash[p]) : hash[p][i] = dir[i]
      BY <2>1, <2>3, <3>1 DEF CleanOf
    <3>3. hash[p] \in Seq(Versions) /\ dir[Len(hash[p]) + 1] \in Versions
      BY LayerAssumption DEF HashFile, TypeOK, Context
    <3>4. CASE hash' = hash
      BY <1>1, <1>3, <2>1, <2>3, <3>2, <3>4 DEF CleanOf
    <3>5. CASE hash' = [hash EXCEPT ![p] = ReadNext(p)]
      <4>1. hash'[p] = Append(hash[p], dir[Len(hash[p]) + 1])
        BY <3>5 DEF TypeOK, ReadNext
      <4>2. /\ Len(hash'[p]) = Len(hash[p]) + 1
            /\ \A i \in 1..Len(hash[p]) : hash'[p][i] = hash[p][i]
            /\ hash'[p][Len(hash[p]) + 1] = dir[Len(hash[p]) + 1]
        BY <3>3, <4>1
      <4>3. \A i \in 1..Len(hash'[p]) : i \in 1..Len(hash[p]) \/ i = Len(hash[p]) + 1
        BY <3>3, <4>2
      <4>4. clean'[p] => \A i \in 1..Len(hash'[p]) : hash'[p][i] = dir'[i]
        BY <1>1, <3>2, <4>2, <4>3
      <4>5. stage[p] = None BY <1>3, <2>1, <2>3 DEF CleanOf
      <4> QED BY <1>1, <1>3, <2>3, <4>4, <4>5 DEF CleanOf
    <3> QED BY <1>2, <3>4, <3>5
  <2> QED BY <2>2, <2>3
<1> QED BY <1>4, <1>5 DEF CleanInv

\* The whole directory is sent: unedited, it is what was hashed.
LEMMA CleanSent ==
  ASSUME TypeOK, PhaseInv, CleanInv, NEW p \in Launchers, SendContext(p) PROVE CleanInv'
<1> DEFINE c == [image |-> "context", content |-> dir, clean |-> clean[p]]
<1>1. UNCHANGED <<dir, hash, clean, derived, stage>> /\ sent' = [sent EXCEPT ![p] = c]
  BY DEF SendContext, world
<1>2. c.content = dir /\ c.clean = clean[p] OBVIOUS
<1>3. hash[p] \in Context /\ dir \in Context
  BY WholeHash DEF SendContext, Building, PhaseInv, PhaseOf, Reading, Over, TypeOK
<1>4. clean[p] => dir = hash[p]
  <2>1. clean[p] => \A i \in 1..Len(hash[p]) : hash[p][i] = dir[i] BY DEF CleanInv, CleanOf
  <2>2. Len(hash[p]) = Len(Files)
    BY DEF SendContext, Building, PhaseInv, PhaseOf, Reading, Over
  <2>3. DOMAIN Files = 1..Len(Files) BY LayerAssumption
  <2> QED BY <1>3, <2>1, <2>2, <2>3 DEF Context
<1>5. stage[p] = None BY DEF SendContext, CleanInv, CleanOf
<1>6. CleanImagesMatch' BY <1>1 DEF CleanInv, CleanImagesMatch
<1>7. ASSUME NEW q \in Launchers PROVE CleanOf(q)'
  <2>1. CleanOf(q) BY DEF CleanInv
  <2>2. CASE q = p
    <3>1. sent'[p] = c BY <1>1 DEF TypeOK
    <3> QED BY <1>1, <1>2, <1>4, <1>5, <2>1, <2>2, <3>1 DEF CleanOf
  <2>3. CASE q # p
    <3>1. sent'[q] = sent[q] BY <1>1, <2>3 DEF TypeOK
    <3> QED BY <1>1, <2>1, <3>1 DEF CleanOf
  <2> QED BY <2>2, <2>3
<1> QED BY <1>6, <1>7 DEF CleanInv

\* What is built has the contents sent, whether the builder succeeds or fails.
LEMMA CleanBuilt ==
  ASSUME TypeOK, PhaseInv, CleanInv, NEW p \in Launchers, BuildEnds(p) \/ BuildFails(p)
  PROVE CleanInv'
<1>1. UNCHANGED <<dir, hash, sent, clean>> BY DEF BuildEnds, BuildFails
<1>2. CASE UNCHANGED <<derived, stage>>
  <2>1. \A q \in Launchers : stage'[q] # None => stage'[q] = stage[q] BY <1>2
  <2> QED BY <1>1, <1>2, <2>1, CleanFrame
<1>3. CASE from[p] # NoBase /\ WriteImage(p)
  <2>1. sent[p] # None BY <1>3 DEF PhaseInv, PhaseOf
  <2>2. \/ stage' = [stage EXCEPT ![p] = Built(p, p)] /\ derived' = derived
        \/ stage' = stage /\ derived' = Put(derived, TagOf(p), Built(p, TagOf(p)))
    BY <1>3 DEF WriteImage
  <2>3. \A r : Built(p, r).content = sent[p].content /\ Built(p, r).clean = sent[p].clean
    BY DEF Built
  <2>4. sent[p].clean => sent[p].content = hash[p] BY <2>1 DEF CleanInv, CleanOf
  <2>5. TagOf(p).content = hash[p] BY DEF TagOf
  <2>6. CleanImagesMatch' BY <2>2, <2>3, <2>4, <2>5 DEF CleanInv, CleanImagesMatch, Put
  <2>7. ASSUME NEW q \in Launchers PROVE CleanOf(q)'
    <3>1. CleanOf(q) BY DEF CleanInv
    <3>2. stage'[q] = stage[q] \/ (q = p /\ stage'[q] = Built(p, p)) BY <2>2 DEF TypeOK
    <3>3. CASE stage'[q] = stage[q] BY <1>1, <3>1, <3>3 DEF CleanOf
    <3>4. CASE q = p /\ stage'[q] = Built(p, p)
      BY <1>1, <2>1, <2>3, <2>4, <3>1, <3>4 DEF CleanOf
    <3> QED BY <3>2, <3>3, <3>4
  <2> QED BY <2>6, <2>7 DEF CleanInv
<1> QED BY <1>2, <1>3 DEF BuildEnds, BuildFails

\* What is promoted has the contents of the staging image.
LEMMA CleanPromoted ==
  ASSUME TypeOK, PhaseInv, CleanInv, NEW p \in Launchers, Promote(p) PROVE CleanInv'
<1>1. UNCHANGED <<dir, hash, sent, clean, stage>> BY DEF Promote
<1> DEFINE image == [stage[p] EXCEPT !.drift = drift[p]]
<1>2. derived' = derived \/ (stage[p] # None /\ derived' = Put(derived, TagOf(p), image))
  BY DEF Promote
<1>3. stage[p] # None /\ image.clean => image.content = TagOf(p).content
  <2>1. stage[p] # None => stage[p] \in Image BY DEF TypeOK
  <2>2. stage[p] # None => image.clean = stage[p].clean /\ image.content = stage[p].content
    BY <2>1 DEF Image
  <2> QED BY <2>2 DEF CleanInv, CleanOf, TagOf
<1> HIDE DEF image
<1>4. CleanImagesMatch' BY <1>2, <1>3 DEF CleanInv, CleanImagesMatch, Put
<1>5. ASSUME NEW q \in Launchers PROVE CleanOf(q)'
  <2>1. CleanOf(q) BY DEF CleanInv
  <2> QED BY <1>1, <2>1 DEF CleanOf
<1> QED BY <1>4, <1>5 DEF CleanInv

\* An edit ends every clean walk, and changes nothing already sent.
LEMMA CleanEdited == ASSUME TypeOK, CleanInv, Edit PROVE CleanInv'
<1>1. UNCHANGED <<hash, sent, derived, stage>> BY DEF Edit
<1>2. \A q \in Launchers : ~clean'[q] BY DEF Edit
<1>3. CleanImagesMatch' BY <1>1 DEF CleanInv, CleanImagesMatch
<1>4. ASSUME NEW q \in Launchers PROVE CleanOf(q)'
  <2>1. CleanOf(q) BY DEF CleanInv
  <2> QED BY <1>1, <1>2, <2>1 DEF CleanOf
<1> QED BY <1>3, <1>4 DEF CleanInv

\* Every step is one of these, or leaves the contents alone.
LEMMA CleanStep ==
  ASSUME TypeOK, PhaseInv, CleanInv, [Next]_vars PROVE CleanInv'
<1> USE DEF launcher, world
<1>1. ASSUME NEW p \in Launchers,
             FindLayer(p) \/ DescribeBase(p) \/ DescribeTag(p) \/ Confirm(p)
             \/ CheckBefore(p) \/ ResolveFrom(p)
      PROVE CleanInv'
  <2>1. UNCHANGED <<dir, hash, sent, clean, derived, stage>>
    BY <1>1 DEF FindLayer, DescribeBase, DescribeTag, Confirm, CheckBefore, ResolveFrom
  <2> QED BY <2>1, CleanFrame
<1>2. ASSUME NEW p \in Launchers,
             CheckAfter(p) \/ RemoveStage(p) \/ Recheck(p) \/ PruneStage(p) \/ Killed(p)
      PROVE CleanInv'
  <2>1. UNCHANGED <<dir, hash, sent, clean, derived>>
    BY <1>2 DEF CheckAfter, RemoveStage, Recheck, PruneStage, Killed
  <2>2. stage' = stage \/ stage' = [stage EXCEPT ![p] = None]
    BY <1>2 DEF CheckAfter, RemoveStage, Recheck, PruneStage, Killed
  <2>3. \A q \in Launchers : stage'[q] # None => stage'[q] = stage[q] BY <2>2 DEF TypeOK
  <2> QED BY <2>1, <2>3, CleanFrame
<1>3. CASE MoveBase \/ Idle \/ UNCHANGED vars
  <2>1. UNCHANGED <<dir, hash, sent, clean, derived, stage>>
    BY <1>3 DEF MoveBase, Idle, vars
  <2> QED BY <2>1, CleanFrame
<1> QED BY <1>1, <1>2, <1>3, CleanHashed, CleanSent, CleanBuilt, CleanPromoted, CleanEdited
    DEF Next

\* A derived image holds what its tag names, unless the directory was edited
\* while the launcher that built it hashed, asked and uploaded it: no other
\* interleaving, fault or kill gives a tag the wrong contents (layer/hash.go).
THEOREM ContentCorrect == Spec => []CleanImagesMatch
<1>1. Init => CleanInv
  BY DEF Init, CleanInv, CleanOf, CleanImagesMatch
<1>2. TypeOK /\ PhaseInv /\ CleanInv /\ [Next]_vars => CleanInv' BY CleanStep
<1>3. CleanInv => CleanImagesMatch BY DEF CleanInv
<1> QED BY <1>1, <1>2, <1>3, TypePhase, PTL DEF Spec
----------------------------------------------------------------------------
(* What a launch is decided for.                                           *)

\* A step of one launcher decides nothing for the others: the images others
\* run are only ever joined by new ones.
LEMMA RunFrame ==
  ASSUME TypeOK, RunInv, NEW p \in Launchers,
         UNCHANGED way, DOMAIN derived \subseteq DOMAIN derived', RunOf(p)',
         \A q \in Launchers \ {p} :
           /\ pc'[q] = pc[q] /\ seen'[q] = seen[q] /\ hash'[q] = hash[q]
           /\ runs'[q] = runs[q] /\ exit'[q] = exit[q]
  PROVE RunInv'
<1>1. ASSUME NEW q \in Launchers \ {p} PROVE RunOf(q)'
  <2>1. RunOf(q) BY DEF RunInv
  <2>2. TagOf(q)' = TagOf(q) BY DEF TagOf
  <2>3. Settling(q) => Settling(q)' BY <2>2 DEF Settling
  <2>4. OnBase(q) => OnBase(q)' BY DEF OnBase
  <2>5. Wanted(q) => Wanted(q)' BY DEF Wanted
  <2> QED BY <2>1, <2>3, <2>4, <2>5 DEF RunOf
<1> QED BY <1>1 DEF RunInv

\* The search goes for a layer only if one is named.
LEMMA RunFound ==
  ASSUME TypeOK, RunInv, NEW p \in Launchers, FindLayer(p) PROVE RunInv'
<1>1. UNCHANGED <<way, seen, hash, derived>> BY DEF FindLayer, world
<1>2. RunOf(p) /\ pc[p] = "find" BY DEF RunInv, FindLayer
<1>3. way[p] \in Way BY LayerAssumption DEF TypeOK
<1>4. RunOf(p)'
  <2>1. CASE pc' = [pc EXCEPT ![p] = "ended"]
    BY <2>1 DEF RunOf, TypeOK, Finishing, Over
  <2>2. CASE /\ pc' = [pc EXCEPT ![p] = "base"] /\ UNCHANGED <<runs, exit>>
             /\ ~way[p].noLayer /\ Layered(way[p])
    <3>1. Wanted(p) BY <1>3, <2>2 DEF Wanted, Layered, NamedDir, Way, Dirs
    <3> QED BY <1>1, <1>2, <2>2, <3>1 DEF RunOf, Wanted, TypeOK, Finishing, Over
  <2>3. CASE /\ pc' = [pc EXCEPT ![p] = "run"] /\ runs' = [runs EXCEPT ![p] = BaseImage]
             /\ way[p].noLayer \/ (NamedDir(way[p]) = "unset" /\ ~Layered(way[p]))
    <3>1. OnBase(p)' BY <1>1, <1>3, <2>3 DEF OnBase, Layered, NamedDir, Way, Dirs, TypeOK
    <3> QED BY <2>3, <3>1 DEF RunOf, TypeOK, Finishing, Over
  <2> QED BY <2>1, <2>2, <2>3 DEF FindLayer, Fails, Goto, Start
<1>5. \A q \in Launchers \ {p} : pc'[q] = pc[q] /\ runs'[q] = runs[q] /\ exit'[q] = exit[q]
  BY DEF FindLayer, Fails, Goto, Start, TypeOK
<1> QED BY <1>1, <1>4, <1>5, RunFrame

\* A step that stays undecided, or ends the launch without a container.
LEMMA RunUndecided ==
  ASSUME TypeOK, RunInv, NEW p \in Launchers,
         DescribeBase(p) \/ HashFile(p) \/ Confirm(p) \/ CheckBefore(p)
         \/ SendContext(p) \/ ResolveFrom(p)
  PROVE RunInv'
<1> USE DEF world
<1>1. UNCHANGED <<way, derived, runs>>
  BY DEF DescribeBase, HashFile, Confirm, CheckBefore, SendContext, ResolveFrom
<1>2. /\ pc[p] \notin {"find"} \cup Finishing \cup Over
      /\ pc'[p] = "ended" \/ (pc'[p] \notin {"find"} \cup Finishing \cup Over /\ exit' = exit)
  BY DEF DescribeBase, HashFile, Confirm, CheckBefore, SendContext, ResolveFrom, Building,
         Goto, Fails, TypeOK, Finishing, Over
<1>3. RunOf(p)'
  <2>1. RunOf(p) BY DEF RunInv
  <2> QED BY <1>1, <1>2, <2>1 DEF RunOf, Wanted, Finishing, Over
<1>4. \A q \in Launchers \ {p} :
        pc'[q] = pc[q] /\ seen'[q] = seen[q] /\ hash'[q] = hash[q] /\ exit'[q] = exit[q]
  BY DEF DescribeBase, HashFile, Confirm, CheckBefore, SendContext, ResolveFrom,
         Goto, Fails, TypeOK
<1> QED BY <1>1, <1>3, <1>4, RunFrame

\* An image is taken for there only if it is there: the probe that goes wrong
\* says absent or fails.
LEMMA RunDescribed ==
  ASSUME TypeOK, RunInv, NEW p \in Launchers, DescribeTag(p) PROVE RunInv'
<1>1. UNCHANGED <<way, derived, seen, hash>> /\ pc[p] = "hash" BY DEF DescribeTag
<1>2. RunOf(p) BY DEF RunInv
<1>3. \/ pc' = [pc EXCEPT ![p] = "ended"] /\ runs' = runs
         /\ exit' = [exit EXCEPT ![p] = 1]
      \/ pc' = [pc EXCEPT ![p] = "run"] /\ runs' = [runs EXCEPT ![p] = TagOf(p)]
         /\ exit' = exit /\ TagOf(p) \in DOMAIN derived
      \/ pc' = [pc EXCEPT ![p] = "confirm"] /\ runs' = runs /\ exit' = exit
  BY DEF DescribeTag, Described, Goto, Fails, Start
<1>4. TagOf(p)' = TagOf(p) BY <1>1 DEF TagOf
<1>5. Wanted(p)' /\ exit[p] = 0 BY <1>1, <1>2 DEF RunOf, Wanted, Over, Finishing
<1>6. RunOf(p)'
  <2>1. CASE pc'[p] = "ended" BY <2>1 DEF RunOf, Finishing, Over
  <2>2. CASE pc' = [pc EXCEPT ![p] = "run"] /\ runs' = [runs EXCEPT ![p] = TagOf(p)]
             /\ exit' = exit /\ TagOf(p) \in DOMAIN derived
    <3>1. Settling(p)' BY <1>1, <1>4, <1>5, <2>2 DEF Settling, TypeOK
    <3> QED BY <1>5, <2>2, <3>1 DEF RunOf, Finishing, Over, TypeOK
  <2>3. CASE pc' = [pc EXCEPT ![p] = "confirm"] /\ runs' = runs /\ exit' = exit
    BY <1>1, <1>2, <1>5, <2>3 DEF RunOf, Finishing, Over, TypeOK
  <2> QED BY <1>3, <2>1, <2>2, <2>3 DEF TypeOK
<1>7. \A q \in Launchers \ {p} : pc'[q] = pc[q] /\ runs'[q] = runs[q] /\ exit'[q] = exit[q]
  BY <1>3 DEF TypeOK
<1> QED BY <1>1, <1>6, <1>7, RunFrame

\* A direct build runs what it has just tagged.
LEMMA RunBuilt ==
  ASSUME TypeOK, RunInv, NEW p \in Launchers, BuildEnds(p) PROVE RunInv'
<1>1. UNCHANGED <<way, seen, hash, exit>> /\ pc[p] \in {"build", "orphan"}
  BY DEF BuildEnds, Building
<1>2. RunOf(p) BY DEF RunInv
<1>3. derived' = derived \/ derived' = Put(derived, TagOf(p), Built(p, TagOf(p)))
  BY DEF BuildEnds, WriteImage
<1>4. DOMAIN derived \subseteq DOMAIN derived' BY <1>3 DEF Put
<1>5. \/ pc' = [pc EXCEPT ![p] = "killed"] /\ runs' = runs
      \/ pc' = [pc EXCEPT ![p] = "post"] /\ runs' = runs
      \/ pc' = [pc EXCEPT ![p] = "run"] /\ runs' = [runs EXCEPT ![p] = TagOf(p)]
         /\ TagOf(p) \in DOMAIN derived'
  BY DEF BuildEnds, WriteImage, Goto, Start, Put
<1>6. TagOf(p)' = TagOf(p) BY <1>1 DEF TagOf
<1>7. Wanted(p)' /\ exit[p] = 0 /\ runs[p] = None
  BY <1>1, <1>2 DEF RunOf, Wanted, Over, Finishing
<1>8. RunOf(p)'
  <2>1. CASE pc'[p] = "killed" BY <2>1 DEF RunOf, Finishing, Over
  <2>2. CASE pc'[p] = "post" /\ runs' = runs
    BY <1>1, <1>7, <2>2 DEF RunOf, Finishing, Over
  <2>3. CASE pc' = [pc EXCEPT ![p] = "run"] /\ runs' = [runs EXCEPT ![p] = TagOf(p)]
             /\ TagOf(p) \in DOMAIN derived'
    <3>1. Settling(p)' BY <1>1, <1>6, <1>7, <2>3 DEF Settling, TypeOK
    <3> QED BY <1>7, <2>3, <3>1 DEF RunOf, Finishing, Over, TypeOK
  <2> QED BY <1>5, <2>1, <2>2, <2>3 DEF TypeOK
<1>9. \A q \in Launchers \ {p} : pc'[q] = pc[q] /\ runs'[q] = runs[q]
  BY <1>5 DEF TypeOK
<1> QED BY <1>1, <1>4, <1>8, <1>9, RunFrame

\* After a staged build only the promotion settles on an image.
LEMMA RunStaged ==
  ASSUME TypeOK, RunInv, NEW p \in Launchers, BuildFails(p) \/ CheckAfter(p) \/ Promote(p)
  PROVE RunInv'
<1>1. UNCHANGED <<way, seen, hash>> /\ pc[p] \in {"build", "orphan", "post", "promote"}
  BY DEF BuildFails, Building, CheckAfter, Promote
<1>2. RunOf(p) BY DEF RunInv
<1>3. DOMAIN derived \subseteq DOMAIN derived'
  BY DEF BuildFails, WriteImage, CheckAfter, Promote, Put
<1>4. TagOf(p)' = TagOf(p) BY <1>1 DEF TagOf
<1>5. Wanted(p)' /\ exit[p] = 0 /\ runs[p] = None
  BY <1>1, <1>2 DEF RunOf, Wanted, Over, Finishing
<1>6. pc'[p] \in Finishing \cup {"ended", "killed"} \/ (pc'[p] = "promote" /\ exit' = exit /\ runs' = runs)
  BY DEF BuildFails, AfterFailedBuild, CheckAfter, Promote, Goto, TypeOK, Finishing
<1>7. \/ runs' = runs
      \/ runs' = [runs EXCEPT ![p] = TagOf(p)] /\ TagOf(p) \in DOMAIN derived' /\ exit' = exit
  BY DEF BuildFails, CheckAfter, Promote, Put
<1>8. runs'[p] = None \/ Settling(p)' BY <1>4, <1>5, <1>7 DEF Settling, TypeOK
<1>9. RunOf(p)' BY <1>5, <1>6, <1>8 DEF RunOf, Finishing, Over
<1>10. \A q \in Launchers \ {p} : pc'[q] = pc[q] /\ runs'[q] = runs[q] /\ exit'[q] = exit[q]
  BY <1>7 DEF BuildFails, CheckAfter, Promote, Goto, TypeOK
<1> QED BY <1>1, <1>3, <1>9, <1>10, RunFrame

\* Cleaning up, or being killed, settles on nothing else.
LEMMA RunCleaned ==
  ASSUME TypeOK, RunInv, NEW p \in Launchers,
         RemoveStage(p) \/ Recheck(p) \/ Killed(p) \/ PruneStage(p)
  PROVE RunInv'
<1> USE DEF launcher
<1>1. UNCHANGED <<way, seen, hash, derived, runs, exit>>
  BY DEF RemoveStage, Recheck, Killed, PruneStage
<1>2. RunOf(p) BY DEF RunInv
<1>3. TagOf(p)' = TagOf(p) BY <1>1 DEF TagOf
<1>4. Settling(p)' = Settling(p) /\ Wanted(p)' = Wanted(p) /\ OnBase(p)' = OnBase(p)
  BY <1>1, <1>3 DEF Settling, Wanted, OnBase
<1>5. \/ pc'[p] = pc[p] \/ pc'[p] \in {"ended", "killed"}
      \/ pc[p] = "build" /\ pc'[p] = "orphan"
      \/ pc[p] = "remove" /\ pc'[p] = "recheck"
      \/ pc[p] \in Finishing /\ pc'[p] = "run" /\ runs[p] # None
  BY DEF RemoveStage, Recheck, Killed, PruneStage, Settled, Goto, TypeOK, Finishing
<1>6. RunOf(p)' BY <1>1, <1>2, <1>4, <1>5 DEF RunOf, Finishing, Over
<1>7. \A q \in Launchers \ {p} : pc'[q] = pc[q]
  BY DEF RemoveStage, Recheck, Killed, PruneStage, Settled, Goto, TypeOK
<1> QED BY <1>1, <1>6, <1>7, RunFrame

\* Every step is one of these, or decides nothing.
LEMMA RunStep ==
  ASSUME TypeOK, RunInv, [Next]_vars PROVE RunInv'
<1>1. CASE Edit \/ MoveBase \/ Idle \/ UNCHANGED vars
  <2>1. UNCHANGED <<way, pc, seen, hash, derived, runs, exit>>
    BY <1>1 DEF Edit, MoveBase, Idle, vars, launcher, world
  <2> QED BY <2>1 DEF RunInv, RunOf, Settling, Wanted, OnBase, TagOf
<1> QED BY <1>1, RunFound, RunUndecided, RunDescribed, RunBuilt, RunStaged, RunCleaned
    DEF Next

\* No container starts from the base image in place of a layer somebody named,
\* nor from an image other than the existing one named after what this launcher
\* looked up and hashed, whatever fails, is killed, pruned or rebuilt meanwhile.
THEOREM RunCorrect == Spec => []RunsWhatWasNamed
<1>1. Init => RunInv BY DEF Init, RunInv, RunOf, Finishing, Over
<1>2. TypeOK /\ RunInv /\ [Next]_vars => RunInv' BY RunStep
<1>3. RunInv => RunsWhatWasNamed
  BY DEF RunInv, RunOf, OnBase, Settling, Wanted, RunsWhatWasNamed
<1> QED BY <1>1, <1>2, <1>3, TypePhase, PTL DEF Spec
----------------------------------------------------------------------------
(* What is left behind.                                                    *)

\* A warning is the last thing a launcher says, and it has no staging image
\* before it builds: the builder has resolved a base by the time it writes one.
WarnOf(p) ==
  /\ pc[p] \notin {"run", "ended"} => ~warned[p]
  /\ stage[p] # None => staged /\ from[p] # NoBase
WarnInv == \A p \in Launchers : WarnOf(p)

\* Only the probe after a failed removal warns, and it is the last step.
LEMMA WarnStep ==
  ASSUME TypeOK, PhaseInv, WarnInv, [Next]_vars PROVE WarnInv'
<1>1. ASSUME NEW p \in Launchers, UNCHANGED <<warned, stage, staged>>,
             \A q \in Launchers : from[q] # NoBase => from'[q] # NoBase,
             \A q \in Launchers \ {p} : pc'[q] = pc[q],
             pc[p] \notin {"run", "ended"} \/ pc' = pc
      PROVE WarnInv'
  BY <1>1 DEF WarnInv, WarnOf
<1>2. ASSUME NEW p \in Launchers,
             FindLayer(p) \/ DescribeBase(p) \/ HashFile(p) \/ DescribeTag(p) \/ Confirm(p)
             \/ CheckBefore(p) \/ CheckAfter(p) \/ Promote(p) \/ Killed(p)
      PROVE WarnInv'
  <2>1. UNCHANGED <<warned, stage, staged, from>> /\ pc[p] \notin {"run", "ended"}
    BY <1>2 DEF FindLayer, DescribeBase, HashFile, DescribeTag, Confirm, CheckBefore,
         CheckAfter, Promote, Killed, world
  <2>2. \A q \in Launchers \ {p} : pc'[q] = pc[q]
    BY <1>2 DEF FindLayer, DescribeBase, HashFile, DescribeTag, Confirm, CheckBefore,
         CheckAfter, Promote, Killed, Goto, Fails, Start, TypeOK
  <2> QED BY <1>1, <2>1, <2>2
<1>3. ASSUME NEW p \in Launchers, SendContext(p) \/ ResolveFrom(p) PROVE WarnInv'
  <2>1. UNCHANGED <<warned, stage, staged, pc>> BY <1>3 DEF SendContext, ResolveFrom, world
  <2>2. from' = from \/ (from' = [from EXCEPT ![p] = BuildRef(p)] /\ BuildRef(p) # NoBase)
    BY <1>3 DEF SendContext, ResolveFrom
  <2>3. \A q \in Launchers : from[q] # NoBase => from'[q] # NoBase BY <2>2 DEF TypeOK
  <2> QED BY <1>1, <2>1, <2>3
<1>4. ASSUME NEW p \in Launchers, BuildEnds(p) \/ BuildFails(p) PROVE WarnInv'
  <2>1. UNCHANGED <<warned, staged, from>> /\ pc[p] \in {"build", "orphan"}
    BY <1>4 DEF BuildEnds, BuildFails, Building
  <2>2. \A q \in Launchers \ {p} : pc'[q] = pc[q]
    BY <1>4 DEF BuildEnds, BuildFails, AfterFailedBuild, Goto, Start, TypeOK
  <2>3. \A q \in Launchers : stage'[q] # stage[q] => staged /\ from[q] # NoBase
    BY <1>4 DEF BuildEnds, BuildFails, WriteImage, TypeOK
  <2> QED BY <2>1, <2>2, <2>3 DEF WarnInv, WarnOf
<1>5. ASSUME NEW p \in Launchers, RemoveStage(p) \/ PruneStage(p) PROVE WarnInv'
  <2>1. UNCHANGED <<warned, staged, from>> BY <1>5 DEF RemoveStage, PruneStage, launcher
  <2>2. /\ pc[p] = "remove" \/ pc' = pc
        /\ \A q \in Launchers \ {p} : pc'[q] = pc[q]
    BY <1>5 DEF RemoveStage, Settled, Goto, PruneStage, launcher, TypeOK
  <2>3. \A q \in Launchers : stage'[q] # None => stage'[q] = stage[q]
    BY <1>5 DEF RemoveStage, PruneStage, TypeOK
  <2> QED BY <2>1, <2>2, <2>3 DEF WarnInv, WarnOf
<1>6. ASSUME NEW p \in Launchers, Recheck(p) PROVE WarnInv'
  <2>1. /\ pc'[p] \in {"run", "ended"} /\ \A q \in Launchers \ {p} : pc'[q] = pc[q]
        /\ UNCHANGED <<stage, staged, from>>
    BY <1>6 DEF Recheck, Settled, Goto, TypeOK
  <2>2. \E b : warned' = [warned EXCEPT ![p] = b] BY <1>6 DEF Recheck
  <2>3. \A q \in Launchers \ {p} : warned'[q] = warned[q] BY ONLY TypeOK, <2>2 DEF TypeOK
  <2> QED BY <2>1, <2>3 DEF WarnInv, WarnOf
<1>7. CASE Edit \/ MoveBase \/ Idle \/ UNCHANGED vars
  <2>1. UNCHANGED <<pc, warned, stage, staged, from>>
    BY <1>7 DEF Edit, MoveBase, Idle, vars, launcher, world
  <2> QED BY <2>1 DEF WarnInv, WarnOf
<1> QED BY <1>2, <1>3, <1>4, <1>5, <1>6, <1>7 DEF Next

\* A launcher that ends has not built, has built directly, has just removed its
\* staging image, or has just probed for it after a removal that failed.
LEMMA EndingStep ==
  ASSUME TypeOK, PhaseInv, WarnInv, Next, NEW p \in Launchers,
         pc[p] \notin {"run", "ended"}, pc'[p] \in {"run", "ended"}
  PROVE \/ UNCHANGED <<stage, warned>> /\ stage[p] = None
        \/ RemoveStage(p) \/ Recheck(p)
<1>1. pc'[p] # pc[p] OBVIOUS
<1>2. ASSUME NEW q \in Launchers \ {p},
             \/ FindLayer(q) \/ DescribeBase(q) \/ HashFile(q) \/ DescribeTag(q)
             \/ Confirm(q) \/ CheckBefore(q) \/ BuildEnds(q) \/ BuildFails(q)
             \/ CheckAfter(q) \/ Promote(q) \/ RemoveStage(q) \/ Recheck(q) \/ Killed(q)
      PROVE pc'[p] = pc[p]
  BY <1>2 DEF FindLayer, DescribeBase, HashFile, DescribeTag, Confirm, CheckBefore,
       BuildEnds, BuildFails, CheckAfter, Promote, RemoveStage, Recheck, Killed,
       Goto, Fails, Start, AfterFailedBuild, Settled, TypeOK
<1>3. /\ \A q \in Launchers : SendContext(q) \/ ResolveFrom(q) \/ PruneStage(q) => pc' = pc
      /\ Edit \/ MoveBase \/ Idle => pc' = pc
  BY DEF SendContext, ResolveFrom, PruneStage, Edit, MoveBase, Idle, vars, launcher
<1>4. ~(CheckAfter(p) \/ Promote(p) \/ Killed(p))
  BY DEF CheckAfter, Promote, Killed, Goto, TypeOK
<1>5. CASE FindLayer(p) \/ DescribeBase(p) \/ HashFile(p) \/ DescribeTag(p) \/ Confirm(p)
           \/ CheckBefore(p)
  <2>1. UNCHANGED <<stage, warned>> /\ pc[p] \in Before
    BY <1>5 DEF FindLayer, DescribeBase, HashFile, DescribeTag, Confirm, CheckBefore, world,
         Before, Reading
  <2>2. from[p] = NoBase BY <2>1 DEF PhaseInv, PhaseOf
  <2> QED BY <2>1, <2>2 DEF WarnInv, WarnOf
<1>6. CASE BuildEnds(p) \/ BuildFails(p)
  <2>1. ~staged /\ warned' = warned /\ stage' = stage
    BY <1>6 DEF BuildEnds, BuildFails, AfterFailedBuild, WriteImage, Goto, TypeOK
  <2>2. stage[p] = None BY <2>1 DEF WarnInv, WarnOf
  <2> QED BY <2>1, <2>2
<1> QED BY <1>1, <1>2, <1>3, <1>4, <1>5, <1>6 DEF Next

\* What the user is told at the end is what is there.
LEMMA LeftoverStep ==
  ASSUME TypeOK, PhaseInv, WarnInv, Next, NEW p \in Launchers,
         pc[p] \notin {"run", "ended"}, pc'[p] \in {"run", "ended"},
         pc[p] = "recheck" => faults' = faults
  PROVE /\ stage'[p] # None => warned'[p]
        /\ named /\ warned'[p] => stage'[p] # None
<1>1. ~warned[p] BY DEF WarnInv, WarnOf
<1>2. CASE UNCHANGED <<stage, warned>> /\ stage[p] = None
  <2>1. warned'[p] = warned[p] BY ONLY <1>2
  <2> QED BY <1>1, <1>2, <2>1
<1>3. CASE RemoveStage(p)
  <2>1. warned' = warned BY <1>3 DEF RemoveStage
  <2>2. stage' = [stage EXCEPT ![p] = None]
    BY <1>3 DEF RemoveStage, Goto, TypeOK
  <2>3. stage'[p] = None BY <2>2 DEF TypeOK
  <2>4. warned'[p] = warned[p] BY ONLY <2>1
  <2> QED BY ONLY <1>1, <2>3, <2>4
<1>4. CASE Recheck(p)
  <2>1. stage' = stage /\ pc[p] = "recheck" BY <1>4 DEF Recheck
  <2>2. PICK answer \in Probes :
          /\ Described(answer, StagePresent(p))
          /\ warned' = [warned EXCEPT ![p] = warned[p] \/ answer # "absent"]
    BY <1>4 DEF Recheck
  <2>3. answer = IF StagePresent(p) THEN "present" ELSE "absent"
    BY <2>1, <2>2 DEF Described, Fault, TypeOK
  <2>4. warned'[p] = (warned[p] \/ answer # "absent") BY ONLY TypeOK, <2>2 DEF TypeOK
  <2>5. warned'[p] <=> answer # "absent" BY ONLY <1>1, <2>4
  <2> QED BY <2>1, <2>3, <2>5 DEF StagePresent
<1> QED BY <1>2, <1>3, <1>4, EndingStep

\* However a launch that was not killed ends, its staging image is gone or the
\* user is told that it remains, and where reports carry names no warning is
\* false, unless the very probe that decides about the warning goes wrong.
THEOREM LeftoversCorrect == Spec => LeftoversReported
<1>1. Init => WarnInv BY DEF Init, WarnInv, WarnOf
<1>2. TypeOK /\ PhaseInv /\ WarnInv /\ [Next]_vars => WarnInv' BY WarnStep
<1>3. TypeOK /\ PhaseInv /\ WarnInv /\ [Next]_vars =>
        [\A p \in Launchers :
           /\ pc[p] \notin {"run", "ended"} /\ pc'[p] \in {"run", "ended"}
           /\ pc[p] = "recheck" => faults' = faults
           => /\ stage'[p] # None => warned'[p]
              /\ named /\ warned'[p] => stage'[p] # None]_vars
  BY LeftoverStep
<1> QED BY <1>1, <1>2, <1>3, TypePhase, PTL DEF Spec, LeftoversReported
=============================================================================
