----------------------------- MODULE LayerImage -----------------------------
(***************************************************************************)
(* The tooling layer: resolveLayerImage (cmd/claude-contained/layer.go)    *)
(* with layer.Resolve, host.FindLayer and the image probes, run by several *)
(* launchers of one project over one image store, while the base image's   *)
(* tag is moved (a rebuild, rebuild.go, or the user) and the user edits    *)
(* the layer directory.                                                    *)
(*                                                                         *)
(* The directory is read file by file when it is hashed and sent whole to  *)
(* the builder.  A tag is what was hashed: the contents and the base.      *)
(***************************************************************************)
EXTENDS Naturals, Sequences, FiniteSets

CONSTANTS
  Launchers,
  Files,        \* the files of the layer directory, in the order of the walk
  Versions,     \* what a file can be, as far as hash.go tells it apart
  Bases, NoBase,  \* the image identities the base's tag can name, or none
  BuilderCodes, \* what a builder that fails can exit with
  Ways,         \* how a launcher may be called and answered, see Way
  MaxEdits,     \* bound: edits of the directory
  MaxMoves,     \* bound: changes of what the base's tag names
  MaxFaults     \* bound: commands that fail for no reason of ours

\* A directory is not named, has no Dockerfile, or is a layer.
Dirs == {"unset", "bare", "layer"}
Way == [noLayer : BOOLEAN, flag : Dirs, env : Dirs, project : Dirs,
        buildFlag : BOOLEAN, tty : BOOLEAN, answer : BOOLEAN]

ASSUME LayerAssumption ==
  /\ Files \in Seq(STRING) /\ Versions # {} /\ Ways \subseteq Way
  /\ NoBase \notin Bases /\ BuilderCodes \subseteq 1..255
  /\ MaxEdits \in Nat /\ MaxMoves \in Nat /\ MaxFaults \in Nat

Context == [DOMAIN Files -> Versions]
Tag == [content : Context, base : Bases]
\* `base' is what FROM resolved to, `as' the reference it was built as.  History:
\* `clean', no edit between the walk's start and the upload's end; `drift', where
\* the base's tag had been between the two checks of a staged build.
Drifts == {"steady", "away", "back"}
Image == [content : Context, base : Bases, as : Tag \cup Launchers,
          clean : BOOLEAN, drift : Drifts]
None == [image |-> "none"]
BaseImage == [image |-> "base"]

VARIABLES
  staged,    \* the runtime takes no immutable reference: Apple Containers
  named,     \* its reports name the image they are about, see DescribeImage
  dir,       \* the layer directory now
  base,      \* what the base image's tag names
  derived,   \* the derived images, by tag
  stage,     \* launcher -> the image under its staging tag, or None
  way, pc,   \* launcher -> how it was called, where it is
  seen,      \* launcher -> the base identity it looked up
  hash,      \* launcher -> the contents it has hashed so far
  sent,      \* launcher -> the context its builder got, or None
  from,      \* launcher -> the base its builder resolved, or NoBase
  clean, drift,  \* launcher -> history, see Image
  built,     \* launcher -> history: what its builder exited with
  warned,    \* launcher -> whether it said its staging image remains
  runs,      \* launcher -> the image it starts: None, BaseImage or a tag
  exit,      \* launcher -> its status when it ends without a container
  edits, moves, faults

launcher == <<way, pc, seen, hash, sent, from, clean, drift, built, warned, runs, exit>>
world == <<staged, named, dir, base, derived, stage, edits, moves, faults>>
vars == <<launcher, world>>
----------------------------------------------------------------------------
TagOf(p) == [content |-> hash[p], base |-> seen[p]]
Put(f, x, y) == [z \in DOMAIN f \cup {x} |-> IF z = x THEN y ELSE f[z]]

Init ==
  /\ staged \in BOOLEAN /\ named \in BOOLEAN /\ (named \/ staged)
  /\ dir \in Context /\ base \in Bases \cup {NoBase}
  /\ derived = [t \in {} |-> None]
  /\ stage = [p \in Launchers |-> None]
  /\ way \in [Launchers -> Ways]
  /\ pc = [p \in Launchers |-> "find"]
  /\ seen = [p \in Launchers |-> NoBase]
  /\ hash = [p \in Launchers |-> <<>>]
  /\ sent = [p \in Launchers |-> None]
  /\ from = [p \in Launchers |-> NoBase]
  /\ clean = [p \in Launchers |-> TRUE]
  /\ drift = [p \in Launchers |-> "steady"]
  /\ built = [p \in Launchers |-> 0]
  /\ warned = [p \in Launchers |-> FALSE]
  /\ runs = [p \in Launchers |-> None]
  /\ exit = [p \in Launchers |-> 0]
  /\ edits = 0 /\ moves = 0 /\ faults = 0

Goto(p, place) == pc' = [pc EXCEPT ![p] = place]
Fails(p, code) == Goto(p, "ended") /\ exit' = [exit EXCEPT ![p] = code]
\* The image the launch is decided for.
Start(p, image) == Goto(p, "run") /\ runs' = [runs EXCEPT ![p] = image]
Fault == faults < MaxFaults /\ faults' = faults + 1

----------------------------------------------------------------------------
(* DescribeImage.  An inspect that fails is a fault unless `image inspect  *)
(* --help' works, and is taken for an absent image if it does: also when   *)
(* the daemon failed.  Apple's inspect still finds a deleted staging tag   *)
(* through the annotation its promoted image carries; the name it answers  *)
(* with tells the two apart, where the report has one (apple_imageid.go).  *)

Probes == {"present", "absent", "fault"}
Described(answer, there) ==
  LET truth == IF there THEN "present" ELSE "absent" IN
  \/ answer = truth /\ UNCHANGED faults
  \/ answer \in {"absent", "fault"} \ {truth} /\ Fault

AnsweredByAnnotation(p) == staged /\ \E t \in DOMAIN derived : derived[t].as = p
AnyAnswer(p) == stage[p] # None \/ AnsweredByAnnotation(p)       \* mutant
StagePresent(p) == stage[p] # None \/ (~named /\ AnsweredByAnnotation(p))

----------------------------------------------------------------------------
(* Deciding.                                                               *)

\* --layer, then the environment, then the project's own directory.  The first
\* one named is the one meant: without Dockerfile it is an error of usage.
NamedDir(w) == IF w.flag # "unset" THEN w.flag ELSE w.env
Layered(w) == NamedDir(w) = "layer" \/ (NamedDir(w) = "unset" /\ w.project = "layer")

FindLayer(p) ==
  /\ pc[p] = "find"
  /\ \/ /\ ~way[p].noLayer /\ NamedDir(way[p]) = "bare"
        /\ Fails(p, 2) /\ UNCHANGED runs
     \/ /\ ~way[p].noLayer /\ Layered(way[p])
        /\ Goto(p, "base") /\ UNCHANGED <<runs, exit>>
     \/ /\ way[p].noLayer \/ (NamedDir(way[p]) = "unset" /\ ~Layered(way[p]))
        /\ Start(p, BaseImage) /\ UNCHANGED exit
  /\ UNCHANGED <<world, way, seen, hash, sent, from, clean, drift, built, warned>>

DescribeBase(p) ==
  /\ pc[p] = "base"
  /\ \E answer \in Probes :
       /\ Described(answer, base # NoBase)
       /\ \/ answer # "present" /\ Fails(p, 1) /\ UNCHANGED seen
          \/ /\ answer = "present"
             /\ seen' = [seen EXCEPT ![p] = base]
             /\ Goto(p, "hash") /\ UNCHANGED exit
  /\ UNCHANGED <<staged, named, dir, base, derived, stage, edits, moves,
                 way, hash, sent, from, clean, drift, built, warned, runs>>

\* An entry that cannot be read is fatal.  Of a file's mode only the execute bit
\* is hashed (gitMode), though all of it is sent: files that differ in the rest
\* are one Version here, and what CleanImagesMatch says holds up to that.
ReadOnce(p) == Append(hash[p], dir[1])                           \* mutant
ReadNext(p) == Append(hash[p], dir[Len(hash[p]) + 1])

HashFile(p) ==
  /\ pc[p] = "hash" /\ Len(hash[p]) < Len(Files)
  /\ \/ Fault /\ Fails(p, 1) /\ UNCHANGED <<hash, clean>>
     \/ /\ hash' = [hash EXCEPT ![p] = ReadNext(p)]
        /\ clean' = IF hash[p] = <<>> THEN [clean EXCEPT ![p] = TRUE] ELSE clean
        /\ UNCHANGED <<faults, pc, exit>>
  /\ UNCHANGED <<staged, named, dir, base, derived, stage, edits, moves,
                 way, seen, sent, from, drift, built, warned, runs>>

DescribeTag(p) ==
  /\ pc[p] = "hash" /\ Len(hash[p]) = Len(Files)
  /\ \E answer \in Probes :
       /\ Described(answer, TagOf(p) \in DOMAIN derived)
       /\ \/ answer = "fault" /\ Fails(p, 1) /\ UNCHANGED runs
          \/ answer = "present" /\ Start(p, TagOf(p)) /\ UNCHANGED exit
          \/ answer = "absent" /\ Goto(p, "confirm") /\ UNCHANGED <<exit, runs>>
  /\ UNCHANGED <<staged, named, dir, base, derived, stage, edits, moves,
                 way, seen, hash, sent, from, clean, drift, built, warned>>

MayBuild(p) == way[p].buildFlag \/ (way[p].tty /\ way[p].answer)

Confirm(p) ==
  /\ pc[p] = "confirm"
  /\ \/ MayBuild(p) /\ Goto(p, IF staged THEN "pre" ELSE "build") /\ UNCHANGED exit
     \/ ~MayBuild(p) /\ Fails(p, 1)
  /\ UNCHANGED <<world, way, seen, hash, sent, from, clean, drift, built, warned, runs>>
----------------------------------------------------------------------------
(* The build: a child process that gets the context, resolves FROM and     *)
(* writes its image under the reference it was given.  It may outlive a    *)
(* launcher killed in the meantime.                                        *)

Building(p) == pc[p] \in {"build", "orphan"}

\* On a mutable reference the base is looked up again before the build.
CheckBefore(p) ==
  /\ pc[p] = "pre"
  /\ \E answer \in Probes :
       /\ Described(answer, base # NoBase)
       /\ IF answer = "present" /\ base = seen[p]
          THEN Goto(p, "build") /\ UNCHANGED exit ELSE Fails(p, 1)
  /\ UNCHANGED <<staged, named, dir, base, derived, stage, edits, moves,
                 way, seen, hash, sent, from, clean, drift, built, warned, runs>>

SendContext(p) ==
  /\ Building(p) /\ sent[p] = None
  /\ sent' = [sent EXCEPT ![p] = [image |-> "context", content |-> dir, clean |-> clean[p]]]
  /\ UNCHANGED <<world, way, pc, seen, hash, from, clean, drift, built, warned, runs, exit>>

\* BuildRef is the identity with Docker, the base image's tag with Apple.
BuildRef(p) == IF staged THEN base ELSE seen[p]

ResolveFrom(p) ==
  /\ Building(p) /\ sent[p] # None /\ from[p] = NoBase /\ BuildRef(p) # NoBase
  /\ from' = [from EXCEPT ![p] = BuildRef(p)]
  /\ UNCHANGED <<world, way, pc, seen, hash, sent, clean, drift, built, warned, runs, exit>>

Built(p, ref) ==
  [content |-> sent[p].content, base |-> from[p], as |-> ref,
   clean |-> sent[p].clean, drift |-> "steady"]

WriteImage(p) ==
  IF staged
  THEN stage' = [stage EXCEPT ![p] = Built(p, p)] /\ UNCHANGED derived
  ELSE derived' = Put(derived, TagOf(p), Built(p, TagOf(p))) /\ UNCHANGED stage

BuildEnds(p) ==
  /\ Building(p) /\ from[p] # NoBase
  /\ WriteImage(p)
  /\ \/ pc[p] = "orphan" /\ Goto(p, "killed") /\ UNCHANGED runs
     \/ pc[p] = "build" /\ staged /\ Goto(p, "post") /\ UNCHANGED runs
     \/ pc[p] = "build" /\ ~staged /\ Start(p, TagOf(p))
  /\ UNCHANGED <<staged, named, dir, base, edits, moves, faults,
                 way, seen, hash, sent, from, clean, drift, built, warned, exit>>

RemoveAlways == "remove"                                         \* mutant
LeaveStage == "ended"                                            \* mutant
AfterFailedBuild == IF staged THEN "remove" ELSE "ended"

\* A builder that fails may have written its image.  Whatever it exits with, the
\* launcher exits with ExitFailure.  Without the base's tag it cannot succeed.
BuildFails(p) ==
  /\ Building(p)
  /\ Fault \/ (BuildRef(p) = NoBase /\ from[p] = NoBase /\ UNCHANGED faults)
  /\ \/ from[p] # NoBase /\ WriteImage(p)
     \/ UNCHANGED <<derived, stage>>
  /\ \/ /\ pc[p] = "build" /\ Goto(p, AfterFailedBuild)
        /\ built' \in {[built EXCEPT ![p] = code] : code \in BuilderCodes}
        /\ exit' = [exit EXCEPT ![p] = 1]
     \/ pc[p] = "orphan" /\ Goto(p, "killed") /\ UNCHANGED <<built, exit>>
  /\ UNCHANGED <<staged, named, dir, base, edits, moves,
                 way, seen, hash, sent, from, clean, drift, warned, runs>>
----------------------------------------------------------------------------
(* Promotion of a staged build, and its removal on every way out.          *)

MovedUnnoticed(p) == base = NoBase                               \* mutant
MovedMeanwhile(p) == base # seen[p]

CheckAfter(p) ==
  /\ pc[p] = "post"
  /\ \E answer \in Probes :
       /\ Described(answer, base # NoBase)
       /\ IF answer = "present" /\ ~MovedMeanwhile(p)
          THEN Goto(p, "promote") /\ UNCHANGED exit
          ELSE Goto(p, "remove") /\ exit' = [exit EXCEPT ![p] = 1]
  /\ UNCHANGED <<staged, named, dir, base, derived, stage, edits, moves,
                 way, seen, hash, sent, from, clean, drift, built, warned, runs>>

\* Tagging fails when the staging image was pruned in between.
Promote(p) ==
  /\ pc[p] = "promote"
  /\ Goto(p, "remove")
  /\ \/ /\ stage[p] # None
        /\ derived' = Put(derived, TagOf(p), [stage[p] EXCEPT !.drift = drift[p]])
        /\ runs' = [runs EXCEPT ![p] = TagOf(p)]
        /\ UNCHANGED <<exit, faults>>
     \/ /\ Fault \/ (stage[p] = None /\ UNCHANGED faults)
        /\ exit' = [exit EXCEPT ![p] = 1] /\ UNCHANGED <<derived, runs>>
  /\ UNCHANGED <<staged, named, dir, base, stage, edits, moves,
                 way, seen, hash, sent, from, clean, drift, built, warned>>

RunAnyway(p) == Goto(p, "run")                                   \* mutant
Settled(p) == Goto(p, IF runs[p] # None THEN "run" ELSE "ended")

RemoveStage(p) ==
  /\ pc[p] = "remove"
  /\ \/ stage' = [stage EXCEPT ![p] = None] /\ Settled(p) /\ UNCHANGED faults
     \/ (Fault \/ (stage[p] = None /\ UNCHANGED faults)) /\ Goto(p, "recheck") /\ UNCHANGED stage
  /\ UNCHANGED <<staged, named, dir, base, derived, edits, moves,
                 way, seen, hash, sent, from, clean, drift, built, warned, runs, exit>>

\* A removal that failed is harmless when the image turns out to be absent.
Recheck(p) ==
  /\ pc[p] = "recheck"
  /\ Settled(p)
  /\ \E answer \in Probes :
       /\ Described(answer, StagePresent(p))
       /\ warned' = [warned EXCEPT ![p] = @ \/ answer # "absent"]
  /\ UNCHANGED <<staged, named, dir, base, derived, stage, edits, moves,
                 way, seen, hash, sent, from, clean, drift, built, runs, exit>>
----------------------------------------------------------------------------
(* The others: the user, who edits, prunes, moves tags and may end a       *)
(* launcher, and launchers called with --rebuild.                          *)

Edit ==
  /\ edits < MaxEdits /\ edits' = edits + 1
  /\ \E f \in DOMAIN Files, v \in Versions : dir' = [dir EXCEPT ![f] = v]
  /\ clean' = [p \in Launchers |-> FALSE]
  /\ UNCHANGED <<staged, named, base, derived, stage, moves, faults,
                 way, pc, seen, hash, sent, from, drift, built, warned, runs, exit>>

PruneStage(p) ==
  /\ stage[p] # None
  /\ stage' = [stage EXCEPT ![p] = None]
  /\ UNCHANGED <<launcher, staged, named, dir, base, derived, edits, moves, faults>>

\* No trap is installed yet: a signal ends the launcher, and nobody cleans up.
Killed(p) ==
  /\ pc[p] \notin {"run", "ended", "killed", "orphan"} /\ Fault
  /\ Goto(p, "killed") \/ (pc[p] = "build" /\ Goto(p, "orphan"))
  /\ UNCHANGED <<staged, named, dir, base, derived, stage, edits, moves,
                 way, seen, hash, sent, from, clean, drift, built, warned, runs, exit>>

\* A rebuild tags a new base image, or an earlier one again when all its layers
\* are cached; the user can remove the tag or put it back.
DriftTo(b) ==
  [p \in Launchers |-> IF ~staged \/ pc[p] \notin {"build", "post"} THEN drift[p]
                       ELSE IF b = seen[p] THEN "back" ELSE "away"]

MoveBase ==
  /\ moves < MaxMoves /\ moves' = moves + 1
  /\ base' \in (Bases \cup {NoBase}) \ {base}
  /\ drift' = DriftTo(base')
  /\ UNCHANGED <<staged, named, dir, derived, stage, edits, faults,
                 way, pc, seen, hash, sent, from, clean, built, warned, runs, exit>>

Idle ==
  /\ \A p \in Launchers : pc[p] \in {"run", "ended", "killed"}
  /\ UNCHANGED vars

Next ==
  \/ \E p \in Launchers :
       \/ FindLayer(p) \/ DescribeBase(p) \/ HashFile(p) \/ DescribeTag(p) \/ Confirm(p)
       \/ CheckBefore(p) \/ SendContext(p) \/ ResolveFrom(p) \/ BuildEnds(p) \/ BuildFails(p)
       \/ CheckAfter(p) \/ Promote(p) \/ RemoveStage(p) \/ Recheck(p)
       \/ PruneStage(p) \/ Killed(p)
  \/ Edit \/ MoveBase \/ Idle

Spec == Init /\ [][Next]_vars
----------------------------------------------------------------------------
(* Properties.                                                             *)

Places == {"find", "base", "hash", "confirm", "pre", "build", "post", "promote",
           "remove", "recheck", "run", "ended", "killed", "orphan"}

Sent == [image : {"context"}, content : Context, clean : BOOLEAN]

\* Every variable has its type; only staged builds are checked and cleaned up.
TypeOK ==
  /\ staged \in BOOLEAN /\ named \in BOOLEAN
  /\ dir \in Context /\ base \in Bases \cup {NoBase}
  /\ DOMAIN derived \subseteq Tag
  /\ \A t \in DOMAIN derived : derived[t] \in Image
  /\ stage \in [Launchers -> Image \cup {None}]
  /\ way \in [Launchers -> Ways] /\ pc \in [Launchers -> Places]
  /\ seen \in [Launchers -> Bases \cup {NoBase}] /\ from \in [Launchers -> Bases \cup {NoBase}]
  /\ hash \in [Launchers -> Seq(Versions)] /\ sent \in [Launchers -> Sent \cup {None}]
  /\ clean \in [Launchers -> BOOLEAN] /\ warned \in [Launchers -> BOOLEAN]
  /\ drift \in [Launchers -> Drifts] /\ built \in [Launchers -> {0} \cup BuilderCodes]
  /\ runs \in [Launchers -> Tag \cup {None, BaseImage}] /\ exit \in [Launchers -> {0, 1, 2}]
  /\ edits \in 0..MaxEdits /\ moves \in 0..MaxMoves /\ faults \in 0..MaxFaults
  /\ \A p \in Launchers :
       pc[p] \in {"pre", "post", "promote", "remove", "recheck"} => staged

\* "it exists, so it was built ... against this base" (layer.go:138-139): a
\* derived image stands on the base its tag names, whatever other launchers did
\* and wherever the base's tag went between the probe, the hash and the builder's
\* FROM.  The one exception is the one ADR-0007:61-63 names: a tag that was moved
\* and moved back between the two checks of a staged build, unseen by both.
TagNamesBase ==
  \A t \in DOMAIN derived : derived[t].base = t.base \/ derived[t].drift = "back"

\* "under-hashing fails by running a stale toolchain, which is the bug this
\* feature must not have" (hash.go): unless the directory was edited while a
\* launcher hashed, asked and uploaded it, the image holds what its tag names.
CleanImagesMatch ==
  \A t \in DOMAIN derived : derived[t].clean => derived[t].content = t.content

\* "it never falls back to the base image" (USAGE.md:203): a container starts
\* from the base image only with --no-layer or when nothing names a layer, and
\* else from the existing image named after what this launcher looked up and
\* hashed, unless something failed first.
RunsWhatWasNamed ==
  \A p \in Launchers :
    pc[p] = "run" =>
      \/ /\ runs[p] = BaseImage
         /\ \/ way[p].noLayer
            \/ way[p].flag = "unset" /\ way[p].env = "unset" /\ way[p].project # "layer"
      \/ /\ runs[p] = TagOf(p) /\ runs[p] \in DOMAIN derived /\ exit[p] = 0
         /\ ~way[p].noLayer /\ "layer" \in {way[p].flag, way[p].env, way[p].project}

\* "It removes that exact stage on every path. Cleanup failure is a warning"
\* (ADR-0007): however a launch that was not killed ends, at a failed build, a
\* base that moved, a promotion that failed or one that worked, its staging image
\* is gone or the user is told that it remains; and where the reports carry names
\* the user is not told so of an image that is gone.  Only a last probe that
\* itself goes wrong is excepted.
LeftoversReported ==
  [][\A p \in Launchers :
       /\ pc[p] \notin {"run", "ended"} /\ pc'[p] \in {"run", "ended"}
       /\ pc[p] = "recheck" => faults' = faults
       => /\ stage'[p] # None => warned'[p]
          /\ named /\ warned'[p] => stage'[p] # None]_vars

\* "A failed layer build is a hard error carrying the builder's own exit status"
\* (USAGE.md:281, ADR-0006:156).
BuilderStatusCarried ==
  \A p \in Launchers : pc[p] = "ended" /\ built[p] # 0 => exit[p] = built[p]
============================================================================
