-------------------------- MODULE DiagnosticStream --------------------------
(***************************************************************************)
(* The diagnostic stream (internal/diagnostic/stream.go) and those who use *)
(* it in one launch: the launcher itself, which prints and logs, and, with *)
(* --log-only, one copying goroutine for each output of the child it runs  *)
(* (os/exec).  A routed Write holds the stream's mutex and emits line by   *)
(* line; the destination may fail at any of them, wholly or half-way.      *)
(*                                                                         *)
(* Text is a sequence of characters; `given' and `vain' are history, read  *)
(* by properties only.                                                     *)
(***************************************************************************)
EXTENDS Naturals, Sequences, FiniteSets, SequencesExt

CONSTANTS
  Char, NL,    \* characters, and the newline
  Reads,       \* what one read of a child's pipe can return
  Prints,      \* what the launcher prints in one call
  ChildStatuses,
  MaxGiven,    \* bound: characters given to one route
  MaxRecords,  \* bound: records the launcher logs
  MaxFaults    \* bound: failures of the destination

Routes == {"stdout", "stderr"}
Callers == Routes \cup {"main"}      \* a copier is named by its route
Text == Seq(Char \cup {NL})

ASSUME StreamAssumption ==
  /\ NL \notin Char
  /\ Reads \subseteq Text \ {<<>>} /\ Prints \subseteq Text \ {<<>>}
  /\ ChildStatuses \subseteq Nat
  /\ MaxGiven \in Nat /\ MaxRecords \in Nat /\ MaxFaults \in Nat

VARIABLES
  logOnly, enabled,  \* --log-only; --log-level lets records through
  attach,            \* execDecision rather than runWith
  stage,             \* where the launcher is
  mu,                \* who holds Stream.mu, or "free"
  on,                \* the route the holder writes or flushes
  failed,            \* the holder's call met an error
  pending,           \* route -> bytes not emitted yet
  log,               \* what reached the destination
  first,             \* stickyWriter.first is set
  closed,            \* Stream.closed
  copier,            \* route -> "reading" or "stopped"
  status,            \* the launcher's status
  records, faults,   \* counted against the bounds
  given, vain        \* history: text taken by a route; output nobody read

vars == <<logOnly, enabled, attach, stage, mu, on, failed, pending, log, first,
          closed, copier, status, records, faults, given, vain>>
ways == <<logOnly, enabled, attach>>
history == <<given, vain>>

Entry(from, text) == [from |-> from, text |-> text]
Torn == Entry("torn", <<>>)
HasLine(text) == Contains(text, NL)
LineEnd(text) == CHOOSE n \in DOMAIN text :
  text[n] = NL /\ \A m \in 1..(n - 1) : text[m] # NL

----------------------------------------------------------------------------
(* The destination, behind stickyWriter: one complete record per Write.    *)

\* The first failure is kept; nothing takes it back.
Emit(e) ==
  \/ log' = Append(log, e) /\ first' = first /\ UNCHANGED faults
  \/ /\ faults < MaxFaults
     /\ faults' = faults + 1
     /\ log' \in {log, Append(log, Torn)}
     /\ first' = TRUE

EmitOutput(r, text) == Emit(Entry(r, text))
Failing == faults' > faults
----------------------------------------------------------------------------
(* Opening: a destination that cannot be set up ends the run with 2.       *)

Init ==
  /\ logOnly \in BOOLEAN /\ enabled \in BOOLEAN /\ attach \in BOOLEAN
  /\ stage = "open" /\ status = 0
  /\ mu = "free" /\ on = "stdout" /\ failed = FALSE
  /\ pending = [r \in Routes |-> <<>>]
  /\ log = <<>> /\ first = FALSE /\ closed = FALSE
  /\ copier = [r \in Routes |-> "reading"]
  /\ records = 0 /\ faults = 0
  /\ given = [r \in Routes |-> <<>>] /\ vain = FALSE

Open ==
  /\ stage = "open"
  /\ \/ stage' = "before" /\ UNCHANGED status
     \/ stage' = "ended" /\ status' = 2
  /\ UNCHANGED <<ways, mu, on, failed, pending, log, first, closed, copier, records,
                 faults, history>>
----------------------------------------------------------------------------
(* routedWriter.Write.                                                     *)

Held(p) == mu = p
MayWrite(p) ==
  IF p = "main" THEN stage \in {"before", "after"}
  ELSE stage = "child" /\ copier[p] = "reading"

StartWrite(p, r, text) ==
  /\ logOnly /\ MayWrite(p) /\ mu = "free"
  /\ p \in Routes => r = p
  /\ Len(given[r]) + Len(text) <= MaxGiven
  /\ mu' = p /\ on' = r /\ failed' = FALSE
  /\ pending' = [pending EXCEPT ![r] = @ \o text]
  /\ given' = [given EXCEPT ![r] = @ \o text]
  /\ UNCHANGED <<ways, stage, log, first, closed, copier, status, records, faults, vain>>

\* The line is taken out of the buffer whether or not it reaches the log.
AfterNewlineKept(r) == SubSeq(pending[r], LineEnd(pending[r]), Len(pending[r])) \* mutant
AfterLine(r) == SubSeq(pending[r], LineEnd(pending[r]) + 1, Len(pending[r]))
LineOf(r) == SubSeq(pending[r], 1, LineEnd(pending[r]) - 1)

EmitLine(p) ==
  /\ Held(p) /\ stage \in {"before", "child", "after"} /\ HasLine(pending[on])
  /\ pending' = [pending EXCEPT ![on] = AfterLine(on)]
  /\ EmitOutput(on, LineOf(on))
  /\ failed' = (failed \/ Failing)
  /\ UNCHANGED <<ways, stage, mu, on, closed, copier, status, records, history>>

\* io.Copy gives up at the first error; the launcher ignores what Fprintf says.
EndWrite(p) ==
  /\ Held(p) /\ stage \in {"before", "child", "after"} /\ ~HasLine(pending[on])
  /\ mu' = "free"
  /\ copier' = IF p \in Routes /\ failed THEN [copier EXCEPT ![p] = "stopped"] ELSE copier
  /\ UNCHANGED <<ways, stage, on, failed, pending, log, first, closed, status, records,
                 faults, history>>

\* The child goes on writing to a pipe that is no longer read.
WriteInVain(r) ==
  /\ stage = "child" /\ copier[r] = "stopped"
  /\ vain' = TRUE
  /\ UNCHANGED <<ways, stage, mu, on, failed, pending, log, first, closed, copier,
                 status, records, faults, given>>
----------------------------------------------------------------------------
(* The launcher's own records: filtered by level, past Stream.mu.          *)

LogRecord ==
  /\ stage \in {"before", "after"} /\ mu # "main" /\ records < MaxRecords
  /\ records' = records + 1
  /\ IF enabled THEN Emit(Entry("launcher", <<>>)) ELSE UNCHANGED <<log, first, faults>>
  /\ UNCHANGED <<ways, stage, mu, on, failed, pending, closed, copier, status, history>>
----------------------------------------------------------------------------
(* Flush and Close: the tail of stdout, then the tail of stderr.           *)

Tails == {r \in Routes : pending[r] # <<>>}
FlushOne == IF "stdout" \in Tails THEN "stdout" ELSE "stderr"

EmitTail ==
  /\ stage \in {"flush", "close"} /\ Tails # {}
  /\ pending' = [pending EXCEPT ![FlushOne] = <<>>]
  /\ EmitOutput(FlushOne, pending[FlushOne])
  /\ UNCHANGED <<ways, stage, mu, on, failed, closed, copier, status, records, history>>

\* execDecision flushes first: a stream that failed stops it.
StartChild ==
  /\ stage = "before" /\ mu = "free"
  /\ stage' = IF attach THEN "flush" ELSE "child"
  /\ UNCHANGED <<ways, mu, on, failed, pending, log, first, closed, copier, status,
                 records, faults, history>>

BlindFlush == "go"                                               \* mutant
AfterFlush == IF first THEN "blocked" ELSE "go"

\* Attaching replaces the process, unless its output has to be carried.
Flushed ==
  /\ stage = "flush" /\ Tails = {}
  /\ \/ AfterFlush = "blocked" /\ stage' = "after" /\ status' = 1
     \/ AfterFlush = "go" /\ logOnly /\ stage' = "child" /\ UNCHANGED status
     \/ AfterFlush = "go" /\ ~logOnly /\ stage' \in {"replaced", "execFailed"}
        /\ UNCHANGED status
  /\ UNCHANGED <<ways, mu, on, failed, pending, log, first, closed, copier, records,
                 faults, history>>

ExecFailed ==
  /\ stage = "execFailed"
  /\ stage' = "after" /\ status' = 127
  /\ UNCHANGED <<ways, mu, on, failed, pending, log, first, closed, copier, records,
                 faults, history>>

\* Wait returns when both copiers are done; a copy that failed is its error
\* unless the child itself failed.
NotWaitedFor == TRUE                                             \* mutant
CopiersDone == mu = "free"
RunStatus(s) == IF s = 0 /\ \E r \in Routes : copier[r] = "stopped" THEN 1 ELSE s

ChildEnds ==
  /\ stage = "child" /\ CopiersDone
  /\ \E s \in ChildStatuses : status' = RunStatus(s)
  /\ stage' = "after"
  /\ UNCHANGED <<ways, mu, on, failed, pending, log, first, closed, copier, records,
                 faults, history>>

StartClose ==
  /\ stage = "after" /\ mu = "free"
  /\ stage' = "close"
  /\ UNCHANGED <<ways, mu, on, failed, pending, log, first, closed, copier, status,
                 records, faults, history>>

KeepStatus == status                                             \* mutant
WithClose == IF first' /\ status = 0 THEN 1 ELSE status

\* The file is closed (which may fail too) and the deferred call of runWith
\* turns a success into a failure when the stream reports one.
Close ==
  /\ stage = "close" /\ Tails = {}
  /\ \/ UNCHANGED <<first, faults>>
     \/ faults < MaxFaults /\ faults' = faults + 1 /\ first' = TRUE
  /\ closed' = TRUE /\ stage' = "ended"
  /\ status' = WithClose
  /\ UNCHANGED <<ways, mu, on, failed, pending, log, copier, records, history>>

Ended == stage \in {"ended", "replaced"} /\ UNCHANGED vars

Next ==
  \/ Open \/ LogRecord \/ StartChild \/ Flushed \/ ExecFailed \/ ChildEnds
  \/ EmitTail \/ StartClose \/ Close
  \/ \E p \in Callers :
       \/ \E r \in Routes, text \in IF p = "main" THEN Prints ELSE Reads :
            StartWrite(p, r, text)
       \/ EmitLine(p) \/ EndWrite(p)
  \/ \E r \in Routes : WriteInVain(r)
  \/ Ended

Spec == Init /\ [][Next]_vars
----------------------------------------------------------------------------
(* Properties.                                                             *)

\* Every variable has its type; the mutex is held only by one who may write.
TypeOK ==
  /\ {logOnly, enabled, attach, failed, first, closed, vain} \subseteq BOOLEAN
  /\ stage \in {"open", "before", "flush", "child", "execFailed", "after", "close",
                "replaced", "ended"}
  /\ mu \in Callers \cup {"free"} /\ on \in Routes
  /\ mu # "free" => MayWrite(mu) /\ (mu \in Routes => on = mu)
  /\ pending \in [Routes -> Text] /\ given \in [Routes -> Text]
  /\ copier \in [Routes -> {"reading", "stopped"}]
  /\ status \in ChildStatuses \cup {0, 1, 2, 127}
  /\ records \in 0..MaxRecords /\ faults \in 0..MaxFaults

\* The characters of a route, as the log tells them, and those of a text; how
\* they are cut into lines is what LineLog says.
Told(r) == FlattenSeq([n \in DOMAIN log |-> IF log[n].from = r THEN log[n].text ELSE <<>>])
Printed(text) == FlattenSeq([n \in DOMAIN text |-> IF text[n] = NL THEN <<>> ELSE <<text[n]>>])
RecordsKept == Cardinality({n \in DOMAIN log : log[n].from = "launcher"}) = records

\* "If writing or flushing the stream fails ... a successful launcher result
\* becomes a failure" (USAGE.md:80), and relocated output "cannot be discarded
\* by --log-level" (handler.go:8): a launch that reports success has all the
\* output of its child and of itself in the log, each character once, in order,
\* and every record the level lets through.
SuccessMeansComplete ==
  stage = "ended" /\ status = 0 =>
    /\ \A r \in Routes : Told(r) = Printed(given[r])
    /\ ~vain
    /\ enabled => RecordsKept

\* "process replacement is blocked" (USAGE.md:80): the process is replaced only
\* when nothing the launcher logged or printed before is lost or still buffered,
\* since nobody is left afterwards to write or report it.
ReplacedIntact ==
  stage = "replaced" =>
    /\ ~first
    /\ \A r \in Routes : pending[r] = <<>>
    /\ enabled => RecordsKept

\* The stream carries each route line by line, in order, each line once and
\* whole, says so when one is missing, and closes with nothing left behind.
Promise == INSTANCE LineLog
  WITH taken <- [r \in Routes |-> Len(given[r]) - Len(pending[r])],
       lossy <- first,
       mode <- IF closed THEN "closed"
               ELSE IF stage \in {"flush", "close"} THEN "flushing" ELSE "taking"
ImplementsLineLog == Promise!Spec
============================================================================
