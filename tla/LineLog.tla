------------------------------ MODULE LineLog ------------------------------
(***************************************************************************)
(* What the diagnostic stream promises about relocated output, abstractly. *)
(* Each route is given text; the log carries that text as records, one per *)
(* line, each line whole and in its place.  A line nobody terminated is    *)
(* published by a flush only.  A line may be missing or torn only in a log *)
(* that says so, and the stream closes with nothing left to publish.       *)
(***************************************************************************)
EXTENDS Naturals, Sequences, SequencesExt

CONSTANTS Routes, Char, NL  \* NL is none of Char

VARIABLES
  given,  \* route -> the text it was given
  taken,  \* route -> how much of that text is done with
  log,    \* the records, oldest first
  lossy,  \* a record was lost or torn
  mode    \* "taking" text, "flushing" or "closed"

vars == <<given, taken, log, lossy, mode>>

Entry(from, text) == [from |-> from, text |-> text]
Torn == Entry("torn", <<>>)

Rest(r) == SubSeq(given[r], taken[r] + 1, Len(given[r]))
HasLine(text) == \E n \in DOMAIN text : text[n] = NL

Init ==
  /\ given = [r \in Routes |-> <<>>] /\ taken = [r \in Routes |-> 0]
  /\ log = <<>> /\ lossy = FALSE /\ mode = "taking"

Give(r) ==
  /\ mode = "taking"
  /\ IsStrictPrefix(given[r], given'[r])
  /\ given' = [given EXCEPT ![r] = given'[r]]
  /\ UNCHANGED <<taken, log, lossy, mode>>

\* A record reaches the log, or the log is known to be incomplete.
Publish(e) ==
  \/ log' = Append(log, e) /\ lossy' = lossy
  \/ log' \in {log, Append(log, Torn)} /\ lossy' = TRUE

Line(r) ==
  /\ mode = "taking" /\ HasLine(Rest(r))
  /\ \E n \in DOMAIN Rest(r) :
       /\ Rest(r)[n] = NL
       /\ \A m \in 1..(n - 1) : Rest(r)[m] # NL
       /\ taken' = [taken EXCEPT ![r] = @ + n]
       /\ Publish(Entry(r, SubSeq(Rest(r), 1, n - 1)))
  /\ UNCHANGED <<given, mode>>

LastLine(r) ==
  /\ mode = "flushing" /\ Rest(r) # <<>> /\ ~HasLine(Rest(r))
  /\ taken' = [taken EXCEPT ![r] = Len(given[r])]
  /\ Publish(Entry(r, Rest(r)))
  /\ UNCHANGED <<given, mode>>

Note ==
  /\ mode = "taking"
  /\ Publish(Entry("launcher", <<>>))
  /\ UNCHANGED <<given, taken, mode>>

Flush == mode = "taking" /\ mode' = "flushing" /\ UNCHANGED <<given, taken, log, lossy>>

Flushed ==
  /\ mode = "flushing" /\ \A r \in Routes : Rest(r) = <<>>
  /\ mode' = "taking"
  /\ UNCHANGED <<given, taken, log, lossy>>

Close ==
  /\ mode = "flushing" /\ \A r \in Routes : Rest(r) = <<>>
  /\ mode' = "closed"
  /\ lossy' \in {lossy, TRUE}   \* closing the file itself may fail
  /\ UNCHANGED <<given, taken, log>>

Next ==
  \/ \E r \in Routes : Give(r) \/ Line(r) \/ LastLine(r)
  \/ Note \/ Flush \/ Flushed \/ Close

Spec == Init /\ [][Next]_vars
============================================================================
