---------------------------- MODULE MCLayerImage ----------------------------
(* Instances of LayerImage for TLC. *)
EXTENDS LayerImage, TLC

CONSTANTS p, q, old, new, b1, b2

\* Launchers are alike, and so are the contents of a file and the base's images.
Alike == Permutations({p, q}) \cup Permutations({old, new}) \cup Permutations({b1, b2})

TwoFiles == <<"Dockerfile", "setup.sh">>
Plain == [noLayer |-> FALSE, flag |-> "unset", env |-> "unset", project |-> "layer",
          buildFlag |-> FALSE, tty |-> TRUE, answer |-> TRUE]
\* A build agreed to or declined at the prompt, no terminal, the wrong directory
\* named beside the right ones, no layer, no wish for one.
AllWays ==
  {Plain,
   [Plain EXCEPT !.answer = FALSE, !.env = "layer", !.project = "bare"],
   [Plain EXCEPT !.tty = FALSE],
   [Plain EXCEPT !.flag = "bare", !.env = "layer", !.buildFlag = TRUE],
   [Plain EXCEPT !.project = "bare"],
   [Plain EXCEPT !.noLayer = TRUE]}

\* An edit is about the contents, a second move about the base: the directory is
\* edited only where the base moves, and something fails, at most once.
OneOrTheOther == edits = 0 \/ (moves <= 1 /\ faults <= 1)
============================================================================
