----------------------------- MODULE MCLauncher -----------------------------
(* Instances of Launcher for TLC. *)
EXTENDS Launcher

SigInt == 2
SigTerm == 15
BothSignals == {SigInt, SigTerm}
\* A container that succeeds, and one that fails by itself.
TwoCodes == {0, 3}
============================================================================
