------------------------------ MODULE Reports ------------------------------
(* What watches the audio and says what it sees: the instruments of a deck's  *)
(* branch and the clock watch of an output node, side by side.                *)
EXTENDS Instruments, ClockWatch

\* The instruments report what happened: the reporter and the margin watchdog of a deck's
\* branch (pipeline.rs), and the clock watch of an output node (clock_watch.rs).
ReportsAreTrue == WarningsAreTrue /\ VerdictsAreTrue
=============================================================================
