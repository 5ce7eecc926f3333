----------------------------- MODULE MCWatchdog -----------------------------
(* Instances of Watchdog for TLC: at most MaxHappens freezes, thaws, closings *)
(* and openings.                                                             *)
EXTENDS Watchdog

CONSTANTS main, output, MaxHappens

VARIABLE happened  \* freezes, thaws, closings and openings so far

MCInit == Init /\ happened = 0

MCNext ==
    \/ Automatic /\ UNCHANGED happened
    \/ happened < MaxHappens /\ happened' = happened + 1 /\ Happens

MCSpec == MCInit /\ [][MCNext]_<<vars, happened>>
MCFairSpec == MCSpec /\ Fairness
=============================================================================
