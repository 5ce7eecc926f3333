---------------------------- MODULE MCMediaCache ----------------------------
(* Instances of MediaCache for TLC: at most MaxFaults changes of the world.  *)
EXTENDS MediaCache, Naturals

CONSTANTS MaxFaults

VARIABLE faults  \* changes of the world so far

MCInit == Init /\ faults = 0

MCNext ==
    \/ Runs /\ UNCHANGED faults
    \/ faults < MaxFaults /\ faults' = faults + 1 /\ World

MCSpec == MCInit /\ [][MCNext]_<<vars, faults>>
MCFairSpec == MCSpec /\ Fairness
=============================================================================
