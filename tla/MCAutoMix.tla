----------------------------- MODULE MCAutoMix -----------------------------
(* Instances of AutoMix for TLC.  The DJ acts at most MaxOps times in a      *)
(* behaviour; what the program does by itself is not bounded.                *)
EXTENDS AutoMix

CONSTANTS t1, t2, t3, t4, MaxOps

VARIABLE ops  \* the DJ's operations so far

Queue3 == <<t1, t2, t3>>
Queue2 == <<t1, t2>>
Queue1 == <<t1>>

MCInit == Init /\ ops = 0

MCNext ==
    \/ Automatic /\ UNCHANGED ops
    \/ ops < MaxOps /\ ops' = ops + 1 /\ Dj

MCSpec == MCInit /\ [][MCNext]_<<vars, ops>>
MCFairSpec == MCSpec /\ Fairness
=============================================================================
