-------------------------- MODULE MCDeckTransport --------------------------
(* Instances of DeckTransport for TLC: the DJ acts at most MaxOps times.     *)
EXTENDS DeckTransport

CONSTANTS MaxOps

VARIABLE ops  \* the DJ's operations so far

MCInit == Init /\ ops = 0

MCNext ==
    \/ Automatic /\ UNCHANGED ops
    \/ ops < MaxOps /\ ops' = ops + 1 /\ Dj

MCSpec == MCInit /\ [][MCNext]_<<vars, ops>>
MCFairSpec == MCSpec /\ Fairness
=============================================================================
