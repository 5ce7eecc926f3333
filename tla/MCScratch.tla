------------------------------ MODULE MCScratch ------------------------------
(* Instances of Scratch for TLC: a track of a few places, at most MaxAsked     *)
(* calls.                                                                    *)
EXTENDS Scratch

CONSTANTS MaxAsked

VARIABLE asked  \* calls so far

MCRates == {-1, 1}

MCScratchInit == ScratchInit /\ asked = 0

MCScratchNext ==
    \/ ScratchRuns /\ UNCHANGED asked
    \/ asked < MaxAsked /\ asked' = asked + 1 /\ ScratchCalls

MCScratchSpec == MCScratchInit /\ [][MCScratchNext]_<<scratchVars, asked>>
=============================================================================
