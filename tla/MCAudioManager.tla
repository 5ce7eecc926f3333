--------------------------- MODULE MCAudioManager ---------------------------
(* Instances of AudioManager for TLC: two decks; a default sink, a device    *)
(* that is known by its front pair, by its rear pair and by its bare name,   *)
(* and one that is gone; at most MaxAsked commands.                          *)
EXTENDS AudioManager

CONSTANTS d1, d2, MaxAsked

VARIABLE asked  \* commands so far

MCDevices == {"default", "front", "rear", "plain", "gone"}
MCLayout == [d \in MCDevices |-> IF d \in {"front", "rear"} THEN "wide" ELSE "bare"]
MCNodeOf == [d \in MCDevices |-> IF d = "default" THEN 1 ELSE IF d = "gone" THEN 3 ELSE 2]
MCMainLists == {<<>>, <<"front", "default">>, <<"plain", "gone">>}

MCInit == Init /\ asked = 0

MCNext ==
    \/ (\E i \in Slots : Step(i)) /\ UNCHANGED asked
    \/ Refreshes /\ UNCHANGED asked
    \/ /\ asked < MaxAsked /\ asked' = asked + 1
       /\ \/ \E i \in Slots : Asks(i) /\ \A j \in Slots : j < i => Running(j)
          \/ \E d \in Decks : Unload(d)
          \/ Adjusts

MCSpec == MCInit /\ [][MCNext]_<<vars, asked>>
=============================================================================
