----------------------------- MODULE SharedCopy -----------------------------
(***************************************************************************)
(* What media_cache.rs promises its callers: of the callers that want one  *)
(* path, one makes the copy and the others share it; a file appears in the *)
(* cache whole, in one step, and only by the caller that makes the copy.   *)
(***************************************************************************)
CONSTANTS Callers, Paths, Versions

VARIABLES making,  \* who makes a copy of what: a set of <<caller, path>>
          stored   \* what the cache holds: a set of <<path, version>>

vars == <<making, stored>>

Init == making = {} /\ stored = {}

Begin(c, p) ==
    /\ \A m \in making : m[2] # p
    /\ making' = making \cup {<<c, p>>}
    /\ UNCHANGED stored

Store(c, p, v) ==
    /\ <<c, p>> \in making
    /\ stored' = stored \cup {<<p, v>>}
    /\ UNCHANGED making

End(c, p) ==
    /\ <<c, p>> \in making
    /\ making' = making \ {<<c, p>>}
    /\ UNCHANGED stored

\* Files may go away, and with the program every copy in progress does.
Lose == stored' \subseteq stored /\ UNCHANGED making
Crash == making' = {} /\ UNCHANGED stored

Next == \/ \E c \in Callers, p \in Paths :
              \/ Begin(c, p) \/ End(c, p)
              \/ \E v \in Versions : Store(c, p, v)
        \/ Lose \/ Crash

Spec == Init /\ [][Next]_vars
=============================================================================
