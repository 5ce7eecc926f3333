------------------------ MODULE DeckTransportProofs ------------------------
(***************************************************************************)
(* Proofs about DeckTransport, for any number of loads and of commands in  *)
(* flight: the types and ChainWaits, which need each other, whatever       *)
(* happens, and, where commands start in the order in which they were sent *)
(* and a deck is loaded or removed only when none is in flight ("reorder"  *)
(* and "hasty" are not in Events), SentIsTrue and that a deck the frontend *)
(* leaves as it is agrees with its pipeline.                               *)
(***************************************************************************)
EXTENDS DeckTransport, TLAPS

----------------------------------------------------------------------------
(* Sequences of calls. *)

Calls == Call \cup LoadCall

LEMMA ConcatIs ==
    ASSUME NEW S, NEW a \in Seq(S), NEW b \in Seq(S)
    PROVE  Len(a \o b) = Len(a) + Len(b)
OBVIOUS

LEMMA RemoveAtIs ==
    ASSUME NEW S, NEW s \in Seq(S), NEW i \in 1..Len(s)
    PROVE  /\ RemoveAt(s, i) \in Seq(S)
           /\ Len(RemoveAt(s, i)) = Len(s) - 1
           /\ \A j \in 1..(Len(s) - 1) : RemoveAt(s, i)[j] = s[IF j < i THEN j ELSE j + 1]
<1> DEFINE a == SubSeq(s, 1, i - 1)
           b == SubSeq(s, i + 1, Len(s))
<1>1. /\ a \in Seq(S) /\ Len(a) = i - 1
      /\ \A j \in 1..(i - 1) : a[j] = s[j]
  OBVIOUS
<1>2. /\ b \in Seq(S) /\ Len(b) = Len(s) - i
      /\ \A j \in 1..(Len(s) - i) : b[j] = s[i + j]
  OBVIOUS
<1>3. RemoveAt(s, i) = a \o b
  BY DEF RemoveAt
<1> HIDE DEF a, b
<1>4. /\ a \o b \in Seq(S) /\ Len(a \o b) = Len(s) - 1
  <2>1. a \o b \in Seq(S)
    BY <1>1, <1>2
  <2>2. Len(a \o b) = Len(a) + Len(b)
    BY <1>1, <1>2, ConcatIs
  <2>3. Len(s) \in Nat /\ i \in Int
    OBVIOUS
  <2>4. QED
    BY <1>1, <1>2, <2>1, <2>2, <2>3
<1>5. ASSUME NEW j \in 1..(Len(s) - 1) PROVE (a \o b)[j] = s[IF j < i THEN j ELSE j + 1]
  <2>1. CASE j < i
    BY <1>1, <1>2, <2>1
  <2>2. CASE ~(j < i)
    <3>1. (a \o b)[j] = b[j - (i - 1)]
      BY <1>1, <1>2, <2>2
    <3>2. QED
      BY <1>2, <2>2, <3>1
  <2>3. QED
    BY <2>1, <2>2
<1>6. QED
  BY <1>3, <1>4, <1>5

LEMMA UpdateIs ==
    ASSUME NEW S, NEW s \in Seq(S), NEW i \in 1..Len(s), NEW e \in S
    PROVE  /\ [s EXCEPT ![i] = e] \in Seq(S)
           /\ Len([s EXCEPT ![i] = e]) = Len(s)
           /\ \A j \in 1..Len(s) : [s EXCEPT ![i] = e][j] = IF j = i THEN e ELSE s[j]
OBVIOUS

LEMMA CancelledIs ==
    ASSUME NEW s \in Seq(Calls)
    PROVE  /\ Cancelled(s) \in Seq(Calls)
           /\ Len(Cancelled(s)) = Len(s)
           /\ \A j \in 1..Len(s) : Cancelled(s)[j] = [s[j] EXCEPT !.live = FALSE]
<1>1. ASSUME NEW c \in Calls PROVE [c EXCEPT !.live = FALSE] \in Calls
  <2>1. CASE c \in Call
    BY <2>1 DEF Calls, Call
  <2>2. CASE c \in LoadCall
    BY <2>2 DEF Calls, LoadCall
  <2>3. QED
    BY <2>1, <2>2 DEF Calls
<1>2. DOMAIN s = 1..Len(s)
  OBVIOUS
<1>3. QED
  BY <1>1, <1>2 DEF Cancelled

LEMMA AppendIs ==
    ASSUME NEW s \in Seq(Calls), NEW e \in Calls
    PROVE  /\ Append(s, e) \in Seq(Calls)
           /\ Len(Append(s, e)) = Len(s) + 1
           /\ \A j \in 1..Len(s) : Append(s, e)[j] = s[j]
           /\ Append(s, e)[Len(s) + 1] = e
OBVIOUS

----------------------------------------------------------------------------
(* Types, and one call or timer for a chain. *)

\* ChainWaits, of any chain and calls.
Waits(ch, cs) ==
    IF ch # Nothing /\ ch.waits = "call"
    THEN \E i \in 1..Len(cs) :
           cs[i].live /\ cs[i].op = ch.op /\ \A j \in 1..Len(cs) : cs[j].live => j = i
    ELSE \A j \in 1..Len(cs) : ~cs[j].live

LEMMA WaitsIs ==
    ASSUME NEW cs \in Seq(Calls), calls = cs
    PROVE  ChainWaits <=> Waits(chain, cs)
<1> DEFINE live == {i \in DOMAIN cs : cs[i].live}
<1>1. DOMAIN cs = 1..Len(cs)
  OBVIOUS
<1>2. ASSUME NEW i \in 1..Len(cs)
      PROVE  (i \in live /\ live = {i}) <=> cs[i].live /\ \A j \in 1..Len(cs) : cs[j].live => j = i
  BY <1>1
<1>3. live = {} <=> \A j \in 1..Len(cs) : ~cs[j].live
  BY <1>1
<1>4. live \subseteq 1..Len(cs)
  BY <1>1
<1>5. ChainWaits <=> IF chain # Nothing /\ chain.waits = "call"
                     THEN \E i \in live : live = {i} /\ cs[i].op = chain.op ELSE live = {}
  BY DEF ChainWaits
<1> HIDE DEF live
<1>6. QED
  BY <1>2, <1>3, <1>4, <1>5 DEF Waits

\* A command at work has a pipeline.
Holds(cs) == \A j \in 1..Len(cs) : cs[j].stage = "held" => cs[j].pipe \in Pipe

Typed == TypeOK /\ Waits(chain, calls) /\ Holds(calls)

\* Steps that leave the chain alone, and of each call what the chain sees.
LEMMA SameWaits ==
    ASSUME Waits(chain, calls), NEW cs, chain' = chain, Len(cs) = Len(calls),
           \A j \in 1..Len(calls) : cs[j].live = calls[j].live /\ cs[j].op = calls[j].op
    PROVE  Waits(chain', cs)
BY DEF Waits

LEMMA NoneLive ==
    ASSUME NEW cs \in Seq(Calls)
    PROVE  \A j \in 1..Len(Cancelled(cs)) : ~Cancelled(cs)[j].live
<1>1. \A c \in Calls : ~[c EXCEPT !.live = FALSE].live
  BY DEF Calls, Call, LoadCall
<1>2. ASSUME NEW j \in 1..Len(cs) PROVE ~Cancelled(cs)[j].live
  <2>1. cs[j] \in Calls
    OBVIOUS
  <2>2. Cancelled(cs)[j] = [cs[j] EXCEPT !.live = FALSE]
    BY CancelledIs
  <2>3. QED
    BY <1>1, <2>1, <2>2
<1>3. Len(Cancelled(cs)) = Len(cs)
  BY CancelledIs
<1>4. QED
  BY <1>2, <1>3

\* A call is added to calls of which none is live.
LEMMA OneAdded ==
    ASSUME NEW cs \in Seq(Calls), \A j \in 1..Len(cs) : ~cs[j].live,
           NEW e \in Calls, NEW ch,
           IF e.live THEN ch # Nothing /\ ch.waits = "call" /\ ch.op = e.op
           ELSE ch = Nothing \/ ch.waits # "call"
    PROVE  Waits(ch, Append(cs, e))
<1>1. Len(Append(cs, e)) = Len(cs) + 1 /\ Append(cs, e)[Len(cs) + 1] = e
  BY AppendIs
<1>2. \A j \in 1..Len(cs) : Append(cs, e)[j] = cs[j]
  BY AppendIs
<1>3. Len(cs) \in Nat
  OBVIOUS
<1>4. \A j \in 1..(Len(cs) + 1) : j = Len(cs) + 1 \/ j \in 1..Len(cs)
  BY <1>3
<1>5. Len(cs) + 1 \in 1..(Len(cs) + 1)
  BY <1>3
<1>6. \A j \in 1..Len(Append(cs, e)) : Append(cs, e)[j].live => j = Len(cs) + 1
  BY <1>1, <1>2, <1>4
<1>7. CASE e.live
  BY <1>1, <1>5, <1>6, <1>7 DEF Waits
<1>8. CASE ~e.live
  <2>1. \A j \in 1..Len(Append(cs, e)) : ~Append(cs, e)[j].live
    BY <1>1, <1>6, <1>8
  <2>2. QED
    BY <1>8, <2>1 DEF Waits
<1>9. QED
  BY <1>7, <1>8

LEMMA InitTyped == Init => Typed
<1> SUFFICES ASSUME Init PROVE Typed
  OBVIOUS
<1>1. calls \in Seq(Call \cup LoadCall) /\ Len(calls) = 0
  BY DEF Init
<1>2. TypeOK
  <2>1. 0 \in Loads /\ Len(calls) <= MaxCalls
    BY <1>1, BoundsAssumption DEF Loads
  <2>2. source \in Loads /\ loads \in Loads /\ backend \in [load : Loads, pending : BOOLEAN]
    BY <2>1 DEF Init
  <2>3. QED
    BY <1>1, <2>1, <2>2 DEF Init, TypeOK
<1>3. Waits(chain, calls)
  BY <1>1 DEF Init, Waits
<1>4. QED
  BY <1>1, <1>2, <1>3 DEF Typed, Holds

LEMMA DjTyped == Typed /\ (Dj \/ Churn \/ BackendSettles) => Typed'
<1> SUFFICES ASSUME Typed, Dj \/ Churn \/ BackendSettles PROVE Typed'
  OBVIOUS
<1>1. UNCHANGED <<chain, calls, map, sent>>
  BY DEF Dj, Load, RemoveDeck, PlayPause, Churn, BackendSettles
<1>2. loads' \in Loads /\ source' \in Loads
  BY BoundsAssumption
  DEF Typed, TypeOK, Loads, Dj, Load, RemoveDeck, PlayPause, Churn, BackendSettles
<1>3. backend' \in [load : Loads, pending : BOOLEAN]
  BY DEF Typed, TypeOK, Dj, Load, RemoveDeck, PlayPause, Churn, BackendSettles
<1>4. playing' \in BOOLEAN /\ dirty' \in BOOLEAN
  BY DEF Typed, TypeOK, Dj, Load, RemoveDeck, PlayPause, Churn, BackendSettles
<1>5. QED
  BY <1>1, <1>2, <1>3, <1>4 DEF Typed, TypeOK, Waits, Holds

LEMMA IssuedType ==
    /\ \A p \in BOOLEAN : Issued(Op(p), TRUE, 0) \in Calls /\ Op(p) \in {"play", "pause"}
    /\ \A o \in {"play", "pause"} : Issued(o, TRUE, 0) \in Calls
    /\ \A l \in Loads \ {0} : Issued("load", FALSE, l) \in Calls
<1>1. Loads \ {0} = 1..MaxLoads
  BY BoundsAssumption DEF Loads
<1>2. \A o \in {"play", "pause"} : Issued(o, TRUE, 0) \in Call
  BY DEF Issued, Call
<1>3. \A l \in 1..MaxLoads : Issued("load", FALSE, l) \in LoadCall
  BY DEF Issued, LoadCall
<1>4. \A p \in BOOLEAN : Op(p) \in {"play", "pause"}
  BY DEF Op
<1>5. QED
  BY <1>1, <1>2, <1>3, <1>4 DEF Calls

\* A command that moves on changes one call.
LEMMA StageTyped ==
    ASSUME Typed, NEW i \in 1..Len(calls), NEW e \in Calls,
           e.live = calls[i].live, e.op = calls[i].op,
           e.stage = "held" => e.pipe \in Pipe,
           calls' = [calls EXCEPT ![i] = e], map' \in {Nothing} \cup Pipe,
           UNCHANGED <<jsVars, sent, chain>>
    PROVE  Typed'
<1>1. calls \in Seq(Calls)
  BY DEF Typed, TypeOK, Calls
<1>2. /\ calls' \in Seq(Calls) /\ Len(calls') = Len(calls)
      /\ \A j \in 1..Len(calls) : calls'[j] = IF j = i THEN e ELSE calls[j]
  BY <1>1, UpdateIs
<1>3. \A j \in 1..Len(calls) : calls'[j].live = calls[j].live /\ calls'[j].op = calls[j].op
  BY <1>2
<1>4. Waits(chain', calls')
  BY <1>2, <1>3, SameWaits DEF Typed
<1>5. TypeOK'
  BY <1>2 DEF Typed, TypeOK, jsVars, Calls
<1>6. Holds(calls')
  BY <1>2 DEF Typed, Holds
<1>7. QED
  BY <1>4, <1>5, <1>6 DEF Typed

LEMMA TransportIs == \A c \in Calls : (Transport(c) <=> c \in Call) /\ (c.op = "load" <=> c \in LoadCall)
BY DEF Calls, Transport, Call, LoadCall

LEMMA CommandsTyped ==
    ASSUME Typed, NEW i \in DOMAIN calls,
           Takes(i) \/ PutsBack(i) \/ LoadTakes(i) \/ LoadPutsBack(i)
    PROVE  Typed'
<1>1. calls \in Seq(Calls) /\ i \in 1..Len(calls) /\ calls[i] \in Calls
  BY DEF Typed, TypeOK, Calls
<1>2. map \in {Nothing} \cup Pipe
  BY DEF Typed, TypeOK
<1>3. CASE Takes(i)
  <2>1. calls[i] \in Call
    BY <1>1, <1>3, TransportIs DEF Takes
  <2>2. /\ [calls[i] EXCEPT !.stage = "failed"] \in Call
        /\ [calls[i] EXCEPT !.stage = "held", !.pipe = map] \in Call
    BY <1>2, <2>1 DEF Call
  <2>3. \E e \in Call : /\ e.live = calls[i].live /\ e.op = calls[i].op
                        /\ e.stage = "held" => e.pipe \in Pipe
                        /\ calls' = [calls EXCEPT ![i] = e]
    <3>1. CASE map = Nothing
      <4>1. calls' = [calls EXCEPT ![i] = [calls[i] EXCEPT !.stage = "failed"]]
        BY <1>3, <3>1 DEF Takes
      <4>2. QED
        BY <2>1, <2>2, <4>1 DEF Call
    <3>2. CASE map # Nothing
      <4>1. calls' = [calls EXCEPT ![i] = [calls[i] EXCEPT !.stage = "held", !.pipe = map]]
        BY <1>3, <3>2 DEF Takes
      <4>2. map \in Pipe
        BY <1>2, <3>2
      <4>3. QED
        BY <2>1, <2>2, <4>1, <4>2 DEF Call
    <3>3. QED
      BY <3>1, <3>2
  <2>4. map' \in {Nothing} \cup Pipe /\ UNCHANGED <<jsVars, sent, chain>>
    BY <1>3 DEF Takes
  <2>5. QED
    BY <1>1, <2>3, <2>4, StageTyped DEF Calls
<1>4. CASE PutsBack(i)
  <2>1. calls[i] \in Call
    BY <1>1, <1>4, TransportIs DEF PutsBack
  <2>2. PICK s \in {"done", "failed"} : calls' = [calls EXCEPT ![i].stage = s, ![i].pipe = Nothing]
    BY <1>4 DEF PutsBack
  <2>3. DEFINE e == [calls[i] EXCEPT !.stage = s, !.pipe = Nothing]
  <2>4. /\ e \in Call /\ e.live = calls[i].live /\ e.op = calls[i].op
        /\ e.stage # "held"
    BY <2>1 DEF Call
  <2>5. calls' = [calls EXCEPT ![i] = e]
    BY <1>1, <2>2
  <2> HIDE DEF e
  <2>6. calls[i].pipe \in Pipe
    BY <1>1, <1>4 DEF Typed, Holds, PutsBack
  <2>7. map' \in Pipe
    BY <1>4, <2>6 DEF PutsBack, Pipe
  <2>8. UNCHANGED <<jsVars, sent, chain>>
    BY <1>4 DEF PutsBack
  <2>9. QED
    BY <1>1, <2>4, <2>5, <2>7, <2>8, StageTyped DEF Calls
<1>5. CASE LoadTakes(i)
  <2>1. calls[i] \in LoadCall
    BY <1>1, <1>5, TransportIs DEF LoadTakes
  <2>2. [load |-> 0, ok |-> FALSE, playing |-> FALSE] \in Pipe
    BY BoundsAssumption DEF Pipe, Loads
  <2>3. PICK x \in Pipe : calls' = [calls EXCEPT ![i].stage = "held", ![i].pipe = x]
    BY <1>2, <1>5, <2>2 DEF LoadTakes
  <2>4. DEFINE e == [calls[i] EXCEPT !.stage = "held", !.pipe = x]
  <2>5. e \in LoadCall /\ e.live = calls[i].live /\ e.op = calls[i].op /\ e.pipe \in Pipe
    BY <2>1 DEF LoadCall
  <2>6. calls' = [calls EXCEPT ![i] = e]
    BY <1>1, <2>3
  <2> HIDE DEF e
  <2>7. map' = Nothing /\ UNCHANGED <<jsVars, sent, chain>>
    BY <1>5 DEF LoadTakes
  <2>8. QED
    BY <1>1, <2>5, <2>6, <2>7, StageTyped DEF Calls
<1>6. CASE LoadPutsBack(i)
  <2>1. calls[i] \in LoadCall
    BY <1>1, <1>6, TransportIs DEF LoadPutsBack
  <2>2. DEFINE e == [calls[i] EXCEPT !.stage = "done", !.pipe = Nothing]
  <2>3. /\ e \in LoadCall /\ e.live = calls[i].live /\ e.op = calls[i].op
        /\ e.stage # "held"
    BY <2>1 DEF LoadCall
  <2>4. calls' = [calls EXCEPT ![i] = e]
    BY <1>1, <1>6 DEF LoadPutsBack
  <2> HIDE DEF e
  <2>5. calls[i].load \in Loads
    BY <2>1, BoundsAssumption DEF LoadCall, Loads
  <2>6. PICK ok \in BOOLEAN : map' = [load |-> calls[i].load, ok |-> ok, playing |-> FALSE]
    BY <1>6, Zenon DEF LoadPutsBack
  <2>7. map' \in Pipe
    BY <2>5, <2>6 DEF Pipe
  <2>8. UNCHANGED <<jsVars, sent, chain>>
    BY <1>6 DEF LoadPutsBack
  <2>9. QED
    BY <1>1, <2>3, <2>4, <2>7, <2>8, StageTyped DEF Calls
<1>7. QED
  BY <1>3, <1>4, <1>5, <1>6

\* Holds, of calls that lose one, are cancelled, or gain one that is not at work.
LEMMA HoldsStill ==
    ASSUME NEW cs \in Seq(Calls), Holds(cs)
    PROVE  /\ Holds(Cancelled(cs))
           /\ \A i \in 1..Len(cs) : Holds(RemoveAt(cs, i))
           /\ \A e \in Calls : e.stage = "issued" => Holds(Append(cs, e))
<1>1. Holds(Cancelled(cs))
  <2>1. ASSUME NEW j \in 1..Len(cs), Cancelled(cs)[j].stage = "held"
        PROVE  Cancelled(cs)[j].pipe \in Pipe
    <3>1. cs[j] \in Calls /\ Cancelled(cs)[j] = [cs[j] EXCEPT !.live = FALSE]
      BY CancelledIs
    <3>2. Cancelled(cs)[j].stage = cs[j].stage /\ Cancelled(cs)[j].pipe = cs[j].pipe
      BY <3>1 DEF Calls, Call, LoadCall
    <3>3. QED
      BY <2>1, <3>2 DEF Holds
  <2>2. QED
    BY <2>1, CancelledIs DEF Holds
<1>2. ASSUME NEW i \in 1..Len(cs) PROVE Holds(RemoveAt(cs, i))
  <2>1. ASSUME NEW j \in 1..(Len(cs) - 1)
        PROVE  \E k \in 1..Len(cs) : RemoveAt(cs, i)[j] = cs[k]
    <3>1. (IF j < i THEN j ELSE j + 1) \in 1..Len(cs)
      OBVIOUS
    <3>2. QED
      BY <3>1, RemoveAtIs
  <2>2. QED
    BY <2>1, RemoveAtIs DEF Holds
<1>3. ASSUME NEW e \in Calls, e.stage = "issued" PROVE Holds(Append(cs, e))
  <2>1. \A j \in 1..(Len(cs) + 1) : j = Len(cs) + 1 \/ j \in 1..Len(cs)
    OBVIOUS
  <2>2. QED
    BY <1>3, <2>1, AppendIs DEF Holds
<1>4. QED
  BY <1>1, <1>2, <1>3

\* A chain takes over, with a call of its own.
LEMMA ChainTyped ==
    ASSUME Typed, NEW cs \in Seq(Calls), Len(cs) = Len(calls), Holds(cs),
           \A j \in 1..Len(cs) : ~cs[j].live, Len(calls) < MaxCalls,
           NEW o \in {"play", "pause"}, chain' = [op |-> o, waits |-> "call"],
           calls' = Append(cs, Issued(o, TRUE, 0))
    PROVE  Waits(chain', calls') /\ Holds(calls') /\ calls' \in Seq(Calls)
           /\ Len(calls') <= MaxCalls /\ chain' \in {Nothing} \cup ChainRec
<1> DEFINE e == Issued(o, TRUE, 0)
<1>1. e \in Calls /\ e.live = TRUE /\ e.op = o /\ e.stage = "issued"
  BY IssuedType DEF Issued
<1> HIDE DEF e
<1>2. chain' \in ChainRec /\ chain'.op = o /\ chain'.waits = "call" /\ chain' # Nothing
  BY NothingAssumption DEF ChainRec
<1>3. Len(calls) \in Nat /\ MaxCalls \in Nat
  BY BoundsAssumption DEF Typed, TypeOK
<1>4. calls' = Append(cs, e)
  BY DEF e
<1>5. Waits(chain', Append(cs, e))
  BY <1>1, <1>2, OneAdded
<1>6. Holds(Append(cs, e)) /\ Append(cs, e) \in Seq(Calls) /\ Len(Append(cs, e)) = Len(cs) + 1
  BY <1>1, HoldsStill, AppendIs
<1>7. Len(calls') <= MaxCalls
  BY <1>3, <1>4, <1>6
<1>8. Waits(chain', calls') /\ Holds(calls') /\ calls' \in Seq(Calls)
  BY <1>4, <1>5, <1>6
<1>9. QED
  BY <1>2, <1>7, <1>8

LEMMA ReconcileTyped ==
    ASSUME Typed, Reconcile
    PROVE  Waits(chain', calls') /\ Holds(calls') /\ calls' \in Seq(Calls)
           /\ Len(calls') <= MaxCalls /\ chain' \in {Nothing} \cup ChainRec
<1>1. calls \in Seq(Calls) /\ Len(calls) <= MaxCalls
  BY DEF Typed, TypeOK, Calls
<1>2. CASE UNCHANGED <<chain, calls>>
  BY <1>1, <1>2 DEF Typed, TypeOK
<1>3. CASE ~UNCHANGED <<chain, calls>>
  <2>1. Op(playing) \in {"play", "pause"}
    BY IssuedType DEF Typed, TypeOK
  <2>2. /\ Len(calls) < MaxCalls /\ chain' = [op |-> Op(playing), waits |-> "call"]
        /\ calls' = Append(Cancelled(calls), Issued(Op(playing), TRUE, 0))
    BY <1>3 DEF Reconcile
  <2>3. /\ Cancelled(calls) \in Seq(Calls) /\ Len(Cancelled(calls)) = Len(calls)
        /\ Holds(Cancelled(calls))
        /\ \A j \in 1..Len(Cancelled(calls)) : ~Cancelled(calls)[j].live
    BY <1>1, CancelledIs, NoneLive, HoldsStill DEF Typed
  <2>4. QED
    BY <2>1, <2>2, <2>3, ChainTyped
<1>4. QED
  BY <1>2, <1>3

LEMMA RetryTyped == Typed /\ RetryFires => Typed'
<1> SUFFICES ASSUME Typed, RetryFires PROVE Typed'
  OBVIOUS
<1>1. calls \in Seq(Calls) /\ Holds(calls) /\ chain \in ChainRec /\ chain.waits = "timer"
  BY DEF Typed, TypeOK, Calls, RetryFires
<1>2. \A j \in 1..Len(calls) : ~calls[j].live
  BY <1>1 DEF Typed, Waits
<1>3. chain.op \in {"play", "pause"} /\ chain' = [op |-> chain.op, waits |-> "call"]
  BY <1>1 DEF RetryFires, ChainRec
<1>4. calls' = Append(calls, Issued(chain.op, TRUE, 0)) /\ Len(calls) < MaxCalls
  BY DEF RetryFires
<1>5. /\ Waits(chain', calls') /\ Holds(calls') /\ calls' \in Seq(Calls)
      /\ Len(calls') <= MaxCalls /\ chain' \in {Nothing} \cup ChainRec
  BY <1>1, <1>2, <1>3, <1>4, ChainTyped
<1>6. QED
  BY <1>5 DEF Typed, TypeOK, RetryFires, jsVars, Calls

LEMMA SyncTyped == Typed /\ Sync => Typed'
<1> SUFFICES ASSUME Typed, Sync PROVE Typed'
  OBVIOUS
<1>1. calls \in Seq(Calls) /\ Len(calls) <= MaxCalls /\ Holds(calls)
  BY DEF Typed, TypeOK, Calls
<1>2. CASE Fresh \/ Gone
  <2>1. /\ Cancelled(calls) \in Seq(Calls) /\ Len(Cancelled(calls)) = Len(calls)
        /\ Holds(Cancelled(calls))
        /\ \A j \in 1..Len(Cancelled(calls)) : ~Cancelled(calls)[j].live
    BY <1>1, CancelledIs, NoneLive, HoldsStill
  <2>2. /\ chain' = Nothing /\ map' = Nothing /\ sent' = "unset" /\ dirty' = FALSE
        /\ UNCHANGED <<source, playing, loads>>
        /\ backend' = [load |-> source, pending |-> source # 0]
    BY <1>2 DEF Sync
  <2>3. backend' \in [load : Loads, pending : BOOLEAN]
    BY <2>2 DEF Typed, TypeOK
  <2>4. /\ calls' \in Seq(Calls) /\ Len(calls') <= MaxCalls /\ Holds(calls')
        /\ Waits(chain', calls')
    <3>1. CASE source = 0
      <4>1. calls' = Cancelled(calls)
        BY <1>2, <3>1 DEF Sync
      <4>2. QED
        BY <1>1, <2>1, <2>2, <4>1 DEF Waits
    <3>2. CASE source # 0
      <4> DEFINE e == Issued("load", FALSE, source)
      <4>1. e \in Calls /\ ~e.live /\ e.stage = "issued"
        BY <3>2, IssuedType DEF Issued, Typed, TypeOK
      <4>2. Len(calls) < MaxCalls /\ calls' = Append(Cancelled(calls), e)
        BY <1>2, <3>2 DEF Sync, Gone
      <4> HIDE DEF e
      <4>3. Holds(calls') /\ Waits(chain', calls')
        BY <2>1, <2>2, <4>1, <4>2, OneAdded, HoldsStill
      <4>4. calls' \in Seq(Calls) /\ Len(calls') = Len(calls) + 1
        BY <2>1, <4>1, <4>2, AppendIs
      <4>5. Len(calls) \in Nat /\ MaxCalls \in Nat
        BY <1>1, BoundsAssumption
      <4>6. QED
        BY <4>2, <4>3, <4>4, <4>5
    <3>3. QED
      BY <3>1, <3>2
  <2>5. QED
    BY <2>2, <2>3, <2>4 DEF Typed, TypeOK, Calls
<1>3. CASE ~(Fresh \/ Gone)
  <2>1. /\ UNCHANGED <<source, playing, loads, backend, map, sent>> /\ dirty' = FALSE
        /\ Reconcile \/ UNCHANGED <<chain, calls>>
    BY <1>3 DEF Sync
  <2>2. CASE Reconcile
    BY <2>1, <2>2, ReconcileTyped DEF Typed, TypeOK, Calls
  <2>3. CASE UNCHANGED <<chain, calls>>
    BY <2>1, <2>3 DEF Typed, TypeOK, Waits, Holds
  <2>4. QED
    BY <2>1, <2>2, <2>3
<1>4. QED
  BY <1>2, <1>3

\* A call that is removed.
LEMMA RemovedWaits ==
    ASSUME NEW cs \in Seq(Calls), NEW i \in 1..Len(cs), NEW ch, Waits(ch, cs)
    PROVE  /\ ~cs[i].live => Waits(ch, RemoveAt(cs, i))
           /\ cs[i].live => /\ ch # Nothing /\ ch.op = cs[i].op
                            /\ \A j \in 1..Len(RemoveAt(cs, i)) : ~RemoveAt(cs, i)[j].live
<1> DEFINE rs == RemoveAt(cs, i)
<1>1. /\ Len(rs) = Len(cs) - 1
      /\ \A j \in 1..Len(rs) : rs[j] = cs[IF j < i THEN j ELSE j + 1]
  BY RemoveAtIs
<1>2. ASSUME NEW j \in 1..Len(rs)
      PROVE  (IF j < i THEN j ELSE j + 1) \in 1..Len(cs) \ {i}
  BY <1>1
<1>3. ASSUME NEW k \in 1..Len(cs), k # i
      PROVE  /\ (IF k < i THEN k ELSE k - 1) \in 1..Len(rs)
             /\ rs[IF k < i THEN k ELSE k - 1] = cs[k]
  BY <1>1, <1>3
<1> HIDE DEF rs
<1>4. ASSUME ~cs[i].live PROVE Waits(ch, rs)
  <2>1. CASE ch # Nothing /\ ch.waits = "call"
    <3>1. PICK k \in 1..Len(cs) : cs[k].live /\ cs[k].op = ch.op /\ \A j \in 1..Len(cs) : cs[j].live => j = k
      BY <2>1 DEF Waits
    <3>2. k # i
      BY <1>4, <3>1
    <3>3. PICK l \in 1..Len(rs) : l = IF k < i THEN k ELSE k - 1
      BY <1>3, <3>2
    <3>4. rs[l] = cs[k]
      BY <1>3, <3>2, <3>3
    <3>5. ASSUME NEW j \in 1..Len(rs), rs[j].live PROVE j = l
      <4>1. (IF j < i THEN j ELSE j + 1) = k
        BY <1>1, <1>2, <3>1, <3>5
      <4>2. QED
        BY <4>1, <3>3
    <3>6. QED
      BY <2>1, <3>1, <3>4, <3>5 DEF Waits
  <2>2. CASE ~(ch # Nothing /\ ch.waits = "call")
    BY <1>1, <1>2, <2>2 DEF Waits
  <2>3. QED
    BY <2>1, <2>2
<1>5. ASSUME cs[i].live
      PROVE  ch # Nothing /\ ch.op = cs[i].op /\ \A j \in 1..Len(rs) : ~rs[j].live
  <2>1. ch # Nothing /\ ch.op = cs[i].op /\ \A j \in 1..Len(cs) : cs[j].live => j = i
    BY <1>5 DEF Waits
  <2>2. QED
    BY <1>1, <1>2, <2>1
<1>6. QED
  BY <1>4, <1>5 DEF rs

LEMMA AnsweredTyped == ASSUME Typed, NEW i \in DOMAIN calls, Answered(i) PROVE Typed'
<1>1. /\ calls \in Seq(Calls) /\ i \in 1..Len(calls) /\ Holds(calls) /\ Waits(chain, calls)
      /\ calls[i] \in Calls /\ Len(calls) <= MaxCalls /\ chain \in {Nothing} \cup ChainRec
  BY DEF Typed, TypeOK, Calls
<1>2. calls' = RemoveAt(calls, i) /\ UNCHANGED <<source, playing, loads, backend, map>>
  BY DEF Answered
<1>3. dirty' \in BOOLEAN
  BY DEF Answered, Typed, TypeOK
<1>4. calls' \in Seq(Calls) /\ Len(calls') = Len(calls) - 1 /\ Holds(calls')
  BY <1>1, <1>2, RemoveAtIs, HoldsStill
<1>5. Len(calls') <= MaxCalls
  BY <1>1, <1>4, BoundsAssumption
<1>6. sent' \in {"unset", "play", "pause"} /\ chain' \in {Nothing} \cup ChainRec /\ Waits(chain', calls')
  <2>1. CASE ~calls[i].live
    <3>1. UNCHANGED <<sent, chain>>
      BY <2>1 DEF Answered, Counts
    <3>2. QED
      BY <1>1, <1>2, <2>1, <3>1, RemovedWaits DEF Typed, TypeOK
  <2>2. CASE calls[i].live
    <3>1. chain # Nothing /\ chain.op = calls[i].op /\ \A j \in 1..Len(calls') : ~calls'[j].live
      BY <1>1, <1>2, <2>2, RemovedWaits
    <3>2. Retried(chain) \in ChainRec /\ Retried(chain).waits = "timer"
      BY <1>1, <3>1 DEF Retried, ChainRec
    <3>3. chain' \in {Nothing, Retried(chain)}
      BY <2>2 DEF Answered, Counts
    <3>4. sent' \in {sent, calls[i].op}
      BY <2>2 DEF Answered, Counts
    <3>5. calls[i].op \in {"play", "pause"}
      BY <1>1, <3>1 DEF ChainRec
    <3>6. Waits(chain', calls')
      BY <3>1, <3>2, <3>3 DEF Waits
    <3>7. QED
      BY <3>2, <3>3, <3>4, <3>5, <3>6 DEF Typed, TypeOK
  <2>3. QED
    BY <2>1, <2>2
<1>7. QED
  BY <1>2, <1>3, <1>4, <1>5, <1>6 DEF Typed, TypeOK, Calls

LEMMA NextTyped == Typed /\ [Next]_vars => Typed'
<1>1. Typed /\ UNCHANGED vars => Typed'
  BY DEF Typed, TypeOK, Waits, Holds, vars
<1>2. QED
  BY <1>1, DjTyped, CommandsTyped, RetryTyped, SyncTyped, AnsweredTyped
  DEF Next, Automatic, Works

LEMMA TypedIs == Typed => TypeOK /\ ChainWaits
<1> SUFFICES ASSUME Typed PROVE TypeOK /\ ChainWaits
  OBVIOUS
<1>1. calls \in Seq(Calls) /\ Waits(chain, calls)
  BY DEF Typed, TypeOK, Calls
<1>2. QED
  BY <1>1, WaitsIs DEF Typed

\* The state always has its type.
THEOREM TypeCorrect == Spec => []TypeOK
BY InitTyped, NextTyped, TypedIs, PTL DEF Spec

\* A chain has one call out or its timer set, and never both, whatever is pressed, loaded
\* or removed meanwhile and in whatever order the pool starts the commands.
THEOREM ChainWaitsHolds == Spec => []ChainWaits
BY InitTyped, NextTyped, TypedIs, PTL DEF Spec

----------------------------------------------------------------------------
(* What the frontend believes is true, when loads and removals find the deck  *)
(* calm and the pool starts commands in the order they were issued.           *)

Busy(c) == c.stage \in {"issued", "held"}
LiveDone(cs) == \E i \in 1..Len(cs) : cs[i].live /\ cs[i].stage = "done"

\* One command holds the pipeline, and then it is not in the map.
Alone(cs, m) ==
    /\ \A i \in 1..Len(cs), j \in 1..Len(cs) :
         cs[i].stage = "held" /\ cs[j].stage = "held" => i = j
    /\ \A i \in 1..Len(cs) : cs[i].stage = "held" => m = Nothing

\* While a load is under way there is no pipeline, and no command of a chain succeeds.
Loading(cs, m, s) ==
    \A i \in 1..Len(cs) : cs[i].op = "load" /\ Busy(cs[i]) =>
      /\ s = "unset" /\ m = Nothing /\ ~LiveDone(cs)
      /\ \A j \in 1..Len(cs) : j # i =>
           cs[j].stage # "held" /\ (cs[j].op = "load" => ~Busy(cs[j]))

\* The call of a chain is the last of its kind to be issued, and once it has begun the
\* earlier ones are over.
Lasts(cs) ==
    \A i \in 1..Len(cs), j \in 1..Len(cs) : cs[i].live /\ Transport(cs[j]) /\ j # i =>
      j < i /\ (cs[i].stage \in {"held", "done"} => ~Busy(cs[j]))

\* When the frontend believes to have told the pipeline something, the cancelled commands
\* are over, and a chain wants the opposite.
Believes(cs, s, ch) ==
    s # "unset" =>
      /\ \A i \in 1..Len(cs) : Transport(cs[i]) /\ ~cs[i].live => ~Busy(cs[i])
      /\ ch # Nothing => ch.op # s

\* The pipeline, in the map or held, does what it was told last.
Obeys(cs, m, s) ==
    /\ \A i \in 1..Len(cs) : cs[i].live /\ cs[i].stage = "done" /\ m # Nothing =>
         (m.playing <=> cs[i].op = "play")
    /\ ~LiveDone(cs) /\ s # "unset" =>
         /\ m # Nothing => (m.playing <=> s = "play")
         /\ \A i \in 1..Len(cs) : cs[i].stage = "held" => (cs[i].pipe.playing <=> s = "play")

\* Until a change of the source is seen, nothing is under way.
Changes == source # backend.load => calls = << >> /\ chain = Nothing /\ ~backend.pending

Ordered(cs, m, s, ch) ==
    Alone(cs, m) /\ Loading(cs, m, s) /\ Lasts(cs) /\ Believes(cs, s, ch) /\ Obeys(cs, m, s)

OrderedInv == Typed /\ Ordered(calls, map, sent, chain) /\ Changes

\* With no calls there is little to say.
LEMMA NoCalls ==
    ASSUME NEW m, NEW ch, NEW cs, Len(cs) = 0
    PROVE  Ordered(cs, m, "unset", ch)
<1>1. 1..Len(cs) = {}
  OBVIOUS
<1>2. QED
  BY <1>1 DEF Ordered, Alone, Loading, Lasts, Believes, Obeys, LiveDone

\* The answer of a call is taken.
LEMMA RemovedOrdered ==
    ASSUME NEW cs \in Seq(Calls), NEW i \in 1..Len(cs), NEW m, NEW s, NEW ch,
           Ordered(cs, m, s, ch)
    PROVE  LET rs == RemoveAt(cs, i) IN
           /\ Alone(rs, m) /\ Loading(rs, m, s) /\ Lasts(rs) /\ Believes(rs, s, ch)
           /\ ~(cs[i].live /\ cs[i].stage = "done") => Obeys(rs, m, s)
<1> DEFINE rs == RemoveAt(cs, i)
           K(j) == IF j < i THEN j ELSE j + 1
<1>1. /\ Len(rs) = Len(cs) - 1
      /\ \A j \in 1..Len(rs) : rs[j] = cs[K(j)]
  BY RemoveAtIs
<1>2. Len(cs) \in Nat
  OBVIOUS
<1>3. \A j \in 1..Len(rs) : K(j) \in 1..Len(cs) /\ K(j) # i
  BY <1>1, <1>2
<1>4. \A j, l \in 1..Len(rs) : (K(j) = K(l) => j = l) /\ (K(j) < K(l) => j < l)
  BY <1>1, <1>2
<1>5. \A k \in 1..Len(cs) : k # i => \E j \in 1..Len(rs) : K(j) = k
  <2> SUFFICES ASSUME NEW k \in 1..Len(cs), k # i PROVE \E j \in 1..Len(rs) : K(j) = k
    OBVIOUS
  <2>1. CASE k < i
    <3>1. k \in 1..Len(rs) /\ K(k) = k
      BY <1>1, <1>2, <2>1
    <3>2. QED
      BY <3>1
  <2>2. CASE k > i
    <3>1. k - 1 \in 1..Len(rs) /\ K(k - 1) = k
      BY <1>1, <1>2, <2>2
    <3>2. QED
      BY <3>1
  <2>3. QED
    BY <2>1, <2>2
<1>6. LiveDone(rs) => LiveDone(cs)
  <2> HIDE DEF K, rs
  <2>1. QED
    BY <1>1, <1>3 DEF LiveDone
<1>7. ~(cs[i].live /\ cs[i].stage = "done") /\ LiveDone(cs) => LiveDone(rs)
  <2> HIDE DEF K, rs
  <2> SUFFICES ASSUME ~(cs[i].live /\ cs[i].stage = "done"), LiveDone(cs) PROVE LiveDone(rs)
    OBVIOUS
  <2>1. PICK k \in 1..Len(cs) : cs[k].live /\ cs[k].stage = "done"
    BY DEF LiveDone
  <2>2. PICK j \in 1..Len(rs) : K(j) = k
    BY <1>5, <2>1
  <2>3. QED
    BY <1>1, <2>1, <2>2 DEF LiveDone
<1> HIDE DEF K, rs
<1>8. Alone(rs, m)
  BY <1>1, <1>3, <1>4 DEF Ordered, Alone
<1>9. Loading(rs, m, s)
  BY <1>1, <1>3, <1>4, <1>6 DEF Ordered, Loading
<1>10. Lasts(rs)
  <2> SUFFICES ASSUME NEW j \in 1..Len(rs), NEW l \in 1..Len(rs),
                      rs[j].live, Transport(rs[l]), l # j
               PROVE  l < j /\ (rs[j].stage \in {"held", "done"} => ~Busy(rs[l]))
    BY DEF Lasts
  <2>1. /\ K(j) \in 1..Len(cs) /\ K(l) \in 1..Len(cs) /\ K(l) # K(j)
        /\ rs[j] = cs[K(j)] /\ rs[l] = cs[K(l)]
    BY <1>1, <1>3, <1>4
  <2>2. K(l) < K(j) /\ (cs[K(j)].stage \in {"held", "done"} => ~Busy(cs[K(l)]))
    BY <2>1 DEF Ordered, Lasts
  <2>3. QED
    BY <1>4, <2>1, <2>2
<1>11. Believes(rs, s, ch)
  BY <1>1, <1>3 DEF Ordered, Believes
<1>12. ~(cs[i].live /\ cs[i].stage = "done") => Obeys(rs, m, s)
  BY <1>1, <1>3, <1>7 DEF Ordered, Obeys
<1>13. QED
  BY <1>8, <1>9, <1>10, <1>11, <1>12 DEF rs

\* A chain's call is issued.
LEMMA AppendedOrdered ==
    ASSUME NEW cs \in Seq(Calls), \A j \in 1..Len(cs) : ~cs[j].live,
           NEW m, NEW s, NEW ch, NEW ch2, Ordered(cs, m, s, ch),
           NEW e \in Calls, e.live, e.stage = "issued", e.op # "load",
           s # "unset" => ch2.op # s
    PROVE  Ordered(Append(cs, e), m, s, ch2)
<1> DEFINE as == Append(cs, e)
           n == Len(cs)
<1>1. /\ n \in Nat /\ Len(as) = n + 1 /\ as[n + 1] = e
      /\ \A j \in 1..n : as[j] = cs[j]
  BY AppendIs
<1>2. \A j \in 1..(n + 1) : j = n + 1 \/ j \in 1..n
  BY <1>1
<1>3. 1..n \subseteq 1..(n + 1) /\ n + 1 \in 1..(n + 1) /\ \A j \in 1..n : j < n + 1
  BY <1>1
<1> HIDE DEF as, n
<1>4. LiveDone(as) <=> LiveDone(cs)
  BY <1>1, <1>2, <1>3 DEF LiveDone, n
<1>5. Alone(as, m)
  <2>1. \A j \in 1..Len(as) : as[j].stage = "held" => j \in 1..n /\ as[j] = cs[j]
    BY <1>1, <1>2
  <2>2. QED
    BY <2>1 DEF Ordered, Alone, n
<1>6. Loading(as, m, s)
  <2> SUFFICES ASSUME NEW j \in 1..Len(as), as[j].op = "load", Busy(as[j])
               PROVE  /\ s = "unset" /\ m = Nothing /\ ~LiveDone(as)
                      /\ \A l \in 1..Len(as) : l # j =>
                           as[l].stage # "held" /\ (as[l].op = "load" => ~Busy(as[l]))
    BY DEF Loading
  <2>1. j \in 1..n /\ as[j] = cs[j]
    BY <1>1, <1>2
  <2>2. /\ s = "unset" /\ m = Nothing /\ ~LiveDone(cs)
        /\ \A l \in 1..n : l # j => cs[l].stage # "held" /\ (cs[l].op = "load" => ~Busy(cs[l]))
    BY <2>1 DEF Ordered, Loading, n
  <2>3. QED
    BY <1>1, <1>2, <1>4, <2>2
<1>7. Lasts(as)
  BY <1>1, <1>2, <1>3 DEF Lasts, n
<1>8. Believes(as, s, ch2)
  BY <1>1, <1>2 DEF Ordered, Believes, n
<1>9. Obeys(as, m, s)
  BY <1>1, <1>2, <1>4 DEF Ordered, Obeys, n
<1>10. QED
  BY <1>5, <1>6, <1>7, <1>8, <1>9 DEF Ordered, as

\* A chain is cancelled.
LEMMA CancelledOrdered ==
    ASSUME NEW cs \in Seq(Calls), NEW m, NEW s, NEW ch, Ordered(cs, m, s, ch),
           s = "unset" \/ \A j \in 1..Len(cs) : ~cs[j].live
    PROVE  Ordered(Cancelled(cs), m, s, Nothing)
<1> DEFINE ds == Cancelled(cs)
<1>1. /\ Len(ds) = Len(cs) /\ ds \in Seq(Calls)
      /\ \A j \in 1..Len(cs) : ~ds[j].live
  BY CancelledIs, NoneLive
<1>2. ASSUME NEW j \in 1..Len(cs)
      PROVE  ds[j].op = cs[j].op /\ ds[j].stage = cs[j].stage /\ ds[j].pipe = cs[j].pipe
  <2>1. cs[j] \in Calls /\ ds[j] = [cs[j] EXCEPT !.live = FALSE]
    BY CancelledIs
  <2>2. QED
    BY <2>1 DEF Calls, Call, LoadCall
<1> HIDE DEF ds
<1>3. ~LiveDone(ds)
  BY <1>1 DEF LiveDone
<1>4. Alone(ds, m)
  BY <1>1, <1>2 DEF Ordered, Alone
<1>5. Loading(ds, m, s)
  BY <1>1, <1>2, <1>3 DEF Ordered, Loading, Busy
<1>6. Lasts(ds)
  BY <1>1 DEF Lasts
<1>7. Believes(ds, s, Nothing)
  BY <1>1, <1>2 DEF Ordered, Believes, Busy, Transport
<1>8. Obeys(ds, m, s)
  <2>1. CASE s = "unset"
    BY <1>1, <2>1 DEF Obeys
  <2>2. CASE s # "unset"
    <3>1. ~LiveDone(cs)
      BY <2>2 DEF LiveDone
    <3>2. QED
      BY <1>1, <1>2, <2>2, <3>1 DEF Ordered, Obeys
  <2>3. QED
    BY <2>1, <2>2
<1>9. QED
  BY <1>4, <1>5, <1>6, <1>7, <1>8 DEF Ordered, ds

\* A load is issued, with nothing else under way.
LEMMA LoadOrdered ==
    ASSUME NEW e \in Calls, ~e.live, e.stage = "issued", e.op = "load",
           NEW cs, Len(cs) = 1, cs[1] = e
    PROVE  Ordered(cs, Nothing, "unset", Nothing)
<1>1. \A j \in 1..Len(cs) : j = 1 /\ cs[j] = e
  OBVIOUS
<1>2. ~LiveDone(cs)
  BY <1>1 DEF LiveDone
<1>3. QED
  BY <1>1, <1>2 DEF Ordered, Alone, Loading, Lasts, Believes, Obeys

\* A call becomes another one.
Becomes(cs, i, e, ds) ==
    /\ Len(ds) = Len(cs) /\ ds[i] = e /\ \A j \in 1..Len(cs) : j # i => ds[j] = cs[j]
    /\ e.op = cs[i].op /\ e.live = cs[i].live

\* A command of a chain finds no pipeline.
LEMMA FailsOrdered ==
    ASSUME NEW cs, NEW i \in 1..Len(cs), NEW e, NEW ds, NEW s, NEW ch, Becomes(cs, i, e, ds),
           cs[i].op # "load", cs[i].stage = "issued", e.stage = "failed", NEW m,
           Ordered(cs, m, s, ch)
    PROVE  Ordered(ds, m, s, ch)
<1>1. /\ Len(ds) = Len(cs)
      /\ \A j \in 1..Len(cs) : /\ ds[j].op = cs[j].op /\ ds[j].live = cs[j].live
                               /\ j # i => ds[j] = cs[j]
  BY DEF Becomes
<1>2. ds[i].stage = "failed"
  BY DEF Becomes
<1>3. LiveDone(ds) <=> LiveDone(cs)
  BY <1>1, <1>2 DEF LiveDone
<1>4. Alone(ds, m)
  BY <1>1, <1>2 DEF Ordered, Alone
<1>5. Loading(ds, m, s)
  BY <1>1, <1>2, <1>3 DEF Ordered, Loading, Busy
<1>6. Lasts(ds)
  BY <1>1, <1>2 DEF Ordered, Lasts, Busy, Transport
<1>7. Believes(ds, s, ch)
  BY <1>1, <1>2 DEF Ordered, Believes, Busy, Transport
<1>8. Obeys(ds, m, s)
  BY <1>1, <1>2, <1>3 DEF Ordered, Obeys
<1>9. QED
  BY <1>4, <1>5, <1>6, <1>7, <1>8 DEF Ordered

\* One takes it, none of those before it being still to start.
LEMMA HoldsOrdered ==
    ASSUME NEW cs, NEW i \in 1..Len(cs), NEW e, NEW ds, NEW s, NEW ch, Becomes(cs, i, e, ds),
           Transport(cs[i]), cs[i].stage = "issued", e.stage = "held", NEW m, m # Nothing,
           e.pipe = m, \A j \in 1..(i - 1) : Transport(cs[j]) => cs[j].stage # "issued",
           Len(cs) \in Nat, Ordered(cs, m, s, ch)
    PROVE  Ordered(ds, Nothing, s, ch)
<1>1. /\ Len(ds) = Len(cs)
      /\ \A j \in 1..Len(cs) : /\ ds[j].op = cs[j].op /\ ds[j].live = cs[j].live
                               /\ j # i => ds[j] = cs[j]
  BY DEF Becomes
<1>2. ds[i].stage = "held" /\ ds[i].pipe = m
  BY DEF Becomes
<1>3. LiveDone(ds) <=> LiveDone(cs)
  BY <1>1, <1>2 DEF LiveDone
<1>4. \A j \in 1..Len(cs) : cs[j].stage # "held" /\ (cs[j].op = "load" => ~Busy(cs[j]))
  BY DEF Ordered, Alone, Loading
<1>5. Alone(ds, Nothing)
  BY <1>1, <1>4 DEF Alone
<1>6. Loading(ds, Nothing, s)
  <2>1. ds[i].op # "load"
    BY <1>1 DEF Transport
  <2>2. \A j \in 1..Len(ds) : ~(ds[j].op = "load" /\ Busy(ds[j]))
    BY <1>1, <1>4, <2>1
  <2>3. QED
    BY <2>2 DEF Loading
<1>7. Lasts(ds)
  <2> SUFFICES ASSUME NEW k \in 1..Len(cs), NEW j \in 1..Len(cs), cs[k].live, Transport(cs[j]), j # k
               PROVE  j < k /\ (ds[k].stage \in {"held", "done"} => ~Busy(ds[j]))
    BY <1>1 DEF Lasts, Transport
  <2>1. j < k /\ (cs[k].stage \in {"held", "done"} => ~Busy(cs[j]))
    BY DEF Ordered, Lasts
  <2>2. CASE k = i
    <3>1. j \in 1..(i - 1)
      BY <2>1, <2>2
    <3>2. ~Busy(cs[j])
      BY <1>4, <3>1 DEF Busy
    <3>3. QED
      BY <1>1, <2>1, <2>2, <3>2
  <2>3. CASE j = i
    <3>1. Busy(cs[i])
      BY DEF Busy
    <3>2. QED
      BY <1>1, <2>1, <2>3, <3>1
  <2>4. CASE k # i /\ j # i
    BY <1>1, <2>1, <2>4
  <2>5. QED
    BY <2>2, <2>3, <2>4
<1>8. Believes(ds, s, ch)
  <2>1. s # "unset" => cs[i].live
    BY DEF Ordered, Believes, Busy
  <2>2. QED
    BY <1>1, <2>1 DEF Ordered, Believes, Transport
<1>9. Obeys(ds, Nothing, s)
  BY <1>1, <1>2, <1>3, <1>4 DEF Ordered, Obeys
<1>10. QED
  BY <1>5, <1>6, <1>7, <1>8, <1>9 DEF Ordered

\* It plays or pauses, or cannot, and puts it back.
LEMMA PutsBackOrdered ==
    ASSUME NEW cs, NEW i \in 1..Len(cs), NEW e, NEW ds, NEW s, NEW ch, Becomes(cs, i, e, ds),
           Transport(cs[i]), cs[i].stage = "held", NEW m, NEW m2, Ordered(cs, m, s, ch),
           Len(cs) \in Nat,
           \/ e.stage = "done" /\ (m2.playing <=> cs[i].op = "play")
           \/ e.stage = "failed" /\ m2 = cs[i].pipe
    PROVE  Ordered(ds, m2, s, ch)
<1>1. /\ Len(ds) = Len(cs)
      /\ \A j \in 1..Len(cs) : /\ ds[j].op = cs[j].op /\ ds[j].live = cs[j].live
                               /\ j # i => ds[j] = cs[j]
  BY DEF Becomes
<1>2. ds[i] = e /\ e.stage \in {"done", "failed"}
  BY DEF Becomes
<1>3. \A j \in 1..Len(cs) : j # i => cs[j].stage # "held"
  BY DEF Ordered, Alone
<1>4. \A j \in 1..Len(cs) : ~(cs[j].op = "load" /\ Busy(cs[j]))
  <2>1. \A j \in 1..Len(cs) : j # i => ~(cs[j].op = "load" /\ Busy(cs[j]))
    BY DEF Ordered, Loading
  <2>2. QED
    BY <2>1 DEF Transport
<1>5. \A k \in 1..Len(cs) : k # i => ~(cs[k].live /\ cs[k].stage = "done")
  BY DEF Ordered, Lasts, Busy
<1>6. Alone(ds, m2)
  BY <1>1, <1>2, <1>3 DEF Alone
<1>7. Loading(ds, m2, s)
  <2>1. \A j \in 1..Len(ds) : ~(ds[j].op = "load" /\ Busy(ds[j]))
    BY <1>1, <1>2, <1>4 DEF Busy
  <2>2. QED
    BY <2>1 DEF Loading
<1>8. Lasts(ds)
  <2> SUFFICES ASSUME NEW k \in 1..Len(cs), NEW j \in 1..Len(cs), cs[k].live, Transport(cs[j]), j # k
               PROVE  j < k /\ (ds[k].stage \in {"held", "done"} => ~Busy(ds[j]))
    BY <1>1 DEF Lasts, Transport
  <2>1. j < k /\ (cs[k].stage \in {"held", "done"} => ~Busy(cs[j]))
    BY DEF Ordered, Lasts
  <2>2. ~Busy(ds[i])
    BY <1>2 DEF Busy
  <2>3. QED
    BY <1>1, <2>1, <2>2
<1>9. Believes(ds, s, ch)
  BY <1>1, <1>2 DEF Ordered, Believes, Transport, Busy
<1>10. s # "unset" => cs[i].live
  BY DEF Ordered, Believes, Busy
<1>11. Obeys(ds, m2, s)
  <2>1. CASE e.stage = "done" /\ (m2.playing <=> cs[i].op = "play")
    <3>1. s # "unset" => LiveDone(ds)
      BY <1>1, <1>2, <1>10, <2>1 DEF LiveDone
    <3>2. QED
      BY <1>1, <1>2, <1>5, <2>1, <3>1 DEF Obeys
  <2>2. CASE e.stage = "failed" /\ m2 = cs[i].pipe
    <3>1. ~LiveDone(cs)
      BY <1>5 DEF LiveDone
    <3>2. s # "unset" => (m2.playing <=> s = "play")
      BY <2>2, <3>1 DEF Ordered, Obeys
    <3>3. QED
      BY <1>1, <1>2, <1>3, <1>5, <2>2, <3>2 DEF Obeys
  <2>3. QED
    BY <2>1, <2>2
<1>12. QED
  BY <1>6, <1>7, <1>8, <1>9, <1>11 DEF Ordered

\* A load moves on.
LEMMA LoadStageOrdered ==
    ASSUME NEW cs, NEW i \in 1..Len(cs), NEW e, NEW ds, NEW s, NEW ch, Becomes(cs, i, e, ds),
           cs[i].op = "load", ~cs[i].live, Busy(cs[i]), NEW m, NEW m2, Ordered(cs, m, s, ch),
           \/ e.stage = "held" /\ m2 = Nothing
           \/ e.stage = "done"
    PROVE  Ordered(ds, m2, s, ch)
<1>1. /\ Len(ds) = Len(cs)
      /\ \A j \in 1..Len(cs) : /\ ds[j].op = cs[j].op /\ ds[j].live = cs[j].live
                               /\ j # i => ds[j] = cs[j]
  BY DEF Becomes
<1>2. ds[i] = e /\ e.stage \in {"held", "done"}
  BY DEF Becomes
<1>3. /\ s = "unset" /\ ~LiveDone(cs)
      /\ \A j \in 1..Len(cs) : j # i =>
           cs[j].stage # "held" /\ (cs[j].op = "load" => ~Busy(cs[j]))
  BY DEF Ordered, Loading
<1>4. \A j \in 1..Len(cs) : ~(ds[j].live /\ ds[j].stage = "done")
  BY <1>1, <1>2, <1>3 DEF LiveDone, Becomes
<1>5. ~LiveDone(ds)
  BY <1>1, <1>4 DEF LiveDone
<1>6. Alone(ds, m2)
  BY <1>1, <1>2, <1>3 DEF Alone
<1>7. Loading(ds, m2, s)
  BY <1>1, <1>2, <1>3, <1>5 DEF Loading, Busy
<1>8. Lasts(ds)
  <2>1. ~Transport(cs[i])
    BY DEF Transport
  <2>2. \A k \in 1..Len(cs) : k # i => ds[k] = cs[k]
    BY <1>1
  <2>3. ASSUME NEW k \in 1..Len(ds), NEW j \in 1..Len(ds), ds[k].live, Transport(ds[j]), j # k
        PROVE  j < k /\ (ds[k].stage \in {"held", "done"} => ~Busy(ds[j]))
    <3>1. j # i /\ ds[j] = cs[j] /\ k # i /\ ds[k] = cs[k]
      BY <1>1, <2>1, <2>3 DEF Transport
    <3>2. j < k /\ (cs[k].stage \in {"held", "done"} => ~Busy(cs[j]))
      BY <1>1, <2>3, <3>1 DEF Ordered, Lasts
    <3>3. QED
      BY <1>1, <1>2, <3>1, <3>2
  <2>4. QED
    BY <2>3 DEF Lasts
<1>9. Believes(ds, s, ch) /\ Obeys(ds, m2, s)
  BY <1>1, <1>3, <1>4 DEF Believes, Obeys
<1>10. QED
  BY <1>6, <1>7, <1>8, <1>9 DEF Ordered

LEMMA InitOrdered == Init => OrderedInv
<1> SUFFICES ASSUME Init PROVE OrderedInv
  OBVIOUS
<1>1. Len(calls) = 0 /\ sent = "unset" /\ source = 0 /\ backend.load = 0
  BY DEF Init
<1>2. QED
  BY <1>1, NoCalls, InitTyped DEF OrderedInv, Changes

LEMMA DjOrdered ==
    ASSUME "hasty" \notin Events, OrderedInv, Dj \/ Churn \/ BackendSettles
    PROVE  Ordered(calls', map', sent', chain') /\ Changes'
<1>1. UNCHANGED <<chain, calls, map, sent>>
  BY DEF Dj, Load, RemoveDeck, PlayPause, Churn, BackendSettles
<1>2. Changes'
  <2>1. CASE Load \/ RemoveDeck
    BY <2>1 DEF Load, RemoveDeck, Calm, Changes
  <2>2. CASE PlayPause \/ Churn
    BY <2>2 DEF PlayPause, Churn, Changes, OrderedInv
  <2>3. CASE BackendSettles
    <3>1. source = backend.load
      BY <2>3 DEF BackendSettles, Changes, OrderedInv
    <3>2. source' = source /\ backend'.load = backend.load
      BY <2>3 DEF BackendSettles, OrderedInv, Typed, TypeOK
    <3>3. QED
      BY <3>1, <3>2 DEF Changes
  <2>4. QED
    BY <2>1, <2>2, <2>3 DEF Dj
<1>3. QED
  BY <1>1, <1>2 DEF OrderedInv

LEMMA CommandsOrdered ==
    ASSUME "reorder" \notin Events, OrderedInv, NEW i \in DOMAIN calls,
           Takes(i) \/ PutsBack(i) \/ LoadTakes(i) \/ LoadPutsBack(i)
    PROVE  Ordered(calls', map', sent', chain') /\ Changes'
<1>1. /\ calls \in Seq(Calls) /\ i \in 1..Len(calls) /\ calls[i] \in Calls /\ Len(calls) \in Nat
      /\ Ordered(calls, map, sent, chain)
  BY DEF OrderedInv, Typed, TypeOK, Calls
<1>2. UNCHANGED <<source, backend, sent, chain>>
  BY DEF Takes, PutsBack, LoadTakes, LoadPutsBack, jsVars
<1>3. Changes'
  <2>1. calls # << >>
    BY <1>1
  <2>2. QED
    BY <1>2, <2>1 DEF Changes, OrderedInv
<1>4. ASSUME NEW e \in Calls, e.op = calls[i].op, e.live = calls[i].live, calls' = [calls EXCEPT ![i] = e]
      PROVE  Becomes(calls, i, e, calls')
  BY <1>1, <1>4, UpdateIs DEF Becomes
<1>5. CASE Takes(i)
  <2>1. calls[i] \in Call /\ Transport(calls[i]) /\ calls[i].stage = "issued" /\ map' = Nothing
    BY <1>1, <1>5, TransportIs DEF Takes
  <2>2. CASE map = Nothing
    <3> DEFINE e == [calls[i] EXCEPT !.stage = "failed"]
    <3>1. e \in Calls /\ e.op = calls[i].op /\ e.live = calls[i].live /\ e.stage = "failed"
      BY <2>1 DEF Calls, Call
    <3>2. calls' = [calls EXCEPT ![i] = e]
      BY <1>5, <2>2 DEF Takes
    <3> HIDE DEF e
    <3>3. calls[i].op # "load"
      BY <2>1 DEF Transport
    <3>4. Becomes(calls, i, e, calls')
      BY <1>4, <3>1, <3>2
    <3>5. Ordered(calls', map, sent, chain)
      BY <1>1, <2>1, <3>1, <3>3, <3>4, FailsOrdered
    <3>6. QED
      BY <1>2, <1>3, <2>1, <2>2, <3>5
  <2>3. CASE map # Nothing
    <3> DEFINE e == [calls[i] EXCEPT !.stage = "held", !.pipe = map]
    <3>1. /\ e \in Calls /\ e.op = calls[i].op /\ e.live = calls[i].live
          /\ e.stage = "held" /\ e.pipe = map
      BY <2>1 DEF Calls, Call, OrderedInv, Typed, TypeOK
    <3>2. calls' = [calls EXCEPT ![i] = e]
      BY <1>5, <2>3 DEF Takes
    <3> HIDE DEF e
    <3>3. \A j \in 1..(i - 1) : Transport(calls[j]) => calls[j].stage # "issued"
      BY <1>5 DEF Takes
    <3>4. Becomes(calls, i, e, calls')
      BY <1>4, <3>1, <3>2
    <3>5. Ordered(calls', Nothing, sent, chain)
      BY <1>1, <2>1, <2>3, <3>1, <3>3, <3>4, HoldsOrdered
    <3>6. QED
      BY <1>2, <1>3, <2>1, <3>5
  <2>4. QED
    BY <2>2, <2>3
<1>6. CASE PutsBack(i)
  <2>1. calls[i] \in Call /\ Transport(calls[i]) /\ calls[i].stage = "held" /\ calls[i].pipe \in Pipe
    BY <1>1, <1>6, TransportIs DEF PutsBack, OrderedInv, Typed, Holds
  <2>2. PICK st \in {"done", "failed"} :
          /\ calls' = [calls EXCEPT ![i].stage = st, ![i].pipe = Nothing]
          /\ \/ st = "done" /\ map' = [calls[i].pipe EXCEPT !.playing = (calls[i].op = "play")]
             \/ st = "failed" /\ map' = calls[i].pipe
    BY <1>6 DEF PutsBack
  <2> DEFINE e == [calls[i] EXCEPT !.stage = st, !.pipe = Nothing]
  <2>3. /\ e \in Calls /\ e.op = calls[i].op /\ e.live = calls[i].live /\ e.stage = st
    BY <2>1 DEF Calls, Call
  <2>4. calls' = [calls EXCEPT ![i] = e]
    BY <1>1, <2>2
  <2> HIDE DEF e
  <2>5. Becomes(calls, i, e, calls')
    BY <1>4, <2>3, <2>4
  <2>6. \/ e.stage = "done" /\ (map'.playing <=> calls[i].op = "play")
        \/ e.stage = "failed" /\ map' = calls[i].pipe
    BY <2>1, <2>2, <2>3 DEF Pipe
  <2>7. Ordered(calls', map', sent, chain)
    BY <1>1, <2>1, <2>5, <2>6, PutsBackOrdered
  <2>8. QED
    BY <1>2, <1>3, <2>7
<1>7. CASE LoadTakes(i) \/ LoadPutsBack(i)
  <2>1. calls[i] \in LoadCall /\ calls[i].op = "load" /\ ~calls[i].live /\ Busy(calls[i])
    BY <1>1, <1>7, TransportIs DEF LoadTakes, LoadPutsBack, Busy, LoadCall
  <2>2. PICK st \in {"held", "done"}, x \in {Nothing} \cup Pipe :
          /\ calls' = [calls EXCEPT ![i].stage = st, ![i].pipe = x]
          /\ st = "held" => map' = Nothing
    <3>1. CASE LoadTakes(i)
      <4>1. \E x \in {Nothing} \cup Pipe : calls' = [calls EXCEPT ![i].stage = "held", ![i].pipe = x]
        <5>1. [load |-> 0, ok |-> FALSE, playing |-> FALSE] \in Pipe
          BY BoundsAssumption DEF Pipe, Loads
        <5>2. map \in {Nothing} \cup Pipe
          BY DEF OrderedInv, Typed, TypeOK
        <5>3. QED
          BY <3>1, <5>1, <5>2 DEF LoadTakes
      <4>2. map' = Nothing
        BY <3>1 DEF LoadTakes
      <4>3. QED
        BY <4>1, <4>2
    <3>2. CASE LoadPutsBack(i)
      BY <3>2 DEF LoadPutsBack
    <3>3. QED
      BY <1>7, <3>1, <3>2
  <2> DEFINE e == [calls[i] EXCEPT !.stage = st, !.pipe = x]
  <2>3. e \in Calls /\ e.op = calls[i].op /\ e.live = calls[i].live /\ e.stage = st
    BY <2>1 DEF Calls, LoadCall
  <2>4. calls' = [calls EXCEPT ![i] = e]
    BY <1>1, <2>2
  <2> HIDE DEF e
  <2>5. Becomes(calls, i, e, calls')
    BY <1>4, <2>3, <2>4
  <2>6. Ordered(calls', map', sent, chain)
    BY <1>1, <2>1, <2>2, <2>3, <2>5, LoadStageOrdered
  <2>7. QED
    BY <1>2, <1>3, <2>6
<1>8. QED
  BY <1>5, <1>6, <1>7

LEMMA RetryOrdered ==
    ASSUME OrderedInv, RetryFires
    PROVE  Ordered(calls', map', sent', chain') /\ Changes'
<1>1. calls \in Seq(Calls) /\ chain \in ChainRec /\ chain.waits = "timer" /\ Ordered(calls, map, sent, chain)
  BY DEF OrderedInv, Typed, TypeOK, Calls, RetryFires
<1>2. \A j \in 1..Len(calls) : ~calls[j].live
  BY <1>1 DEF OrderedInv, Typed, Waits
<1> DEFINE e == Issued(chain.op, TRUE, 0)
<1>3. e \in Calls /\ e.live /\ e.stage = "issued" /\ e.op # "load"
  BY <1>1, IssuedType DEF ChainRec, Issued
<1>4. calls' = Append(calls, e) /\ chain # Nothing /\ chain'.op = chain.op
  BY <1>1 DEF RetryFires, ChainRec
<1> HIDE DEF e
<1>5. sent # "unset" => chain'.op # sent
  BY <1>1, <1>4 DEF Ordered, Believes
<1>6. Ordered(calls', map, sent, chain')
  BY <1>1, <1>2, <1>3, <1>4, <1>5, AppendedOrdered
<1>7. UNCHANGED <<source, backend, sent, map>>
  BY DEF RetryFires, jsVars
<1>8. Changes'
  BY <1>4, <1>7 DEF Changes, OrderedInv
<1>9. QED
  BY <1>6, <1>7, <1>8

LEMMA SyncOrdered ==
    ASSUME OrderedInv, Sync
    PROVE  Ordered(calls', map', sent', chain') /\ Changes'
<1>1. calls \in Seq(Calls) /\ Ordered(calls, map, sent, chain) /\ source' = source
  BY DEF OrderedInv, Typed, TypeOK, Calls, Sync
<1>2. CASE Fresh \/ Gone
  <2>1. source # backend.load
    BY <1>2 DEF Fresh, Gone
  <2>2. calls = << >>
    BY <2>1 DEF OrderedInv, Changes
  <2>3. map' = Nothing /\ sent' = "unset" /\ chain' = Nothing /\ backend'.load = source
    <3>1. /\ map' = Nothing /\ sent' = "unset" /\ chain' = Nothing
          /\ \E p : backend' = [load |-> source, pending |-> p]
      BY <1>2, Zenon DEF Sync
    <3>2. QED
      BY <3>1
  <2>4. Changes'
    BY <1>1, <2>3 DEF Changes
  <2>5. Cancelled(calls) \in Seq(Calls) /\ Len(Cancelled(calls)) = 0
    <3>1. Len(calls) = 0
      BY <2>2
    <3>2. QED
      BY <1>1, <3>1, CancelledIs
  <2>6. CASE source = 0
    <3>1. calls' = Cancelled(calls)
      BY <1>2, <2>6 DEF Sync
    <3>2. QED
      BY <2>3, <2>4, <2>5, <3>1, NoCalls
  <2>7. CASE source # 0
    <3> DEFINE e == Issued("load", FALSE, source)
    <3>1. e \in Calls /\ ~e.live /\ e.stage = "issued" /\ e.op = "load"
      BY <2>7, IssuedType DEF Issued, OrderedInv, Typed, TypeOK
    <3>2. calls' = Append(Cancelled(calls), e)
      BY <1>2, <2>7 DEF Sync, Gone
    <3> HIDE DEF e
    <3>3. Len(calls') = 1 /\ calls'[1] = e
      BY <2>5, <3>1, <3>2, AppendIs
    <3>4. Ordered(calls', Nothing, "unset", Nothing)
      BY <3>1, <3>3, LoadOrdered
    <3>5. QED
      BY <2>3, <2>4, <3>4
  <2>8. QED
    BY <2>6, <2>7
<1>3. CASE ~(Fresh \/ Gone)
  <2>1. UNCHANGED <<backend, map, sent>>
    BY <1>3 DEF Sync
  <2>2. CASE UNCHANGED <<chain, calls>>
    <3>1. Changes'
      BY <1>1, <2>1, <2>2 DEF Changes, OrderedInv
    <3>2. QED
      BY <1>1, <2>1, <2>2, <3>1
  <2>3. CASE ~UNCHANGED <<chain, calls>>
    <3>1. source # 0 /\ sent # Op(playing) /\ Reconcile
      BY <1>3, <2>3 DEF Sync
    <3>2. source = backend.load
      BY <1>3, <3>1 DEF Fresh
    <3>3. Changes'
      BY <1>1, <2>1, <3>2 DEF Changes
    <3> DEFINE e == Issued(Op(playing), TRUE, 0)
    <3>4. e \in Calls /\ e.live /\ e.stage = "issued" /\ e.op = Op(playing) /\ e.op # "load"
      <4>1. e \in Calls /\ Op(playing) \in {"play", "pause"}
        BY IssuedType DEF OrderedInv, Typed, TypeOK
      <4>2. e.live /\ e.stage = "issued" /\ e.op = Op(playing)
        BY DEF Issued
      <4>3. QED
        BY <4>1, <4>2
    <3>5. /\ calls' = Append(Cancelled(calls), e) /\ chain'.op = Op(playing)
          /\ chain = Nothing \/ chain.op # Op(playing)
      <4>1. /\ ~(chain # Nothing /\ chain.op = Op(playing))
            /\ chain' = [op |-> Op(playing), waits |-> "call"] /\ calls' = Append(Cancelled(calls), e)
        BY <2>3, <3>1 DEF Reconcile
      <4>2. QED
        BY <4>1
    <3> HIDE DEF e
    <3>6. sent = "unset" \/ \A j \in 1..Len(calls) : ~calls[j].live
      <4>1. CASE chain = Nothing
        BY <4>1 DEF OrderedInv, Typed, Waits
      <4>2. CASE chain # Nothing
        <5>1. sent = "unset" \/ chain.op # sent
          BY <1>1, <4>2 DEF Ordered, Believes
        <5>2. /\ chain.op \in {"play", "pause"} /\ sent \in {"unset", "play", "pause"}
              /\ Op(playing) \in {"play", "pause"}
          BY <4>2, IssuedType DEF OrderedInv, Typed, TypeOK, ChainRec
        <5>3. QED
          BY <3>1, <3>5, <4>2, <5>1, <5>2
      <4>3. QED
        BY <4>1, <4>2
    <3>7. Ordered(Cancelled(calls), map, sent, Nothing)
      BY <1>1, <3>6, CancelledOrdered
    <3>8. Cancelled(calls) \in Seq(Calls) /\ \A j \in 1..Len(Cancelled(calls)) : ~Cancelled(calls)[j].live
      BY <1>1, CancelledIs, NoneLive
    <3>9. Ordered(calls', map, sent, chain')
      BY <3>1, <3>4, <3>5, <3>7, <3>8, AppendedOrdered
    <3>10. QED
      BY <2>1, <3>3, <3>9
  <2>4. QED
    BY <2>2, <2>3
<1>4. QED
  BY <1>2, <1>3

LEMMA AnsweredOrdered ==
    ASSUME OrderedInv, NEW i \in DOMAIN calls, Answered(i)
    PROVE  Ordered(calls', map', sent', chain') /\ Changes'
<1>1. /\ calls \in Seq(Calls) /\ i \in 1..Len(calls) /\ calls[i] \in Calls
      /\ Ordered(calls, map, sent, chain) /\ Waits(chain, calls)
  BY DEF OrderedInv, Typed, TypeOK, Calls
<1>2. calls' = RemoveAt(calls, i) /\ UNCHANGED <<source, backend, map>>
  BY DEF Answered
<1>3. Changes'
  <2>1. calls # << >>
    BY <1>1
  <2>2. QED
    BY <1>2, <2>1 DEF Changes, OrderedInv
<1>4. /\ Alone(calls', map) /\ Loading(calls', map, sent) /\ Lasts(calls') /\ Believes(calls', sent, chain)
      /\ ~(calls[i].live /\ calls[i].stage = "done") => Obeys(calls', map, sent)
  BY <1>1, <1>2, RemovedOrdered
<1>5. CASE ~calls[i].live
  <2>1. UNCHANGED <<sent, chain>>
    BY <1>5 DEF Answered, Counts
  <2>2. QED
    BY <1>2, <1>3, <1>4, <1>5, <2>1 DEF Ordered
<1>6. CASE calls[i].live /\ calls[i].stage = "failed"
  <2>1. sent' = sent /\ (chain' = Nothing \/ chain' = Retried(chain))
    BY <1>6 DEF Answered, Counts
  <2>2. chain # Nothing /\ chain \in ChainRec
    BY <1>1, <1>6, RemovedWaits DEF OrderedInv, Typed, TypeOK
  <2>3. Retried(chain).op = chain.op
    BY <2>2 DEF Retried, ChainRec
  <2>4. Believes(calls', sent, chain')
    BY <1>4, <2>1, <2>2, <2>3 DEF Believes
  <2>5. QED
    BY <1>2, <1>3, <1>4, <1>6, <2>1, <2>4 DEF Ordered
<1>7. CASE calls[i].live /\ calls[i].stage = "done"
  <2>1. sent' = calls[i].op /\ chain' = Nothing
    BY <1>7 DEF Answered, Counts
  <2>2. calls[i].op \in {"play", "pause"}
    BY <1>1, <1>7 DEF Calls, Call, LoadCall
  <2>3. \A j \in 1..Len(calls') : \E k \in 1..Len(calls) : k # i /\ calls'[j] = calls[k]
    <3> SUFFICES ASSUME NEW j \in 1..Len(calls')
                 PROVE  \E k \in 1..Len(calls) : k # i /\ calls'[j] = calls[k]
      OBVIOUS
    <3>1. Len(calls') = Len(calls) - 1 /\ calls'[j] = calls[IF j < i THEN j ELSE j + 1]
      BY <1>1, <1>2, RemoveAtIs
    <3>2. (IF j < i THEN j ELSE j + 1) \in 1..Len(calls) /\ (IF j < i THEN j ELSE j + 1) # i
      BY <1>1, <3>1
    <3>3. QED
      BY <3>1, <3>2
  <2>4. \A k \in 1..Len(calls) : k # i => ~Busy(calls[k])
    <3> SUFFICES ASSUME NEW k \in 1..Len(calls), k # i PROVE ~Busy(calls[k])
      OBVIOUS
    <3>1. CASE Transport(calls[k])
      BY <1>1, <1>7, <3>1 DEF Ordered, Lasts
    <3>2. CASE ~Transport(calls[k])
      <4>1. calls[k] \in Calls /\ LiveDone(calls)
        BY <1>1, <1>7 DEF LiveDone
      <4>2. calls[k].op = "load"
        BY <3>2, <4>1 DEF Calls, Call, LoadCall, Transport
      <4>3. QED
        BY <1>1, <4>1, <4>2 DEF Ordered, Loading
    <3>3. QED
      BY <3>1, <3>2
  <2>5. \A j \in 1..Len(calls') : ~Busy(calls'[j])
    BY <2>3, <2>4
  <2>6. \A j \in 1..Len(calls') : ~calls'[j].live
    BY <1>1, <1>2, <1>7, RemovedWaits
  <2>7. Loading(calls', map, sent') /\ Believes(calls', sent', chain')
    BY <2>1, <2>5 DEF Loading, Believes
  <2>8. map # Nothing => (map.playing <=> sent' = "play")
    BY <1>1, <1>7, <2>1 DEF Ordered, Obeys
  <2>9. Obeys(calls', map, sent')
    BY <2>5, <2>6, <2>8 DEF Obeys, Busy
  <2>10. QED
    BY <1>2, <1>3, <1>4, <2>7, <2>9 DEF Ordered
<1>8. calls[i].stage \in {"done", "failed"}
  BY DEF Answered
<1>9. QED
  BY <1>5, <1>6, <1>7, <1>8

LEMMA NextOrdered ==
    ASSUME "hasty" \notin Events, "reorder" \notin Events
    PROVE  OrderedInv /\ [Next]_vars => OrderedInv'
<1>1. OrderedInv /\ UNCHANGED vars => OrderedInv'
  BY DEF OrderedInv, Typed, TypeOK, Waits, Holds, Changes, vars
<1>2. OrderedInv => Typed
  BY DEF OrderedInv
<1>3. OrderedInv /\ Next => Ordered(calls', map', sent', chain') /\ Changes'
  BY DjOrdered, CommandsOrdered, RetryOrdered, SyncOrdered, AnsweredOrdered
  DEF Next, Automatic, Works
<1>4. QED
  BY <1>1, <1>2, <1>3, NextTyped DEF OrderedInv

----------------------------------------------------------------------------
(* The pipeline is that of the source that was set up, wherever it is.        *)

\* The pipeline is in the map, held, or will be made by a load.
There(cs, m) ==
    \/ m # Nothing
    \/ \E i \in 1..Len(cs) : cs[i].stage = "held" \/ (cs[i].op = "load" /\ cs[i].stage = "issued")

\* Every pipeline, and every load under way, is of load l; without one nothing is left.
Carries(cs, m, l) ==
    /\ m # Nothing => m.load = l
    /\ \A i \in 1..Len(cs) : /\ Transport(cs[i]) /\ cs[i].stage = "held" => cs[i].pipe.load = l
                             /\ cs[i].op = "load" => cs[i].load = l
    /\ IF l = 0 THEN Len(cs) = 0 /\ m = Nothing ELSE There(cs, m)

CarriesInv == Carries(calls, map, backend.load) /\ (backend.load = 0 => sent = "unset" /\ chain = Nothing)

\* A command moves on.
LEMMA BecomesCarries ==
    ASSUME NEW cs \in Seq(Calls), NEW i \in 1..Len(cs), NEW e, NEW ds, Becomes(cs, i, e, ds),
           NEW m, NEW m2, NEW l, Carries(cs, m, l),
           m2 # Nothing => m2.load = l,
           Transport(e) /\ e.stage = "held" => e.pipe.load = l,
           e.op = "load" => e.load = l,
           \/ m2 # Nothing
           \/ e.stage = "held"
           \/ m2 = m /\ cs[i].stage # "held" /\ cs[i].op # "load"
    PROVE  Carries(ds, m2, l)
<1>1. /\ Len(ds) = Len(cs) /\ Len(cs) \in Nat /\ i \in 1..Len(ds) /\ Len(cs) # 0
      /\ \A j \in 1..Len(ds) : ds[j] = IF j = i THEN e ELSE cs[j]
  BY DEF Becomes
<1>2. l # 0 /\ There(cs, m)
  BY <1>1 DEF Carries
<1>3. There(ds, m2)
  BY <1>1, <1>2 DEF There
<1>4. QED
  BY <1>1, <1>2, <1>3 DEF Carries

\* A command is issued.
LEMMA AppendedCarries ==
    ASSUME NEW cs \in Seq(Calls), NEW e \in Calls, NEW m, NEW l, l # 0, Carries(cs, m, l),
           e.stage = "issued", e.op # "load"
    PROVE  Carries(Append(cs, e), m, l)
<1> DEFINE as == Append(cs, e)
           n == Len(cs)
<1>1. /\ n \in Nat /\ Len(as) = n + 1 /\ as[n + 1] = e
      /\ \A j \in 1..n : as[j] = cs[j]
  BY AppendIs
<1>2. /\ \A j \in 1..(n + 1) : j = n + 1 \/ j \in 1..n
      /\ 1..n \subseteq 1..(n + 1)
  BY <1>1
<1> HIDE DEF as, n
<1>3. There(as, m)
  BY <1>1, <1>2 DEF There, Carries, n
<1>4. QED
  BY <1>1, <1>2, <1>3 DEF Carries, as, n

\* The commands of a chain are cancelled.
LEMMA CancelledCarries ==
    ASSUME NEW cs \in Seq(Calls), NEW m, NEW l, Carries(cs, m, l)
    PROVE  Carries(Cancelled(cs), m, l)
<1>1. /\ Len(Cancelled(cs)) = Len(cs)
      /\ \A j \in 1..Len(cs) : Cancelled(cs)[j] = [cs[j] EXCEPT !.live = FALSE]
  BY CancelledIs
<1>2. \A c \in Calls : LET d == [c EXCEPT !.live = FALSE] IN
        d.op = c.op /\ d.stage = c.stage /\ d.pipe = c.pipe /\ d.load = c.load
  BY DEF Calls, Call, LoadCall
<1>3. \A j \in 1..Len(cs) : /\ Cancelled(cs)[j].op = cs[j].op /\ Cancelled(cs)[j].stage = cs[j].stage
                            /\ Cancelled(cs)[j].pipe = cs[j].pipe /\ Cancelled(cs)[j].load = cs[j].load
  <2> SUFFICES ASSUME NEW j \in 1..Len(cs)
               PROVE  /\ Cancelled(cs)[j].op = cs[j].op /\ Cancelled(cs)[j].stage = cs[j].stage
                      /\ Cancelled(cs)[j].pipe = cs[j].pipe /\ Cancelled(cs)[j].load = cs[j].load
    OBVIOUS
  <2>1. cs[j] \in Calls
    OBVIOUS
  <2>2. QED
    BY <1>1, <1>2, <2>1
<1>4. There(cs, m) => There(Cancelled(cs), m)
  BY <1>1, <1>3 DEF There
<1>5. QED
  BY <1>1, <1>3, <1>4 DEF Carries, Transport

\* A command that takes or puts back a pipeline, and a load, keep it that of the source.
LEMMA CommandsCarry ==
    ASSUME OrderedInv, CarriesInv, NEW i \in DOMAIN calls,
           Takes(i) \/ PutsBack(i) \/ LoadTakes(i) \/ LoadPutsBack(i)
    PROVE  CarriesInv'
<1>1. /\ calls \in Seq(Calls) /\ i \in 1..Len(calls) /\ calls[i] \in Calls /\ Len(calls) \in Nat
      /\ Carries(calls, map, backend.load) /\ Loading(calls, map, sent) /\ map \in {Nothing} \cup Pipe
  BY DEF OrderedInv, Ordered, Typed, TypeOK, Calls, CarriesInv
<1>2. UNCHANGED <<backend, sent, chain>>
  BY DEF Takes, PutsBack, LoadTakes, LoadPutsBack, jsVars
<1>3. ASSUME NEW st, NEW x, calls' = [calls EXCEPT ![i].stage = st, ![i].pipe = x],
             map' # Nothing => map'.load = backend.load,
             Transport(calls[i]) /\ st = "held" => x.load = backend.load,
             \/ map' # Nothing
             \/ st = "held"
      PROVE  Carries(calls', map', backend.load)
  <2> DEFINE e == [calls[i] EXCEPT !.stage = st, !.pipe = x]
  <2>1. /\ e.op = calls[i].op /\ e.stage = st /\ e.pipe = x /\ e.load = calls[i].load
        /\ e.live = calls[i].live
    BY <1>1 DEF Calls, Call, LoadCall
  <2>2. calls' = [calls EXCEPT ![i] = e]
    BY <1>1, <1>3
  <2> HIDE DEF e
  <2>3. Becomes(calls, i, e, calls')
    BY <1>1, <2>1, <2>2 DEF Becomes
  <2>4. e.op = "load" => e.load = backend.load
    BY <1>1, <2>1 DEF Carries
  <2>5. QED
    BY <1>1, <1>3, <2>1, <2>3, <2>4, BecomesCarries DEF Transport
<1>4. CASE Takes(i)
  <2>1. calls[i] \in Call /\ Transport(calls[i]) /\ calls[i].stage = "issued" /\ map' = Nothing
    BY <1>1, <1>4, TransportIs DEF Takes
  <2>2. CASE map = Nothing
    <3> DEFINE e == [calls[i] EXCEPT !.stage = "failed"]
    <3>1. e.op = calls[i].op /\ e.stage = "failed" /\ calls[i].op # "load" /\ e.live = calls[i].live
      BY <2>1 DEF Call
    <3>2. calls' = [calls EXCEPT ![i] = e]
      BY <1>4, <2>2 DEF Takes
    <3> HIDE DEF e
    <3>3. Becomes(calls, i, e, calls')
      BY <1>1, <3>1, <3>2 DEF Becomes
    <3>4. Carries(calls', map', backend.load)
      BY <1>1, <2>1, <2>2, <3>1, <3>3, BecomesCarries
    <3>5. QED
      BY <1>2, <3>4 DEF CarriesInv
  <2>3. CASE map # Nothing
    <3>1. calls' = [calls EXCEPT ![i].stage = "held", ![i].pipe = map]
      BY <1>1, <1>4, <2>3 DEF Takes
    <3>2. Carries(calls', map', backend.load)
      BY <1>1, <1>3, <2>1, <2>3, <3>1 DEF Carries
    <3>3. QED
      BY <1>2, <3>2 DEF CarriesInv
  <2>4. QED
    BY <2>2, <2>3
<1>5. CASE PutsBack(i)
  <2>1. Transport(calls[i]) /\ calls[i].stage = "held" /\ calls[i].pipe \in Pipe
    BY <1>1, <1>5 DEF PutsBack, OrderedInv, Typed, Holds
  <2>2. PICK st \in {"done", "failed"} :
          /\ calls' = [calls EXCEPT ![i].stage = st, ![i].pipe = Nothing]
          /\ map' = calls[i].pipe \/ map' = [calls[i].pipe EXCEPT !.playing = (calls[i].op = "play")]
    BY <1>5 DEF PutsBack
  <2>3. map' \in Pipe /\ map'.load = calls[i].pipe.load
    BY <2>1, <2>2 DEF Pipe
  <2>4. map' # Nothing /\ map'.load = backend.load
    BY <1>1, <2>1, <2>3, NothingAssumption DEF Carries
  <2>5. Carries(calls', map', backend.load)
    BY <1>3, <2>2, <2>4
  <2>6. QED
    BY <1>2, <2>5 DEF CarriesInv
<1>6. CASE LoadTakes(i)
  <2>1. calls[i].op = "load" /\ map' = Nothing /\ ~Transport(calls[i])
    BY <1>6 DEF LoadTakes, Transport
  <2>2. PICK x : calls' = [calls EXCEPT ![i].stage = "held", ![i].pipe = x]
    BY <1>6 DEF LoadTakes
  <2>3. Carries(calls', map', backend.load)
    BY <1>3, <2>1, <2>2
  <2>4. QED
    BY <1>2, <2>3 DEF CarriesInv
<1>7. CASE LoadPutsBack(i)
  <2>1. /\ calls[i].op = "load" /\ calls[i].load = backend.load
        /\ calls' = [calls EXCEPT ![i].stage = "done", ![i].pipe = Nothing]
    BY <1>1, <1>7 DEF LoadPutsBack, Carries
  <2>2. PICK ok \in BOOLEAN : map' = [load |-> calls[i].load, ok |-> ok, playing |-> FALSE]
    BY <1>7 DEF LoadPutsBack
  <2>3. calls[i].load \in Loads
    <3>1. 1..MaxLoads \subseteq Loads /\ 0 \in Loads
      BY BoundsAssumption DEF Loads
    <3>2. QED
      BY <1>1, <3>1 DEF Calls, Call, LoadCall
  <2>4. map' \in Pipe /\ map'.load = backend.load
    BY <2>1, <2>2, <2>3 DEF Pipe
  <2>5. map' # Nothing
    BY <2>4, NothingAssumption
  <2>6. Carries(calls', map', backend.load)
    <3>1. PICK st \in {"done"}, x \in {Nothing} : calls' = [calls EXCEPT ![i].stage = st, ![i].pipe = x]
      BY <2>1
    <3>2. QED
      BY <1>3, <2>4, <2>5, <3>1
  <2>7. QED
    BY <1>2, <2>6 DEF CarriesInv
<1>8. QED
  BY <1>4, <1>5, <1>6, <1>7

\* An answered command leaves the queue.
LEMMA AnsweredCarries ==
    ASSUME OrderedInv, CarriesInv, NEW i \in DOMAIN calls, Answered(i)
    PROVE  CarriesInv'
<1>1. /\ calls \in Seq(Calls) /\ i \in 1..Len(calls) /\ Len(calls) \in Nat
      /\ Carries(calls, map, backend.load) /\ calls[i].stage \in {"done", "failed"}
  BY DEF OrderedInv, Typed, TypeOK, Calls, CarriesInv, Answered
<1>2. calls' = RemoveAt(calls, i) /\ UNCHANGED <<backend, map>>
  BY DEF Answered
<1> DEFINE K(j) == IF j < i THEN j ELSE j + 1
<1>3. /\ Len(calls') = Len(calls) - 1
      /\ \A j \in 1..Len(calls') : calls'[j] = calls[K(j)]
  BY <1>1, <1>2, RemoveAtIs
<1>4. \A j \in 1..Len(calls') : K(j) \in 1..Len(calls)
  BY <1>1, <1>3
<1>5. \A k \in 1..Len(calls) : k # i => \E j \in 1..Len(calls') : K(j) = k
  <2> SUFFICES ASSUME NEW k \in 1..Len(calls), k # i PROVE \E j \in 1..Len(calls') : K(j) = k
    OBVIOUS
  <2>1. CASE k < i
    <3>1. k \in 1..Len(calls') /\ K(k) = k
      BY <1>1, <1>3, <2>1
    <3>2. QED
      BY <3>1
  <2>2. CASE k > i
    <3>1. k - 1 \in 1..Len(calls') /\ K(k - 1) = k
      BY <1>1, <1>3, <2>2
    <3>2. QED
      BY <3>1
  <2>3. QED
    BY <1>1, <2>1, <2>2
<1> HIDE DEF K
<1>6. backend.load # 0 /\ There(calls, map)
  BY <1>1 DEF Carries
<1>7. There(calls', map)
  BY <1>1, <1>3, <1>5, <1>6 DEF There
<1>8. Carries(calls', map, backend.load)
  BY <1>1, <1>3, <1>4, <1>6, <1>7 DEF Carries
<1>9. QED
  BY <1>2, <1>6, <1>8 DEF CarriesInv

\* A sync sets another source up, cancels or issues a command.
LEMMA SyncCarries ==
    ASSUME OrderedInv, CarriesInv, Sync
    PROVE  CarriesInv'
<1>1. /\ calls \in Seq(Calls) /\ Carries(calls, map, backend.load) /\ source' = source
      /\ source \in Loads /\ playing \in BOOLEAN
  BY DEF OrderedInv, Typed, TypeOK, Calls, Sync, CarriesInv
<1>2. CASE Fresh \/ Gone
  <2>1. calls = << >>
    BY <1>2 DEF OrderedInv, Changes, Fresh, Gone
  <2>2. map' = Nothing /\ sent' = "unset" /\ chain' = Nothing /\ backend'.load = source
    <3>1. /\ map' = Nothing /\ sent' = "unset" /\ chain' = Nothing
          /\ \E p : backend' = [load |-> source, pending |-> p]
      BY <1>2, Zenon DEF Sync
    <3>2. QED
      BY <3>1
  <2>3. Cancelled(calls) \in Seq(Calls) /\ Len(Cancelled(calls)) = 0
    <3>1. Len(calls) = 0
      BY <2>1
    <3>2. QED
      BY <1>1, <3>1, CancelledIs
  <2>4. CASE source = 0
    <3>1. calls' = Cancelled(calls)
      BY <1>2, <2>4 DEF Sync
    <3>2. Carries(calls', Nothing, 0)
      <4>1. Len(calls') = 0
        BY <2>3, <3>1
      <4>2. 1..Len(calls') = {}
        BY <4>1
      <4>3. QED
        BY <4>1, <4>2 DEF Carries
    <3>3. QED
      BY <2>2, <2>4, <3>2 DEF CarriesInv
  <2>5. CASE source # 0
    <3> DEFINE e == Issued("load", FALSE, source)
    <3>1. e \in Calls /\ e.stage = "issued" /\ e.op = "load" /\ e.load = source
      BY <1>1, <2>5, IssuedType DEF Issued
    <3>2. calls' = Append(Cancelled(calls), e)
      BY <1>2, <2>5 DEF Sync, Gone
    <3> HIDE DEF e
    <3>3. Len(calls') = 1 /\ calls'[1] = e
      BY <2>3, <3>1, <3>2, AppendIs
    <3>4. Carries(calls', Nothing, source)
      <4>1. 1..Len(calls') = {1}
        BY <3>3
      <4>2. QED
        BY <2>5, <3>1, <3>3, <4>1 DEF Carries, There, Transport
    <3>5. QED
      BY <2>2, <2>5, <3>4 DEF CarriesInv
  <2>6. QED
    BY <2>4, <2>5
<1>3. CASE ~(Fresh \/ Gone)
  <2>1. UNCHANGED <<backend, map, sent>>
    BY <1>3 DEF Sync
  <2>2. CASE UNCHANGED <<chain, calls>>
    BY <2>1, <2>2 DEF CarriesInv
  <2>3. CASE ~UNCHANGED <<chain, calls>>
    <3>1. source # 0 /\ Reconcile
      BY <1>3, <2>3 DEF Sync
    <3>2. backend.load # 0
      BY <1>3, <3>1 DEF Fresh
    <3> DEFINE e == Issued(Op(playing), TRUE, 0)
    <3>3. e \in Calls /\ e.stage = "issued" /\ e.op # "load"
      BY <1>1, IssuedType DEF Issued
    <3>4. calls' = Append(Cancelled(calls), e)
      BY <2>3, <3>1 DEF Reconcile
    <3> HIDE DEF e
    <3>5. Cancelled(calls) \in Seq(Calls)
      BY <1>1, CancelledIs
    <3>6. Carries(Cancelled(calls), map, backend.load)
      BY <1>1, CancelledCarries
    <3>7. Carries(calls', map, backend.load)
      BY <3>2, <3>3, <3>4, <3>5, <3>6, AppendedCarries
    <3>8. QED
      BY <2>1, <3>2, <3>7 DEF CarriesInv
  <2>4. QED
    BY <2>2, <2>3
<1>4. QED
  BY <1>2, <1>3

\* Every step keeps the pipelines those of the source.
LEMMA NextCarries ==
    ASSUME "hasty" \notin Events
    PROVE  OrderedInv /\ CarriesInv /\ [Next]_vars => CarriesInv'
<1> SUFFICES ASSUME OrderedInv, CarriesInv, [Next]_vars PROVE CarriesInv'
  OBVIOUS
<1>1. CASE UNCHANGED vars \/ Dj \/ Churn \/ BackendSettles
  <2>1. UNCHANGED <<chain, calls, map, sent>>
    BY <1>1 DEF Dj, Load, RemoveDeck, PlayPause, Churn, BackendSettles, vars
  <2>2. backend'.load = backend.load
    BY <1>1 DEF Dj, Load, RemoveDeck, PlayPause, Churn, BackendSettles, vars, OrderedInv, Typed, TypeOK
  <2>3. QED
    BY <2>1, <2>2 DEF CarriesInv
<1>2. CASE RetryFires
  <2>1. calls \in Seq(Calls) /\ chain \in ChainRec
    BY <1>2 DEF OrderedInv, Typed, TypeOK, Calls, RetryFires
  <2> DEFINE e == Issued(chain.op, TRUE, 0)
  <2>2. e \in Calls /\ e.stage = "issued" /\ e.op # "load"
    BY <2>1, IssuedType DEF ChainRec, Issued
  <2>3. calls' = Append(calls, e) /\ chain # Nothing /\ UNCHANGED <<backend, map, sent>>
    BY <1>2 DEF RetryFires, jsVars
  <2> HIDE DEF e
  <2>4. backend.load # 0 /\ Carries(calls, map, backend.load)
    BY <2>3 DEF CarriesInv
  <2>5. Carries(calls', map, backend.load)
    BY <2>1, <2>2, <2>3, <2>4, AppendedCarries
  <2>6. QED
    BY <2>3, <2>4, <2>5 DEF CarriesInv
<1>3. QED
  BY <1>1, <1>2, SyncCarries, CommandsCarry, AnsweredCarries DEF Next, Automatic, Works

\* Both invariants hold of every reachable state.
LEMMA AlwaysOrdered ==
    ASSUME "hasty" \notin Events, "reorder" \notin Events
    PROVE  Spec => [](OrderedInv /\ CarriesInv)
<1>1. Init => CarriesInv
  <2> SUFFICES ASSUME Init PROVE CarriesInv
    OBVIOUS
  <2>1. Len(calls) = 0 /\ map = Nothing /\ backend.load = 0 /\ sent = "unset" /\ chain = Nothing
    BY DEF Init
  <2>2. 1..Len(calls) = {}
    BY <2>1
  <2>3. QED
    BY <2>1, <2>2 DEF CarriesInv, Carries
<1>2. QED
  BY <1>1, InitOrdered, NextOrdered, NextCarries, PTL DEF Spec

\* When nothing is under way the pipeline is there, holds the source that was set up, and
\* does what the frontend believes it told it last (audioPlay, audioPause).
THEOREM SentIsTrueHolds ==
    ASSUME "hasty" \notin Events, "reorder" \notin Events PROVE Spec => []SentIsTrue
<1>1. OrderedInv /\ CarriesInv => SentIsTrue
  <2> SUFFICES ASSUME OrderedInv, CarriesInv, calls = << >>, sent # "unset"
               PROVE  map # Nothing /\ map.load = backend.load /\ map.playing = (sent = "play")
    BY DEF SentIsTrue
  <2>1. 1..Len(calls) = {}
    OBVIOUS
  <2>2. map # Nothing /\ map.load = backend.load
    BY <2>1 DEF CarriesInv, Carries, There
  <2>3. map.playing <=> sent = "play"
    BY <2>1, <2>2 DEF OrderedInv, Ordered, Obeys, LiveDone
  <2>4. map.playing \in BOOLEAN
    BY <2>2 DEF OrderedInv, Typed, TypeOK, Pipe
  <2>5. QED
    BY <2>2, <2>3, <2>4
<1>2. QED
  BY <1>1, AlwaysOrdered, PTL

\* A sync leaves the deck as it is (videoEngine.ts:299-360): nothing is under way, the source
\* is the one that was set up, and lastAudioPlaying is what the deck should do.
AtRest ==
    /\ calls = << >> /\ chain = Nothing /\ ~Fresh /\ ~Gone /\ ~backend.pending
    /\ source # 0 => sent = Op(playing)

\* A deck that a sync leaves as it is agrees with its pipeline: what syncVideoElements goes
\* by, the source it set up and lastAudioPlaying, is enough to find out that it must act.
\* With BusyConverges, which TLC checks, this is that the syncs come to an end.
THEOREM RestsInAgreement ==
    ASSUME "hasty" \notin Events, "reorder" \notin Events PROVE Spec => [](AtRest => Agrees)
<1>1. TypeOK /\ SentIsTrue /\ CarriesInv => (AtRest => Agrees)
  <2> SUFFICES ASSUME TypeOK, SentIsTrue, CarriesInv, AtRest PROVE Agrees
    OBVIOUS
  <2>1. backend.load = source
    BY DEF AtRest, Fresh, Gone
  <2>2. CASE source = 0
    BY <2>1, <2>2 DEF CarriesInv, Carries, Agrees
  <2>3. CASE source # 0
    <3>1. calls = << >> /\ sent = Op(playing) /\ playing \in BOOLEAN
      BY <2>3 DEF AtRest, TypeOK
    <3>2. sent # "unset" /\ (sent = "play") = playing
      BY <3>1 DEF Op
    <3>3. map # Nothing /\ map.load = source /\ map.playing = playing
      BY <2>1, <3>1, <3>2 DEF SentIsTrue
    <3> QED BY <2>3, <3>3 DEF Agrees
  <2>4. QED
    BY <2>2, <2>3
<1>2. QED
  BY <1>1, TypeCorrect, SentIsTrueHolds, AlwaysOrdered, PTL
=============================================================================
