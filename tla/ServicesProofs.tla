---------------------------- MODULE ServicesProofs ----------------------------
(***************************************************************************)
(* Proofs about the services that share no state with one another, and what *)
(* they come to for the program in which each of them may run.              *)
(***************************************************************************)
EXTENDS MCServices, DeckProofs, PageProofs, TLAPS

----------------------------------------------------------------------------
(* The speaker groups of a Snapcast server with one target on it, which     *)
(* others leave alone while a command is under way.                         *)

OneTarget == \A t, u \in Targets : t = u

\* What is kept for a group is what it is to come back to.
Recalls(r, g) == IF g \in lost THEN r[g] \in {Meta, NoOne} ELSE r[g] = wish[g]

\* A group that is not on ours is where others put it; one that is on ours may be lost.
Theirs == \A g \in Groups : on[g] \notin Targets => g \notin lost /\ on[g] = wish[g]
Left == \A g \in Groups : on[g] \in Targets => g \in lost

\* Nothing is left to do.
AtEase ==
    /\ main = {} => Left
    /\ \A t \in main, g \in Groups : on[g] = t =>
         IF claims[t] = NoOne THEN g \in lost ELSE Recalls(claims[t], g)

\* A release is to begin, and then under way: its groups know where they belong.
ToRelease ==
    /\ call.stage = "next" /\ call.claim = {} /\ main = {}
    /\ \A r \in call.release, g \in Groups : on[g] \in Targets => Recalls(r[2], g)
    /\ \A r, s \in call.release : r = s
Releasing ==
    /\ call.stage = "release" /\ call.release = {} /\ call.claim = {} /\ main = {}
    /\ \A g \in Groups : on[g] \in Targets => g \in lost \cup call.todo
    /\ \A g \in call.todo : /\ on[g] \in Targets /\ Recalls(call.restore, g)
                            /\ call.restore[g] \in Streams

\* A claim is to begin, and then under way.
ToClaim == call.stage = "next" /\ call.release = {} /\ main # {} /\ Left
Claiming ==
    /\ call.stage = "claim" /\ call.release = {} /\ call.claim = {} /\ main # {}
    /\ \A g \in Groups : on[g] # NoOne => Recalls(call.restore, g)

Working ==
    /\ IF call.stage = "next" THEN call.todo = {} ELSE call.target \in Targets
    /\ \/ call.stage = "next" /\ call.release = {} /\ call.claim = {} /\ AtEase
       \/ call.release # {} /\ ToRelease
       \/ Releasing
       \/ /\ (call.claim # {} /\ ToClaim) \/ Claiming
          /\ \A t \in Targets : claims[t] = NoOne

SnapInv ==
    /\ SnapTypeOK
    /\ \A t \in Targets \ main : claims[t] = NoOne
    /\ Theirs
    /\ IF call = NoOne THEN AtEase ELSE Working

\* What others do when no command is under way keeps what is known of the groups.
LEMMA OthersKeep ==
  ASSUME SnapInv, call = NoOne, call' = call, main' = main, claims' = claims,
         SnapTypeOK',
         \A g \in Groups : \/ on'[g] = on[g] /\ wish'[g] = wish[g] /\ (g \in lost' <=> g \in lost)
                           \/ on'[g] \notin Targets /\ on'[g] = wish'[g] /\ g \notin lost'
  PROVE  SnapInv'
  <1>1. AtEase /\ Theirs
    BY DEF SnapInv
  <1>2. Theirs'
    BY <1>1 DEF Theirs
  <1>3. AtEase'
    <2>1. main' = {} => Left'
      BY <1>1 DEF AtEase, Left
    <2>2. ASSUME NEW t \in main', NEW g \in Groups, on'[g] = t
          PROVE  IF claims'[t] = NoOne THEN g \in lost' ELSE Recalls(claims[t], g)'
      <3>1. t \in Targets
        BY <2>2 DEF SnapInv, SnapTypeOK
      <3>2. on'[g] = on[g] /\ wish'[g] = wish[g] /\ (g \in lost' <=> g \in lost)
        BY <2>2, <3>1
      <3> QED BY <1>1, <2>2, <3>2 DEF AtEase, Recalls
    <2> QED BY <2>1, <2>2 DEF AtEase
  <1> QED BY <1>2, <1>3 DEF SnapInv

\* A list of targets is compared with the one there is: the only target enters or leaves.
LEMMA SetTargetsKeeps ==
  ASSUME OneTarget, SnapInv, NEW list \in SUBSET Targets, SetTargets(list)
  PROVE  SnapInv'
  <1>0. SnapTypeOK /\ main \in SUBSET Targets /\ call = NoOne /\ AtEase
    BY DEF SnapInv, SetTargets, SnapTypeOK
  <1> DEFINE release == {<<t, claims[t]>> : t \in {u \in main \ list : claims[u] # NoOne}}
             new == [release |-> release, claim |-> list \ main, stage |-> "next",
                     target |-> NoOne, todo |-> {}, restore |-> Nobody]
  <1>1. /\ main' = list /\ call' = new
        /\ claims' = [t \in Targets |-> IF t \in list THEN claims[t] ELSE NoOne]
        /\ on' = on /\ streams' = streams /\ wish' = wish /\ lost' = lost
    BY DEF SetTargets
  <1>2. release \in SUBSET (Targets \X Saved)
    BY <1>0 DEF SnapTypeOK
  <1>3. Nobody \in Saved
    BY DEF Nobody, Saved
  <1>4. new \in CallRec
    BY <1>0, <1>2, <1>3 DEF CallRec
  <1>5. SnapTypeOK'
    BY <1>0, <1>1, <1>4 DEF SnapTypeOK
  <1>6. call' # NoOne
    BY <1>1, <1>4, NoCallAssumption
  <1>7. Theirs'
    BY <1>1 DEF SnapInv, Theirs
  <1>8. /\ call'.stage = "next" /\ call'.todo = {} /\ call'.claim = list \ main
        /\ call'.release = release
    BY <1>1
  <1>9. Working'
    <2>1. CASE list = {}
      <3>1. main # {} /\ main' = {} /\ call'.claim = {}
        BY <1>1, <1>8, <2>1 DEF SetTargets
      <3>2. PICK t \in main : TRUE
        BY <3>1
      <3>3. t \in Targets /\ \A u \in Targets : u = t
        BY <1>0, <3>2 DEF OneTarget
      <3>4. CASE claims[t] = NoOne
        <4>1. release = {}
          BY <1>0, <3>3, <3>4
        <4>2. Left'
          BY <1>0, <1>1, <3>2, <3>3, <3>4 DEF AtEase, Left
        <4> QED BY <1>1, <1>8, <2>1, <3>1, <4>1, <4>2 DEF Working, AtEase
      <3>5. CASE claims[t] # NoOne
        <4>1. \A r \in release : r = <<t, claims[t]>>
          BY <1>0, <3>3
        <4>2. <<t, claims[t]>> \in release
          BY <2>1, <3>2, <3>5
        <4>3. \A g \in Groups : on[g] \in Targets => Recalls(claims[t], g)
          BY <1>0, <3>2, <3>3, <3>5 DEF AtEase
        <4>4. \A r \in release, g \in Groups : on'[g] \in Targets => Recalls(r[2], g)'
          BY <1>1, <4>1, <4>3 DEF Recalls
        <4> QED BY <1>8, <3>1, <4>1, <4>2, <4>4 DEF Working, ToRelease
      <3> QED BY <3>4, <3>5
    <2>2. CASE list # {}
      <3>1. main = {}
        BY <1>0, <2>2 DEF OneTarget, SetTargets
      <3>2. release = {} /\ call'.claim # {} /\ main' # {}
        BY <1>1, <1>8, <2>2, <3>1
      <3>3. \A t \in Targets : claims'[t] = NoOne
        BY <1>1, <3>1 DEF SnapInv
      <3>4. Left'
        BY <1>0, <1>1, <3>1 DEF AtEase, Left
      <3> QED BY <1>8, <3>2, <3>3, <3>4 DEF Working, ToClaim
    <2> QED BY <2>1, <2>2
  <1>10. \A t \in Targets \ main' : claims'[t] = NoOne
    BY <1>1
  <1> QED BY <1>5, <1>6, <1>7, <1>9, <1>10 DEF SnapInv

\* A crash forgets the claims; the groups it leaves on ours are lost.
LEMMA CrashKeeps ==
  ASSUME SnapInv, Crash
  PROVE  SnapInv'
  <1>1. SnapTypeOK'
    BY DEF SnapInv, SnapTypeOK, Crash
  <1>2. Theirs'
    BY DEF SnapInv, Theirs, Crash
  <1>3. AtEase'
    BY DEF AtEase, Left, Crash
  <1> QED BY <1>1, <1>2, <1>3 DEF SnapInv, Crash

\* A release asks the server where the groups are.
LEMMA LearnKeeps ==
  ASSUME OneTarget, SnapInv, Learn
  PROVE  SnapInv'
  <1>1. PICK r \in call.release :
          LET kept == {g \in OnStream(r[1]) : r[2][g] # NoOne /\ Exists(r[2][g])} IN
          /\ call' = [call EXCEPT !.release = @ \ {r}, !.stage = "release",
                                  !.target = r[1], !.restore = r[2], !.todo = kept]
          /\ lost' = lost \cup (OnStream(r[1]) \ kept)
    BY DEF Learn
  <1> DEFINE kept == {g \in OnStream(r[1]) : r[2][g] # NoOne /\ Exists(r[2][g])}
  <1>2. /\ call # NoOne /\ call \in CallRec /\ Working /\ ToRelease /\ SnapTypeOK
        /\ main' = main /\ claims' = claims /\ on' = on /\ streams' = streams /\ wish' = wish
    BY DEF Learn, SnapInv, Working, Releasing, ToClaim, Claiming, SnapTypeOK
  <1>3. r[1] \in Targets /\ r[2] \in Saved
    BY <1>1, <1>2 DEF CallRec
  <1>4. kept \subseteq Groups /\ call.release \ {r} = {}
    BY <1>1, <1>2 DEF OnStream, ToRelease
  <1>5. /\ call' \in CallRec /\ call'.release = {} /\ call'.stage = "release"
        /\ call'.target = r[1] /\ call'.restore = r[2] /\ call'.todo = kept
        /\ call'.claim = call.claim
    BY <1>1, <1>2, <1>3, <1>4 DEF CallRec
  <1>6. lost' = lost \cup (OnStream(r[1]) \ kept) /\ lost' \in SUBSET Groups
    BY <1>1, <1>2 DEF SnapTypeOK, OnStream
  <1>7. SnapTypeOK'
    BY <1>2, <1>5, <1>6 DEF SnapTypeOK
  <1>8. \A g \in Groups : on[g] \in Targets => on[g] = r[1]
    BY <1>3 DEF OneTarget
  <1>9. Theirs'
    BY <1>2, <1>3, <1>6 DEF SnapInv, Theirs, OnStream
  <1>10. Releasing'
    <2>1. \A g \in Groups : on'[g] \in Targets => g \in lost' \cup call'.todo
      BY <1>2, <1>5, <1>6, <1>8 DEF OnStream
    <2>2. ASSUME NEW g \in kept
          PROVE  on'[g] \in Targets /\ Recalls(call.restore, g)' /\ call'.restore[g] \in Streams
      <3>1. g \in Groups /\ on[g] = r[1] /\ r[2][g] # NoOne
        BY <2>2 DEF OnStream
      <3>2. Recalls(r[2], g)
        BY <1>1, <1>2, <1>3, <3>1 DEF ToRelease
      <3>3. g \in lost' <=> g \in lost
        BY <1>6, <2>2
      <3>4. wish[g] \in Streams \cup {NoOne}
        BY <1>2, <3>1 DEF SnapTypeOK
      <3>5. r[2][g] \in Streams
        BY <3>1, <3>2, <3>4, StreamsAssumption DEF Recalls
      <3> QED BY <1>2, <1>3, <1>5, <3>1, <3>2, <3>3, <3>5 DEF Recalls
    <2> QED BY <1>2, <1>5, <2>1, <2>2 DEF Releasing, ToRelease
  <1>11. Working'
    BY <1>3, <1>5, <1>10 DEF Working
  <1>12. call' # NoOne
    BY <1>5, NoCallAssumption
  <1> QED BY <1>2, <1>7, <1>9, <1>11, <1>12 DEF SnapInv

\* A claim asks the server where the groups are.
LEMMA SurveyKeeps ==
  ASSUME OneTarget, SnapInv, Survey
  PROVE  SnapInv'
  <1>1. PICK t \in call.claim :
          LET restore == [g \in Groups |-> IF on[g] = NoOne THEN NoOne ELSE RestoreTo(g, t)] IN
          call' = [call EXCEPT !.claim = @ \ {t}, !.stage = "claim", !.target = t,
                               !.restore = restore,
                               !.todo = {g \in Groups : restore[g] # NoOne}]
    BY DEF Survey
  <1> DEFINE restore == [g \in Groups |-> IF on[g] = NoOne THEN NoOne ELSE RestoreTo(g, t)]
  <1>2. /\ call # NoOne /\ call \in CallRec /\ ToClaim /\ SnapTypeOK
        /\ \A u \in Targets : claims[u] = NoOne
        /\ main' = main /\ claims' = claims /\ on' = on /\ streams' = streams
        /\ wish' = wish /\ lost' = lost
    BY DEF Survey, SnapInv, Working, Releasing, Claiming, SnapTypeOK
  <1>3. t \in Targets /\ call.claim \ {t} = {}
    BY <1>1, <1>2 DEF CallRec, OneTarget
  <1>4. restore \in Saved
    BY <1>2, StreamsAssumption DEF Saved, RestoreTo, SnapTypeOK, AllStreams
  <1>5. /\ call' \in CallRec /\ call'.release = {} /\ call'.stage = "claim"
        /\ call'.target = t /\ call'.restore = restore /\ call'.claim = {}
    <2> HIDE DEF restore
    <2> DEFINE todo == {g \in Groups : restore[g] # NoOne}
    <2>1. todo \in SUBSET Groups
      OBVIOUS
    <2> HIDE DEF todo
    <2>2. call' = [call EXCEPT !.claim = @ \ {t}, !.stage = "claim", !.target = t,
                               !.restore = restore, !.todo = todo]
      BY <1>1 DEF restore, todo
    <2> QED BY <1>2, <1>3, <1>4, <2>1, <2>2 DEF CallRec, ToClaim
  <1>6. SnapTypeOK'
    BY <1>2, <1>5 DEF SnapTypeOK
  <1>7. \A g \in Groups : on'[g] # NoOne => Recalls(call.restore, g)'
    <2> SUFFICES ASSUME NEW g \in Groups, on[g] # NoOne
                 PROVE  Recalls(call.restore, g)'
      BY <1>2
    <2>1. call'.restore[g] = RestoreTo(g, t)
      BY <1>5
    <2>2. CASE on[g] = t
      BY <1>2, <1>3, <2>1, <2>2 DEF ToClaim, Left, RestoreTo, Recalls
    <2>3. CASE on[g] # t
      <3>1. on[g] \notin Targets
        BY <1>3, <2>3 DEF OneTarget
      <3> QED BY <1>2, <2>1, <2>3, <3>1 DEF SnapInv, Theirs, RestoreTo, Recalls
    <2> QED BY <2>2, <2>3
  <1>8. Working'
    <2>1. Claiming'
      BY <1>2, <1>5, <1>7 DEF Claiming, ToClaim
    <2> QED BY <1>2, <1>3, <1>5, <2>1 DEF Working
  <1>9. call' # NoOne
    BY <1>5, NoCallAssumption
  <1> QED BY <1>2, <1>6, <1>8, <1>9 DEF SnapInv, Theirs

\* A claim or a release switches one group.
LEMMA SwitchKeeps ==
  ASSUME OneTarget, SnapInv, Switch
  PROVE  SnapInv'
  <1>1. PICK g \in call.todo :
         /\ on[g] # NoOne
         /\ call' = [call EXCEPT !.todo = @ \ {g}]
         /\ IF call.stage = "claim"
            THEN on' = [on EXCEPT ![g] = call.target] /\ UNCHANGED <<wish, lost>>
            ELSE /\ on' = [on EXCEPT ![g] = call.restore[g]]
                 /\ wish' = IF g \in lost THEN [wish EXCEPT ![g] = call.restore[g]] ELSE wish
                 /\ lost' = lost \ {g}
    BY DEF Switch
  <1>2. /\ call # NoOne /\ call \in CallRec /\ Working /\ SnapTypeOK /\ Theirs
        /\ main' = main /\ claims' = claims /\ streams' = streams
    BY DEF Switch, SnapInv, SnapTypeOK
  <1>3. /\ g \in Groups /\ call.stage # "next" /\ call.target \in Targets
    BY <1>1, <1>2 DEF CallRec, Working
  <1>4. /\ call' \in CallRec /\ call'.release = call.release /\ call'.stage = call.stage
        /\ call'.target = call.target /\ call'.restore = call.restore
        /\ call'.claim = call.claim /\ call'.todo = call.todo \ {g}
    BY <1>1, <1>2 DEF CallRec
  <1>5. call' # NoOne
    BY <1>4, NoCallAssumption
  <1>6. CASE call.stage = "claim"
    <2>1. on' = [on EXCEPT ![g] = call.target] /\ wish' = wish /\ lost' = lost
      BY <1>1, <1>6
    <2>2. on'[g] = call.target /\ \A h \in Groups \ {g} : on'[h] = on[h]
      BY <1>2, <1>3, <2>1 DEF SnapTypeOK
    <2>3. SnapTypeOK'
      BY <1>2, <1>3, <1>4, <2>1 DEF SnapTypeOK, AllStreams
    <2>4. Claiming /\ \A t \in Targets : claims[t] = NoOne
      BY <1>2, <1>6 DEF Working, ToRelease, Releasing, ToClaim
    <2>5. Theirs'
      BY <1>2, <1>3, <2>1, <2>2 DEF Theirs
    <2>6. \A h \in Groups : on'[h] # NoOne => Recalls(call.restore, h)'
      BY <1>1, <1>4, <2>1, <2>2, <2>4 DEF Claiming, Recalls
    <2>7. Claiming'
      BY <1>2, <1>4, <2>4, <2>6 DEF Claiming
    <2>8. Working'
      BY <1>2, <1>3, <1>4, <2>4, <2>7 DEF Working
    <2> QED BY <1>2, <1>5, <2>3, <2>5, <2>8 DEF SnapInv
  <1>7. CASE call.stage = "release"
    <2>1. /\ on' = [on EXCEPT ![g] = call.restore[g]]
          /\ wish' = IF g \in lost THEN [wish EXCEPT ![g] = call.restore[g]] ELSE wish
          /\ lost' = lost \ {g}
      BY <1>1, <1>7
    <2>2. Releasing
      BY <1>2, <1>7 DEF Working, ToRelease, ToClaim, Claiming
    <2>3. /\ on[g] \in Targets /\ Recalls(call.restore, g) /\ call.restore[g] \in Streams
      BY <2>2 DEF Releasing
    <2>4. /\ on'[g] = call.restore[g] /\ wish'[g] = call.restore[g] /\ g \notin lost'
          /\ \A h \in Groups \ {g} : /\ on'[h] = on[h] /\ wish'[h] = wish[h]
                                     /\ h \in lost' <=> h \in lost
      BY <1>2, <1>3, <2>1, <2>3 DEF SnapTypeOK, Recalls
    <2>5. SnapTypeOK'
      BY <1>2, <1>3, <1>4, <2>1, <2>3 DEF SnapTypeOK, AllStreams
    <2>6. Theirs'
      BY <1>2, <1>3, <2>4 DEF Theirs
    <2>7. Releasing'
      <3>1. \A h \in Groups : on'[h] \in Targets => h \in lost' \cup call'.todo
        BY <1>4, <2>2, <2>3, <2>4, StreamsAssumption DEF Releasing
      <3>2. \A h \in call'.todo : /\ on'[h] \in Targets /\ Recalls(call.restore, h)'
                                  /\ call'.restore[h] \in Streams
        <4> SUFFICES ASSUME NEW h \in call'.todo
                     PROVE  /\ on'[h] \in Targets /\ Recalls(call.restore, h)'
                            /\ call'.restore[h] \in Streams
          OBVIOUS
        <4>1. h \in call.todo /\ h # g /\ h \in Groups
          BY <1>2, <1>4 DEF CallRec
        <4> QED BY <1>4, <2>2, <2>4, <4>1 DEF Releasing, Recalls
      <3> QED BY <1>2, <1>4, <2>2, <3>1, <3>2 DEF Releasing
    <2>8. Working'
      BY <1>3, <1>4, <2>7 DEF Working
    <2> QED BY <1>2, <1>5, <2>5, <2>6, <2>8 DEF SnapInv
  <1> QED BY <1>2, <1>3, <1>6, <1>7 DEF CallRec

\* A claim or a release that fails leaves what is on ours, lost.
LEMMA RpcFailsKeeps ==
  ASSUME OneTarget, SnapInv, RpcFails
  PROVE  SnapInv'
  <1>1. /\ call # NoOne /\ call \in CallRec /\ Working /\ SnapTypeOK /\ Theirs
        /\ main' = main /\ claims' = claims /\ on' = on /\ streams' = streams /\ wish' = wish
        /\ lost' = lost \cup OnStream(call.target)
        /\ call.stage # "next" /\ call' = [call EXCEPT !.stage = "next", !.todo = {}]
    BY DEF RpcFails, SnapInv, SnapTypeOK
  <1>2. /\ call.target \in Targets /\ call.release = {} /\ call.claim = {}
        /\ main # {} => \A t \in Targets : claims[t] = NoOne
    BY <1>1 DEF Working, ToRelease, Releasing, ToClaim, Claiming
  <1>3. /\ call' \in CallRec /\ call'.release = {} /\ call'.claim = {}
        /\ call'.stage = "next" /\ call'.todo = {}
    BY <1>1, <1>2 DEF CallRec
  <1>4. SnapTypeOK'
    BY <1>1, <1>3 DEF SnapTypeOK, OnStream
  <1>5. Theirs'
    BY <1>1, <1>2 DEF Theirs, OnStream
  <1>6. \A g \in Groups : on'[g] \in Targets => g \in lost'
    BY <1>1, <1>2 DEF OneTarget, OnStream
  <1>7. AtEase'
    BY <1>1, <1>2, <1>6 DEF AtEase, Left, SnapTypeOK
  <1>8. Working'
    BY <1>3, <1>7 DEF Working
  <1>9. call' # NoOne
    BY <1>3, NoCallAssumption
  <1> QED BY <1>1, <1>4, <1>5, <1>8, <1>9 DEF SnapInv

\* A claim that is over is kept; a release that is over has left nothing of ours but
\* what is lost.
LEMMA SettleKeeps ==
  ASSUME OneTarget, SnapInv, Settle
  PROVE  SnapInv'
  <1>1. /\ call # NoOne /\ call \in CallRec /\ Working /\ SnapTypeOK /\ Theirs
        /\ main' = main /\ on' = on /\ streams' = streams /\ wish' = wish /\ lost' = lost
        /\ call.todo = {} /\ call.stage # "next" /\ call' = [call EXCEPT !.stage = "next"]
        /\ claims' = IF call.stage = "claim" THEN [claims EXCEPT ![call.target] = call.restore]
                     ELSE claims
    BY DEF Settle, SnapInv, SnapTypeOK
  <1>2. /\ call.target \in Targets /\ call.release = {} /\ call.claim = {}
        /\ Releasing \/ Claiming
    BY <1>1 DEF Working, ToRelease, Releasing, ToClaim, Claiming
  <1>3. /\ call' \in CallRec /\ call'.release = {} /\ call'.claim = {}
        /\ call'.stage = "next" /\ call'.todo = {} /\ call.restore \in Saved
    BY <1>1, <1>2 DEF CallRec
  <1>4. SnapTypeOK'
    BY <1>1, <1>2, <1>3 DEF SnapTypeOK
  <1>5. Theirs'
    BY <1>1 DEF Theirs
  <1>6. call' # NoOne
    BY <1>3, NoCallAssumption
  <1>7. CASE Releasing
    <2>1. main' = {} /\ claims' = claims /\ Left'
      BY <1>1, <1>7 DEF Releasing, Left
    <2>2. AtEase'
      BY <2>1 DEF AtEase
    <2>3. Working'
      BY <1>3, <2>2 DEF Working
    <2> QED BY <1>1, <1>4, <1>5, <1>6, <2>1, <2>3 DEF SnapInv
  <1>8. CASE Claiming
    <2>1. main' # {} /\ \A t \in Targets : t = call.target /\ t \in main'
      BY <1>1, <1>2, <1>8 DEF Claiming, OneTarget, SnapTypeOK
    <2>2. claims'[call.target] = call.restore /\ call.restore # NoOne
      BY <1>1, <1>2, <1>3, <1>8, NoCallAssumption DEF Claiming, SnapTypeOK
    <2>3. ASSUME NEW t \in main', NEW g \in Groups, on'[g] = t
          PROVE  claims'[t] # NoOne /\ Recalls(claims[t], g)'
      <3>1. t \in Targets
        BY <1>4, <2>3 DEF SnapTypeOK
      <3>2. t = call.target
        BY <2>1, <3>1
      <3>3. Recalls(call.restore, g)
        BY <1>1, <1>8, <2>3, <3>1, NoOneAssumption DEF Claiming
      <3> QED BY <1>1, <2>2, <3>2, <3>3 DEF Recalls
    <2>4. AtEase'
      BY <2>1, <2>3 DEF AtEase
    <2>5. Working'
      BY <1>3, <2>4 DEF Working
    <2> QED BY <1>1, <1>4, <1>5, <1>6, <2>1, <2>5 DEF SnapInv
  <1> QED BY <1>2, <1>7, <1>8

\* The end of the command.
LEMMA FinishKeeps ==
  ASSUME SnapInv, Finish
  PROVE  SnapInv'
  <1>1. call # NoOne /\ Working /\ AtEase
    BY DEF Finish, SnapInv, Working, ToRelease, Releasing, ToClaim, Claiming
  <1> QED BY <1>1 DEF SnapInv, SnapTypeOK, Finish, Theirs, AtEase, Left, Recalls

\* Others act between two commands.
LEMMA WorldKeeps ==
  ASSUME SnapInv, Rush = FALSE, NEW g \in Groups, NEW s \in Streams,
         GroupGoes(g) \/ MoveGroup(g, s) \/ GroupComes(g, s) \/ StreamGoes(s)
  PROVE  SnapInv'
  <1>1. /\ SnapTypeOK /\ call = NoOne
        /\ call' = call /\ main' = main /\ claims' = claims
    BY DEF SnapInv, GroupGoes, MoveGroup, GroupComes, StreamGoes, Undisturbed
  <1>2. s \notin Targets /\ NoOne \notin Targets
    BY StreamsAssumption, NoOneAssumption
  <1>3. CASE StreamGoes(s)
    <2>1. on' = on /\ wish' = wish /\ lost' = lost /\ streams' = streams \ {s}
      BY <1>3 DEF StreamGoes
    <2>2. SnapTypeOK'
      BY <1>1, <2>1 DEF SnapTypeOK
    <2> QED BY <1>1, <2>1, <2>2, OthersKeep
  <1>4. ASSUME NEW x \in Streams \cup {NoOne}, x \notin Targets,
               on' = [on EXCEPT ![g] = x], wish' = [wish EXCEPT ![g] = x],
               streams' = streams, g \notin lost', lost' \in SUBSET Groups,
               \A h \in Groups \ {g} : h \in lost' <=> h \in lost
        PROVE  SnapInv'
    <2>1. SnapTypeOK'
      BY <1>1, <1>4 DEF SnapTypeOK, AllStreams
    <2>2. \A h \in Groups :
            \/ on'[h] = on[h] /\ wish'[h] = wish[h] /\ (h \in lost' <=> h \in lost)
            \/ on'[h] \notin Targets /\ on'[h] = wish'[h] /\ h \notin lost'
      BY <1>1, <1>4 DEF SnapTypeOK
    <2> QED BY <1>1, <2>1, <2>2, OthersKeep
  <1>5. CASE GroupGoes(g)
    BY <1>1, <1>2, <1>4, <1>5 DEF GroupGoes, SnapTypeOK
  <1>6. CASE MoveGroup(g, s)
    BY <1>1, <1>2, <1>4, <1>6 DEF MoveGroup, SnapTypeOK
  <1>7. CASE GroupComes(g, s)
    <2>1. g \notin lost
      BY <1>1, <1>2, <1>7 DEF GroupComes, SnapInv, Theirs
    <2> QED BY <1>1, <1>2, <1>4, <1>7, <2>1 DEF GroupComes, SnapTypeOK
  <1> QED BY <1>3, <1>5, <1>6, <1>7

\* Every group comes back to the stream others gave it, but for those a crash, a failure
\* or a vanished stream has left on ours (GroupsComeBack: releasing and claiming, of a
\* server with one target that others leave alone while a command is under way).
THEOREM GroupsComeBackHolds ==
  ASSUME OneTarget, Rush = FALSE
  PROVE  SnapSpec => []GroupsComeBack
  <1>1. SnapInit => SnapInv
    <2> SUFFICES ASSUME SnapInit PROVE SnapInv
      OBVIOUS
    <2>1. streams \in SUBSET Streams /\ on \in [Groups -> Streams]
      BY DEF SnapInit
    <2>2. SnapTypeOK
      BY <2>1 DEF SnapInit, SnapTypeOK, AllStreams
    <2>3. \A g \in Groups : on[g] \notin Targets
      BY <2>1, StreamsAssumption
    <2> QED BY <2>2, <2>3 DEF SnapInit, SnapInv, Theirs, AtEase, Left
  <1>2. SnapInv /\ [SnapWorld \/ SnapRuns]_snapVars => SnapInv'
    <2> SUFFICES ASSUME SnapInv, [SnapWorld \/ SnapRuns]_snapVars PROVE SnapInv'
      OBVIOUS
    <2>1. CASE UNCHANGED snapVars
      BY <2>1 DEF snapVars, SnapInv, SnapTypeOK, Theirs, AtEase, Left, Recalls, Working,
                  ToRelease, Releasing, ToClaim, Claiming
    <2>2. ASSUME NEW list \in SUBSET Targets, SetTargets(list) PROVE SnapInv'
      BY <2>2, SetTargetsKeeps
    <2>3. CASE Crash
      BY <2>3, CrashKeeps
    <2>4. ASSUME NEW g \in Groups, GroupGoes(g) PROVE SnapInv'
      BY <2>4, WorldKeeps, StreamsAssumption
    <2>5. ASSUME NEW g \in Groups, NEW s \in Streams, MoveGroup(g, s) \/ GroupComes(g, s)
          PROVE  SnapInv'
      BY <2>5, WorldKeeps
    <2>6. ASSUME NEW s \in Streams, StreamGoes(s) PROVE SnapInv'
      <3>1. CASE Groups = {}
        BY <2>6, <3>1 DEF SnapInv, SnapTypeOK, StreamGoes, Theirs, AtEase, Left, Recalls,
                          Working, Undisturbed
      <3>2. CASE Groups # {}
        BY <2>6, <3>2, WorldKeeps
      <3> QED BY <3>1, <3>2
    <2>7. CASE SnapRuns
      BY <2>7, LearnKeeps, SurveyKeeps, SwitchKeeps, RpcFailsKeeps, SettleKeeps, FinishKeeps
         DEF SnapRuns
    <2> QED BY <2>1, <2>2, <2>3, <2>4, <2>5, <2>6, <2>7 DEF SnapWorld
  <1>3. SnapInv => GroupsComeBack
    <2> SUFFICES ASSUME SnapInv, call = NoOne PROVE GroupsComeBack
      BY DEF GroupsComeBack
    <2>1. AtEase /\ Theirs /\ main \in SUBSET Targets
      BY DEF SnapInv, SnapTypeOK
    <2>2. main = {} => \A g \in Groups \ lost : on[g] = wish[g]
      BY <2>1 DEF AtEase, Left, Theirs
    <2>3. \A t \in main, g \in Groups : on[g] = t =>
           IF g \in lost THEN claims[t] = NoOne \/ claims[t][g] \in {Meta, NoOne}
           ELSE claims[t] # NoOne /\ claims[t][g] = wish[g]
      BY <2>1 DEF AtEase, Recalls
    <2> QED BY <2>2, <2>3 DEF GroupsComeBack
  <1> QED BY <1>1, <1>2, <1>3, PTL DEF SnapSpec

\* What a claim keeps of a group is never a stream of ours, with one target on the server.
KeptGroups == [Groups -> Streams \cup {NoOne}]
KeptCalls ==
    [release : SUBSET (Targets \X KeptGroups), claim : SUBSET Targets,
     stage : {"next", "release", "claim"}, target : Targets \cup {NoOne},
     todo : SUBSET Groups, restore : KeptGroups]

GroupsTyped ==
    /\ main \in SUBSET Targets
    /\ claims \in [Targets -> KeptGroups \cup {NoOne}]
    /\ call \in KeptCalls \cup {NoOne}
    /\ on \in [Groups -> AllStreams \cup {NoOne}]
    /\ streams \in SUBSET Streams
    /\ wish \in [Groups -> Streams \cup {NoOne}] /\ lost \in SUBSET Groups

\* What is kept is of the types of the model.
LEMMA KeptIsSaved ==
  /\ KeptGroups \subseteq Saved /\ KeptCalls \subseteq CallRec
  /\ GroupsTyped => SnapTypeOK
  <1>1. KeptGroups \subseteq Saved
    BY DEF KeptGroups, Saved
  <1>2. KeptCalls \subseteq CallRec
    <2> SUFFICES ASSUME NEW c \in KeptCalls PROVE c \in CallRec
      OBVIOUS
    <2>1. c.release \in SUBSET (Targets \X Saved) /\ c.restore \in Saved
      BY <1>1 DEF KeptCalls
    <2> QED BY <2>1 DEF KeptCalls, CallRec
  <1>3. GroupsTyped => SnapTypeOK
    <2> SUFFICES ASSUME GroupsTyped PROVE SnapTypeOK
      OBVIOUS
    <2>1. claims \in [Targets -> Saved \cup {NoOne}]
      BY <1>1 DEF GroupsTyped
    <2>2. call \in CallRec \cup {NoOne}
      BY <1>2 DEF GroupsTyped
    <2> QED BY <2>1, <2>2 DEF GroupsTyped, SnapTypeOK
  <1> QED BY <1>1, <1>2, <1>3

\* The parts of a command under way.
LEMMA CallParts ==
  ASSUME NEW c \in KeptCalls
  PROVE  /\ c.release \in SUBSET (Targets \X KeptGroups) /\ c.claim \in SUBSET Targets
         /\ c.stage \in {"next", "release", "claim"} /\ c.target \in Targets \cup {NoOne}
         /\ c.todo \in SUBSET Groups /\ c.restore \in KeptGroups
  BY DEF KeptCalls

\* A command begins, asks the server, switches a group, fails, ends or is lost in a crash.
LEMMA CommandsTyped ==
  ASSUME OneTarget, GroupsTyped,
         SnapRuns \/ Crash \/ \E list \in SUBSET Targets : SetTargets(list)
  PROVE  GroupsTyped'
  <1>1. /\ main \in SUBSET Targets /\ claims \in [Targets -> KeptGroups \cup {NoOne}]
        /\ on \in [Groups -> AllStreams \cup {NoOne}] /\ streams \in SUBSET Streams
        /\ wish \in [Groups -> Streams \cup {NoOne}] /\ lost \in SUBSET Groups
        /\ call # NoOne => call \in KeptCalls
    BY DEF GroupsTyped
  <1>2. Nobody \in KeptGroups
    BY DEF Nobody, KeptGroups
  <1>3. ASSUME NEW c \in KeptCalls \cup {NoOne}, call' = c,
               claims' \in [Targets -> KeptGroups \cup {NoOne}],
               on' \in [Groups -> AllStreams \cup {NoOne}],
               wish' \in [Groups -> Streams \cup {NoOne}], lost' \in SUBSET Groups,
               UNCHANGED <<main, streams>>
        PROVE  GroupsTyped'
    BY <1>1, <1>3 DEF GroupsTyped
  <1>4. ASSUME NEW list \in SUBSET Targets, SetTargets(list) PROVE GroupsTyped'
    <2> DEFINE release == {<<t, claims[t]>> : t \in {u \in main \ list : claims[u] # NoOne}}
               new == [release |-> release, claim |-> list \ main, stage |-> "next",
                       target |-> NoOne, todo |-> {}, restore |-> Nobody]
    <2>1. /\ main' = list /\ call' = new
          /\ claims' = [t \in Targets |-> IF t \in list THEN claims[t] ELSE NoOne]
          /\ on' = on /\ streams' = streams /\ wish' = wish /\ lost' = lost
      BY <1>4 DEF SetTargets
    <2>2. release \in SUBSET (Targets \X KeptGroups)
      BY <1>1
    <2> HIDE DEF release
    <2>3. new \in KeptCalls
      BY <1>2, <2>2 DEF KeptCalls
    <2> HIDE DEF new
    <2>4. claims' \in [Targets -> KeptGroups \cup {NoOne}]
      BY <1>1, <2>1
    <2> QED BY <1>1, <2>1, <2>3, <2>4 DEF GroupsTyped
  <1>5. CASE Crash
    <2>1. /\ main' = {} /\ call' = NoOne /\ claims' = [t \in Targets |-> NoOne]
          /\ lost' = lost \cup {g \in Groups : on[g] \in Targets}
          /\ on' = on /\ streams' = streams /\ wish' = wish
      BY <1>5 DEF Crash
    <2>2. claims' \in [Targets -> KeptGroups \cup {NoOne}] /\ lost' \in SUBSET Groups
      BY <1>1, <2>1
    <2> QED BY <1>1, <2>1, <2>2 DEF GroupsTyped
  <1>6. ASSUME call # NoOne, NEW stage \in {"next", "release", "claim"},
               NEW target \in Targets \cup {NoOne}, NEW todo \in SUBSET Groups,
               NEW restore \in KeptGroups, NEW rs \in SUBSET (Targets \X KeptGroups),
               NEW cs \in SUBSET Targets
        PROVE  [call EXCEPT !.release = rs, !.claim = cs, !.stage = stage,
                            !.target = target, !.todo = todo, !.restore = restore] \in KeptCalls
    BY <1>1, <1>6 DEF KeptCalls
  <1>7. CASE call # NoOne /\ SnapRuns
    <2>1. /\ call \in KeptCalls
          /\ call.release \in SUBSET (Targets \X KeptGroups) /\ call.claim \in SUBSET Targets
          /\ call.stage \in {"next", "release", "claim"} /\ call.target \in Targets \cup {NoOne}
          /\ call.todo \in SUBSET Groups /\ call.restore \in KeptGroups
      BY <1>1, <1>7, CallParts
    <2>2. CASE Learn
      <3>1. PICK r \in call.release :
              LET kept == {g \in OnStream(r[1]) : r[2][g] # NoOne /\ Exists(r[2][g])} IN
              /\ call' = [call EXCEPT !.release = @ \ {r}, !.stage = "release",
                                      !.target = r[1], !.restore = r[2], !.todo = kept]
              /\ lost' = lost \cup (OnStream(r[1]) \ kept)
        BY <2>2 DEF Learn
      <3> DEFINE kept == {g \in OnStream(r[1]) : r[2][g] # NoOne /\ Exists(r[2][g])}
                 c == [call EXCEPT !.release = @ \ {r}, !.stage = "release",
                                   !.target = r[1], !.restore = r[2], !.todo = kept]
      <3>2. OnStream(r[1]) \in SUBSET Groups /\ kept \in SUBSET Groups
        BY DEF OnStream
      <3>3. r[1] \in Targets /\ r[2] \in KeptGroups
        BY <2>1
      <3> HIDE DEF kept
      <3>4. c \in KeptCalls
        BY <2>1, <3>2, <3>3 DEF KeptCalls
      <3>5. /\ call' = c /\ lost' \in SUBSET Groups /\ claims' = claims /\ on' = on /\ wish' = wish
            /\ UNCHANGED <<main, streams>>
        BY <1>1, <2>2, <3>1, <3>2 DEF Learn, kept
      <3> HIDE DEF c
      <3> QED BY <1>1, <1>3, <3>4, <3>5
    <2>3. CASE Survey
      <3>1. PICK t \in call.claim :
              LET restore == [g \in Groups |-> IF on[g] = NoOne THEN NoOne ELSE RestoreTo(g, t)] IN
              call' = [call EXCEPT !.claim = @ \ {t}, !.stage = "claim", !.target = t,
                                   !.restore = restore,
                                   !.todo = {g \in Groups : restore[g] # NoOne}]
        BY <2>3 DEF Survey
      <3> DEFINE restore == [g \in Groups |-> IF on[g] = NoOne THEN NoOne ELSE RestoreTo(g, t)]
                 todo == {g \in Groups : restore[g] # NoOne}
                 c == [call EXCEPT !.claim = @ \ {t}, !.stage = "claim", !.target = t,
                                   !.restore = restore, !.todo = todo]
      <3>2. t \in Targets /\ \A u \in Targets : u = t
        BY <2>1 DEF OneTarget
      <3>3. restore \in KeptGroups
        <4>1. ASSUME NEW g \in Groups, on[g] # NoOne PROVE RestoreTo(g, t) \in Streams \cup {NoOne}
          <5>1. on[g] \in Streams \cup Targets
            BY <1>1, <4>1 DEF AllStreams
          <5> QED BY <3>2, <5>1, StreamsAssumption DEF RestoreTo
        <4> QED BY <4>1 DEF KeptGroups
      <3>4. todo \in SUBSET Groups
        OBVIOUS
      <3>5. /\ call' = c /\ lost' = lost /\ claims' = claims /\ on' = on /\ wish' = wish
            /\ UNCHANGED <<main, streams>>
        BY <2>3, <3>1 DEF Survey
      <3> HIDE DEF restore, todo
      <3>6. c \in KeptCalls
        BY <2>1, <3>2, <3>3, <3>4 DEF KeptCalls
      <3> HIDE DEF c
      <3> QED BY <1>1, <1>3, <3>5, <3>6
    <2>4. CASE Switch
      <3>1. PICK g \in call.todo :
              /\ call' = [call EXCEPT !.todo = @ \ {g}]
              /\ IF call.stage = "claim"
                 THEN on' = [on EXCEPT ![g] = call.target] /\ UNCHANGED <<wish, lost>>
                 ELSE /\ on' = [on EXCEPT ![g] = call.restore[g]]
                      /\ wish' = IF g \in lost THEN [wish EXCEPT ![g] = call.restore[g]] ELSE wish
                      /\ lost' = lost \ {g}
              /\ UNCHANGED <<main, claims, streams>>
        BY <2>4 DEF Switch
      <3> DEFINE c == [call EXCEPT !.todo = @ \ {g}]
      <3>2. g \in Groups /\ call.restore[g] \in Streams \cup {NoOne}
        BY <2>1 DEF KeptGroups
      <3>3. c \in KeptCalls
        BY <2>1 DEF KeptCalls
      <3>4. /\ on' \in [Groups -> AllStreams \cup {NoOne}] /\ lost' \in SUBSET Groups
            /\ wish' \in [Groups -> Streams \cup {NoOne}]
        <4>1. CASE call.stage = "claim"
          BY <1>1, <2>1, <3>1, <4>1 DEF AllStreams
        <4>2. CASE call.stage # "claim"
          BY <1>1, <3>1, <3>2, <4>2 DEF AllStreams
        <4> QED BY <4>1, <4>2
      <3>5. call' = c /\ claims' = claims /\ UNCHANGED <<main, streams>>
        BY <3>1
      <3> HIDE DEF c
      <3> QED BY <1>1, <1>3, <3>3, <3>4, <3>5
    <2>5. CASE RpcFails
      <3> DEFINE c == [call EXCEPT !.stage = "next", !.todo = {}]
      <3>1. c \in KeptCalls
        BY <2>1 DEF KeptCalls
      <3>2. /\ call' = c /\ lost' \in SUBSET Groups /\ claims' = claims /\ on' = on /\ wish' = wish
            /\ UNCHANGED <<main, streams>>
        BY <1>1, <2>5 DEF RpcFails, OnStream
      <3> HIDE DEF c
      <3> QED BY <1>1, <1>3, <3>1, <3>2
    <2>6. CASE Settle
      <3> DEFINE c == [call EXCEPT !.stage = "next"]
      <3>1. c \in KeptCalls
        BY <2>1 DEF KeptCalls
      <3>2. claims' \in [Targets -> KeptGroups \cup {NoOne}]
        <4>1. [claims EXCEPT ![call.target] = call.restore] \in [Targets -> KeptGroups \cup {NoOne}]
          BY <1>1, <2>1
        <4> QED BY <1>1, <2>6, <4>1 DEF Settle
      <3>3. call' = c /\ lost' = lost /\ on' = on /\ wish' = wish /\ UNCHANGED <<main, streams>>
        BY <2>6 DEF Settle
      <3> HIDE DEF c
      <3> QED BY <1>1, <1>3, <3>1, <3>2, <3>3
    <2>7. CASE Finish
      <3>1. /\ call' = NoOne /\ lost' = lost /\ claims' = claims /\ on' = on /\ wish' = wish
            /\ UNCHANGED <<main, streams>>
        BY <2>7 DEF Finish
      <3> QED BY <1>1, <1>3, <3>1
    <2> QED BY <1>7, <2>2, <2>3, <2>4, <2>5, <2>6, <2>7 DEF SnapRuns
  <1>8. SnapRuns => call # NoOne
    BY DEF SnapRuns, Learn, Survey, Switch, RpcFails, Settle, Finish
  <1> QED BY <1>4, <1>5, <1>7, <1>8

\* The others.
LEMMA OthersTyped ==
  ASSUME GroupsTyped, NEW g \in Groups, NEW s \in Streams,
         GroupGoes(g) \/ MoveGroup(g, s) \/ GroupComes(g, s) \/ StreamGoes(s)
  PROVE  GroupsTyped'
  <1>1. UNCHANGED <<main, claims, call>>
    BY DEF GroupGoes, MoveGroup, GroupComes, StreamGoes
  <1>2. /\ on' \in [Groups -> AllStreams \cup {NoOne}] /\ streams' \in SUBSET Streams
        /\ wish' \in [Groups -> Streams \cup {NoOne}] /\ lost' \in SUBSET Groups
    BY DEF GroupGoes, MoveGroup, GroupComes, StreamGoes, GroupsTyped, AllStreams
  <1> QED BY <1>1, <1>2 DEF GroupsTyped

\* With one target on the server, whoever else acts and whatever fails, the state of the
\* claims has its type, and no claim or release keeps a stream of ours for a group.
THEOREM GroupsAreTyped ==
  ASSUME OneTarget
  PROVE  SnapSpec => [](SnapTypeOK /\ GroupsTyped)
  <1>1. SnapInit => GroupsTyped
    BY DEF SnapInit, GroupsTyped, AllStreams, KeptGroups
  <1>2. GroupsTyped /\ [SnapWorld \/ SnapRuns]_snapVars => GroupsTyped'
    <2> SUFFICES ASSUME GroupsTyped, [SnapWorld \/ SnapRuns]_snapVars PROVE GroupsTyped'
      OBVIOUS
    <2>1. CASE UNCHANGED snapVars
      BY <2>1 DEF snapVars, GroupsTyped
    <2>2. CASE SnapRuns \/ Crash \/ \E list \in SUBSET Targets : SetTargets(list)
      BY <2>2, CommandsTyped
    <2>3. ASSUME NEW g \in Groups, GroupGoes(g) PROVE GroupsTyped'
      <3>1. Meta \in Streams
        BY StreamsAssumption
      <3> QED BY <2>3, <3>1, OthersTyped
    <2>4. ASSUME NEW g \in Groups, NEW s \in Streams, MoveGroup(g, s) \/ GroupComes(g, s)
          PROVE  GroupsTyped'
      BY <2>4, OthersTyped
    <2>5. ASSUME NEW s \in Streams, StreamGoes(s) PROVE GroupsTyped'
      <3>1. UNCHANGED <<main, claims, call, on, wish, lost>> /\ streams' = streams \ {s}
        BY <2>5 DEF StreamGoes
      <3> QED BY <3>1 DEF GroupsTyped
    <2> QED BY <2>1, <2>2, <2>3, <2>4, <2>5 DEF SnapWorld
  <1>3. GroupsTyped => SnapTypeOK
    BY KeptIsSaved
  <1> QED BY <1>1, <1>2, <1>3, PTL DEF SnapSpec

----------------------------------------------------------------------------
(* The tempi of the session, when nothing happens that the code does not    *)
(* guard against.                                                           *)

Tables == [Turntables -> TableRec \cup {NoRecord}]
Leads == [deck : Turntables \cup {NoRecord}, bpm : Int \cup {NoTempo}]

\* The main tempo is that of its deck, which is there unless a restart named one that is not,
\* and the locked decks follow it.
Sound(t, mn) ==
    mn.deck # NoRecord =>
      /\ "ghostMaster" \in Slips \/ t[mn.deck] # NoRecord
      /\ t[mn.deck] # NoRecord /\ t[mn.deck].bpm # NoTempo => mn.bpm = TempoOf(t[mn.deck])
Follow ==
    \A d \in Turntables \ {lead.deck} :
      There(d) /\ table[d].locked /\ table[d].bpm # NoTempo /\ lead.bpm # NoTempo =>
        TempoOf(table[d]) = lead.bpm

\* The waveforms show the decks' files, and what was there was seen.
Known ==
    /\ \A d \in Turntables : d \notin seen => ~There(d) /\ trust[d] = NoRecord
    /\ \A d \in Turntables : canvas[d] = IF There(d) THEN table[d].file ELSE NoRecord
    /\ \A d \in unsynced : There(d) /\ table[d].file # NoRecord
    /\ \A d \in Turntables : There(d) =>
         /\ trust[d] # NoRecord => <<d, trust[d]>> \in seen
         /\ table[d].file # NoRecord => <<d, table[d].file>> \in seen

\* Where a deck's grid comes from, and whether what it may be replaced by is as good.
GridOf(d, f) ==
    /\ saved[f] # NoTempo => saved[f] \in good[d]
    /\ trust[d] = f => table[d].bpm \in good[d]
    /\ <<d, f>> \notin analyses /\ trust[d] # f => table[d].bpm = Fit[f]
    /\ trust[d] # f /\ saved[f] = NoTempo => Fit[f] \in good[d]
    /\ trust[d] # f /\ d \notin unsynced /\ <<d, f>> \notin lookups => Fit[f] \in good[d]
Grounded ==
    \A d \in Turntables : There(d) /\ table[d].file # NoRecord => GridOf(d, table[d].file)

TempoInv == TempoTypeOK /\ Sound(table, lead) /\ Follow /\ Known /\ Grounded

\* Nothing but the rate of a deck changes.
Same(d, disc) ==
    /\ There(d)' <=> disc # NoRecord
    /\ disc # NoRecord => table'[d].file = disc.file /\ table'[d].bpm = disc.bpm

Turns(t) ==
    /\ table' \in Tables /\ lead' \in Leads /\ Sound(table, lead)' /\ Follow'
    /\ \A d \in Turntables : Same(d, t[d])

\* A record of a deck has the fields of one (UpdateDeck).
LEMMA DeckFields ==
  ASSUME NEW disc \in TableRec
  PROVE  /\ disc.file \in Records \cup {NoRecord} /\ disc.bpm \in Int \cup {NoTempo}
         /\ disc.rate \in Int /\ disc.playing \in BOOLEAN /\ disc.locked \in BOOLEAN
  BY DEF TableRec

\* The locked decks follow a main tempo that is its deck's (applyLockedRates).
LEMMA BecomesIs ==
  ASSUME NEW t \in Tables, NEW mn \in Leads, Sound(t, mn), Becomes(t, mn)
  PROVE  Turns(t)
  <1>1. lead' = mn /\ table' = LockedRates(t, mn)
    BY DEF Becomes
  <1>2. mn.bpm \in Int \cup {NoTempo} /\ mn.deck \in Turntables \cup {NoRecord}
    BY DEF Leads
  <1> DEFINE Led(d) == /\ t[d] # NoRecord /\ t[d].locked /\ d # mn.deck
                       /\ t[d].bpm # NoTempo /\ mn.bpm # NoTempo
  <1>3. \A d \in Turntables : t[d] \in TableRec \cup {NoRecord}
    BY DEF Tables
  <1>4. ASSUME NEW d \in Turntables, Led(d)
        PROVE  /\ table'[d] \in TableRec /\ table'[d] # NoRecord
               /\ table'[d].file = t[d].file /\ table'[d].bpm = t[d].bpm
               /\ TempoOf(table'[d]) = mn.bpm
    <2>1. t[d] \in TableRec /\ t[d].bpm \in Int /\ mn.bpm \in Int
      BY <1>2, <1>3, <1>4, DeckFields
    <2>2. table'[d] = [t[d] EXCEPT !.rate = mn.bpm - t[d].bpm]
      BY <1>1, <1>4 DEF LockedRates
    <2>3. mn.bpm - t[d].bpm \in Int
      BY <2>1
    <2>4. /\ table'[d] \in TableRec
          /\ table'[d].file = t[d].file /\ table'[d].bpm = t[d].bpm
          /\ table'[d].rate = mn.bpm - t[d].bpm
      BY <2>1, <2>2, <2>3 DEF TableRec
    <2> QED BY <2>1, <2>4, NoDeckAssumption DEF TempoOf
  <1>5. ASSUME NEW d \in Turntables, ~Led(d)
        PROVE  table'[d] = t[d]
    BY <1>1, <1>5 DEF LockedRates
  <1>6. table' \in Tables
    <2>1. table' = [d \in Turntables |-> table'[d]]
      BY <1>1 DEF LockedRates
    <2>2. \A d \in Turntables : table'[d] \in TableRec \cup {NoRecord}
      BY <1>3, <1>4, <1>5
    <2> QED BY <2>1, <2>2 DEF Tables
  <1>7. \A d \in Turntables : Same(d, t[d])
    BY <1>4, <1>5 DEF Same, There
  <1>8. Sound(table, lead)'
    <2> SUFFICES ASSUME mn.deck # NoRecord
                 PROVE  /\ "ghostMaster" \in Slips \/ table'[mn.deck] # NoRecord
                        /\ table'[mn.deck] # NoRecord /\ table'[mn.deck].bpm # NoTempo =>
                             mn.bpm = TempoOf(table'[mn.deck])
      BY <1>1 DEF Sound
    <2>1. mn.deck \in Turntables /\ ~Led(mn.deck)
      BY <1>2
    <2> QED BY <1>5, <2>1 DEF Sound
  <1>9. Follow'
    <2> SUFFICES ASSUME NEW d \in Turntables \ {mn.deck}, table'[d] # NoRecord, table'[d].locked,
                        table'[d].bpm # NoTempo, mn.bpm # NoTempo
                 PROVE  TempoOf(table'[d]) = mn.bpm
      BY <1>1 DEF Follow, There
    <2> QED BY <1>4, <1>5
  <1> QED BY <1>1, <1>6, <1>7, <1>8, <1>9 DEF Turns

\* The main tempo is refreshed from its deck (refreshMasterBpm).
LEMMA RefreshIs ==
  ASSUME NEW t \in Tables, NEW mn \in Leads,
         mn.deck # NoRecord => "ghostMaster" \in Slips \/ t[mn.deck] # NoRecord
  PROVE  RefreshMaster(t, mn) \in Leads /\ Sound(t, RefreshMaster(t, mn))
  <1>1. CASE mn.deck = NoRecord \/ t[mn.deck] = NoRecord \/ t[mn.deck].bpm = NoTempo
    BY <1>1 DEF RefreshMaster, Sound
  <1>2. CASE mn.deck # NoRecord /\ t[mn.deck] # NoRecord /\ t[mn.deck].bpm # NoTempo
    <2>1. mn.deck \in Turntables
      BY <1>2 DEF Leads
    <2>2. t[mn.deck] \in TableRec
      BY <1>2, <2>1 DEF Tables
    <2>3. TempoOf(t[mn.deck]) \in Int
      <3>1. t[mn.deck].bpm \in Int /\ t[mn.deck].rate \in Int
        BY <1>2, <2>2, DeckFields
      <3> QED BY <3>1 DEF TempoOf
    <2>4. RefreshMaster(t, mn) = [mn EXCEPT !.bpm = TempoOf(t[mn.deck])]
      BY <1>2 DEF RefreshMaster
    <2>5. /\ RefreshMaster(t, mn) \in Leads /\ RefreshMaster(t, mn).deck = mn.deck
          /\ RefreshMaster(t, mn).bpm = TempoOf(t[mn.deck])
      BY <2>3, <2>4 DEF Leads
    <2> QED BY <1>2, <2>5 DEF Sound
  <1> QED BY <1>1, <1>2

\* A deck that plays alone takes the lead (reconcileMaster).
LEMMA ReconcileIs ==
  ASSUME NEW t \in Tables, NEW mn \in Leads, Sound(t, mn)
  PROVE  ReconcileMaster(t, mn) \in Leads /\ Sound(t, ReconcileMaster(t, mn))
  <1> DEFINE playing == {d \in Turntables : t[d] # NoRecord /\ t[d].playing}
             solo == CHOOSE d \in playing : TRUE
  <1>1. CASE \E d \in playing : playing = {d} /\ t[d].bpm # NoTempo
    <2>1. PICK d \in playing : playing = {d} /\ t[d].bpm # NoTempo
      BY <1>1
    <2>2. solo = d
      BY <2>1
    <2>3. d \in Turntables /\ t[d] # NoRecord /\ t[d] \in TableRec
      BY <2>1 DEF Tables
    <2>4. TempoOf(t[d]) \in Int
      <3>1. t[d].bpm \in Int /\ t[d].rate \in Int
        BY <2>1, <2>3, DeckFields
      <3> QED BY <3>1 DEF TempoOf
    <2>5. ReconcileMaster(t, mn) = [deck |-> d, bpm |-> TempoOf(t[d])]
      BY <1>1, <2>2 DEF ReconcileMaster
    <2> QED BY <2>3, <2>4, <2>5, NoDeckAssumption DEF Leads, Sound
  <1>2. CASE ~\E d \in playing : playing = {d} /\ t[d].bpm # NoTempo
    BY <1>2 DEF ReconcileMaster
  <1> QED BY <1>1, <1>2

\* A deck is patched (updateDeck).
LEMMA UpdateIs ==
  ASSUME table \in Tables, lead \in Leads, Sound(table, lead), NEW d \in Turntables, There(d),
         NEW disc \in TableRec, NEW reconciles \in BOOLEAN, UpdateDeck(d, disc, reconciles)
  PROVE  Turns([table EXCEPT ![d] = disc])
  <1> DEFINE t == [table EXCEPT ![d] = disc]
             mn == RefreshMaster(t, lead)
  <1>1. t \in Tables
    BY DEF Tables
  <1>2. lead.deck # NoRecord => "ghostMaster" \in Slips \/ t[lead.deck] # NoRecord
    BY NoDeckAssumption DEF Sound, Tables, Leads
  <1>3. mn \in Leads /\ Sound(t, mn)
    BY <1>1, <1>2, RefreshIs
  <1>4. ReconcileMaster(t, mn) \in Leads /\ Sound(t, ReconcileMaster(t, mn))
    BY <1>1, <1>3, ReconcileIs
  <1>5. Becomes(t, ReconcileMaster(t, mn)) \/ Becomes(t, mn)
    BY DEF UpdateDeck
  <1> QED BY <1>1, <1>3, <1>4, <1>5, BecomesIs

\* What a type says of the parts that the proofs take up.
LEMMA TempoTypes ==
  ASSUME TempoTypeOK
  PROVE  /\ table \in Tables /\ lead \in Leads
         /\ \A d \in Turntables : There(d) =>
              /\ table[d] \in TableRec /\ table[d].file \in Records \cup {NoRecord}
              /\ table[d].bpm \in Int \cup {NoTempo} /\ table[d].rate \in Int
         /\ \A f \in Records : saved[f] \in Int \cup {NoTempo} /\ Fit[f] \in Int \cup {NoTempo}
                               /\ Digger[f] \in Int \cup {NoTempo}
  <1>1. table \in Tables /\ lead \in Leads
    BY DEF TempoTypeOK, Tables, Leads
  <1>2. \A d \in Turntables : There(d) =>
              /\ table[d] \in TableRec /\ table[d].file \in Records \cup {NoRecord}
              /\ table[d].bpm \in Int \cup {NoTempo} /\ table[d].rate \in Int
    <2> SUFFICES ASSUME NEW d \in Turntables, There(d)
                 PROVE  /\ table[d] \in TableRec /\ table[d].file \in Records \cup {NoRecord}
                        /\ table[d].bpm \in Int \cup {NoTempo} /\ table[d].rate \in Int
      OBVIOUS
    <2>1. table[d] \in TableRec
      BY <1>1 DEF There, Tables
    <2> QED BY <2>1, DeckFields
  <1> QED BY <1>1, <1>2, TempoAssumption DEF TempoTypeOK

\* A change of rates, or of what plays, leaves the grids as they were.
LEMMA GridsKeep ==
  ASSUME TempoInv, NEW d \in Turntables, There(d), NEW disc \in TableRec,
         disc.file = table[d].file, disc.bpm = table[d].bpm,
         NEW reconciles \in BOOLEAN, UpdateDeck(d, disc, reconciles), UNCHANGED Grids
  PROVE  TempoInv'
  <1>1. table \in Tables /\ lead \in Leads
    BY TempoTypes DEF TempoInv
  <1>2. Turns([table EXCEPT ![d] = disc])
    BY <1>1, UpdateIs DEF TempoInv
  <1>3. \A e \in Turntables : Same(e, table[e])
    BY <1>1, <1>2, NoDeckAssumption DEF Turns, Same, There, Tables
  <1>4. TempoTypeOK'
    BY <1>2 DEF TempoInv, TempoTypeOK, Turns, Tables, Leads, Grids
  <1>5. Known'
    BY <1>3 DEF TempoInv, Known, Same, There, Grids, TempoTypeOK
  <1>6. Grounded'
    BY <1>3 DEF TempoInv, Grounded, GridOf, Same, There, Grids
  <1> QED BY <1>2, <1>4, <1>5, <1>6 DEF TempoInv, Turns

\* The hand: a press of play, the fader, the lock and the sync.
LEMMA HandKeeps ==
  ASSUME TempoInv, NEW d \in Turntables, NEW r \in Int, NEW opens \in BOOLEAN,
         PressPlay(d) \/ MoveFader(d, r) \/ PressLock(d) \/ PressSync(d, opens)
  PROVE  TempoInv'
  <1>1. There(d) /\ UNCHANGED Grids
    BY DEF PressPlay, MoveFader, PressLock, PressSync
  <1>2. table[d] \in TableRec /\ table[d].bpm \in Int \cup {NoTempo} /\ table[d].rate \in Int
    BY <1>1, TempoTypes DEF TempoInv
  <1>3. lead.bpm \in Int \cup {NoTempo}
    BY TempoTypes DEF TempoInv, Leads
  <1>4. ASSUME NEW rate \in Int, NEW playing \in BOOLEAN, NEW locked \in BOOLEAN,
               NEW reconciles \in BOOLEAN,
               UpdateDeck(d, [table[d] EXCEPT !.rate = rate, !.playing = playing,
                                              !.locked = locked], reconciles)
        PROVE  TempoInv'
    <2> DEFINE disc == [table[d] EXCEPT !.rate = rate, !.playing = playing, !.locked = locked]
    <2>1. disc \in TableRec /\ disc.file = table[d].file /\ disc.bpm = table[d].bpm
      BY <1>2 DEF TableRec
    <2> HIDE DEF disc
    <2>2. UpdateDeck(d, disc, reconciles)
      BY <1>4 DEF disc
    <2> QED BY <1>1, <2>1, <2>2, GridsKeep
  <1>5. /\ table[d].playing \in BOOLEAN /\ table[d].locked \in BOOLEAN
    BY <1>2, DeckFields
  <1>6. CASE PressPlay(d)
    <2>1. [table[d] EXCEPT !.playing = ~@]
          = [table[d] EXCEPT !.rate = table[d].rate, !.playing = ~table[d].playing,
                             !.locked = table[d].locked]
      BY <1>2 DEF TableRec
    <2>2. UpdateDeck(d, [table[d] EXCEPT !.playing = ~@], TRUE)
      BY <1>6 DEF PressPlay
    <2>3. UpdateDeck(d, [table[d] EXCEPT !.rate = table[d].rate, !.playing = ~table[d].playing,
                             !.locked = table[d].locked], TRUE)
      BY <2>1, <2>2
    <2>4. (~table[d].playing) \in BOOLEAN
      BY <1>5
    <2> QED BY <1>2, <1>4, <1>5, <2>3, <2>4
  <1>7. CASE MoveFader(d, r)
    <2>1. [table[d] EXCEPT !.rate = r, !.locked = FALSE]
          = [table[d] EXCEPT !.rate = r, !.playing = table[d].playing, !.locked = FALSE]
      BY <1>2 DEF TableRec
    <2>2. UpdateDeck(d, [table[d] EXCEPT !.rate = r, !.playing = table[d].playing,
                                         !.locked = FALSE], FALSE)
      BY <1>7, <2>1 DEF MoveFader
    <2> QED BY <1>4, <1>5, <2>2
  <1>8. CASE PressLock(d)
    <2>1. lead.bpm \in Int /\ table[d].bpm \in Int /\ lead.bpm - table[d].bpm \in Int
      BY <1>2, <1>3, <1>8 DEF PressLock
    <2>2. CASE table[d].locked
      <3>1. [table[d] EXCEPT !.locked = FALSE]
            = [table[d] EXCEPT !.rate = table[d].rate, !.playing = table[d].playing,
                               !.locked = FALSE]
        BY <1>2 DEF TableRec
      <3>2. UpdateDeck(d, [table[d] EXCEPT !.rate = table[d].rate,
                               !.playing = table[d].playing, !.locked = FALSE], FALSE)
        BY <1>8, <2>2, <3>1 DEF PressLock
      <3> QED BY <1>2, <1>4, <1>5, <3>2
    <2>3. CASE ~table[d].locked
      <3>1. [table[d] EXCEPT !.locked = TRUE, !.rate = lead.bpm - table[d].bpm]
            = [table[d] EXCEPT !.rate = lead.bpm - table[d].bpm, !.playing = table[d].playing,
                               !.locked = TRUE]
        BY <1>2 DEF TableRec
      <3>2. UpdateDeck(d, [table[d] EXCEPT !.rate = lead.bpm - table[d].bpm,
                               !.playing = table[d].playing, !.locked = TRUE], FALSE)
        BY <1>8, <2>3, <3>1 DEF PressLock
      <3> QED BY <1>4, <1>5, <2>1, <3>2
    <2> QED BY <2>2, <2>3
  <1>9. CASE PressSync(d, opens)
    <2>1. lead.bpm \in Int /\ table[d].bpm \in Int /\ lead.bpm - table[d].bpm \in Int
      BY <1>2, <1>3, <1>9 DEF PressSync
    <2>2. [table[d] EXCEPT !.rate = lead.bpm - table[d].bpm, !.locked = @ /\ ~opens]
          = [table[d] EXCEPT !.rate = lead.bpm - table[d].bpm, !.playing = table[d].playing,
                             !.locked = table[d].locked /\ ~opens]
      BY <1>2 DEF TableRec
    <2>3. UpdateDeck(d, [table[d] EXCEPT !.rate = lead.bpm - table[d].bpm,
                             !.playing = table[d].playing,
                             !.locked = table[d].locked /\ ~opens], FALSE)
      BY <1>9, <2>2 DEF PressSync
    <2>4. (table[d].locked /\ ~opens) \in BOOLEAN
      OBVIOUS
    <2> QED BY <1>4, <1>5, <2>1, <2>3, <2>4
  <1> QED BY <1>6, <1>7, <1>8, <1>9

\* The reference is set by hand (setMasterDeck).
LEMMA SetMasterKeeps ==
  ASSUME TempoInv, NEW d \in Turntables, SetMaster(d)
  PROVE  TempoInv'
  <1> DEFINE mn == [deck |-> d, bpm |-> TempoOf(table[d])]
  <1>1. table \in Tables /\ There(d) /\ table[d].bpm \in Int /\ table[d].rate \in Int
    BY TempoTypes DEF TempoInv, SetMaster
  <1>2. mn \in Leads /\ Sound(table, mn)
    <2>1. TempoOf(table[d]) \in Int
      BY <1>1 DEF TempoOf
    <2> QED BY <1>1, <2>1 DEF Leads, Sound, There
  <1>3. Turns(table)
    <2>1. Becomes(table, mn)
      BY DEF SetMaster
    <2> HIDE DEF mn
    <2> QED BY <1>1, <1>2, <2>1, BecomesIs
  <1>4. \A e \in Turntables : Same(e, table[e])
    BY <1>3 DEF Turns
  <1>5. TempoTypeOK'
    BY <1>3 DEF TempoInv, TempoTypeOK, Turns, Tables, Leads, SetMaster, Grids
  <1>6. Known'
    BY <1>4 DEF TempoInv, Known, Same, There, SetMaster, Grids, TempoTypeOK
  <1>7. Grounded'
    BY <1>4 DEF TempoInv, Grounded, GridOf, Same, There, SetMaster, Grids
  <1> QED BY <1>3, <1>5, <1>6, <1>7 DEF TempoInv, Turns

\* A deck is removed, with what belongs to it (removeDeck).
LEMMA RemoveDeckKeeps ==
  ASSUME TempoInv, NEW d \in Turntables, RemoveDeck(d)
  PROVE  TempoInv'
  <1> DEFINE t == [table EXCEPT ![d] = NoRecord]
             mn == IF lead.deck = d THEN [lead EXCEPT !.deck = NoRecord] ELSE lead
  <1>1. /\ There(d) /\ Becomes(t, ReconcileMaster(t, mn))
        /\ canvas' = [canvas EXCEPT ![d] = NoRecord]
        /\ analyses' = {p \in analyses : p[1] # d}
        /\ unsynced' = unsynced \ {d}
        /\ seen' = {x \in seen : x = d \/ x \notin {d} \X Records}
        /\ saved' = saved /\ trust' = trust /\ lookups' = lookups /\ good' = good
    BY DEF RemoveDeck
  <1>2. table \in Tables /\ lead \in Leads /\ Sound(table, lead) /\ TempoTypeOK
    BY TempoTypes DEF TempoInv
  <1>3. t \in Tables /\ t[d] = NoRecord /\ \A e \in Turntables \ {d} : t[e] = table[e]
    BY <1>2 DEF Tables
  <1>4. mn \in Leads /\ Sound(t, mn)
    <2>1. CASE lead.deck = d
      BY <1>2, <2>1 DEF Leads, Sound
    <2>2. CASE lead.deck # d
      BY <1>2, <1>3, <2>2 DEF Leads, Sound
    <2> QED BY <2>1, <2>2
  <1>5. Turns(t)
    <2> HIDE DEF mn, t
    <2>1. ReconcileMaster(t, mn) \in Leads /\ Sound(t, ReconcileMaster(t, mn))
      BY <1>3, <1>4, ReconcileIs
    <2> QED BY <1>1, <1>3, <2>1, BecomesIs DEF mn, t
  <1>6. ~There(d)' /\ \A e \in Turntables \ {d} : Same(e, table[e])
    BY <1>3, <1>5 DEF Turns, Same
  <1>7. TempoTypeOK'
    BY <1>1, <1>2, <1>5 DEF TempoTypeOK, Turns, Tables, Leads
  <1>8. Known'
    <2>1. \A e \in Turntables : e \notin seen' => ~There(e)' /\ trust'[e] = NoRecord
      <3>1. \A e \in Turntables : e \in seen => e \in seen'
        BY <1>1, PairsAssumption DEF Pairs
      <3> QED BY <1>1, <1>6, <3>1 DEF TempoInv, Known, Same, There
    <2>2. \A e \in Turntables : canvas'[e] = IF There(e)' THEN table'[e].file ELSE NoRecord
      BY <1>1, <1>2, <1>6 DEF TempoInv, Known, Same, There, TempoTypeOK
    <2>3. \A e \in unsynced' : There(e)' /\ table'[e].file # NoRecord
      BY <1>1, <1>2, <1>6 DEF TempoInv, Known, Same, There, TempoTypeOK
    <2>4. ASSUME NEW e \in Turntables, There(e)'
          PROVE  /\ trust'[e] # NoRecord => <<e, trust'[e]>> \in seen'
                 /\ table'[e].file # NoRecord => <<e, table'[e].file>> \in seen'
      <3>1. e # d /\ There(e) /\ table'[e].file = table[e].file
        BY <1>6, <2>4 DEF Same, There
      <3>2. \A f : <<e, f>> \in seen => <<e, f>> \in seen'
        BY <1>1, <3>1
      <3> QED BY <1>1, <3>1, <3>2 DEF TempoInv, Known
    <2> QED BY <2>1, <2>2, <2>3, <2>4 DEF Known
  <1>9. Grounded'
    <2> SUFFICES ASSUME NEW e \in Turntables, There(e)', table'[e].file # NoRecord
                 PROVE  GridOf(e, table[e].file)'
      BY DEF Grounded
    <2>1. /\ e # d /\ There(e) /\ table'[e].file = table[e].file /\ table'[e].bpm = table[e].bpm
      BY <1>6 DEF Same, There
    <2>2. GridOf(e, table[e].file)
      BY <2>1 DEF TempoInv, Grounded
    <2>3. \A f : <<e, f>> \in analyses' <=> <<e, f>> \in analyses
      BY <1>1, <2>1
    <2> QED BY <1>1, <2>1, <2>2, <2>3 DEF GridOf
  <1> QED BY <1>5, <1>7, <1>8, <1>9 DEF TempoInv, Turns

\* Auto DJ frees a deck.
LEMMA FreeDeckKeeps ==
  ASSUME TempoInv, NEW d \in Turntables, FreeDeck(d)
  PROVE  TempoInv'
  <1> DEFINE disc == [table[d] EXCEPT !.file = NoRecord, !.playing = FALSE, !.locked = FALSE]
             t == [table EXCEPT ![d] = disc]
  <1>1. /\ There(d) /\ UpdateDeck(d, disc, TRUE)
        /\ canvas' = [canvas EXCEPT ![d] = NoRecord] /\ unsynced' = unsynced \ {d}
        /\ saved' = saved /\ trust' = trust /\ lookups' = lookups /\ analyses' = analyses
        /\ good' = good /\ seen' = seen
    BY DEF FreeDeck
  <1>2. table \in Tables /\ lead \in Leads /\ Sound(table, lead) /\ TempoTypeOK
    BY TempoTypes DEF TempoInv
  <1>3. disc \in TableRec /\ disc.file = NoRecord
    <2>1. table[d] \in TableRec
      BY <1>1, TempoTypes DEF TempoInv
    <2> QED BY <2>1 DEF TableRec
  <1>4. Turns(t) /\ t[d] = disc /\ \A e \in Turntables \ {d} : t[e] = table[e]
    <2>1. t[d] = disc /\ \A e \in Turntables \ {d} : t[e] = table[e]
      BY <1>2 DEF Tables
    <2> HIDE DEF disc
    <2>2. Turns(t)
      BY <1>1, <1>2, <1>3, UpdateIs
    <2> QED BY <2>1, <2>2
  <1>5. /\ There(d)' /\ table'[d].file = NoRecord
        /\ \A e \in Turntables \ {d} : Same(e, table[e])
    <2> HIDE DEF disc
    <2> QED BY <1>3, <1>4, NoDeckAssumption DEF Turns, Same
  <1>6. TempoTypeOK'
    BY <1>1, <1>2, <1>4 DEF TempoTypeOK, Turns, Tables, Leads
  <1>7. Known'
    <2> HIDE DEF disc, t
    <2>1. canvas'[d] = NoRecord /\ \A e \in Turntables \ {d} : canvas'[e] = canvas[e]
      BY <1>1, <1>2 DEF TempoTypeOK
    <2>2. \A e \in Turntables : e \notin seen' => ~There(e)' /\ trust'[e] = NoRecord
      BY <1>1, <1>5 DEF TempoInv, Known, Same, There
    <2>3. \A e \in Turntables : canvas'[e] = IF There(e)' THEN table'[e].file ELSE NoRecord
      BY <1>5, <2>1 DEF TempoInv, Known, Same, There
    <2>4. \A e \in unsynced' : There(e)' /\ table'[e].file # NoRecord
      BY <1>1, <1>2, <1>5 DEF TempoInv, Known, Same, There, TempoTypeOK
    <2>5. \A e \in Turntables : There(e)' =>
           /\ trust'[e] # NoRecord => <<e, trust'[e]>> \in seen'
           /\ table'[e].file # NoRecord => <<e, table'[e].file>> \in seen'
      BY <1>1, <1>5 DEF TempoInv, Known, Same, There
    <2> QED BY <2>2, <2>3, <2>4, <2>5 DEF Known
  <1>8. Grounded'
    BY <1>1, <1>5 DEF TempoInv, Grounded, GridOf, Same, There
  <1> QED BY <1>4, <1>6, <1>7, <1>8 DEF TempoInv, Turns

\* A file is loaded, with the grid that Digger has of it or without.
LEMMA LoadKeeps ==
  ASSUME TempoInv, Slips = {}, NEW d \in Turntables, NEW f \in Records, NEW asks \in BOOLEAN,
         Load(d, f, asks)
  PROVE  TempoInv'
  <1> DEFINE grid == IF asks THEN Digger[f] ELSE NoTempo
             trusted == grid # NoTempo /\ f \in Trusted
             disc == [table[d] EXCEPT !.file = f, !.playing = FALSE,
                                      !.bpm = IF grid # NoTempo THEN grid ELSE @]
             t == [table EXCEPT ![d] = disc]
             grids == IF trusted \/ saved[f] # NoTempo
                      THEN ((IF trusted THEN {grid} ELSE {}) \cup {saved[f]}) \ {NoTempo}
                      ELSE {Fit[f]}
  <1>1. /\ There(d) /\ <<d, f>> \notin seen
        /\ UpdateDeck(d, disc, TRUE)
        /\ trust' = IF trusted THEN [trust EXCEPT ![d] = f] ELSE trust
        /\ unsynced' = unsynced \cup {d}
        /\ canvas' = [canvas EXCEPT ![d] = f]
        /\ analyses' = IF canvas[d] = f THEN analyses ELSE analyses \cup {<<d, f>>}
        /\ good' = [good EXCEPT ![d] = grids]
        /\ seen' = seen \cup {<<d, f>>}
        /\ saved' = saved /\ lookups' = lookups
    BY DEF Load
  <1>2. table \in Tables /\ lead \in Leads /\ Sound(table, lead) /\ TempoTypeOK
    BY TempoTypes DEF TempoInv
  <1>3. /\ table[d] \in TableRec /\ table[d].bpm \in Int \cup {NoTempo}
        /\ grid \in Int \cup {NoTempo} /\ saved[f] \in Int \cup {NoTempo}
        /\ Fit[f] \in Int \cup {NoTempo} /\ f # NoRecord
    BY <1>1, TempoTypes, TempoAssumption DEF TempoInv
  <1>4. /\ disc \in TableRec /\ disc.file = f
        /\ disc.bpm = IF grid # NoTempo THEN grid ELSE table[d].bpm
    <2> HIDE DEF grid
    <2> QED BY <1>3 DEF TableRec
  <1>5. Turns(t) /\ t[d] = disc /\ \A e \in Turntables \ {d} : t[e] = table[e]
    <2>1. t[d] = disc /\ \A e \in Turntables \ {d} : t[e] = table[e]
      BY <1>2 DEF Tables
    <2> HIDE DEF disc
    <2>2. Turns(t)
      BY <1>1, <1>2, <1>4, UpdateIs
    <2> QED BY <2>1, <2>2
  <1>6. /\ There(d)' /\ table'[d].file = f /\ table'[d].bpm = disc.bpm
        /\ \A e \in Turntables \ {d} : Same(e, table[e])
    <2> HIDE DEF disc
    <2> QED BY <1>4, <1>5, NoDeckAssumption DEF Turns, Same
  <1>7. TempoTypeOK'
    <2>1. grids \in SUBSET (Int \cup {NoTempo})
      BY <1>3
    <2> HIDE DEF grids, trusted, disc
    <2> QED BY <1>1, <1>2, <1>5, <2>1 DEF TempoTypeOK, Turns, Tables, Leads, Pairs
  <1>8. canvas[d] # f /\ trust[d] # f
    BY <1>1, <1>3 DEF TempoInv, Known
  <1>9. /\ trust'[d] = (IF trusted THEN f ELSE trust[d])
        /\ \A e \in Turntables \ {d} : trust'[e] = trust[e] /\ good'[e] = good[e]
        /\ good'[d] = grids /\ canvas'[d] = f
        /\ \A e \in Turntables \ {d} : canvas'[e] = canvas[e]
    <2> HIDE DEF grids, trusted
    <2> QED BY <1>1, <1>2 DEF TempoTypeOK
  <1>10. Known'
    <2> HIDE DEF grids, trusted, disc, t
    <2>1. \A e \in Turntables : e \notin seen' => ~There(e)' /\ trust'[e] = NoRecord
      <3>1. d \in seen /\ \A e \in Turntables : e \in seen => e \in seen'
        BY <1>1 DEF TempoInv, Known
      <3> QED BY <1>6, <1>9, <3>1 DEF TempoInv, Known, Same, There
    <2>2. \A e \in Turntables : canvas'[e] = IF There(e)' THEN table'[e].file ELSE NoRecord
      BY <1>6, <1>9 DEF TempoInv, Known, Same, There
    <2>3. \A e \in unsynced' : There(e)' /\ table'[e].file # NoRecord
      BY <1>1, <1>2, <1>3, <1>6 DEF TempoInv, Known, Same, There, TempoTypeOK
    <2>4. ASSUME NEW e \in Turntables, There(e)'
          PROVE  /\ trust'[e] # NoRecord => <<e, trust'[e]>> \in seen'
                 /\ table'[e].file # NoRecord => <<e, table'[e].file>> \in seen'
      <3>1. <<d, f>> \in seen' /\ \A x \in seen : x \in seen'
        BY <1>1
      <3>2. CASE e = d
        BY <1>1, <1>6, <1>9, <3>1, <3>2 DEF TempoInv, Known
      <3>3. CASE e # d
        BY <1>6, <1>9, <2>4, <3>1, <3>3 DEF TempoInv, Known, Same, There
      <3> QED BY <3>2, <3>3
    <2> QED BY <2>1, <2>2, <2>3, <2>4 DEF Known
  <1>11. Grounded'
    <2> SUFFICES ASSUME NEW e \in Turntables, There(e)', table'[e].file # NoRecord
                 PROVE  GridOf(e, table[e].file)'
      BY DEF Grounded
    <2>1. CASE e = d
      <3>1. saved[f] # NoTempo => saved[f] \in grids
        OBVIOUS
      <3>2. trusted => disc.bpm \in grids
        BY <1>4
      <3>3. ~trusted /\ saved[f] = NoTempo => Fit[f] \in grids
        OBVIOUS
      <3>4. trusted <=> trust'[d] = f
        BY <1>8, <1>9
      <3>5. <<d, f>> \in analyses' /\ d \in unsynced'
        BY <1>1, <1>8
      <3> HIDE DEF grids, trusted, disc, t
      <3> QED BY <1>1, <1>6, <1>9, <2>1, <3>1, <3>2, <3>3, <3>4, <3>5 DEF GridOf
    <2>2. CASE e # d
      <3> HIDE DEF grids, trusted, disc, t
      <3>1. There(e) /\ table'[e].file = table[e].file /\ table'[e].bpm = table[e].bpm
        BY <1>6, <2>2 DEF Same, There
      <3>2. GridOf(e, table[e].file)
        BY <3>1 DEF TempoInv, Grounded
      <3>3. /\ \A g : <<e, g>> \in analyses' <=> <<e, g>> \in analyses
            /\ e \in unsynced' <=> e \in unsynced
        BY <1>1, <2>2
      <3> QED BY <1>1, <1>9, <2>2, <3>1, <3>2, <3>3 DEF GridOf
    <2> QED BY <2>1, <2>2
  <1> QED BY <1>5, <1>7, <1>10, <1>11 DEF TempoInv, Turns

\* SET BEAT saves the grid as it stands, once the deck's grid is its file's.
LEMMA SetBeatKeeps ==
  ASSUME TempoInv, Slips = {}, NEW d \in Turntables, SetBeat(d)
  PROVE  TempoInv'
  <1> DEFINE f == table[d].file
             b == table[d].bpm
  <1>1. /\ There(d) /\ f # NoRecord /\ b # NoTempo
        /\ d \notin unsynced /\ <<d, f>> \notin lookups /\ <<d, f>> \notin analyses
        /\ saved' = [saved EXCEPT ![f] = b] /\ trust' = [trust EXCEPT ![d] = f]
        /\ good' = [e \in Turntables |-> IF There(e) /\ table[e].file = f
                                          THEN good[e] \cup ({b} \cap good[d]) ELSE good[e]]
        /\ table' = table /\ lead' = lead /\ canvas' = canvas /\ unsynced' = unsynced
        /\ lookups' = lookups /\ analyses' = analyses /\ seen' = seen
    BY DEF SetBeat
  <1>2. TempoTypeOK /\ f \in Records /\ b \in Int
    BY <1>1, TempoTypes DEF TempoInv
  <1>3. GridOf(d, f)
    BY <1>1 DEF TempoInv, Grounded
  <1>4. b \in good[d]
    BY <1>1, <1>3 DEF GridOf
  <1> HIDE DEF f, b
  <1>5. TempoTypeOK'
    BY <1>1, <1>2 DEF TempoTypeOK
  <1>6. /\ saved'[f] = b /\ trust'[d] = f
        /\ \A g \in Records \ {f} : saved'[g] = saved[g]
        /\ \A e \in Turntables \ {d} : trust'[e] = trust[e]
        /\ \A e \in Turntables : There(e) /\ table[e].file = f => good'[e] = good[e] \cup {b}
        /\ \A e \in Turntables : ~(There(e) /\ table[e].file = f) => good'[e] = good[e]
    BY <1>1, <1>2, <1>4 DEF TempoTypeOK
  <1>7. Known'
    <2>1. <<d, f>> \in seen
      BY <1>1 DEF TempoInv, Known, f
    <2>2. ASSUME NEW e \in Turntables, There(e)', trust'[e] # NoRecord
          PROVE  <<e, trust'[e]>> \in seen'
      <3>1. CASE e = d
        BY <1>1, <1>6, <2>1, <3>1
      <3>2. CASE e # d
        <4>1. There(e) /\ trust'[e] = trust[e] /\ trust[e] # NoRecord
          BY <1>1, <1>6, <2>2, <3>2 DEF There
        <4>2. <<e, trust[e]>> \in seen
          BY <4>1 DEF TempoInv, Known
        <4> QED BY <1>1, <4>1, <4>2
      <3> QED BY <3>1, <3>2
    <2>3. \A e \in Turntables : e \notin seen' => ~There(e)' /\ trust'[e] = NoRecord
      BY <1>1, <1>6 DEF TempoInv, Known, There
    <2> QED BY <1>1, <2>2, <2>3 DEF TempoInv, Known, There
  <1>8. Grounded'
    <2> SUFFICES ASSUME NEW e \in Turntables, There(e), table[e].file # NoRecord
                 PROVE  GridOf(e, table[e].file)'
      BY <1>1 DEF Grounded, There
    <2>1. GridOf(e, table[e].file) /\ table[e].file \in Records
      BY TempoTypes DEF TempoInv, Grounded
    <2>2. CASE table[e].file = f
      <3>1. CASE e = d
        BY <1>1, <1>3, <1>4, <1>6, <2>1, <2>2, <3>1 DEF GridOf, f, b
      <3>2. CASE e # d
        BY <1>1, <1>2, <1>6, <2>1, <2>2, <3>2, TempoAssumption DEF GridOf
      <3> QED BY <3>1, <3>2
    <2>3. CASE table[e].file # f
      <3>1. e # d
        BY <2>3 DEF f
      <3> QED BY <1>1, <1>6, <2>1, <2>3, <3>1 DEF GridOf
    <2> QED BY <2>2, <2>3
  <1> QED BY <1>1, <1>5, <1>7, <1>8 DEF TempoInv, Sound, Follow, There

\* A load is seen: the mark of a saved grid goes with the file before, and the store of
\* grids is asked.
LEMMA SyncGridKeeps ==
  ASSUME TempoInv, SyncGrid
  PROVE  TempoInv'
  <1>1. PICK d \in unsynced :
      LET f == table[d].file IN
      /\ unsynced' = unsynced \ {d}
      /\ trust' = IF HasSavedGrid(d, f) THEN trust ELSE [trust EXCEPT ![d] = NoRecord]
      /\ lookups' = IF HasSavedGrid(d, f) THEN lookups ELSE lookups \cup {<<d, f>>}
      /\ UNCHANGED <<table, lead, saved, canvas, analyses, good, seen>>
    BY DEF SyncGrid
  <1> DEFINE f == table[d].file
  <1>2. TempoTypeOK /\ d \in Turntables /\ There(d) /\ f # NoRecord
    BY DEF TempoInv, Known, TempoTypeOK
  <1>3. f \in Records
    BY <1>2, TempoTypes
  <1> HIDE DEF f
  <1>4. /\ unsynced' = unsynced \ {d}
        /\ table' = table /\ lead' = lead /\ saved' = saved /\ canvas' = canvas
        /\ analyses' = analyses /\ good' = good /\ seen' = seen
        /\ \A e \in Turntables \ {d} : trust'[e] = trust[e]
        /\ \/ trust' = trust /\ trust[d] = f /\ lookups' = lookups
           \/ trust[d] # f /\ trust'[d] = NoRecord /\ lookups' = lookups \cup {<<d, f>>}
    BY <1>1, <1>2 DEF TempoTypeOK, HasSavedGrid, f
  <1>5. TempoTypeOK'
    BY <1>1, <1>2, <1>3 DEF TempoTypeOK, Pairs, f
  <1>6. Known'
    BY <1>2, <1>4 DEF TempoInv, Known, There
  <1>7. Grounded'
    <2> SUFFICES ASSUME NEW e \in Turntables, There(e), table[e].file # NoRecord
                 PROVE  GridOf(e, table[e].file)'
      BY <1>4 DEF Grounded, There
    <2>1. GridOf(e, table[e].file)
      BY DEF TempoInv, Grounded
    <2>2. CASE e = d
      BY <1>2, <1>4, <2>1, <2>2 DEF GridOf, f
    <2>3. CASE e # d
      BY <1>4, <2>1, <2>3 DEF GridOf
    <2> QED BY <2>2, <2>3
  <1> QED BY <1>4, <1>5, <1>6, <1>7 DEF TempoInv, Sound, Follow, There

\* The store of grids answers: its grid is the deck's, if the file still is.
LEMMA GridGetSavedKeeps ==
  ASSUME TempoInv, GridGetSaved
  PROVE  TempoInv'
  <1>1. PICK p \in lookups :
      LET d == p[1]
          f == p[2] IN
      /\ lookups' = lookups \ {p}
      /\ IF saved[f] # NoTempo /\ There(d) /\ table[d].file = f
         THEN UpdateDeck(d, [table[d] EXCEPT !.bpm = saved[f]], TRUE) /\ trust' = [trust EXCEPT ![d] = f]
         ELSE UNCHANGED <<table, lead, trust>>
      /\ UNCHANGED <<saved, canvas, unsynced, analyses, good, seen>>
    BY DEF GridGetSaved
  <1>2. TempoTypeOK
    BY DEF TempoInv
  <1>3. PICK d \in Turntables, f \in Records : p = <<d, f>>
    BY <1>2 DEF TempoTypeOK, Pairs
  <1>4. /\ lookups' = lookups \ {<<d, f>>}
        /\ saved' = saved /\ canvas' = canvas /\ unsynced' = unsynced
        /\ analyses' = analyses /\ good' = good /\ seen' = seen
    BY <1>1, <1>3
  <1>5. CASE saved[f] # NoTempo /\ There(d) /\ table[d].file = f
    <2> DEFINE disc == [table[d] EXCEPT !.bpm = saved[f]]
               t == [table EXCEPT ![d] = disc]
    <2>1. UpdateDeck(d, disc, TRUE) /\ trust' = [trust EXCEPT ![d] = f]
      BY <1>1, <1>3, <1>5
    <2>2. table \in Tables /\ lead \in Leads /\ Sound(table, lead) /\ table[d] \in TableRec
      BY <1>5, TempoTypes DEF TempoInv
    <2>3. disc \in TableRec /\ disc.file = f /\ disc.bpm = saved[f]
      <3>1. saved[f] \in Int \cup {NoTempo}
        BY <1>2 DEF TempoTypeOK
      <3> QED BY <1>5, <2>2, <3>1 DEF TableRec
    <2> HIDE DEF disc
    <2>4. Turns(t) /\ t[d] = disc /\ \A e \in Turntables \ {d} : t[e] = table[e]
      BY <1>5, <2>1, <2>2, <2>3, UpdateIs DEF Tables
    <2>5. /\ There(d)' /\ table'[d].file = f /\ table'[d].bpm = saved[f]
          /\ \A e \in Turntables \ {d} : Same(e, table[e])
      BY <2>3, <2>4, NoDeckAssumption DEF Turns, Same
    <2>6. TempoTypeOK'
      BY <1>2, <1>4, <2>1, <2>4 DEF TempoTypeOK, Turns, Tables, Leads
    <2> HIDE DEF t
    <2>7. trust'[d] = f /\ \A e \in Turntables \ {d} : trust'[e] = trust[e]
      BY <1>2, <2>1 DEF TempoTypeOK
    <2>8. Known'
      <3>1. \A e \in unsynced' : There(e)' /\ table'[e].file # NoRecord
        BY <1>2, <1>4, <1>5, <2>5 DEF TempoInv, Known, Same, There, TempoTypeOK
      <3>3. \A e \in Turntables : e \notin seen' => ~There(e)' /\ trust'[e] = NoRecord
        BY <1>4, <1>5, <2>5, <2>7 DEF TempoInv, Known, Same, There
      <3>2. ASSUME NEW e \in Turntables
            PROVE  /\ canvas'[e] = IF There(e)' THEN table'[e].file ELSE NoRecord
                   /\ There(e)' =>
                       /\ trust'[e] # NoRecord => <<e, trust'[e]>> \in seen'
                       /\ table'[e].file # NoRecord => <<e, table'[e].file>> \in seen'
        <4>1. CASE e = d
          BY <1>4, <1>5, <2>5, <2>7, <4>1 DEF TempoInv, Known
        <4>2. CASE e # d
          BY <1>4, <2>5, <2>7, <4>2 DEF TempoInv, Known, Same, There
        <4> QED BY <4>1, <4>2
      <3> QED BY <3>1, <3>2, <3>3 DEF Known
    <2>9. Grounded'
      <3> SUFFICES ASSUME NEW e \in Turntables, There(e)', table'[e].file # NoRecord
                   PROVE  GridOf(e, table[e].file)'
        BY DEF Grounded
      <3>1. CASE e = d
        <4>1. GridOf(d, f) /\ saved[f] \in good[d]
          BY <1>5, <3>1, <2>5 DEF TempoInv, Grounded, GridOf
        <4> QED BY <1>4, <1>5, <2>5, <2>7, <3>1, <4>1 DEF GridOf
      <3>2. CASE e # d
        <4>1. There(e) /\ table'[e].file = table[e].file /\ table'[e].bpm = table[e].bpm
          BY <2>5, <3>2 DEF Same, There
        <4>2. GridOf(e, table[e].file)
          BY <4>1 DEF TempoInv, Grounded
        <4> QED BY <1>4, <2>7, <3>2, <4>1, <4>2 DEF GridOf
      <3> QED BY <3>1, <3>2
    <2> QED BY <2>4, <2>6, <2>8, <2>9 DEF TempoInv, Turns
  <1>6. CASE ~(saved[f] # NoTempo /\ There(d) /\ table[d].file = f)
    <2>1. table' = table /\ lead' = lead /\ trust' = trust
      BY <1>1, <1>3, <1>6
    <2>2. TempoTypeOK'
      BY <1>2, <1>4, <2>1 DEF TempoTypeOK
    <2>3. Known'
      BY <1>4, <2>1 DEF TempoInv, Known, There
    <2>4. Grounded'
      <3> SUFFICES ASSUME NEW e \in Turntables, There(e), table[e].file # NoRecord
                   PROVE  GridOf(e, table[e].file)'
        BY <2>1 DEF Grounded, There
      <3>1. GridOf(e, table[e].file)
        BY DEF TempoInv, Grounded
      <3>2. CASE <<e, table[e].file>> = <<d, f>>
        BY <1>4, <1>6, <2>1, <3>1, <3>2 DEF GridOf
      <3>3. CASE <<e, table[e].file>> # <<d, f>>
        BY <1>4, <2>1, <3>1, <3>3 DEF GridOf
      <3> QED BY <3>2, <3>3
    <2> QED BY <1>4, <2>1, <2>2, <2>3, <2>4 DEF TempoInv, Sound, Follow, There
  <1> QED BY <1>5, <1>6

\* An analysis is over: what it made of the file is the deck's grid, unless that is a
\* saved one or the waveform shows another file.
LEMMA AnalyzedKeeps ==
  ASSUME TempoInv, Slips = {}, Analyzed
  PROVE  TempoInv'
  <1>1. PICK p \in analyses :
      LET d == p[1]
          f == p[2] IN
      /\ analyses' = analyses \ {p}
      /\ IF canvas[d] = f /\ ~HasSavedGrid(d, table[d].file)
         THEN UpdateDeck(d, [table[d] EXCEPT !.bpm = Fit[f]], TRUE)
         ELSE UNCHANGED <<table, lead>>
      /\ UNCHANGED <<saved, trust, canvas, unsynced, lookups, good, seen>>
    BY DEF Analyzed
  <1>2. TempoTypeOK
    BY DEF TempoInv
  <1>3. PICK d \in Turntables, f \in Records : p = <<d, f>>
    BY <1>2 DEF TempoTypeOK, Pairs
  <1>4. /\ analyses' = analyses \ {<<d, f>>}
        /\ saved' = saved /\ trust' = trust /\ canvas' = canvas /\ unsynced' = unsynced
        /\ lookups' = lookups /\ good' = good /\ seen' = seen
    BY <1>1, <1>3
  <1>5. f # NoRecord
    BY <1>3, TempoAssumption
  <1>6. CASE canvas[d] = f /\ trust[d] # table[d].file
    <2> DEFINE disc == [table[d] EXCEPT !.bpm = Fit[f]]
               t == [table EXCEPT ![d] = disc]
    <2>1. UpdateDeck(d, disc, TRUE)
      BY <1>1, <1>3, <1>6 DEF HasSavedGrid
    <2>2. There(d) /\ table[d].file = f
      BY <1>5, <1>6 DEF TempoInv, Known
    <2>3. /\ table \in Tables /\ lead \in Leads /\ Sound(table, lead) /\ table[d] \in TableRec
          /\ Fit[f] \in Int \cup {NoTempo}
      BY <2>2, TempoTypes DEF TempoInv
    <2>4. disc \in TableRec /\ disc.file = f /\ disc.bpm = Fit[f]
      BY <2>2, <2>3 DEF TableRec
    <2> HIDE DEF disc
    <2>5. Turns(t) /\ t[d] = disc /\ \A e \in Turntables \ {d} : t[e] = table[e]
      BY <2>1, <2>2, <2>3, <2>4, UpdateIs DEF Tables
    <2>6. /\ There(d)' /\ table'[d].file = f /\ table'[d].bpm = Fit[f]
          /\ \A e \in Turntables \ {d} : Same(e, table[e])
      BY <2>4, <2>5, NoDeckAssumption DEF Turns, Same
    <2>7. TempoTypeOK'
      BY <1>2, <1>4, <2>5 DEF TempoTypeOK, Turns, Tables, Leads
    <2> HIDE DEF t
    <2>8. Known'
      <3>1. \A e \in unsynced' : There(e)' /\ table'[e].file # NoRecord
        BY <1>2, <1>4, <1>5, <2>6 DEF TempoInv, Known, Same, There, TempoTypeOK
      <3>3. \A e \in Turntables : e \notin seen' => ~There(e)' /\ trust'[e] = NoRecord
        BY <1>4, <2>2, <2>6 DEF TempoInv, Known, Same, There
      <3>2. ASSUME NEW e \in Turntables
            PROVE  /\ canvas'[e] = IF There(e)' THEN table'[e].file ELSE NoRecord
                   /\ There(e)' =>
                       /\ trust'[e] # NoRecord => <<e, trust'[e]>> \in seen'
                       /\ table'[e].file # NoRecord => <<e, table'[e].file>> \in seen'
        <4>1. CASE e = d
          BY <1>4, <2>2, <2>6, <4>1 DEF TempoInv, Known
        <4>2. CASE e # d
          BY <1>4, <2>6, <4>2 DEF TempoInv, Known, Same, There
        <4> QED BY <4>1, <4>2
      <3> QED BY <3>1, <3>2, <3>3 DEF Known
    <2>9. Grounded'
      <3> SUFFICES ASSUME NEW e \in Turntables, There(e)', table'[e].file # NoRecord
                   PROVE  GridOf(e, table[e].file)'
        BY DEF Grounded
      <3>1. CASE e = d
        <4>1. GridOf(d, f)
          BY <1>5, <2>2 DEF TempoInv, Grounded
        <4> QED BY <1>4, <1>6, <2>2, <2>6, <3>1, <4>1 DEF GridOf
      <3>2. CASE e # d
        <4>1. There(e) /\ table'[e].file = table[e].file /\ table'[e].bpm = table[e].bpm
          BY <2>6, <3>2 DEF Same, There
        <4>2. GridOf(e, table[e].file)
          BY <4>1 DEF TempoInv, Grounded
        <4>3. \A g : <<e, g>> \in analyses' <=> <<e, g>> \in analyses
          BY <1>4, <3>2
        <4> QED BY <1>4, <4>1, <4>2, <4>3 DEF GridOf
      <3> QED BY <3>1, <3>2
    <2> QED BY <2>5, <2>7, <2>8, <2>9 DEF TempoInv, Turns
  <1>7. CASE ~(canvas[d] = f /\ trust[d] # table[d].file)
    <2>1. table' = table /\ lead' = lead
      BY <1>1, <1>3, <1>7 DEF HasSavedGrid
    <2>2. TempoTypeOK'
      BY <1>2, <1>4, <2>1 DEF TempoTypeOK
    <2>3. Known'
      BY <1>4, <2>1 DEF TempoInv, Known, There
    <2>4. Grounded'
      <3> SUFFICES ASSUME NEW e \in Turntables, There(e), table[e].file # NoRecord
                   PROVE  GridOf(e, table[e].file)'
        BY <2>1 DEF Grounded, There
      <3>1. GridOf(e, table[e].file)
        BY DEF TempoInv, Grounded
      <3>2. CASE <<e, table[e].file>> = <<d, f>>
        <4>1. trust[d] = table[d].file
          BY <1>7, <3>2 DEF TempoInv, Known
        <4> QED BY <1>4, <2>1, <3>1, <3>2, <4>1 DEF GridOf
      <3>3. CASE <<e, table[e].file>> # <<d, f>>
        BY <1>4, <2>1, <3>1, <3>3 DEF GridOf
      <3> QED BY <3>2, <3>3
    <2> QED BY <1>4, <2>1, <2>2, <2>3, <2>4 DEF TempoInv, Sound, Follow, There
  <1> QED BY <1>6, <1>7

\* A deck is added, with an id that this page has not had (addDeck).
LEMMA AddDeckKeeps ==
  ASSUME TempoInv, Slips = {}, NEW d \in Turntables, AddDeck(d)
  PROVE  TempoInv'
  <1>1. /\ ~There(d) /\ d \notin seen
        /\ table' = [table EXCEPT ![d] = MadeDeck] /\ seen' = seen \cup {d}
        /\ UNCHANGED <<lead, saved, trust, canvas, unsynced, lookups, analyses, good>>
    BY DEF AddDeck
  <1>2. TempoTypeOK /\ table \in Tables /\ lead \in Leads
    BY TempoTypes DEF TempoInv
  <1>3. /\ MadeDeck \in TableRec /\ MadeDeck.file = NoRecord /\ ~MadeDeck.locked
        /\ MadeDeck # NoRecord
    <2>1. MadeDeck \in TableRec /\ MadeDeck.file = NoRecord /\ ~MadeDeck.locked
      BY DEF MadeDeck, TableRec
    <2> QED BY <2>1, NoDeckAssumption
  <1> HIDE DEF MadeDeck
  <1>4. /\ table'[d] = MadeDeck /\ \A e \in Turntables \ {d} : table'[e] = table[e]
        /\ table' \in Tables
    BY <1>1, <1>2, <1>3 DEF Tables
  <1>5. TempoTypeOK'
    BY <1>1, <1>2, <1>4 DEF TempoTypeOK, Tables
  <1>6. Sound(table, lead)'
    <2>1. lead.deck # d
      BY <1>1, NoDeckAssumption DEF TempoInv, Sound, There
    <2> QED BY <1>1, <1>2, <1>4, <2>1 DEF TempoInv, Sound, Leads
  <1>7. Follow'
    BY <1>1, <1>3, <1>4 DEF TempoInv, Follow, There
  <1>8. Known'
    <2>1. canvas[d] = NoRecord /\ trust[d] = NoRecord /\ d \notin unsynced
      BY <1>1 DEF TempoInv, Known
    <2>2. \A x \in seen : x \in seen'
      BY <1>1
    <2>3. \A e \in Turntables : e \notin seen' => ~There(e)' /\ trust'[e] = NoRecord
      BY <1>1, <1>4, <2>2 DEF TempoInv, Known, There
    <2>4. ASSUME NEW e \in Turntables
          PROVE  /\ canvas'[e] = IF There(e)' THEN table'[e].file ELSE NoRecord
                 /\ There(e)' =>
                     /\ trust'[e] # NoRecord => <<e, trust'[e]>> \in seen'
                     /\ table'[e].file # NoRecord => <<e, table'[e].file>> \in seen'
      <3>1. CASE e = d
        BY <1>1, <1>3, <1>4, <2>1, <3>1
      <3>2. CASE e # d
        BY <1>1, <1>4, <2>2, <3>2 DEF TempoInv, Known, There
      <3> QED BY <3>1, <3>2
    <2>5. \A e \in unsynced' : There(e)' /\ table'[e].file # NoRecord
      BY <1>1, <1>2, <1>4, <2>1 DEF TempoInv, Known, There, TempoTypeOK
    <2> QED BY <2>3, <2>4, <2>5 DEF Known
  <1>9. Grounded'
    <2> SUFFICES ASSUME NEW e \in Turntables, There(e)', table'[e].file # NoRecord
                 PROVE  GridOf(e, table[e].file)'
      BY DEF Grounded
    <2>1. e # d /\ table'[e] = table[e] /\ There(e)
      BY <1>3, <1>4 DEF There
    <2>2. GridOf(e, table[e].file)
      BY <2>1 DEF TempoInv, Grounded
    <2> QED BY <1>1, <2>1, <2>2 DEF GridOf
  <1> QED BY <1>5, <1>6, <1>7, <1>8, <1>9 DEF TempoInv

\* The main tempo is set to one that was tapped, or loses its deck (setMasterBpm, setMasterDeck).
LEMMA TapIs ==
  ASSUME table \in Tables, lead \in Leads,
         ClearMaster \/ \E bpm \in Taps \cup {NoTempo} : SetMasterBpm(bpm)
  PROVE  Turns(table) /\ UNCHANGED Grids
  <1>1. PICK bpm \in Int \cup {NoTempo} :
          Becomes(table, [deck |-> NoRecord, bpm |-> bpm]) /\ UNCHANGED Grids
    <2>1. CASE ClearMaster
      <3>1. lead.bpm \in Int \cup {NoTempo}
        BY DEF Leads
      <3>2. [lead EXCEPT !.deck = NoRecord] = [deck |-> NoRecord, bpm |-> lead.bpm]
        BY DEF Leads
      <3> QED BY <2>1, <3>1, <3>2 DEF ClearMaster
    <2>2. CASE \E bpm \in Taps \cup {NoTempo} : SetMasterBpm(bpm)
      <3>1. PICK bpm \in Taps \cup {NoTempo} : SetMasterBpm(bpm)
        BY <2>2
      <3>2. bpm \in Int \cup {NoTempo}
        BY TempoAssumption
      <3> QED BY <3>1, <3>2 DEF SetMasterBpm
    <2> QED BY <2>1, <2>2
  <1> DEFINE mn == [deck |-> NoRecord, bpm |-> bpm]
  <1>2. mn \in Leads /\ Sound(table, mn)
    BY DEF Leads, Sound
  <1>3. Becomes(table, mn)
    BY <1>1
  <1> HIDE DEF mn
  <1> QED BY <1>1, <1>2, <1>3, BecomesIs

\* A main tempo without a deck leaves the grids as they were.
LEMMA TapKeeps ==
  ASSUME TempoInv, ClearMaster \/ \E bpm \in Taps \cup {NoTempo} : SetMasterBpm(bpm)
  PROVE  TempoInv'
  <1>1. Turns(table) /\ UNCHANGED Grids
    BY TapIs, TempoTypes DEF TempoInv
  <1>2. \A e \in Turntables : Same(e, table[e])
    BY <1>1 DEF Turns
  <1>3. TempoTypeOK'
    BY <1>1 DEF TempoInv, TempoTypeOK, Turns, Tables, Leads, Grids
  <1>4. Known'
    BY <1>1, <1>2 DEF TempoInv, Known, Same, There, Grids, TempoTypeOK
  <1>5. Grounded'
    BY <1>1, <1>2 DEF TempoInv, Grounded, GridOf, Same, There, Grids
  <1> QED BY <1>1, <1>3, <1>4, <1>5 DEF TempoInv, Turns

\* The files of the decks, as they are loaded.
Loaded == {d \in Turntables : There(d) /\ table[d].file # NoRecord}
LoadedFiles == {p \in Pairs : p[1] \in Loaded /\ table[p[1]].file = p[2]}

\* A page that recovers the session has its decks, files, tempi and locks, and nothing of
\* what the page before knew of them (restoreSessionOnBoot).
LEMMA RecoverIs ==
  ASSUME table \in Tables, lead \in Leads, Sound(table, lead), Follow,
         NEW plays, Recover(plays)
  PROVE  /\ table' \in Tables /\ lead' = lead /\ Sound(table, lead)' /\ Follow'
         /\ \A d \in Turntables : Same(d, table[d])
         /\ trust' = NoFiles /\ unsynced' = Loaded /\ lookups' = {} /\ analyses' = LoadedFiles
         /\ canvas' = [d \in Turntables |-> IF d \in Loaded THEN table[d].file ELSE NoRecord]
         /\ seen' = {d \in Turntables : There(d)} \cup LoadedFiles
         /\ saved' = saved /\ good' = good
  <1>1. /\ table' = [d \in Turntables |-> IF d \in Loaded
                        THEN [table[d] EXCEPT !.playing = d \in plays] ELSE table[d]]
        /\ trust' = NoFiles /\ unsynced' = Loaded /\ lookups' = {} /\ analyses' = LoadedFiles
        /\ canvas' = [d \in Turntables |-> IF d \in Loaded THEN table[d].file ELSE NoRecord]
        /\ seen' = {d \in Turntables : There(d)} \cup LoadedFiles
        /\ lead' = lead /\ saved' = saved /\ good' = good
    BY DEF Recover, Loaded, LoadedFiles
  <1>2. ASSUME NEW d \in Turntables
        PROVE  /\ table'[d] \in TableRec \cup {NoRecord} /\ (There(d)' <=> There(d))
               /\ There(d) => /\ table'[d].file = table[d].file /\ table'[d].bpm = table[d].bpm
                              /\ table'[d].rate = table[d].rate
                              /\ table'[d].locked = table[d].locked
    <2>1. CASE d \in Loaded
      <3>1. table[d] \in TableRec
        BY <2>1 DEF Loaded, There, Tables
      <3>2. table'[d] = [table[d] EXCEPT !.playing = d \in plays]
        BY <1>1, <2>1
      <3>3. (d \in plays) \in BOOLEAN
        OBVIOUS
      <3>4. /\ table'[d] \in TableRec
            /\ table'[d].file = table[d].file /\ table'[d].bpm = table[d].bpm
            /\ table'[d].rate = table[d].rate /\ table'[d].locked = table[d].locked
        BY <3>1, <3>2, <3>3 DEF TableRec
      <3> QED BY <2>1, <3>4, NoDeckAssumption DEF Loaded, There
    <2>2. CASE d \notin Loaded
      <3>1. table'[d] = table[d]
        BY <1>1, <2>2
      <3> QED BY <3>1 DEF There, Tables
    <2> QED BY <2>1, <2>2
  <1>3. table' \in Tables
    <2>1. table' = [d \in Turntables |-> table'[d]]
      BY <1>1
    <2> QED BY <1>2, <2>1 DEF Tables
  <1>4. Sound(table, lead)'
    BY <1>1, <1>2 DEF Sound, There, Leads, TempoOf
  <1>5. Follow'
    <2> SUFFICES ASSUME NEW d \in Turntables \ {lead.deck}, There(d)', table'[d].locked,
                        table'[d].bpm # NoTempo, lead.bpm # NoTempo
                 PROVE  TempoOf(table'[d]) = lead.bpm
      BY <1>1 DEF Follow
    <2>1. /\ There(d) /\ table[d].locked /\ table[d].bpm # NoTempo
          /\ TempoOf(table'[d]) = TempoOf(table[d])
      BY <1>2 DEF TempoOf
    <2> QED BY <2>1 DEF Follow
  <1>6. \A d \in Turntables : Same(d, table[d])
    BY <1>2 DEF Same, There
  <1> QED BY <1>1, <1>3, <1>4, <1>5, <1>6

\* A loaded deck of the recovered session is looked up and analysed again, and what either
\* makes of it is as good as before.
LEMMA RecoverKeeps ==
  ASSUME TempoInv, Slips = {}, NEW plays, Recover(plays)
  PROVE  TempoInv'
  <1>1. TempoTypeOK /\ table \in Tables /\ lead \in Leads
    BY TempoTypes DEF TempoInv
  <1>2. /\ table' \in Tables /\ lead' = lead /\ Sound(table, lead)' /\ Follow'
        /\ \A d \in Turntables : Same(d, table[d])
        /\ trust' = NoFiles /\ unsynced' = Loaded /\ lookups' = {} /\ analyses' = LoadedFiles
        /\ canvas' = [d \in Turntables |-> IF d \in Loaded THEN table[d].file ELSE NoRecord]
        /\ seen' = {d \in Turntables : There(d)} \cup LoadedFiles
        /\ saved' = saved /\ good' = good
    BY <1>1, RecoverIs DEF TempoInv
  <1>3. \A d \in Turntables :
          /\ There(d)' <=> There(d)
          /\ There(d) => table'[d].file = table[d].file /\ table'[d].bpm = table[d].bpm
    BY <1>2 DEF Same, There
  <1>4. \A d \in Loaded : table[d].file \in Records /\ <<d, table[d].file>> \in LoadedFiles
    <2> SUFFICES ASSUME NEW d \in Loaded
                 PROVE  table[d].file \in Records /\ <<d, table[d].file>> \in LoadedFiles
      OBVIOUS
    <2>1. d \in Turntables /\ table[d].file \in Records
      BY TempoTypes DEF TempoInv, Loaded
    <2> QED BY <2>1 DEF LoadedFiles, Pairs
  <1>5. LoadedFiles \subseteq Pairs /\ Loaded \subseteq Turntables
    BY DEF LoadedFiles, Loaded
  <1>6. TempoTypeOK'
    <2>1. /\ trust' \in [Turntables -> Records \cup {NoRecord}]
          /\ canvas' \in [Turntables -> Records \cup {NoRecord}]
      BY <1>2, <1>4 DEF NoFiles
    <2>2. seen' \subseteq Turntables \cup Pairs
      BY <1>2, <1>5
    <2> QED BY <1>1, <1>2, <1>5, <2>1, <2>2 DEF TempoTypeOK, Tables, Leads
  <1>7. Known'
    <2>1. \A d \in Turntables : trust'[d] = NoRecord /\ (There(d) => d \in seen')
      BY <1>2 DEF NoFiles
    <2>2. \A e \in Turntables : e \notin seen' => ~There(e)' /\ trust'[e] = NoRecord
      BY <1>3, <2>1
    <2>3. \A e \in Turntables : canvas'[e] = IF There(e)' THEN table'[e].file ELSE NoRecord
      BY <1>2, <1>3 DEF Loaded
    <2>4. \A e \in unsynced' : There(e)' /\ table'[e].file # NoRecord
      BY <1>2, <1>3 DEF Loaded
    <2>5. \A e \in Turntables : There(e)' /\ table'[e].file # NoRecord =>
            <<e, table'[e].file>> \in seen'
      BY <1>2, <1>3, <1>4 DEF Loaded
    <2> QED BY <2>1, <2>2, <2>3, <2>4, <2>5 DEF Known
  <1>8. Grounded'
    <2> SUFFICES ASSUME NEW d \in Turntables, There(d)', table'[d].file # NoRecord
                 PROVE  GridOf(d, table[d].file)'
      BY DEF Grounded
    <2> DEFINE f == table[d].file
    <2>1. d \in Loaded /\ table'[d].file = f /\ f # NoRecord
      BY <1>3 DEF Loaded
    <2>2. GridOf(d, f)
      BY <2>1 DEF TempoInv, Grounded, Loaded
    <2>3. <<d, f>> \in analyses' /\ d \in unsynced' /\ trust'[d] = NoRecord
      BY <1>2, <1>4, <2>1 DEF NoFiles
    <2>4. trust[d] = f => saved[f] # NoTempo
      BY <2>1 DEF Recover, Loaded
    <2> HIDE DEF f
    <2> QED BY <1>2, <2>1, <2>2, <2>3, <2>4 DEF GridOf
  <1> QED BY <1>2, <1>6, <1>7, <1>8 DEF TempoInv

\* The decks of a new session are empty (initial of session.ts).
LEMMA NewTableIs ==
  /\ NewTable \in Tables /\ NoLead \in Leads
  /\ \A d \in Turntables : NewTable[d] # NoRecord <=> d \in First
  /\ \A d \in First : NewTable[d].file = NoRecord /\ NewTable[d].bpm = NoTempo
                       /\ ~NewTable[d].locked
  <1>1. MadeDeck \in TableRec /\ MadeDeck.file = NoRecord /\ MadeDeck.bpm = NoTempo
        /\ ~MadeDeck.locked
    BY DEF MadeDeck, TableRec
  <1>2. MadeDeck # NoRecord /\ First \subseteq Turntables
    BY <1>1, NoDeckAssumption, TempoAssumption
  <1> HIDE DEF MadeDeck
  <1> QED BY <1>1, <1>2 DEF NewTable, NoLead, Tables, Leads

\* A page with a new session has nothing loaded, and the main tempo it takes over follows no
\* deck with a grid.
FreshPage ==
    /\ table = NewTable /\ trust = NoFiles /\ canvas = NoFiles
    /\ unsynced = {} /\ lookups = {} /\ analyses = {}
    /\ good = [d \in Turntables |-> {}] /\ seen = First

TakenOver ==
    /\ FreshPage /\ lead \in Leads /\ saved \in [Records -> Int \cup {NoTempo}]
    /\ "ghostMaster" \in Slips \/ lead.deck \in First \cup {NoRecord}

\* Such a page satisfies the invariant, as long as the deck of its main tempo is there.
LEMMA FreshPageIs ==
  TakenOver => TempoInv
  <1> SUFFICES ASSUME TakenOver PROVE TempoInv
    OBVIOUS
  <1>1. First \subseteq Turntables
    BY TempoAssumption
  <1>2. table \in Tables /\ \A d \in Turntables : There(d) <=> d \in First
    BY NewTableIs DEF TakenOver, FreshPage, There
  <1>3. \A d \in First : table[d].file = NoRecord /\ table[d].bpm = NoTempo /\ ~table[d].locked
    BY NewTableIs DEF TakenOver, FreshPage
  <1>4. TempoTypeOK
    BY <1>1, <1>2 DEF TakenOver, FreshPage, TempoTypeOK, NoFiles, Tables, Leads
  <1>5. Sound(table, lead)
    <2>1. ASSUME lead.deck # NoRecord
          PROVE  /\ "ghostMaster" \in Slips \/ There(lead.deck)
                 /\ There(lead.deck) => table[lead.deck].bpm = NoTempo
      BY <1>1, <1>2, <1>3, <2>1 DEF TakenOver, Leads
    <2> QED BY <2>1 DEF Sound, There
  <1>6. Follow
    BY <1>2, <1>3 DEF Follow
  <1>7. Known
    BY <1>2, <1>3 DEF TakenOver, FreshPage, Known, NoFiles
  <1>8. Grounded
    BY <1>2, <1>3 DEF Grounded
  <1> QED BY <1>4, <1>5, <1>6, <1>7, <1>8 DEF TempoInv

\* The program starts with a new session.
LEMMA TempoInitIs ==
  ASSUME TempoInit
  PROVE  TempoInv
  <1>1. FreshPage /\ lead = NoLead /\ saved = Stored
    BY DEF TempoInit, FreshPage
  <1>2. lead \in Leads /\ lead.deck = NoRecord /\ saved \in [Records -> Int \cup {NoTempo}]
    BY <1>1, NewTableIs, TempoAssumption DEF NoLead
  <1> QED BY <1>1, <1>2, FreshPageIs DEF TakenOver

\* So does a program that starts again.
LEMMA StartAnewKeeps ==
  ASSUME lead \in Leads, saved \in [Records -> Int \cup {NoTempo}], StartAnew
  PROVE  TempoInv'
  <1>1. FreshPage'
    BY DEF StartAnew, FreshPage
  <1>2. saved' = saved /\ lead' \in Leads
    BY NewTableIs DEF StartAnew
  <1>3. "ghostMaster" \in Slips \/ lead'.deck \in First \cup {NoRecord}
    BY DEF StartAnew, NoLead
  <1>4. TakenOver'
    BY <1>1, <1>2, <1>3 DEF TakenOver
  <1> QED BY <1>4, FreshPageIs, PTL

\* The main tempo is its deck's, the locked decks play at it, and a deck for which nothing
\* is under way has a grid of its own file, a saved or trusted one rather than that of
\* the analysis, through reloads of the page and restarts of the program (TemposAreCurrent:
\* reconcileMaster, applyLockedRates, the grids' sources, restoreSessionOnBoot).
THEOREM TemposAreCurrentHolds ==
  ASSUME Slips = {}
  PROVE  TempoSpec => []TemposAreCurrent
  <1>1. TempoInit => TempoInv
    BY TempoInitIs
  <1>2. TempoInv /\ [TempoWorld \/ TempoRuns]_tempoVars => TempoInv'
    <2> SUFFICES ASSUME TempoInv, [TempoWorld \/ TempoRuns]_tempoVars PROVE TempoInv'
      OBVIOUS
    <2>1. CASE UNCHANGED tempoVars
      BY <2>1 DEF tempoVars, TempoInv, TempoTypeOK, Sound, Follow, Known, Grounded, GridOf, There
    <2>2. ASSUME NEW d \in Turntables,
                 \/ AddDeck(d) \/ RemoveDeck(d) \/ SetMaster(d) \/ PressPlay(d) \/ PressLock(d)
                 \/ FreeDeck(d) \/ SetBeat(d)
          PROVE  TempoInv'
      <3>2. CASE PressPlay(d) \/ PressLock(d)
        <4>1. 0 \in Int /\ TRUE \in BOOLEAN
          OBVIOUS
        <4> QED BY <3>2, <4>1, HandKeeps
      <3> QED BY <2>2, <3>2, AddDeckKeeps, RemoveDeckKeeps, SetMasterKeeps, FreeDeckKeeps, SetBeatKeeps
    <2>3. ASSUME NEW d \in Turntables, NEW r \in Faders, MoveFader(d, r) PROVE TempoInv'
      <3>1. r \in Int /\ TRUE \in BOOLEAN
        BY TempoAssumption
      <3> QED BY <2>3, <3>1, HandKeeps
    <2>4. ASSUME NEW d \in Turntables, NEW f \in Records, NEW asks \in BOOLEAN, Load(d, f, asks)
          PROVE  TempoInv'
      BY <2>4, LoadKeeps
    <2>5. ASSUME NEW d \in Turntables, NEW opens \in BOOLEAN, PressSync(d, opens) PROVE TempoInv'
      <3>1. 0 \in Int
        OBVIOUS
      <3> QED BY <2>5, <3>1, HandKeeps
    <2>6. CASE TempoRuns
      BY <2>6, SyncGridKeeps, GridGetSavedKeeps, AnalyzedKeeps DEF TempoRuns
    <2>7. CASE StartAnew
      <3>1. lead \in Leads /\ saved \in [Records -> Int \cup {NoTempo}]
        BY DEF TempoInv, TempoTypeOK, Leads
      <3> QED BY <2>7, <3>1, StartAnewKeeps
    <2>8. CASE ClearMaster \/ (\E bpm \in Taps \cup {NoTempo} : SetMasterBpm(bpm))
               \/ \E plays \in SUBSET Turntables : Recover(plays)
      BY <2>8, TapKeeps, RecoverKeeps
    <2> QED BY <2>1, <2>2, <2>3, <2>4, <2>5, <2>6, <2>7, <2>8 DEF TempoWorld
  <1>3. TempoInv => TemposAreCurrent
    <2> SUFFICES ASSUME TempoInv PROVE TemposAreCurrent
      OBVIOUS
    <2>1. ASSUME NEW d \in Turntables, There(d), table[d].file # NoRecord, d \notin unsynced,
                 <<d, table[d].file>> \notin lookups \cup analyses
          PROVE  table[d].bpm \in good[d]
      BY <2>1 DEF TempoInv, Grounded, GridOf
    <2> QED BY <2>1 DEF TempoInv, Sound, Follow, There, TemposAreCurrent, SavedGridsWin
  <1> QED BY <1>1, <1>2, <1>3, PTL DEF TempoSpec

\* What the code's looks at a deck rely on, whichever slips happen: a load that is yet to be
\* seen is of a deck and a file, and a waveform that shows a file is a deck's.
Held ==
    /\ \A d \in unsynced : There(d) /\ table[d].file # NoRecord
    /\ \A d \in Turntables : canvas[d] # NoRecord => There(d)

GridsTyped ==
    /\ saved \in [Records -> Int \cup {NoTempo}]
    /\ trust \in [Turntables -> Records \cup {NoRecord}]
    /\ canvas \in [Turntables -> Records \cup {NoRecord}]
    /\ unsynced \subseteq Turntables /\ lookups \subseteq Pairs /\ analyses \subseteq Pairs
    /\ good \in [Turntables -> SUBSET (Int \cup {NoTempo})]
    /\ seen \subseteq Turntables \cup Pairs

TempoSafe ==
    /\ table \in Tables /\ lead \in Leads /\ GridsTyped
    /\ Sound(table, lead) /\ Follow /\ Held

\* Which is of the types.
LEMMA TempoSafeTypes ==
  TempoSafe => TempoTypeOK
  BY DEF TempoSafe, GridsTyped, TempoTypeOK, Tables, Leads

\* The invariant without slips is the stronger one.
LEMMA TempoInvSafe ==
  TempoInv => TempoSafe
  BY DEF TempoInv, TempoTypeOK, TempoSafe, GridsTyped, Tables, Leads, Known, Held

\* A deck is patched, and what is known of the grids may change with it.
LEMMA UpdateSafe ==
  ASSUME TempoSafe, NEW d \in Turntables, There(d), NEW disc \in TableRec,
         NEW reconciles \in BOOLEAN, UpdateDeck(d, disc, reconciles), GridsTyped',
         \A e \in unsynced' : IF e = d THEN disc.file # NoRecord ELSE e \in unsynced,
         \A e \in Turntables \ {d} : canvas'[e] # NoRecord => canvas[e] # NoRecord
  PROVE  TempoSafe'
  <1> DEFINE t == [table EXCEPT ![d] = disc]
  <1>1. Turns(t)
    BY UpdateIs DEF TempoSafe
  <1>2. t[d] = disc /\ \A e \in Turntables \ {d} : t[e] = table[e]
    BY DEF TempoSafe, Tables
  <1> HIDE DEF t
  <1>3. /\ There(d)' /\ table'[d].file = disc.file
        /\ \A e \in Turntables \ {d} : Same(e, table[e])
    BY <1>1, <1>2, NoDeckAssumption DEF Turns, Same
  <1>4. Held'
    <2>1. ASSUME NEW e \in unsynced' PROVE There(e)' /\ table'[e].file # NoRecord
      <3>1. CASE e = d
        BY <1>3, <2>1, <3>1
      <3>2. CASE e # d
        <4>1. e \in unsynced /\ e \in Turntables
          BY <2>1, <3>2 DEF GridsTyped
        <4> QED BY <1>3, <3>2, <4>1 DEF TempoSafe, Held, Same, There
      <3> QED BY <3>1, <3>2
    <2>2. ASSUME NEW e \in Turntables, canvas'[e] # NoRecord PROVE There(e)'
      BY <1>3, <2>2 DEF TempoSafe, Held, Same, There
    <2> QED BY <2>1, <2>2 DEF Held
  <1> QED BY <1>1, <1>4 DEF TempoSafe, Turns

\* The hand: a press of play, the fader, the lock and the sync.
LEMMA HandSafe ==
  ASSUME TempoSafe, NEW d \in Turntables, NEW r \in Int, NEW opens \in BOOLEAN,
         PressPlay(d) \/ MoveFader(d, r) \/ PressLock(d) \/ PressSync(d, opens)
  PROVE  TempoSafe'
  <1>1. There(d) /\ UNCHANGED Grids
    BY DEF PressPlay, MoveFader, PressLock, PressSync
  <1>2. table[d] \in TableRec /\ table[d].bpm \in Int \cup {NoTempo} /\ table[d].rate \in Int
        /\ table[d].playing \in BOOLEAN /\ table[d].locked \in BOOLEAN
    BY <1>1, DeckFields DEF TempoSafe, There, Tables
  <1>3. lead.bpm \in Int \cup {NoTempo}
    BY DEF TempoSafe, Leads
  <1>4. GridsTyped' /\ unsynced' = unsynced /\ canvas' = canvas
    BY <1>1 DEF TempoSafe, GridsTyped, Grids
  <1>5. ASSUME NEW rate \in Int, NEW playing \in BOOLEAN, NEW locked \in BOOLEAN,
               NEW reconciles \in BOOLEAN,
               UpdateDeck(d, [table[d] EXCEPT !.rate = rate, !.playing = playing,
                                              !.locked = locked], reconciles)
        PROVE  TempoSafe'
    <2> DEFINE disc == [table[d] EXCEPT !.rate = rate, !.playing = playing, !.locked = locked]
    <2>1. disc \in TableRec /\ disc.file = table[d].file
      BY <1>2, <1>5 DEF TableRec
    <2>2. UpdateDeck(d, disc, reconciles)
      BY <1>5
    <2> HIDE DEF disc
    <2>3. \A e \in unsynced' : IF e = d THEN disc.file # NoRecord ELSE e \in unsynced
      BY <1>4, <2>1 DEF TempoSafe, Held
    <2> QED BY <1>1, <1>4, <2>1, <2>2, <2>3, UpdateSafe
  <1>6. CASE PressPlay(d)
    <2>1. UpdateDeck(d, [table[d] EXCEPT !.playing = ~@], TRUE)
      BY <1>6 DEF PressPlay
    <2>2. [table[d] EXCEPT !.playing = ~@] =
            [table[d] EXCEPT !.rate = table[d].rate, !.playing = ~table[d].playing,
                             !.locked = table[d].locked]
      BY <1>2 DEF TableRec
    <2>3. ASSUME NEW b \in BOOLEAN PROVE (~b) \in BOOLEAN
      OBVIOUS
    <2> QED BY <1>2, <1>5, <2>1, <2>2, <2>3
  <1>7. CASE MoveFader(d, r)
    <2>1. UpdateDeck(d, [table[d] EXCEPT !.rate = r, !.locked = FALSE], FALSE)
      BY <1>7 DEF MoveFader
    <2>2. [table[d] EXCEPT !.rate = r, !.locked = FALSE] =
            [table[d] EXCEPT !.rate = r, !.playing = table[d].playing, !.locked = FALSE]
      BY <1>2 DEF TableRec
    <2> QED BY <1>2, <1>5, <2>1, <2>2
  <1>8. CASE PressLock(d) \/ PressSync(d, opens)
    <2>1. table[d].bpm \in Int /\ lead.bpm \in Int
      BY <1>2, <1>3, <1>8 DEF PressLock, PressSync
    <2>2. lead.bpm - table[d].bpm \in Int /\ (table[d].locked /\ ~opens) \in BOOLEAN
      BY <1>2, <2>1
    <2>3. \E rate \in Int, locked \in BOOLEAN :
            UpdateDeck(d, [table[d] EXCEPT !.rate = rate, !.locked = locked], FALSE)
      <3>1. CASE PressLock(d) /\ table[d].locked
        <4>1. UpdateDeck(d, [table[d] EXCEPT !.locked = FALSE], FALSE)
          BY <3>1 DEF PressLock
        <4>2. [table[d] EXCEPT !.locked = FALSE]
                = [table[d] EXCEPT !.rate = table[d].rate, !.locked = FALSE]
          BY <1>2 DEF TableRec
        <4> QED BY <1>2, <4>1, <4>2
      <3>2. CASE PressLock(d) /\ ~table[d].locked
        <4>1. UpdateDeck(d, [table[d] EXCEPT !.locked = TRUE,
                                             !.rate = lead.bpm - table[d].bpm], FALSE)
          BY <3>2 DEF PressLock
        <4>2. [table[d] EXCEPT !.locked = TRUE, !.rate = lead.bpm - table[d].bpm]
                = [table[d] EXCEPT !.rate = lead.bpm - table[d].bpm, !.locked = TRUE]
          BY <1>2 DEF TableRec
        <4> QED BY <2>2, <4>1, <4>2
      <3>3. CASE PressSync(d, opens)
        <4>1. UpdateDeck(d, [table[d] EXCEPT !.rate = lead.bpm - table[d].bpm,
                                             !.locked = @ /\ ~opens], FALSE)
          BY <3>3 DEF PressSync
        <4>2. [table[d] EXCEPT !.rate = lead.bpm - table[d].bpm, !.locked = @ /\ ~opens]
                = [table[d] EXCEPT !.rate = lead.bpm - table[d].bpm,
                                   !.locked = (table[d].locked /\ ~opens)]
          BY <1>2 DEF TableRec
        <4> QED BY <2>2, <4>1, <4>2
      <3> QED BY <1>8, <3>1, <3>2, <3>3
    <2>4. PICK rate \in Int, locked \in BOOLEAN :
            UpdateDeck(d, [table[d] EXCEPT !.rate = rate, !.locked = locked], FALSE)
      BY <2>3
    <2>5. [table[d] EXCEPT !.rate = rate, !.locked = locked] =
            [table[d] EXCEPT !.rate = rate, !.playing = table[d].playing, !.locked = locked]
      BY <1>2 DEF TableRec
    <2> QED BY <1>2, <1>5, <2>4, <2>5
  <1> QED BY <1>6, <1>7, <1>8

\* Decks come and go, and the reference is set by hand.
LEMMA DecksSafe ==
  ASSUME TempoSafe, NEW d \in Turntables, AddDeck(d) \/ RemoveDeck(d) \/ SetMaster(d)
  PROVE  TempoSafe'
  <1>1. table \in Tables /\ lead \in Leads /\ Sound(table, lead)
    BY DEF TempoSafe
  <1>2. CASE AddDeck(d)
    <2>1. MadeDeck \in TableRec /\ MadeDeck.file = NoRecord /\ MadeDeck.bpm = NoTempo
          /\ ~MadeDeck.locked
      BY DEF MadeDeck, TableRec
    <2>2. /\ ~There(d) /\ table' = [table EXCEPT ![d] = MadeDeck] /\ seen' = seen \cup {d}
          /\ UNCHANGED <<lead, saved, trust, canvas, unsynced, lookups, analyses, good>>
      BY <1>2 DEF AddDeck
    <2>3. table' \in Tables /\ table'[d] = MadeDeck /\ \A e \in Turntables \ {d} : table'[e] = table[e]
      BY <1>1, <2>1, <2>2 DEF Tables
    <2> HIDE DEF MadeDeck
    <2>4. Sound(table, lead)'
      <3>1. CASE lead.deck = d
        BY <2>1, <2>2, <2>3, <3>1, <1>1 DEF Sound, There
      <3>2. CASE lead.deck # d
        <4>1. lead.deck # NoRecord => table'[lead.deck] = table[lead.deck]
          BY <1>1, <2>3, <3>2 DEF Leads
        <4> QED BY <1>1, <2>2, <4>1 DEF Sound
      <3> QED BY <3>1, <3>2
    <2>6. Follow'
      BY <2>1, <2>2, <2>3 DEF TempoSafe, Follow, There
    <2>7. Held'
      BY <2>2, <2>3, <2>1, NoDeckAssumption DEF TempoSafe, Held, There, GridsTyped
    <2>8. GridsTyped'
      BY <2>2 DEF TempoSafe, GridsTyped
    <2> QED BY <1>1, <2>2, <2>3, <2>4, <2>6, <2>7, <2>8 DEF TempoSafe
  <1>3. CASE RemoveDeck(d)
    <2> DEFINE t == [table EXCEPT ![d] = NoRecord]
               mn == IF lead.deck = d THEN [lead EXCEPT !.deck = NoRecord] ELSE lead
    <2>1. /\ Becomes(t, ReconcileMaster(t, mn))
          /\ canvas' = [canvas EXCEPT ![d] = NoRecord]
          /\ analyses' = {p \in analyses : p[1] # d}
          /\ unsynced' = unsynced \ {d}
          /\ seen' = {x \in seen : x = d \/ x \notin {d} \X Records}
          /\ saved' = saved /\ trust' = trust /\ lookups' = lookups /\ good' = good
      BY <1>3 DEF RemoveDeck
    <2>2. t \in Tables /\ t[d] = NoRecord /\ \A e \in Turntables \ {d} : t[e] = table[e]
      BY <1>1 DEF Tables
    <2>3. mn \in Leads /\ Sound(t, mn)
      <3>1. CASE lead.deck = d
        BY <1>1, <3>1 DEF Leads, Sound
      <3>2. CASE lead.deck # d
        BY <1>1, <2>2, <3>2 DEF Leads, Sound
      <3> QED BY <3>1, <3>2
    <2>4. Turns(t)
      <3> HIDE DEF mn, t
      <3>1. ReconcileMaster(t, mn) \in Leads /\ Sound(t, ReconcileMaster(t, mn))
        BY <2>2, <2>3, ReconcileIs
      <3> QED BY <2>1, <2>2, <3>1, BecomesIs DEF mn, t
    <2>5. \A e \in Turntables \ {d} : Same(e, table[e])
      BY <2>2, <2>4 DEF Turns
    <2>6. GridsTyped'
      BY <2>1 DEF TempoSafe, GridsTyped
    <2>7. Held'
      BY <2>1, <2>5 DEF TempoSafe, GridsTyped, Held, Same, There
    <2> QED BY <2>4, <2>6, <2>7 DEF TempoSafe, Turns
  <1>4. CASE SetMaster(d)
    <2> DEFINE mn == [deck |-> d, bpm |-> TempoOf(table[d])]
    <2>1. There(d) /\ table[d].bpm \in Int /\ table[d].rate \in Int
      <3>1. There(d) /\ table[d].bpm # NoTempo /\ table[d] \in TableRec
        BY <1>1, <1>4 DEF SetMaster, There, Tables
      <3> QED BY <3>1, DeckFields
    <2>2. mn \in Leads /\ Sound(table, mn)
      <3>1. TempoOf(table[d]) \in Int
        BY <2>1 DEF TempoOf
      <3> QED BY <2>1, <3>1 DEF Leads, Sound, There
    <2>3. Becomes(table, mn) /\ UNCHANGED Grids
      BY <1>4 DEF SetMaster, Grids
    <2> HIDE DEF mn
    <2>4. Turns(table)
      BY <1>1, <2>2, <2>3, BecomesIs
    <2>5. GridsTyped'
      BY <2>3 DEF TempoSafe, GridsTyped, Grids
    <2>6. Held'
      BY <2>3, <2>4 DEF TempoSafe, GridsTyped, Held, Turns, Same, There, Grids
    <2> QED BY <2>4, <2>5, <2>6 DEF TempoSafe, Turns
  <1> QED BY <1>2, <1>3, <1>4

\* A deck is freed, or loaded.
LEMMA LoadsSafe ==
  ASSUME TempoSafe, NEW d \in Turntables, NEW f \in Records, NEW asks \in BOOLEAN,
         FreeDeck(d) \/ Load(d, f, asks)
  PROVE  TempoSafe'
  <1>1. /\ There(d) /\ table[d] \in TableRec /\ table[d].bpm \in Int \cup {NoTempo}
        /\ f # NoRecord /\ f \in Records
    BY DeckFields, TempoAssumption DEF TempoSafe, There, Tables, FreeDeck, Load
  <1>2. CASE FreeDeck(d)
    <2> DEFINE disc == [table[d] EXCEPT !.file = NoRecord, !.playing = FALSE, !.locked = FALSE]
    <2>1. disc \in TableRec
      BY <1>1 DEF TableRec
    <2>2. /\ UpdateDeck(d, disc, TRUE)
          /\ canvas' = [canvas EXCEPT ![d] = NoRecord] /\ unsynced' = unsynced \ {d}
          /\ UNCHANGED <<saved, trust, lookups, analyses, good, seen>>
      BY <1>2 DEF FreeDeck
    <2> HIDE DEF disc
    <2>3. GridsTyped' /\ \A e \in Turntables \ {d} : canvas'[e] = canvas[e]
      BY <2>2 DEF TempoSafe, GridsTyped
    <2>4. \A e \in unsynced' : e # d /\ e \in unsynced
      BY <2>2
    <2>5. TRUE \in BOOLEAN
      OBVIOUS
    <2> QED BY <1>1, <2>1, <2>2, <2>3, <2>4, <2>5, UpdateSafe
  <1>3. CASE Load(d, f, asks)
    <2> DEFINE grid == IF asks THEN Digger[f] ELSE NoTempo
               trusted == grid # NoTempo /\ f \in Trusted
               disc == [table[d] EXCEPT !.file = f, !.playing = FALSE,
                                        !.bpm = IF grid # NoTempo THEN grid ELSE @]
               grids == IF trusted \/ saved[f] # NoTempo
                        THEN ((IF trusted THEN {grid} ELSE {}) \cup {saved[f]}) \ {NoTempo}
                        ELSE {Fit[f]}
    <2>1. grid \in Int \cup {NoTempo} /\ Fit[f] \in Int \cup {NoTempo} /\ saved[f] \in Int \cup {NoTempo}
      BY TempoAssumption DEF TempoSafe, GridsTyped
    <2>2. disc \in TableRec /\ disc.file = f
      <3> HIDE DEF grid
      <3> QED BY <1>1, <2>1 DEF TableRec
    <2>3. /\ UpdateDeck(d, disc, TRUE)
          /\ trust' = IF trusted THEN [trust EXCEPT ![d] = f] ELSE trust
          /\ unsynced' = unsynced \cup {d}
          /\ canvas' = [canvas EXCEPT ![d] = f]
          /\ analyses' = IF canvas[d] = f THEN analyses ELSE analyses \cup {<<d, f>>}
          /\ good' = [good EXCEPT ![d] = grids]
          /\ seen' = seen \cup {<<d, f>>}
          /\ saved' = saved /\ lookups' = lookups
      BY <1>3 DEF Load
    <2>4. grids \in SUBSET (Int \cup {NoTempo})
      <3> HIDE DEF grid
      <3> QED BY <2>1
    <2> HIDE DEF disc, grids, trusted
    <2>5. <<d, f>> \in Pairs
      BY DEF Pairs
    <2>6. GridsTyped'
      <3>1. good' \in [Turntables -> SUBSET (Int \cup {NoTempo})]
        BY <2>3, <2>4 DEF TempoSafe, GridsTyped
      <3>2. trust' \in [Turntables -> Records \cup {NoRecord}]
        BY <2>3 DEF TempoSafe, GridsTyped
      <3>3. /\ canvas' \in [Turntables -> Records \cup {NoRecord}] /\ unsynced' \subseteq Turntables
            /\ analyses' \subseteq Pairs /\ seen' \subseteq Turntables \cup Pairs
        BY <2>3, <2>5 DEF TempoSafe, GridsTyped
      <3> QED BY <2>3, <3>1, <3>2, <3>3 DEF TempoSafe, GridsTyped
    <2>7. \A e \in Turntables \ {d} : canvas'[e] = canvas[e]
      BY <2>3 DEF TempoSafe, GridsTyped
    <2>8. \A e \in unsynced' : IF e = d THEN disc.file # NoRecord ELSE e \in unsynced
      BY <1>1, <2>2, <2>3
    <2>9. TRUE \in BOOLEAN
      OBVIOUS
    <2> QED BY <1>1, <2>2, <2>3, <2>6, <2>7, <2>8, <2>9, UpdateSafe
  <1> QED BY <1>2, <1>3

\* SET BEAT, and the look at what a new file has.
LEMMA GridsSafe ==
  ASSUME TempoSafe, SyncGrid \/ \E d \in Turntables : SetBeat(d)
  PROVE  TempoSafe'
  <1>1. CASE SyncGrid
    <2>1. PICK d \in unsynced :
            LET f == table[d].file IN
            /\ unsynced' = unsynced \ {d}
            /\ trust' = IF HasSavedGrid(d, f) THEN trust ELSE [trust EXCEPT ![d] = NoRecord]
            /\ lookups' = IF HasSavedGrid(d, f) THEN lookups ELSE lookups \cup {<<d, f>>}
            /\ UNCHANGED <<table, lead, saved, canvas, analyses, good, seen>>
      BY <1>1 DEF SyncGrid
    <2>2. d \in Turntables /\ table[d].file \in Records
      <3>1. d \in Turntables /\ There(d) /\ table[d].file # NoRecord
        BY DEF TempoSafe, GridsTyped, Held
      <3>2. table[d] \in TableRec
        BY <3>1 DEF TempoSafe, There, Tables
      <3> QED BY <3>1, <3>2, DeckFields
    <2>3. <<d, table[d].file>> \in Pairs
      BY <2>2 DEF Pairs
    <2>4. trust' \in [Turntables -> Records \cup {NoRecord}] /\ lookups' \subseteq Pairs
      BY <2>1, <2>2, <2>3 DEF TempoSafe, GridsTyped
    <2> QED BY <2>1, <2>4 DEF TempoSafe, GridsTyped, Sound, Follow, Held, There
  <1>2. ASSUME NEW d \in Turntables, SetBeat(d) PROVE TempoSafe'
    <2> DEFINE f == table[d].file
    <2>1. table[d] \in TableRec /\ f \in Records /\ table[d].bpm \in Int
      <3>1. There(d) /\ f # NoRecord /\ table[d].bpm # NoTempo /\ table[d] \in TableRec
        BY <1>2 DEF SetBeat, TempoSafe, There, Tables
      <3> QED BY <3>1, DeckFields
    <2>2. /\ saved' = [saved EXCEPT ![f] = table[d].bpm] /\ trust' = [trust EXCEPT ![d] = f]
          /\ good' = [e \in Turntables |-> IF There(e) /\ table[e].file = table[d].file
                        THEN good[e] \cup ({table[d].bpm} \cap good[d]) ELSE good[e]]
          /\ UNCHANGED <<table, lead, canvas, unsynced, lookups, analyses, seen>>
      BY <1>2 DEF SetBeat
    <2> HIDE DEF f
    <2>3. good' \in [Turntables -> SUBSET (Int \cup {NoTempo})]
      BY <2>2 DEF TempoSafe, GridsTyped
    <2>4. /\ saved' \in [Records -> Int \cup {NoTempo}]
          /\ trust' \in [Turntables -> Records \cup {NoRecord}]
      BY <2>1, <2>2 DEF TempoSafe, GridsTyped
    <2> QED BY <2>2, <2>3, <2>4 DEF TempoSafe, GridsTyped, Sound, Follow, Held, There
  <1> QED BY <1>1, <1>2

\* The answers of gridGetSaved and of the analysis.
LEMMA AnswersSafe ==
  ASSUME TempoSafe, GridGetSaved \/ Analyzed
  PROVE  TempoSafe'
  <1>1. \A p \in Pairs : p[1] \in Turntables /\ p[2] \in Records /\ p = <<p[1], p[2]>>
    BY DEF Pairs
  <1>2. ASSUME NEW d \in Turntables, There(d), NEW bpm \in Int \cup {NoTempo},
               UpdateDeck(d, [table[d] EXCEPT !.bpm = bpm], TRUE), GridsTyped',
               unsynced' = unsynced, canvas' = canvas
        PROVE  TempoSafe'
    <2> DEFINE disc == [table[d] EXCEPT !.bpm = bpm]
    <2>1. table[d] \in TableRec
      BY <1>2 DEF TempoSafe, There, Tables
    <2>2. disc \in TableRec /\ disc.file = table[d].file
      BY <2>1 DEF TableRec
    <2>3. UpdateDeck(d, disc, TRUE)
      BY <1>2
    <2> HIDE DEF disc
    <2>4. \A e \in unsynced' : IF e = d THEN disc.file # NoRecord ELSE e \in unsynced
      BY <1>2, <2>2 DEF TempoSafe, Held
    <2>5. TRUE \in BOOLEAN
      OBVIOUS
    <2> QED BY <1>2, <2>2, <2>3, <2>4, <2>5, UpdateSafe
  <1>3. CASE GridGetSaved
    <2>1. PICK p \in lookups :
            /\ lookups' = lookups \ {p}
            /\ IF saved[p[2]] # NoTempo /\ There(p[1]) /\ table[p[1]].file = p[2]
               THEN /\ UpdateDeck(p[1], [table[p[1]] EXCEPT !.bpm = saved[p[2]]], TRUE)
                    /\ trust' = [trust EXCEPT ![p[1]] = p[2]]
               ELSE UNCHANGED <<table, lead, trust>>
            /\ UNCHANGED <<saved, canvas, unsynced, analyses, good, seen>>
      BY <1>3 DEF GridGetSaved
    <2>2. p[1] \in Turntables /\ p[2] \in Records /\ saved[p[2]] \in Int \cup {NoTempo}
      BY <1>1 DEF TempoSafe, GridsTyped
    <2>3. GridsTyped'
      BY <2>1, <2>2 DEF TempoSafe, GridsTyped
    <2>4. CASE saved[p[2]] # NoTempo /\ There(p[1]) /\ table[p[1]].file = p[2]
      BY <1>2, <2>1, <2>2, <2>3, <2>4
    <2>5. CASE UNCHANGED <<table, lead, trust>>
      BY <2>1, <2>3, <2>5 DEF TempoSafe, Sound, Follow, Held, There
    <2> QED BY <2>1, <2>4, <2>5
  <1>4. CASE Analyzed
    <2>1. PICK p \in analyses :
            /\ analyses' = analyses \ {p}
            /\ \/ /\ canvas[p[1]] = p[2]
                  /\ UpdateDeck(p[1], [table[p[1]] EXCEPT !.bpm = Fit[p[2]]], TRUE)
               \/ UNCHANGED <<table, lead>>
            /\ UNCHANGED <<saved, trust, canvas, unsynced, lookups, good, seen>>
      BY <1>4 DEF Analyzed
    <2>2. p[1] \in Turntables /\ p[2] \in Records /\ Fit[p[2]] \in Int \cup {NoTempo}
          /\ p[2] # NoRecord
      BY <1>1, TempoAssumption DEF TempoSafe, GridsTyped
    <2>3. GridsTyped'
      BY <2>1 DEF TempoSafe, GridsTyped
    <2>4. CASE UNCHANGED <<table, lead>>
      BY <2>1, <2>3, <2>4 DEF TempoSafe, Sound, Follow, Held, There
    <2>5. CASE canvas[p[1]] = p[2] /\ UpdateDeck(p[1], [table[p[1]] EXCEPT !.bpm = Fit[p[2]]], TRUE)
      <3>1. There(p[1])
        BY <2>2, <2>5 DEF TempoSafe, Held
      <3> QED BY <1>2, <2>1, <2>2, <2>3, <2>5, <3>1
    <2> QED BY <2>1, <2>4, <2>5
  <1> QED BY <1>3, <1>4

\* The main tempo is tapped, or the page or the program starts again.
LEMMA PageSafe ==
  ASSUME TempoSafe,
         \/ ClearMaster \/ StartAnew \/ \E bpm \in Taps \cup {NoTempo} : SetMasterBpm(bpm)
         \/ \E plays \in SUBSET Turntables : Recover(plays)
  PROVE  TempoSafe'
  <1>1. table \in Tables /\ lead \in Leads /\ Sound(table, lead) /\ Follow
    BY DEF TempoSafe
  <1>2. CASE ClearMaster \/ \E bpm \in Taps \cup {NoTempo} : SetMasterBpm(bpm)
    <2>1. Turns(table) /\ UNCHANGED Grids
      BY <1>1, <1>2, TapIs
    <2>2. GridsTyped'
      BY <2>1 DEF TempoSafe, GridsTyped, Grids
    <2>3. Held'
      BY <2>1 DEF TempoSafe, GridsTyped, Held, Turns, Same, There, Grids
    <2> QED BY <2>1, <2>2, <2>3 DEF TempoSafe, Turns
  <1>3. CASE StartAnew
    <2>1. lead \in Leads /\ saved \in [Records -> Int \cup {NoTempo}]
      BY DEF TempoSafe, GridsTyped
    <2>2. TempoInv'
      BY <1>3, <2>1, StartAnewKeeps
    <2> QED BY <2>2, TempoInvSafe, PTL
  <1>4. ASSUME NEW plays \in SUBSET Turntables, Recover(plays)
        PROVE  TempoSafe'
    <2>1. /\ table' \in Tables /\ lead' = lead /\ Sound(table, lead)' /\ Follow'
          /\ \A d \in Turntables : Same(d, table[d])
          /\ trust' = NoFiles /\ unsynced' = Loaded /\ lookups' = {} /\ analyses' = LoadedFiles
          /\ canvas' = [d \in Turntables |-> IF d \in Loaded THEN table[d].file ELSE NoRecord]
          /\ seen' = {d \in Turntables : There(d)} \cup LoadedFiles
          /\ saved' = saved /\ good' = good
      BY <1>1, <1>4, RecoverIs
    <2>2. \A d \in Loaded : table[d].file \in Records
      <3>1. \A d \in Loaded : table[d] \in TableRec /\ table[d].file # NoRecord
        BY <1>1 DEF Loaded, There, Tables
      <3> QED BY <3>1, DeckFields
    <2>3. Loaded \subseteq Turntables /\ LoadedFiles \subseteq Pairs
      BY DEF Loaded, LoadedFiles
    <2>4. /\ trust' \in [Turntables -> Records \cup {NoRecord}]
          /\ canvas' \in [Turntables -> Records \cup {NoRecord}]
          /\ seen' \subseteq Turntables \cup Pairs
      BY <2>1, <2>2, <2>3 DEF NoFiles
    <2>5. GridsTyped'
      BY <2>1, <2>3, <2>4 DEF TempoSafe, GridsTyped
    <2>6. Held'
      BY <2>1 DEF Held, Loaded, Same, There
    <2> QED BY <1>1, <2>1, <2>5, <2>6 DEF TempoSafe
  <1> QED BY <1>2, <1>3, <1>4

\* Whichever slips happen, the state has its type, the main tempo is that of the deck it comes
\* from, as it now is, and every other locked deck plays at it (session.ts:116-118); the deck is
\* there, unless a restart took over the id of one that is not (bootRestore.ts:148).
THEOREM LockedDecksFollow ==
  TempoSpec => [](TempoTypeOK /\ Sound(table, lead) /\ Follow)
  <1>1. TempoInit => TempoSafe
    BY TempoInitIs, TempoInvSafe
  <1>2. TempoSafe /\ [TempoWorld \/ TempoRuns]_tempoVars => TempoSafe'
    <2> SUFFICES ASSUME TempoSafe, [TempoWorld \/ TempoRuns]_tempoVars PROVE TempoSafe'
      OBVIOUS
    <2>1. CASE UNCHANGED tempoVars
      BY <2>1 DEF tempoVars, TempoSafe, GridsTyped, Sound, Follow, Held, There
    <2>2. ASSUME NEW d \in Turntables, AddDeck(d) \/ RemoveDeck(d) \/ SetMaster(d)
          PROVE  TempoSafe'
      BY <2>2, DecksSafe
    <2>3. ASSUME NEW d \in Turntables, PressPlay(d) \/ PressLock(d) PROVE TempoSafe'
      <3>1. 0 \in Int /\ TRUE \in BOOLEAN
        OBVIOUS
      <3> QED BY <2>3, <3>1, HandSafe
    <2>4. ASSUME NEW d \in Turntables, NEW r \in Faders, MoveFader(d, r) PROVE TempoSafe'
      <3>1. r \in Int /\ TRUE \in BOOLEAN
        BY TempoAssumption
      <3> QED BY <2>4, <3>1, HandSafe
    <2>5. ASSUME NEW d \in Turntables, NEW opens \in BOOLEAN, PressSync(d, opens) PROVE TempoSafe'
      <3>1. 0 \in Int
        OBVIOUS
      <3> QED BY <2>5, <3>1, HandSafe
    <2>6. ASSUME NEW d \in Turntables, NEW f \in Records, NEW asks \in BOOLEAN, Load(d, f, asks)
          PROVE  TempoSafe'
      BY <2>6, LoadsSafe
    <2>7. ASSUME NEW d \in Turntables, FreeDeck(d) PROVE TempoSafe'
      <3>1. table[d].file \in Records /\ TRUE \in BOOLEAN
        <4>1. There(d) /\ table[d].file # NoRecord /\ table[d] \in TableRec
          BY <2>7 DEF FreeDeck, TempoSafe, There, Tables
        <4> QED BY <4>1, DeckFields
      <3> QED BY <2>7, <3>1, LoadsSafe
    <2>8. CASE TempoRuns \/ \E d \in Turntables : SetBeat(d)
      BY <2>8, GridsSafe, AnswersSafe DEF TempoRuns
    <2>9. CASE \/ ClearMaster \/ StartAnew \/ \E bpm \in Taps \cup {NoTempo} : SetMasterBpm(bpm)
               \/ \E plays \in SUBSET Turntables : Recover(plays)
      BY <2>9, PageSafe
    <2> QED BY <2>1, <2>2, <2>3, <2>4, <2>5, <2>6, <2>7, <2>8, <2>9 DEF TempoWorld
  <1>3. TempoSafe => TempoTypeOK /\ Sound(table, lead) /\ Follow
    BY TempoSafeTypes DEF TempoSafe
  <1> QED BY <1>1, <1>2, <1>3, PTL DEF TempoSpec

----------------------------------------------------------------------------
(* The controllers, none of which is unplugged and plugged in again between *)
(* two passes of the supervisor.                                            *)

\* The halves of 14-bit values come in pairs, the coarse one first; it may be heard already.
Paired(w, c) ==
    /\ \A i \in 1..Len(w) : w[i].half = "msb" => i < Len(w) /\ w[i + 1].half = "lsb"
    /\ \A i \in 1..Len(w) : w[i].half = "lsb" =>
         IF i = 1 THEN c.msb # Silent ELSE w[i - 1].half = "msb"
NoFineAfter(w, k) == \A i \in 1..Len(w) : i > k => w[i].half # "lsb"

\* The last pair is where the fader stands, on the wire or heard.
Ending(w, c, x) ==
    \A i \in 1..Len(w) : w[i].half = "lsb" /\ NoFineAfter(w, i) =>
        Base * (IF i = 1 THEN c.msb ELSE w[i - 1].byte) + w[i].byte = x
Tells(w, c, x, h) ==
    Paired(w, c) /\ Ending(w, c, x) /\ (c.lsb # Silent /\ NoFineAfter(w, 0) => h = x)
InBytes(w) == \A i \in 1..Len(w) : w[i].byte \in Bytes

\* What is known of a port.
Agrees(p) ==
    /\ InBytes(wire[p])
    /\ wire[p] # <<>> => Attached(p)
    /\ Attached(p) => /\ Tells(wire[p], conns[p], device[p].rate, page.heard[<<p, "rate">>])
                      /\ device[p].lamp => page.lamp[p]
                      /\ pass.on => p \in pass.live

\* A value that was touched is on the page, and in the file unless it is still to be written.
OnFile(k) ==
    persist.values[k] # Silent =>
      /\ page.heard[k] = persist.values[k]
      /\ ~persist.dirty =>
           (IF persist.writing = Silent THEN file ELSE persist.writing)[k] = persist.values[k]

MidiInv ==
    /\ MidiTypeOK
    /\ \A p \in Ports : Agrees(p)
    /\ pass.todo \subseteq pass.live
    /\ \A k \in Ports \X Names : OnFile(k)

\* What a pair of halves makes: the coarse one and the fine one of a position.
LEMMA HalvesOf ==
  ASSUME NEW x \in Positions
  PROVE  /\ x \div Base \in Bytes /\ x % Base \in Bytes
         /\ Base * (x \div Base) + (x % Base) = x
  <1>1. Base \in Nat \ {0} /\ x \in Nat
    BY MidiAssumption DEF Positions
  <1>2. x % Base \in Bytes
    BY <1>1 DEF Bytes
  <1>3. Base * (x \div Base) + (x % Base) = x
    BY <1>1
  <1>4. x \div Base \in Nat
    BY <1>1
  <1>5. x \div Base < Base
    BY <1>1 DEF Positions
  <1> QED BY <1>1, <1>2, <1>3, <1>4, <1>5 DEF Bytes

\* Bytes make positions.
LEMMA PairIsPosition ==
  ASSUME NEW m \in Bytes, NEW l \in Bytes
  PROVE  Base * m + l \in Positions /\ m \in Positions
  <1>1. Base \in Nat \ {0} /\ m \in Nat /\ l \in Nat /\ m <= Base - 1 /\ l <= Base - 1
    BY MidiAssumption DEF Bytes
  <1>2. Base * m \in Nat /\ Base * m + Base <= Base * Base
    <2>1. Base * m <= Base * (Base - 1)
      BY <1>1
    <2> QED BY <1>1, <2>1
  <1>3. Base * Base >= Base
    BY <1>1
  <1> QED BY <1>1, <1>2, <1>3 DEF Positions

\* A wire with more messages at its end.
LEMMA MoreOf ==
  ASSUME NEW w \in Seq(Messages), NEW u \in Seq(Messages)
  PROVE  /\ w \o u \in Seq(Messages) /\ Len(w \o u) = Len(w) + Len(u)
         /\ Len(w) \in Nat /\ Len(u) \in Nat
         /\ \A i \in 1..Len(w) : (w \o u)[i] = w[i]
         /\ \A i \in 1..Len(u) : (w \o u)[Len(w) + i] = u[i]
  OBVIOUS

\* A fader is moved: its pair is the last on the wire.
LEMMA PairIsTold ==
  ASSUME NEW w \in Seq(Messages), NEW c, NEW x \in Positions, NEW h, NEW msb, NEW lsb,
         msb = [half |-> "msb", byte |-> x \div Base], lsb = [half |-> "lsb", byte |-> x % Base],
         Paired(w, c), InBytes(w)
  PROVE  Tells(w \o <<msb, lsb>>, c, x, h) /\ InBytes(w \o <<msb, lsb>>)
  <1>1. /\ x \div Base \in Bytes /\ x % Base \in Bytes
        /\ Base * (x \div Base) + (x % Base) = x
    BY HalvesOf
  <1>2. msb \in Messages /\ lsb \in Messages
    BY <1>1 DEF Messages, Bytes
  <1>3. /\ msb.half = "msb" /\ lsb.half = "lsb"
        /\ msb.byte = x \div Base /\ lsb.byte = x % Base
    OBVIOUS
  <1> DEFINE u == <<msb, lsb>>
             v == w \o u
             n == Len(w)
  <1>4. u \in Seq(Messages) /\ Len(u) = 2 /\ u[1] = msb /\ u[2] = lsb
    BY <1>2
  <1>5. /\ n \in Nat /\ Len(v) = n + 2
        /\ \A i \in 1..n : v[i] = w[i]
        /\ v[n + 1] = msb /\ v[n + 2] = lsb
    <2>1. Len(u) \in Nat /\ 1 \in 1..Len(u) /\ 2 \in 1..Len(u)
      BY <1>4
    <2> QED BY <1>4, <2>1, MoreOf
  <1> HIDE DEF u, v, n
  <1>6. \A i \in 1..Len(v) : i \in 1..n \/ i = n + 1 \/ i = n + 2
    BY <1>5
  <1>7. \A i \in 1..n : i \in 1..Len(v) /\ (i < n => i + 1 \in 1..n) /\ (i # 1 => i - 1 \in 1..n)
    BY <1>5
  <1>8. Paired(v, c)
    <2>1. ASSUME NEW i \in 1..Len(v), v[i].half = "msb"
          PROVE  i < Len(v) /\ v[i + 1].half = "lsb"
      <3>1. CASE i \in 1..n
        <4>1. i < n /\ w[i + 1].half = "lsb"
          BY <1>5, <2>1, <3>1 DEF Paired, n
        <4> QED BY <1>5, <1>7, <3>1, <4>1
      <3>2. CASE i = n + 1
        <4>1. i + 1 = n + 2 /\ i < n + 2
          BY <1>5, <3>2
        <4> QED BY <1>3, <1>5, <4>1
      <3>3. CASE i = n + 2
        BY <1>3, <1>5, <2>1, <3>3
      <3> QED BY <1>6, <3>1, <3>2, <3>3
    <2>2. ASSUME NEW i \in 1..Len(v), v[i].half = "lsb"
          PROVE  IF i = 1 THEN c.msb # Silent ELSE v[i - 1].half = "msb"
      <3>1. CASE i \in 1..n
        <4>1. IF i = 1 THEN c.msb # Silent ELSE w[i - 1].half = "msb"
          BY <1>5, <2>2, <3>1 DEF Paired, n
        <4> QED BY <1>5, <1>7, <3>1, <4>1
      <3>2. CASE i = n + 1
        BY <1>3, <1>5, <2>2, <3>2
      <3>3. CASE i = n + 2
        <4>1. i # 1 /\ i - 1 = n + 1
          BY <1>5, <3>3
        <4> QED BY <1>3, <1>5, <4>1
      <3> QED BY <1>6, <3>1, <3>2, <3>3
    <2> QED BY <2>1, <2>2 DEF Paired
  <1>9. n + 2 \in 1..Len(v) /\ \A i \in 1..n + 1 : n + 2 > i
    BY <1>5
  <1>10. Ending(v, c, x)
    <2> SUFFICES ASSUME NEW i \in 1..Len(v), v[i].half = "lsb", NoFineAfter(v, i)
                 PROVE  Base * (IF i = 1 THEN c.msb ELSE v[i - 1].byte) + v[i].byte = x
      BY DEF Ending
    <2>1. i = n + 2
      <3>1. ~(n + 2 > i)
        BY <1>3, <1>5, <1>9 DEF NoFineAfter
      <3> QED BY <1>5, <3>1
    <2>2. i # 1 /\ i - 1 = n + 1
      BY <1>5, <2>1
    <2> QED BY <1>1, <1>3, <1>5, <2>1, <2>2
  <1>11. ~NoFineAfter(v, 0)
    <2>1. n + 2 > 0
      BY <1>5
    <2> QED BY <1>3, <1>5, <1>9, <2>1 DEF NoFineAfter
  <1>12. InBytes(v)
    <2> SUFFICES ASSUME NEW i \in 1..Len(v) PROVE v[i].byte \in Bytes
      BY DEF InBytes
    <2>1. CASE i \in 1..n
      BY <1>5, <2>1 DEF InBytes, n
    <2> QED BY <1>1, <1>3, <1>5, <1>6, <2>1
  <1>13. Tells(v, c, x, h) /\ InBytes(v)
    BY <1>8, <1>10, <1>11, <1>12 DEF Tells
  <1> QED BY <1>13 DEF u, v

\* Another control is touched.
LEMMA OtherIsTold ==
  ASSUME NEW w \in Seq(Messages), NEW u \in Seq(Messages), NEW c, NEW x, NEW h,
         \A i \in 1..Len(u) : u[i].half # "msb" /\ u[i].half # "lsb",
         Tells(w, c, x, h), InBytes(w), InBytes(u)
  PROVE  Tells(w \o u, c, x, h) /\ InBytes(w \o u)
  <1> DEFINE v == w \o u
             n == Len(w)
  <1>1. /\ n \in Nat /\ Len(u) \in Nat /\ Len(v) = n + Len(u)
        /\ \A i \in 1..n : v[i] = w[i]
        /\ \A i \in 1..Len(u) : v[n + i] = u[i]
    BY MoreOf
  <1> HIDE DEF v
  <1>2. ASSUME NEW i \in 1..Len(v)
        PROVE  i \in 1..n \/ \E j \in 1..Len(u) : v[i] = u[j]
    <2>1. CASE i > n
      <3>1. i - n \in 1..Len(u) /\ n + (i - n) = i
        BY <1>1, <2>1
      <3> QED BY <1>1, <3>1
    <2> QED BY <1>1, <2>1
  <1>3. \A i \in 1..Len(v) : v[i].half = "msb" \/ v[i].half = "lsb" => i \in 1..n
    BY <1>2
  <1>4. \A i \in 1..n : /\ i \in 1..Len(v) /\ v[i] = w[i]
                        /\ (i < n => i + 1 \in 1..n /\ i < Len(v)) /\ (i # 1 => i - 1 \in 1..n)
    BY <1>1
  <1>5. Paired(v, c)
    <2>1. /\ \A i \in 1..n : w[i].half = "msb" => i < n /\ w[i + 1].half = "lsb"
          /\ \A i \in 1..n : w[i].half = "lsb" => IF i = 1 THEN c.msb # Silent ELSE w[i - 1].half = "msb"
      BY DEF Tells, Paired, n
    <2>2. ASSUME NEW i \in 1..Len(v), v[i].half = "msb"
          PROVE  i < Len(v) /\ v[i + 1].half = "lsb"
      <3>1. i \in 1..n /\ w[i].half = "msb"
        BY <1>3, <1>4, <2>2
      <3>2. i < n /\ w[i + 1].half = "lsb"
        BY <2>1, <3>1
      <3>3. i < Len(v) /\ i + 1 \in 1..n
        BY <1>4, <3>1, <3>2
      <3> QED BY <1>4, <3>2, <3>3
    <2>3. ASSUME NEW i \in 1..Len(v), v[i].half = "lsb"
          PROVE  IF i = 1 THEN c.msb # Silent ELSE v[i - 1].half = "msb"
      <3>1. i \in 1..n /\ w[i].half = "lsb"
        BY <1>3, <1>4, <2>3
      <3>2. IF i = 1 THEN c.msb # Silent ELSE w[i - 1].half = "msb"
        BY <2>1, <3>1
      <3>3. i # 1 => i - 1 \in 1..n
        BY <1>4, <3>1
      <3> QED BY <1>4, <3>2, <3>3
    <2> QED BY <2>2, <2>3 DEF Paired
  <1>6. \A k : NoFineAfter(v, k) => NoFineAfter(w, k)
    BY <1>4 DEF NoFineAfter
  <1>7. Ending(v, c, x)
    <2>1. Ending(w, c, x)
      BY DEF Tells
    <2> QED BY <1>3, <1>4, <1>6, <2>1 DEF Ending
  <1>8. InBytes(v)
    BY <1>2, <1>4 DEF InBytes
  <1>9. Tells(v, c, x, h)
    BY <1>5, <1>6, <1>7 DEF Tells
  <1> QED BY <1>8, <1>9 DEF v

\* A message is heard.
LEMMA RestIsTold ==
  ASSUME NEW w \in Seq(Messages), w # <<>>, NEW c \in ConnRec, NEW x, NEW h, NEW g,
         Tells(w, c, x, h), InBytes(w),
         (Head(w).half # "msb" /\ Head(w).half # "lsb") => g = h,
         Head(w).half = "lsb" => g = Base * Or(c.msb, Base \div 2) + Head(w).byte
  PROVE  Tells(Tail(w), Remembers(c, Head(w)), x, g) /\ InBytes(Tail(w))
  <1> DEFINE m == Head(w)
             v == Tail(w)
             n == Len(w)
             d == Remembers(c, m)
  <1>1. /\ n \in Nat /\ n > 0 /\ Len(v) = n - 1 /\ m = w[1]
        /\ \A i \in 1..n - 1 : v[i] = w[i + 1]
    OBVIOUS
  <1>2. m.byte \in Bytes /\ m.byte # Silent
    BY <1>1, MidiAssumption DEF InBytes
  <1>3. /\ m.half # "msb" /\ m.half # "lsb" => d = c
        /\ m.half = "msb" => d.msb = m.byte /\ d.lsb = c.lsb
        /\ m.half = "lsb" => d.msb = c.msb /\ d.lsb = m.byte
    BY DEF Remembers, ConnRec
  <1> HIDE DEF m, v, n, d
  <1>4. Paired(w, c) /\ Ending(w, c, x) /\ (c.lsb # Silent /\ NoFineAfter(w, 0) => h = x)
    BY DEF Tells
  <1>5. \A i \in 1..Len(v) : /\ i \in Nat /\ i + 1 \in 1..n /\ i + 1 # 1 /\ v[i] = w[i + 1]
                             /\ (i + 1) - 1 = i /\ i + 1 > 1
                             /\ (i # 1 => i - 1 \in 1..Len(v) /\ v[i - 1] = w[i])
                             /\ (i + 1 < n => i < Len(v) /\ i + 1 \in 1..Len(v) /\ v[i + 1] = w[(i + 1) + 1])
    BY <1>1
  <1>6. \A i \in 1..Len(v) : v[i].half = "lsb" => w[i].half = "msb"
    BY <1>4, <1>5 DEF Paired, n
  <1>7. m.half # "msb" => \A i \in 1..Len(v) : v[i].half = "lsb" => i # 1
    BY <1>1, <1>6
  <1>8. \A i \in 1..n : i # 1 => i - 1 \in 1..Len(v) /\ v[i - 1] = w[i]
    BY <1>1
  <1>9. \A i \in 1..Len(v) : NoFineAfter(v, i) => NoFineAfter(w, i + 1)
    <2> SUFFICES ASSUME NEW i \in 1..Len(v), NoFineAfter(v, i), NEW j \in 1..n, j > i + 1
                 PROVE  w[j].half # "lsb"
      BY DEF NoFineAfter, n
    <2>1. j # 1 /\ j - 1 > i /\ j - 1 \in 1..Len(v)
      BY <1>1, <1>5
    <2> QED BY <1>8, <2>1 DEF NoFineAfter
  <1>10. NoFineAfter(v, 0) => NoFineAfter(w, 1)
    <2> SUFFICES ASSUME NoFineAfter(v, 0), NEW j \in 1..n, j > 1
                 PROVE  w[j].half # "lsb"
      BY DEF NoFineAfter, n
    <2>1. j # 1 /\ j - 1 > 0 /\ j - 1 \in 1..Len(v)
      BY <1>1
    <2> QED BY <1>8, <2>1 DEF NoFineAfter
  <1>11. Paired(v, d)
    <2>1. ASSUME NEW i \in 1..Len(v), v[i].half = "msb"
          PROVE  i < Len(v) /\ v[i + 1].half = "lsb"
      BY <1>4, <1>5, <2>1 DEF Paired, n
    <2>2. ASSUME NEW i \in 1..Len(v), v[i].half = "lsb"
          PROVE  IF i = 1 THEN d.msb # Silent ELSE v[i - 1].half = "msb"
      <3>1. CASE i = 1
        BY <1>2, <1>3, <1>7, <2>2, <3>1
      <3>2. CASE i # 1
        BY <1>5, <1>6, <2>2, <3>2
      <3> QED BY <3>1, <3>2
    <2> QED BY <2>1, <2>2 DEF Paired
  <1>12. Ending(v, d, x)
    <2> SUFFICES ASSUME NEW i \in 1..Len(v), v[i].half = "lsb", NoFineAfter(v, i)
                 PROVE  Base * (IF i = 1 THEN d.msb ELSE v[i - 1].byte) + v[i].byte = x
      BY DEF Ending
    <2>1. Base * w[i].byte + w[i + 1].byte = x
      BY <1>4, <1>5, <1>9 DEF Ending, n
    <2>2. CASE i = 1
      BY <1>1, <1>3, <1>5, <1>7, <2>1, <2>2
    <2>3. CASE i # 1
      BY <1>5, <2>1, <2>3
    <2> QED BY <2>2, <2>3
  <1>13. ASSUME d.lsb # Silent, NoFineAfter(v, 0) PROVE g = x
    <2>1. NoFineAfter(w, 1)
      BY <1>10, <1>13
    <2>2. CASE m.half = "msb"
      <3>1. 1 < n /\ w[2].half = "lsb"
        BY <1>1, <1>4, <2>2 DEF Paired, n
      <3> QED BY <1>1, <2>1, <3>1 DEF NoFineAfter, n
    <2>3. CASE m.half = "lsb"
      <3>1. c.msb # Silent /\ Base * c.msb + w[1].byte = x
        BY <1>1, <1>4, <2>1, <2>3 DEF Paired, Ending, n
      <3> QED BY <1>1, <2>3, <3>1 DEF Or, m
    <2>4. CASE m.half # "msb" /\ m.half # "lsb"
      <3>1. NoFineAfter(w, 0)
        BY <1>1, <2>1, <2>4 DEF NoFineAfter, n
      <3> QED BY <1>3, <1>4, <1>13, <2>4, <3>1 DEF m
    <2> QED BY <2>2, <2>3, <2>4
  <1>14. InBytes(v)
    BY <1>5 DEF InBytes, n
  <1>15. Tells(v, d, x, g) /\ InBytes(v)
    BY <1>11, <1>12, <1>13, <1>14 DEF Tells
  <1> QED BY <1>15 DEF v, d, m

\* What the state is made of.
LEMMA MidiFields ==
  ASSUME MidiTypeOK, NEW p \in Ports
  PROVE  /\ device[p].here \in BOOLEAN /\ device[p].plugged \in Nat /\ device[p].rate \in Positions
         /\ device[p].gain \in Bytes /\ device[p].lamp \in BOOLEAN /\ device[p] \in DeviceRec
         /\ wire[p] \in Seq(Messages)
         /\ conns[p] \in ConnRec \cup {Silent} /\ page.lamp[p] \in BOOLEAN
  BY DEF MidiTypeOK, DeviceRec

\* A port that nothing happens to.
LEMMA OthersAgree ==
  ASSUME NEW q, Agrees(q), device'[q] = device[q], wire'[q] = wire[q], conns'[q] = conns[q],
         page'.heard[<<q, "rate">>] = page.heard[<<q, "rate">>], page'.lamp[q] = page.lamp[q],
         pass'.on => pass.on, q \in pass.live => q \in pass'.live
  PROVE  Agrees(q)'
  BY DEF Agrees, Attached, Open

\* A touched control is on its way to the page, if there is a connection.
LEMMA TouchesKeep ==
  ASSUME MidiInv, NEW p \in Ports, NEW d \in DeviceRec, NEW u \in Seq(Messages),
         device[p].here, d.here = device[p].here, d.plugged = device[p].plugged,
         d.lamp = device[p].lamp,
         Attached(p) => Tells(wire[p] \o u, conns[p], d.rate, page.heard[<<p, "rate">>])
                        /\ InBytes(wire[p] \o u),
         device' = [device EXCEPT ![p] = d], Send(p, u),
         UNCHANGED <<conns, pass, page, persist, file>>
  PROVE  MidiInv'
  <1>1. MidiTypeOK /\ device \in [Ports -> DeviceRec] /\ wire \in [Ports -> Seq(Messages)]
    BY DEF MidiInv, MidiTypeOK
  <1>2. device' \in [Ports -> DeviceRec] /\ device'[p] = d
        /\ \A q \in Ports : q # p => device'[q] = device[q]
    BY <1>1
  <1>3. /\ wire'[p] = IF Attached(p) THEN wire[p] \o u ELSE wire[p]
        /\ \A q \in Ports : q # p => wire'[q] = wire[q]
        /\ wire' \in [Ports -> Seq(Messages)]
    <2> DEFINE w == IF Attached(p) THEN wire[p] \o u ELSE wire[p]
    <2>1. w \in Seq(Messages)
      BY <1>1, MoreOf
    <2>2. wire' = [wire EXCEPT ![p] = w]
      BY DEF Send
    <2> HIDE DEF w
    <2>3. wire' \in [Ports -> Seq(Messages)] /\ wire'[p] = w
          /\ \A q \in Ports : q # p => wire'[q] = wire[q]
      BY <1>1, <2>1, <2>2
    <2> QED BY <2>3 DEF w
  <1>4. MidiTypeOK'
    BY <1>1, <1>2, <1>3 DEF MidiTypeOK
  <1>5. ASSUME NEW q \in Ports PROVE Agrees(q)'
    <2>1. CASE q = p
      <3>1. Agrees(p) /\ (Attached(p)' <=> Attached(p))
        BY <1>2 DEF MidiInv, Attached, Open
      <3>2. CASE Attached(p)
        BY <1>2, <1>3, <2>1, <3>1, <3>2 DEF Agrees
      <3>3. CASE ~Attached(p)
        BY <1>3, <2>1, <3>1, <3>3 DEF Agrees
      <3> QED BY <3>2, <3>3
    <2>2. CASE q # p
      BY <1>2, <1>3, <2>2, OthersAgree DEF MidiInv
    <2> QED BY <2>1, <2>2
  <1>6. (\A k \in Ports \X Names : OnFile(k))' /\ (pass.todo \subseteq pass.live)'
    BY DEF MidiInv, OnFile
  <1> QED BY <1>4, <1>5, <1>6 DEF MidiInv

\* The faders and the button.
LEMMA HandsKeep ==
  ASSUME MidiInv, NEW p \in Ports,
         \/ \E x \in Positions : MoveRate(p, x)
         \/ \E x \in Bytes : MoveGain(p, x)
         \/ Press(p)
  PROVE  MidiInv'
  <1>1. /\ MidiTypeOK /\ device[p] \in DeviceRec /\ wire[p] \in Seq(Messages)
        /\ device \in [Ports -> DeviceRec]
    BY MidiFields DEF MidiInv, MidiTypeOK
  <1>2. Attached(p) => /\ Tells(wire[p], conns[p], device[p].rate, page.heard[<<p, "rate">>])
                       /\ InBytes(wire[p])
    BY DEF MidiInv, Agrees
  <1>3. Base \in Nat \ {0}
    BY MidiAssumption
  <1>4. ASSUME NEW x \in Positions, MoveRate(p, x) PROVE MidiInv'
    <2> DEFINE msb == [half |-> "msb", byte |-> x \div Base]
               lsb == [half |-> "lsb", byte |-> x % Base]
               d == [device[p] EXCEPT !.rate = x]
    <2>1. d \in DeviceRec /\ d.here = device[p].here /\ d.plugged = device[p].plugged
          /\ d.lamp = device[p].lamp /\ d.rate = x
      BY <1>1 DEF DeviceRec
    <2>2. <<msb, lsb>> \in Seq(Messages)
      <3>1. x \div Base \in Nat /\ x % Base \in Nat
        BY HalvesOf DEF Bytes
      <3> QED BY <3>1 DEF Messages
    <2>3. Attached(p) => Tells(wire[p] \o <<msb, lsb>>, conns[p], x, page.heard[<<p, "rate">>])
                         /\ InBytes(wire[p] \o <<msb, lsb>>)
      <3>1. Attached(p) => Paired(wire[p], conns[p]) /\ InBytes(wire[p])
        BY <1>2 DEF Tells
      <3> QED BY <1>1, <3>1, PairIsTold
    <2>4. /\ device' = [device EXCEPT ![p] = d] /\ Send(p, <<msb, lsb>>) /\ device[p].here
          /\ UNCHANGED <<conns, pass, page, persist, file>>
      BY <1>4 DEF MoveRate
    <2> HIDE DEF d, msb, lsb
    <2> QED BY <2>1, <2>2, <2>3, <2>4, TouchesKeep
  <1>5. ASSUME NEW x \in Bytes, MoveGain(p, x) PROVE MidiInv'
    <2> DEFINE m == [half |-> "gain", byte |-> x]
               d == [device[p] EXCEPT !.gain = x]
               u == <<m>>
    <2>1. d \in DeviceRec /\ d.here = device[p].here /\ d.plugged = device[p].plugged
          /\ d.lamp = device[p].lamp /\ d.rate = device[p].rate
      BY <1>1, <1>5 DEF DeviceRec
    <2>2. m \in Messages /\ m.byte \in Bytes /\ m.half # "msb" /\ m.half # "lsb"
      BY <1>3, <1>5 DEF Messages, Bytes
    <2>3. /\ device' = [device EXCEPT ![p] = d] /\ Send(p, u) /\ device[p].here
          /\ UNCHANGED <<conns, pass, page, persist, file>>
      BY <1>5 DEF MoveGain
    <2> HIDE DEF m
    <2>4. /\ u \in Seq(Messages) /\ InBytes(u)
          /\ \A i \in 1..Len(u) : u[i].half # "msb" /\ u[i].half # "lsb"
      BY <2>2 DEF InBytes
    <2> HIDE DEF d, u
    <2>5. Attached(p) => Tells(wire[p] \o u, conns[p], d.rate, page.heard[<<p, "rate">>])
                         /\ InBytes(wire[p] \o u)
      BY <1>1, <1>2, <2>1, <2>4, OtherIsTold
    <2> QED BY <2>1, <2>3, <2>4, <2>5, TouchesKeep
  <1>6. CASE Press(p)
    <2> DEFINE m == [half |-> "button", byte |-> Base - 1]
               l == [half |-> "button", byte |-> 0]
               u == <<m, l>>
               d == device[p]
    <2>1. /\ m \in Messages /\ m.byte \in Bytes /\ m.half # "msb" /\ m.half # "lsb"
          /\ l \in Messages /\ l.byte \in Bytes /\ l.half # "msb" /\ l.half # "lsb"
      BY <1>3 DEF Messages, Bytes
    <2>2. /\ device' = [device EXCEPT ![p] = d] /\ Send(p, u) /\ device[p].here
          /\ UNCHANGED <<conns, pass, page, persist, file>>
      BY <1>1, <1>6 DEF Press
    <2> HIDE DEF m, l
    <2>3. /\ u \in Seq(Messages) /\ InBytes(u)
          /\ \A i \in 1..Len(u) : u[i].half # "msb" /\ u[i].half # "lsb"
      BY <2>1 DEF InBytes
    <2> HIDE DEF u, d
    <2>4. d \in DeviceRec /\ d = device[p]
      BY <1>1 DEF d
    <2>5. Attached(p) => Tells(wire[p] \o u, conns[p], d.rate, page.heard[<<p, "rate">>])
                         /\ InBytes(wire[p] \o u)
      BY <1>1, <1>2, <2>3, <2>4, OtherIsTold
    <2> QED BY <2>2, <2>3, <2>4, <2>5, TouchesKeep
  <1> QED BY <1>4, <1>5, <1>6

\* A controller is unplugged, or plugged in: no connection hears it.
LEMMA PlugsKeep ==
  ASSUME Quirks = {}, MidiInv, NEW p \in Ports, Unplug(p) \/ Plug(p)
  PROVE  MidiInv'
  <1>1. /\ MidiTypeOK /\ device[p] \in DeviceRec /\ wire \in [Ports -> Seq(Messages)]
        /\ device \in [Ports -> DeviceRec] /\ device[p].plugged \in Nat
        /\ UNCHANGED <<conns, pass, page, persist, file>>
    BY MidiFields DEF MidiInv, MidiTypeOK, Unplug, Plug
  <1>2. /\ wire'[p] = <<>> /\ wire' \in [Ports -> Seq(Messages)]
        /\ \A q \in Ports : q # p => wire'[q] = wire[q]
    <2>1. CASE Unplug(p)
      BY <1>1, <2>1 DEF Unplug
    <2>2. CASE Plug(p)
      <3>1. wire' = wire /\ ~device[p].here /\ Agrees(p)
        BY <2>2 DEF Plug, MidiInv
      <3> QED BY <1>1, <3>1 DEF Agrees, Attached
    <2> QED BY <2>1, <2>2
  <1>3. /\ device' \in [Ports -> DeviceRec] /\ ~Attached(p)'
        /\ \A q \in Ports : q # p => device'[q] = device[q]
    <2>1. CASE Unplug(p)
      <3> DEFINE d == [device[p] EXCEPT !.here = FALSE, !.lamp = FALSE]
      <3>1. d \in DeviceRec /\ d.here = FALSE
        BY <1>1 DEF DeviceRec
      <3>2. device' = [device EXCEPT ![p] = d]
        BY <2>1 DEF Unplug
      <3> HIDE DEF d
      <3> QED BY <1>1, <3>1, <3>2 DEF Attached
    <2>2. CASE Plug(p)
      <3> DEFINE n == device[p].plugged + 1
                 d == [device[p] EXCEPT !.here = TRUE, !.plugged = n]
      <3>1. device' = [device EXCEPT ![p] = d] /\ ~Open(p)
        BY <2>2 DEF Plug
      <3>2. n \in Nat
        BY <1>1
      <3> HIDE DEF n
      <3>3. d \in DeviceRec
        BY <1>1, <3>2 DEF DeviceRec
      <3> HIDE DEF d
      <3> QED BY <1>1, <3>1, <3>3 DEF Attached, Open
    <2> QED BY <2>1, <2>2
  <1>4. MidiTypeOK'
    BY <1>1, <1>2, <1>3 DEF MidiTypeOK
  <1>5. ASSUME NEW q \in Ports PROVE Agrees(q)'
    <2>1. CASE q = p
      BY <1>2, <1>3, <2>1 DEF Agrees, InBytes
    <2>2. CASE q # p
      BY <1>1, <1>2, <1>3, <2>2, OthersAgree DEF MidiInv
    <2> QED BY <2>1, <2>2
  <1>6. (\A k \in Ports \X Names : OnFile(k))' /\ (pass.todo \subseteq pass.live)'
    BY <1>1 DEF MidiInv, OnFile
  <1> QED BY <1>4, <1>5, <1>6 DEF MidiInv

\* The supervisor's pass begins, and ends with what it did not see.
LEMMA PassKeeps ==
  ASSUME MidiInv, StartPass \/ Disconnect
  PROVE  MidiInv'
  <1>1. MidiTypeOK /\ \A p \in Ports : Agrees(p)
    BY DEF MidiInv
  <1>2. CASE StartPass
    <2>1. /\ pass'.on = TRUE /\ pass'.todo = pass'.live /\ pass'.live = {p \in Ports : device[p].here}
          /\ UNCHANGED <<device, wire, conns, page, persist, file>>
          /\ pass' \in [todo : SUBSET Ports, live : SUBSET Ports, on : BOOLEAN]
      BY <1>2 DEF StartPass
    <2>2. MidiTypeOK'
      BY <1>1, <2>1 DEF MidiTypeOK
    <2>3. \A p \in Ports : Agrees(p)'
      BY <1>1, <2>1 DEF Agrees, Attached, Open
    <2>4. (\A k \in Ports \X Names : OnFile(k))'
      BY <2>1 DEF MidiInv, OnFile
    <2> QED BY <2>1, <2>2, <2>3, <2>4 DEF MidiInv
  <1>3. CASE Disconnect
    <2>1. /\ pass.on /\ conns' = [p \in Ports |-> IF p \in pass.live THEN conns[p] ELSE Silent]
          /\ pass'.on = FALSE /\ pass'.todo = {} /\ pass'.live = {}
          /\ pass' \in [todo : SUBSET Ports, live : SUBSET Ports, on : BOOLEAN]
          /\ UNCHANGED <<device, wire, page, persist, file>>
      BY <1>1, <1>3 DEF Disconnect, MidiTypeOK
    <2>2. conns' \in [Ports -> ConnRec \cup {Silent}]
      BY <1>1, <2>1 DEF MidiTypeOK
    <2>3. MidiTypeOK'
      BY <1>1, <2>1, <2>2 DEF MidiTypeOK
    <2>4. \A p \in Ports : Agrees(p)'
      <3> SUFFICES ASSUME NEW p \in Ports PROVE Agrees(p)'
        OBVIOUS
      <3>1. Agrees(p)
        BY <1>1
      <3>2. CASE p \in pass.live
        <4>1. conns'[p] = conns[p]
          BY <2>1, <3>2
        <4> QED BY <2>1, <3>1, <4>1 DEF Agrees, Attached, Open
      <3>3. CASE p \notin pass.live
        <4>1. ~Attached(p) /\ ~Attached(p)'
          BY <2>1, <3>1, <3>3 DEF Agrees, Attached, Open
        <4> QED BY <2>1, <3>1, <4>1 DEF Agrees
      <3> QED BY <3>2, <3>3
    <2>5. (\A k \in Ports \X Names : OnFile(k))'
      BY <2>1 DEF MidiInv, OnFile
    <2> QED BY <2>1, <2>3, <2>4, <2>5 DEF MidiInv
  <1> QED BY <1>2, <1>3

\* A port of the pass is connected, with its lamps blanked.
LEMMA ConnectKeeps ==
  ASSUME MidiInv, NEW p \in Ports, Connect(p)
  PROVE  MidiInv'
  <1>1. /\ MidiTypeOK /\ device[p] \in DeviceRec /\ device \in [Ports -> DeviceRec]
        /\ conns \in [Ports -> ConnRec \cup {Silent}] /\ p \in pass.live /\ Agrees(p)
        /\ device[p].plugged \in Nat
    BY MidiFields DEF MidiInv, MidiTypeOK, Connect
  <1>2. /\ pass'.on = pass.on /\ pass'.live = pass.live /\ pass'.todo = pass.todo \ {p}
        /\ pass' \in [todo : SUBSET Ports, live : SUBSET Ports, on : BOOLEAN]
        /\ UNCHANGED <<wire, page, persist, file>>
    BY <1>1 DEF Connect, MidiTypeOK
  <1>3. /\ conns' \in [Ports -> ConnRec \cup {Silent}] /\ device' \in [Ports -> DeviceRec]
        /\ \A q \in Ports : q # p => conns'[q] = conns[q] /\ device'[q] = device[q]
        /\ Agrees(p)'
    <2>1. CASE Open(p) \/ ~device[p].here
      <3>1. conns' = conns /\ device' = device
        BY <2>1 DEF Connect
      <3>2. Agrees(p)'
        BY <1>1, <1>2, <3>1, OthersAgree
      <3> QED BY <1>1, <3>1, <3>2
    <2>2. CASE ~(Open(p) \/ ~device[p].here)
      <3> DEFINE c == [plugged |-> device[p].plugged, msb |-> Silent, lsb |-> Silent]
                 d == [device[p] EXCEPT !.lamp = FALSE]
      <3>1. device' = [device EXCEPT ![p] = d]
            /\ (conns' = conns \/ conns' = [conns EXCEPT ![p] = c])
        BY <2>2 DEF Connect, Blanked
      <3>2. c \in ConnRec /\ c.lsb = Silent
        BY <1>1 DEF ConnRec
      <3>3. d \in DeviceRec /\ d.lamp = FALSE
        BY <1>1 DEF DeviceRec
      <3>4. wire[p] = <<>>
        BY <1>1, <2>2 DEF Agrees, Attached
      <3> HIDE DEF c, d
      <3>5. /\ conns' \in [Ports -> ConnRec \cup {Silent}] /\ device' \in [Ports -> DeviceRec]
            /\ \A q \in Ports : q # p => conns'[q] = conns[q] /\ device'[q] = device[q]
            /\ device'[p] = d /\ (conns'[p] = conns[p] \/ conns'[p] = c)
        BY <1>1, <3>1, <3>2, <3>3
      <3>6. Agrees(p)'
        <4>1. CASE conns'[p] = conns[p]
          <5>1. ~Attached(p)'
            BY <2>2, <4>1 DEF Attached, Open
          <5> QED BY <1>2, <3>4, <5>1 DEF Agrees, InBytes
        <4>2. CASE conns'[p] = c
          <5>1. wire'[p] = <<>> /\ Len(wire'[p]) = 0
            BY <1>2, <3>4
          <5>2. \A x, h : Tells(wire'[p], c, x, h)
            BY <3>2, <5>1 DEF Tells, Paired, Ending
          <5>3. Tells(wire'[p], conns'[p], device'[p].rate, page'.heard[<<p, "rate">>])
            BY <4>2, <5>2
          <5>4. device'[p].lamp = FALSE /\ p \in pass'.live
            BY <1>1, <1>2, <3>3, <3>5
          <5> QED BY <5>1, <5>3, <5>4 DEF Agrees, InBytes
        <4>3. conns'[p] = conns[p] \/ conns'[p] = c
          BY <3>5
        <4> QED BY <4>1, <4>2, <4>3
      <3> QED BY <3>5, <3>6
    <2> QED BY <2>1, <2>2
  <1>4. MidiTypeOK'
    BY <1>1, <1>2, <1>3 DEF MidiTypeOK
  <1>5. ASSUME NEW q \in Ports, q # p PROVE Agrees(q)'
    BY <1>2, <1>3, <1>5, OthersAgree DEF MidiInv
  <1>6. (\A k \in Ports \X Names : OnFile(k))' /\ (pass.todo \subseteq pass.live)'
    BY <1>2 DEF MidiInv, OnFile
  <1> QED BY <1>3, <1>4, <1>5, <1>6 DEF MidiInv

\* What a message changes of the page and the lamp, for its own port and the others.
Changes(p) ==
    /\ device' \in [Ports -> DeviceRec]
    /\ page' \in [heard : Values, lamp : [Ports -> BOOLEAN]]
    /\ persist' \in [values : Values, dirty : BOOLEAN, writing : Values \cup {Silent}]
    /\ \A q \in Ports : q # p => /\ device'[q] = device[q] /\ page'.lamp[q] = page.lamp[q]
                                 /\ page'.heard[<<q, "rate">>] = page.heard[<<q, "rate">>]
    /\ device'[p].here = device[p].here /\ device'[p].plugged = device[p].plugged
    /\ device'[p].rate = device[p].rate /\ (device'[p].lamp => page'.lamp[p])
    /\ \A k \in Ports \X Names : OnFile(k)'

\* A message is heard, whatever it changes of the page and the lamp.
LEMMA ListensKeeps ==
  ASSUME MidiInv, NEW p \in Ports, Attached(p), wire[p] # <<>>,
         wire[p] \in Seq(Messages), conns[p] \in ConnRec,
         conns \in [Ports -> ConnRec \cup {Silent}], wire \in [Ports -> Seq(Messages)],
         NEW e \in ConnRec, e = Remembers(conns[p], Head(wire[p])), e # Silent,
         e.plugged = conns[p].plugged, Tail(wire[p]) \in Seq(Messages),
         wire' = [wire EXCEPT ![p] = Tail(wire[p])], conns' = [conns EXCEPT ![p] = e],
         UNCHANGED <<pass, file>>, Changes(p),
         Head(wire[p]).half # "msb" /\ Head(wire[p]).half # "lsb" =>
           page'.heard[<<p, "rate">>] = page.heard[<<p, "rate">>],
         Head(wire[p]).half = "lsb" =>
           page'.heard[<<p, "rate">>] = Base * Or(conns[p].msb, Base \div 2) + Head(wire[p]).byte
  PROVE  MidiInv'
  <1>0. /\ device' \in [Ports -> DeviceRec]
        /\ page' \in [heard : Values, lamp : [Ports -> BOOLEAN]]
        /\ persist' \in [values : Values, dirty : BOOLEAN, writing : Values \cup {Silent}]
        /\ \A q \in Ports : q # p => /\ device'[q] = device[q] /\ page'.lamp[q] = page.lamp[q]
                                     /\ page'.heard[<<q, "rate">>] = page.heard[<<q, "rate">>]
        /\ device'[p].here = device[p].here /\ device'[p].plugged = device[p].plugged
        /\ device'[p].rate = device[p].rate /\ (device'[p].lamp => page'.lamp[p])
        /\ \A k \in Ports \X Names : OnFile(k)'
    BY DEF Changes
  <1>1. /\ wire' \in [Ports -> Seq(Messages)] /\ wire'[p] = Tail(wire[p])
        /\ conns' \in [Ports -> ConnRec \cup {Silent}] /\ conns'[p] = e
        /\ \A q \in Ports : q # p => wire'[q] = wire[q] /\ conns'[q] = conns[q]
    OBVIOUS
  <1>2. MidiTypeOK'
    BY <1>0, <1>1 DEF MidiInv, MidiTypeOK
  <1>3. /\ Tells(wire[p], conns[p], device[p].rate, page.heard[<<p, "rate">>])
        /\ InBytes(wire[p]) /\ (pass.on => p \in pass.live)
    BY DEF MidiInv, Agrees
  <1>4. /\ Tells(Tail(wire[p]), e, device[p].rate, page'.heard[<<p, "rate">>])
        /\ InBytes(Tail(wire[p]))
    BY <1>3, RestIsTold
  <1>5. Attached(p)'
    BY <1>0, <1>1 DEF Attached, Open
  <1>6. Agrees(p)'
    <2>1. /\ Tells(wire'[p], conns'[p], device'[p].rate, page'.heard[<<p, "rate">>])
          /\ InBytes(wire'[p]) /\ (pass'.on => p \in pass'.live)
      BY <1>0, <1>1, <1>3, <1>4
    <2> QED BY <1>0, <1>5, <2>1 DEF Agrees
  <1>7. \A q \in Ports : q # p => Agrees(q)'
    BY <1>0, <1>1, OthersAgree DEF MidiInv
  <1>8. (pass.todo \subseteq pass.live)'
    BY DEF MidiInv
  <1> QED BY <1>0, <1>2, <1>6, <1>7, <1>8 DEF MidiInv

\* What a half of a value, or a fader of seven bits, makes is a position.
LEMMA DecodedIs ==
  ASSUME NEW c \in ConnRec, NEW m \in Messages, m.byte \in Bytes, m.half # "button"
  PROVE  /\ Decoded(c, m).name \in Names /\ Decoded(c, m).value \in Positions
         /\ Decoded(c, m).name = "rate" <=> m.half = "msb" \/ m.half = "lsb"
         /\ m.half = "lsb" => Decoded(c, m).value = Base * Or(c.msb, Base \div 2) + m.byte
  <1>1. Base \in Nat \ {0}
    BY MidiAssumption
  <1>2. 0 \in Bytes /\ Base \div 2 \in Bytes
    BY <1>1 DEF Bytes
  <1>3. Or(c.lsb, 0) \in Bytes /\ Or(c.msb, Base \div 2) \in Bytes
    BY <1>2 DEF Or, ConnRec
  <1>4. CASE m.half = "gain"
    <2>1. Decoded(c, m).name = "gain" /\ Decoded(c, m).value = m.byte
      BY <1>4 DEF Decoded
    <2> QED BY <1>2, <1>4, <2>1, PairIsPosition DEF Names
  <1>5. CASE m.half = "msb"
    <2>1. Decoded(c, m).name = "rate" /\ Decoded(c, m).value = Base * m.byte + Or(c.lsb, 0)
      BY <1>5 DEF Decoded, Rate14
    <2> QED BY <1>3, <1>5, <2>1, PairIsPosition DEF Names
  <1>6. CASE m.half = "lsb"
    <2>1. Decoded(c, m).name = "rate"
          /\ Decoded(c, m).value = Base * Or(c.msb, Base \div 2) + m.byte
      BY <1>6 DEF Decoded, Rate14
    <2> QED BY <1>3, <1>6, <2>1, PairIsPosition DEF Names
  <1> QED BY <1>4, <1>5, <1>6 DEF Messages

\* A connection's callback.
LEMMA HearKeeps ==
  ASSUME MidiInv, NEW p \in Ports, Hear(p)
  PROVE  MidiInv'
  <1> DEFINE m == Head(wire[p])
             c == conns[p]
             a == Decoded(c, m)
             v == Tail(wire[p])
             e == Remembers(c, m)
             h == page.heard[<<p, "rate">>]
             g == page'.heard[<<p, "rate">>]
  <1>1. /\ MidiTypeOK /\ device \in [Ports -> DeviceRec] /\ wire \in [Ports -> Seq(Messages)]
        /\ conns \in [Ports -> ConnRec \cup {Silent}] /\ wire[p] \in Seq(Messages)
        /\ wire[p] # <<>> /\ Attached(p) /\ Agrees(p) /\ device[p] \in DeviceRec
        /\ page.lamp \in [Ports -> BOOLEAN] /\ page.heard \in Values /\ page.lamp[p] \in BOOLEAN
        /\ page \in [heard : Values, lamp : [Ports -> BOOLEAN]]
        /\ persist \in [values : Values, dirty : BOOLEAN, writing : Values \cup {Silent}]
    BY MidiFields DEF MidiInv, MidiTypeOK, Hear
  <1>2. c \in ConnRec /\ InBytes(wire[p])
    BY <1>1 DEF Attached, Open, Agrees
  <1>3. m \in Messages /\ m.byte \in Bytes /\ v \in Seq(Messages)
    <2>1. 1 \in 1..Len(wire[p]) /\ m = wire[p][1]
      BY <1>1
    <2> QED BY <1>1, <1>2, <2>1 DEF InBytes
  <1>4. e \in ConnRec /\ e.plugged = c.plugged /\ e # Silent
    BY <1>2, <1>3, MidiAssumption DEF Remembers, ConnRec
  <1>5. /\ wire' = [wire EXCEPT ![p] = v] /\ conns' = [conns EXCEPT ![p] = e]
        /\ UNCHANGED <<pass, file>>
    BY DEF Hear
  <1>6. CASE m.half = "button"
    <2>1. persist' = persist
      BY <1>6 DEF Hear
    <2>2. /\ page' \in [heard : Values, lamp : [Ports -> BOOLEAN]] /\ page'.heard = page.heard
          /\ device' \in [Ports -> DeviceRec]
          /\ \A q \in Ports : q # p => device'[q] = device[q] /\ page'.lamp[q] = page.lamp[q]
      <3>1. CASE m.byte = 0
        BY <1>1, <1>6, <3>1 DEF Hear
      <3>2. CASE m.byte # 0
        <4> DEFINE l == ~page.lamp[p]
                   d == [device[p] EXCEPT !.lamp = l]
                   lamps == [page.lamp EXCEPT ![p] = l]
        <4>1. page' = [page EXCEPT !.lamp = lamps] /\ device' = [device EXCEPT ![p] = d]
          BY <1>6, <3>2 DEF Hear, Lit
        <4>2. d \in DeviceRec /\ lamps \in [Ports -> BOOLEAN]
              /\ \A q \in Ports : q # p => lamps[q] = page.lamp[q]
          BY <1>1 DEF DeviceRec
        <4> HIDE DEF d, lamps
        <4> QED BY <1>1, <4>1, <4>2
      <3> QED BY <3>1, <3>2
    <2>3. /\ device'[p].here = device[p].here /\ device'[p].plugged = device[p].plugged
          /\ device'[p].rate = device[p].rate
          /\ device'[p].lamp => page'.lamp[p]
      <3>1. CASE m.byte = 0
        BY <1>1, <1>6, <3>1 DEF Hear, Agrees
      <3>2. CASE m.byte # 0
        <4> DEFINE l == ~page.lamp[p]
                   d == [device[p] EXCEPT !.lamp = l]
                   lamps == [page.lamp EXCEPT ![p] = l]
        <4>1. page' = [page EXCEPT !.lamp = lamps] /\ device' = [device EXCEPT ![p] = d]
          BY <1>6, <3>2 DEF Hear, Lit
        <4>2. /\ d.here = device[p].here /\ d.plugged = device[p].plugged
              /\ d.rate = device[p].rate /\ d.lamp = l /\ lamps[p] = l
          BY <1>1 DEF DeviceRec
        <4> HIDE DEF d, lamps, l
        <4> QED BY <1>1, <4>1, <4>2
      <3> QED BY <3>1, <3>2
    <2>4. h = g /\ m.half # "lsb"
      BY <1>6, <2>2
    <2>5. \A k \in Ports \X Names : OnFile(k)'
      BY <1>5, <2>1, <2>2 DEF MidiInv, OnFile
    <2>6. Changes(p)
      BY <1>1, <2>1, <2>2, <2>3, <2>5 DEF Changes
    <2> HIDE DEF m, e, v, c
    <2>7. m = Head(wire[p]) /\ e = Remembers(conns[p], m) /\ v = Tail(wire[p]) /\ c = conns[p]
      BY DEF m, e, v, c
    <2> QED BY <1>1, <1>2, <1>3, <1>4, <1>5, <2>4, <2>6, <2>7, ListensKeeps
  <1>7. CASE m.half # "button"
    <2> DEFINE k == <<p, a.name>>
               heard == [page.heard EXCEPT ![k] = a.value]
               values == [persist.values EXCEPT ![k] = a.value]
    <2>1. /\ a.name \in Names /\ a.value \in Positions
          /\ a.name = "rate" <=> m.half = "msb" \/ m.half = "lsb"
          /\ m.half = "lsb" => a.value = Base * Or(c.msb, Base \div 2) + m.byte
      BY <1>2, <1>3, <1>7, DecodedIs
    <2>2. /\ persist' = [persist EXCEPT !.values = values, !.dirty = TRUE]
          /\ page' = [page EXCEPT !.heard = heard] /\ device' = device
      BY <1>7 DEF Hear
    <2> HIDE DEF a
    <2>3. heard \in Values /\ values \in Values /\ heard[k] = a.value /\ values[k] = a.value
          /\ \A j \in Ports \X Names : j # k => heard[j] = page.heard[j] /\ values[j] = persist.values[j]
      BY <1>1, <2>1 DEF Values
    <2> HIDE DEF heard, values
    <2>4. /\ page' \in [heard : Values, lamp : [Ports -> BOOLEAN]] /\ page'.lamp = page.lamp
          /\ page'.heard = heard /\ persist'.values = values /\ persist'.dirty = TRUE
          /\ persist' \in [values : Values, dirty : BOOLEAN, writing : Values \cup {Silent}]
      BY <1>1, <2>2, <2>3
    <2>5. /\ m.half # "msb" /\ m.half # "lsb" => g = h
          /\ m.half = "lsb" => g = Base * Or(c.msb, Base \div 2) + m.byte
      <3>1. <<p, "rate">> \in Ports \X Names
        BY DEF Names
      <3>2. CASE a.name = "rate"
        <4>1. g = a.value
          BY <2>3, <2>4, <3>2
        <4> QED BY <2>1, <3>2, <4>1
      <3>3. CASE a.name # "rate"
        <4>1. <<p, "rate">> # k
          BY <3>3
        <4> QED BY <2>1, <2>3, <2>4, <3>1, <3>3, <4>1
      <3> QED BY <3>2, <3>3
    <2>6. \A q \in Ports : q # p => page'.heard[<<q, "rate">>] = page.heard[<<q, "rate">>]
      <3> SUFFICES ASSUME NEW q \in Ports, q # p
                   PROVE  page'.heard[<<q, "rate">>] = page.heard[<<q, "rate">>]
        OBVIOUS
      <3>1. <<q, "rate">> \in Ports \X Names /\ <<q, "rate">> # k
        BY DEF Names
      <3> QED BY <2>3, <2>4, <3>1
    <2>7. \A j \in Ports \X Names : OnFile(j)'
      <3> SUFFICES ASSUME NEW j \in Ports \X Names PROVE OnFile(j)'
        OBVIOUS
      <3>1. CASE j = k
        BY <2>3, <2>4, <3>1 DEF OnFile
      <3>2. CASE j # k
        <4>1. page'.heard[j] = page.heard[j] /\ persist'.values[j] = persist.values[j]
          BY <2>3, <2>4, <3>2
        <4>2. OnFile(j)
          BY DEF MidiInv
        <4> QED BY <2>4, <4>1, <4>2 DEF OnFile
      <3> QED BY <3>1, <3>2
    <2>8. Changes(p)
      <3>1. device'[p].lamp => page'.lamp[p]
        BY <1>1, <2>2, <2>4 DEF Agrees
      <3> QED BY <1>1, <2>2, <2>4, <2>6, <2>7, <3>1 DEF Changes
    <2> HIDE DEF m, e, v, c
    <2>9. m = Head(wire[p]) /\ e = Remembers(conns[p], m) /\ v = Tail(wire[p]) /\ c = conns[p]
      BY DEF m, e, v, c
    <2> QED BY <1>1, <1>2, <1>3, <1>4, <1>5, <2>5, <2>8, <2>9, ListensKeeps
  <1> QED BY <1>6, <1>7

\* The flusher takes its copy, and the file is written.
LEMMA FlushKeeps ==
  ASSUME MidiInv, Snapshot \/ Written
  PROVE  MidiInv'
  <1>1. /\ MidiTypeOK /\ UNCHANGED <<device, wire, conns, pass, page>>
        /\ persist \in [values : Values, dirty : BOOLEAN, writing : Values \cup {Silent}]
    BY DEF MidiInv, MidiTypeOK, Snapshot, Written
  <1>2. \A p \in Ports : Agrees(p)'
    BY <1>1 DEF MidiInv, Agrees, Attached, Open
  <1>3. /\ persist' \in [values : Values, dirty : BOOLEAN, writing : Values \cup {Silent}]
        /\ file' \in Values /\ \A k \in Ports \X Names : OnFile(k)'
    <2>1. CASE Snapshot
      <3>1. /\ persist'.values = persist.values /\ persist'.writing = persist.values
            /\ persist.values # Silent /\ file' = file
            /\ persist' \in [values : Values, dirty : BOOLEAN, writing : Values \cup {Silent}]
        BY <1>1, <2>1, MidiAssumption DEF Snapshot
      <3> QED BY <1>1, <3>1 DEF MidiInv, MidiTypeOK, OnFile
    <2>2. CASE Written
      <3>1. /\ persist'.values = persist.values /\ persist'.writing = Silent
            /\ persist'.dirty = persist.dirty /\ persist.writing # Silent
            /\ persist' \in [values : Values, dirty : BOOLEAN, writing : Values \cup {Silent}]
            /\ file' = persist.writing /\ file' \in Values
        BY <1>1, <2>2 DEF Written
      <3> QED BY <1>1, <3>1 DEF MidiInv, OnFile
    <2> QED BY <2>1, <2>2
  <1>4. MidiTypeOK' /\ (pass.todo \subseteq pass.live)'
    BY <1>1, <1>3 DEF MidiInv, MidiTypeOK
  <1> QED BY <1>2, <1>3, <1>4 DEF MidiInv

\* A fader is on the page as it stands on its controller, a lamp that is lit is one the
\* page wants lit, and the file has what was touched (ControllersAgree: the decoder, the
\* supervisor's blanking, the flusher).
THEOREM ControllersAgreeHolds ==
  ASSUME Quirks = {}
  PROVE  MidiSpec => []ControllersAgree
  <1>1. MidiInit => MidiInv
    <2> SUFFICES ASSUME MidiInit PROVE MidiInv
      OBVIOUS
    <2>1. 0 \in Bytes /\ 0 \in Positions
      <3>1. Base \in Nat \ {0} /\ 0 \in Bytes
        BY MidiAssumption DEF Bytes
      <3> QED BY <3>1, PairIsPosition
    <2>2. device \in [Ports -> DeviceRec]
      BY <2>1 DEF MidiInit, DeviceRec
    <2>3. Nowhere \in Values
      BY DEF Nowhere, Values
    <2>4. \A k \in Ports \X Names : Nowhere[k] = Silent
      BY DEF Nowhere
    <2>5. MidiTypeOK
      <3> DEFINE lamps == [p \in Ports |-> FALSE]
      <3>1. page = [heard |-> Nowhere, lamp |-> lamps] /\ lamps \in [Ports -> BOOLEAN]
        BY DEF MidiInit
      <3> HIDE DEF lamps
      <3>2. page \in [heard : Values, lamp : [Ports -> BOOLEAN]]
        BY <2>3, <3>1
      <3>3. persist \in [values : Values, dirty : BOOLEAN, writing : Values \cup {Silent}]
        BY <2>3 DEF MidiInit
      <3>4. wire \in [Ports -> Seq(Messages)] /\ conns \in [Ports -> ConnRec \cup {Silent}]
        BY DEF MidiInit
      <3>5. pass \in [todo : SUBSET Ports, live : SUBSET Ports, on : BOOLEAN] /\ file \in Values
        BY <2>3 DEF MidiInit
      <3> QED BY <2>2, <3>2, <3>3, <3>4, <3>5 DEF MidiTypeOK
    <2>6. \A p \in Ports : Agrees(p)
      <3> SUFFICES ASSUME NEW p \in Ports PROVE Agrees(p)
        OBVIOUS
      <3>1. wire[p] = <<>> /\ ~Attached(p)
        BY DEF MidiInit, Attached, Open
      <3> QED BY <3>1 DEF Agrees, InBytes
    <2>7. \A k \in Ports \X Names : OnFile(k)
      BY <2>4 DEF MidiInit, OnFile
    <2>8. pass.todo \subseteq pass.live
      BY DEF MidiInit
    <2> QED BY <2>5, <2>6, <2>7, <2>8 DEF MidiInv
  <1>2. MidiInv /\ [MidiWorld \/ MidiRuns]_midiVars => MidiInv'
    <2> SUFFICES ASSUME MidiInv, [MidiWorld \/ MidiRuns]_midiVars PROVE MidiInv'
      OBVIOUS
    <2>1. CASE MidiWorld
      <3>1. CASE Restart
        <4>1. /\ device' = device /\ file' = file /\ page'.heard = file
              /\ device \in [Ports -> DeviceRec] /\ file \in Values
          BY <3>1 DEF Restart, MidiInv, MidiTypeOK
        <4>2. /\ conns' = [p \in Ports |-> Silent] /\ wire' = [p \in Ports |-> <<>>]
              /\ pass' = [todo |-> {}, live |-> {}, on |-> FALSE]
              /\ page' = [heard |-> page'.heard, lamp |-> [p \in Ports |-> FALSE]]
              /\ persist' = [values |-> Nowhere, dirty |-> FALSE, writing |-> Silent]
          BY <3>1 DEF Restart
        <4>3. Nowhere \in Values /\ \A k \in Ports \X Names : Nowhere[k] = Silent
          BY DEF Nowhere, Values
        <4> HIDE DEF Nowhere
        <4>4. MidiTypeOK'
          <5>1. page' \in [heard : Values, lamp : [Ports -> BOOLEAN]]
            <6> DEFINE lamps == [p \in Ports |-> FALSE]
            <6>1. lamps \in [Ports -> BOOLEAN] /\ page' = [heard |-> file, lamp |-> lamps]
              BY <4>1, <4>2
            <6> HIDE DEF lamps
            <6> QED BY <4>1, <6>1
          <5>2. persist' \in [values : Values, dirty : BOOLEAN, writing : Values \cup {Silent}]
            BY <4>2, <4>3
          <5>3. wire' \in [Ports -> Seq(Messages)] /\ conns' \in [Ports -> ConnRec \cup {Silent}]
            BY <4>2
          <5> QED BY <4>1, <4>2, <5>1, <5>2, <5>3 DEF MidiTypeOK
        <4>5. \A p \in Ports : Agrees(p)'
          BY <4>2 DEF Agrees, Attached, Open, InBytes
        <4>6. \A k \in Ports \X Names : OnFile(k)'
          BY <4>2, <4>3 DEF OnFile
        <4> QED BY <4>2, <4>4, <4>5, <4>6 DEF MidiInv
      <3>2. ASSUME NEW p \in Ports,
                   \/ \E x \in Positions : MoveRate(p, x)
                   \/ \E x \in Bytes : MoveGain(p, x)
                   \/ Press(p) \/ Unplug(p) \/ Plug(p)
            PROVE  MidiInv'
        BY <3>2, HandsKeep, PlugsKeep
      <3> QED BY <2>1, <3>1, <3>2 DEF MidiWorld
    <2>2. CASE MidiRuns
      BY <2>2, PassKeeps, ConnectKeeps, HearKeeps, FlushKeeps DEF MidiRuns
    <2>3. CASE UNCHANGED midiVars
      BY <2>3 DEF midiVars, MidiInv, MidiTypeOK, Agrees, Attached, Open, OnFile
    <2> QED BY <2>1, <2>2, <2>3
  <1>3. MidiInv => ControllersAgree
    <2> SUFFICES ASSUME MidiInv PROVE ControllersAgree
      OBVIOUS
    <2>1. ASSUME NEW p \in Ports, Attached(p)
          PROVE  /\ wire[p] = <<>> /\ conns[p].lsb # Silent =>
                      page.heard[<<p, "rate">>] = device[p].rate
                 /\ device[p].lamp => page.lamp[p]
      <3>1. Tells(wire[p], conns[p], device[p].rate, page.heard[<<p, "rate">>])
            /\ (device[p].lamp => page.lamp[p])
        BY <2>1 DEF MidiInv, Agrees
      <3>2. wire[p] = <<>> => NoFineAfter(wire[p], 0)
        BY DEF NoFineAfter
      <3> QED BY <3>1, <3>2 DEF Tells
    <2>2. ~persist.dirty /\ persist.writing = Silent =>
            \A k \in Ports \X Names : persist.values[k] # Silent =>
               file[k] = persist.values[k] /\ page.heard[k] = file[k]
      BY DEF MidiInv, OnFile
    <2> QED BY <2>1, <2>2 DEF ControllersAgree
  <1> QED BY <1>1, <1>2, <1>3, PTL DEF MidiSpec

\* Whatever is unplugged and plugged in between two passes: what is on the wires is made of
\* bytes, and a value that was touched is on the page, and in the file or on its way there.
TouchesAreKept ==
    /\ MidiTypeOK /\ \A p \in Ports : InBytes(wire[p])
    /\ \A k \in Ports \X Names : OnFile(k)

\* Messages at the end of a wire are bytes too.
LEMMA SentInBytes ==
  ASSUME TouchesAreKept, NEW p \in Ports, NEW u \in Seq(Messages), InBytes(u),
         NEW d \in DeviceRec, device' = [device EXCEPT ![p] = d], Send(p, u),
         UNCHANGED <<conns, pass, page, persist, file>>
  PROVE  TouchesAreKept'
  <1>1. /\ MidiTypeOK /\ device \in [Ports -> DeviceRec] /\ wire \in [Ports -> Seq(Messages)]
        /\ wire[p] \in Seq(Messages) /\ InBytes(wire[p])
    BY DEF TouchesAreKept, MidiTypeOK
  <1> DEFINE w == IF Attached(p) THEN wire[p] \o u ELSE wire[p]
  <1>2. wire' = [wire EXCEPT ![p] = w]
    BY DEF Send
  <1>3. w \in Seq(Messages) /\ InBytes(w)
    <2>1. wire[p] \o u \in Seq(Messages) /\ InBytes(wire[p] \o u)
      <3> DEFINE v == wire[p] \o u
      <3>1. /\ v \in Seq(Messages) /\ Len(v) = Len(wire[p]) + Len(u)
            /\ Len(wire[p]) \in Nat /\ Len(u) \in Nat
            /\ \A i \in 1..Len(wire[p]) : v[i] = wire[p][i]
            /\ \A i \in 1..Len(u) : v[Len(wire[p]) + i] = u[i]
        BY <1>1, MoreOf
      <3> HIDE DEF v
      <3>2. ASSUME NEW i \in 1..Len(v) PROVE v[i].byte \in Bytes
        <4>1. CASE i <= Len(wire[p])
          <5>1. i \in 1..Len(wire[p])
            BY <3>1, <4>1
          <5> QED BY <1>1, <3>1, <5>1 DEF InBytes
        <4>2. CASE i > Len(wire[p])
          <5>1. i - Len(wire[p]) \in 1..Len(u) /\ Len(wire[p]) + (i - Len(wire[p])) = i
            BY <3>1, <4>2
          <5> QED BY <3>1, <5>1 DEF InBytes
        <4> QED BY <3>1, <4>1, <4>2
      <3>3. InBytes(v)
        BY <3>2 DEF InBytes
      <3> QED BY <3>1, <3>3 DEF v
    <2> QED BY <1>1, <2>1
  <1> HIDE DEF w
  <1>4. wire' \in [Ports -> Seq(Messages)] /\ \A q \in Ports : InBytes(wire'[q])
    BY <1>1, <1>2, <1>3 DEF TouchesAreKept
  <1>5. device' \in [Ports -> DeviceRec]
    BY <1>1
  <1> QED BY <1>1, <1>4, <1>5 DEF TouchesAreKept, MidiTypeOK, OnFile

\* A hand on a controller.
LEMMA HandsTyped ==
  ASSUME TouchesAreKept, NEW p \in Ports,
         \/ \E x \in Positions : MoveRate(p, x)
         \/ \E x \in Bytes : MoveGain(p, x)
         \/ Press(p)
  PROVE  TouchesAreKept'
  <1>1. device[p] \in DeviceRec /\ device \in [Ports -> DeviceRec]
    BY DEF TouchesAreKept, MidiTypeOK
  <1>2. Base \in Nat \ {0} /\ \A b \in Bytes : b \in Nat
    BY MidiAssumption DEF Bytes
  <1>3. ASSUME NEW x \in Positions, MoveRate(p, x) PROVE TouchesAreKept'
    <2> DEFINE msb == [half |-> "msb", byte |-> x \div Base]
               lsb == [half |-> "lsb", byte |-> x % Base]
               u == <<msb, lsb>>
               d == [device[p] EXCEPT !.rate = x]
    <2>1. msb \in Messages /\ lsb \in Messages /\ msb.byte \in Bytes /\ lsb.byte \in Bytes
      <3>1. x \div Base \in Bytes /\ x % Base \in Bytes
        BY HalvesOf
      <3> QED BY <1>2, <3>1 DEF Messages
    <2>2. d \in DeviceRec
      BY <1>1 DEF DeviceRec
    <2>3. device' = [device EXCEPT ![p] = d] /\ Send(p, u)
          /\ UNCHANGED <<conns, pass, page, persist, file>>
      BY <1>3 DEF MoveRate
    <2> HIDE DEF msb, lsb, d
    <2>4. u \in Seq(Messages) /\ InBytes(u)
      BY <2>1 DEF InBytes
    <2> HIDE DEF u
    <2> QED BY <2>2, <2>3, <2>4, SentInBytes
  <1>4. ASSUME NEW x \in Bytes, MoveGain(p, x) PROVE TouchesAreKept'
    <2> DEFINE m == [half |-> "gain", byte |-> x]
               u == <<m>>
               d == [device[p] EXCEPT !.gain = x]
    <2>1. m \in Messages /\ m.byte \in Bytes
      BY <1>2 DEF Messages
    <2>2. d \in DeviceRec
      BY <1>1 DEF DeviceRec
    <2>3. device' = [device EXCEPT ![p] = d] /\ Send(p, u)
          /\ UNCHANGED <<conns, pass, page, persist, file>>
      BY <1>4 DEF MoveGain
    <2> HIDE DEF m, d
    <2>4. u \in Seq(Messages) /\ InBytes(u)
      BY <2>1 DEF InBytes
    <2> HIDE DEF u
    <2> QED BY <2>2, <2>3, <2>4, SentInBytes
  <1>5. CASE Press(p)
    <2> DEFINE m == [half |-> "button", byte |-> Base - 1]
               l == [half |-> "button", byte |-> 0]
               u == <<m, l>>
    <2>1. m \in Messages /\ l \in Messages /\ m.byte \in Bytes /\ l.byte \in Bytes
      BY <1>2 DEF Messages, Bytes
    <2>2. device' = [device EXCEPT ![p] = device[p]] /\ Send(p, u)
          /\ UNCHANGED <<conns, pass, page, persist, file>>
      BY <1>1, <1>5 DEF Press
    <2> HIDE DEF m, l
    <2>3. u \in Seq(Messages) /\ InBytes(u)
      BY <2>1 DEF InBytes
    <2> HIDE DEF u
    <2> QED BY <1>1, <2>2, <2>3, SentInBytes
  <1> QED BY <1>3, <1>4, <1>5

\* A plug is pulled or put in, or the port is connected.
LEMMA PlugsTyped ==
  ASSUME TouchesAreKept, NEW p \in Ports,
         Unplug(p) \/ Plug(p) \/ Connect(p)
  PROVE  TouchesAreKept'
  <1>1. /\ device \in [Ports -> DeviceRec] /\ device[p] \in DeviceRec
        /\ wire \in [Ports -> Seq(Messages)] /\ conns \in [Ports -> ConnRec \cup {Silent}]
        /\ pass \in [todo : SUBSET Ports, live : SUBSET Ports, on : BOOLEAN]
        /\ device[p].plugged \in Nat
        /\ UNCHANGED <<page, persist, file>>
    BY DEF TouchesAreKept, MidiTypeOK, DeviceRec, Unplug, Plug, Connect
  <1>2. ASSUME device' \in [Ports -> DeviceRec], wire' \in [Ports -> Seq(Messages)],
               \A q \in Ports : InBytes(wire'[q]), conns' \in [Ports -> ConnRec \cup {Silent}],
               pass' \in [todo : SUBSET Ports, live : SUBSET Ports, on : BOOLEAN]
        PROVE  TouchesAreKept'
    BY <1>1, <1>2 DEF TouchesAreKept, MidiTypeOK, OnFile
  <1>3. ASSUME NEW d \in DeviceRec, device' = [device EXCEPT ![p] = d]
        PROVE  device' \in [Ports -> DeviceRec]
    BY <1>1, <1>3
  <1>4. CASE Unplug(p)
    <2> DEFINE d == [device[p] EXCEPT !.here = FALSE, !.lamp = FALSE]
    <2>1. d \in DeviceRec
      BY <1>1 DEF DeviceRec
    <2>2. device' = [device EXCEPT ![p] = d]
      BY <1>1, <1>4 DEF Unplug
    <2>3. wire' \in [Ports -> Seq(Messages)] /\ \A q \in Ports : InBytes(wire'[q])
      BY <1>1, <1>4 DEF Unplug, InBytes, TouchesAreKept
    <2>4. UNCHANGED <<conns, pass>>
      BY <1>4 DEF Unplug
    <2> HIDE DEF d
    <2> QED BY <1>1, <1>2, <1>3, <2>1, <2>2, <2>3, <2>4
  <1>5. CASE Plug(p)
    <2> DEFINE d == [device[p] EXCEPT !.here = TRUE, !.plugged = device[p].plugged + 1]
    <2>1. d \in DeviceRec
      <3>1. device[p].plugged + 1 \in Nat
        BY <1>1
      <3> DEFINE n == device[p].plugged + 1
      <3> HIDE DEF n
      <3>2. n \in Nat => d \in DeviceRec
        BY <1>1 DEF DeviceRec, n
      <3> QED BY <3>1, <3>2 DEF n
    <2>2. device' = [device EXCEPT ![p] = d]
      BY <1>1, <1>5 DEF Plug
    <2>3. UNCHANGED <<wire, conns, pass>>
      BY <1>5 DEF Plug
    <2> HIDE DEF d
    <2> QED BY <1>1, <1>2, <1>3, <2>1, <2>2, <2>3 DEF TouchesAreKept
  <1>6. CASE Connect(p)
    <2> DEFINE c == [plugged |-> device[p].plugged, msb |-> Silent, lsb |-> Silent]
               d == [device[p] EXCEPT !.lamp = FALSE]
    <2>1. c \in ConnRec /\ d \in DeviceRec
      BY <1>1 DEF ConnRec, DeviceRec
    <2>2. /\ conns' \in {conns, [conns EXCEPT ![p] = c]}
          /\ device' \in {device, [device EXCEPT ![p] = d]}
      BY <1>1, <1>6 DEF Connect, Blanked
    <2>3. wire' = wire /\ pass' \in [todo : SUBSET Ports, live : SUBSET Ports, on : BOOLEAN]
      BY <1>1, <1>6 DEF Connect
    <2> HIDE DEF c, d
    <2>4. conns' \in [Ports -> ConnRec \cup {Silent}] /\ device' \in [Ports -> DeviceRec]
      BY <1>1, <2>1, <2>2
    <2> QED BY <1>1, <1>2, <2>3, <2>4 DEF TouchesAreKept
  <1> QED BY <1>4, <1>5, <1>6

\* A pass of the supervisor begins and ends.
LEMMA PassTyped ==
  ASSUME TouchesAreKept, StartPass \/ Disconnect
  PROVE  TouchesAreKept'
  <1>1. /\ conns \in [Ports -> ConnRec \cup {Silent}]
        /\ pass \in [todo : SUBSET Ports, live : SUBSET Ports, on : BOOLEAN]
        /\ UNCHANGED <<device, wire, page, persist, file>>
    BY DEF TouchesAreKept, MidiTypeOK, StartPass, Disconnect
  <1>2. pass' \in [todo : SUBSET Ports, live : SUBSET Ports, on : BOOLEAN]
    <2>1. CASE StartPass
      BY <2>1 DEF StartPass
    <2>2. CASE Disconnect
      <3>1. pass' = [pass EXCEPT !.on = FALSE, !.live = {}]
        BY <2>2 DEF Disconnect
      <3> QED BY <1>1, <3>1
    <2> QED BY <2>1, <2>2
  <1>3. conns' \in [Ports -> ConnRec \cup {Silent}]
    BY <1>1 DEF StartPass, Disconnect
  <1> QED BY <1>1, <1>2, <1>3 DEF TouchesAreKept, MidiTypeOK, OnFile

\* A connection's callback.
LEMMA HearTyped ==
  ASSUME TouchesAreKept, NEW p \in Ports, Hear(p)
  PROVE  TouchesAreKept'
  <1> DEFINE m == Head(wire[p])
             c == conns[p]
             a == Decoded(c, m)
             v == Tail(wire[p])
             e == Remembers(c, m)
  <1>1. /\ MidiTypeOK /\ device \in [Ports -> DeviceRec] /\ wire \in [Ports -> Seq(Messages)]
        /\ conns \in [Ports -> ConnRec \cup {Silent}] /\ wire[p] \in Seq(Messages)
        /\ wire[p] # <<>> /\ Attached(p) /\ device[p] \in DeviceRec /\ InBytes(wire[p])
        /\ page.lamp \in [Ports -> BOOLEAN] /\ page.heard \in Values
        /\ page \in [heard : Values, lamp : [Ports -> BOOLEAN]]
        /\ persist \in [values : Values, dirty : BOOLEAN, writing : Values \cup {Silent}]
    BY MidiFields DEF TouchesAreKept, MidiTypeOK, Hear
  <1>2. c \in ConnRec
    BY <1>1 DEF Attached, Open
  <1>3. m \in Messages /\ m.byte \in Bytes /\ v \in Seq(Messages) /\ InBytes(v)
    <2>1. 1 \in 1..Len(wire[p]) /\ m = wire[p][1] /\ Len(v) = Len(wire[p]) - 1
          /\ \A i \in 1..Len(v) : i + 1 \in 1..Len(wire[p]) /\ v[i] = wire[p][i + 1]
      BY <1>1
    <2> QED BY <1>1, <2>1 DEF InBytes
  <1>4. e \in ConnRec
    BY <1>2, <1>3 DEF Remembers, ConnRec
  <1>5. /\ wire' = [wire EXCEPT ![p] = v] /\ conns' = [conns EXCEPT ![p] = e]
        /\ UNCHANGED <<pass, file>>
    BY DEF Hear
  <1>6. ASSUME device' \in [Ports -> DeviceRec],
               page' \in [heard : Values, lamp : [Ports -> BOOLEAN]],
               persist' \in [values : Values, dirty : BOOLEAN, writing : Values \cup {Silent}],
               \A k \in Ports \X Names : OnFile(k)'
        PROVE  TouchesAreKept'
    <2> HIDE DEF v, e
    <2>1. /\ wire' \in [Ports -> Seq(Messages)] /\ \A q \in Ports : InBytes(wire'[q])
          /\ conns' \in [Ports -> ConnRec \cup {Silent}]
      BY <1>1, <1>3, <1>4, <1>5 DEF TouchesAreKept
    <2> QED BY <1>1, <1>5, <1>6, <2>1 DEF TouchesAreKept, MidiTypeOK
  <1>7. CASE m.half = "button"
    <2>1. persist' = persist
      BY <1>7 DEF Hear
    <2>2. /\ page' \in [heard : Values, lamp : [Ports -> BOOLEAN]] /\ page'.heard = page.heard
          /\ device' \in [Ports -> DeviceRec]
      <3>1. CASE m.byte = 0
        BY <1>1, <1>7, <3>1 DEF Hear
      <3>2. CASE m.byte # 0
        <4> DEFINE l == ~page.lamp[p]
                   d == [device[p] EXCEPT !.lamp = l]
                   lamps == [page.lamp EXCEPT ![p] = l]
        <4>1. page' = [page EXCEPT !.lamp = lamps] /\ device' = [device EXCEPT ![p] = d]
          BY <1>7, <3>2 DEF Hear, Lit
        <4>2. d \in DeviceRec /\ lamps \in [Ports -> BOOLEAN]
          BY <1>1 DEF DeviceRec
        <4> HIDE DEF d, lamps
        <4> QED BY <1>1, <4>1, <4>2
      <3> QED BY <3>1, <3>2
    <2>3. \A k \in Ports \X Names : OnFile(k)'
      BY <1>5, <2>1, <2>2 DEF TouchesAreKept, OnFile
    <2> QED BY <1>1, <1>6, <2>1, <2>2, <2>3
  <1>8. CASE m.half # "button"
    <2> DEFINE k == <<p, a.name>>
               heard == [page.heard EXCEPT ![k] = a.value]
               values == [persist.values EXCEPT ![k] = a.value]
    <2>1. a.name \in Names /\ a.value \in Positions
      BY <1>2, <1>3, <1>8, DecodedIs
    <2>2. /\ persist' = [persist EXCEPT !.values = values, !.dirty = TRUE]
          /\ page' = [page EXCEPT !.heard = heard] /\ device' = device
      BY <1>8 DEF Hear
    <2> HIDE DEF a
    <2>3. heard \in Values /\ values \in Values /\ heard[k] = a.value /\ values[k] = a.value
          /\ \A j \in Ports \X Names : j # k => heard[j] = page.heard[j] /\ values[j] = persist.values[j]
      BY <1>1, <2>1 DEF Values
    <2> HIDE DEF heard, values
    <2>4. /\ page' \in [heard : Values, lamp : [Ports -> BOOLEAN]]
          /\ page'.heard = heard /\ persist'.values = values /\ persist'.dirty = TRUE
          /\ persist' \in [values : Values, dirty : BOOLEAN, writing : Values \cup {Silent}]
      BY <1>1, <2>2, <2>3
    <2>5. ASSUME NEW j \in Ports \X Names PROVE OnFile(j)'
      <3>1. CASE j = k
        BY <2>3, <2>4, <3>1 DEF OnFile
      <3>2. CASE j # k
        <4>1. page'.heard[j] = page.heard[j] /\ persist'.values[j] = persist.values[j]
          BY <2>3, <2>4, <3>2
        <4>2. OnFile(j)
          BY DEF TouchesAreKept
        <4> QED BY <2>4, <4>1, <4>2 DEF OnFile
      <3> QED BY <3>1, <3>2
    <2> QED BY <1>1, <1>6, <2>2, <2>4, <2>5
  <1> QED BY <1>7, <1>8

\* The flusher, and a restart.
LEMMA FlushTyped ==
  ASSUME TouchesAreKept, Snapshot \/ Written \/ Restart
  PROVE  TouchesAreKept'
  <1>1. /\ MidiTypeOK /\ file \in Values /\ device' = device
        /\ persist \in [values : Values, dirty : BOOLEAN, writing : Values \cup {Silent}]
    BY DEF TouchesAreKept, MidiTypeOK, Snapshot, Written, Restart
  <1>2. CASE Snapshot
    <2>1. /\ persist'.values = persist.values /\ persist'.writing = persist.values
          /\ persist.values # Silent /\ UNCHANGED <<device, wire, conns, pass, page, file>>
          /\ persist' \in [values : Values, dirty : BOOLEAN, writing : Values \cup {Silent}]
      BY <1>1, <1>2, MidiAssumption DEF Snapshot
    <2> QED BY <1>1, <2>1 DEF TouchesAreKept, MidiTypeOK, OnFile
  <1>3. CASE Written
    <2>1. /\ persist'.values = persist.values /\ persist'.writing = Silent
          /\ persist'.dirty = persist.dirty /\ persist.writing # Silent
          /\ persist' \in [values : Values, dirty : BOOLEAN, writing : Values \cup {Silent}]
          /\ file' = persist.writing /\ file' \in Values
          /\ UNCHANGED <<device, wire, conns, pass, page>>
      BY <1>1, <1>3 DEF Written
    <2> QED BY <1>1, <2>1 DEF TouchesAreKept, MidiTypeOK, OnFile
  <1>4. CASE Restart
    <2>1. /\ conns' = [p \in Ports |-> Silent] /\ wire' = [p \in Ports |-> <<>>]
          /\ pass' = [todo |-> {}, live |-> {}, on |-> FALSE] /\ file' = file
          /\ persist' = [values |-> Nowhere, dirty |-> FALSE, writing |-> Silent]
      BY <1>4 DEF Restart
    <2>2. Nowhere \in Values /\ \A k \in Ports \X Names : Nowhere[k] = Silent
      BY DEF Nowhere, Values
    <2>3. page' \in [heard : Values, lamp : [Ports -> BOOLEAN]]
      <3> DEFINE lamps == [p \in Ports |-> FALSE]
      <3>1. lamps \in [Ports -> BOOLEAN] /\ page' = [heard |-> file, lamp |-> lamps]
        BY <1>4 DEF Restart
      <3> HIDE DEF lamps
      <3> QED BY <1>1, <3>1
    <2>4. persist' \in [values : Values, dirty : BOOLEAN, writing : Values \cup {Silent}]
      BY <2>1, <2>2
    <2>5. wire' \in [Ports -> Seq(Messages)] /\ conns' \in [Ports -> ConnRec \cup {Silent}]
      BY <2>1
    <2>6. MidiTypeOK'
      BY <1>1, <2>1, <2>3, <2>4, <2>5 DEF MidiTypeOK
    <2>7. \A k \in Ports \X Names : OnFile(k)'
      BY <2>1, <2>2 DEF OnFile
    <2>8. \A p \in Ports : InBytes(wire'[p])
      BY <2>1 DEF InBytes
    <2> QED BY <2>6, <2>7, <2>8 DEF TouchesAreKept
  <1> QED BY <1>2, <1>3, <1>4

\* Whatever is unplugged and plugged in, the state of the controllers has its type, and what
\* was touched is on the page, and in the file unless it is still to be written.
THEOREM TouchesAreKeptHolds ==
  MidiSpec => [](MidiTypeOK /\ TouchesAreKept)
  <1>1. MidiInit => TouchesAreKept
    <2> SUFFICES ASSUME MidiInit PROVE TouchesAreKept
      OBVIOUS
    <2>1. 0 \in Bytes /\ 0 \in Positions
      <3>1. Base \in Nat \ {0} /\ 0 \in Bytes
        BY MidiAssumption DEF Bytes
      <3> QED BY <3>1, PairIsPosition
    <2>2. device \in [Ports -> DeviceRec]
      BY <2>1 DEF MidiInit, DeviceRec
    <2>3. Nowhere \in Values /\ \A k \in Ports \X Names : Nowhere[k] = Silent
      BY DEF Nowhere, Values
    <2>4. page \in [heard : Values, lamp : [Ports -> BOOLEAN]]
      <3> DEFINE lamps == [p \in Ports |-> FALSE]
      <3>1. page = [heard |-> Nowhere, lamp |-> lamps] /\ lamps \in [Ports -> BOOLEAN]
        BY DEF MidiInit
      <3> HIDE DEF lamps
      <3> QED BY <2>3, <3>1
    <2>5. persist \in [values : Values, dirty : BOOLEAN, writing : Values \cup {Silent}]
      BY <2>3 DEF MidiInit
    <2>6. wire \in [Ports -> Seq(Messages)] /\ conns \in [Ports -> ConnRec \cup {Silent}]
      BY DEF MidiInit
    <2>7. pass \in [todo : SUBSET Ports, live : SUBSET Ports, on : BOOLEAN] /\ file \in Values
      BY <2>3 DEF MidiInit
    <2>8. MidiTypeOK
      BY <2>2, <2>4, <2>5, <2>6, <2>7 DEF MidiTypeOK
    <2>9. (\A k \in Ports \X Names : OnFile(k)) /\ \A p \in Ports : InBytes(wire[p])
      BY <2>3 DEF MidiInit, OnFile, InBytes
    <2> QED BY <2>8, <2>9 DEF TouchesAreKept
  <1>2. TouchesAreKept /\ [MidiWorld \/ MidiRuns]_midiVars => TouchesAreKept'
    <2> SUFFICES ASSUME TouchesAreKept, [MidiWorld \/ MidiRuns]_midiVars PROVE TouchesAreKept'
      OBVIOUS
    <2>1. CASE UNCHANGED midiVars
      BY <2>1 DEF midiVars, TouchesAreKept, MidiTypeOK, OnFile
    <2>2. ASSUME NEW p \in Ports,
                 \/ \E x \in Positions : MoveRate(p, x)
                 \/ \E x \in Bytes : MoveGain(p, x)
                 \/ Press(p) \/ Unplug(p) \/ Plug(p) \/ Connect(p) \/ Hear(p)
          PROVE  TouchesAreKept'
      BY <2>2, HandsTyped, PlugsTyped, HearTyped
    <2>3. CASE StartPass \/ Disconnect
      BY <2>3, PassTyped
    <2>4. CASE Snapshot \/ Written \/ Restart
      BY <2>4, FlushTyped
    <2> QED BY <2>1, <2>2, <2>3, <2>4 DEF MidiWorld, MidiRuns
  <1> QED BY <1>1, <1>2, PTL DEF MidiSpec, TouchesAreKept

----------------------------------------------------------------------------
(* The services together. *)

\* Each service has its own steps, and none but those.
LEMMA ServicesTakeTurns ==
  ASSUME [ScratchStep \/ MidiStep \/ SnapStep \/ VizStep \/ InstStep \/ ClockStep
          \/ CodecStep \/ PcmStep \/ TempoStep \/ PositionStep \/ RecoveryStep]_servicesVars
  PROVE  /\ [ScratchCalls \/ ScratchRuns]_scratchVars
         /\ [MidiWorld \/ MidiRuns]_midiVars
         /\ [SnapWorld \/ SnapRuns]_snapVars
         /\ [VizWorld \/ VizRuns]_vizVars
         /\ [InstWorld \/ Tick]_instVars
         /\ [ClockWorld \/ ClockRuns]_clockVars
         /\ [CodecWorld \/ CodecRuns]_codec
         /\ [PcmWorld \/ PcmRuns]_pcm
         /\ [TempoWorld \/ TempoRuns]_tempoVars
         /\ [PositionRuns \/ PositionWorld]_posVars
         /\ [RecoveryRuns \/ RecoveryWorld]_recVars
  <1>1. CASE ScratchStep
    BY <1>1 DEF ScratchStep
  <1>2. CASE MidiStep
    BY <1>2 DEF MidiStep
  <1>3. CASE SnapStep
    BY <1>3 DEF SnapStep
  <1>4. CASE VizStep
    BY <1>4 DEF VizStep
  <1>5. CASE InstStep
    BY <1>5 DEF InstStep
  <1>6. CASE ClockStep
    BY <1>6 DEF ClockStep
  <1>7. CASE CodecStep
    BY <1>7 DEF CodecStep
  <1>8. CASE PcmStep
    BY <1>8 DEF PcmStep
  <1>9. CASE TempoStep
    BY <1>9 DEF TempoStep
  <1>10. CASE PositionStep
    BY <1>10 DEF PositionStep
  <1>11. CASE RecoveryStep
    BY <1>11 DEF RecoveryStep
  <1>12. CASE UNCHANGED servicesVars
    BY <1>12 DEF servicesVars
  <1> QED BY <1>1, <1>2, <1>3, <1>4, <1>5, <1>6, <1>7, <1>8, <1>9, <1>10, <1>11, <1>12

\* The program in which any of the services may run implements each of them by itself: what
\* is proved of one holds in it.
THEOREM EachServiceByItself ==
  MCServicesSpec =>
    /\ ScratchSpec /\ MidiSpec /\ SnapSpec /\ VizSpec /\ InstSpec /\ ClockSpec
    /\ CodecSpec /\ PcmSpec /\ TempoSpec /\ PositionSpec /\ RecoverySpec
  <1>1. MCServicesInit =>
          /\ ScratchInit /\ MidiInit /\ SnapInit /\ VizInit /\ InstInit /\ ClockInit
          /\ CodecInit /\ PcmInit /\ TempoInit /\ PositionInit /\ RecoveryInit
    BY DEF MCServicesInit
  <1> QED BY <1>1, ServicesTakeTurns, PTL
          DEF MCServicesSpec, ScratchSpec, MidiSpec, SnapSpec, VizSpec, InstSpec, ClockSpec,
              CodecSpec, PcmSpec, TempoSpec, PositionSpec, RecoverySpec

\* The states of all the services are of their types, whatever mishaps happen to each, with one
\* target on the Snapcast server: a place is in its track, a claim keeps streams of groups, the
\* tap holds no more buffers than its queue and its appsink do.
THEOREM ServicesTypeOKHolds ==
  ASSUME OneTarget
  PROVE  MCServicesSpec => []ServicesTypeOK
  <1>1. ScratchInv /\ InstInv => ScratchTypeOK /\ InstTypeOK
    BY DEF ScratchInv, InstInv
  <1>2. /\ ScratchTypeOK /\ MidiTypeOK /\ SnapTypeOK /\ VizTypeOK /\ InstTypeOK /\ ClockTypeOK
        /\ CodecTypeOK /\ PcmTypeOK /\ TempoTypeOK /\ PositionTypeOK /\ RecoveryTypeOK
        => ServicesTypeOK
    BY DEF ServicesTypeOK
  <1>3. SnapSpec => [](SnapTypeOK /\ GroupsTyped)
    BY GroupsAreTyped
  <1> QED BY <1>1, <1>2, <1>3, EachServiceByItself, ScratchHolds, TouchesAreKeptHolds,
             TheChosenIsRead, InstHolds, ReportsAreOfNow, ThePlayerRuns, WindowsKeepTime,
             LockedDecksFollow, PlacesAreTyped, TypeCorrect, PTL

\* What each service promises holds in the program of all of them when none of the listed
\* mishaps happens: a deck hands back what it took and rests by the hand, controllers and
\* groups agree with what was asked, the folder and the mix are the ones shown, one backend
\* reads a load, the reports are true, the tempi are current, the place and the set are right.
THEOREM ServicesKeepTheirPromises ==
  ASSUME OneTarget, Rush = FALSE, Slips = {}, Quirks = {}, Flicker = FALSE, Races = {}, ~Reuse,
         Lagging = FALSE, Mishaps = {}, Upsets = {}, Gestures = {},
         NEW CONSTANT gap, Closing(gap)
  PROVE  MCServicesSpec =>
           /\ [](/\ DeckHandsBack /\ RestsByTheHand /\ ControllersAgree /\ GroupsComeBack
                 /\ ShowsTheFolder /\ ReportsAreTrue /\ OneBackendOfTheLoad /\ ShowsTheMainMix
                 /\ TemposAreCurrent /\ ShowsItsPlace /\ RecoversTheSet)
           /\ AimKeepsDirection
  <1>1. ScratchSpec => [](DeckHandsBack /\ RestsByTheHand) /\ AimKeepsDirection
    <2>1. ScratchSpec => []RestsByTheHand
      BY RestsByTheHandHolds
    <2>2. ScratchSpec => AimKeepsDirection
      BY AimKeepsDirectionHolds
    <2> QED BY <2>1, <2>2, DeckHandsBackHolds, PTL
  <1>2. MidiSpec => []ControllersAgree
    BY ControllersAgreeHolds
  <1>3. SnapSpec => []GroupsComeBack
    BY GroupsComeBackHolds
  <1>4. VizSpec => []ShowsTheFolder
    BY ShowsTheFolderHolds
  <1>5. InstSpec /\ ClockSpec => []ReportsAreTrue
    BY ReportsAreTrueHolds
  <1>6. CodecSpec => []OneBackendOfTheLoad
    BY OneBackendOfTheLoadHolds
  <1>7. PcmSpec => []ShowsTheMainMix
    BY ShowsTheMainMixHolds
  <1>8. TempoSpec => []TemposAreCurrent
    BY TemposAreCurrentHolds
  <1>9. PositionSpec => []ShowsItsPlace
    BY PlaceIsShown
  <1>10. RecoverySpec => []RecoversTheSet
    BY RecoversTheSetHolds
  <1> QED BY <1>1, <1>2, <1>3, <1>4, <1>5, <1>6, <1>7, <1>8, <1>9, <1>10, EachServiceByItself,
             PTL
===============================================================================
