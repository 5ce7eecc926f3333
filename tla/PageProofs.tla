----------------------------- MODULE PageProofs -----------------------------
(***************************************************************************)
(* What is proved of what a page restores (SessionRecovery), of the place it *)
(* shows of a deck (PlayPosition), of the plugin it shows (VizPlugins), and *)
(* of what presents a deck's video in it (CodecPath), for any decks, loads  *)
(* and levels, any track, rates and places, any files, and queues of any    *)
(* length.                                                                 *)
(***************************************************************************)
EXTENDS SessionRecovery, PlayPosition, VizPlugins, CodecPath, TLAPS

----------------------------------------------------------------------------
(* Types. *)

\* A fresh page and its session are of their types.
LEMMA NewPageType == NewPage \in PageRec /\ NewSession \in Session
  BY RecoveryAssumption DEF NewPage, NewSession, PageRec, Session, MaybeSession, Lane, Idle, Loads

\* A sync keeps the types of what it changes.
LEMMA SyncsTyped ==
  ASSUME RecoveryTypeOK, NEW p \in PageRec, SyncsPage(p)
  PROVE  /\ ui' \in PageRec
         /\ piped' \in [Bays -> Piped \cup {Gone}]
         /\ fetches' \subseteq [bay : Bays, load : Loads]
  <1>1. \A b \in Bays : p.session.decks[b] \in Lane /\ p.session.decks[b].load \in Loads
                        /\ p.session.decks[b].playing \in BOOLEAN
    BY DEF PageRec, Session, Lane
  <1>2. [b \in Bays |-> p.session.decks[b].load] \in [Bays -> Loads]
    BY <1>1
  <1>3. [b \in Bays |-> IF b \in Changed(p) THEN Gone ELSE p.adoptions[b]] \in [Bays -> BOOLEAN \cup {Gone}]
    BY DEF PageRec
  <1>4. [b \in Bays |-> IF b \in Fetched(p) THEN FALSE
                        ELSE IF b \in Changed(p) THEN p.adoptions[b]
                        ELSE IF b \in Told(p) THEN p.session.decks[b].playing ELSE p.last[b]] \in [Bays -> BOOLEAN]
    BY <1>1 DEF PageRec, Fetched
  <1>5. ui' \in PageRec
    BY <1>2, <1>3, <1>4 DEF SyncsPage, PageRec
  <1>6. piped' \in [Bays -> Piped \cup {Gone}]
    BY <1>1 DEF SyncsPage, RecoveryTypeOK, Piped, Told
  <1>7. fetches' \subseteq [bay : Bays, load : Loads]
    <2>1. ASSUME NEW b \in Fetched(p)
          PROVE  [bay |-> b, load |-> p.session.decks[b].load] \in [bay : Bays, load : Loads]
      BY <1>1 DEF Fetched, Changed
    <2> QED BY <2>1 DEF SyncsPage, RecoveryTypeOK
  <1> QED BY <1>5, <1>6, <1>7

\* So does a change of the session.
LEMMA EditsTyped ==
  ASSUME RecoveryTypeOK, NEW s \in Session, NEW due \in {"kept", "lost"}, Edits(s, due)
  PROVE  /\ ui' \in PageRec
         /\ piped' \in [Bays -> Piped \cup {Gone}]
         /\ fetches' \subseteq [bay : Bays, load : Loads]
  <1> DEFINE p == [ui EXCEPT !.session = s, !.due = IF @ = "lost" THEN @ ELSE due]
  <1>1. p \in PageRec
    BY DEF RecoveryTypeOK, PageRec
  <1>2. CASE ui.phase = "up"
    BY <1>1, <1>2, SyncsTyped DEF Edits
  <1>3. CASE ui.phase # "up"
    BY <1>1, <1>3 DEF Edits, RecoveryTypeOK
  <1> QED BY <1>2, <1>3

\* The program starts in its types.
LEMMA InitTyped == RecoveryInit => RecoveryTypeOK
  <1> SUFFICES ASSUME RecoveryInit PROVE RecoveryTypeOK
    OBVIOUS
  <1>1. ui \in PageRec
    BY NewPageType DEF RecoveryInit
  <1>2. store \in [current : MaybeSession, file : MaybeSession, knob : Levels \cup {Gone}]
    <2>1. [b \in Bays |-> [load |-> 1, playing |-> TRUE]] \in [Bays -> Lane]
      BY RecoveryAssumption DEF Lane, Loads
    <2>2. ASSUME NEW f \in [decks : {[b \in Bays |-> [load |-> 1, playing |-> TRUE]]}, level : Levels]
          PROVE  f \in Session
      BY <2>1 DEF Session
    <2> QED BY <2>2 DEF RecoveryInit, MaybeSession
  <1>3. intent \in [decks : [Bays -> Lane], level : Levels, loads : Loads, begun : SUBSET Loads]
    <2>1. store.file # Gone => store.file.level \in Levels
      BY DEF RecoveryInit
    <2>2. store.knob # Gone => store.knob \in Levels
      BY DEF RecoveryInit
    <2>3. NewSession.decks \in [Bays -> Lane] /\ 1 \in Loads /\ Level0 \in Levels
      BY RecoveryAssumption, NewPageType DEF Session, Loads
    <2> QED BY <2>1, <2>2, <2>3 DEF RecoveryInit
  <1> QED BY <1>1, <1>2, <1>3 DEF RecoveryInit, RecoveryTypeOK

\* Every step keeps them.
LEMMA NextTyped == RecoveryTypeOK /\ [RecoveryRuns \/ RecoveryWorld]_recVars => RecoveryTypeOK'
  <1> SUFFICES ASSUME RecoveryTypeOK, [RecoveryRuns \/ RecoveryWorld]_recVars PROVE RecoveryTypeOK'
    OBVIOUS
  <1> USE DEF RecoveryTypeOK
  <1>0. ui.session \in Session /\ ui.session.decks \in [Bays -> Lane] /\ ui.session.level \in Levels
    BY DEF PageRec, Session
  <1>1. ASSUME NEW b \in Bays, LoadsBay(b) PROVE RecoveryTypeOK'
    <2> DEFINE lane == [load |-> intent.loads + 1, playing |-> FALSE]
    <2>1. lane \in Lane /\ intent.loads + 1 \in Loads
      BY <1>1, RecoveryAssumption DEF LoadsBay, Lane, Loads
    <2>2. [ui.session EXCEPT !.decks[b] = lane] \in Session
      BY <1>0, <2>1 DEF Session
    <2>3. Edits([ui.session EXCEPT !.decks[b] = lane], "lost")
      BY <1>1 DEF LoadsBay
    <2>4. intent' \in [decks : [Bays -> Lane], level : Levels, loads : Loads, begun : SUBSET Loads]
      BY <1>1, <2>1 DEF LoadsBay
    <2> QED BY <1>1, <2>2, <2>3, <2>4, EditsTyped DEF LoadsBay
  <1>2. ASSUME NEW b \in Bays, PressesPlay(b) PROVE RecoveryTypeOK'
    <2> DEFINE plays == ~ui.session.decks[b].playing
    <2>0. \A lane \in Lane : [lane EXCEPT !.playing = plays] \in Lane
      <3>1. ASSUME NEW lane \in Lane, NEW on \in BOOLEAN PROVE [lane EXCEPT !.playing = on] \in Lane
        BY DEF Lane
      <3>2. plays \in BOOLEAN
        OBVIOUS
      <3> HIDE DEF plays
      <3> QED BY <3>1, <3>2
    <2>1. [ui.session EXCEPT !.decks[b].playing = plays] \in Session
      <3> HIDE DEF plays
      <3> QED BY <1>0, <2>0 DEF Session
    <2>2. Edits([ui.session EXCEPT !.decks[b].playing = plays], "kept")
      BY <1>2 DEF PressesPlay
    <2>3. intent' \in [decks : [Bays -> Lane], level : Levels, loads : Loads, begun : SUBSET Loads]
      BY <1>2, ZenonT(40) DEF PressesPlay, Lane
    <2> QED BY <1>2, <2>1, <2>2, <2>3, EditsTyped DEF PressesPlay
  <1>3. ASSUME NEW b \in Bays, StreamEnds(b) PROVE RecoveryTypeOK'
    <2>0. \A lane \in Lane : [lane EXCEPT !.playing = FALSE] \in Lane
      <3>1. ASSUME NEW lane \in Lane, NEW on \in BOOLEAN PROVE [lane EXCEPT !.playing = on] \in Lane
        BY DEF Lane
      <3> QED BY <3>1
    <2>1. [ui.session EXCEPT !.decks[b].playing = FALSE] \in Session
      BY <1>0, <2>0 DEF Session
    <2>2. intent' \in [decks : [Bays -> Lane], level : Levels, loads : Loads, begun : SUBSET Loads]
      BY <1>3, ZenonT(40) DEF StreamEnds, Lane
    <2>3. CASE ui.phase = "up"
      BY <1>3, <2>1, <2>2, <2>3, EditsTyped DEF StreamEnds
    <2>4. CASE ui.phase # "up"
      BY <1>3, <2>2, <2>4 DEF StreamEnds
    <2> QED BY <2>3, <2>4
  <1>4. ASSUME NEW v \in Levels, NEW byKnob \in BOOLEAN, SetsLevel(v, byKnob) PROVE RecoveryTypeOK'
    <2>1. [ui.session EXCEPT !.level = v] \in Session
      BY <1>0 DEF Session
    <2>2. Edits([ui.session EXCEPT !.level = v], "lost")
      BY <1>4 DEF SetsLevel
    <2>3. intent' \in [decks : [Bays -> Lane], level : Levels, loads : Loads, begun : SUBSET Loads]
      BY <1>4 DEF SetsLevel
    <2>4. store' \in [current : MaybeSession, file : MaybeSession, knob : Levels \cup {Gone}]
      BY <1>4 DEF SetsLevel
    <2> QED BY <2>1, <2>2, <2>3, <2>4, EditsTyped
  <1>5. CASE ReloadsPage
    BY <1>5, NewPageType DEF ReloadsPage
  <1>6. CASE RestartsProgram
    BY <1>6, NewPageType DEF RestartsProgram, MaybeSession, Session
  <1>7. CASE AsksSession
    <2>1. \A b \in Bays : StatusOf(piped[b]) \in Lane
      BY RecoveryAssumption DEF StatusOf, Piped, Lane, Idle, Loads
    <2> QED BY <1>7, <2>1 DEF AsksSession, PageRec
  <1>8. CASE RestoresSession
    <2> DEFINE session == IF Recovers(ui) THEN [ui.answer EXCEPT !.decks = [b \in Bays |-> AsHeard(@[b], ui.audio[b])]]
                          ELSE IF ui.answer # Gone THEN [ui.session EXCEPT !.level = ui.answer.level] ELSE ui.session
               adoptions == [b \in Bays |-> IF Recovers(ui) /\ ui.audio[b].load # 0 THEN ui.audio[b].playing ELSE Gone]
    <2>1. session \in Session
      <3>1. CASE ui.answer = Gone
        BY <1>0, <3>1 DEF Recovers
      <3>2. CASE ui.answer # Gone
        <4>1. /\ ui.answer.decks \in [Bays -> Lane] /\ ui.answer.level \in Levels
              /\ ui.answer \in Session /\ ui.audio \in [Bays -> Lane]
          BY <3>2 DEF PageRec, MaybeSession, Session
        <4>2. [b \in Bays |-> AsHeard(ui.answer.decks[b], ui.audio[b])] \in [Bays -> Lane]
          BY <4>1 DEF AsHeard, Lane
        <4>3. [ui.answer EXCEPT !.decks = [b \in Bays |-> AsHeard(ui.answer.decks[b], ui.audio[b])]] \in Session
          BY <4>1, <4>2 DEF Session
        <4>4. [ui.session EXCEPT !.level = ui.answer.level] \in Session
          BY <1>0, <4>1 DEF Session
        <4> QED BY <3>2, <4>3, <4>4
      <3> QED BY <3>1, <3>2
    <2>2. adoptions \in [Bays -> BOOLEAN \cup {Gone}]
      BY DEF PageRec, Lane
    <2>3. ui' = [ui EXCEPT !.phase = "set", !.session = session, !.adoptions = adoptions]
      BY <1>8 DEF RestoresSession
    <2> HIDE DEF session, adoptions
    <2> QED BY <1>8, <2>1, <2>2, <2>3 DEF RestoresSession, PageRec
  <1>9. CASE BootsUp
    <2> DEFINE p == [ui EXCEPT !.phase = "up", !.due = IF @ = "lost" THEN @ ELSE "kept",
                       !.session.level = IF KnobCounts(ui) THEN store.knob ELSE @]
    <2>1. p \in PageRec
      BY <1>0 DEF PageRec, KnobCounts, Session
    <2>2. SyncsPage(p)
      BY <1>9 DEF BootsUp
    <2> HIDE DEF p
    <2> QED BY <1>9, <2>1, <2>2, SyncsTyped DEF BootsUp
  <1>10. CASE PushesSession
    BY <1>0, <1>10 DEF PushesSession, PageRec, MaybeSession
  <1>11. ASSUME NEW f \in fetches, EndsFetch(f) PROVE RecoveryTypeOK'
    BY <1>11 DEF EndsFetch, Piped
  <1>12. CASE UNCHANGED recVars
    BY <1>12 DEF recVars
  <1> QED
    BY <1>1, <1>2, <1>3, <1>4, <1>5, <1>6, <1>7, <1>8, <1>9, <1>10, <1>11, <1>12
       DEF RecoveryRuns, RecoveryWorld

\* Every reachable state of the recovery is of its types, whatever the page misses.
THEOREM TypeCorrect == RecoverySpec => []RecoveryTypeOK
  BY InitTyped, NextTyped, PTL DEF RecoverySpec

----------------------------------------------------------------------------
(* The invariant, where nothing of Upsets happens. *)

Fetching(b) == \E f \in fetches : f.bay = b

\* The pipelines are as asked for, but for the decks that are being loaded.
Pipelines ==
    \A b \in Bays :
        IF Fetching(b) THEN piped[b] = Gone /\ ~intent.decks[b].playing
        ELSE /\ StatusOf(piped[b]) = intent.decks[b]
             /\ piped[b] # Gone => ~piped[b].again /\ piped[b].load # 0

\* A load is of one deck, and is not in a pipeline before it ends.
SaneNumbers ==
    /\ \A b \in Bays : intent.decks[b].load <= intent.loads
    /\ \A n \in intent.begun : n <= intent.loads
    /\ \A b, c \in Bays : b # c /\ intent.decks[b].load = intent.decks[c].load => intent.decks[b].load = 0
    /\ \A f \in fetches : f.load = intent.decks[f.bay].load /\ f.load # 0 /\ f.load \notin intent.begun

KnobLevel == IF store.knob # Gone THEN store.knob ELSE Level0

\* What a fresh page would be told is what was asked for, but for what plays.
Kept ==
    /\ store.current # Gone =>
         /\ store.current.level = intent.level
         /\ \A b \in Bays : /\ store.current.decks[b].load = intent.decks[b].load
                            /\ store.current.decks[b].load = 0 => ~store.current.decks[b].playing
    /\ store.current = Gone => \A b \in Bays : intent.decks[b] = Idle
    /\ intent.level = IF store.file # Gone THEN store.file.level ELSE KnobLevel

Booting ==
    /\ fetches = {} /\ ui.due = "no"
    /\ \A b \in Bays : ui.backends[b] = 0 /\ ui.last[b] = FALSE

Unasked == ui.session = NewSession /\ \A b \in Bays : ui.adoptions[b] = Gone

\* The page knows what it has been told.
Answered ==
    /\ ui.answer = IF store.current # Gone THEN store.current ELSE store.file
    /\ \A b \in Bays : ui.audio[b] = intent.decks[b]

SetUp ==
    /\ intent.level = IF KnobCounts(ui) THEN store.knob ELSE ui.session.level
    /\ \A b \in Bays : /\ ui.session.decks[b] = intent.decks[b]
                       /\ ui.adoptions[b] = IF intent.decks[b].load # 0 THEN intent.decks[b].playing ELSE Gone

Running ==
    /\ ui.session.level = intent.level
    /\ \A b \in Bays : /\ ui.session.decks[b] = intent.decks[b]
                       /\ ui.backends[b] = intent.decks[b].load
                       /\ ui.adoptions[b] = Gone /\ ui.last[b] = intent.decks[b].playing

RecoveryInv ==
    /\ Pipelines /\ SaneNumbers
    /\ ui.due # "lost" => Kept
    /\ ui.phase # "up" => Booting
    /\ ui.phase \in {"asking", "told"} => Unasked
    /\ ui.phase = "told" => Answered
    /\ ui.phase = "set" => SetUp
    /\ ui.phase = "up" => Running

\* It holds when the program starts, used before or not.
LEMMA InitInv == RecoveryInit => RecoveryInv
  <1> SUFFICES ASSUME RecoveryInit PROVE RecoveryInv
    OBVIOUS
  <1>1. Pipelines
    BY RecoveryAssumption DEF RecoveryInit, Pipelines, Fetching, StatusOf, NewSession, Idle
  <1>2. SaneNumbers
    BY RecoveryAssumption DEF RecoveryInit, SaneNumbers, NewSession, Idle
  <1>3. Kept
    <2>1. store.current = Gone /\ intent.decks = NewSession.decks
      BY DEF RecoveryInit
    <2>2. intent.level = IF store.file # Gone THEN store.file.level ELSE KnobLevel
      BY DEF RecoveryInit, KnobLevel
    <2> QED BY <2>1, <2>2 DEF Kept, NewSession
  <1>4. Booting /\ Unasked /\ ui.phase = "asking"
    BY DEF RecoveryInit, NewPage, Booting, Unasked
  <1> QED BY <1>1, <1>2, <1>3, <1>4 DEF RecoveryInv

\* What the types say, field by field.
LEMMA Fields ==
  ASSUME RecoveryTypeOK
  PROVE  /\ ui.session.decks \in [Bays -> Lane] /\ ui.audio \in [Bays -> Lane]
         /\ ui.backends \in [Bays -> Loads] /\ ui.last \in [Bays -> BOOLEAN]
         /\ ui.adoptions \in [Bays -> BOOLEAN \cup {Gone}]
         /\ intent.decks \in [Bays -> Lane] /\ intent.loads \in Nat /\ intent.begun \subseteq Nat
         /\ store.current # Gone => store.current \in Session /\ store.current.decks \in [Bays -> Lane]
         /\ store.file # Gone => store.file \in Session /\ store.file.decks \in [Bays -> Lane]
         /\ piped \in [Bays -> Piped \cup {Gone}]
  BY DEF RecoveryTypeOK, PageRec, Session, MaybeSession, Loads

\* A lane is its load and whether it plays.
LEMMA LaneFields == \A lane \in Lane : lane.load \in Nat /\ lane.playing \in BOOLEAN
                                     /\ lane = [load |-> lane.load, playing |-> lane.playing]
  BY RecoveryAssumption DEF Lane, Loads

\* A deck without a load is idle, without a pipeline or a fetch.
LEMMA Unloaded ==
  ASSUME RecoveryTypeOK, RecoveryInv, NEW b \in Bays, intent.decks[b].load = 0
  PROVE  intent.decks[b] = Idle /\ piped[b] = Gone /\ ~Fetching(b)
  <1>1. ~Fetching(b)
    BY DEF RecoveryInv, SaneNumbers, Fetching
  <1>2. StatusOf(piped[b]) = intent.decks[b] /\ (piped[b] # Gone => piped[b].load # 0)
    BY <1>1 DEF RecoveryInv, Pipelines
  <1> QED BY <1>1, <1>2 DEF StatusOf

\* A change of the session that loads nothing: only its plays and pauses reach the pipelines.
LEMMA StaysRecovered ==
  ASSUME RecoveryTypeOK, RecoveryInv, ui.phase = "up",
         NEW s \in Session, NEW due \in {"kept", "lost"}, Edits(s, due),
         \A b \in Bays : s.decks[b].load = intent.decks[b].load,
         \A b \in Bays : s.decks[b].playing # intent.decks[b].playing => piped[b] # Gone
  PROVE  /\ ui' = [ui EXCEPT !.session = s, !.due = IF ui.due = "lost" THEN "lost" ELSE due,
                     !.backends = [b \in Bays |-> s.decks[b].load],
                     !.adoptions = [b \in Bays |-> Gone],
                     !.last = [b \in Bays |-> s.decks[b].playing]]
         /\ fetches' = fetches
         /\ piped' = [b \in Bays |-> IF s.decks[b].playing # intent.decks[b].playing
                                     THEN [piped[b] EXCEPT !.playing = s.decks[b].playing] ELSE piped[b]]
  <1> DEFINE p == [ui EXCEPT !.session = s, !.due = IF @ = "lost" THEN @ ELSE due]
  <1>0. Running
    BY DEF RecoveryInv
  <1>1. /\ p.session = s /\ p.backends = ui.backends /\ p.adoptions = ui.adoptions /\ p.last = ui.last
        /\ p.due = IF ui.due = "lost" THEN "lost" ELSE due
    BY DEF RecoveryTypeOK, PageRec
  <1>2. SyncsPage(p)
    BY DEF Edits
  <1> HIDE DEF p
  <1>3. Changed(p) = {} /\ Fetched(p) = {} /\ Tears(p) = {}
    BY <1>0, <1>1 DEF Running, Changed, Fetched, Tears
  <1>4. Told(p) = {b \in Bays : s.decks[b].playing # intent.decks[b].playing}
    BY <1>0, <1>1, <1>3 DEF Told, Running
  <1>5. [b \in Bays |-> IF b \in Changed(p) THEN Gone ELSE p.adoptions[b]] = [b \in Bays |-> Gone]
    BY <1>0, <1>1, <1>3 DEF Running
  <1>6. [b \in Bays |-> IF b \in Fetched(p) THEN FALSE
                        ELSE IF b \in Changed(p) THEN p.adoptions[b]
                        ELSE IF b \in Told(p) THEN p.session.decks[b].playing ELSE p.last[b]]
        = [b \in Bays |-> s.decks[b].playing]
    BY <1>0, <1>1, <1>3, <1>4, Fields, LaneFields DEF Running, Session
  <1>7. ui' = [p EXCEPT !.backends = [b \in Bays |-> s.decks[b].load],
                        !.adoptions = [b \in Bays |-> Gone],
                        !.last = [b \in Bays |-> s.decks[b].playing]]
    BY <1>1, <1>2, <1>5, <1>6 DEF SyncsPage
  <1>8. fetches' = fetches
    BY <1>2, <1>3 DEF SyncsPage
  <1>9. piped' = [b \in Bays |-> IF s.decks[b].playing # intent.decks[b].playing
                                 THEN [piped[b] EXCEPT !.playing = s.decks[b].playing] ELSE piped[b]]
    BY <1>1, <1>2, <1>3, <1>4 DEF SyncsPage
  <1> QED BY <1>7, <1>8, <1>9 DEF p, RecoveryTypeOK, PageRec

\* A load tears down what its deck had, and nothing else.
LEMMA DropKeeps ==
  ASSUME RecoveryTypeOK, RecoveryInv, Upsets = {}, NEW b \in Bays, LoadsBay(b)
  PROVE  RecoveryInv'
  <1> DEFINE n == intent.loads + 1
             lane == [load |-> n, playing |-> FALSE]
             s == [ui.session EXCEPT !.decks[b] = lane]
             p == [ui EXCEPT !.session = s, !.due = IF @ = "lost" THEN @ ELSE "lost"]
  <1>0. ui.phase = "up" /\ Running
    BY DEF LoadsBay, AtHand, RecoveryInv
  <1>1. /\ p.backends = ui.backends /\ p.adoptions = ui.adoptions /\ p.last = ui.last /\ p.due = "lost"
        /\ p.phase = "up" /\ p.session.level = ui.session.level
        /\ p.session.decks = [ui.session.decks EXCEPT ![b] = lane]
    BY <1>0 DEF RecoveryTypeOK, PageRec, Session
  <1>2. SyncsPage(p)
    BY <1>0 DEF LoadsBay, Edits
  <1>3. p \in PageRec
    <2>1. lane \in Lane
      BY RecoveryAssumption, Fields DEF LoadsBay, Lane, Loads
    <2> QED BY <2>1 DEF RecoveryTypeOK, PageRec, Session
  <1>4. lane.load = n /\ lane.playing = FALSE
    OBVIOUS
  <1> HIDE DEF p, s, lane
  <1>40. \A c \in Bays : p.session.decks[c] = IF c = b THEN lane ELSE intent.decks[c]
    BY <1>0, <1>1, Fields DEF Running
  <1>5. n \in Nat /\ n # 0 /\ (\A c \in Bays : intent.decks[c].load \in Nat /\ intent.decks[c].load < n)
        /\ n \notin intent.begun
    BY Fields, LaneFields DEF RecoveryInv, SaneNumbers
  <1>6. Changed(p) = {b} /\ Fetched(p) = {b} /\ Tears(p) = {b} /\ Told(p) = {}
    <2>1. Changed(p) = {b}
      BY <1>0, <1>1, <1>4, <1>40, <1>5 DEF Changed, Running
    <2>2. Fetched(p) = {b} /\ Tears(p) = {b}
      BY <1>0, <1>1, <2>1 DEF Fetched, Tears, Running
    <2>3. Told(p) = {}
      BY <1>0, <1>1, <1>40, <2>1 DEF Told, Running
    <2> QED BY <2>1, <2>2, <2>3
  <1>7. /\ ui'.phase = "up" /\ ui'.due = "lost" /\ ui'.session = p.session
        /\ \A c \in Bays : /\ ui'.backends[c] = p.session.decks[c].load /\ ui'.adoptions[c] = Gone
                           /\ ui'.last[c] = IF c = b THEN FALSE ELSE ui.last[c]
    BY <1>0, <1>1, <1>2, <1>3, <1>6 DEF SyncsPage, Running, PageRec
  <1>8. /\ \A c \in Bays : piped'[c] = IF c = b THEN Gone ELSE piped[c]
        /\ fetches' = fetches \cup {[bay |-> b, load |-> n]}
    BY <1>1, <1>2, <1>4, <1>40, <1>6 DEF SyncsPage
  <1>9. /\ \A c \in Bays : intent'.decks[c] = IF c = b THEN lane ELSE intent.decks[c]
        /\ intent'.loads = n /\ intent'.level = intent.level /\ intent'.begun = intent.begun
    BY Fields DEF LoadsBay, RecoveryTypeOK, lane
  <1>10. Running'
    <2>1. ui'.session.level = intent'.level
      BY <1>0, <1>1, <1>7, <1>9 DEF Running
    <2>2. \A c \in Bays : ui'.session.decks[c] = intent'.decks[c]
      BY <1>40, <1>7, <1>9, ZenonT(40)
    <2>3. \A c \in Bays : ui'.backends[c] = intent'.decks[c].load /\ ui'.adoptions[c] = Gone
      BY <1>40, <1>7, <1>9, ZenonT(40)
    <2>4. \A c \in Bays : ui'.last[c] = intent'.decks[c].playing
      BY <1>0, <1>4, <1>7, <1>9 DEF Running
    <2> QED BY <2>1, <2>2, <2>3, <2>4 DEF Running
  <1>11. Pipelines'
    <2>1. \A c \in Bays : Fetching(c)' <=> (c = b \/ Fetching(c))
      <3> DEFINE new == [bay |-> b, load |-> n]
      <3>1. new.bay = b
        OBVIOUS
      <3>2. fetches' = fetches \cup {new}
        BY <1>8
      <3> HIDE DEF new
      <3> QED BY <3>1, <3>2 DEF Fetching
    <2> QED BY <1>4, <1>8, <1>9, <2>1 DEF RecoveryInv, Pipelines
  <1>12. SaneNumbers'
    <2>1. \A f \in fetches : f.bay # b /\ f.bay \in Bays
      BY DEF LoadsBay, RecoveryTypeOK
    <2>2. \A f \in fetches' : f.load = intent'.decks[f.bay].load /\ f.load # 0 /\ f.load \notin intent'.begun
      BY <1>4, <1>5, <1>8, <1>9, <2>1 DEF RecoveryInv, SaneNumbers
    <2>3. \A c \in Bays : intent'.decks[c].load <= n
      BY <1>4, <1>5, <1>9
    <2>4. \A m \in intent'.begun : m <= n
      BY <1>9, Fields DEF RecoveryInv, SaneNumbers
    <2>5. \A c, d \in Bays : c # d /\ intent'.decks[c].load = intent'.decks[d].load => intent'.decks[c].load = 0
      BY <1>4, <1>5, <1>9 DEF RecoveryInv, SaneNumbers
    <2> QED BY <1>9, <2>2, <2>3, <2>4, <2>5 DEF SaneNumbers
  <1> QED BY <1>7, <1>10, <1>11, <1>12 DEF RecoveryInv

\* A play, a pause or an end of stream reaches the pipeline of its deck.
LEMMA ToggleKeeps ==
  ASSUME RecoveryTypeOK, RecoveryInv, ui.phase = "up", NEW b \in Bays, NEW on \in BOOLEAN,
         intent.decks[b].load # 0, ~Fetching(b),
         Edits([ui.session EXCEPT !.decks[b].playing = on], "kept"),
         intent' = [intent EXCEPT !.decks[b].playing = on], UNCHANGED store
  PROVE  RecoveryInv'
  <1> DEFINE s == [ui.session EXCEPT !.decks[b].playing = on]
  <1>0. Running
    BY DEF RecoveryInv
  <1>1. StatusOf(piped[b]) = intent.decks[b] /\ piped[b] # Gone
    BY DEF RecoveryInv, Pipelines, StatusOf, Idle
  <1> DEFINE lane == [ui.session.decks[b] EXCEPT !.playing = on]
  <1>20. lane \in Lane /\ lane.load = intent.decks[b].load /\ lane.playing = on
    BY <1>0, Fields, ZenonT(40) DEF Lane, Running
  <1>21. s = [ui.session EXCEPT !.decks = [ui.session.decks EXCEPT ![b] = lane]]
    OBVIOUS
  <1>22. intent'.decks = [intent.decks EXCEPT ![b] = lane]
    BY <1>0 DEF RecoveryTypeOK, Running
  <1> HIDE DEF s, lane
  <1>2. s \in Session /\ s.level = ui.session.level /\ s.decks = [ui.session.decks EXCEPT ![b] = lane]
    BY <1>20, <1>21 DEF RecoveryTypeOK, PageRec, Session
  <1>3. \A c \in Bays : /\ s.decks[c] = IF c = b THEN lane ELSE intent.decks[c]
                       /\ s.decks[c].load = intent.decks[c].load
                       /\ s.decks[c].playing = IF c = b THEN on ELSE intent.decks[c].playing
    BY <1>0, <1>2, <1>20, Fields DEF Running
  <1>4. \A c \in Bays : intent'.decks[c] = s.decks[c]
    <2>1. \A c \in Bays : intent'.decks[c] = IF c = b THEN lane ELSE intent.decks[c]
      BY <1>22, Fields
    <2> QED BY <1>3, <2>1
  <1>5. intent'.loads = intent.loads /\ intent'.level = intent.level /\ intent'.begun = intent.begun
    BY DEF RecoveryTypeOK
  <1>6. /\ ui' = [ui EXCEPT !.session = s, !.due = IF ui.due = "lost" THEN "lost" ELSE "kept",
                     !.backends = [c \in Bays |-> s.decks[c].load],
                     !.adoptions = [c \in Bays |-> Gone],
                     !.last = [c \in Bays |-> s.decks[c].playing]]
        /\ fetches' = fetches
        /\ piped' = [c \in Bays |-> IF s.decks[c].playing # intent.decks[c].playing
                                    THEN [piped[c] EXCEPT !.playing = s.decks[c].playing] ELSE piped[c]]
    <2>1. Edits(s, "kept")
      BY DEF s
    <2>2. \A c \in Bays : s.decks[c].load = intent.decks[c].load
      BY <1>3
    <2>3. \A c \in Bays : s.decks[c].playing # intent.decks[c].playing => piped[c] # Gone
      BY <1>1, <1>3
    <2> QED BY <1>2, <2>1, <2>2, <2>3, StaysRecovered
  <1>7. /\ ui'.phase = "up" /\ ui'.session = s /\ (ui'.due # "lost" => ui.due # "lost")
        /\ \A c \in Bays : /\ ui'.backends[c] = s.decks[c].load /\ ui'.adoptions[c] = Gone
                           /\ ui'.last[c] = s.decks[c].playing
    BY <1>6 DEF RecoveryTypeOK, PageRec
  <1>8. Running'
    BY <1>0, <1>2, <1>4, <1>5, <1>7, ZenonT(40) DEF Running
  <1>9. Pipelines'
    <2>1. \A c \in Bays : Fetching(c)' <=> Fetching(c)
      BY <1>6 DEF Fetching
    <2>2. \A c \in Bays : c # b => piped'[c] = piped[c] /\ intent'.decks[c] = intent.decks[c]
      BY <1>3, <1>4, <1>6
    <2>3. /\ piped'[b] # Gone /\ piped'[b].load = piped[b].load /\ piped'[b].playing = on
          /\ piped'[b].again = piped[b].again
      <3>1. piped[b] \in Piped /\ piped[b].playing = intent.decks[b].playing
        BY <1>1, Fields DEF StatusOf
      <3>2. piped'[b] = IF on # piped[b].playing THEN [piped[b] EXCEPT !.playing = on] ELSE piped[b]
        BY <1>3, <1>6, <3>1
      <3>3. [piped[b] EXCEPT !.playing = on] \in Piped
        BY <3>1 DEF Piped
      <3> QED BY <1>1, <3>1, <3>2, <3>3, GoneAssumption DEF Piped
    <2>4. StatusOf(piped'[b]) = intent'.decks[b]
      <3>1. piped[b].load = intent.decks[b].load
        BY <1>1 DEF StatusOf
      <3>2. intent'.decks[b] = lane /\ lane = [load |-> lane.load, playing |-> lane.playing]
        BY <1>3, <1>4, <1>20, LaneFields
      <3> QED BY <1>20, <2>3, <3>1, <3>2 DEF StatusOf
    <2> QED BY <1>1, <2>1, <2>2, <2>3, <2>4 DEF RecoveryInv, Pipelines, StatusOf
  <1>10. SaneNumbers'
    BY <1>3, <1>4, <1>5, <1>6 DEF RecoveryInv, SaneNumbers, RecoveryTypeOK
  <1>11. ui'.due # "lost" => Kept'
    BY <1>3, <1>4, <1>5, <1>7 DEF RecoveryInv, Kept, Idle, KnobLevel
  <1> QED BY <1>7, <1>8, <1>9, <1>10, <1>11 DEF RecoveryInv

\* A change of the setting waits for the push, and disturbs no deck.
LEMMA LevelKeeps ==
  ASSUME RecoveryTypeOK, RecoveryInv, Upsets = {},
         NEW v \in Levels, NEW byKnob \in BOOLEAN, SetsLevel(v, byKnob)
  PROVE  RecoveryInv'
  <1> DEFINE s == [ui.session EXCEPT !.level = v]
  <1>0. ui.phase = "up" /\ Running
    BY DEF SetsLevel, AtHand, RecoveryInv
  <1>1. s \in Session /\ s.decks = ui.session.decks /\ s.level = v
    BY DEF RecoveryTypeOK, PageRec, Session
  <1>2. Edits(s, "lost")
    BY DEF SetsLevel
  <1> HIDE DEF s
  <1>3. \A b \in Bays : s.decks[b] = intent.decks[b]
    BY <1>0, <1>1 DEF Running
  <1>4. /\ ui' = [ui EXCEPT !.session = s, !.due = IF ui.due = "lost" THEN "lost" ELSE "lost",
                     !.backends = [b \in Bays |-> s.decks[b].load],
                     !.adoptions = [b \in Bays |-> Gone],
                     !.last = [b \in Bays |-> s.decks[b].playing]]
        /\ fetches' = fetches
        /\ piped' = [b \in Bays |-> IF s.decks[b].playing # intent.decks[b].playing
                                    THEN [piped[b] EXCEPT !.playing = s.decks[b].playing] ELSE piped[b]]
    BY <1>0, <1>1, <1>2, <1>3, StaysRecovered
  <1>5. /\ ui'.phase = "up" /\ ui'.session = s /\ ui'.due = "lost"
        /\ \A b \in Bays : /\ ui'.backends[b] = s.decks[b].load /\ ui'.adoptions[b] = Gone
                           /\ ui'.last[b] = s.decks[b].playing
    BY <1>0, <1>4 DEF RecoveryTypeOK, PageRec
  <1>6. /\ intent'.decks = intent.decks /\ intent'.level = v
        /\ intent'.loads = intent.loads /\ intent'.begun = intent.begun
    BY DEF SetsLevel, RecoveryTypeOK
  <1>7. \A b \in Bays : piped'[b] = piped[b]
    BY <1>3, <1>4
  <1>8. Running'
    BY <1>1, <1>3, <1>5, <1>6 DEF Running
  <1>9. Pipelines' /\ SaneNumbers'
    BY <1>4, <1>6, <1>7 DEF RecoveryInv, Pipelines, SaneNumbers, Fetching, RecoveryTypeOK
  <1> QED BY <1>5, <1>8, <1>9 DEF RecoveryInv

\* A fresh page knows nothing yet, and what it will be told stands.
LEMMA ReloadKeeps ==
  ASSUME RecoveryTypeOK, RecoveryInv, Upsets = {}, ReloadsPage
  PROVE  RecoveryInv'
  <1>1. ui.due # "lost" /\ fetches = {} /\ ui' = NewPage /\ UNCHANGED <<store, piped, fetches, intent>>
    BY DEF ReloadsPage
  <1>2. Pipelines' /\ SaneNumbers' /\ Kept'
    BY <1>1 DEF RecoveryInv, Pipelines, SaneNumbers, Kept, KnobLevel, Fetching
  <1>3. Booting' /\ Unasked' /\ ui'.phase = "asking"
    BY <1>1 DEF NewPage, Booting, Unasked
  <1> QED BY <1>2, <1>3 DEF RecoveryInv

\* A restart leaves the files, and no deck.
LEMMA RestartKeeps ==
  ASSUME RecoveryTypeOK, RecoveryInv, Upsets = {}, RestartsProgram
  PROVE  RecoveryInv'
  <1>1. /\ ui.due # "lost" /\ ui' = NewPage /\ piped' = [b \in Bays |-> Gone] /\ fetches' = {}
        /\ store'.current = Gone /\ store'.file = store.file /\ store'.knob = store.knob
        /\ intent'.decks = NewSession.decks /\ intent'.level = intent.level
        /\ intent'.loads = intent.loads /\ intent'.begun = intent.begun
    BY DEF RestartsProgram, RecoveryTypeOK
  <1>2. \A b \in Bays : intent'.decks[b] = Idle
    BY <1>1 DEF NewSession
  <1>3. Pipelines'
    BY <1>1, <1>2 DEF Pipelines, Fetching, StatusOf, Idle
  <1>4. SaneNumbers'
    BY <1>1, <1>2, Fields DEF RecoveryInv, SaneNumbers, Idle
  <1>5. Kept'
    BY <1>1, <1>2 DEF RecoveryInv, Kept, KnobLevel
  <1>6. Booting' /\ Unasked' /\ ui'.phase = "asking"
    BY <1>1 DEF NewPage, Booting, Unasked
  <1> QED BY <1>3, <1>4, <1>5, <1>6 DEF RecoveryInv

\* The page is told what plays.
LEMMA AskKeeps ==
  ASSUME RecoveryTypeOK, RecoveryInv, AsksSession
  PROVE  RecoveryInv'
  <1>1. /\ ui.phase = "asking" /\ ui'.phase = "told" /\ ui'.due = ui.due /\ ui'.session = ui.session
        /\ ui'.backends = ui.backends /\ ui'.last = ui.last /\ ui'.adoptions = ui.adoptions
        /\ ui'.answer = IF store.current # Gone THEN store.current ELSE store.file
        /\ ui'.audio = [b \in Bays |-> StatusOf(piped[b])]
        /\ UNCHANGED <<store, piped, fetches, intent>>
    BY DEF AsksSession, RecoveryTypeOK, PageRec
  <1>2. Pipelines' /\ SaneNumbers' /\ (ui'.due # "lost" => Kept')
    BY <1>1 DEF RecoveryInv, Pipelines, SaneNumbers, Kept, KnobLevel, Fetching
  <1>3. Booting' /\ Unasked'
    BY <1>1 DEF RecoveryInv, Booting, Unasked
  <1>4. Answered'
    BY <1>1 DEF RecoveryInv, Booting, Pipelines, Fetching, Answered
  <1> QED BY <1>1, <1>2, <1>3, <1>4 DEF RecoveryInv

\* It takes that over its own, and the setting where no deck lives.
LEMMA RestoreKeeps ==
  ASSUME RecoveryTypeOK, RecoveryInv, RestoresSession
  PROVE  RecoveryInv'
  <1> DEFINE decks == [b \in Bays |-> AsHeard(ui.answer.decks[b], ui.audio[b])]
             adoptions == [b \in Bays |-> IF Recovers(ui) /\ ui.audio[b].load # 0 THEN ui.audio[b].playing ELSE Gone]
             session == IF Recovers(ui) THEN [ui.answer EXCEPT !.decks = decks]
                        ELSE IF ui.answer # Gone THEN [ui.session EXCEPT !.level = ui.answer.level] ELSE ui.session
  <1>0. Answered /\ Unasked /\ Booting /\ Kept /\ ui.phase = "told"
    BY DEF RestoresSession, RecoveryInv, Booting
  <1>1. ui' = [ui EXCEPT !.phase = "set", !.session = session, !.adoptions = adoptions]
        /\ UNCHANGED <<store, piped, fetches, intent>>
    BY DEF RestoresSession
  <1>2. Recovers(ui) <=> \E b \in Bays : intent.decks[b].load # 0
    <2>1. ASSUME NEW b \in Bays, intent.decks[b].load # 0 PROVE ui.answer # Gone
      <3>1. store.current # Gone
        BY <1>0, <2>1 DEF Kept, Idle
      <3> QED BY <1>0, <3>1 DEF Answered
    <2> QED BY <1>0, <2>1 DEF Recovers, Answered
  <1>3. \A b \in Bays : adoptions[b] = IF intent.decks[b].load # 0 THEN intent.decks[b].playing ELSE Gone
    BY <1>0, <1>2 DEF Answered
  <1>4. (\A b \in Bays : session.decks[b] = intent.decks[b])
        /\ intent.level = IF KnobCounts(ui) THEN store.knob ELSE session.level
    <2>1. CASE Recovers(ui)
      <3>1. ui.answer = store.current /\ store.current # Gone
        BY <1>0, <1>2, <2>1 DEF Answered, Kept, Idle
      <3>2. session = [ui.answer EXCEPT !.decks = decks]
        BY <2>1
      <3>3. session.decks = decks /\ session.level = intent.level
        BY <1>0, <3>1, <3>2, Fields DEF Session, Kept
      <3>4. \A b \in Bays : decks[b] = intent.decks[b]
        <4>1. ASSUME NEW b \in Bays PROVE AsHeard(ui.answer.decks[b], ui.audio[b]) = intent.decks[b]
          <5>1. /\ ui.audio[b] = intent.decks[b] /\ intent.decks[b] \in Lane /\ ui.answer.decks[b] \in Lane
                /\ ui.answer.decks[b].load = intent.decks[b].load
                /\ intent.decks[b].load = 0 => ~ui.answer.decks[b].playing
            BY <1>0, <3>1, Fields DEF Answered, Kept
          <5>2. CASE intent.decks[b].load = 0
            BY <5>1, <5>2, Unloaded, LaneFields DEF AsHeard, Idle
          <5>3. CASE intent.decks[b].load # 0
            BY <5>1, <5>3 DEF AsHeard, Lane
          <5> QED BY <5>2, <5>3
        <4> QED BY <4>1
      <3>5. ~KnobCounts(ui)
        BY <3>1 DEF KnobCounts
      <3> QED BY <3>3, <3>4, <3>5
    <2>2. CASE ~Recovers(ui)
      <3>1. \A b \in Bays : intent.decks[b] = Idle
        BY <1>2, <2>2, Unloaded
      <3>2. session = IF ui.answer # Gone THEN [ui.session EXCEPT !.level = ui.answer.level] ELSE ui.session
        BY <2>2
      <3>3. session.decks = NewSession.decks /\ session.level = IF ui.answer # Gone THEN ui.answer.level ELSE Level0
        BY <1>0, <3>2 DEF Unasked, NewSession
      <3>4. intent.level = IF KnobCounts(ui) THEN store.knob ELSE session.level
        BY <1>0, <3>3 DEF Answered, Kept, KnobCounts, KnobLevel
      <3> QED BY <3>1, <3>3, <3>4 DEF NewSession
    <2> QED BY <2>1, <2>2
  <1> HIDE DEF session, adoptions, decks
  <1>5. /\ ui'.phase = "set" /\ ui'.session = session /\ ui'.adoptions = adoptions /\ ui'.answer = ui.answer
        /\ ui'.backends = ui.backends /\ ui'.last = ui.last /\ ui'.due = ui.due
    BY <1>1 DEF RecoveryTypeOK, PageRec
  <1>6. SetUp'
    BY <1>1, <1>3, <1>4, <1>5 DEF SetUp, KnobCounts
  <1>7. Booting'
    BY <1>0, <1>1, <1>5 DEF Booting
  <1>8. Pipelines' /\ SaneNumbers' /\ Kept'
    BY <1>0, <1>1 DEF RecoveryInv, Pipelines, SaneNumbers, Kept, KnobLevel, Fetching
  <1> QED BY <1>5, <1>6, <1>7, <1>8 DEF RecoveryInv

\* The first sync adopts every pipeline and loads none.
LEMMA BootKeeps ==
  ASSUME RecoveryTypeOK, RecoveryInv, BootsUp
  PROVE  RecoveryInv'
  <1> DEFINE p == [ui EXCEPT !.phase = "up", !.due = IF @ = "lost" THEN @ ELSE "kept",
                     !.session.level = IF KnobCounts(ui) THEN store.knob ELSE @]
  <1>0. ui.phase = "set" /\ SetUp /\ Booting /\ Kept
    BY DEF BootsUp, RecoveryInv, Booting
  <1>1. /\ p.phase = "up" /\ p.due = "kept" /\ p.session.decks = ui.session.decks
        /\ p.session.level = intent.level
        /\ p.backends = ui.backends /\ p.adoptions = ui.adoptions /\ p.last = ui.last
    BY <1>0 DEF RecoveryTypeOK, PageRec, Session, SetUp, Booting
  <1>2. SyncsPage(p) /\ UNCHANGED <<store, intent>>
    BY DEF BootsUp
  <1>3. p \in PageRec
    BY DEF RecoveryTypeOK, PageRec, KnobCounts, Session
  <1> HIDE DEF p
  <1>4. \A b \in Bays : p.session.decks[b] = intent.decks[b] /\ p.backends[b] = 0 /\ p.last[b] = FALSE
                        /\ p.adoptions[b] = IF intent.decks[b].load # 0 THEN intent.decks[b].playing ELSE Gone
    BY <1>0, <1>1 DEF SetUp, Booting
  <1>5. Changed(p) = {b \in Bays : intent.decks[b].load # 0}
    BY <1>4 DEF Changed
  <1>6. Fetched(p) = {} /\ Tears(p) = {}
    BY <1>4, <1>5, Fields, LaneFields, RecoveryAssumption DEF Fetched, Tears
  <1>7. Told(p) = {}
    BY <1>4, <1>5, Unloaded DEF Told, Idle
  <1>8. /\ \A b \in Bays : piped'[b] = piped[b]
        /\ fetches' = fetches
    BY <1>2, <1>6, <1>7 DEF SyncsPage
  <1>9. /\ ui'.phase = "up" /\ ui'.due = "kept" /\ ui'.session = p.session
        /\ \A b \in Bays : /\ ui'.backends[b] = p.session.decks[b].load
                           /\ ui'.adoptions[b] = IF b \in Changed(p) THEN Gone ELSE p.adoptions[b]
                           /\ ui'.last[b] = IF b \in Changed(p) THEN p.adoptions[b] ELSE p.last[b]
    BY <1>1, <1>2, <1>3, <1>6, <1>7 DEF SyncsPage, PageRec
  <1>10. Running'
    <2>1. ui'.session.level = intent'.level /\ \A b \in Bays : ui'.session.decks[b] = intent'.decks[b]
      BY <1>1, <1>2, <1>4, <1>9
    <2>2. \A b \in Bays : ui'.backends[b] = intent'.decks[b].load /\ ui'.adoptions[b] = Gone
      BY <1>2, <1>4, <1>5, <1>9
    <2>3. \A b \in Bays : ui'.last[b] = intent'.decks[b].playing
      <3>1. ASSUME NEW b \in Bays, intent.decks[b].load # 0 PROVE ui'.last[b] = intent.decks[b].playing
        BY <1>4, <1>5, <1>9, <3>1
      <3>2. ASSUME NEW b \in Bays, intent.decks[b].load = 0 PROVE ui'.last[b] = intent.decks[b].playing
        <4>1. intent.decks[b].playing = FALSE
          BY <3>2, Unloaded DEF Idle
        <4> QED BY <1>4, <1>5, <1>9, <3>2, <4>1
      <3> QED BY <1>2, <3>1, <3>2
    <2> QED BY <2>1, <2>2, <2>3 DEF Running
  <1>11. Pipelines' /\ SaneNumbers' /\ Kept'
    BY <1>0, <1>2, <1>8 DEF RecoveryInv, Pipelines, SaneNumbers, Kept, KnobLevel, Fetching
  <1> QED BY <1>9, <1>10, <1>11 DEF RecoveryInv

\* After the push, what a fresh page would be told is up to date.
LEMMA PushKeeps ==
  ASSUME RecoveryTypeOK, RecoveryInv, PushesSession
  PROVE  RecoveryInv'
  <1>1. ui.phase = "up" /\ Running
    BY DEF PushesSession, RecoveryInv, Booting
  <1>2. /\ ui'.phase = "up" /\ ui'.session = ui.session /\ ui'.backends = ui.backends
        /\ ui'.adoptions = ui.adoptions /\ ui'.last = ui.last
        /\ store'.current = ui.session /\ store'.file = ui.session
        /\ UNCHANGED <<piped, fetches, intent>>
    BY <1>1 DEF PushesSession, RecoveryTypeOK, PageRec
  <1>3. Running' /\ Pipelines' /\ SaneNumbers'
    BY <1>1, <1>2 DEF RecoveryInv, Running, Pipelines, SaneNumbers, Fetching
  <1>4. ui.session \in Session /\ ui.session # Gone
    BY GoneAssumption DEF RecoveryTypeOK, PageRec
  <1>5. \A b \in Bays : intent.decks[b].load = 0 => ~intent.decks[b].playing
    BY Unloaded DEF Idle
  <1>6. Kept'
    BY <1>1, <1>2, <1>4, <1>5 DEF Kept, Running
  <1> QED BY <1>2, <1>3, <1>6 DEF RecoveryInv

\* The load that ends is of its deck, and was in no pipeline before.
LEMMA EndKeeps ==
  ASSUME RecoveryTypeOK, RecoveryInv, NEW f \in fetches, EndsFetch(f)
  PROVE  RecoveryInv'
  <1> DEFINE pipe == [load |-> f.load, playing |-> FALSE, again |-> f.load \in intent.begun]
  <1>0. ui.phase = "up" /\ Running
    BY DEF RecoveryInv, Booting
  <1>1. /\ f.bay \in Bays /\ f.load = intent.decks[f.bay].load /\ f.load # 0 /\ f.load \notin intent.begun
        /\ \A g \in fetches : g = [bay |-> g.bay, load |-> g.load] /\ g.load = intent.decks[g.bay].load
    BY DEF RecoveryInv, SaneNumbers, RecoveryTypeOK
  <1>2. \A b \in Bays : piped'[b] = IF b = f.bay THEN pipe ELSE piped[b]
    BY Fields DEF EndsFetch
  <1>3. /\ fetches' = fetches \ {f} /\ intent'.begun = intent.begun \cup {f.load}
        /\ intent'.decks = intent.decks /\ intent'.level = intent.level /\ intent'.loads = intent.loads
        /\ UNCHANGED <<ui, store>>
    BY DEF EndsFetch, RecoveryTypeOK
  <1>4. pipe.load = f.load /\ pipe.playing = FALSE /\ ~pipe.again /\ pipe \in Piped
    <2>1. f.load \in Loads /\ (f.load \in intent.begun) = FALSE
      BY <1>1 DEF RecoveryTypeOK
    <2>2. pipe = [load |-> f.load, playing |-> FALSE, again |-> FALSE]
      BY <2>1
    <2> HIDE DEF pipe
    <2> QED BY <2>1, <2>2 DEF Piped
  <1> HIDE DEF pipe
  <1>5. \A g \in fetches : g.bay = f.bay => g = f
    BY <1>1
  <1>6. \A b \in Bays : Fetching(b)' <=> (Fetching(b) /\ b # f.bay)
    BY <1>3, <1>5 DEF Fetching
  <1>7. Pipelines'
    <2>1. ASSUME NEW b \in Bays, b # f.bay
          PROVE  IF Fetching(b)' THEN piped'[b] = Gone /\ ~intent'.decks[b].playing
                 ELSE /\ StatusOf(piped'[b]) = intent'.decks[b]
                      /\ piped'[b] # Gone => ~piped'[b].again /\ piped'[b].load # 0
      BY <1>2, <1>3, <1>6, <2>1 DEF RecoveryInv, Pipelines
    <2>2. ~intent.decks[f.bay].playing
      BY <1>1 DEF RecoveryInv, Pipelines, Fetching
    <2>3. intent.decks[f.bay] = [load |-> f.load, playing |-> FALSE]
      BY <1>1, <2>2, Fields, LaneFields
    <2>4. StatusOf(pipe) = intent.decks[f.bay]
      BY <1>4, <2>3, GoneAssumption DEF StatusOf
    <2> QED BY <1>1, <1>2, <1>3, <1>4, <1>6, <2>1, <2>4 DEF Pipelines
  <1>8. SaneNumbers'
    <2>1. \A n \in intent'.begun : n <= intent'.loads
      BY <1>1, <1>3 DEF RecoveryInv, SaneNumbers
    <2>2. \A g \in fetches' : g.load \notin intent'.begun
      <3>1. ASSUME NEW g \in fetches, g # f PROVE g.load # f.load
        <4>1. g.bay # f.bay /\ g.bay \in Bays
          BY <1>5, <3>1 DEF RecoveryTypeOK
        <4> QED BY <1>1, <4>1 DEF RecoveryInv, SaneNumbers
      <3> QED BY <1>3, <3>1 DEF RecoveryInv, SaneNumbers
    <2> QED BY <1>3, <2>1, <2>2 DEF RecoveryInv, SaneNumbers
  <1>9. Running' /\ (ui'.due # "lost" => Kept')
    BY <1>0, <1>3 DEF RecoveryInv, Running, Kept, KnobLevel
  <1> QED BY <1>0, <1>3, <1>7, <1>8, <1>9 DEF RecoveryInv

\* Every step keeps it.
LEMMA NextInv ==
  ASSUME RecoveryTypeOK, RecoveryInv, Upsets = {}, [RecoveryRuns \/ RecoveryWorld]_recVars
  PROVE  RecoveryInv'
  <1>1. ASSUME NEW b \in Bays, PressesPlay(b) PROVE RecoveryInv'
    <2>1. ui.phase = "up" /\ Running
      BY <1>1 DEF PressesPlay, AtHand, RecoveryInv
    <2>2. intent.decks[b].load # 0 /\ ~Fetching(b)
      BY <1>1, <2>1 DEF PressesPlay, Running, Fetching
    <2>3. (~ui.session.decks[b].playing) \in BOOLEAN
      OBVIOUS
    <2> QED BY <1>1, <2>1, <2>2, <2>3, ToggleKeeps DEF PressesPlay
  <1>2. ASSUME NEW b \in Bays, StreamEnds(b) PROVE RecoveryInv'
    <2>1. ui.phase = "up" /\ piped[b] # Gone
      BY <1>2 DEF StreamEnds
    <2>2. ~Fetching(b)
      BY <2>1 DEF RecoveryInv, Pipelines
    <2>3. intent.decks[b].load # 0
      BY <2>1, Unloaded
    <2> QED BY <1>2, <2>1, <2>2, <2>3, ToggleKeeps DEF StreamEnds
  <1>3. CASE UNCHANGED recVars
    BY <1>3 DEF recVars, RecoveryInv, Pipelines, SaneNumbers, Kept, KnobLevel, Booting, Unasked,
                Answered, SetUp, KnobCounts, Running, Fetching
  <1> QED
    BY <1>1, <1>2, <1>3, DropKeeps, LevelKeeps, ReloadKeeps, RestartKeeps, AskKeeps, RestoreKeeps,
       BootKeeps, PushKeeps, EndKeeps DEF RecoveryRuns, RecoveryWorld

\* It is enough.
LEMMA InvRecovers == RecoveryTypeOK /\ RecoveryInv => RecoversTheSet
  <1> SUFFICES ASSUME RecoveryTypeOK, RecoveryInv PROVE RecoversTheSet
    OBVIOUS
  <1>1. \A b \in Bays : piped[b] # Gone => ~piped[b].again
    BY DEF RecoveryInv, Pipelines
  <1>2. ASSUME ui.phase = "up", fetches = {}
        PROVE  /\ ui.session = [decks |-> intent.decks, level |-> intent.level]
               /\ \A b \in Bays : StatusOf(piped[b]) = intent.decks[b]
    <2>1. Running /\ Pipelines /\ \A b \in Bays : ~Fetching(b)
      BY <1>2 DEF RecoveryInv, Fetching
    <2>2. ui.session \in Session /\ ui.session.decks = intent.decks /\ ui.session.level = intent.level
      BY <2>1, Fields DEF Running, RecoveryTypeOK, PageRec
    <2>3. ui.session = [decks |-> intent.decks, level |-> intent.level]
      BY <2>2 DEF Session
    <2> QED BY <2>1, <2>3 DEF Pipelines
  <1> QED BY <1>1, <1>2 DEF RecoversTheSet

\* A page that is reloaded with its changes pushed and its loads ended, or a program that
\* is restarted, comes back to what was asked for, at every step of every run, where the
\* DJ waits for the boot and no stream ends meanwhile.
THEOREM RecoversTheSetHolds ==
  ASSUME Upsets = {}
  PROVE  RecoverySpec => []RecoversTheSet
  <1>1. RecoveryInit => RecoveryTypeOK /\ RecoveryInv
    BY InitTyped, InitInv
  <1>2. RecoveryTypeOK /\ RecoveryInv /\ [RecoveryRuns \/ RecoveryWorld]_recVars
        => RecoveryTypeOK' /\ RecoveryInv'
    BY NextTyped, NextInv
  <1> QED BY <1>1, <1>2, InvRecovers, PTL DEF RecoverySpec

----------------------------------------------------------------------------
(* Places, rates, and the queue of commands. *)

\* A place in the pipeline's domain, and back.
Down(p, r) == p \div r
Up(pos, r) == pos * r

\* Content, of what the page knows.
AfterJump(s, pos) ==
    IF s.track # NoPlace /\ pos - s.track.out = s.track.time
    THEN s.track.place + s.track.way ELSE Up(pos, s.rate)

\* Of a queue: commands of one kind; which kinds; the last one.
Has(q, op) == \E i \in 1..Len(q) : q[i].op = op
OnlyAsks(q) == \A i \in 1..Len(q) : q[i].op = "ask"
OnlyMoves(q) == \A i \in 1..Len(q) : q[i].op = "ask" \/ q[i].op = "seek"
StopsLast(q) == q # << >> /\ q[Len(q)].op = "stop"
AsksOnce(q) == \A i, j \in 1..Len(q) : q[i].op = "ask" /\ q[j].op = "ask" => i = j
SpotsOnly(q) == \A i \in 1..Len(q) : q[i].op = "seek" \/ q[i].op = "scratch" => q[i].place \in Spots

\* A stop comes before any seek.
StopsFirst(q) == \E i \in 1..Len(q) : q[i].op = "stop" /\ \A j \in 1..Len(q) : j < i => q[j].op # "seek"

\* The scratch at i is stopped before a seek, or no seek comes after it.
Ends(q, i) ==
    \E j \in 1..Len(q) : /\ i < j /\ q[j].op = "stop"
                         /\ \A k \in 1..Len(q) : i < k /\ k < j => q[k].op # "seek"
OpenEnded(q, i) == \A j \in 1..Len(q) : i < j => q[j].op # "seek"
ScratchesEnd(q) == \A i \in 1..Len(q) : q[i].op = "scratch" => Ends(q, i)
ScratchesGoOn(q) == \A i \in 1..Len(q) : q[i].op = "scratch" => Ends(q, i) \/ OpenEnded(q, i)

\* All commands but the last are requests.
AsksThenOne(q) == \A i \in 1..Len(q) : i < Len(q) => q[i].op = "ask"

\* Before the command at i is obeyed the feeder, a, is told to be at f, and no more.
FedAt(q, a, i, f) ==
    \/ \E j \in 1..Len(q) : /\ j < i /\ q[j].op = "scratch" /\ q[j].place = f
                            /\ \A k \in 1..Len(q) : j < k /\ k < i => q[k].op = "ask"
    \/ (\A k \in 1..Len(q) : k < i => q[k].op = "ask") /\ a.feeder = f /\ a.landing = NoPlace

\* All seeks, the landing one, l, with them, go to x; the last goes there.
AllGo(q, l, x) == (l # NoPlace => l.at = x) /\ \A i \in 1..Len(q) : q[i].op = "seek" => q[i].place = x
LastGo(q, l, x) ==
    \/ \E i \in 1..Len(q) : /\ q[i].op = "seek" /\ q[i].place = x
                            /\ \A j \in 1..Len(q) : j > i => q[j].op = "ask"
    \/ OnlyAsks(q) /\ l # NoPlace /\ l.at = x

\* A seek at j behind a request at i; no other comes after it, and those before go to c.
Behind(q, i, j) == q[i].op = "ask" /\ q[j].op = "seek" /\ j > i
Alone(q, l, j, c) ==
    /\ \A k \in 1..Len(q) : k > j => q[k].op # "seek"
    /\ l # NoPlace => l.at = c
    /\ \A k \in 1..Len(q) : k < j /\ q[k].op = "seek" => q[k].place = c

\* The page will take a seek to p for one.
Lands(s, p) == AfterJump(s, Down(p, s.rate)) = p
LandAll(q, l, s) == (l # NoPlace => Lands(s, l.at)) /\ \A i \in 1..Len(q) : q[i].op = "seek" => Lands(s, q[i].place)

PosRules ==
    /\ Places \subseteq Nat /\ NoPlace \notin Int /\ 0 \in Places /\ Spots \subseteq Places
    /\ Tempi \subseteq Nat /\ \A r \in Tempi : r >= 1
    /\ Extent \in Nat /\ Patience \in Nat

\* What the assumptions say of places.
LEMMA PosRulesHold == PosRules
  BY PositionAssumption DEF PosRules, Places

\* A place divided by a rate is a place, and no later.
LEMMA DivPlace ==
  ASSUME NEW p \in Places, NEW r \in Tempi
  PROVE  Down(p, r) \in Places /\ Down(p, r) <= p
  <1>1. p \in Nat /\ p <= Extent /\ r \in Nat \ {0} /\ Extent \in Nat
    BY PositionAssumption DEF Places
  <1>2. p \div r \in Nat
    BY <1>1
  <1>3. p \div r <= p
    BY <1>1
  <1> QED BY <1>1, <1>2, <1>3 DEF Places, Down

\* A spot divided by a rate and multiplied by it is the spot.
LEMMA SpotDiv ==
  ASSUME NEW p \in Spots, NEW r \in Tempi
  PROVE  Up(Down(p, r), r) = p
  BY PositionAssumption DEF Up, Down

\* Play moves the place by the rate, and stays ahead of the position.
LEMMA UpNext ==
  ASSUME NEW x \in Nat, NEW r \in Tempi
  PROVE  Up(x, r) \in Nat /\ Up(x + 1, r) = Up(x, r) + r
  BY PositionAssumption DEF Up

\* A queue with one more command.
LEMMA Appended ==
  ASSUME NEW q \in Seq(Errand), NEW e \in Errand
  PROVE  /\ Append(q, e) \in Seq(Errand) /\ Len(Append(q, e)) = Len(q) + 1 /\ Len(q) \in Nat
         /\ \A i \in 1..Len(q) : Append(q, e)[i] = q[i]
         /\ Append(q, e)[Len(q) + 1] = e /\ Append(q, e) # << >>
  OBVIOUS

\* A queue without its first command.
LEMMA TakenFromQueue ==
  ASSUME NEW q \in Seq(Errand), q # << >>
  PROVE  /\ Tail(q) \in Seq(Errand) /\ Len(Tail(q)) = Len(q) - 1 /\ Len(q) \in Nat \ {0}
         /\ Head(q) = q[1] /\ Head(q) \in Errand
         /\ \A i \in 1..Len(Tail(q)) : Tail(q)[i] = q[i + 1] /\ i + 1 \in 1..Len(q) /\ i \in Nat
         /\ \A i \in 1..Len(q) : i = 1 \/ (i - 1 \in 1..Len(Tail(q)) /\ Tail(q)[i - 1] = q[i])
         /\ 1 \in 1..Len(q) /\ (Tail(q) # << >> => Len(Tail(q)) >= 1) /\ (Tail(q) = << >> => Len(q) = 1)
  <1>1. /\ Tail(q) \in Seq(Errand) /\ Len(Tail(q)) = Len(q) - 1 /\ Len(q) \in Nat \ {0}
        /\ \A i \in 1..Len(q) - 1 : Tail(q)[i] = q[i + 1]
        /\ Head(q) = q[1] /\ Head(q) \in Errand
    OBVIOUS
  <1>2. \A i \in 1..Len(Tail(q)) : Tail(q)[i] = q[i + 1] /\ i + 1 \in 1..Len(q) /\ i \in Nat
    BY <1>1
  <1>3. ASSUME NEW i \in 1..Len(q), i # 1
        PROVE  i - 1 \in 1..Len(Tail(q)) /\ Tail(q)[i - 1] = q[i]
    <2>1. i - 1 \in 1..Len(Tail(q)) /\ (i - 1) + 1 = i
      BY <1>1, <1>3
    <2> QED BY <1>2, <2>1
  <1>4. 1 \in 1..Len(q) /\ (Tail(q) # << >> => Len(Tail(q)) >= 1)
    BY <1>1
  <1>5. Tail(q) = << >> => Len(q) = 1
    BY <1>1
  <1> QED BY <1>1, <1>2, <1>3, <1>4, <1>5

\* What one more command adds to a queue.
LEMMA AppendKinds ==
  ASSUME NEW q \in Seq(Errand), NEW e \in Errand
  PROVE  /\ \A op : Has(Append(q, e), op) <=> Has(q, op) \/ e.op = op
         /\ OnlyAsks(Append(q, e)) <=> OnlyAsks(q) /\ e.op = "ask"
         /\ OnlyMoves(Append(q, e)) <=> OnlyMoves(q) /\ (e.op = "ask" \/ e.op = "seek")
         /\ StopsLast(Append(q, e)) <=> e.op = "stop"
         /\ AsksOnce(q) /\ (e.op = "ask" => ~Has(q, "ask")) => AsksOnce(Append(q, e))
         /\ SpotsOnly(q) /\ (e.op = "seek" \/ e.op = "scratch" => e.place \in Spots) => SpotsOnly(Append(q, e))
  <1> DEFINE w == Append(q, e)
             n == Len(q)
  <1>1. /\ w \in Seq(Errand) /\ Len(w) = n + 1 /\ n \in Nat
        /\ \A i \in 1..n : w[i] = q[i] /\ i \in 1..Len(w)
        /\ w[n + 1] = e /\ w # << >> /\ n + 1 \in 1..Len(w)
        /\ \A i \in 1..Len(w) : i \in 1..n \/ i = n + 1
    BY Appended
  <1> HIDE DEF w
  <1>2. \A op : Has(w, op) <=> Has(q, op) \/ e.op = op
    BY <1>1 DEF Has
  <1>3. OnlyAsks(w) <=> OnlyAsks(q) /\ e.op = "ask"
    BY <1>1 DEF OnlyAsks
  <1>4. OnlyMoves(w) <=> OnlyMoves(q) /\ (e.op = "ask" \/ e.op = "seek")
    BY <1>1 DEF OnlyMoves
  <1>5. StopsLast(w) <=> e.op = "stop"
    BY <1>1 DEF StopsLast
  <1>6. AsksOnce(q) /\ (e.op = "ask" => ~Has(q, "ask")) => AsksOnce(w)
    BY <1>1 DEF AsksOnce, Has
  <1>7. SpotsOnly(q) /\ (e.op = "seek" \/ e.op = "scratch" => e.place \in Spots) => SpotsOnly(w)
    BY <1>1 DEF SpotsOnly
  <1> QED BY <1>2, <1>3, <1>4, <1>5, <1>6, <1>7 DEF w

\* What it means for the scratches in a queue.
LEMMA AppendScratches ==
  ASSUME NEW q \in Seq(Errand), NEW e \in Errand, NEW a
  PROVE  /\ StopsFirst(q) => StopsFirst(Append(q, e))
         /\ ~Has(q, "seek") /\ e.op = "stop" => StopsFirst(Append(q, e))
         /\ ScratchesEnd(q) /\ e.op # "scratch" => ScratchesEnd(Append(q, e))
         /\ ScratchesGoOn(q) /\ (e.op = "ask" \/ e.op = "scratch") => ScratchesGoOn(Append(q, e))
         /\ ScratchesGoOn(q) /\ e.op = "stop" => ScratchesEnd(Append(q, e))
         /\ OnlyAsks(q) => AsksThenOne(Append(q, e))
         /\ \A f : FedAt(q, a, Len(q) + 1, f) /\ e.op = "ask" => FedAt(Append(q, e), a, Len(Append(q, e)) + 1, f)
         /\ e.op = "scratch" => FedAt(Append(q, e), a, Len(Append(q, e)) + 1, e.place)
         /\ \A f : FedAt(q, a, Len(q) + 1, f) => FedAt(Append(q, e), a, Len(Append(q, e)), f)
  <1> DEFINE w == Append(q, e)
             n == Len(q)
  <1>1. /\ w \in Seq(Errand) /\ Len(w) = n + 1 /\ n \in Nat
        /\ \A i \in 1..n : w[i] = q[i] /\ i \in 1..Len(w) /\ i < n + 1 /\ i \in Nat
        /\ w[n + 1] = e /\ w # << >> /\ n + 1 \in 1..Len(w)
        /\ \A i \in 1..Len(w) : i \in 1..n \/ i = n + 1
    BY Appended
  <1> HIDE DEF w
  <1>2. StopsFirst(q) => StopsFirst(w)
    BY <1>1 DEF StopsFirst
  <1>3. ~Has(q, "seek") /\ e.op = "stop" => StopsFirst(w)
    BY <1>1 DEF StopsFirst, Has
  <1>4. \A i \in 1..n : Ends(q, i) => Ends(w, i)
    BY <1>1 DEF Ends
  <1>5. \A i \in 1..n : OpenEnded(q, i) /\ e.op # "seek" => OpenEnded(w, i)
    BY <1>1 DEF OpenEnded
  <1>6. \A i \in 1..n : OpenEnded(q, i) /\ e.op = "stop" => Ends(w, i)
    BY <1>1 DEF OpenEnded, Ends
  <1>7. OpenEnded(w, n + 1)
    BY <1>1 DEF OpenEnded
  <1>8. ScratchesEnd(q) /\ e.op # "scratch" => ScratchesEnd(w)
    BY <1>1, <1>4 DEF ScratchesEnd
  <1>9. ScratchesGoOn(q) /\ (e.op = "ask" \/ e.op = "scratch") => ScratchesGoOn(w)
    BY <1>1, <1>4, <1>5, <1>7 DEF ScratchesGoOn
  <1>10. ScratchesGoOn(q) /\ e.op = "stop" => ScratchesEnd(w)
    BY <1>1, <1>4, <1>6 DEF ScratchesGoOn, ScratchesEnd
  <1>11. OnlyAsks(q) => AsksThenOne(w)
    BY <1>1 DEF OnlyAsks, AsksThenOne
  <1>12. \A f : FedAt(q, a, n + 1, f) /\ e.op = "ask" => FedAt(w, a, Len(w) + 1, f)
    BY <1>1 DEF FedAt
  <1>13. e.op = "scratch" => FedAt(w, a, Len(w) + 1, e.place)
    BY <1>1 DEF FedAt
  <1>14. \A f : FedAt(q, a, n + 1, f) => FedAt(w, a, Len(w), f)
    BY <1>1 DEF FedAt
  <1> QED BY <1>2, <1>3, <1>8, <1>9, <1>10, <1>11, <1>12, <1>13, <1>14 DEF w

\* What it means for the seeks in a queue.
LEMMA AppendSeeks ==
  ASSUME NEW q \in Seq(Errand), NEW e \in Errand, NEW l, NEW x
  PROVE  /\ AllGo(Append(q, e), l, x) <=> AllGo(q, l, x) /\ (e.op = "seek" => e.place = x)
         /\ LastGo(q, l, x) /\ e.op = "ask" => LastGo(Append(q, e), l, x)
         /\ e.op = "seek" => LastGo(Append(q, e), l, e.place)
         /\ \A s : LandAll(Append(q, e), l, s) <=> LandAll(q, l, s) /\ (e.op = "seek" => Lands(s, e.place))
         /\ \A j \in 1..Len(q) : Alone(q, l, j, x) /\ e.op # "seek" => Alone(Append(q, e), l, j, x)
         /\ AllGo(q, l, x) /\ e.op = "seek" => Alone(Append(q, e), l, Len(q) + 1, x)
         /\ \A i, j \in 1..Len(Append(q, e)) : Behind(Append(q, e), i, j) =>
                \/ i \in 1..Len(q) /\ j \in 1..Len(q) /\ Behind(q, i, j)
                \/ e.op = "seek" /\ j = Len(q) + 1 /\ i \in 1..Len(q)
  <1> DEFINE w == Append(q, e)
             n == Len(q)
  <1>1. /\ w \in Seq(Errand) /\ Len(w) = n + 1 /\ n \in Nat
        /\ \A i \in 1..n : w[i] = q[i] /\ i \in 1..Len(w) /\ i < n + 1 /\ i \in Nat
        /\ w[n + 1] = e /\ w # << >> /\ n + 1 \in 1..Len(w)
        /\ \A i \in 1..Len(w) : i \in 1..n \/ i = n + 1
    BY Appended
  <1> HIDE DEF w
  <1>2. AllGo(w, l, x) <=> AllGo(q, l, x) /\ (e.op = "seek" => e.place = x)
    BY <1>1 DEF AllGo
  <1>3. LastGo(q, l, x) /\ e.op = "ask" => LastGo(w, l, x)
    BY <1>1 DEF LastGo, OnlyAsks
  <1>4. e.op = "seek" => LastGo(w, l, e.place)
    BY <1>1 DEF LastGo
  <1>5. \A s : LandAll(w, l, s) <=> LandAll(q, l, s) /\ (e.op = "seek" => Lands(s, e.place))
    BY <1>1 DEF LandAll
  <1>6. \A j \in 1..n : Alone(q, l, j, x) /\ e.op # "seek" => Alone(w, l, j, x)
    BY <1>1 DEF Alone
  <1>7. AllGo(q, l, x) /\ e.op = "seek" => Alone(w, l, n + 1, x)
    BY <1>1 DEF AllGo, Alone
  <1>8. \A i, j \in 1..Len(w) : Behind(w, i, j) =>
                \/ i \in 1..n /\ j \in 1..n /\ Behind(q, i, j)
                \/ e.op = "seek" /\ j = n + 1 /\ i \in 1..n
    BY <1>1 DEF Behind
  <1> QED BY <1>2, <1>3, <1>4, <1>5, <1>6, <1>7, <1>8 DEF w

\* What the first command leaves of a queue.
LEMMA TailKinds ==
  ASSUME NEW q \in Seq(Errand), q # << >>
  PROVE  /\ \A op : Has(q, op) <=> Has(Tail(q), op) \/ Head(q).op = op
         /\ OnlyAsks(q) <=> OnlyAsks(Tail(q)) /\ Head(q).op = "ask"
         /\ OnlyMoves(q) <=> OnlyMoves(Tail(q)) /\ (Head(q).op = "ask" \/ Head(q).op = "seek")
         /\ Tail(q) # << >> => (StopsLast(q) <=> StopsLast(Tail(q)))
         /\ Tail(q) = << >> => (StopsLast(q) <=> Head(q).op = "stop")
         /\ AsksOnce(q) => AsksOnce(Tail(q)) /\ (Head(q).op = "ask" => ~Has(Tail(q), "ask"))
         /\ SpotsOnly(q) => SpotsOnly(Tail(q)) /\ (Head(q).op = "seek" \/ Head(q).op = "scratch" => Head(q).place \in Spots)
  <1> DEFINE w == Tail(q)
             n == Len(q)
             h == Head(q)
  <1>1. /\ w \in Seq(Errand) /\ Len(w) = n - 1 /\ n \in Nat \ {0} /\ h = q[1] /\ h \in Errand
        /\ \A i \in 1..Len(w) : w[i] = q[i + 1] /\ i + 1 \in 1..n /\ i \in Nat
        /\ \A i \in 1..n : i = 1 \/ (i - 1 \in 1..Len(w) /\ w[i - 1] = q[i])
        /\ 1 \in 1..n /\ (w # << >> => Len(w) >= 1) /\ (w = << >> => n = 1)
    BY TakenFromQueue
  <1> HIDE DEF w, h
  <1>2. \A op : Has(q, op) <=> Has(w, op) \/ h.op = op
    <2>1. \A op : Has(q, op) => Has(w, op) \/ h.op = op
      BY <1>1 DEF Has
    <2>2. \A op : Has(w, op) => Has(q, op)
      BY <1>1 DEF Has
    <2>3. \A op : h.op = op => Has(q, op)
      BY <1>1 DEF Has
    <2> QED BY <2>1, <2>2, <2>3
  <1>9. \A i \in 1..n : q[i] = h \/ \E j \in 1..Len(w) : q[i] = w[j]
    <2> SUFFICES ASSUME NEW i \in 1..n, i # 1 PROVE \E j \in 1..Len(w) : q[i] = w[j]
      BY <1>1
    <2> QED BY <1>1
  <1>3. OnlyAsks(q) <=> OnlyAsks(w) /\ h.op = "ask"
    <2>1. OnlyAsks(q) => OnlyAsks(w) /\ h.op = "ask"
      BY <1>1 DEF OnlyAsks
    <2>2. OnlyAsks(w) /\ h.op = "ask" => OnlyAsks(q)
      BY <1>9 DEF OnlyAsks
    <2> QED BY <2>1, <2>2
  <1>4. OnlyMoves(q) <=> OnlyMoves(w) /\ (h.op = "ask" \/ h.op = "seek")
    <2>1. OnlyMoves(q) => OnlyMoves(w) /\ (h.op = "ask" \/ h.op = "seek")
      BY <1>1 DEF OnlyMoves
    <2>2. OnlyMoves(w) /\ (h.op = "ask" \/ h.op = "seek") => OnlyMoves(q)
      BY <1>9 DEF OnlyMoves
    <2> QED BY <2>1, <2>2
  <1>5. w # << >> => (StopsLast(q) <=> StopsLast(w))
    BY <1>1 DEF StopsLast
  <1>6. w = << >> => (StopsLast(q) <=> h.op = "stop")
    BY <1>1 DEF StopsLast
  <1>7. AsksOnce(q) => AsksOnce(w) /\ (h.op = "ask" => ~Has(w, "ask"))
    <2>1. ASSUME AsksOnce(q) PROVE AsksOnce(w)
      <3>1. ASSUME NEW i \in 1..Len(w), NEW j \in 1..Len(w), w[i].op = "ask", w[j].op = "ask" PROVE i = j
        <4>1. i + 1 = j + 1
          BY <1>1, <2>1, <3>1 DEF AsksOnce
        <4> QED BY <4>1
      <3> QED BY <3>1 DEF AsksOnce
    <2>2. ASSUME AsksOnce(q), h.op = "ask", NEW i \in 1..Len(w) PROVE w[i].op # "ask"
      <3>1. i + 1 # 1
        BY <1>1
      <3> QED BY <1>1, <2>2, <3>1 DEF AsksOnce
    <2> QED BY <2>1, <2>2 DEF Has
  <1>8. SpotsOnly(q) => SpotsOnly(w) /\ (h.op = "seek" \/ h.op = "scratch" => h.place \in Spots)
    BY <1>1 DEF SpotsOnly
  <1> QED BY <1>2, <1>3, <1>4, <1>5, <1>6, <1>7, <1>8 DEF w, h

\* What it means for the scratches in the rest.
LEMMA TailScratches ==
  ASSUME NEW q \in Seq(Errand), q # << >>, NEW a, NEW f
  PROVE  /\ StopsFirst(q) /\ Head(q).op # "stop" => StopsFirst(Tail(q)) /\ Head(q).op # "seek"
         /\ ScratchesEnd(q) => ScratchesEnd(Tail(q)) /\ (Head(q).op = "scratch" => StopsFirst(Tail(q)))
         /\ ScratchesGoOn(q) => ScratchesGoOn(Tail(q))
         /\ ScratchesGoOn(q) /\ Head(q).op = "scratch" => StopsFirst(Tail(q)) \/ ~Has(Tail(q), "seek")
         /\ AsksThenOne(q) => AsksThenOne(Tail(q)) /\ (Tail(q) # << >> => Head(q).op = "ask")
         /\ \A b : \A i \in 2..Len(q) + 1 : FedAt(q, a, i, f) =>
              /\ Head(q).op = "scratch" /\ b.feeder = Head(q).place /\ b.landing = NoPlace => FedAt(Tail(q), b, i - 1, f)
              /\ Head(q).op = "ask" /\ b = a => FedAt(Tail(q), b, i - 1, f)
              /\ Head(q).op = "stop" \/ Head(q).op = "seek" => FedAt(Tail(q), b, i - 1, f)
         /\ FedAt(q, a, 1, f) => a.feeder = f /\ a.landing = NoPlace
  <1> DEFINE w == Tail(q)
             n == Len(q)
             h == Head(q)
  <1>1. /\ w \in Seq(Errand) /\ Len(w) = n - 1 /\ n \in Nat \ {0} /\ h = q[1] /\ h \in Errand
        /\ \A i \in 1..Len(w) : w[i] = q[i + 1] /\ i + 1 \in 1..n /\ i \in Nat
        /\ \A i \in 1..n : i = 1 \/ (i - 1 \in 1..Len(w) /\ w[i - 1] = q[i])
        /\ 1 \in 1..n /\ (w # << >> => Len(w) >= 1) /\ (w = << >> => n = 1)
    BY TakenFromQueue
  <1> HIDE DEF w, h
  <1>2. ASSUME StopsFirst(q), h.op # "stop" PROVE StopsFirst(w) /\ h.op # "seek"
    <2>1. PICK i \in 1..n : q[i].op = "stop" /\ \A j \in 1..n : j < i => q[j].op # "seek"
      BY <1>2 DEF StopsFirst
    <2>2. i # 1 /\ i - 1 \in 1..Len(w) /\ w[i - 1].op = "stop" /\ 1 < i
      BY <1>1, <1>2, <2>1
    <2>3. \A j \in 1..Len(w) : j < i - 1 => w[j].op # "seek"
      BY <1>1, <2>1
    <2> QED BY <1>1, <2>1, <2>2, <2>3 DEF StopsFirst
  <1>3. \A i \in 1..Len(w) : Ends(q, i + 1) => Ends(w, i)
    <2>1. ASSUME NEW i \in 1..Len(w), Ends(q, i + 1) PROVE Ends(w, i)
      <3>1. PICK j \in 1..n : i + 1 < j /\ q[j].op = "stop" /\ \A k \in 1..n : i + 1 < k /\ k < j => q[k].op # "seek"
        BY <2>1 DEF Ends
      <3>2. j - 1 \in 1..Len(w) /\ w[j - 1].op = "stop" /\ i < j - 1
        BY <1>1, <3>1
      <3>3. \A k \in 1..Len(w) : i < k /\ k < j - 1 => w[k].op # "seek"
        BY <1>1, <3>1
      <3> QED BY <3>2, <3>3 DEF Ends
    <2> QED BY <2>1
  <1>4. \A i \in 1..Len(w) : OpenEnded(q, i + 1) => OpenEnded(w, i)
    BY <1>1 DEF OpenEnded
  <1>5. /\ ScratchesEnd(q) => ScratchesEnd(w)
        /\ ScratchesGoOn(q) => ScratchesGoOn(w)
    BY <1>1, <1>3, <1>4 DEF ScratchesEnd, ScratchesGoOn
  <1>6. ASSUME Ends(q, 1) PROVE StopsFirst(w)
    <2>1. PICK j \in 1..n : 1 < j /\ q[j].op = "stop" /\ \A k \in 1..n : 1 < k /\ k < j => q[k].op # "seek"
      BY <1>6 DEF Ends
    <2>2. j - 1 \in 1..Len(w) /\ w[j - 1].op = "stop"
      BY <1>1, <2>1
    <2>3. \A k \in 1..Len(w) : k < j - 1 => w[k].op # "seek"
      BY <1>1, <2>1
    <2> QED BY <2>2, <2>3 DEF StopsFirst
  <1>7. OpenEnded(q, 1) => ~Has(w, "seek")
    BY <1>1 DEF OpenEnded, Has
  <1>8. /\ ScratchesEnd(q) /\ h.op = "scratch" => StopsFirst(w)
        /\ ScratchesGoOn(q) /\ h.op = "scratch" => StopsFirst(w) \/ ~Has(w, "seek")
    BY <1>1, <1>6, <1>7 DEF ScratchesEnd, ScratchesGoOn
  <1>11. AsksThenOne(q) => AsksThenOne(w) /\ (w # << >> => h.op = "ask")
    <2>1. \A i \in 1..Len(w) : i < Len(w) => i + 1 < n
      BY <1>1
    <2>2. AsksThenOne(q) => AsksThenOne(w)
      BY <1>1, <2>1 DEF AsksThenOne
    <2>3. w # << >> => 1 < n
      BY <1>1
    <2>4. AsksThenOne(q) /\ w # << >> => h.op = "ask"
      BY <1>1, <2>3 DEF AsksThenOne
    <2> QED BY <2>2, <2>4
  <1>9. ASSUME NEW b, NEW i \in 2..n + 1, FedAt(q, a, i, f)
        PROVE  /\ h.op = "scratch" /\ b.feeder = h.place /\ b.landing = NoPlace => FedAt(w, b, i - 1, f)
               /\ h.op = "ask" /\ b = a => FedAt(w, b, i - 1, f)
               /\ h.op = "stop" \/ h.op = "seek" => FedAt(w, b, i - 1, f)
    <2>1. ASSUME NEW j \in 1..n, j < i, q[j].op = "scratch", q[j].place = f,
                 \A k \in 1..n : j < k /\ k < i => q[k].op = "ask", j # 1
          PROVE  FedAt(w, b, i - 1, f)
      <3>1. j - 1 \in 1..Len(w) /\ w[j - 1] = q[j] /\ j - 1 < i - 1
        BY <1>1, <2>1
      <3>2. \A k \in 1..Len(w) : j - 1 < k /\ k < i - 1 => w[k].op = "ask"
        BY <1>1, <2>1
      <3> QED BY <2>1, <3>1, <3>2 DEF FedAt
    <2>2. ASSUME q[1].op = "scratch", q[1].place = f, \A k \in 1..n : 1 < k /\ k < i => q[k].op = "ask"
          PROVE  \A k \in 1..Len(w) : k < i - 1 => w[k].op = "ask"
      BY <1>1, <2>2
    <2>3. ASSUME \A k \in 1..n : k < i => q[k].op = "ask"
          PROVE  h.op = "ask" /\ \A k \in 1..Len(w) : k < i - 1 => w[k].op = "ask"
      BY <1>1, <2>3
    <2>4. \/ \E j \in 1..n : /\ j # 1 /\ j < i /\ q[j].op = "scratch" /\ q[j].place = f
                             /\ \A k \in 1..n : j < k /\ k < i => q[k].op = "ask"
          \/ q[1].op = "scratch" /\ q[1].place = f /\ \A k \in 1..n : 1 < k /\ k < i => q[k].op = "ask"
          \/ (\A k \in 1..n : k < i => q[k].op = "ask") /\ a.feeder = f /\ a.landing = NoPlace
      BY <1>9 DEF FedAt
    <2>5. CASE \E j \in 1..n : /\ j # 1 /\ j < i /\ q[j].op = "scratch" /\ q[j].place = f
                               /\ \A k \in 1..n : j < k /\ k < i => q[k].op = "ask"
      BY <2>1, <2>5
    <2>6. CASE q[1].op = "scratch" /\ q[1].place = f /\ \A k \in 1..n : 1 < k /\ k < i => q[k].op = "ask"
      BY <1>1, <2>2, <2>6 DEF FedAt
    <2>7. CASE (\A k \in 1..n : k < i => q[k].op = "ask") /\ a.feeder = f /\ a.landing = NoPlace
      BY <2>3, <2>7 DEF FedAt
    <2> QED BY <2>4, <2>5, <2>6, <2>7
  <1>10. FedAt(q, a, 1, f) => a.feeder = f /\ a.landing = NoPlace
    BY <1>1 DEF FedAt
  <1> QED BY <1>2, <1>5, <1>8, <1>9, <1>10, <1>11 DEF w, h

\* What it means for the seeks in the rest.
LEMMA TailSeeks ==
  ASSUME NEW q \in Seq(Errand), q # << >>, NEW l, NEW x
  PROVE  /\ AllGo(q, l, x) => AllGo(Tail(q), l, x)
         /\ AllGo(q, l, x) /\ Head(q).op = "seek" => \A m : m.at = Head(q).place => AllGo(Tail(q), m, x)
         /\ LastGo(q, l, x) /\ Head(q).op = "ask" => LastGo(Tail(q), l, x)
         /\ LastGo(q, l, x) /\ Head(q).op = "seek" =>
                \A m : m # NoPlace /\ m.at = Head(q).place => LastGo(Tail(q), m, x)
         /\ LastGo(q, l, x) /\ Head(q).op # "seek" /\ Head(q).op # "ask" => \A m : LastGo(Tail(q), m, x)
         /\ \A s : LandAll(q, l, s) => LandAll(Tail(q), l, s)
         /\ \A s : LandAll(q, l, s) /\ Head(q).op = "seek" => \A m : m.at = Head(q).place => LandAll(Tail(q), m, s)
         /\ \A i, j \in 1..Len(Tail(q)) : Behind(Tail(q), i, j) =>
                i + 1 \in 1..Len(q) /\ j + 1 \in 1..Len(q) /\ Behind(q, i + 1, j + 1)
         /\ \A j \in 1..Len(Tail(q)) : Alone(q, l, j + 1, x) =>
                /\ Alone(Tail(q), l, j, x)
                /\ Head(q).op = "seek" => \A m : m.at = Head(q).place => Alone(Tail(q), m, j, x)
  <1> DEFINE w == Tail(q)
             n == Len(q)
             h == Head(q)
  <1>1. /\ w \in Seq(Errand) /\ Len(w) = n - 1 /\ n \in Nat \ {0} /\ h = q[1] /\ h \in Errand
        /\ \A i \in 1..Len(w) : w[i] = q[i + 1] /\ i + 1 \in 1..n /\ i \in Nat
        /\ \A i \in 1..n : i = 1 \/ (i - 1 \in 1..Len(w) /\ w[i - 1] = q[i])
        /\ 1 \in 1..n /\ (w # << >> => Len(w) >= 1) /\ (w = << >> => n = 1)
    BY TakenFromQueue
  <1> HIDE DEF w, h
  <1>2. AllGo(q, l, x) => AllGo(w, l, x)
    <2>1. \A i \in 1..Len(w) : w[i] = q[i + 1] /\ i + 1 \in 1..n
      BY <1>1
    <2>2. (\A i \in 1..n : q[i].op = "seek" => q[i].place = x)
          => \A i \in 1..Len(w) : w[i].op = "seek" => w[i].place = x
      BY <2>1
    <2> QED BY <2>2 DEF AllGo
  <1>3. AllGo(q, l, x) /\ h.op = "seek" => \A m : m.at = h.place => AllGo(w, m, x)
    <2>1. AllGo(q, l, x) /\ h.op = "seek" => h.place = x
      BY <1>1 DEF AllGo
    <2> QED BY <1>2, <2>1 DEF AllGo
  <1>4. ASSUME NEW i \in 1..n, i # 1, q[i].op = "seek", q[i].place = x, \A j \in 1..n : j > i => q[j].op = "ask", NEW m
        PROVE  LastGo(w, m, x)
    <2>1. i - 1 \in 1..Len(w) /\ w[i - 1] = q[i]
      BY <1>1, <1>4
    <2>2. \A j \in 1..Len(w) : j > i - 1 => w[j].op = "ask"
      BY <1>1, <1>4
    <2> QED BY <1>4, <2>1, <2>2 DEF LastGo
  <1>5. ASSUME \A j \in 1..n : j > 1 => q[j].op = "ask" PROVE OnlyAsks(w)
    <2>1. \A i \in 1..Len(w) : i + 1 > 1
      BY <1>1
    <2> QED BY <1>1, <1>5, <2>1 DEF OnlyAsks
  <1>6. OnlyAsks(q) => OnlyAsks(w) /\ h.op = "ask"
    BY <1>1 DEF OnlyAsks
  <1>7. LastGo(q, l, x) =>
          \/ \A m : LastGo(w, m, x)
          \/ OnlyAsks(w) /\ h.op = "seek" /\ h.place = x
          \/ OnlyAsks(w) /\ h.op = "ask" /\ l # NoPlace /\ l.at = x
    BY <1>1, <1>4, <1>5, <1>6 DEF LastGo
  <1>8. LastGo(q, l, x) /\ h.op = "ask" => LastGo(w, l, x)
    BY <1>7 DEF LastGo
  <1>9. LastGo(q, l, x) /\ h.op = "seek" => \A m : m # NoPlace /\ m.at = h.place => LastGo(w, m, x)
    BY <1>7 DEF LastGo
  <1>10. LastGo(q, l, x) /\ h.op # "seek" /\ h.op # "ask" => \A m : LastGo(w, m, x)
    BY <1>7
  <1>11. \A s : LandAll(q, l, s) => LandAll(w, l, s)
    BY <1>1 DEF LandAll
  <1>12. \A s : LandAll(q, l, s) /\ h.op = "seek" => \A m : m.at = h.place => LandAll(w, m, s)
    BY <1>1 DEF LandAll
  <1>13. \A i, j \in 1..Len(w) : Behind(w, i, j) => i + 1 \in 1..n /\ j + 1 \in 1..n /\ Behind(q, i + 1, j + 1)
    BY <1>1 DEF Behind
  <1>14. ASSUME NEW j \in 1..Len(w), Alone(q, l, j + 1, x)
         PROVE  /\ Alone(w, l, j, x)
                /\ h.op = "seek" => \A m : m.at = h.place => Alone(w, m, j, x)
    <2>1. \A k \in 1..Len(w) : k > j => w[k].op # "seek"
      BY <1>1, <1>14 DEF Alone
    <2>2. \A k \in 1..Len(w) : k < j /\ w[k].op = "seek" => w[k].place = x
      BY <1>1, <1>14 DEF Alone
    <2>3. h.op = "seek" => h.place = x
      BY <1>1, <1>14 DEF Alone
    <2> QED BY <1>14, <2>1, <2>2, <2>3 DEF Alone
  <1> QED BY <1>2, <1>3, <1>8, <1>9, <1>10, <1>11, <1>12, <1>13, <1>14 DEF w, h

\* A queue in which nothing moves the feeder leaves it where it is.
LEMMA FedNow ==
  ASSUME NEW q \in Seq(Errand), NEW a, NEW f, FedAt(q, a, Len(q) + 1, f), ~Has(q, "scratch")
  PROVE  OnlyAsks(q) /\ a.feeder = f /\ a.landing = NoPlace
  <1>1. \A i \in 1..Len(q) : i < Len(q) + 1
    OBVIOUS
  <1> QED BY <1>1 DEF FedAt, Has, OnlyAsks

\* Where the feeder is told to be depends on no more of the pipeline than this.
LEMMA FedSame ==
  ASSUME NEW q, NEW a, NEW b, NEW i, NEW f, FedAt(q, a, i, f),
         b.feeder = a.feeder, b.landing = a.landing \/ b.landing = NoPlace
  PROVE  FedAt(q, b, i, f)
  BY DEF FedAt

\* What of a queue follows from what.
LEMMA QueueFacts ==
  ASSUME NEW q \in Seq(Errand)
  PROVE  /\ ScratchesEnd(q) => ScratchesGoOn(q)
         /\ OnlyAsks(q) => OnlyMoves(q) /\ ~Has(q, "seek") /\ ~Has(q, "stop") /\ ~Has(q, "scratch")
         /\ OnlyMoves(q) => ~Has(q, "stop") /\ ~Has(q, "scratch") /\ ~StopsLast(q)
         /\ StopsLast(q) => Has(q, "stop")
         /\ StopsFirst(q) => Has(q, "stop")
         /\ \A op : Has(<< >>, op) = FALSE
         /\ \A l, x : LastGo(q, l, x) /\ ~Has(q, "seek") => OnlyAsks(q) /\ l # NoPlace /\ l.at = x
         /\ \A l, x : AllGo(q, l, x) /\ SpotsOnly(q) /\ (l # NoPlace => l.at \in Spots) /\ (l # NoPlace \/ Has(q, "seek")) => x \in Spots
         /\ \A l, s : LandAll(q, l, s) => (l # NoPlace => Lands(s, l.at))
         /\ \A l, x : l = NoPlace /\ ~Has(q, "seek") => AllGo(q, l, x)
         /\ \A l, m, x : LastGo(q, l, x) /\ Has(q, "seek") => LastGo(q, m, x)
         /\ \A l, x : AllGo(q, l, x) => AllGo(q, NoPlace, x) /\ (l # NoPlace => l.at = x)
         /\ \A l, s : LandAll(q, l, s) => LandAll(q, NoPlace, s)
         /\ \A s : ~Has(q, "seek") => LandAll(q, NoPlace, s)
         /\ \A l, j, x : Alone(q, l, j, x) => Alone(q, NoPlace, j, x) /\ (l # NoPlace => l.at = x)
  <1>1. Len(q) \in Nat /\ (q # << >> => Len(q) \in 1..Len(q))
    OBVIOUS
  <1>2. /\ ScratchesEnd(q) => ScratchesGoOn(q)
        /\ OnlyAsks(q) => OnlyMoves(q) /\ ~Has(q, "seek") /\ ~Has(q, "stop") /\ ~Has(q, "scratch")
    BY DEF ScratchesEnd, ScratchesGoOn, OnlyAsks, OnlyMoves, Has
  <1>3. OnlyMoves(q) => ~Has(q, "stop") /\ ~Has(q, "scratch") /\ ~StopsLast(q)
    BY <1>1 DEF OnlyMoves, Has, StopsLast
  <1>4. StopsLast(q) => Has(q, "stop")
    BY <1>1 DEF Has, StopsLast
  <1>5. StopsFirst(q) => Has(q, "stop")
    BY DEF StopsFirst, Has
  <1>6. \A op : Has(<< >>, op) = FALSE
    BY DEF Has
  <1>7. \A l, x : LastGo(q, l, x) /\ ~Has(q, "seek") => OnlyAsks(q) /\ l # NoPlace /\ l.at = x
    BY DEF LastGo, Has
  <1>8. \A l, x : AllGo(q, l, x) /\ SpotsOnly(q) /\ (l # NoPlace => l.at \in Spots) /\ (l # NoPlace \/ Has(q, "seek")) => x \in Spots
    BY DEF AllGo, SpotsOnly, Has
  <1>9. \A l, s : LandAll(q, l, s) => (l # NoPlace => Lands(s, l.at))
    BY DEF LandAll
  <1>10. \A l, x : l = NoPlace /\ ~Has(q, "seek") => AllGo(q, l, x)
    BY DEF AllGo, Has
  <1>11. \A l, m, x : LastGo(q, l, x) /\ Has(q, "seek") => LastGo(q, m, x)
    BY DEF LastGo, OnlyAsks, Has
  <1>12. /\ \A l, x : AllGo(q, l, x) => AllGo(q, NoPlace, x) /\ (l # NoPlace => l.at = x)
         /\ \A l, s : LandAll(q, l, s) => LandAll(q, NoPlace, s)
         /\ \A s : ~Has(q, "seek") => LandAll(q, NoPlace, s)
         /\ \A l, j, x : Alone(q, l, j, x) => Alone(q, NoPlace, j, x) /\ (l # NoPlace => l.at = x)
    BY DEF AllGo, LandAll, Alone, Has
  <1> QED BY <1>2, <1>3, <1>4, <1>5, <1>6, <1>7, <1>8, <1>9, <1>10, <1>11, <1>12

\* Where the last seek goes is known, queued or landing.
LEMMA LastGoes ==
  ASSUME NEW q \in Seq(Errand), NEW l, NEW x, LastGo(q, l, x)
  PROVE  /\ ~Has(q, "seek") => OnlyAsks(q) /\ l # NoPlace /\ l.at = x
         /\ Has(q, "seek") => LastGo(q, NoPlace, x)
  BY DEF LastGo, OnlyAsks, Has

\* A last seek that goes where all before it go.
LEMMA AloneAll ==
  ASSUME NEW q \in Seq(Errand), NEW l, NEW x, LastGo(q, l, x),
         NEW j \in 1..Len(q), q[j].op = "seek", Alone(q, l, j, x)
  PROVE  AllGo(q, l, x)
  <1>1. PICK i \in 1..Len(q) : q[i].op = "seek" /\ q[i].place = x /\ \A k \in 1..Len(q) : k > i => q[k].op = "ask"
    BY DEF LastGo, OnlyAsks
  <1>2. i = j
    BY <1>1 DEF Alone
  <1>3. \A k \in 1..Len(q) : q[k].op = "seek" => k = j \/ k < j
    BY DEF Alone
  <1> QED BY <1>1, <1>2, <1>3 DEF Alone, AllGo

\* The place of a position depends on no more of the page than this.
LEMMA SameContent ==
  ASSUME NEW s, NEW t, t.track = s.track, t.rate = s.rate
  PROVE  /\ \A pos : AfterJump(t, pos) = AfterJump(s, pos)
         /\ \A p : Lands(t, p) <=> Lands(s, p)
         /\ \A q, l : LandAll(q, l, t) <=> LandAll(q, l, s)
  <1>1. \A pos : AfterJump(t, pos) = AfterJump(s, pos)
    BY DEF AfterJump
  <1>2. \A p : Lands(t, p) <=> Lands(s, p)
    BY <1>1 DEF Lands
  <1> QED BY <1>1, <1>2 DEF LandAll

----------------------------------------------------------------------------
(* The inductive invariant. *)

\* A request is out, about play, or sampled by the main thread; the hand has moved; the
\* place shown is not the hand's; a seek is to land.
Polling == screen.asked # NoPlace
PlayAsked == Polling /\ ~screen.asked.scrub
Sampled == Polling /\ screen.asked.pos # NoPlace
InHand == Scrubbed /\ hand.moved
Calm == ~Scrubbed \/ (~hand.moved /\ PlayAsked)
Going == audio.landing # NoPlace \/ Has(errands, "seek")

\* Rates only shorten: the pipeline's domain is behind the content's.
OutBehind == audio.out <= audio.at
\* What is aimed at is a place of the track that a rate maps both ways.
Aligned ==
    /\ SpotsOnly(errands)
    /\ audio.landing # NoPlace =>
         audio.landing.at \in Spots /\ audio.landing.out = Down(audio.landing.at, screen.rate)
    /\ audio.feeder # NoPlace => audio.feeder \in Spots
    /\ hand.due # NoPlace => hand.due \in Spots
    /\ hand.moved => hand.target \in Spots
\* One request is out at a time, and it is on its way exactly until it is sampled.
Asking == AsksOnce(errands) /\ (Has(errands, "ask") <=> (Polling /\ ~Sampled))
\* The page and the pipeline agree on play, and the gesture has the mode it began in.
Modes ==
    /\ audio.moving = screen.playing
    /\ screen.playing => audio.feeder = NoPlace /\ audio.rested = NoPlace /\ OnlyMoves(errands)
    /\ hand.target # NoPlace => hand.silent = screen.playing
    /\ hand.target = NoPlace => hand = AtRest
    /\ hand.due # NoPlace => hand.moved /\ hand.due = hand.target
    /\ PlayAsked /\ ~Sampled => screen.playing
\* A feeder is stopped before the deck is sought, or is the hand's.
Feeding ==
    /\ audio.feeder # NoPlace => audio.landing = NoPlace
    /\ audio.feeder # NoPlace => StopsFirst(errands) \/ (InHand /\ ~Has(errands, "seek"))
    /\ ScratchesGoOn(errands) /\ (~InHand => ScratchesEnd(errands))
\* What the hand aims at is what the feeder is told last.
HeldAim == InHand /\ hand.due = NoPlace => FedAt(errands, audio, Len(errands) + 1, hand.target)
\* A hand that let go shows where the feeder was told to be, and the stop comes last.
Released ==
    ~Scrubbed /\ Has(errands, "stop") =>
        /\ screen.shown # NoPlace => StopsLast(errands) /\ FedAt(errands, audio, Len(errands), screen.shown)
        /\ screen.shown = NoPlace => (StopsLast(errands) <=> ~Going) /\ (StopsLast(errands) => screen.sought = NoPlace)

\* An answer about a scratch, let go: before the stop, and after it.
ScrubStops ==
    /\ StopsLast(errands) /\ AsksThenOne(errands) /\ audio.feeder = screen.shown
    /\ Sampled => screen.asked.pos = screen.shown
ScrubStopped ==
    /\ errands = << >> /\ Sampled /\ screen.asked.pos = audio.landed /\ audio.at = audio.landed
    /\ screen.playing => audio.at = Up(audio.out, screen.rate)
\* It tells the place that is shown, or the one where the scratch landed.
ScrubAnswer ==
    ScratchAsked /\ ~Scrubbed =>
        audio.landing = NoPlace /\ screen.shown # NoPlace /\ (ScrubStops \/ ScrubStopped)

\* A seek the page still waits for: the last one goes to what it sought.
SeekAhead ==
    /\ screen.sought # NoPlace /\ screen.sought.age = 0 /\ screen.shown = NoPlace
    /\ LastGo(errands, audio.landing, screen.sought.place)
\* A seek the page has taken for landed: all that are on their way go to what is shown.
SeekHeard ==
    /\ screen.sought = NoPlace /\ screen.shown # NoPlace
    /\ AllGo(errands, audio.landing, screen.shown)
    /\ screen.track # NoPlace /\ screen.track.time = 0 /\ screen.track.way = 0
    /\ screen.track.place = screen.shown
    /\ screen.track.out = audio.out \/ audio.out = Down(screen.shown, screen.rate)
    /\ OnlyMoves(errands)
\* A seek on its way is one or the other.
SeekShown == Calm /\ Going /\ ~StopsLast(errands) => SeekAhead \/ SeekHeard

\* While a request about play is out, nothing scratches.
PlayAnswer == Calm /\ PlayAsked => OnlyMoves(errands) /\ audio.feeder = NoPlace
\* An answer sampled before a seek lands is one the page drops, or tells the same place.
AnswerGoing ==
    Calm /\ PlayAsked /\ Sampled /\ Going =>
        /\ screen.sought # NoPlace /\ AfterJump(screen, screen.asked.pos) = screen.sought.place =>
             /\ AllGo(errands, audio.landing, screen.sought.place)
             /\ audio.out = screen.asked.pos \/ audio.out = Down(screen.sought.place, screen.rate)
        /\ screen.sought = NoPlace =>
             \/ screen.asked.pos = screen.track.out
             \/ screen.asked.pos = Down(screen.shown, screen.rate) /\ audio.out = screen.asked.pos

\* Sampled since the last seek, and sampled before it.
AnswerTrue ==
    /\ screen.asked.truth = audio.at /\ AfterJump(screen, screen.asked.pos) = audio.at
    /\ screen.asked.pos = audio.out
AnswerOld ==
    /\ screen.asked.truth = NoPlace /\ audio.at = audio.landed
    /\ screen.sought # NoPlace =>
         /\ screen.sought.age = 0 /\ screen.sought.place = audio.landed
         /\ audio.landed \in Spots /\ audio.out = Down(audio.landed, screen.rate)
    /\ screen.sought = NoPlace =>
         /\ AfterJump(screen, screen.asked.pos) = audio.landed /\ (InStep => audio.out = screen.asked.pos)
         /\ \/ audio.out = screen.asked.pos
            \/ audio.landed \in Spots /\ audio.out = Down(audio.landed, screen.rate)
\* Once no seek is to land, the answer on its way is one or the other.
AnswerStill == Calm /\ PlayAsked /\ Sampled /\ ~Going => AnswerTrue \/ AnswerOld

\* Of seeks behind a request, all but one go where the deck is.
Unsampled ==
    PlayAsked => \A i, j \in 1..Len(errands) : Behind(errands, i, j) =>
        screen.sought # NoPlace /\ Alone(errands, audio.landing, j, AfterJump(screen, audio.out))
\* What the page would make of the pipeline's position is the place in the content.
ContentRight ==
    screen.playing =>
        /\ ~Going => AfterJump(screen, audio.out) = audio.at
        /\ LandAll(errands, audio.landing, screen)
\* ShowsItsPlace, where answers may be on their way.
ShowsRight ==
    Calm /\ ~Going /\ ~Has(errands, "stop") =>
        /\ screen.shown # NoPlace => screen.shown \in {known, audio.landed}
        /\ screen.shown = NoPlace /\ screen.sought # NoPlace => audio.landed = screen.sought.place

\* All of it.
PosInv ==
    /\ PositionTypeOK /\ OutBehind /\ Aligned /\ Asking /\ Modes /\ Feeding /\ HeldAim /\ Released
    /\ ScrubAnswer /\ SeekShown /\ PlayAnswer /\ AnswerGoing /\ AnswerStill /\ Unsampled
    /\ ContentRight /\ ShowsRight

----------------------------------------------------------------------------
(* What fields are. *)

\* The fields of the records are of their types.
LEMMA PositionFields ==
  ASSUME PositionTypeOK
  PROVE  /\ audio.out \in Places /\ audio.at \in Places /\ audio.moving \in BOOLEAN
         /\ audio.feeder \in MaybePlace /\ audio.rested \in MaybePlace /\ audio.landed \in MaybePlace
         /\ audio.landing # NoPlace => audio.landing.out \in Places /\ audio.landing.at \in Places
         /\ screen.playing \in BOOLEAN /\ screen.rate \in Tempi /\ screen.shown \in Int \cup {NoPlace}
         /\ screen.sought # NoPlace => screen.sought.place \in Places /\ screen.sought.age \in Nat
         /\ screen.track # NoPlace =>
              /\ screen.track.out \in Places /\ screen.track.place \in Int
              /\ screen.track.time \in Nat /\ screen.track.way \in Nat
         /\ screen.asked # NoPlace =>
              /\ screen.asked.scrub \in BOOLEAN /\ screen.asked.pos \in MaybePlace
              /\ screen.asked.truth \in MaybePlace
         /\ hand.target \in Int \cup {NoPlace} /\ hand.due \in MaybePlace
         /\ hand.silent \in BOOLEAN /\ hand.moved \in BOOLEAN
         /\ errands \in Seq(Errand) /\ Len(errands) \in Nat /\ known \in MaybePlace
  <1> USE DEF PositionTypeOK
  <1>1. audio.out \in Places /\ audio.at \in Places /\ audio.moving \in BOOLEAN
        /\ audio.feeder \in MaybePlace /\ audio.rested \in MaybePlace /\ audio.landed \in MaybePlace
        /\ audio.landing \in {NoPlace} \cup [out : Places, at : Places]
    BY DEF AudioRec
  <1>2. screen.playing \in BOOLEAN /\ screen.rate \in Tempi /\ screen.shown \in Int \cup {NoPlace}
        /\ screen.sought \in {NoPlace} \cup [place : Places, age : Nat]
        /\ screen.track \in {NoPlace} \cup [out : Places, place : Int, time : Nat, way : Nat]
        /\ screen.asked \in {NoPlace} \cup [scrub : BOOLEAN, pos : MaybePlace, truth : MaybePlace]
    BY DEF ScreenRec
  <1>3. hand.target \in Int \cup {NoPlace} /\ hand.due \in MaybePlace
        /\ hand.silent \in BOOLEAN /\ hand.moved \in BOOLEAN
    BY DEF GripRec
  <1>4. errands \in Seq(Errand) /\ Len(errands) \in Nat
    OBVIOUS
  <1>5. audio.landing # NoPlace => audio.landing.out \in Places /\ audio.landing.at \in Places
    BY <1>1
  <1>6. screen.sought # NoPlace => screen.sought.place \in Places /\ screen.sought.age \in Nat
    BY <1>2
  <1>7. screen.track # NoPlace =>
              /\ screen.track.out \in Places /\ screen.track.place \in Int
              /\ screen.track.time \in Nat /\ screen.track.way \in Nat
    BY <1>2
  <1>8. screen.asked # NoPlace =>
              /\ screen.asked.scrub \in BOOLEAN /\ screen.asked.pos \in MaybePlace
              /\ screen.asked.truth \in MaybePlace
    BY <1>2
  <1> QED BY <1>1, <1>2, <1>3, <1>4, <1>5, <1>6, <1>7, <1>8

\* The operators of the module, in these terms.
LEMMA InTheseTerms ==
  ASSUME PositionTypeOK
  PROVE  /\ Seeking <=> Going
         /\ \A pos : Content(pos) = AfterJump(screen, pos)
         /\ InLine <=> audio.at = Up(audio.out, screen.rate)
         /\ \A r : Up(audio.out, r) = audio.out * r
  <1>1. DOMAIN errands = 1..Len(errands)
    BY DEF PositionTypeOK
  <1>2. Seeking <=> Going
    BY <1>1 DEF Seeking, Going, Has
  <1> QED BY <1>2 DEF Content, AfterJump, Scaled, Up, InLine

\* What a seek that the page has heard of says of its positions.
LEMMA HeardPlace ==
  ASSUME PositionTypeOK, Aligned, Going, SeekHeard
  PROVE  /\ screen.shown \in Spots
         /\ AfterJump(screen, screen.track.out) = screen.shown
         /\ AfterJump(screen, Down(screen.shown, screen.rate)) = screen.shown
         /\ AfterJump(screen, audio.out) = screen.shown
         /\ audio.landing # NoPlace => audio.landing.at = screen.shown
  <1>1. screen.shown \in Spots
    BY PositionFields, QueueFacts DEF Aligned, Going, SeekHeard
  <1>2. screen.rate \in Tempi /\ screen.track.out \in Int /\ screen.shown \in Int
    BY <1>1, PositionFields, PosRulesHold DEF PosRules, SeekHeard, Places
  <1>3. AfterJump(screen, screen.track.out) = screen.shown
    BY <1>2 DEF AfterJump, SeekHeard
  <1>4. Up(Down(screen.shown, screen.rate), screen.rate) = screen.shown
    BY <1>1, <1>2, SpotDiv
  <1>5. AfterJump(screen, Down(screen.shown, screen.rate)) = screen.shown
    BY <1>2, <1>4 DEF AfterJump, SeekHeard
  <1>6. AfterJump(screen, audio.out) = screen.shown
    BY <1>3, <1>5 DEF SeekHeard
  <1>7. audio.landing # NoPlace => audio.landing.at = screen.shown
    BY DEF SeekHeard, AllGo
  <1> QED BY <1>1, <1>3, <1>5, <1>6, <1>7

\* A seek keeps all of it, whoever asks for it.
LEMMA SeeksKeep ==
  ASSUME PosInv, Mishaps = {}, NEW p \in Spots, Seeks(p), UNCHANGED <<audio, known>>,
         ~Scrubbed \/ ~hand.moved, hand' \in GripRec, ~Scrubbed', hand'.due = NoPlace,
         hand'.moved => hand'.target \in Spots, hand'.target = NoPlace => hand' = AtRest,
         hand'.target # NoPlace => hand'.silent = screen.playing
  PROVE  PosInv'
  <1> DEFINE e == [op |-> "seek", place |-> p]
  <1>0. /\ PositionTypeOK /\ OutBehind /\ Aligned /\ Asking /\ Modes /\ Feeding /\ HeldAim /\ Released
        /\ ScrubAnswer /\ SeekShown /\ PlayAnswer /\ AnswerGoing /\ AnswerStill /\ Unsampled
        /\ ContentRight /\ ShowsRight
    BY DEF PosInv
  <1>1. /\ audio' = audio /\ known' = known /\ errands' = Append(errands, e)
        /\ screen' = [screen EXCEPT !.shown = NoPlace, !.sought = [place |-> p, age |-> 0]]
        /\ ~ScratchAsked /\ (screen.asked = NoPlace \/ screen.sought = NoPlace)
        /\ ~screen.playing \/ Content(p \div screen.rate) = p
    BY DEF Seeks, Sought, Sends
  <1>2. p \in Places /\ e \in Errand /\ e.op = "seek" /\ e.place = p
    BY PosRulesHold DEF PosRules, Errand, MaybePlace
  <1>3. [place |-> p, age |-> 0] \in [place : Places, age : Nat]
    BY <1>2
  <1>4. /\ screen' \in ScreenRec
        /\ screen'.playing = screen.playing /\ screen'.rate = screen.rate /\ screen'.shown = NoPlace
        /\ screen'.sought # NoPlace /\ screen'.sought.place = p /\ screen'.sought.age = 0
        /\ screen'.track = screen.track /\ screen'.asked = screen.asked
    BY <1>0, <1>1, <1>3, NoPlaceAssumption DEF PositionTypeOK, ScreenRec
  <1> HIDE DEF e
  <1>5. /\ errands' \in Seq(Errand) /\ Len(errands') = Len(errands) + 1 /\ Len(errands) \in Nat
        /\ errands \in Seq(Errand)
    BY <1>0, <1>1, <1>2, Appended, PositionFields
  <1>6. PositionTypeOK'
    BY <1>0, <1>1, <1>4, <1>5 DEF PositionTypeOK
  <1>7. Going'
    BY <1>1, <1>2, <1>5, AppendKinds DEF Going
  <1>8. ~StopsLast(errands')
    BY <1>1, <1>2, <1>5, AppendKinds
  <1>9. InHand = FALSE /\ InHand' = FALSE
    <2>1. hand.silent \in BOOLEAN /\ hand.moved \in BOOLEAN
      BY <1>0, PositionFields
    <2> QED BY <2>1 DEF InHand, Scrubbed
  <1>10. /\ \A x : AfterJump(screen', x) = AfterJump(screen, x)
         /\ \A x : Lands(screen', x) <=> Lands(screen, x)
         /\ \A q, l : LandAll(q, l, screen') <=> LandAll(q, l, screen)
    BY <1>4, SameContent
  <1>11. Polling' = Polling /\ PlayAsked' = PlayAsked /\ Sampled' = Sampled /\ ScratchAsked' = ScratchAsked
    BY <1>4 DEF Polling, PlayAsked, Sampled, ScratchAsked
  <1>12. Calm' /\ (PlayAsked => Calm)
    BY DEF Calm
  <1>13. OutBehind'
    BY <1>0, <1>1 DEF OutBehind
  <1>14. Aligned'
    <2>1. SpotsOnly(errands')
      BY <1>0, <1>1, <1>2, <1>5, AppendKinds DEF Aligned
    <2> QED BY <1>0, <1>1, <1>4, <2>1 DEF Aligned
  <1>15. Asking'
    <2>1. AsksOnce(errands') /\ (Has(errands', "ask") <=> Has(errands, "ask"))
      BY <1>0, <1>1, <1>2, <1>5, AppendKinds DEF Asking
    <2> QED BY <1>0, <1>11, <2>1 DEF Asking
  <1>16. Modes'
    <2>1. OnlyMoves(errands) => OnlyMoves(errands')
      BY <1>1, <1>2, <1>5, AppendKinds
    <2>2. /\ audio'.moving = screen'.playing
          /\ screen'.playing => audio'.feeder = NoPlace /\ audio'.rested = NoPlace /\ OnlyMoves(errands')
          /\ PlayAsked' /\ ~Sampled' => screen'.playing
      BY <1>0, <1>1, <1>4, <1>11, <2>1 DEF Modes
    <2> QED BY <1>4, <2>2 DEF Modes
  <1>17. Feeding'
    <2>1. StopsFirst(errands) => StopsFirst(errands')
      BY <1>1, <1>2, <1>5, AppendScratches
    <2>2. ScratchesEnd(errands')
      BY <1>0, <1>1, <1>2, <1>5, <1>9, AppendScratches DEF Feeding
    <2>3. ScratchesGoOn(errands')
      BY <2>2, <1>5, QueueFacts
    <2> QED BY <1>0, <1>1, <1>9, <2>1, <2>2, <2>3 DEF Feeding
  <1>18. HeldAim'
    BY <1>9 DEF HeldAim
  <1>19. Released'
    BY <1>4, <1>7, <1>8 DEF Released
  <1>20. ScrubAnswer'
    BY <1>1, <1>11 DEF ScrubAnswer
  <1>21. SeekShown'
    <2>1. LastGo(errands', audio'.landing, p)
      BY <1>1, <1>2, <1>5, AppendSeeks
    <2>2. SeekAhead'
      BY <1>4, <2>1 DEF SeekAhead
    <2> QED BY <2>2 DEF SeekShown
  <1>22. PlayAnswer'
    <2>1. OnlyMoves(errands) => OnlyMoves(errands')
      BY <1>1, <1>2, <1>5, AppendKinds
    <2> QED BY <1>0, <1>1, <1>11, <1>12, <2>1 DEF PlayAnswer
  <1>23. ASSUME PlayAsked, Going PROVE SeekHeard
    <2>1. ~StopsLast(errands)
      BY <1>0, <1>5, <1>12, <1>23, QueueFacts DEF PlayAnswer
    <2> QED BY <1>0, <1>1, <1>12, <1>23, <2>1 DEF SeekShown, SeekAhead, PlayAsked, Polling
  <1>24. ASSUME NEW x, AllGo(errands, audio.landing, x) PROVE x = p => AllGo(errands', audio'.landing, p)
    BY <1>1, <1>2, <1>5, <1>24, AppendSeeks
  <1>25. ~Going => AllGo(errands, audio.landing, p)
    BY <1>5, QueueFacts DEF Going
  <1>26. AnswerGoing'
    <2> SUFFICES ASSUME PlayAsked, Sampled, AfterJump(screen, screen.asked.pos) = p
                 PROVE  /\ AllGo(errands', audio'.landing, p)
                        /\ audio.out = screen.asked.pos \/ audio.out = Down(p, screen.rate)
      BY <1>1, <1>4, <1>10, <1>11 DEF AnswerGoing
    <2>1. screen.sought = NoPlace
      BY <1>1 DEF PlayAsked, Polling
    <2>2. CASE Going
      <3>1. SeekHeard
        BY <1>23, <2>2
      <3>2. \/ screen.asked.pos = screen.track.out
            \/ screen.asked.pos = Down(screen.shown, screen.rate) /\ audio.out = screen.asked.pos
        BY <1>0, <1>12, <2>1, <2>2 DEF AnswerGoing
      <3>3. screen.shown = p
        BY <1>0, <2>2, <3>1, <3>2, HeardPlace
      <3>4. AllGo(errands', audio'.landing, p)
        BY <1>24, <3>1, <3>3 DEF SeekHeard
      <3>5. screen.track.out = audio.out \/ audio.out = Down(p, screen.rate)
        BY <3>1, <3>3 DEF SeekHeard
      <3> QED BY <3>2, <3>4, <3>5
    <2>3. CASE ~Going
      <3>1. AnswerTrue \/ AnswerOld
        BY <1>0, <1>12, <2>3 DEF AnswerStill
      <3>2. AllGo(errands', audio'.landing, p)
        BY <1>24, <1>25, <2>3
      <3> QED BY <2>1, <3>1, <3>2 DEF AnswerTrue, AnswerOld
    <2> QED BY <2>2, <2>3
  <1>27. AnswerStill'
    BY <1>7 DEF AnswerStill
  <1>28. Unsampled'
    <2> SUFFICES ASSUME PlayAsked, NEW i \in 1..Len(errands'), NEW j \in 1..Len(errands'), Behind(errands', i, j)
                 PROVE  Alone(errands', audio.landing, j, AfterJump(screen, audio.out))
      BY <1>1, <1>4, <1>10, <1>11 DEF Unsampled
    <2>1. screen.sought = NoPlace
      BY <1>1 DEF PlayAsked, Polling
    <2>2. \/ i \in 1..Len(errands) /\ j \in 1..Len(errands) /\ Behind(errands, i, j)
          \/ j = Len(errands) + 1
      BY <1>1, <1>2, <1>5, AppendSeeks
    <2>3. j = Len(errands) + 1
      BY <1>0, <2>1, <2>2 DEF Unsampled
    <2>4. AllGo(errands, audio.landing, AfterJump(screen, audio.out))
      <3>1. CASE Going
        BY <1>0, <1>23, <3>1, HeardPlace DEF SeekHeard
      <3>2. CASE ~Going
        BY <1>5, <3>2, QueueFacts DEF Going
      <3> QED BY <3>1, <3>2
    <2> QED BY <1>1, <1>2, <1>5, <2>3, <2>4, AppendSeeks
  <1>29. ContentRight'
    <2>1. screen.playing => Lands(screen, p)
      <3>1. Content(p \div screen.rate) = AfterJump(screen, Down(p, screen.rate))
        BY <1>0, InTheseTerms DEF Down
      <3> QED BY <1>1, <3>1 DEF Lands
    <2>2. screen.playing => LandAll(errands', audio.landing, screen)
      BY <1>0, <1>1, <1>2, <1>5, <2>1, AppendSeeks DEF ContentRight
    <2> QED BY <1>1, <1>4, <1>7, <1>10, <2>2 DEF ContentRight
  <1>30. ShowsRight'
    BY <1>7 DEF ShowsRight
  <1> QED BY <1>6, <1>13, <1>14, <1>15, <1>16, <1>17, <1>18, <1>19, <1>20, <1>21, <1>22, <1>26, <1>27, <1>28, <1>29, <1>30 DEF PosInv

\* Steps of the hand alone.
LEMMA GrabKeeps ==
  ASSUME PosInv, UNCHANGED <<audio, screen, errands, known>>, hand' \in GripRec,
         ~Scrubbed' => ~Scrubbed, Calm' => Calm, InHand => InHand',
         ~(InHand' /\ hand'.due = NoPlace),
         hand'.due # NoPlace => hand'.due \in Spots /\ hand'.moved /\ hand'.due = hand'.target,
         hand'.moved => hand'.target \in Spots, hand'.target = NoPlace => hand' = AtRest,
         hand'.target # NoPlace => hand'.silent = screen.playing
  PROVE  PosInv'
  <1>0. /\ PositionTypeOK /\ OutBehind /\ Aligned /\ Asking /\ Modes /\ Feeding /\ HeldAim /\ Released
        /\ ScrubAnswer /\ SeekShown /\ PlayAnswer /\ AnswerGoing /\ AnswerStill /\ Unsampled
        /\ ContentRight /\ ShowsRight
    BY DEF PosInv
  <1>1. audio' = audio /\ screen' = screen /\ errands' = errands /\ known' = known
    OBVIOUS
  <1>2. /\ Polling' = Polling /\ PlayAsked' = PlayAsked /\ Sampled' = Sampled /\ ScratchAsked' = ScratchAsked
        /\ Going' = Going /\ InStep' = InStep
    BY <1>1 DEF Polling, PlayAsked, Sampled, ScratchAsked, Going, InStep
  <1>3. PositionTypeOK' /\ OutBehind'
    BY <1>0, <1>1 DEF PositionTypeOK, OutBehind
  <1>4. Aligned' /\ Asking' /\ Modes'
    BY <1>0, <1>1, <1>2 DEF Aligned, Asking, Modes
  <1>5. Feeding' /\ HeldAim'
    BY <1>0, <1>1 DEF Feeding, HeldAim
  <1>6. Released' /\ ScrubAnswer'
    BY <1>0, <1>1, <1>2 DEF Released, ScrubAnswer, ScrubStops, ScrubStopped
  <1>7. SeekShown' /\ PlayAnswer'
    BY <1>0, <1>1, <1>2 DEF SeekShown, PlayAnswer, SeekAhead, SeekHeard
  <1>8. AnswerGoing'
    BY <1>0, <1>1, <1>2 DEF AnswerGoing
  <1>9. AnswerStill'
    BY <1>0, <1>1, <1>2 DEF AnswerStill, AnswerTrue, AnswerOld
  <1>10. Unsampled' /\ ContentRight' /\ ShowsRight'
    BY <1>0, <1>1, <1>2 DEF Unsampled, ContentRight, ShowsRight
  <1> QED BY <1>3, <1>4, <1>5, <1>6, <1>7, <1>8, <1>9, <1>10 DEF PosInv

\* Where a deck is shown is a number.
LEMMA DeckTimeType == PositionTypeOK => DeckTime \in Int
  <1> SUFFICES ASSUME PositionTypeOK PROVE DeckTime \in Int
    OBVIOUS
  <1>1. Places \subseteq Int /\ 0 \in Int
    BY PosRulesHold DEF PosRules
  <1> QED BY <1>1, PositionFields DEF DeckTime

\* The hand takes the deck where it is shown.
LEMMA GrabsKeep == PosInv /\ Grabs => PosInv'
  <1> SUFFICES ASSUME PosInv, Grabs PROVE PosInv'
    OBVIOUS
  <1>0. PositionTypeOK /\ Modes
    BY DEF PosInv
  <1>1. /\ hand.target = NoPlace /\ hand = AtRest
        /\ hand' = [target |-> DeckTime, due |-> NoPlace, silent |-> screen.playing, moved |-> FALSE]
    BY <1>0 DEF Grabs, Modes
  <1>2. DeckTime \in Int /\ DeckTime # NoPlace /\ screen.playing \in BOOLEAN
    BY <1>0, DeckTimeType, PositionFields, PosRulesHold DEF PosRules
  <1>3. hand' \in GripRec /\ hand'.target = DeckTime /\ hand'.due = NoPlace /\ ~hand'.moved /\ hand'.silent = screen.playing
    BY <1>1, <1>2 DEF GripRec, MaybePlace
  <1>4. ~Scrubbed /\ Calm /\ ~InHand /\ ~InHand'
    BY <1>1, <1>3 DEF Scrubbed, Calm, InHand
  <1> QED BY <1>2, <1>3, <1>4, GrabKeeps DEF Grabs

\* A hand that moves changes only where it is.
LEMMA DragsKeep == ASSUME NEW p \in Spots PROVE PosInv /\ Drags(p) => PosInv'
  <1> SUFFICES ASSUME PosInv, Drags(p) PROVE PosInv'
    OBVIOUS
  <1>0. PositionTypeOK /\ Modes
    BY DEF PosInv
  <1>1. p \in Int /\ p # NoPlace /\ p \in Places
    BY PosRulesHold DEF PosRules
  <1>2. /\ hand' \in GripRec /\ hand'.target = p /\ hand'.due = p /\ hand'.moved /\ hand'.silent = hand.silent
        /\ hand.target # NoPlace /\ hand.moved \in BOOLEAN
    BY <1>0, <1>1 DEF Drags, PositionTypeOK, GripRec, MaybePlace
  <1>3. hand'.silent = screen.playing
    BY <1>0, <1>2 DEF Modes
  <1>4. ~Scrubbed' => ~Scrubbed
    BY <1>1, <1>2 DEF Scrubbed
  <1>5. Calm' => Calm
    BY <1>2, <1>4 DEF Calm
  <1>6. InHand => InHand'
    BY <1>1, <1>2 DEF InHand, Scrubbed
  <1> QED BY <1>1, <1>2, <1>3, <1>4, <1>5, <1>6, GrabKeeps DEF Drags

\* A cue is a seek.
LEMMA JumpsKeep == ASSUME Mishaps = {}, NEW p \in Spots PROVE PosInv /\ Jumps(p) => PosInv'
  <1> SUFFICES ASSUME PosInv, Jumps(p) PROVE PosInv'
    OBVIOUS
  <1>0. PositionTypeOK /\ Modes
    BY DEF PosInv
  <1>1. hand = AtRest /\ hand' = hand /\ hand.target = NoPlace
    BY <1>0 DEF Jumps, Modes
  <1>2. ~hand.moved /\ hand.due = NoPlace
    BY <1>1 DEF AtRest
  <1>3. hand' \in GripRec
    BY <1>0, <1>1 DEF PositionTypeOK
  <1>4. ~Scrubbed'
    BY <1>1 DEF Scrubbed
  <1> QED BY <1>1, <1>2, <1>3, <1>4, SeeksKeep DEF Jumps

\* A hand at rest.
LEMMA RestFacts ==
  /\ AtRest \in GripRec /\ AtRest.target = NoPlace /\ AtRest.due = NoPlace /\ ~AtRest.moved /\ ~AtRest.silent
  BY DEF AtRest, GripRec, MaybePlace

\* So is a press that has not moved.
LEMMA ClicksKeep == ASSUME Mishaps = {}, NEW p \in Spots PROVE PosInv /\ Clicks(p) => PosInv'
  <1> SUFFICES ASSUME PosInv, Clicks(p) PROVE PosInv'
    OBVIOUS
  <1>1. hand' = AtRest /\ ~hand.moved
    BY DEF Clicks
  <1>2. ~Scrubbed'
    BY <1>1, RestFacts DEF Scrubbed
  <1> QED BY <1>1, <1>2, RestFacts, SeeksKeep DEF Clicks

\* Of a hand on a deck that plays the frame seeks; of one that scratches, it moves the feeder.
LEMMA FlushesKeep == ASSUME Mishaps = {} PROVE PosInv /\ Flushes => PosInv'
  <1> SUFFICES ASSUME PosInv, Flushes PROVE PosInv'
    OBVIOUS
  <1> DEFINE e == [op |-> "scratch", place |-> hand.due]
  <1>0. /\ PositionTypeOK /\ OutBehind /\ Aligned /\ Asking /\ Modes /\ Feeding /\ HeldAim /\ Released
        /\ ScrubAnswer /\ SeekShown /\ PlayAnswer /\ AnswerGoing /\ AnswerStill /\ Unsampled
        /\ ContentRight /\ ShowsRight
    BY DEF PosInv
  <1>1. /\ hand.due # NoPlace /\ hand' = [hand EXCEPT !.due = NoPlace] /\ audio' = audio /\ known' = known
        /\ \/ ~hand.silent /\ errands' = Append(errands, e) /\ screen' = screen
           \/ hand.silent /\ Seeks(hand.due)
           \/ hand.silent /\ screen' = screen /\ errands' = errands
    BY DEF Flushes, Sends
  <1>2. /\ hand' \in GripRec /\ hand'.target = hand.target /\ hand'.due = NoPlace
        /\ hand'.moved = hand.moved /\ hand'.silent = hand.silent
    BY <1>0, <1>1 DEF PositionTypeOK, GripRec, MaybePlace
  <1>3. /\ hand.due \in Spots /\ hand.moved /\ hand.due = hand.target /\ hand.target \in Spots
        /\ hand.target # NoPlace /\ hand.silent = screen.playing
    BY <1>0, <1>1, RestFacts DEF Aligned, Modes
  <1>4. Scrubbed' = Scrubbed /\ (hand.silent => ~Scrubbed /\ ~InHand /\ ~InHand' /\ Calm)
    BY <1>2 DEF Scrubbed, InHand, Calm
  <1>5. CASE hand.silent /\ Seeks(hand.due)
    BY <1>1, <1>2, <1>3, <1>4, <1>5, SeeksKeep
  <1>6. CASE hand.silent /\ screen' = screen /\ errands' = errands
    BY <1>1, <1>2, <1>3, <1>4, <1>6, GrabKeeps
  <1>7. CASE ~hand.silent /\ errands' = Append(errands, e) /\ screen' = screen
    <2>1. e \in Errand /\ e.op = "scratch" /\ e.place = hand.due
      BY <1>3, PosRulesHold DEF PosRules, Errand, MaybePlace
    <2> HIDE DEF e
    <2>2. /\ errands' \in Seq(Errand) /\ Len(errands') = Len(errands) + 1 /\ Len(errands) \in Nat
          /\ errands \in Seq(Errand)
      BY <1>0, <1>7, <2>1, Appended, PositionFields
    <2>3. InHand /\ InHand' /\ Scrubbed /\ ~Calm' /\ ~screen.playing
      <3>1. Scrubbed
        BY <1>3, <1>7 DEF Scrubbed
      <3> QED BY <1>2, <1>3, <1>4, <1>7, <3>1 DEF InHand, Calm
    <2>4. Polling' = Polling /\ PlayAsked' = PlayAsked /\ Sampled' = Sampled
      BY <1>7 DEF Polling, PlayAsked, Sampled
    <2>5. PositionTypeOK' /\ OutBehind'
      BY <1>0, <1>1, <1>2, <1>7, <2>2 DEF PositionTypeOK, OutBehind
    <2>6. Aligned'
      <3>1. SpotsOnly(errands')
        BY <1>0, <1>3, <1>7, <2>1, <2>2, AppendKinds DEF Aligned
      <3> QED BY <1>0, <1>1, <1>2, <1>7, <3>1 DEF Aligned
    <2>7. Asking'
      <3>1. AsksOnce(errands') /\ (Has(errands', "ask") <=> Has(errands, "ask"))
        BY <1>0, <1>7, <2>1, <2>2, AppendKinds DEF Asking
      <3> QED BY <1>0, <2>4, <3>1 DEF Asking
    <2>8. Modes'
      BY <1>0, <1>1, <1>2, <1>3, <1>7, <2>3, <2>4 DEF Modes
    <2>9. Feeding'
      <3>1. StopsFirst(errands) => StopsFirst(errands')
        BY <1>7, <2>1, <2>2, AppendScratches
      <3>2. ScratchesGoOn(errands')
        BY <1>0, <1>7, <2>1, <2>2, AppendScratches DEF Feeding
      <3>3. Has(errands', "seek") <=> Has(errands, "seek")
        BY <1>7, <2>1, <2>2, AppendKinds
      <3> QED BY <1>0, <1>1, <2>3, <3>1, <3>2, <3>3 DEF Feeding
    <2>10. HeldAim'
      <3>1. FedAt(errands', audio, Len(errands') + 1, hand.due)
        BY <1>7, <2>1, <2>2, AppendScratches
      <3> QED BY <1>1, <1>2, <1>3, <3>1 DEF HeldAim
    <2>11. Released' /\ ScrubAnswer'
      BY <1>4, <2>3 DEF Released, ScrubAnswer
    <2>12. SeekShown' /\ PlayAnswer' /\ AnswerGoing' /\ AnswerStill' /\ ShowsRight'
      BY <2>3 DEF SeekShown, PlayAnswer, AnswerGoing, AnswerStill, ShowsRight
    <2>13. Unsampled'
      <3> SUFFICES ASSUME PlayAsked, NEW i \in 1..Len(errands'), NEW j \in 1..Len(errands'), Behind(errands', i, j)
                   PROVE  screen.sought # NoPlace /\ Alone(errands', audio.landing, j, AfterJump(screen, audio.out))
        BY <1>1, <1>7, <2>4 DEF Unsampled
      <3>1. i \in 1..Len(errands) /\ j \in 1..Len(errands) /\ Behind(errands, i, j)
        BY <1>7, <2>1, <2>2, AppendSeeks
      <3>2. screen.sought # NoPlace /\ Alone(errands, audio.landing, j, AfterJump(screen, audio.out))
        BY <1>0, <3>1 DEF Unsampled
      <3>3. e.op # "seek"
        BY <2>1
      <3>4. Alone(Append(errands, e), audio.landing, j, AfterJump(screen, audio.out))
        BY <2>1, <2>2, <3>1, <3>2, <3>3, AppendSeeks
      <3> QED BY <1>7, <3>2, <3>4
    <2>14. ContentRight'
      BY <1>7, <2>3 DEF ContentRight
    <2> QED BY <2>5, <2>6, <2>7, <2>8, <2>9, <2>10, <2>11, <2>12, <2>13, <2>14 DEF PosInv
  <1> QED BY <1>1, <1>5, <1>6, <1>7

\* The hand lets go: the page takes its word, and the stop is on its way.
LEMMA ReleasesKeep == ASSUME Mishaps = {} PROVE PosInv /\ Releases => PosInv'
  <1> SUFFICES ASSUME PosInv, Releases PROVE PosInv'
    OBVIOUS
  <1> DEFINE e == [op |-> "stop", place |-> NoPlace]
  <1>0. /\ PositionTypeOK /\ OutBehind /\ Aligned /\ Asking /\ Modes /\ Feeding /\ HeldAim /\ Released
        /\ ScrubAnswer /\ SeekShown /\ PlayAnswer /\ AnswerGoing /\ AnswerStill /\ Unsampled
        /\ ContentRight /\ ShowsRight
    BY DEF PosInv
  <1>1. /\ hand.target # NoPlace /\ hand.moved /\ hand.due = NoPlace /\ hand' = AtRest
        /\ audio' = audio /\ known' = known /\ (~hand.silent => Heard)
        /\ \/ hand.silent /\ Seeks(hand.target)
           \/ ~hand.silent /\ screen' = [screen EXCEPT !.shown = hand.target] /\ errands' = Append(errands, e)
    BY DEF Releases, Sends
  <1>2. hand.target \in Spots /\ hand.silent = screen.playing
    BY <1>0, <1>1 DEF Aligned, Modes
  <1>3. ~Scrubbed' /\ ~InHand' /\ Calm'
    BY <1>1, RestFacts DEF Scrubbed, InHand, Calm
  <1>4. CASE hand.silent /\ Seeks(hand.target)
    <2>1. ~Scrubbed
      BY <1>4 DEF Scrubbed
    <2> QED BY <1>1, <1>2, <1>3, <1>4, <2>1, RestFacts, SeeksKeep
  <1>5. CASE ~hand.silent /\ screen' = [screen EXCEPT !.shown = hand.target] /\ errands' = Append(errands, e)
    <2>1. e \in Errand /\ e.op = "stop"
      BY DEF Errand, MaybePlace
    <2> HIDE DEF e
    <2>2. /\ errands' \in Seq(Errand) /\ Len(errands') = Len(errands) + 1 /\ Len(errands) \in Nat
          /\ errands \in Seq(Errand)
      BY <1>0, <1>5, <2>1, Appended, PositionFields
    <2>3. hand.target \in Int /\ hand.target # NoPlace
      <3>1. hand.target \in Nat
        BY <1>2, PosRulesHold DEF PosRules
      <3> QED BY <1>1, <3>1
    <2>4. /\ screen' \in ScreenRec /\ screen'.shown = hand.target /\ screen'.playing = screen.playing
          /\ screen'.rate = screen.rate /\ screen'.sought = screen.sought /\ screen'.track = screen.track
          /\ screen'.asked = screen.asked
      BY <1>0, <1>5, <2>3 DEF PositionTypeOK, ScreenRec
    <2>5. InHand /\ Scrubbed /\ ~screen.playing /\ Heard
      BY <1>1, <1>2, <1>5 DEF InHand, Scrubbed
    <2>6. /\ Polling' = Polling /\ PlayAsked' = PlayAsked /\ Sampled' = Sampled /\ ScratchAsked' = ScratchAsked
          /\ ~PlayAsked
      BY <2>4, <2>5 DEF Polling, PlayAsked, Sampled, ScratchAsked, Heard
    <2>7. StopsLast(errands') /\ Has(errands', "stop")
      BY <1>5, <2>1, <2>2, AppendKinds
    <2>8. PositionTypeOK' /\ OutBehind'
      BY <1>0, <1>1, <2>2, <2>4, RestFacts DEF PositionTypeOK, OutBehind
    <2>9. Aligned'
      <3>1. SpotsOnly(errands')
        BY <1>0, <1>5, <2>1, <2>2, AppendKinds DEF Aligned
      <3> QED BY <1>0, <1>1, <2>4, <3>1, RestFacts DEF Aligned
    <2>10. Asking'
      <3>1. AsksOnce(errands') /\ (Has(errands', "ask") <=> Has(errands, "ask"))
        BY <1>0, <1>5, <2>1, <2>2, AppendKinds DEF Asking
      <3> QED BY <1>0, <2>6, <3>1 DEF Asking
    <2>11. Modes'
      BY <1>0, <1>1, <2>4, <2>5, <2>6, RestFacts DEF Modes
    <2>12. Feeding'
      <3>1. StopsFirst(errands) => StopsFirst(errands')
        BY <1>5, <2>1, <2>2, AppendScratches
      <3>2. ~Has(errands, "seek") => StopsFirst(errands')
        BY <1>5, <2>1, <2>2, AppendScratches
      <3>3. ScratchesEnd(errands')
        BY <1>0, <1>5, <2>1, <2>2, AppendScratches DEF Feeding
      <3>4. ScratchesGoOn(errands')
        BY <2>2, <3>3, QueueFacts
      <3> QED BY <1>0, <1>1, <1>3, <3>1, <3>2, <3>3, <3>4 DEF Feeding
    <2>13. HeldAim'
      BY <1>3 DEF HeldAim
    <2>14. FedAt(errands, audio, Len(errands) + 1, hand.target)
      BY <1>0, <1>1, <2>5 DEF HeldAim
    <2>15. Released'
      <3>1. FedAt(errands', audio, Len(errands'), hand.target)
        BY <1>5, <2>1, <2>2, <2>14, AppendScratches
      <3> QED BY <1>1, <2>3, <2>4, <2>7, <3>1 DEF Released
    <2>16. ScrubAnswer'
      <3> SUFFICES ASSUME ScratchAsked PROVE audio.landing = NoPlace /\ screen'.shown # NoPlace /\ ScrubStops'
        BY <1>1, <2>6 DEF ScrubAnswer
      <3>1. ~Has(errands, "scratch")
        BY <2>2, <2>5 DEF ScratchAsked, Heard, Has
      <3>2. OnlyAsks(errands) /\ audio.feeder = hand.target /\ audio.landing = NoPlace
        BY <2>2, <2>14, <3>1, FedNow
      <3>3. AsksThenOne(errands')
        BY <1>5, <2>1, <2>2, <3>2, AppendScratches
      <3>4. Sampled => screen.asked.pos = hand.target
        BY <2>5 DEF Heard, Sampled, Polling
      <3> QED BY <1>1, <2>3, <2>4, <2>6, <2>7, <3>2, <3>3, <3>4 DEF ScrubStops
    <2>17. SeekShown' /\ PlayAnswer' /\ AnswerGoing' /\ AnswerStill' /\ ShowsRight'
      BY <2>6, <2>7 DEF SeekShown, PlayAnswer, AnswerGoing, AnswerStill, ShowsRight
    <2>18. Unsampled' /\ ContentRight'
      BY <2>4, <2>5, <2>6 DEF Unsampled, ContentRight
    <2> QED BY <2>8, <2>9, <2>10, <2>11, <2>12, <2>13, <2>15, <2>16, <2>17, <2>18 DEF PosInv
  <1> QED BY <1>1, <1>4, <1>5

\* One request is out, and it is sampled after what is on its way.
LEMMA AsksKeep == PosInv /\ Asks => PosInv'
  <1> SUFFICES ASSUME PosInv, Asks PROVE PosInv'
    OBVIOUS
  <1> DEFINE e == [op |-> "ask", place |-> NoPlace]
             a == [scrub |-> Scrubbed, pos |-> NoPlace, truth |-> NoPlace]
  <1>0. /\ PositionTypeOK /\ OutBehind /\ Aligned /\ Asking /\ Modes /\ Feeding /\ HeldAim /\ Released
        /\ ScrubAnswer /\ SeekShown /\ PlayAnswer /\ AnswerGoing /\ AnswerStill /\ Unsampled
        /\ ContentRight /\ ShowsRight
    BY DEF PosInv
  <1>1. /\ (screen.playing \/ Scrubbed) /\ screen.asked = NoPlace
        /\ screen' = [screen EXCEPT !.asked = a] /\ errands' = Append(errands, e)
        /\ audio' = audio /\ hand' = hand /\ known' = known
    BY DEF Asks, Sends
  <1>2. e \in Errand /\ e.op = "ask"
    BY DEF Errand, MaybePlace
  <1>3. a \in [scrub : BOOLEAN, pos : MaybePlace, truth : MaybePlace] /\ a.pos = NoPlace /\ (a.scrub <=> Scrubbed)
    BY DEF Scrubbed, MaybePlace
  <1> HIDE DEF a, e
  <1>4. /\ screen' \in ScreenRec /\ screen'.asked = a /\ a # NoPlace
        /\ screen'.shown = screen.shown /\ screen'.playing = screen.playing
        /\ screen'.rate = screen.rate /\ screen'.sought = screen.sought /\ screen'.track = screen.track
    BY <1>0, <1>1, <1>3, NoPlaceAssumption DEF PositionTypeOK, ScreenRec
  <1>5. /\ errands' \in Seq(Errand) /\ Len(errands') = Len(errands) + 1 /\ Len(errands) \in Nat
        /\ errands \in Seq(Errand)
    BY <1>0, <1>1, <1>2, Appended, PositionFields
  <1>6. Scrubbed' = Scrubbed /\ InHand' = InHand
    BY <1>1 DEF Scrubbed, InHand
  <1>7. Polling' /\ ~Polling /\ ~Sampled' /\ (PlayAsked' <=> ~Scrubbed) /\ (ScratchAsked' <=> Scrubbed)
    BY <1>1, <1>3, <1>4 DEF Polling, PlayAsked, Sampled, ScratchAsked
  <1>8. ~Scrubbed => screen.playing /\ OnlyMoves(errands) /\ audio.feeder = NoPlace
    BY <1>0, <1>1 DEF Modes
  <1>9. Calm' => ~Scrubbed /\ Calm
    BY <1>6, <1>7 DEF Calm
  <1>10. ~Has(errands, "ask")
    BY <1>0, <1>7 DEF Asking
  <1>11. /\ Has(errands', "seek") <=> Has(errands, "seek")
         /\ Has(errands', "stop") <=> Has(errands, "stop")
         /\ OnlyMoves(errands) => OnlyMoves(errands')
         /\ Has(errands', "ask") /\ AsksOnce(errands')
    BY <1>0, <1>1, <1>2, <1>5, <1>10, AppendKinds DEF Asking
  <1>12. Going' = Going
    BY <1>1, <1>11 DEF Going
  <1>13. /\ \A x : AfterJump(screen', x) = AfterJump(screen, x)
         /\ \A q, l : LandAll(q, l, screen') <=> LandAll(q, l, screen)
    BY <1>4, SameContent
  <1>14. PositionTypeOK' /\ OutBehind'
    BY <1>0, <1>1, <1>4, <1>5 DEF PositionTypeOK, OutBehind
  <1>15. Aligned'
    <2>1. SpotsOnly(errands')
      BY <1>0, <1>1, <1>2, <1>5, AppendKinds DEF Aligned
    <2> QED BY <1>0, <1>1, <1>4, <2>1 DEF Aligned
  <1>16. Asking'
    BY <1>7, <1>11 DEF Asking
  <1>17. Modes'
    BY <1>0, <1>1, <1>4, <1>7, <1>8, <1>11 DEF Modes
  <1>18. Feeding'
    <2>1. /\ StopsFirst(errands) => StopsFirst(errands')
          /\ ScratchesGoOn(errands) => ScratchesGoOn(errands')
          /\ ScratchesEnd(errands) => ScratchesEnd(errands')
      BY <1>1, <1>2, <1>5, AppendScratches
    <2> QED BY <1>0, <1>1, <1>6, <1>11, <2>1 DEF Feeding
  <1>19. HeldAim'
    <2>1. ASSUME FedAt(errands, audio, Len(errands) + 1, hand.target)
          PROVE  FedAt(errands', audio, Len(errands') + 1, hand.target)
      BY <1>1, <1>2, <1>5, <2>1, AppendScratches
    <2> QED BY <1>0, <1>1, <1>6, <2>1 DEF HeldAim
  <1>20. Released' /\ ScrubAnswer'
    <2>1. ~Scrubbed => ~Has(errands, "stop")
      BY <1>5, <1>8, QueueFacts
    <2> QED BY <1>6, <1>7, <1>11, <2>1 DEF Released, ScrubAnswer
  <1>21. SeekShown'
    <2> SUFFICES ASSUME Calm', Going PROVE SeekAhead' \/ SeekHeard'
      BY <1>12 DEF SeekShown
    <2>1. SeekAhead \/ SeekHeard
      <3>1. ~StopsLast(errands)
        BY <1>5, <1>8, <1>9, QueueFacts
      <3> QED BY <1>0, <1>9, <3>1 DEF SeekShown
    <2>2. CASE SeekAhead
      <3>1. LastGo(errands', audio.landing, screen.sought.place)
        BY <1>1, <1>2, <1>5, <2>2, AppendSeeks DEF SeekAhead
      <3> QED BY <1>1, <1>4, <2>2, <3>1 DEF SeekAhead
    <2>3. CASE SeekHeard
      <3>1. AllGo(errands', audio.landing, screen.shown)
        BY <1>1, <1>2, <1>5, <2>3, AppendSeeks DEF SeekHeard
      <3> QED BY <1>1, <1>4, <1>11, <2>3, <3>1 DEF SeekHeard
    <2> QED BY <2>1, <2>2, <2>3
  <1>22. PlayAnswer' /\ AnswerGoing' /\ AnswerStill'
    BY <1>1, <1>7, <1>8, <1>11 DEF PlayAnswer, AnswerGoing, AnswerStill
  <1>23. Unsampled'
    <2>1. \A i, j \in 1..Len(errands') : Behind(errands', i, j) => i \in 1..Len(errands) /\ Behind(errands, i, j)
      BY <1>1, <1>2, <1>5, AppendSeeks
    <2>2. \A i, j \in 1..Len(errands') : ~Behind(errands', i, j)
      BY <1>10, <2>1 DEF Behind, Has
    <2> QED BY <2>2 DEF Unsampled
  <1>24. ContentRight'
    <2>1. LandAll(errands, audio.landing, screen) => LandAll(errands', audio.landing, screen)
      BY <1>1, <1>2, <1>5, AppendSeeks
    <2> QED BY <1>0, <1>1, <1>4, <1>12, <1>13, <2>1 DEF ContentRight
  <1>25. ShowsRight'
    BY <1>0, <1>1, <1>4, <1>9, <1>11, <1>12 DEF ShowsRight
  <1> QED BY <1>14, <1>15, <1>16, <1>17, <1>18, <1>19, <1>20, <1>21, <1>22, <1>23, <1>24, <1>25 DEF PosInv

\* Nothing is shown at first.
LEMMA InitKeeps == PositionInit => PosInv
  <1> SUFFICES ASSUME PositionInit PROVE PosInv
    OBVIOUS
  <1>1. /\ audio = [out |-> 0, at |-> 0, moving |-> FALSE, feeder |-> NoPlace,
                    rested |-> NoPlace, landed |-> NoPlace, landing |-> NoPlace]
        /\ screen = [playing |-> FALSE, rate |-> 1, shown |-> NoPlace, sought |-> NoPlace,
                     track |-> NoPlace, asked |-> NoPlace]
        /\ hand = AtRest /\ errands = << >> /\ known = NoPlace
    BY DEF PositionInit
  <1>2. errands \in Seq(Errand) /\ (\A op : ~Has(errands, op)) /\ Len(errands) = 0
    BY <1>1 DEF Has
  <1>3. PositionTypeOK
    BY <1>1, <1>2, PosRulesHold, PositionAssumption, RestFacts
       DEF PosRules, PositionTypeOK, AudioRec, ScreenRec, MaybePlace
  <1>4. ~Polling /\ ~PlayAsked /\ ~ScratchAsked /\ ~Scrubbed /\ ~InHand /\ ~Going
    BY <1>1, <1>2, RestFacts DEF Polling, PlayAsked, ScratchAsked, Scrubbed, InHand, Going
  <1>5. OutBehind
    BY <1>1, PosRulesHold DEF OutBehind, PosRules
  <1>6. Aligned /\ Asking /\ Modes
    BY <1>1, <1>2, <1>4, RestFacts DEF Aligned, Asking, Modes, SpotsOnly, AsksOnce
  <1>7. Feeding /\ HeldAim /\ Released
    BY <1>1, <1>2, <1>4 DEF Feeding, HeldAim, Released, ScratchesGoOn, ScratchesEnd
  <1>8. ScrubAnswer /\ SeekShown /\ PlayAnswer /\ AnswerGoing /\ AnswerStill /\ Unsampled
    BY <1>4 DEF ScrubAnswer, SeekShown, PlayAnswer, AnswerGoing, AnswerStill, Unsampled
  <1>9. ContentRight /\ ShowsRight
    BY <1>1 DEF ContentRight, ShowsRight
  <1> QED BY <1>3, <1>5, <1>6, <1>7, <1>8, <1>9 DEF PosInv

\* Another file is at its start, and nothing that was sought is to come.
LEMMA LoadsKeep == ASSUME Mishaps = {} PROVE PosInv /\ LoadsTrack => PosInv'
  <1> SUFFICES ASSUME PosInv, LoadsTrack PROVE PosInv'
    OBVIOUS
  <1>0. /\ PositionTypeOK /\ OutBehind /\ Aligned /\ Asking /\ Modes /\ Feeding /\ HeldAim /\ Released
    BY DEF PosInv
  <1>1. /\ hand.target = NoPlace /\ ~Seeking /\ screen.asked = NoPlace /\ screen.sought = NoPlace
        /\ audio' = [out |-> 0, at |-> 0, moving |-> FALSE, feeder |-> NoPlace,
                 rested |-> NoPlace, landed |-> NoPlace, landing |-> NoPlace]
        /\ screen' = [screen EXCEPT !.playing = FALSE, !.shown = NoPlace, !.track = NoPlace]
        /\ known' = NoPlace /\ hand' = hand /\ errands' = errands
    BY DEF LoadsTrack, Unknown
  <1>2. /\ audio' \in AudioRec /\ audio'.out = 0 /\ audio'.at = 0 /\ ~audio'.moving /\ audio'.feeder = NoPlace
        /\ audio'.rested = NoPlace /\ audio'.landed = NoPlace /\ audio'.landing = NoPlace /\ audio'.moving = FALSE
    BY <1>1, PosRulesHold DEF PosRules, AudioRec, MaybePlace
  <1>3. /\ screen' \in ScreenRec /\ screen'.playing = FALSE /\ screen'.shown = NoPlace /\ screen'.track = NoPlace
        /\ screen'.rate = screen.rate /\ screen'.sought = NoPlace /\ screen'.asked = NoPlace
    BY <1>0, <1>1 DEF PositionTypeOK, ScreenRec
  <1>4. ~Going /\ ~Going'
    BY <1>0, <1>1, <1>2, InTheseTerms DEF Going
  <1>5. /\ ~Polling /\ ~Polling' /\ ~PlayAsked' /\ ~ScratchAsked' /\ ~Scrubbed /\ ~Scrubbed' /\ ~InHand /\ ~InHand'
        /\ ~Sampled' /\ ~Sampled
    BY <1>1, <1>3 DEF Polling, PlayAsked, ScratchAsked, Scrubbed, InHand, Sampled
  <1>6. PositionTypeOK' /\ OutBehind'
    BY <1>0, <1>1, <1>2, <1>3 DEF PositionTypeOK, OutBehind, MaybePlace
  <1>7. Aligned' /\ Asking'
    BY <1>0, <1>1, <1>2, <1>5 DEF Aligned, Asking
  <1>8. Modes'
    BY <1>0, <1>1, <1>2, <1>3, <1>5 DEF Modes
  <1>9. Feeding' /\ HeldAim'
    BY <1>0, <1>1, <1>2, <1>5 DEF Feeding, HeldAim
  <1>10. Released'
    BY <1>0, <1>1, <1>3, <1>4, <1>5 DEF Released
  <1>11. ScrubAnswer' /\ SeekShown' /\ PlayAnswer' /\ AnswerGoing' /\ AnswerStill' /\ Unsampled'
    BY <1>4, <1>5 DEF ScrubAnswer, SeekShown, PlayAnswer, AnswerGoing, AnswerStill, Unsampled
  <1>12. ContentRight' /\ ShowsRight'
    BY <1>3 DEF ContentRight, ShowsRight
  <1> QED BY <1>6, <1>7, <1>8, <1>9, <1>10, <1>11, <1>12 DEF PosInv

\* A deck that plays on is where the page would tell it is.
LEMMA PlaysKeep == ASSUME Mishaps = {} PROVE PosInv /\ PlaysOrPauses => PosInv'
  <1> SUFFICES ASSUME PosInv, PlaysOrPauses PROVE PosInv'
    OBVIOUS
  <1>0. /\ PositionTypeOK /\ OutBehind /\ Aligned /\ Asking /\ Modes /\ Feeding /\ HeldAim /\ Released
        /\ ScrubAnswer /\ SeekShown /\ PlayAnswer /\ AnswerGoing /\ AnswerStill /\ Unsampled
        /\ ContentRight /\ ShowsRight
    BY DEF PosInv
  <1>1. /\ hand.target = NoPlace /\ errands = << >> /\ (screen.playing \/ Recognised)
        /\ screen' = [screen EXCEPT !.playing = ~screen.playing]
        /\ audio' = [audio EXCEPT !.moving = ~screen.playing,
                              !.rested = IF screen.playing THEN audio.rested ELSE NoPlace]
        /\ hand' = hand /\ errands' = errands /\ known' = known
    BY <1>0 DEF PlaysOrPauses, PositionTypeOK, ScreenRec, AudioRec
  <1>2. /\ screen' \in ScreenRec /\ screen'.playing = ~screen.playing /\ screen'.shown = screen.shown
        /\ screen'.rate = screen.rate /\ screen'.sought = screen.sought /\ screen'.track = screen.track
        /\ screen'.asked = screen.asked /\ screen.playing \in BOOLEAN
    BY <1>0, <1>1 DEF PositionTypeOK, ScreenRec
  <1>3. /\ audio' \in AudioRec /\ audio'.out = audio.out /\ audio'.at = audio.at /\ audio'.moving = ~screen.playing
        /\ audio'.feeder = audio.feeder /\ audio'.landed = audio.landed /\ audio'.landing = audio.landing
        /\ (~screen.playing => audio'.rested = NoPlace)
    <2> DEFINE m == ~screen.playing
               r == IF screen.playing THEN audio.rested ELSE NoPlace
    <2>1. audio \in AudioRec /\ m \in BOOLEAN /\ r \in MaybePlace /\ (~screen.playing => r = NoPlace)
      BY <1>0, <1>2 DEF PositionTypeOK, AudioRec, MaybePlace
    <2>2. audio' = [audio EXCEPT !.moving = m, !.rested = r] /\ m = ~screen.playing
      BY <1>1
    <2> HIDE DEF m, r
    <2> QED BY <2>1, <2>2 DEF AudioRec
  <1>4. /\ Polling' = Polling /\ PlayAsked' = PlayAsked /\ Sampled' = Sampled /\ ScratchAsked' = ScratchAsked
        /\ Going' = Going /\ InStep' = InStep /\ Scrubbed' = Scrubbed /\ InHand' = InHand /\ Calm' = Calm
    BY <1>1, <1>2, <1>3 DEF Polling, PlayAsked, Sampled, ScratchAsked, Going, InStep, Scrubbed, InHand, Calm
  <1>5. ~Scrubbed /\ ~InHand
    BY <1>1 DEF Scrubbed, InHand
  <1>6. errands \in Seq(Errand) /\ (\A op : ~Has(errands, op)) /\ OnlyMoves(errands) /\ ~StopsLast(errands)
    BY <1>1 DEF Has, OnlyMoves, StopsLast
  <1>7. audio.feeder = NoPlace
    BY <1>0, <1>5, <1>6, QueueFacts DEF Feeding
  <1>8. /\ \A x : AfterJump(screen', x) = AfterJump(screen, x)
        /\ \A p : Lands(screen', p) <=> Lands(screen, p)
        /\ \A q, l : LandAll(q, l, screen') <=> LandAll(q, l, screen)
    BY <1>2, SameContent
  <1>9. PositionTypeOK' /\ OutBehind'
    BY <1>0, <1>1, <1>2, <1>3 DEF PositionTypeOK, OutBehind
  <1>10. Aligned' /\ Asking'
    BY <1>0, <1>1, <1>2, <1>3, <1>4 DEF Aligned, Asking
  <1>11. Modes'
    <2>1. PlayAsked => Sampled
      BY <1>0, <1>6 DEF Asking, PlayAsked
    <2> QED BY <1>0, <1>1, <1>2, <1>3, <1>4, <1>6, <1>7, <2>1 DEF Modes
  <1>12. Feeding' /\ HeldAim' /\ Released'
    BY <1>0, <1>1, <1>3, <1>4, <1>5, <1>6, <1>7 DEF Feeding, HeldAim, Released
  <1>13. ScrubAnswer'
    <2>1. screen'.playing => audio.at = Up(audio.out, screen.rate)
      BY <1>0, <1>1, <1>2, InTheseTerms DEF Recognised
    <2> QED BY <1>0, <1>1, <1>2, <1>3, <1>4, <1>6, <2>1 DEF ScrubAnswer, ScrubStops, ScrubStopped
  <1>14. SeekShown' /\ PlayAnswer'
    BY <1>0, <1>1, <1>2, <1>3, <1>4 DEF SeekShown, SeekAhead, SeekHeard, PlayAnswer
  <1>15. AnswerGoing'
    BY <1>0, <1>1, <1>2, <1>3, <1>4, <1>8 DEF AnswerGoing
  <1>16. AnswerStill'
    BY <1>0, <1>1, <1>2, <1>3, <1>4, <1>8 DEF AnswerStill, AnswerTrue, AnswerOld
  <1>17. Unsampled'
    BY <1>1 DEF Unsampled
  <1>18. ContentRight'
    <2>1. screen'.playing => Recognised
      BY <1>1, <1>2
    <2>2. screen'.playing => AfterJump(screen, audio.out) = audio.at
      BY <1>0, <2>1, InTheseTerms DEF Recognised
    <2>3. screen'.playing /\ audio.landing # NoPlace => Lands(screen, audio.landing.at)
      BY <1>0, <2>1, InTheseTerms DEF Recognised, Lands, Aligned
    <2>4. screen'.playing => LandAll(errands, audio.landing, screen)
      BY <1>6, <2>3 DEF LandAll, Has
    <2> QED BY <1>1, <1>3, <1>4, <1>8, <2>2, <2>4 DEF ContentRight
  <1>19. ShowsRight'
    BY <1>0, <1>1, <1>2, <1>3, <1>4 DEF ShowsRight
  <1> QED BY <1>9, <1>10, <1>11, <1>12, <1>13, <1>14, <1>15, <1>16, <1>17, <1>18, <1>19 DEF PosInv

\* While nothing is sought and what plays is in step, the rate does not matter.
LEMMA TurnsKeep == ASSUME Mishaps = {}, NEW r \in Tempi PROVE PosInv /\ TurnsRate(r) => PosInv'
  <1> SUFFICES ASSUME PosInv, TurnsRate(r) PROVE PosInv'
    OBVIOUS
  <1>0. /\ PositionTypeOK /\ OutBehind /\ Aligned /\ Asking /\ Modes /\ Feeding /\ HeldAim /\ Released
        /\ ScrubAnswer /\ SeekShown /\ PlayAnswer /\ AnswerGoing /\ AnswerStill /\ Unsampled
        /\ ContentRight /\ ShowsRight
    BY DEF PosInv
  <1>1. /\ ~Seeking /\ screen.playing => screen.sought = NoPlace /\ InStep /\ ~ScratchAsked
        /\ ~screen.playing => screen.asked = NoPlace
        /\ screen' = [screen EXCEPT !.rate = r]
        /\ audio' = audio /\ hand' = hand /\ errands' = errands /\ known' = known
    BY DEF TurnsRate
  <1>2. /\ screen' \in ScreenRec /\ screen'.playing = screen.playing /\ screen'.shown = screen.shown
        /\ screen'.rate = r /\ screen'.sought = screen.sought /\ screen'.track = screen.track
        /\ screen'.asked = screen.asked
    BY <1>0, <1>1 DEF PositionTypeOK, ScreenRec
  <1>3. ~Going /\ ~Going' /\ audio.landing = NoPlace /\ ~Has(errands, "seek")
    <2>1. ~Going
      BY <1>0, <1>1, InTheseTerms DEF TurnsRate
    <2> QED BY <1>1, <2>1 DEF Going
  <1>4. /\ Polling' = Polling /\ PlayAsked' = PlayAsked /\ Sampled' = Sampled /\ ScratchAsked' = ScratchAsked
        /\ InStep' = InStep /\ Scrubbed' = Scrubbed /\ InHand' = InHand /\ Calm' = Calm
    BY <1>1, <1>2 DEF Polling, PlayAsked, Sampled, ScratchAsked, InStep, Scrubbed, InHand, Calm
  <1>5. screen.playing => screen.sought = NoPlace /\ InStep /\ ~ScratchAsked
    BY <1>1, <1>3, <1>0, InTheseTerms
  <1>6. ~ScratchAsked /\ (PlayAsked => screen.playing)
    BY <1>1, <1>5 DEF ScratchAsked, PlayAsked, Polling
  <1>7. InStep => AfterJump(screen', audio.out) = AfterJump(screen, audio.out)
    BY <1>2 DEF InStep, AfterJump
  <1>8. PositionTypeOK' /\ OutBehind'
    BY <1>0, <1>1, <1>2 DEF PositionTypeOK, OutBehind
  <1>9. Aligned' /\ Asking' /\ Modes'
    BY <1>0, <1>1, <1>2, <1>3, <1>4 DEF Aligned, Asking, Modes
  <1>10. Feeding' /\ HeldAim' /\ Released'
    BY <1>0, <1>1, <1>2, <1>3, <1>4 DEF Feeding, HeldAim, Released
  <1>11. ScrubAnswer' /\ SeekShown' /\ PlayAnswer' /\ AnswerGoing'
    BY <1>0, <1>1, <1>3, <1>4, <1>6 DEF ScrubAnswer, SeekShown, PlayAnswer, AnswerGoing
  <1>12. AnswerStill'
    <2> SUFFICES ASSUME Calm, PlayAsked, Sampled PROVE AnswerTrue' \/ AnswerOld'
      BY <1>4 DEF AnswerStill
    <2>1. screen.sought = NoPlace /\ InStep
      BY <1>5, <1>6
    <2>2. AnswerTrue \/ AnswerOld
      BY <1>0, <1>3 DEF AnswerStill
    <2>3. screen.asked.pos = audio.out
      BY <2>1, <2>2 DEF AnswerTrue, AnswerOld
    <2>4. AfterJump(screen', screen.asked.pos) = AfterJump(screen, screen.asked.pos)
      BY <1>7, <2>1, <2>3
    <2>5. CASE AnswerTrue
      BY <1>1, <1>2, <2>4, <2>5 DEF AnswerTrue
    <2>6. CASE AnswerOld
      BY <1>1, <1>2, <1>4, <2>1, <2>3, <2>4, <2>6 DEF AnswerOld
    <2> QED BY <2>2, <2>5, <2>6
  <1>13. Unsampled'
    BY <1>1, <1>3 DEF Unsampled, Behind, Has
  <1>14. ContentRight'
    <2>1. LandAll(errands, audio.landing, screen')
      BY <1>3 DEF LandAll, Has
    <2> QED BY <1>0, <1>1, <1>2, <1>3, <1>5, <1>7, <2>1 DEF ContentRight
  <1>15. ShowsRight'
    BY <1>0, <1>1, <1>2, <1>3, <1>4 DEF ShowsRight
  <1> QED BY <1>8, <1>9, <1>10, <1>11, <1>12, <1>13, <1>14, <1>15 DEF PosInv

\* A seek lands where the page says it goes.
LEMMA LandsKeep == PosInv /\ SeekLands => PosInv'
  <1> SUFFICES ASSUME PosInv, SeekLands PROVE PosInv'
    OBVIOUS
  <1>0. /\ PositionTypeOK /\ OutBehind /\ Aligned /\ Asking /\ Modes /\ Feeding /\ HeldAim /\ Released
        /\ ScrubAnswer /\ SeekShown /\ PlayAnswer /\ AnswerGoing /\ AnswerStill /\ Unsampled
        /\ ContentRight /\ ShowsRight
    BY DEF PosInv
  <1>1. /\ audio.landing # NoPlace
        /\ audio' = [audio EXCEPT !.at = audio.landing.at, !.out = audio.landing.out,
                              !.landed = audio.landing.at, !.landing = NoPlace]
        /\ known' = NoPlace /\ hand' = hand /\ errands' = errands
        /\ screen' = IF screen.asked = NoPlace THEN screen ELSE [screen EXCEPT !.asked.truth = NoPlace]
    BY DEF SeekLands
  <1> DEFINE p == audio.landing.at
  <1>2. /\ p \in Spots /\ p \in Places /\ audio.landing.out = Down(p, screen.rate) /\ screen.rate \in Tempi
        /\ audio.landing.out \in Places /\ Down(p, screen.rate) <= p
    BY <1>0, <1>1, PositionFields, DivPlace DEF Aligned
  <1>3. /\ audio' \in AudioRec /\ audio'.out = Down(p, screen.rate) /\ audio'.at = p /\ audio'.landed = p
        /\ audio'.landing = NoPlace /\ audio'.feeder = audio.feeder /\ audio'.rested = audio.rested
        /\ audio'.moving = audio.moving
    BY <1>0, <1>1, <1>2 DEF PositionTypeOK, AudioRec, MaybePlace
  <1> HIDE DEF p
  <1>4. /\ screen' \in ScreenRec /\ screen'.playing = screen.playing /\ screen'.shown = screen.shown
        /\ screen'.rate = screen.rate /\ screen'.sought = screen.sought /\ screen'.track = screen.track
        /\ screen'.asked = NoPlace <=> screen.asked = NoPlace
        /\ screen.asked # NoPlace => /\ screen'.asked.scrub = screen.asked.scrub
                                     /\ screen'.asked.pos = screen.asked.pos
                                     /\ screen'.asked.truth = NoPlace
    <2>1. CASE screen.asked = NoPlace
      BY <1>0, <1>1, <2>1 DEF PositionTypeOK
    <2>2. CASE screen.asked # NoPlace
      <3> DEFINE a == [screen.asked EXCEPT !.truth = NoPlace]
      <3>1. /\ a \in [scrub : BOOLEAN, pos : MaybePlace, truth : MaybePlace]
            /\ a.scrub = screen.asked.scrub /\ a.pos = screen.asked.pos /\ a.truth = NoPlace
        BY <1>0, <2>2 DEF PositionTypeOK, ScreenRec, MaybePlace
      <3>2. screen' = [screen EXCEPT !.asked = a]
        BY <1>0, <1>1, <2>2 DEF PositionTypeOK, ScreenRec
      <3> HIDE DEF a
      <3> QED BY <1>0, <2>2, <3>1, <3>2, NoPlaceAssumption DEF PositionTypeOK, ScreenRec
    <2> QED BY <2>1, <2>2
  <1>5. /\ Polling' = Polling /\ PlayAsked' = PlayAsked /\ Sampled' = Sampled /\ ScratchAsked' = ScratchAsked
        /\ Scrubbed' = Scrubbed /\ InHand' = InHand /\ Calm' = Calm
    BY <1>1, <1>4 DEF Polling, PlayAsked, Sampled, ScratchAsked, Scrubbed, InHand, Calm
  <1>6. Going /\ (Going' <=> Has(errands, "seek")) /\ audio.feeder = NoPlace
    BY <1>0, <1>1, <1>3 DEF Going, Feeding
  <1>7. /\ \A x : AfterJump(screen', x) = AfterJump(screen, x)
        /\ \A x : Lands(screen', x) <=> Lands(screen, x)
        /\ \A q, l : LandAll(q, l, screen') <=> LandAll(q, l, screen)
    BY <1>4, SameContent
  <1>8. errands \in Seq(Errand)
    BY <1>0, PositionFields
  <1>9. SeekAhead /\ ~Has(errands, "seek") => p = screen.sought.place /\ OnlyAsks(errands)
    BY <1>8, LastGoes DEF SeekAhead, p
  <1>10. SeekHeard => /\ p = screen.shown
                      /\ AfterJump(screen, screen.track.out) = p /\ AfterJump(screen, Down(p, screen.rate)) = p
    BY <1>0, <1>1, <1>6, HeardPlace DEF p
  <1>11. PositionTypeOK' /\ OutBehind'
    BY <1>0, <1>1, <1>2, <1>3, <1>4 DEF PositionTypeOK, OutBehind, MaybePlace
  <1>12. Aligned' /\ Asking' /\ Modes'
    BY <1>0, <1>1, <1>3, <1>4, <1>5 DEF Aligned, Asking, Modes
  <1>13. Feeding'
    BY <1>0, <1>1, <1>3, <1>5, <1>6 DEF Feeding
  <1>14. \A i, f : FedAt(errands, audio, i, f) => FedAt(errands, audio', i, f)
    BY <1>3, FedSame
  <1>15. HeldAim'
    BY <1>0, <1>1, <1>5, <1>14 DEF HeldAim
  <1>16. Released'
    <2> SUFFICES ASSUME ~Scrubbed, Has(errands, "stop")
                 PROVE  /\ screen.shown # NoPlace => StopsLast(errands) /\ FedAt(errands, audio', Len(errands), screen.shown)
                        /\ screen.shown = NoPlace => ~StopsLast(errands) /\ Has(errands, "seek")
      BY <1>1, <1>4, <1>5, <1>6 DEF Released
    <2>1. CASE screen.shown # NoPlace
      BY <1>0, <1>14, <2>1 DEF Released
    <2>2. CASE screen.shown = NoPlace
      <3>1. ~StopsLast(errands)
        BY <1>0, <1>6, <2>2 DEF Released
      <3>2. SeekAhead
        BY <1>0, <1>6, <2>2, <3>1 DEF SeekShown, Calm, SeekHeard
      <3>3. Has(errands, "seek")
        BY <1>8, <1>9, <3>2, QueueFacts
      <3> QED BY <2>2, <3>1, <3>3
    <2> QED BY <2>1, <2>2
  <1>17. ScrubAnswer'
    BY <1>0, <1>1, <1>5 DEF ScrubAnswer
  <1>18. SeekShown'
    <2> SUFFICES ASSUME Calm, Has(errands, "seek"), ~StopsLast(errands) PROVE SeekAhead' \/ SeekHeard'
      BY <1>1, <1>5, <1>6 DEF SeekShown
    <2>1. SeekAhead \/ SeekHeard
      BY <1>0, <1>6 DEF SeekShown
    <2>2. CASE SeekAhead
      <3>1. LastGo(errands, NoPlace, screen.sought.place)
        BY <1>8, <2>2, LastGoes DEF SeekAhead
      <3> QED BY <1>1, <1>3, <1>4, <2>2, <3>1 DEF SeekAhead
    <2>3. CASE SeekHeard
      <3>1. AllGo(errands, NoPlace, screen.shown)
        BY <1>8, <2>3, QueueFacts DEF SeekHeard
      <3> QED BY <1>1, <1>3, <1>4, <1>10, <2>3, <3>1 DEF SeekHeard
    <2> QED BY <2>1, <2>2, <2>3
  <1>19. PlayAnswer'
    BY <1>0, <1>1, <1>3, <1>5 DEF PlayAnswer
  <1>20. Calm /\ PlayAsked /\ Sampled => SeekAhead \/ SeekHeard
    <2>1. Calm /\ PlayAsked => ~StopsLast(errands)
      BY <1>0, <1>8, QueueFacts DEF PlayAnswer
    <2> QED BY <1>0, <1>6, <2>1 DEF SeekShown
  <1>21. ASSUME Calm, PlayAsked, Sampled, screen.sought = NoPlace
         PROVE  /\ p = screen.shown /\ SeekHeard /\ AfterJump(screen, screen.asked.pos) = p
                /\ \/ screen.asked.pos = screen.track.out
                   \/ screen.asked.pos = Down(p, screen.rate)
    <2>1. SeekHeard /\ p = screen.shown
      BY <1>10, <1>20, <1>21 DEF SeekAhead
    <2>2. \/ screen.asked.pos = screen.track.out
          \/ screen.asked.pos = Down(p, screen.rate)
      BY <1>0, <1>6, <1>21, <2>1 DEF AnswerGoing
    <2> QED BY <1>10, <2>1, <2>2
  <1>22. AnswerGoing'
    <2> SUFFICES ASSUME Calm, PlayAsked, Sampled
                 PROVE  /\ screen.sought # NoPlace /\ AfterJump(screen, screen.asked.pos) = screen.sought.place =>
                             /\ AllGo(errands, NoPlace, screen.sought.place)
                             /\ Down(p, screen.rate) = Down(screen.sought.place, screen.rate)
                        /\ screen.sought = NoPlace =>
                             \/ screen.asked.pos = screen.track.out
                             \/ screen.asked.pos = Down(screen.shown, screen.rate) /\ Down(p, screen.rate) = screen.asked.pos
      BY <1>1, <1>3, <1>4, <1>5, <1>7 DEF AnswerGoing, PlayAsked, Polling
    <2>1. ASSUME screen.sought # NoPlace, AfterJump(screen, screen.asked.pos) = screen.sought.place
          PROVE  AllGo(errands, NoPlace, screen.sought.place) /\ p = screen.sought.place
      <3>1. AllGo(errands, audio.landing, screen.sought.place)
        BY <1>0, <1>6, <2>1 DEF AnswerGoing
      <3> QED BY <1>1, <3>1 DEF AllGo, p
    <2> QED BY <1>21, <2>1
  <1>23. AnswerStill'
    <2> SUFFICES ASSUME Calm, PlayAsked, Sampled, ~Has(errands, "seek") PROVE AnswerOld'
      BY <1>5, <1>6 DEF AnswerStill
    <2>1. screen.asked # NoPlace /\ screen'.asked.truth = NoPlace /\ screen'.asked.pos = screen.asked.pos
      BY <1>4 DEF PlayAsked, Polling
    <2>2. CASE screen.sought # NoPlace
      <3>1. SeekAhead
        BY <1>20, <2>2 DEF SeekHeard
      <3>2. p = screen.sought.place /\ screen.sought.age = 0
        BY <1>9, <3>1 DEF SeekAhead
      <3> QED BY <1>2, <1>3, <1>4, <2>1, <2>2, <3>2 DEF AnswerOld
    <2>3. CASE screen.sought = NoPlace
      <3>1. SeekHeard /\ AfterJump(screen, screen.asked.pos) = p
            /\ (screen.asked.pos = screen.track.out \/ screen.asked.pos = Down(p, screen.rate))
        BY <1>21, <2>3
      <3>2. InStep' => audio'.out = screen.track.out
        <4>1. audio'.out \in Int /\ screen.track # NoPlace /\ screen.track.out \in Int /\ screen.track.time = 0
          <5>1. Places \subseteq Int /\ audio'.out \in Places
            BY <1>2, <1>3, PosRulesHold DEF PosRules
          <5>2. screen.track # NoPlace /\ screen.track.time = 0
            BY <3>1 DEF SeekHeard
          <5>3. screen.track.out \in Places
            BY <1>0, <5>2, PositionFields
          <5> QED BY <5>1, <5>2, <5>3
        <4> QED BY <1>4, <4>1 DEF InStep
      <3>3. AfterJump(screen', screen'.asked.pos) = p
        BY <1>7, <2>1, <3>1
      <3> QED BY <1>2, <1>3, <1>4, <2>1, <2>3, <3>1, <3>2, <3>3 DEF AnswerOld
    <2> QED BY <2>2, <2>3
  <1>24. Unsampled'
    <2> SUFFICES ASSUME PlayAsked, NEW i \in 1..Len(errands), NEW j \in 1..Len(errands), Behind(errands, i, j)
                 PROVE  screen.sought # NoPlace /\ Alone(errands, NoPlace, j, AfterJump(screen, Down(p, screen.rate)))
      BY <1>1, <1>3, <1>4, <1>5, <1>7 DEF Unsampled
    <2>1. screen.sought # NoPlace /\ Alone(errands, audio.landing, j, AfterJump(screen, audio.out))
      BY <1>0 DEF Unsampled
    <2>2. screen.playing
      BY <1>0 DEF Behind, Has, Asking, Modes
    <2>3. AfterJump(screen, Down(p, screen.rate)) = p
      <3>1. LandAll(errands, audio.landing, screen)
        BY <1>0, <2>2 DEF ContentRight
      <3> QED BY <1>1, <3>1 DEF LandAll, Lands, p
    <2> QED BY <1>1, <1>8, <2>1, <2>3, QueueFacts DEF p
  <1>25. ContentRight'
    <2> SUFFICES ASSUME screen.playing
                 PROVE  AfterJump(screen, Down(p, screen.rate)) = p /\ LandAll(errands, NoPlace, screen)
      BY <1>1, <1>3, <1>4, <1>7 DEF ContentRight
    <2>1. LandAll(errands, audio.landing, screen)
      BY <1>0 DEF ContentRight
    <2>2. AfterJump(screen, Down(p, screen.rate)) = p
      BY <1>1, <2>1 DEF LandAll, Lands, p
    <2>3. LandAll(errands, NoPlace, screen)
      BY <2>1 DEF LandAll
    <2> QED BY <2>2, <2>3
  <1>26. ShowsRight'
    <2> SUFFICES ASSUME Calm, ~Has(errands, "seek"), ~Has(errands, "stop")
                 PROVE  /\ screen.shown # NoPlace => screen.shown = p
                        /\ screen.shown = NoPlace /\ screen.sought # NoPlace => p = screen.sought.place
      BY <1>1, <1>3, <1>4, <1>5, <1>6 DEF ShowsRight
    <2>1. ~StopsLast(errands)
      BY <1>8, QueueFacts
    <2>2. SeekAhead \/ SeekHeard
      BY <1>0, <1>6, <2>1 DEF SeekShown
    <2> QED BY <1>9, <1>10, <2>2 DEF SeekAhead, SeekHeard
  <1> QED BY <1>11, <1>12, <1>13, <1>15, <1>16, <1>17, <1>18, <1>19, <1>22, <1>23, <1>24, <1>25, <1>26 DEF PosInv

\* Time passes only while nothing is sought and no answer is out.
LEMMA TimeKeeps == ASSUME Mishaps = {} PROVE PosInv /\ TimePasses => PosInv'
  <1> SUFFICES ASSUME PosInv, TimePasses PROVE PosInv'
    OBVIOUS
  <1>0. /\ PositionTypeOK /\ OutBehind /\ Aligned /\ Asking /\ Modes /\ Feeding /\ HeldAim /\ Released
        /\ ScrubAnswer /\ SeekShown /\ PlayAnswer /\ AnswerGoing /\ AnswerStill /\ Unsampled
        /\ ContentRight /\ ShowsRight
    BY DEF PosInv
  <1>1. ~Going /\ screen.asked = NoPlace /\ audio.landing = NoPlace /\ ~Has(errands, "seek")
    <2>1. ~Seeking /\ screen.asked = NoPlace
      BY DEF TimePasses
    <2> QED BY <1>0, <2>1, InTheseTerms DEF Going
  <1>2. hand' = hand /\ errands' = errands /\ known' = known
    BY DEF TimePasses
  <1>3. /\ audio.moving => audio.at + screen.rate <= Extent
        /\ audio' = IF audio.moving THEN [audio EXCEPT !.at = audio.at + screen.rate, !.out = audio.out + 1] ELSE audio
    BY <1>1 DEF TimePasses
  <1> DEFINE s == Older(screen.sought)
             t == Further(screen.track)
  <1>4. screen' = [screen EXCEPT !.sought = s, !.track = t]
    BY <1>0 DEF TimePasses, PositionTypeOK, ScreenRec
  <1>5. /\ screen.rate \in Nat /\ screen.rate >= 1 /\ screen.rate \in Tempi /\ Extent \in Nat /\ Places \subseteq Nat
        /\ audio.at \in Nat /\ audio.out \in Nat /\ audio.out <= audio.at
    BY <1>0, PositionFields, PosRulesHold DEF PosRules, OutBehind
  <1>6. /\ s \in {NoPlace} \cup [place : Places, age : Nat]
        /\ (s = NoPlace <=> screen.sought = NoPlace) /\ (s # NoPlace => s.place = screen.sought.place)
    <2>1. screen.sought # NoPlace => screen.sought \in [place : Places, age : Nat]
      BY <1>0 DEF PositionTypeOK, ScreenRec
    <2> DEFINE n == [screen.sought EXCEPT !.age = screen.sought.age + 1]
    <2>2. screen.sought # NoPlace => n \in [place : Places, age : Nat] /\ n.place = screen.sought.place
      BY <2>1
    <2> HIDE DEF n
    <2>3. s = IF screen.sought = NoPlace \/ screen.sought.age > Patience THEN screen.sought ELSE n
      BY DEF n, Older
    <2> HIDE DEF s
    <2> QED BY <2>1, <2>2, <2>3, NoPlaceAssumption
  <1>7. /\ t \in {NoPlace} \cup [out : Places, place : Int, time : Nat, way : Nat]
        /\ (t = NoPlace <=> screen.track = NoPlace)
        /\ t # NoPlace => /\ t.out = screen.track.out /\ t.place = screen.track.place
                          /\ \/ screen.track.time > Extent /\ t.time = screen.track.time /\ t.way = screen.track.way
                             \/ t.time = screen.track.time + 1 /\ t.way = screen.track.way + screen.rate
    <2>1. screen.track # NoPlace => screen.track \in [out : Places, place : Int, time : Nat, way : Nat]
      BY <1>0 DEF PositionTypeOK, ScreenRec
    <2> DEFINE n == [screen.track EXCEPT !.time = screen.track.time + 1, !.way = screen.track.way + screen.rate]
    <2>2. screen.track # NoPlace =>
            /\ n \in [out : Places, place : Int, time : Nat, way : Nat]
            /\ n.out = screen.track.out /\ n.place = screen.track.place
            /\ n.time = screen.track.time + 1 /\ n.way = screen.track.way + screen.rate
      <3> DEFINE time == screen.track.time + 1
                 way == screen.track.way + screen.rate
      <3>1. screen.track # NoPlace => time \in Nat /\ way \in Nat
        BY <1>5, <2>1
      <3> HIDE DEF time, way
      <3>2. screen.track # NoPlace =>
              /\ [screen.track EXCEPT !.time = time, !.way = way] \in [out : Places, place : Int, time : Nat, way : Nat]
              /\ [screen.track EXCEPT !.time = time, !.way = way].out = screen.track.out
              /\ [screen.track EXCEPT !.time = time, !.way = way].place = screen.track.place
              /\ [screen.track EXCEPT !.time = time, !.way = way].time = time
              /\ [screen.track EXCEPT !.time = time, !.way = way].way = way
        BY <2>1, <3>1
      <3> QED BY <3>2 DEF time, way
    <2> HIDE DEF n
    <2>3. t = IF screen.track = NoPlace \/ screen.track.time > Extent THEN screen.track ELSE n
      BY DEF n, Further
    <2> HIDE DEF t
    <2> QED BY <2>1, <2>2, <2>3, NoPlaceAssumption
  <1> HIDE DEF s, t
  <1>8. /\ screen' \in ScreenRec /\ screen'.playing = screen.playing /\ screen'.shown = screen.shown
        /\ screen'.rate = screen.rate /\ screen'.sought = s /\ screen'.track = t /\ screen'.asked = screen.asked
    BY <1>0, <1>4, <1>6, <1>7 DEF PositionTypeOK, ScreenRec
  <1>9. /\ audio' \in AudioRec /\ audio'.moving = audio.moving /\ audio'.feeder = audio.feeder
        /\ audio'.rested = audio.rested /\ audio'.landed = audio.landed /\ audio'.landing = NoPlace
        /\ audio.moving => audio'.at = audio.at + screen.rate /\ audio'.out = audio.out + 1 /\ audio'.out <= Extent
        /\ ~audio.moving => audio'.at = audio.at /\ audio'.out = audio.out
    <2>1. audio.moving \in BOOLEAN
      BY <1>0, PositionFields
    <2>2. CASE audio.moving
      <3>1. audio.at + screen.rate \in Places /\ audio.out + 1 \in Places /\ audio.out + 1 <= Extent
        BY <1>3, <1>5, <2>2 DEF Places
      <3> QED BY <1>0, <1>1, <1>3, <2>2, <3>1 DEF PositionTypeOK, AudioRec
    <2>3. CASE ~audio.moving
      BY <1>0, <1>1, <1>3, <2>3 DEF PositionTypeOK
    <2> QED BY <2>2, <2>3
  <1>10. /\ ~Polling /\ ~Polling' /\ ~PlayAsked' /\ ~Sampled /\ ~Sampled' /\ ~ScratchAsked' /\ ~PlayAsked
         /\ ~Going' /\ Scrubbed' = Scrubbed /\ InHand' = InHand /\ Calm' = Calm
    <2>1. ~Polling /\ ~Polling' /\ ~PlayAsked' /\ ~Sampled /\ ~Sampled' /\ ~ScratchAsked' /\ ~PlayAsked
      BY <1>1, <1>8 DEF Polling, PlayAsked, Sampled, ScratchAsked
    <2>2. ~Going' /\ Scrubbed' = Scrubbed /\ InHand' = InHand
      BY <1>1, <1>2, <1>9 DEF Going, Scrubbed, InHand
    <2> QED BY <1>2, <2>1, <2>2 DEF Calm
  <1>11. PositionTypeOK'
    BY <1>0, <1>2, <1>8, <1>9 DEF PositionTypeOK
  <1>12. OutBehind'
    BY <1>5, <1>9, <1>0, PositionFields DEF OutBehind
  <1>13. Aligned' /\ Asking' /\ Modes'
    BY <1>0, <1>1, <1>2, <1>8, <1>9, <1>10 DEF Aligned, Asking, Modes
  <1>14. Feeding'
    BY <1>0, <1>1, <1>2, <1>9, <1>10 DEF Feeding
  <1>15. \A i, f : FedAt(errands, audio, i, f) => FedAt(errands, audio', i, f)
    BY <1>9, FedSame
  <1>16. HeldAim' /\ Released'
    BY <1>0, <1>1, <1>2, <1>6, <1>8, <1>10, <1>15 DEF HeldAim, Released
  <1>17. ScrubAnswer' /\ SeekShown' /\ PlayAnswer' /\ AnswerGoing' /\ AnswerStill' /\ Unsampled'
    BY <1>10 DEF ScrubAnswer, SeekShown, PlayAnswer, AnswerGoing, AnswerStill, Unsampled
  <1>18. ContentRight'
    <2> SUFFICES ASSUME screen.playing PROVE AfterJump(screen', audio'.out) = audio'.at /\ LandAll(errands, NoPlace, screen')
      BY <1>2, <1>8, <1>9 DEF ContentRight
    <2>1. LandAll(errands, NoPlace, screen')
      BY <1>1 DEF LandAll, Has
    <2>2. /\ audio.moving /\ audio'.at = audio.at + screen.rate /\ audio'.out = audio.out + 1 /\ audio'.out <= Extent
          /\ AfterJump(screen, audio.out) = audio.at
      BY <1>0, <1>1, <1>9 DEF Modes, ContentRight
    <2>3. Up(audio.out, screen.rate) \in Nat /\ Up(audio.out + 1, screen.rate) = Up(audio.out, screen.rate) + screen.rate
      BY <1>5, UpNext
    <2>6. Up(audio'.out, screen'.rate) = Up(audio.out, screen.rate) + screen.rate
      BY <1>8, <2>2, <2>3
    <2>4. CASE screen.track = NoPlace
      <3>1. AfterJump(screen', audio'.out) = Up(audio'.out, screen'.rate)
        BY <1>7, <1>8, <2>4 DEF AfterJump
      <3>2. Up(audio.out, screen.rate) = audio.at
        BY <2>2, <2>4 DEF AfterJump
      <3> QED BY <2>1, <2>2, <2>6, <3>1, <3>2
    <2>5. CASE screen.track # NoPlace
      <3>1. /\ screen.track.out \in Nat /\ screen.track.place \in Int /\ screen.track.time \in Nat
            /\ screen.track.way \in Nat
        BY <1>0, <1>5, <2>5, PositionFields
      <3>2. (audio.out + 1) - t.out = t.time <=> audio.out - screen.track.out = screen.track.time
        BY <1>5, <1>7, <2>2, <2>5, <3>1
      <3>3. CASE audio.out - screen.track.out = screen.track.time
        <4>1. screen.track.time <= Extent /\ t # NoPlace
          BY <1>5, <1>7, <2>2, <2>5, <3>1, <3>3
        <4>2. t.place + t.way = (screen.track.place + screen.track.way) + screen.rate
          BY <1>5, <1>7, <3>1, <4>1
        <4>3. screen.track.place + screen.track.way = audio.at
          BY <2>2, <2>5, <3>3 DEF AfterJump
        <4>4. audio'.out - screen'.track.out = screen'.track.time /\ screen'.track # NoPlace
          BY <1>8, <2>2, <3>2, <3>3, <4>1
        <4>5. AfterJump(screen', audio'.out) = t.place + t.way
          BY <1>8, <4>4 DEF AfterJump
        <4> QED BY <2>1, <2>2, <4>2, <4>3, <4>5
      <3>4. CASE audio.out - screen.track.out # screen.track.time
        <4>1. Up(audio.out, screen.rate) = audio.at
          BY <2>2, <3>4 DEF AfterJump
        <4>2. audio'.out - screen'.track.out # screen'.track.time
          BY <1>8, <2>2, <3>2, <3>4
        <4>3. AfterJump(screen', audio'.out) = Up(audio'.out, screen'.rate)
          BY <4>2 DEF AfterJump
        <4> QED BY <2>1, <2>2, <2>6, <4>1, <4>3
      <3> QED BY <3>3, <3>4
    <2> QED BY <2>1, <2>4, <2>5
  <1>19. ShowsRight'
    BY <1>0, <1>1, <1>2, <1>6, <1>8, <1>9, <1>10 DEF ShowsRight
  <1> QED BY <1>11, <1>12, <1>13, <1>14, <1>16, <1>17, <1>18, <1>19 DEF PosInv

\* The page learns a place only from an answer that is right, or that says what it knows.
LEMMA LearnsKeep == PosInv /\ Learns => PosInv'
  <1> SUFFICES ASSUME PosInv, Learns PROVE PosInv'
    OBVIOUS
  <1>0. /\ PositionTypeOK /\ OutBehind /\ Aligned /\ Asking /\ Modes /\ Feeding /\ HeldAim /\ Released
        /\ ScrubAnswer /\ SeekShown /\ PlayAnswer /\ AnswerGoing /\ AnswerStill /\ Unsampled
        /\ ContentRight /\ ShowsRight
    BY DEF PosInv
  <1> DEFINE pos == screen.asked.pos
             place == IF screen.asked.scrub THEN pos ELSE AfterJump(screen, pos)
  <1>1. /\ screen.asked # NoPlace /\ pos # NoPlace
        /\ audio' = audio /\ hand' = hand /\ errands' = errands
        /\ IF ~screen.asked.scrub /\ Stale(AfterJump(screen, pos))
           THEN screen' = [screen EXCEPT !.asked = NoPlace] /\ known' = known
           ELSE /\ screen' = [screen EXCEPT !.asked = NoPlace, !.shown = place,
                      !.sought = IF screen.asked.scrub THEN screen.sought ELSE NoPlace,
                      !.track = [out |-> pos, place |-> place, time |-> 0, way |-> 0]]
                /\ known' = screen.asked.truth
    <2>1. Content(pos) = AfterJump(screen, pos)
      BY <1>0, InTheseTerms
    <2>2. [screen EXCEPT !.asked = NoPlace].sought = screen.sought
      BY <1>0 DEF PositionTypeOK, ScreenRec
    <2> QED BY <2>1, <2>2, <1>0 DEF Learns, PositionTypeOK, ScreenRec
  <1>2. /\ pos \in Places /\ screen.asked.scrub \in BOOLEAN /\ screen.asked.truth \in MaybePlace
        /\ pos \in Int /\ screen.rate \in Tempi /\ screen.rate \in Nat /\ audio.out \in Int /\ audio.out \in Places
        /\ Places \subseteq Int
    <2>1. Places \subseteq Int /\ Tempi \subseteq Nat
      BY PosRulesHold DEF PosRules
    <2>2. /\ pos \in MaybePlace /\ screen.asked.scrub \in BOOLEAN /\ screen.asked.truth \in MaybePlace
          /\ screen.rate \in Tempi /\ audio.out \in Places
      BY <1>0, <1>1, PositionFields
    <2>3. pos \in Places
      BY <1>1, <2>2 DEF MaybePlace
    <2> QED BY <2>1, <2>2, <2>3
  <1>3. Polling /\ Sampled /\ ~Has(errands, "ask") /\ (PlayAsked <=> ~screen.asked.scrub)
        /\ (ScratchAsked <=> screen.asked.scrub)
    BY <1>0, <1>1 DEF Polling, Sampled, Asking, PlayAsked, ScratchAsked
  <1>4. errands \in Seq(Errand)
    BY <1>0, PositionFields
  <1>5. CASE ~screen.asked.scrub /\ Stale(AfterJump(screen, pos))
    <2>1. screen' = [screen EXCEPT !.asked = NoPlace] /\ known' = known
      BY <1>1, <1>5
    <2>2. /\ screen' \in ScreenRec /\ screen'.playing = screen.playing /\ screen'.shown = screen.shown
          /\ screen'.rate = screen.rate /\ screen'.sought = screen.sought /\ screen'.track = screen.track
          /\ screen'.asked = NoPlace
      BY <1>0, <2>1 DEF PositionTypeOK, ScreenRec
    <2>3. /\ ~Polling' /\ ~PlayAsked' /\ ~ScratchAsked' /\ ~Sampled' /\ Going' = Going
          /\ Scrubbed' = Scrubbed /\ InHand' = InHand /\ (Calm' => Calm)
      <3>1. ~Polling' /\ ~PlayAsked' /\ ~ScratchAsked' /\ ~Sampled'
        BY <2>2 DEF Polling, PlayAsked, ScratchAsked, Sampled
      <3>2. Going' = Going /\ Scrubbed' = Scrubbed /\ InHand' = InHand
        BY <1>1 DEF Going, Scrubbed, InHand
      <3> QED BY <3>1, <3>2 DEF Calm
    <2>4. /\ \A x : AfterJump(screen', x) = AfterJump(screen, x)
          /\ \A q, l : LandAll(q, l, screen') <=> LandAll(q, l, screen)
      BY <2>2, SameContent
    <2>5. PositionTypeOK' /\ OutBehind' /\ Aligned'
      BY <1>0, <1>1, <2>1, <2>2 DEF PositionTypeOK, OutBehind, Aligned
    <2>6. Asking' /\ Modes'
      BY <1>0, <1>1, <1>3, <2>2, <2>3 DEF Asking, Modes
    <2>7. Feeding' /\ HeldAim' /\ Released'
      BY <1>0, <1>1, <2>2, <2>3 DEF Feeding, HeldAim, Released
    <2>8. ScrubAnswer' /\ PlayAnswer' /\ AnswerGoing' /\ AnswerStill' /\ Unsampled'
      BY <2>3 DEF ScrubAnswer, PlayAnswer, AnswerGoing, AnswerStill, Unsampled
    <2>9. SeekShown' /\ ShowsRight'
      BY <1>0, <1>1, <2>1, <2>2, <2>3 DEF SeekShown, SeekAhead, SeekHeard, ShowsRight
    <2>10. ContentRight'
      BY <1>0, <1>1, <2>2, <2>3, <2>4 DEF ContentRight
    <2> QED BY <2>5, <2>6, <2>7, <2>8, <2>9, <2>10 DEF PosInv
  <1>6. CASE ~(~screen.asked.scrub /\ Stale(AfterJump(screen, pos)))
    <2> DEFINE t == [out |-> pos, place |-> place, time |-> 0, way |-> 0]
               s == IF screen.asked.scrub THEN screen.sought ELSE NoPlace
    <2>1. screen' = [screen EXCEPT !.asked = NoPlace, !.shown = place, !.sought = s, !.track = t]
          /\ known' = screen.asked.truth
      BY <1>1, <1>6
    <2>2. place \in Int /\ (PlayAsked => place = AfterJump(screen, pos)) /\ (ScratchAsked => place = pos)
      <3>1. AfterJump(screen, pos) \in Int
        <4>1. pos * screen.rate \in Int
          BY <1>2
        <4>2. screen.track # NoPlace => screen.track.place + screen.track.way \in Int
          BY <1>0, PositionFields
        <4> QED BY <4>1, <4>2 DEF AfterJump, Up
      <3> QED BY <1>2, <1>3, <3>1
    <2>3. ~screen.asked.scrub /\ screen.sought # NoPlace /\ screen.sought.age = 0 => place = screen.sought.place
      BY <1>6, PosRulesHold DEF Stale, PosRules
    <2>4. s \in {NoPlace} \cup [place : Places, age : Nat]
      BY <1>0 DEF PositionTypeOK, ScreenRec
    <2> HIDE DEF place, s
    <2>5. /\ t \in [out : Places, place : Int, time : Nat, way : Nat]
          /\ t # NoPlace /\ t.out = pos /\ t.place = place /\ t.time = 0 /\ t.way = 0
      BY <1>2, <2>2, NoPlaceAssumption
    <2> HIDE DEF t
    <2>6. /\ screen' \in ScreenRec /\ screen'.playing = screen.playing /\ screen'.shown = place
          /\ screen'.rate = screen.rate /\ screen'.sought = s /\ screen'.track = t
          /\ screen'.asked = NoPlace
      BY <1>0, <2>1, <2>2, <2>4, <2>5 DEF PositionTypeOK, ScreenRec
    <2>7. /\ ~Polling' /\ ~PlayAsked' /\ ~ScratchAsked' /\ ~Sampled' /\ Going' = Going
          /\ Scrubbed' = Scrubbed /\ InHand' = InHand /\ (Calm' <=> ~Scrubbed) /\ (~Scrubbed => Calm)
      <3>1. ~Polling' /\ ~PlayAsked' /\ ~ScratchAsked' /\ ~Sampled'
        BY <2>6 DEF Polling, PlayAsked, ScratchAsked, Sampled
      <3>2. Going' = Going /\ Scrubbed' = Scrubbed /\ InHand' = InHand
        BY <1>1 DEF Going, Scrubbed, InHand
      <3> QED BY <3>1, <3>2 DEF Calm
    <2>8. \A x \in Int : AfterJump(screen', x) = IF x = pos THEN place ELSE Up(x, screen.rate)
      <3> SUFFICES ASSUME NEW x \in Int PROVE AfterJump(screen', x) = IF x = pos THEN place ELSE Up(x, screen.rate)
        OBVIOUS
      <3>1. x - pos = 0 <=> x = pos
        BY <1>2
      <3>2. place + 0 = place
        BY <2>2
      <3> QED BY <2>5, <2>6, <3>1, <3>2 DEF AfterJump
    <2>9. place # NoPlace
      BY <2>2, PosRulesHold DEF PosRules
    <2>10. PositionTypeOK'
      BY <1>0, <1>1, <1>2, <2>1, <2>6 DEF PositionTypeOK
    <2>11. OutBehind' /\ Aligned'
      BY <1>0, <1>1, <2>6 DEF OutBehind, Aligned
    <2>12. Asking' /\ Modes'
      BY <1>0, <1>1, <1>3, <2>6, <2>7 DEF Asking, Modes
    <2>13. Feeding' /\ HeldAim'
      BY <1>0, <1>1, <2>7 DEF Feeding, HeldAim
    <2>14. ScrubAnswer' /\ PlayAnswer' /\ AnswerGoing' /\ AnswerStill' /\ Unsampled'
      BY <2>7 DEF ScrubAnswer, PlayAnswer, AnswerGoing, AnswerStill, Unsampled
    <2>15. ~Scrubbed /\ ScratchAsked => audio.landing = NoPlace /\ screen.shown # NoPlace /\ (ScrubStops \/ ScrubStopped)
      BY <1>0 DEF ScrubAnswer
    <2>16. ScrubStopped => ~Has(errands, "stop") /\ ~Has(errands, "seek")
      BY <1>4, QueueFacts DEF ScrubStopped
    <2>17. ScrubStops => StopsLast(errands) /\ Has(errands, "stop")
      BY <1>4, QueueFacts DEF ScrubStops
    <2>18. ~Scrubbed /\ PlayAsked => OnlyMoves(errands) /\ ~Has(errands, "stop") /\ ~StopsLast(errands)
      BY <1>0, <1>4, <2>7, QueueFacts DEF PlayAnswer
    <2>19. Released'
      <3> SUFFICES ASSUME ~Scrubbed, Has(errands, "stop")
                   PROVE  StopsLast(errands) /\ FedAt(errands, audio, Len(errands), place)
        BY <1>1, <2>6, <2>7, <2>9 DEF Released
      <3>1. ScratchAsked /\ ScrubStops /\ screen.shown # NoPlace
        BY <1>3, <2>15, <2>16, <2>18
      <3>2. place = screen.shown
        BY <1>3, <2>2, <3>1 DEF ScrubStops
      <3> QED BY <1>0, <3>1, <3>2 DEF Released
    <2>20. ~Scrubbed /\ Going /\ ~StopsLast(errands) => PlayAsked /\ SeekHeard'
      <3> SUFFICES ASSUME ~Scrubbed, Going, ~StopsLast(errands) PROVE PlayAsked /\ SeekHeard'
        OBVIOUS
      <3>1. PlayAsked /\ ~screen.asked.scrub
        BY <1>3, <2>15, <2>16, <2>17 DEF Going
      <3>2. s = NoPlace /\ place = AfterJump(screen, pos)
        BY <2>2, <3>1 DEF s
      <3>3. AllGo(errands, audio.landing, place) /\ (pos = audio.out \/ audio.out = Down(place, screen.rate))
        <4>1. CASE SeekAhead
          <5>1. place = screen.sought.place /\ screen.sought # NoPlace
            BY <2>3, <3>1, <4>1 DEF SeekAhead
          <5> QED BY <1>0, <1>3, <2>7, <3>1, <3>2, <5>1 DEF AnswerGoing
        <4>2. CASE SeekHeard
          <5>1. screen.sought = NoPlace /\ AllGo(errands, audio.landing, screen.shown)
                /\ (screen.track.out = audio.out \/ audio.out = Down(screen.shown, screen.rate))
            BY <4>2 DEF SeekHeard
          <5>2. \/ pos = screen.track.out
                \/ pos = Down(screen.shown, screen.rate) /\ audio.out = pos
            BY <1>0, <1>3, <2>7, <3>1, <5>1 DEF AnswerGoing
          <5>3. place = screen.shown
            BY <1>0, <3>2, <4>2, <5>2, HeardPlace
          <5> QED BY <5>1, <5>2, <5>3
        <4> QED BY <1>0, <2>7, <4>1, <4>2 DEF SeekShown
      <3> QED BY <1>1, <2>5, <2>6, <2>9, <2>18, <3>1, <3>2, <3>3 DEF SeekHeard
    <2>21. SeekShown'
      BY <1>1, <2>7, <2>20 DEF SeekShown
    <2>22. ~Scrubbed /\ ~Going /\ PlayAsked =>
             \/ screen.asked.truth = audio.at /\ place = audio.at /\ pos = audio.out
             \/ /\ audio.at = audio.landed /\ place = audio.landed
                /\ \/ audio.out = pos
                   \/ audio.landed \in Spots /\ audio.out = Down(audio.landed, screen.rate)
      <3> SUFFICES ASSUME ~Scrubbed, ~Going, PlayAsked
                   PROVE \/ screen.asked.truth = audio.at /\ place = audio.at /\ pos = audio.out
                         \/ /\ audio.at = audio.landed /\ place = audio.landed
                            /\ \/ audio.out = pos
                               \/ audio.landed \in Spots /\ audio.out = Down(audio.landed, screen.rate)
        OBVIOUS
      <3>1. AnswerTrue \/ AnswerOld
        BY <1>0, <1>3, <2>7 DEF AnswerStill
      <3>2. CASE AnswerTrue
        BY <2>2, <3>2 DEF AnswerTrue
      <3>3. CASE AnswerOld /\ screen.sought # NoPlace
        BY <1>3, <2>3, <3>3 DEF AnswerOld
      <3>4. CASE AnswerOld /\ screen.sought = NoPlace
        BY <2>2, <3>4 DEF AnswerOld
      <3> QED BY <3>1, <3>2, <3>3, <3>4
    <2>23. ~Scrubbed /\ ~Has(errands, "stop") /\ ScratchAsked =>
             /\ ~Going /\ pos = audio.landed /\ audio.at = audio.landed /\ place = pos
             /\ screen.playing => audio.at = Up(audio.out, screen.rate)
      BY <2>2, <2>15, <2>16, <2>17 DEF ScrubStopped, Going
    <2>24. ContentRight'
      <3> SUFFICES ASSUME screen.playing
                   PROVE  /\ ~Going => AfterJump(screen', audio.out) = audio.at
                          /\ LandAll(errands, audio.landing, screen')
        BY <1>1, <2>6, <2>7 DEF ContentRight
      <3>1. ~Scrubbed /\ ~Has(errands, "stop") /\ ~StopsLast(errands)
        BY <1>0, <1>4, QueueFacts DEF Modes, Scrubbed
      <3>2. \A x \in Spots : Up(Down(x, screen.rate), screen.rate) = x
        BY <1>2, SpotDiv
      <3>3. ~Going => AfterJump(screen', audio.out) = audio.at
        <4>1. AfterJump(screen', audio.out) = IF audio.out = pos THEN place ELSE Up(audio.out, screen.rate)
          BY <1>2, <2>8
        <4> QED BY <1>3, <2>22, <2>23, <3>1, <3>2, <4>1
      <3>4. LandAll(errands, audio.landing, screen')
        <4>1. CASE ~Going
          BY <4>1 DEF Going, LandAll, Has
        <4>2. CASE Going
          <5>1. AllGo(errands, audio.landing, place)
            BY <1>1, <2>6, <2>20, <3>1, <4>2 DEF SeekHeard
          <5>2. place \in Spots
            BY <1>0, <1>4, <4>2, <5>1, QueueFacts DEF Going, Aligned
          <5>3. Down(place, screen.rate) \in Int
            <6>1. place \in Places
              BY <5>2, PosRulesHold DEF PosRules
            <6> QED BY <1>2, <6>1, DivPlace
          <5>4. Lands(screen', place)
            BY <2>6, <2>8, <3>2, <5>2, <5>3 DEF Lands
          <5> QED BY <5>1, <5>4 DEF AllGo, LandAll
        <4> QED BY <4>1, <4>2
      <3> QED BY <3>3, <3>4
    <2>25. ShowsRight'
      <3> SUFFICES ASSUME ~Scrubbed, ~Going, ~Has(errands, "stop") PROVE place \in {screen.asked.truth, audio.landed}
        BY <1>1, <2>1, <2>6, <2>7, <2>9 DEF ShowsRight
      <3> QED BY <1>3, <2>22, <2>23
    <2> QED BY <2>10, <2>11, <2>12, <2>13, <2>14, <2>19, <2>21, <2>24, <2>25 DEF PosInv
  <1> QED BY <1>5, <1>6

\* What obeying a command that leaves the page alone does not change.
LEMMA ObeyedSame ==
  ASSUME PosInv, errands # << >>, errands' = Tail(errands), screen' = screen, hand' = hand,
         Head(errands).op # "ask"
  PROVE  /\ Polling' = Polling /\ PlayAsked' = PlayAsked /\ Sampled' = Sampled /\ ScratchAsked' = ScratchAsked
         /\ Scrubbed' = Scrubbed /\ InHand' = InHand /\ Calm' = Calm
         /\ Asking' /\ SpotsOnly(errands') /\ (OnlyMoves(errands) => OnlyMoves(errands'))
         /\ ScratchesGoOn(errands') /\ (~InHand => ScratchesEnd(errands'))
         /\ errands \in Seq(Errand) /\ errands' \in Seq(Errand)
         /\ errands' # << >> => (StopsLast(errands) <=> StopsLast(errands'))
         /\ errands' = << >> => (StopsLast(errands) <=> Head(errands).op = "stop")
  <1>1. PositionTypeOK /\ Aligned /\ Asking /\ Feeding
    BY DEF PosInv
  <1>2. errands \in Seq(Errand) /\ errands' \in Seq(Errand)
    BY <1>1, PositionFields, TakenFromQueue
  <1>3. Polling' = Polling /\ PlayAsked' = PlayAsked /\ Sampled' = Sampled /\ ScratchAsked' = ScratchAsked
    BY DEF Polling, PlayAsked, Sampled, ScratchAsked
  <1>4. Scrubbed' = Scrubbed /\ InHand' = InHand
    BY DEF Scrubbed, InHand
  <1>5. Calm' = Calm
    BY <1>3, <1>4 DEF Calm
  <1>6. /\ AsksOnce(errands) => AsksOnce(errands')
        /\ Has(errands', "ask") <=> Has(errands, "ask")
        /\ SpotsOnly(errands) => SpotsOnly(errands')
        /\ OnlyMoves(errands) => OnlyMoves(errands')
        /\ errands' # << >> => (StopsLast(errands) <=> StopsLast(errands'))
        /\ errands' = << >> => (StopsLast(errands) <=> Head(errands).op = "stop")
    BY <1>2, TailKinds
  <1>7. /\ ScratchesGoOn(errands) => ScratchesGoOn(errands')
        /\ ScratchesEnd(errands) => ScratchesEnd(errands')
    BY <1>2, TailScratches
  <1>8. Asking' /\ SpotsOnly(errands')
    BY <1>1, <1>3, <1>6 DEF Asking, Aligned
  <1>9. ScratchesGoOn(errands') /\ (~InHand => ScratchesEnd(errands'))
    BY <1>1, <1>7 DEF Feeding
  <1> QED BY <1>2, <1>3, <1>4, <1>5, <1>6, <1>8, <1>9

\* Where the feeder is told to be, after a command but a request.
LEMMA ObeyedAims ==
  ASSUME PosInv, errands # << >>, errands' = Tail(errands), screen' = screen, hand' = hand,
         \/ Head(errands).op = "stop" \/ Head(errands).op = "seek"
         \/ Head(errands).op = "scratch" /\ audio'.feeder = Head(errands).place /\ audio'.landing = NoPlace,
         screen.shown = NoPlace => Going' = Going
  PROVE  HeldAim' /\ Released'
  <1>1. PositionTypeOK /\ HeldAim /\ Released
    BY DEF PosInv
  <1>2. Head(errands).op # "ask"
    OBVIOUS
  <1>3. /\ Scrubbed' = Scrubbed /\ InHand' = InHand /\ errands \in Seq(Errand) /\ errands' \in Seq(Errand)
        /\ errands' # << >> => (StopsLast(errands) <=> StopsLast(errands'))
    BY <1>2, ObeyedSame
  <1>4. /\ Len(errands') = Len(errands) - 1 /\ Len(errands) \in Nat \ {0}
        /\ (errands' # << >> => Len(errands') >= 1)
    BY <1>3, TakenFromQueue
  <1>5. \A f : \A i \in 2..Len(errands) + 1 : FedAt(errands, audio, i, f) => FedAt(errands', audio', i - 1, f)
    BY <1>3, TailScratches
  <1>6. HeldAim'
    <2> SUFFICES ASSUME InHand, hand.due = NoPlace PROVE FedAt(errands', audio', Len(errands') + 1, hand.target)
      BY <1>3 DEF HeldAim
    <2>1. FedAt(errands, audio, Len(errands) + 1, hand.target)
      BY <1>1 DEF HeldAim
    <2>2. Len(errands) + 1 \in 2..Len(errands) + 1 /\ (Len(errands) + 1) - 1 = Len(errands') + 1
      BY <1>4
    <2> QED BY <1>5, <2>1, <2>2
  <1>7. Released'
    <2> SUFFICES ASSUME ~Scrubbed, Has(errands', "stop")
                 PROVE  /\ screen.shown # NoPlace =>
                             StopsLast(errands') /\ FedAt(errands', audio', Len(errands'), screen.shown)
                        /\ screen.shown = NoPlace =>
                             (StopsLast(errands') <=> ~Going') /\ (StopsLast(errands') => screen.sought = NoPlace)
      BY <1>3 DEF Released
    <2>1. Has(errands, "stop")
      BY <1>3, TailKinds
    <2>2. errands' # << >> /\ (StopsLast(errands) <=> StopsLast(errands'))
      BY <1>3, QueueFacts
    <2>3. Len(errands) \in 2..Len(errands) + 1 /\ Len(errands) - 1 = Len(errands')
      BY <1>4, <2>2
    <2>4. CASE screen.shown # NoPlace
      BY <1>1, <1>5, <2>1, <2>2, <2>3, <2>4 DEF Released
    <2>5. CASE screen.shown = NoPlace
      BY <1>1, <2>1, <2>2, <2>5 DEF Released
    <2> QED BY <2>4, <2>5
  <1> QED BY <1>6, <1>7

\* A seek that is taken up.
LEMMA ObeysSeekKeeps ==
  ASSUME PosInv, errands # << >>, errands' = Tail(errands), screen' = screen, hand' = hand, known' = known,
         Head(errands).op = "seek",
         audio' = [audio EXCEPT !.rested = NoPlace,
                     !.landing = [out |-> Head(errands).place \div screen.rate, at |-> Head(errands).place]]
  PROVE  PosInv'
  <1>0. /\ PositionTypeOK /\ OutBehind /\ Aligned /\ Asking /\ Modes /\ Feeding /\ HeldAim /\ Released
        /\ ScrubAnswer /\ SeekShown /\ PlayAnswer /\ AnswerGoing /\ AnswerStill /\ Unsampled
        /\ ContentRight /\ ShowsRight
    BY DEF PosInv
  <1> DEFINE p == Head(errands).place
             m == [out |-> p \div screen.rate, at |-> p]
  <1>1. Head(errands).op # "ask" /\ Head(errands).op # "stop" /\ Head(errands).op # "scratch"
    OBVIOUS
  <1>2. /\ Polling' = Polling /\ PlayAsked' = PlayAsked /\ Sampled' = Sampled /\ ScratchAsked' = ScratchAsked
        /\ Scrubbed' = Scrubbed /\ InHand' = InHand /\ Calm' = Calm
        /\ Asking' /\ SpotsOnly(errands') /\ (OnlyMoves(errands) => OnlyMoves(errands'))
        /\ ScratchesGoOn(errands') /\ (~InHand => ScratchesEnd(errands'))
        /\ errands \in Seq(Errand) /\ errands' \in Seq(Errand)
        /\ errands' # << >> => (StopsLast(errands) <=> StopsLast(errands'))
        /\ errands' = << >> => ~StopsLast(errands)
    BY <1>1, ObeyedSame
  <1>3. p \in Spots
    BY <1>0, <1>2, TailKinds DEF Aligned
  <1>4. p \in Places /\ screen.rate \in Tempi /\ Down(p, screen.rate) \in Places
    <2>1. p \in Places /\ screen.rate \in Tempi
      BY <1>0, <1>3, PositionFields, PosRulesHold DEF PosRules
    <2> HIDE DEF p
    <2> QED BY <2>1, DivPlace
  <1>5. /\ m \in [out : Places, at : Places] /\ m # NoPlace /\ m.at = p /\ m.out = Down(p, screen.rate)
    BY <1>4, NoPlaceAssumption DEF Down
  <1>6. audio' = [audio EXCEPT !.rested = NoPlace, !.landing = m]
    OBVIOUS
  <1> HIDE DEF m
  <1>7. /\ audio' \in AudioRec /\ audio'.out = audio.out /\ audio'.at = audio.at /\ audio'.landed = audio.landed
        /\ audio'.landing = m /\ audio'.feeder = audio.feeder /\ audio'.rested = NoPlace
        /\ audio'.moving = audio.moving
    BY <1>0, <1>5, <1>6 DEF PositionTypeOK, AudioRec, MaybePlace
  <1>8. Going' /\ Going /\ Has(errands, "seek")
    BY <1>2, <1>5, <1>7, TailKinds DEF Going
  <1>9. audio.feeder = NoPlace
    BY <1>0, <1>1, <1>2, <1>8, TailScratches DEF Feeding
  <1>10. PositionTypeOK' /\ OutBehind'
    BY <1>0, <1>2, <1>7 DEF PositionTypeOK, OutBehind
  <1>11. Aligned'
    BY <1>0, <1>2, <1>3, <1>5, <1>7 DEF Aligned
  <1>12. Modes'
    BY <1>0, <1>2, <1>7 DEF Modes
  <1>13. Feeding'
    BY <1>2, <1>7, <1>9 DEF Feeding
  <1>14. HeldAim' /\ Released'
    BY <1>8, ObeyedAims
  <1>15. ScrubAnswer'
    <2>1. ~ScrubStops
      BY <1>1, <1>2, TailScratches DEF ScrubStops
    <2>2. ~ScrubStopped
      BY DEF ScrubStopped
    <2> QED BY <1>0, <1>2, <2>1, <2>2 DEF ScrubAnswer
  <1>16. \A x : AllGo(errands, audio.landing, x) => AllGo(errands', m, x)
    BY <1>2, <1>5, TailSeeks
  <1>17. \A x : LastGo(errands, audio.landing, x) => LastGo(errands', m, x)
    BY <1>2, <1>5, TailSeeks
  <1>18. SeekShown'
    <2> SUFFICES ASSUME Calm, ~StopsLast(errands') PROVE SeekAhead' \/ SeekHeard'
      BY <1>2 DEF SeekShown
    <2>1. SeekAhead \/ SeekHeard
      BY <1>0, <1>2, <1>8 DEF SeekShown
    <2>2. SeekAhead => SeekAhead'
      BY <1>7, <1>17 DEF SeekAhead
    <2>3. SeekHeard => SeekHeard'
      BY <1>2, <1>7, <1>16 DEF SeekHeard
    <2> QED BY <2>1, <2>2, <2>3
  <1>19. PlayAnswer'
    BY <1>0, <1>2, <1>7 DEF PlayAnswer
  <1>20. AnswerGoing'
    BY <1>0, <1>2, <1>7, <1>8, <1>16 DEF AnswerGoing, AfterJump
  <1>21. AnswerStill' /\ ShowsRight'
    BY <1>8 DEF AnswerStill, ShowsRight
  <1>22. Unsampled'
    <2> SUFFICES ASSUME PlayAsked, NEW i \in 1..Len(errands'), NEW j \in 1..Len(errands'), Behind(errands', i, j)
                 PROVE  screen.sought # NoPlace /\ Alone(errands', m, j, AfterJump(screen, audio.out))
      BY <1>2, <1>7 DEF Unsampled
    <2>1. i + 1 \in 1..Len(errands) /\ j + 1 \in 1..Len(errands) /\ Behind(errands, i + 1, j + 1)
      BY <1>2, TailSeeks
    <2>2. screen.sought # NoPlace /\ Alone(errands, audio.landing, j + 1, AfterJump(screen, audio.out))
      BY <1>0, <2>1 DEF Unsampled
    <2> QED BY <1>2, <1>5, <2>2, TailSeeks
  <1>23. ContentRight'
    <2>1. LandAll(errands, audio.landing, screen) => LandAll(errands', m, screen)
      BY <1>2, <1>5, TailSeeks
    <2> QED BY <1>0, <1>7, <1>8, <2>1 DEF ContentRight
  <1> QED BY <1>2, <1>10, <1>11, <1>12, <1>13, <1>14, <1>15, <1>18, <1>19, <1>20, <1>21, <1>22, <1>23 DEF PosInv

\* The feeder is moved.
LEMMA ObeysScratchKeeps ==
  ASSUME PosInv, errands # << >>, errands' = Tail(errands), screen' = screen, hand' = hand, known' = known,
         Head(errands).op = "scratch", audio.landing = NoPlace,
         audio' = [audio EXCEPT !.feeder = Head(errands).place]
  PROVE  PosInv'
  <1>0. /\ PositionTypeOK /\ OutBehind /\ Aligned /\ Asking /\ Modes /\ Feeding /\ HeldAim /\ Released
        /\ ScrubAnswer /\ SeekShown /\ PlayAnswer /\ AnswerGoing /\ AnswerStill /\ Unsampled
        /\ ContentRight /\ ShowsRight
    BY DEF PosInv
  <1> DEFINE p == Head(errands).place
  <1>1. Head(errands).op # "ask" /\ Head(errands).op # "stop" /\ Head(errands).op # "seek"
    OBVIOUS
  <1>2. /\ Polling' = Polling /\ PlayAsked' = PlayAsked /\ Sampled' = Sampled /\ ScratchAsked' = ScratchAsked
        /\ Scrubbed' = Scrubbed /\ InHand' = InHand /\ Calm' = Calm
        /\ Asking' /\ SpotsOnly(errands')
        /\ ScratchesGoOn(errands') /\ (~InHand => ScratchesEnd(errands'))
        /\ errands \in Seq(Errand) /\ errands' \in Seq(Errand)
        /\ errands' # << >> => (StopsLast(errands) <=> StopsLast(errands'))
        /\ errands' = << >> => ~StopsLast(errands)
    BY <1>1, ObeyedSame
  <1>3. p \in Spots
    BY <1>0, <1>2, TailKinds DEF Aligned
  <1>4. p \in Places /\ p # NoPlace
    BY <1>3, PosRulesHold DEF PosRules
  <1>5. audio' = [audio EXCEPT !.feeder = p]
    OBVIOUS
  <1>6. ~OnlyMoves(errands) /\ \A op : op # "scratch" => (Has(errands', op) <=> Has(errands, op))
    BY <1>1, <1>2, TailKinds
  <1>7. /\ audio' \in AudioRec /\ audio'.out = audio.out /\ audio'.at = audio.at /\ audio'.landed = audio.landed
        /\ audio'.landing = NoPlace /\ audio'.feeder = p /\ audio'.rested = audio.rested
        /\ audio'.moving = audio.moving
    BY <1>0, <1>4, <1>5 DEF PositionTypeOK, AudioRec, MaybePlace
  <1>8. ~screen.playing /\ ~(Calm /\ PlayAsked) /\ (Calm => ~Scrubbed)
    BY <1>0, <1>6 DEF Modes, PlayAnswer, Calm
  <1>9. Going' = Going
    BY <1>6, <1>7 DEF Going
  <1>10. PositionTypeOK' /\ OutBehind'
    BY <1>0, <1>2, <1>7 DEF PositionTypeOK, OutBehind
  <1>11. Aligned'
    BY <1>0, <1>2, <1>3, <1>7 DEF Aligned
  <1>12. Modes'
    BY <1>0, <1>2, <1>7, <1>8 DEF Modes
  <1>13. Feeding'
    <2>1. StopsFirst(errands') \/ (InHand /\ ~Has(errands', "seek"))
      BY <1>0, <1>2, TailScratches DEF Feeding
    <2> QED BY <1>2, <1>7, <2>1 DEF Feeding
  <1>14. HeldAim' /\ Released'
    BY <1>7, <1>9, ObeyedAims
  <1>15. ScrubAnswer'
    <2>1. ~ScrubStops
      BY <1>1, <1>2, TailScratches DEF ScrubStops
    <2>2. ~ScrubStopped
      BY DEF ScrubStopped
    <2> QED BY <1>0, <1>2, <2>1, <2>2 DEF ScrubAnswer
  <1>16. SeekShown'
    <2> SUFFICES ASSUME Calm, Going, ~StopsLast(errands') PROVE SeekAhead'
      BY <1>2, <1>9 DEF SeekShown
    <2>1. SeekAhead
      BY <1>0, <1>2, <1>6 DEF SeekShown, SeekHeard
    <2>2. LastGo(errands', NoPlace, screen.sought.place)
      BY <1>1, <1>2, <2>1, TailSeeks DEF SeekAhead
    <2> QED BY <1>7, <2>1, <2>2 DEF SeekAhead
  <1>17. PlayAnswer' /\ AnswerGoing' /\ AnswerStill'
    BY <1>2, <1>8 DEF PlayAnswer, AnswerGoing, AnswerStill
  <1>18. Unsampled'
    <2>1. Has(errands', "ask") => ~PlayAsked
      BY <1>0, <1>6, <1>8 DEF Asking, Modes
    <2> QED BY <1>2, <2>1 DEF Unsampled, Behind, Has
  <1>19. ContentRight'
    BY <1>8 DEF ContentRight
  <1>20. ShowsRight'
    BY <1>0, <1>2, <1>6, <1>7, <1>9 DEF ShowsRight
  <1> QED BY <1>2, <1>10, <1>11, <1>12, <1>13, <1>14, <1>15, <1>16, <1>17, <1>18, <1>19, <1>20 DEF PosInv

\* The hand is off: the file lands where the feeder was.
LEMMA ObeysStopKeeps ==
  ASSUME PosInv, errands # << >>, errands' = Tail(errands), screen' = screen, hand' = hand,
         Head(errands).op = "stop",
         audio' = IF audio.feeder = NoPlace THEN audio
                  ELSE [audio EXCEPT !.at = audio.feeder, !.out = audio.feeder \div screen.rate,
                          !.rested = audio.feeder, !.feeder = NoPlace, !.landed = audio.feeder],
         known' = audio'.at
  PROVE  PosInv'
  <1>0. /\ PositionTypeOK /\ OutBehind /\ Aligned /\ Asking /\ Modes /\ Feeding /\ HeldAim /\ Released
        /\ ScrubAnswer /\ SeekShown /\ PlayAnswer /\ AnswerGoing /\ AnswerStill /\ Unsampled
        /\ ContentRight /\ ShowsRight
    BY DEF PosInv
  <1>1. Head(errands).op # "ask" /\ Head(errands).op # "scratch" /\ Head(errands).op # "seek"
    OBVIOUS
  <1>2. /\ Polling' = Polling /\ PlayAsked' = PlayAsked /\ Sampled' = Sampled /\ ScratchAsked' = ScratchAsked
        /\ Scrubbed' = Scrubbed /\ InHand' = InHand /\ Calm' = Calm
        /\ Asking' /\ SpotsOnly(errands')
        /\ ScratchesGoOn(errands') /\ (~InHand => ScratchesEnd(errands'))
        /\ errands \in Seq(Errand) /\ errands' \in Seq(Errand)
        /\ errands' # << >> => (StopsLast(errands) <=> StopsLast(errands'))
        /\ errands' = << >> => StopsLast(errands)
    BY <1>1, ObeyedSame
  <1>3. ~OnlyMoves(errands) /\ Has(errands, "stop")
        /\ \A op : op # "stop" => (Has(errands', op) <=> Has(errands, op))
    BY <1>1, <1>2, TailKinds
  <1>4. ~screen.playing /\ ~(Calm /\ PlayAsked) /\ (Calm => ~Scrubbed)
    BY <1>0, <1>3 DEF Modes, PlayAnswer, Calm
  <1>5. /\ audio' \in AudioRec /\ audio'.landing = audio.landing /\ audio'.feeder = NoPlace
        /\ audio'.moving = audio.moving /\ audio'.out <= audio'.at
        /\ audio.feeder = NoPlace => audio' = audio
        /\ audio.feeder # NoPlace => /\ audio.landing = NoPlace /\ audio'.at = audio.feeder
                                     /\ audio'.landed = audio.feeder
    <2>1. CASE audio.feeder = NoPlace
      BY <1>0, <2>1 DEF PositionTypeOK, OutBehind
    <2>2. CASE audio.feeder # NoPlace
      <3> DEFINE f == audio.feeder
                 o == audio.feeder \div screen.rate
      <3>1. f \in Spots /\ f \in Places /\ audio.landing = NoPlace /\ screen.rate \in Tempi
        BY <1>0, <2>2, PositionFields, PosRulesHold DEF PosRules, Aligned, Feeding
      <3>2. Down(f, screen.rate) \in Places /\ Down(f, screen.rate) <= f
        <4> HIDE DEF f
        <4> QED BY <3>1, DivPlace
      <3>3. o \in Places /\ o <= f
        BY <3>2 DEF Down
      <3>4. audio' = [audio EXCEPT !.at = f, !.out = o, !.rested = f, !.feeder = NoPlace, !.landed = f]
        BY <2>2
      <3>5. f # NoPlace /\ f = audio.feeder
        BY <2>2
      <3> HIDE DEF f, o
      <3>6. /\ audio' \in AudioRec /\ audio'.at = f /\ audio'.out = o /\ audio'.feeder = NoPlace
            /\ audio'.landed = f /\ audio'.landing = audio.landing /\ audio'.moving = audio.moving
        <4>1. audio \in AudioRec /\ f \in MaybePlace /\ NoPlace \in MaybePlace
          BY <1>0, <3>1 DEF PositionTypeOK, MaybePlace
        <4>2. audio' \in AudioRec
          BY <3>1, <3>3, <3>4, <4>1 DEF AudioRec
        <4>3. /\ audio'.at = f /\ audio'.out = o /\ audio'.feeder = NoPlace
              /\ audio'.landed = f /\ audio'.landing = audio.landing /\ audio'.moving = audio.moving
          BY <3>4, <4>1 DEF AudioRec
        <4> QED BY <4>2, <4>3
      <3> QED BY <3>1, <3>3, <3>5, <3>6
    <2> QED BY <2>1, <2>2
  <1>6. Going' = Going
    BY <1>3, <1>5 DEF Going
  <1>7. PositionTypeOK'
    <2>1. audio'.at \in Places
      BY <1>5 DEF AudioRec
    <2> QED BY <1>0, <1>2, <1>5, <2>1 DEF PositionTypeOK, MaybePlace
  <1>8. OutBehind' /\ Aligned'
    BY <1>0, <1>2, <1>5 DEF OutBehind, Aligned
  <1>9. Modes'
    BY <1>0, <1>2, <1>4, <1>5 DEF Modes
  <1>10. Feeding'
    BY <1>2, <1>5 DEF Feeding
  <1>11. HeldAim' /\ Released'
    BY <1>6, ObeyedAims
  <1>12. ~Scrubbed /\ errands' = << >> /\ screen.shown # NoPlace => audio.feeder = screen.shown /\ audio.landing = NoPlace
    <2> SUFFICES ASSUME ~Scrubbed, errands' = << >>, screen.shown # NoPlace
                 PROVE  audio.feeder = screen.shown /\ audio.landing = NoPlace
      OBVIOUS
    <2>1. Len(errands) = 1
      BY <1>2, TakenFromQueue
    <2>2. FedAt(errands, audio, 1, screen.shown)
      BY <1>0, <1>3, <2>1 DEF Released
    <2> QED BY <1>2, <2>2, TailScratches
  <1>13. ~Scrubbed /\ errands' = << >> /\ screen.shown = NoPlace => ~Going /\ screen.sought = NoPlace
    BY <1>0, <1>2, <1>3 DEF Released
  <1>14. ScrubAnswer'
    <2> SUFFICES ASSUME ScratchAsked, ~Scrubbed
                 PROVE  audio.landing = NoPlace /\ screen.shown # NoPlace /\ ScrubStopped'
      BY <1>2, <1>5 DEF ScrubAnswer
    <2>1. audio.landing = NoPlace /\ screen.shown # NoPlace /\ ScrubStops
      BY <1>0 DEF ScrubAnswer, ScrubStopped
    <2>2. errands' = << >>
      BY <1>1, <1>2, <2>1, TailScratches DEF ScrubStops
    <2>3. ~Has(errands, "ask")
      BY <1>2, <1>3, <2>2, QueueFacts
    <2>4. Sampled
      BY <1>0, <2>3 DEF Asking, ScratchAsked, Polling
    <2>5. audio.feeder = screen.shown /\ screen.asked.pos = screen.shown
      BY <2>1, <2>4 DEF ScrubStops
    <2>6. audio'.landed = screen.asked.pos /\ audio'.at = screen.asked.pos
      BY <1>5, <2>1, <2>5
    <2> QED BY <1>2, <1>4, <2>1, <2>2, <2>4, <2>6 DEF ScrubStopped
  <1>15. SeekShown'
    <2> SUFFICES ASSUME Calm, Going, ~StopsLast(errands') PROVE SeekAhead'
      BY <1>2, <1>6 DEF SeekShown
    <2>1. ~StopsLast(errands)
      <3>1. CASE errands' = << >>
        <4>1. screen.shown # NoPlace /\ audio.landing = NoPlace
          BY <1>4, <1>12, <1>13, <3>1
        <4>2. ~Going
          BY <1>2, <1>3, <3>1, <4>1, QueueFacts DEF Going
        <4> QED BY <4>2
      <3>2. CASE errands' # << >>
        BY <1>2, <3>2
      <3> QED BY <3>1, <3>2
    <2>2. SeekAhead
      BY <1>0, <1>3, <2>1 DEF SeekShown, SeekHeard
    <2>3. LastGo(errands', audio.landing, screen.sought.place)
      BY <1>1, <1>2, <2>2, TailSeeks DEF SeekAhead
    <2> QED BY <1>5, <2>2, <2>3 DEF SeekAhead
  <1>16. PlayAnswer' /\ AnswerGoing' /\ AnswerStill'
    BY <1>2, <1>4 DEF PlayAnswer, AnswerGoing, AnswerStill
  <1>17. Unsampled'
    <2>1. Has(errands', "ask") => ~PlayAsked
      BY <1>0, <1>3, <1>4 DEF Asking, Modes
    <2> QED BY <1>2, <2>1 DEF Unsampled, Behind, Has
  <1>18. ContentRight'
    BY <1>4 DEF ContentRight
  <1>19. ShowsRight'
    <2> SUFFICES ASSUME Calm, ~Going, ~Has(errands', "stop")
                 PROVE  /\ screen.shown # NoPlace => screen.shown = audio'.landed
                        /\ screen.shown = NoPlace => screen.sought = NoPlace
      BY <1>2, <1>6 DEF ShowsRight
    <2>1. ~Scrubbed
      BY <1>4
    <2>2. CASE errands' = << >>
      BY <1>5, <1>12, <1>13, <2>1, <2>2
    <2>3. CASE errands' # << >>
      BY <1>0, <1>2, <1>3, <2>1, <2>3, QueueFacts DEF Released
    <2> QED BY <2>2, <2>3
  <1> QED BY <1>2, <1>7, <1>8, <1>9, <1>10, <1>11, <1>14, <1>15, <1>16, <1>17, <1>18, <1>19 DEF PosInv

\* The position is sampled.
LEMMA ObeysAskKeeps ==
  ASSUME PosInv, errands # << >>, errands' = Tail(errands), audio' = audio, known' = known, hand' = hand,
         Head(errands).op = "ask",
         screen' = [screen EXCEPT !.asked.pos = Position,
                      !.asked.truth = IF audio.feeder # NoPlace THEN audio.feeder ELSE audio.at]
  PROVE  PosInv'
  <1>0. /\ PositionTypeOK /\ OutBehind /\ Aligned /\ Asking /\ Modes /\ Feeding /\ HeldAim /\ Released
        /\ ScrubAnswer /\ SeekShown /\ PlayAnswer /\ AnswerGoing /\ AnswerStill /\ Unsampled
        /\ ContentRight /\ ShowsRight
    BY DEF PosInv
  <1> DEFINE p == Position
             u == IF audio.feeder # NoPlace THEN audio.feeder ELSE audio.at
             a == [screen.asked EXCEPT !.pos = p, !.truth = u]
  <1>1. /\ errands \in Seq(Errand) /\ errands' \in Seq(Errand) /\ Len(errands) \in Nat \ {0}
        /\ Len(errands') = Len(errands) - 1 /\ (errands' # << >> => Len(errands') >= 1)
        /\ Head(errands) = errands[1] /\ 1 \in 1..Len(errands)
        /\ \A i \in 1..Len(errands') : errands'[i] = errands[i + 1] /\ i + 1 \in 1..Len(errands) /\ i \in Nat
    <2>1. errands \in Seq(Errand)
      BY <1>0, PositionFields
    <2> QED BY <2>1, TakenFromQueue
  <1>2. /\ \A op : op # "ask" => (Has(errands', op) <=> Has(errands, op))
        /\ OnlyMoves(errands') <=> OnlyMoves(errands)
        /\ StopsLast(errands') <=> StopsLast(errands)
        /\ AsksOnce(errands') /\ ~Has(errands', "ask") /\ Has(errands, "ask") /\ SpotsOnly(errands')
    <2>1. /\ \A op : op # "ask" => (Has(errands', op) <=> Has(errands, op))
          /\ OnlyMoves(errands') <=> OnlyMoves(errands)
          /\ Has(errands, "ask")
      BY <1>1, TailKinds
    <2>2. /\ errands' # << >> => (StopsLast(errands) <=> StopsLast(errands'))
          /\ errands' = << >> => ~StopsLast(errands)
      BY <1>1, TailKinds
    <2>3. errands' = << >> => ~StopsLast(errands')
      BY DEF StopsLast
    <2>4. AsksOnce(errands') /\ ~Has(errands', "ask") /\ SpotsOnly(errands')
      BY <1>0, <1>1, TailKinds DEF Asking, Aligned
    <2> QED BY <2>1, <2>2, <2>3, <2>4
  <1>3. Polling /\ ~Sampled
    BY <1>0, <1>2 DEF Asking
  <1>4. p \in Places /\ u \in Places /\ p # NoPlace
    <2>1. /\ audio.out \in Places /\ audio.at \in Places /\ audio.feeder \in MaybePlace /\ audio.rested \in MaybePlace
          /\ screen.rate \in Tempi
      BY <1>0, PositionFields
    <2>2. audio.rested # NoPlace => audio.rested \div screen.rate \in Places
      <3> DEFINE r == audio.rested
      <3>1. r # NoPlace => r \in Places
        BY <2>1 DEF MaybePlace
      <3> HIDE DEF r
      <3>2. r # NoPlace => Down(r, screen.rate) \in Places
        BY <2>1, <3>1, DivPlace
      <3> QED BY <3>2 DEF r, Down
    <2>3. p \in Places
      BY <2>1, <2>2 DEF Position, MaybePlace
    <2>4. u \in Places
      BY <2>1 DEF MaybePlace
    <2> HIDE DEF p, u
    <2> QED BY <2>3, <2>4, PosRulesHold DEF PosRules
  <1>5. audio.feeder # NoPlace => p = audio.feeder
    BY DEF Position
  <1>6. audio.feeder = NoPlace => u = audio.at /\ (audio.rested = NoPlace => p = audio.out)
    BY DEF Position
  <1>7. screen' = [screen EXCEPT !.asked = a]
    BY <1>0, <1>3 DEF PositionTypeOK, ScreenRec, Polling
  <1> HIDE DEF p, u
  <1>8. /\ a \in [scrub : BOOLEAN, pos : MaybePlace, truth : MaybePlace]
        /\ a # NoPlace /\ a.pos = p /\ a.truth = u /\ a.scrub = screen.asked.scrub
    <2>1. screen.asked \in [scrub : BOOLEAN, pos : MaybePlace, truth : MaybePlace]
      BY <1>0, <1>3 DEF PositionTypeOK, ScreenRec, Polling
    <2> QED BY <1>4, <2>1, NoPlaceAssumption DEF MaybePlace
  <1> HIDE DEF a
  <1>9. /\ screen' \in ScreenRec /\ screen'.playing = screen.playing /\ screen'.shown = screen.shown
        /\ screen'.rate = screen.rate /\ screen'.sought = screen.sought /\ screen'.track = screen.track
        /\ screen'.asked = a
    BY <1>0, <1>7, <1>8 DEF PositionTypeOK, ScreenRec
  <1>10. /\ Polling' /\ Sampled' /\ PlayAsked' = PlayAsked /\ ScratchAsked' = ScratchAsked
         /\ Scrubbed' = Scrubbed /\ InHand' = InHand /\ Calm' = Calm /\ Going' = Going
    <2>1. Polling' /\ Sampled' /\ PlayAsked' = PlayAsked /\ ScratchAsked' = ScratchAsked
      BY <1>3, <1>4, <1>8, <1>9 DEF Polling, Sampled, PlayAsked, ScratchAsked
    <2>2. Scrubbed' = Scrubbed /\ InHand' = InHand /\ Going' = Going
      BY <1>2 DEF Scrubbed, InHand, Going
    <2> QED BY <2>1, <2>2 DEF Calm
  <1>11. /\ \A x : AfterJump(screen', x) = AfterJump(screen, x)
         /\ \A q, l : LandAll(q, l, screen') <=> LandAll(q, l, screen)
    <2>1. screen'.track = screen.track /\ screen'.rate = screen.rate
      BY <1>9
    <2> QED BY <2>1, SameContent
  <1>12. PlayAsked => screen.playing /\ audio.feeder = NoPlace /\ p = audio.out /\ u = audio.at /\ OnlyMoves(errands)
    BY <1>0, <1>3, <1>6 DEF Modes
  <1>13. PositionTypeOK' /\ OutBehind'
    BY <1>0, <1>1, <1>9 DEF PositionTypeOK, OutBehind
  <1>14. Aligned' /\ Asking' /\ Modes'
    BY <1>0, <1>2, <1>9, <1>10 DEF Aligned, Asking, Modes
  <1>15. Feeding'
    <2>1. /\ StopsFirst(errands) => StopsFirst(errands')
          /\ ScratchesGoOn(errands) => ScratchesGoOn(errands')
          /\ ScratchesEnd(errands) => ScratchesEnd(errands')
      BY <1>1, TailScratches
    <2> QED BY <1>0, <1>2, <1>10, <2>1 DEF Feeding
  <1>16. \A f : \A i \in 2..Len(errands) + 1 : FedAt(errands, audio, i, f) => FedAt(errands', audio, i - 1, f)
    BY <1>1, TailScratches
  <1>17. HeldAim'
    <2>1. Len(errands) + 1 \in 2..Len(errands) + 1 /\ (Len(errands) + 1) - 1 = Len(errands') + 1
      BY <1>1
    <2> QED BY <1>0, <1>10, <1>16, <2>1 DEF HeldAim
  <1>18. Released'
    <2> SUFFICES ASSUME ~Scrubbed, Has(errands, "stop")
                 PROVE  /\ screen.shown # NoPlace =>
                             StopsLast(errands) /\ FedAt(errands', audio, Len(errands'), screen.shown)
                        /\ screen.shown = NoPlace =>
                             (StopsLast(errands) <=> ~Going) /\ (StopsLast(errands) => screen.sought = NoPlace)
      BY <1>2, <1>9, <1>10 DEF Released
    <2>1. errands' # << >>
      BY <1>1, <1>2, QueueFacts
    <2>2. Len(errands) \in 2..Len(errands) + 1 /\ Len(errands) - 1 = Len(errands')
      BY <1>1, <2>1
    <2> QED BY <1>0, <1>16, <2>2 DEF Released
  <1>19. ScrubAnswer'
    <2> SUFFICES ASSUME ScratchAsked, ~Scrubbed
                 PROVE  audio.landing = NoPlace /\ screen.shown # NoPlace /\ ScrubStops'
      BY <1>9, <1>10 DEF ScrubAnswer
    <2>1. audio.landing = NoPlace /\ screen.shown # NoPlace /\ ScrubStops
      BY <1>0 DEF ScrubAnswer, ScrubStopped
    <2>2. AsksThenOne(errands')
      BY <1>1, <2>1, TailScratches DEF ScrubStops
    <2>3. p = screen.shown
      BY <1>5, <2>1 DEF ScrubStops
    <2> QED BY <1>2, <1>8, <1>9, <2>1, <2>2, <2>3 DEF ScrubStops
  <1>20. SeekShown'
    <2>1. \A x : LastGo(errands, audio.landing, x) => LastGo(errands', audio.landing, x)
      BY <1>1, TailSeeks
    <2>2. \A x : AllGo(errands, audio.landing, x) => AllGo(errands', audio.landing, x)
      BY <1>1, TailSeeks
    <2>3. SeekAhead => SeekAhead'
      BY <1>9, <2>1 DEF SeekAhead
    <2>4. SeekHeard => SeekHeard'
      BY <1>2, <1>9, <2>2 DEF SeekHeard
    <2> QED BY <1>0, <1>2, <1>10, <2>3, <2>4 DEF SeekShown
  <1>21. PlayAnswer'
    BY <1>0, <1>2, <1>10 DEF PlayAnswer
  <1>22. AnswerGoing'
    <2> SUFFICES ASSUME Calm, PlayAsked, Going
                 PROVE  /\ screen.sought # NoPlace /\ AfterJump(screen, audio.out) = screen.sought.place =>
                             AllGo(errands', audio.landing, screen.sought.place)
                        /\ screen.sought = NoPlace =>
                             \/ audio.out = screen.track.out
                             \/ audio.out = Down(screen.shown, screen.rate)
      BY <1>8, <1>9, <1>10, <1>11, <1>12 DEF AnswerGoing
    <2>1. SeekAhead \/ SeekHeard
      <3>1. ~StopsLast(errands)
        BY <1>1, <1>12, QueueFacts
      <3> QED BY <1>0, <3>1 DEF SeekShown
    <2>2. ASSUME screen.sought # NoPlace, AfterJump(screen, audio.out) = screen.sought.place
          PROVE  AllGo(errands', audio.landing, screen.sought.place)
      <3>1. LastGo(errands, audio.landing, screen.sought.place)
        BY <2>1, <2>2 DEF SeekAhead, SeekHeard
      <3>2. CASE Has(errands', "seek")
        <4>1. PICK j \in 1..Len(errands') : errands'[j].op = "seek"
          BY <3>2 DEF Has
        <4>2. j + 1 \in 1..Len(errands) /\ errands[j + 1].op = "seek" /\ Behind(errands, 1, j + 1)
          BY <1>1, <4>1 DEF Behind
        <4>3. Alone(errands, audio.landing, j + 1, screen.sought.place)
          BY <1>0, <1>1, <2>2, <4>2 DEF Unsampled
        <4>4. AllGo(errands, audio.landing, screen.sought.place)
          BY <1>1, <3>1, <4>2, <4>3, AloneAll
        <4> QED BY <1>1, <4>4, TailSeeks
      <3>3. CASE ~Has(errands', "seek")
        <4>1. ~Has(errands, "seek")
          BY <1>2, <3>3
        <4>2. audio.landing # NoPlace /\ audio.landing.at = screen.sought.place
          BY <1>1, <3>1, <4>1, LastGoes
        <4> QED BY <3>3, <4>2 DEF AllGo, Has
      <3> QED BY <3>2, <3>3
    <2>3. screen.sought = NoPlace => \/ audio.out = screen.track.out
                                     \/ audio.out = Down(screen.shown, screen.rate)
      BY <2>1 DEF SeekAhead, SeekHeard
    <2> QED BY <2>2, <2>3
  <1>23. AnswerStill'
    <2> SUFFICES ASSUME Calm, PlayAsked, ~Going PROVE AnswerTrue'
      BY <1>10 DEF AnswerStill
    <2>1. AfterJump(screen, audio.out) = audio.at
      BY <1>0, <1>12 DEF ContentRight
    <2> QED BY <1>8, <1>9, <1>11, <1>12, <2>1 DEF AnswerTrue
  <1>24. Unsampled'
    BY <1>2 DEF Unsampled, Behind, Has
  <1>25. ContentRight'
    <2>1. LandAll(errands, audio.landing, screen) => LandAll(errands', audio.landing, screen)
      BY <1>1, TailSeeks
    <2> QED BY <1>0, <1>9, <1>10, <1>11, <2>1 DEF ContentRight
  <1>26. ShowsRight'
    BY <1>0, <1>2, <1>9, <1>10 DEF ShowsRight
  <1> QED BY <1>13, <1>14, <1>15, <1>17, <1>18, <1>19, <1>20, <1>21, <1>22, <1>23, <1>24, <1>25, <1>26 DEF PosInv

\* Whatever the main thread takes up.
LEMMA ObeysKeep == ASSUME Mishaps = {} PROVE PosInv /\ Obeys => PosInv'
  <1> SUFFICES ASSUME PosInv, Obeys PROVE PosInv'
    OBVIOUS
  <1>1. errands # << >> /\ errands' = Tail(errands) /\ hand' = hand
    BY DEF Obeys
  <1>2. CASE /\ Head(errands).op = "ask"
             /\ screen' = [screen EXCEPT !.asked.pos = Position,
                          !.asked.truth = IF audio.feeder # NoPlace THEN audio.feeder ELSE audio.at]
             /\ UNCHANGED <<audio, known>>
    BY <1>1, <1>2, ObeysAskKeeps
  <1>3. CASE /\ Head(errands).op = "seek"
             /\ audio' = [audio EXCEPT !.rested = NoPlace,
                  !.landing = [out |-> Head(errands).place \div screen.rate, at |-> Head(errands).place]]
             /\ UNCHANGED <<screen, known>>
    BY <1>1, <1>3, ObeysSeekKeeps
  <1>4. CASE /\ Head(errands).op = "scratch" /\ audio.landing = NoPlace
             /\ audio' = [audio EXCEPT !.feeder = Head(errands).place]
             /\ UNCHANGED <<screen, known>>
    BY <1>1, <1>4, ObeysScratchKeeps
  <1>5. CASE /\ Head(errands).op = "stop"
             /\ audio' = IF audio.feeder = NoPlace THEN audio
                      ELSE [audio EXCEPT !.at = audio.feeder, !.out = audio.feeder \div screen.rate,
                              !.rested = audio.feeder, !.feeder = NoPlace, !.landed = audio.feeder]
             /\ known' = audio'.at
             /\ UNCHANGED screen
    BY <1>1, <1>5, ObeysStopKeeps
  <1> QED BY <1>2, <1>3, <1>4, <1>5 DEF Obeys

----------------------------------------------------------------------------

\* Every step keeps the invariant.
LEMMA PlaceStepKeeps ==
  ASSUME Mishaps = {}
  PROVE  PosInv /\ [PositionRuns \/ PositionWorld]_posVars => PosInv'
  <1> SUFFICES ASSUME PosInv, [PositionRuns \/ PositionWorld]_posVars PROVE PosInv'
    OBVIOUS
  <1>1. CASE PositionRuns
    BY <1>1, AsksKeep, LearnsKeep, FlushesKeep, ObeysKeep, LandsKeep, TimeKeeps DEF PositionRuns
  <1>2. CASE PositionWorld
    BY <1>2, LoadsKeep, PlaysKeep, GrabsKeep, ReleasesKeep, TurnsKeep, JumpsKeep, DragsKeep, ClicksKeep
       DEF PositionWorld
  <1>3. CASE UNCHANGED posVars
    <2>1. /\ audio' = audio /\ screen' = screen /\ hand' = hand /\ errands' = errands /\ known' = known
      BY <1>3 DEF posVars
    <2>2. /\ PositionTypeOK' = PositionTypeOK /\ OutBehind' = OutBehind /\ Aligned' = Aligned
          /\ HeldAim' = HeldAim
      BY <2>1 DEF PositionTypeOK, OutBehind, Aligned, HeldAim, InHand, Scrubbed
    <2>3. /\ Polling' = Polling /\ PlayAsked' = PlayAsked /\ Sampled' = Sampled /\ ScratchAsked' = ScratchAsked
          /\ Going' = Going /\ InStep' = InStep /\ Scrubbed' = Scrubbed /\ InHand' = InHand
      BY <2>1 DEF Polling, PlayAsked, Sampled, ScratchAsked, Going, InStep, Scrubbed, InHand
    <2>4. Calm' = Calm
      BY <2>1, <2>3 DEF Calm
    <2>5. Asking' = Asking /\ Modes' = Modes /\ Feeding' = Feeding /\ Released' = Released
      BY <2>1, <2>3 DEF Asking, Modes, Feeding, Released
    <2>6. /\ ScrubStops' = ScrubStops /\ ScrubStopped' = ScrubStopped /\ SeekAhead' = SeekAhead
          /\ SeekHeard' = SeekHeard /\ AnswerTrue' = AnswerTrue /\ AnswerOld' = AnswerOld
      BY <2>1, <2>3 DEF ScrubStops, ScrubStopped, SeekAhead, SeekHeard, AnswerTrue, AnswerOld
    <2>7. /\ ScrubAnswer' = ScrubAnswer /\ SeekShown' = SeekShown /\ PlayAnswer' = PlayAnswer
          /\ AnswerStill' = AnswerStill
      BY <2>1, <2>3, <2>4, <2>6 DEF ScrubAnswer, SeekShown, PlayAnswer, AnswerStill
    <2>8. /\ AnswerGoing' = AnswerGoing /\ Unsampled' = Unsampled
          /\ ContentRight' = ContentRight /\ ShowsRight' = ShowsRight
      BY <2>1, <2>3, <2>4 DEF AnswerGoing, Unsampled, ContentRight, ShowsRight
    <2> QED BY <2>2, <2>5, <2>7, <2>8 DEF PosInv
  <1> QED BY <1>1, <1>2, <1>3

\* The invariant holds throughout.
LEMMA PositionInvariant ==
  ASSUME Mishaps = {}
  PROVE  PositionSpec => []PosInv
  <1>1. PositionInit => PosInv
    BY InitKeeps
  <1>2. PosInv /\ [PositionRuns \/ PositionWorld]_posVars => PosInv'
    BY PlaceStepKeeps
  <1> QED BY <1>1, <1>2, PTL DEF PositionSpec

\* Once nothing is on its way, a deck shows the place that its audio had when it was
\* last heard of, or where its last seek went (getDeckTime, with pollDeckPosition and
\* seekDeck), for every length of track, rate and place, and in whatever order requests,
\* answers, seeks, scratches and their ends come, but for what the README names.
THEOREM PlaceIsShown ==
  ASSUME Mishaps = {}
  PROVE  PositionSpec => []ShowsItsPlace
  <1>1. PosInv => ShowsItsPlace
    <2> SUFFICES ASSUME PosInv, errands = << >>, audio.landing = NoPlace, screen.asked = NoPlace, hand = AtRest
                 PROVE  IF screen.shown # NoPlace THEN screen.shown \in {known, audio.landed}
                        ELSE screen.sought # NoPlace => screen.sought.place = audio.landed
      BY DEF ShowsItsPlace
    <2>1. ~Scrubbed
      BY RestFacts DEF Scrubbed
    <2>2. Calm /\ ~Going /\ ~Has(errands, "stop")
      BY <2>1 DEF Calm, Going, Has
    <2>3. ShowsRight
      BY DEF PosInv
    <2> QED BY <2>2, <2>3 DEF ShowsRight
  <1> QED BY <1>1, PositionInvariant, PTL

----------------------------------------------------------------------------
(* Types, whatever happens. *)

\* The types, with what they need of one another.
TypeInv ==
    /\ PositionTypeOK /\ OutBehind /\ Asking /\ SpotsOnly(errands)
    /\ audio.landing # NoPlace => audio.landing.out <= audio.landing.at
    /\ hand.due # NoPlace => hand.due \in Spots
    /\ hand.moved => hand.target \in Spots

\* A command that is no request is sent.
LEMMA SentTyped ==
  ASSUME TypeInv, NEW e \in Errand, e.op # "ask", e.op = "seek" \/ e.op = "scratch" => e.place \in Spots,
         errands' = Append(errands, e), screen'.asked = screen.asked
  PROVE  errands' \in Seq(Errand) /\ SpotsOnly(errands') /\ Asking'
  <1>1. errands \in Seq(Errand)
    BY PositionFields DEF TypeInv
  <1>2. /\ AsksOnce(errands) => AsksOnce(errands')
        /\ Has(errands', "ask") <=> Has(errands, "ask")
        /\ SpotsOnly(errands) => SpotsOnly(errands')
    BY <1>1, AppendKinds
  <1>3. errands' \in Seq(Errand)
    BY <1>1, Appended
  <1> QED BY <1>2, <1>3 DEF TypeInv, Asking, Polling, Sampled

\* So is a seek.
LEMMA SeeksTyped ==
  ASSUME TypeInv, NEW p \in Spots, Seeks(p)
  PROVE  screen' \in ScreenRec /\ errands' \in Seq(Errand) /\ SpotsOnly(errands') /\ Asking'
  <1> DEFINE e == [op |-> "seek", place |-> p]
             s == [place |-> p, age |-> 0]
  <1>1. p \in Places /\ e \in Errand /\ e.op = "seek" /\ e.place = p /\ s \in [place : Places, age : Nat]
    BY PosRulesHold DEF PosRules, Errand, MaybePlace
  <1>2. errands' = Append(errands, e) /\ screen' = [screen EXCEPT !.shown = NoPlace, !.sought = s]
    BY DEF Seeks, Sends, Sought
  <1> HIDE DEF e, s
  <1>3. screen' \in ScreenRec /\ screen'.asked = screen.asked
    BY <1>1, <1>2 DEF TypeInv, PositionTypeOK, ScreenRec
  <1> QED BY <1>1, <1>2, <1>3, SentTyped

\* What the page and its user do keeps the types.
LEMMA WorldTyped == TypeInv /\ PositionWorld => TypeInv'
  <1> SUFFICES ASSUME TypeInv, PositionWorld PROVE TypeInv'
    OBVIOUS
  <1>0. /\ PositionTypeOK /\ OutBehind /\ Asking /\ SpotsOnly(errands)
        /\ audio \in AudioRec /\ screen \in ScreenRec /\ hand \in GripRec /\ errands \in Seq(Errand)
    BY DEF TypeInv, PositionTypeOK
  <1>1. CASE LoadsTrack
    <2>1. /\ audio' = [out |-> 0, at |-> 0, moving |-> FALSE, feeder |-> NoPlace,
                 rested |-> NoPlace, landed |-> NoPlace, landing |-> NoPlace]
          /\ screen' = [screen EXCEPT !.playing = FALSE, !.shown = NoPlace, !.track = NoPlace]
          /\ known' = NoPlace /\ hand' = hand /\ errands' = errands
      BY <1>1 DEF LoadsTrack, Unknown
    <2>2. audio' \in AudioRec /\ audio'.out <= audio'.at /\ audio'.landing = NoPlace
      BY <2>1, PosRulesHold DEF PosRules, AudioRec, MaybePlace
    <2>3. screen' \in ScreenRec /\ screen'.asked = screen.asked
      BY <1>0, <2>1 DEF ScreenRec
    <2> QED BY <1>0, <2>1, <2>2, <2>3
            DEF TypeInv, PositionTypeOK, OutBehind, Asking, Polling, Sampled, MaybePlace
  <1>2. CASE PlaysOrPauses
    <2> DEFINE m == ~screen.playing
               r == IF screen.playing THEN audio.rested ELSE NoPlace
    <2>1. m \in BOOLEAN /\ r \in MaybePlace
      BY <1>0 DEF AudioRec, MaybePlace
    <2>2. /\ audio' = [audio EXCEPT !.moving = m, !.rested = r] /\ screen' = [screen EXCEPT !.playing = m]
          /\ hand' = hand /\ errands' = errands /\ known' = known
      BY <1>0, <1>2 DEF PlaysOrPauses, ScreenRec, AudioRec
    <2> HIDE DEF m, r
    <2>3. audio' \in AudioRec /\ audio'.out = audio.out /\ audio'.at = audio.at /\ audio'.landing = audio.landing
      BY <1>0, <2>1, <2>2 DEF AudioRec
    <2>4. screen' \in ScreenRec /\ screen'.asked = screen.asked
      BY <1>0, <2>1, <2>2 DEF ScreenRec
    <2> QED BY <1>0, <2>2, <2>3, <2>4 DEF TypeInv, PositionTypeOK, OutBehind, Asking, Polling, Sampled
  <1>3. ASSUME NEW r \in Tempi, TurnsRate(r) PROVE TypeInv'
    <2>1. /\ screen' = [screen EXCEPT !.rate = r]
          /\ audio' = audio /\ hand' = hand /\ errands' = errands /\ known' = known
      BY <1>3 DEF TurnsRate
    <2>2. screen' \in ScreenRec /\ screen'.asked = screen.asked
      BY <1>0, <2>1 DEF ScreenRec
    <2> QED BY <1>0, <2>1, <2>2 DEF TypeInv, PositionTypeOK, OutBehind, Asking, Polling, Sampled
  <1>4. CASE Grabs
    <2>1. DeckTime \in Int /\ screen.playing \in BOOLEAN
      BY <1>0, DeckTimeType, PositionFields
    <2>2. hand' = [target |-> DeckTime, due |-> NoPlace, silent |-> screen.playing, moved |-> FALSE]
          /\ audio' = audio /\ screen' = screen /\ errands' = errands /\ known' = known
      BY <1>4 DEF Grabs
    <2>3. hand' \in GripRec /\ hand'.due = NoPlace /\ ~hand'.moved
      BY <2>1, <2>2 DEF GripRec, MaybePlace
    <2> QED BY <1>0, <2>2, <2>3 DEF TypeInv, PositionTypeOK, OutBehind, Asking, Polling, Sampled
  <1>5. ASSUME NEW p \in Spots, Drags(p) PROVE TypeInv'
    <2>1. p \in Int /\ p \in Places
      BY PosRulesHold DEF PosRules
    <2>2. hand' = [hand EXCEPT !.target = p, !.due = p, !.moved = TRUE]
          /\ audio' = audio /\ screen' = screen /\ errands' = errands /\ known' = known
      BY <1>5 DEF Drags
    <2>3. hand' \in GripRec /\ hand'.due = p /\ hand'.target = p
      BY <1>0, <2>1, <2>2 DEF GripRec, MaybePlace
    <2> QED BY <1>0, <2>2, <2>3 DEF TypeInv, PositionTypeOK, OutBehind, Asking, Polling, Sampled
  <1>6. ASSUME NEW p \in Spots, Jumps(p) PROVE TypeInv'
    <2>1. Seeks(p) /\ audio' = audio /\ hand' = hand /\ known' = known
      BY <1>6 DEF Jumps
    <2>2. screen' \in ScreenRec /\ errands' \in Seq(Errand) /\ SpotsOnly(errands') /\ Asking'
      BY <2>1, SeeksTyped
    <2> QED BY <1>0, <2>1, <2>2 DEF TypeInv, PositionTypeOK, OutBehind
  <1>7. ASSUME NEW p \in Spots, Clicks(p) PROVE TypeInv'
    <2>1. Seeks(p) /\ audio' = audio /\ hand' = AtRest /\ known' = known
      BY <1>7 DEF Clicks
    <2>2. screen' \in ScreenRec /\ errands' \in Seq(Errand) /\ SpotsOnly(errands') /\ Asking'
      BY <2>1, SeeksTyped
    <2> QED BY <1>0, <2>1, <2>2, RestFacts DEF TypeInv, PositionTypeOK, OutBehind
  <1>8. CASE Releases
    <2> DEFINE e == [op |-> "stop", place |-> NoPlace]
    <2>1. /\ audio' = audio /\ hand' = AtRest /\ known' = known /\ hand.moved
          /\ \/ Seeks(hand.target)
             \/ screen' = [screen EXCEPT !.shown = hand.target] /\ errands' = Append(errands, e)
      BY <1>8 DEF Releases, Sends
    <2>2. hand.target \in Spots
      BY <2>1 DEF TypeInv
    <2>3. screen' \in ScreenRec /\ errands' \in Seq(Errand) /\ SpotsOnly(errands') /\ Asking'
      <3>1. CASE Seeks(hand.target)
        BY <2>2, <3>1, SeeksTyped
      <3>2. CASE screen' = [screen EXCEPT !.shown = hand.target] /\ errands' = Append(errands, e)
        <4>1. e \in Errand /\ e.op = "stop"
          BY DEF Errand, MaybePlace
        <4> HIDE DEF e
        <4>2. screen' \in ScreenRec /\ screen'.asked = screen.asked
          BY <1>0, <3>2, PositionFields DEF ScreenRec
        <4> QED BY <3>2, <4>1, <4>2, SentTyped
      <3> QED BY <2>1, <3>1, <3>2
    <2> QED BY <1>0, <2>1, <2>3, RestFacts DEF TypeInv, PositionTypeOK, OutBehind
  <1> QED BY <1>1, <1>2, <1>3, <1>4, <1>5, <1>6, <1>7, <1>8 DEF PositionWorld

\* The main thread keeps them.
LEMMA ObeysTyped == TypeInv /\ Obeys => TypeInv'
  <1> SUFFICES ASSUME TypeInv, Obeys PROVE TypeInv'
    OBVIOUS
  <1>0. /\ PositionTypeOK /\ OutBehind /\ Asking /\ SpotsOnly(errands)
        /\ audio \in AudioRec /\ screen \in ScreenRec /\ hand \in GripRec /\ errands \in Seq(Errand)
        /\ known \in MaybePlace
    BY DEF TypeInv, PositionTypeOK
  <1>1. errands # << >> /\ errands' = Tail(errands) /\ hand' = hand
    BY DEF Obeys
  <1>2. /\ errands' \in Seq(Errand) /\ SpotsOnly(errands') /\ AsksOnce(errands')
        /\ Has(errands, "ask") <=> Has(errands', "ask") \/ Head(errands).op = "ask"
        /\ Head(errands).op = "ask" => ~Has(errands', "ask")
        /\ Head(errands).op = "seek" \/ Head(errands).op = "scratch" => Head(errands).place \in Spots
    <2>1. errands' \in Seq(Errand)
      BY <1>0, <1>1, TakenFromQueue
    <2> QED BY <1>0, <1>1, <2>1, TailKinds DEF Asking
  <1>3. /\ Spots \subseteq Places /\ screen.rate \in Tempi
        /\ \A p \in Places : Down(p, screen.rate) \in Places /\ Down(p, screen.rate) <= p
    <2>1. screen.rate \in Tempi
      BY <1>0, PositionFields
    <2> QED BY <2>1, DivPlace, PosRulesHold DEF PosRules
  <1>4. CASE Head(errands).op = "ask"
    <2> DEFINE p == Position
               u == IF audio.feeder # NoPlace THEN audio.feeder ELSE audio.at
               a == [screen.asked EXCEPT !.pos = p, !.truth = u]
    <2>1. screen.asked # NoPlace
      BY <1>0, <1>2, <1>4 DEF Asking, Polling
    <2>2. screen' = [screen EXCEPT !.asked = a] /\ audio' = audio /\ known' = known
      BY <1>0, <1>4, <2>1 DEF Obeys, ScreenRec
    <2>3. p \in Places /\ u \in Places
      <3>1. audio.rested # NoPlace => audio.rested \div screen.rate \in Places
        BY <1>0, <1>3, PositionFields DEF Down, MaybePlace
      <3> QED BY <1>0, <3>1, PositionFields DEF Position, MaybePlace
    <2> HIDE DEF p, u
    <2>4. a \in [scrub : BOOLEAN, pos : MaybePlace, truth : MaybePlace] /\ a.pos = p /\ p # NoPlace /\ a # NoPlace
      <3>1. screen.asked \in [scrub : BOOLEAN, pos : MaybePlace, truth : MaybePlace]
        BY <1>0, <2>1 DEF ScreenRec
      <3>2. p # NoPlace
        BY <2>3, PosRulesHold DEF PosRules
      <3> QED BY <2>3, <3>1, <3>2, NoPlaceAssumption DEF MaybePlace
    <2> HIDE DEF a
    <2>5. screen' \in ScreenRec /\ screen'.asked = a
      BY <1>0, <2>2, <2>4 DEF ScreenRec
    <2>6. Asking'
      BY <1>2, <1>4, <2>4, <2>5 DEF Asking, Polling, Sampled
    <2> QED BY <1>0, <1>1, <1>2, <2>2, <2>5, <2>6 DEF TypeInv, PositionTypeOK, OutBehind
  <1>5. CASE Head(errands).op # "ask"
    <2>1. screen' = screen
      BY <1>5 DEF Obeys
    <2>2. Asking'
      BY <1>0, <1>2, <1>5, <2>1 DEF Asking, Polling, Sampled
    <2>3. /\ audio' \in AudioRec /\ audio'.out <= audio'.at /\ known' \in MaybePlace
          /\ audio'.landing # NoPlace => audio'.landing.out <= audio'.landing.at
      <3>1. CASE Head(errands).op = "seek"
        <4> DEFINE p == Head(errands).place
                   m == [out |-> p \div screen.rate, at |-> p]
        <4>1. m \in [out : Places, at : Places] /\ m.out <= m.at
          BY <1>2, <1>3, <3>1 DEF Down
        <4>2. audio' = [audio EXCEPT !.rested = NoPlace, !.landing = m] /\ known' = known
          BY <3>1 DEF Obeys
        <4> HIDE DEF m
        <4>3. /\ audio' \in AudioRec /\ audio'.out = audio.out /\ audio'.at = audio.at
              /\ audio'.landing = m
          BY <1>0, <4>1, <4>2 DEF AudioRec, MaybePlace
        <4> QED BY <1>0, <4>1, <4>2, <4>3 DEF OutBehind
      <3>2. CASE Head(errands).op = "scratch"
        <4> DEFINE p == Head(errands).place
        <4>1. p \in MaybePlace
          BY <1>2, <1>3, <3>2 DEF MaybePlace
        <4>2. audio' = [audio EXCEPT !.feeder = p] /\ known' = known
          BY <3>2 DEF Obeys
        <4> HIDE DEF p
        <4>3. /\ audio' \in AudioRec /\ audio'.out = audio.out /\ audio'.at = audio.at
              /\ audio'.landing = audio.landing
          BY <1>0, <4>1, <4>2 DEF AudioRec
        <4> QED BY <1>0, <4>2, <4>3 DEF OutBehind, TypeInv
      <3>3. CASE Head(errands).op = "stop"
        <4> DEFINE f == audio.feeder
                   o == audio.feeder \div screen.rate
        <4>1. known' = audio'.at /\ audio' = IF f = NoPlace THEN audio
                ELSE [audio EXCEPT !.at = f, !.out = o, !.rested = f, !.feeder = NoPlace, !.landed = f]
          BY <3>3 DEF Obeys
        <4>2. CASE f = NoPlace
          BY <1>0, <4>1, <4>2, PositionFields DEF OutBehind, TypeInv, MaybePlace
        <4>3. CASE f # NoPlace
          <5>1. f \in Places
            BY <1>0, <4>3, PositionFields DEF MaybePlace
          <5>2. o \in Places /\ o <= f
            BY <1>3, <5>1 DEF Down
          <5>3. f \in MaybePlace /\ NoPlace \in MaybePlace
            BY <5>1 DEF MaybePlace
          <5> HIDE DEF f, o
          <5>4. audio' = [audio EXCEPT !.at = f, !.out = o, !.rested = f, !.feeder = NoPlace, !.landed = f]
            BY <4>1, <4>3
          <5>5. /\ audio' \in AudioRec /\ audio'.at = f /\ audio'.out = o
                /\ audio'.landing = audio.landing
            BY <1>0, <5>1, <5>2, <5>3, <5>4 DEF AudioRec
          <5> QED BY <4>1, <5>2, <5>3, <5>5 DEF TypeInv
        <4> QED BY <4>2, <4>3
      <3> QED BY <1>5, <3>1, <3>2, <3>3 DEF Obeys
    <2> QED BY <1>0, <1>1, <1>2, <2>1, <2>2, <2>3 DEF TypeInv, PositionTypeOK, OutBehind
  <1> QED BY <1>4, <1>5

\* So does what goes on without the user.
LEMMA RunsTyped == TypeInv /\ PositionRuns => TypeInv'
  <1> SUFFICES ASSUME TypeInv, PositionRuns PROVE TypeInv'
    OBVIOUS
  <1>0. /\ PositionTypeOK /\ OutBehind /\ Asking /\ SpotsOnly(errands)
        /\ audio \in AudioRec /\ screen \in ScreenRec /\ hand \in GripRec /\ errands \in Seq(Errand)
        /\ known \in MaybePlace
    BY DEF TypeInv, PositionTypeOK
  <1>1. CASE Asks
    <2> DEFINE e == [op |-> "ask", place |-> NoPlace]
               a == [scrub |-> Scrubbed, pos |-> NoPlace, truth |-> NoPlace]
    <2>1. /\ screen.asked = NoPlace /\ screen' = [screen EXCEPT !.asked = a] /\ errands' = Append(errands, e)
          /\ audio' = audio /\ hand' = hand /\ known' = known
      BY <1>1 DEF Asks, Sends
    <2>2. e \in Errand /\ e.op = "ask"
      BY DEF Errand, MaybePlace
    <2>3. a \in [scrub : BOOLEAN, pos : MaybePlace, truth : MaybePlace] /\ a.pos = NoPlace
      BY DEF Scrubbed, MaybePlace
    <2> HIDE DEF a, e
    <2>9. a # NoPlace
      BY <2>3, NoPlaceAssumption
    <2>4. screen' \in ScreenRec /\ screen'.asked = a
      BY <1>0, <2>1, <2>3 DEF ScreenRec
    <2>5. ~Has(errands, "ask")
      BY <1>0, <2>1 DEF Asking, Polling
    <2>6. AsksOnce(errands') /\ Has(errands', "ask") /\ SpotsOnly(errands')
      BY <1>0, <2>1, <2>2, <2>5, AppendKinds DEF Asking
    <2>7. Asking'
      BY <2>3, <2>4, <2>6, <2>9 DEF Asking, Polling, Sampled
    <2>8. errands' \in Seq(Errand)
      BY <1>0, <2>1, <2>2, Appended
    <2> QED BY <1>0, <2>1, <2>4, <2>6, <2>7, <2>8 DEF TypeInv, PositionTypeOK, OutBehind
  <1>2. CASE Learns
    <2>1. /\ screen.asked # NoPlace /\ screen.asked.pos # NoPlace
          /\ audio' = audio /\ hand' = hand /\ errands' = errands
      BY <1>2 DEF Learns
    <2> DEFINE pos == screen.asked.pos
               place == IF screen.asked.scrub THEN pos ELSE Content(pos)
               s == IF screen.asked.scrub THEN screen.sought ELSE NoPlace
               t == [out |-> pos, place |-> place, time |-> 0, way |-> 0]
    <2>2. \/ screen' = [screen EXCEPT !.asked = NoPlace] /\ known' = known
          \/ /\ screen' = [screen EXCEPT !.asked = NoPlace, !.shown = place, !.sought = s, !.track = t]
             /\ known' = screen.asked.truth
      BY <1>0, <1>2 DEF Learns, ScreenRec
    <2>3. pos \in Places /\ screen.asked.truth \in MaybePlace /\ screen.rate \in Nat /\ pos \in Int
      <3>1. Places \subseteq Int /\ Tempi \subseteq Nat
        BY PosRulesHold DEF PosRules
      <3> QED BY <1>0, <2>1, <3>1, PositionFields DEF MaybePlace
    <2>4. place \in Int
      <3>1. pos * screen.rate \in Int
        BY <2>3
      <3>2. screen.track # NoPlace => screen.track.place + screen.track.way \in Int
        BY <1>0, PositionFields
      <3> QED BY <2>3, <3>1, <3>2 DEF Content, Scaled
    <2>5. s \in {NoPlace} \cup [place : Places, age : Nat]
      BY <1>0 DEF ScreenRec
    <2> HIDE DEF place, s
    <2>6. t \in [out : Places, place : Int, time : Nat, way : Nat]
      BY <2>3, <2>4
    <2> HIDE DEF t
    <2>7. screen' \in ScreenRec /\ screen'.asked = NoPlace /\ known' \in MaybePlace
      <3>1. CASE screen' = [screen EXCEPT !.asked = NoPlace] /\ known' = known
        BY <1>0, <3>1 DEF ScreenRec
      <3>2. CASE /\ screen' = [screen EXCEPT !.asked = NoPlace, !.shown = place, !.sought = s, !.track = t]
                 /\ known' = screen.asked.truth
        BY <1>0, <2>3, <2>4, <2>5, <2>6, <3>2 DEF ScreenRec
      <3> QED BY <2>2, <3>1, <3>2
    <2>8. Asking'
      BY <1>0, <2>1, <2>7 DEF Asking, Polling, Sampled
    <2> QED BY <1>0, <2>1, <2>7, <2>8 DEF TypeInv, PositionTypeOK, OutBehind
  <1>3. CASE Flushes
    <2> DEFINE e == [op |-> "scratch", place |-> hand.due]
    <2>1. /\ hand.due \in Spots /\ hand' = [hand EXCEPT !.due = NoPlace] /\ audio' = audio /\ known' = known
          /\ \/ errands' = Append(errands, e) /\ screen' = screen
             \/ Seeks(hand.due)
             \/ screen' = screen /\ errands' = errands
      BY <1>3 DEF Flushes, Sends, TypeInv
    <2>2. hand' \in GripRec /\ hand'.target = hand.target /\ hand'.due = NoPlace /\ hand'.moved = hand.moved
      BY <1>0, <2>1 DEF GripRec, MaybePlace
    <2>3. screen' \in ScreenRec /\ errands' \in Seq(Errand) /\ SpotsOnly(errands') /\ Asking'
      <3>1. CASE errands' = Append(errands, e) /\ screen' = screen
        <4>1. e \in Errand /\ e.op = "scratch" /\ e.place = hand.due
          BY <2>1, PosRulesHold DEF PosRules, Errand, MaybePlace
        <4> HIDE DEF e
        <4> QED BY <1>0, <2>1, <3>1, <4>1, SentTyped
      <3>2. CASE Seeks(hand.due)
        BY <2>1, <3>2, SeeksTyped
      <3>3. CASE screen' = screen /\ errands' = errands
        BY <1>0, <3>3 DEF Asking, Polling, Sampled
      <3> QED BY <2>1, <3>1, <3>2, <3>3
    <2> QED BY <1>0, <2>1, <2>2, <2>3 DEF TypeInv, PositionTypeOK, OutBehind
  <1>4. CASE SeekLands
    <2>1. /\ audio.landing # NoPlace
          /\ audio' = [audio EXCEPT !.at = audio.landing.at, !.out = audio.landing.out,
                              !.landed = audio.landing.at, !.landing = NoPlace]
          /\ known' = NoPlace /\ hand' = hand /\ errands' = errands
          /\ screen' = IF screen.asked = NoPlace THEN screen ELSE [screen EXCEPT !.asked.truth = NoPlace]
      BY <1>4 DEF SeekLands
    <2>2. audio.landing.at \in Places /\ audio.landing.out \in Places /\ audio.landing.out <= audio.landing.at
      BY <1>0, <2>1, PositionFields DEF TypeInv
    <2>3. audio' \in AudioRec /\ audio'.out <= audio'.at /\ audio'.landing = NoPlace
      BY <1>0, <2>1, <2>2 DEF AudioRec, MaybePlace
    <2>4. /\ screen' \in ScreenRec
          /\ screen'.asked = NoPlace <=> screen.asked = NoPlace
          /\ screen.asked # NoPlace => screen'.asked.pos = screen.asked.pos
      <3>1. CASE screen.asked = NoPlace
        BY <1>0, <2>1, <3>1
      <3>2. CASE screen.asked # NoPlace
        <4> DEFINE a == [screen.asked EXCEPT !.truth = NoPlace]
        <4>1. a \in [scrub : BOOLEAN, pos : MaybePlace, truth : MaybePlace] /\ a.pos = screen.asked.pos
          BY <1>0, <3>2 DEF ScreenRec, MaybePlace
        <4>2. screen' = [screen EXCEPT !.asked = a]
          BY <1>0, <2>1, <3>2 DEF ScreenRec
        <4> HIDE DEF a
        <4> QED BY <1>0, <3>2, <4>1, <4>2, NoPlaceAssumption DEF ScreenRec
      <3> QED BY <3>1, <3>2
    <2>5. Asking'
      BY <1>0, <2>1, <2>4 DEF Asking, Polling, Sampled
    <2> QED BY <1>0, <2>1, <2>3, <2>4, <2>5 DEF TypeInv, PositionTypeOK, OutBehind, MaybePlace
  <1>5. CASE TimePasses
    <2> DEFINE goes == audio.moving /\ audio.landing = NoPlace
    <2>1. /\ goes => audio.at + screen.rate <= Extent
          /\ audio' = IF goes THEN [audio EXCEPT !.at = audio.at + screen.rate, !.out = audio.out + 1] ELSE audio
          /\ screen' = [screen EXCEPT !.sought = Older(screen.sought), !.track = Further(screen.track)]
          /\ hand' = hand /\ errands' = errands /\ known' = known
      BY <1>0, <1>5 DEF TimePasses, ScreenRec
    <2>2. /\ screen.rate \in Nat /\ screen.rate >= 1 /\ Extent \in Nat /\ audio.at \in Nat /\ audio.out \in Nat
          /\ audio.out <= audio.at
      BY <1>0, PositionFields, PosRulesHold DEF PosRules, OutBehind
    <2>3. audio' \in AudioRec /\ audio'.out <= audio'.at /\ audio'.landing = audio.landing
      <3>1. CASE goes
        <4> DEFINE n == audio.at + screen.rate
                   o == audio.out + 1
        <4>1. n \in Places /\ o \in Places /\ o <= n
          BY <2>1, <2>2, <3>1 DEF Places
        <4>2. audio' = [audio EXCEPT !.at = n, !.out = o]
          BY <2>1, <3>1
        <4> HIDE DEF n, o
        <4> QED BY <1>0, <4>1, <4>2 DEF AudioRec
      <3>2. CASE ~goes
        BY <1>0, <2>1, <3>2 DEF OutBehind
      <3> QED BY <3>1, <3>2
    <2>4. Older(screen.sought) \in {NoPlace} \cup [place : Places, age : Nat]
      <3>1. screen.sought # NoPlace => screen.sought \in [place : Places, age : Nat]
        BY <1>0 DEF ScreenRec
      <3> QED BY <3>1 DEF Older
    <2>5. Further(screen.track) \in {NoPlace} \cup [out : Places, place : Int, time : Nat, way : Nat]
      <3> DEFINE k == screen.track
                 time == k.time + 1
                 way == k.way + screen.rate
      <3>1. k # NoPlace => /\ k \in [out : Places, place : Int, time : Nat, way : Nat]
                           /\ time \in Nat /\ way \in Nat
        BY <1>0, <2>2, PositionFields DEF ScreenRec
      <3>2. Further(k) = IF k = NoPlace \/ k.time > Extent THEN k ELSE [k EXCEPT !.time = time, !.way = way]
        BY DEF Further
      <3> HIDE DEF k, time, way
      <3>3. Further(k) \in {NoPlace} \cup [out : Places, place : Int, time : Nat, way : Nat]
        BY <3>1, <3>2
      <3> QED BY <3>3 DEF k
    <2>6. screen' \in ScreenRec /\ screen'.asked = screen.asked
      BY <1>0, <2>1, <2>4, <2>5 DEF ScreenRec
    <2> QED BY <1>0, <2>1, <2>3, <2>6 DEF TypeInv, PositionTypeOK, OutBehind, Asking, Polling, Sampled
  <1> QED BY <1>1, <1>2, <1>3, <1>4, <1>5, ObeysTyped DEF PositionRuns

\* Places, rates, requests and commands are what they are said to be, whatever of the
\* mishaps happens (positionPoll.ts, seekBus.ts, pipeline.rs): a position stays in the
\* track, and behind the place, and one request at most is out.
THEOREM PlacesAreTyped == PositionSpec => []PositionTypeOK
  <1>1. PositionInit => TypeInv
    <2> SUFFICES ASSUME PositionInit PROVE TypeInv
      OBVIOUS
    <2>1. PositionTypeOK /\ OutBehind /\ Asking /\ SpotsOnly(errands)
      BY InitKeeps DEF PosInv, Aligned
    <2>2. audio.landing = NoPlace /\ hand = AtRest
      BY DEF PositionInit
    <2> QED BY <2>1, <2>2, RestFacts DEF TypeInv
  <1>2. TypeInv /\ [PositionRuns \/ PositionWorld]_posVars => TypeInv'
    <2> SUFFICES ASSUME TypeInv, [PositionRuns \/ PositionWorld]_posVars PROVE TypeInv'
      OBVIOUS
    <2>1. CASE UNCHANGED posVars
      BY <2>1 DEF posVars, TypeInv, PositionTypeOK, OutBehind, Asking, Polling, Sampled
    <2> QED BY <2>1, WorldTyped, RunsTyped
  <1>3. TypeInv => PositionTypeOK
    BY DEF TypeInv
  <1> QED BY <1>1, <1>2, <1>3, PTL DEF PositionSpec

----------------------------------------------------------------------------
(* The plugin that the page shows, when no change is undone before the      *)
(* watcher has told of it.                                                  *)

\* What there is to show of a plugin.
Shown(id) == IF disk[id] = 0 THEN Builtin ELSE PluginSource(id, disk)

\* What the watcher has yet to find, and what the page has yet to hear.
ToTell == ChangedIds(watch.baseline, disk)
Announced(id) == \E i \in 1..Len(events) : id \in events[i]

\* The read that counts brings what there is to show, or it is shown already.
Coming ==
    /\ \A r \in reads : r.fresh /\ r.done => r.got = PluginSource(r.id, disk)
    /\ (\E r \in reads : r.fresh) \/ viz.active = Shown(viz.chosen)

Current ==
    /\ \A r \in reads : r.fresh => viz.chosen \in Ids /\ r.id = viz.chosen
    /\ viz.chosen \notin Ids => viz.active = viz.chosen
    /\ viz.chosen \in Ids => Coming \/ viz.chosen \in ToTell \/ Announced(viz.chosen)
Listed == viz.list = Discovered(disk) \/ lists > 0 \/ events # <<>> \/ ToTell # {}

VizInv == VizTypeOK /\ Current /\ Listed

\* What a read finds of a folder is a plugin, or none if its file is not there.
LEMMA SourceIs ==
  ASSUME NEW id \in Ids, NEW d \in Snapshots
  PROVE  /\ PluginSource(id, d) \in Payloads \cup {NoPlugin}
         /\ PluginSource(id, d) = NoPlugin <=> d[id] = 0
  <1>1. id \in Files /\ d[id] \in 0..MaxVersion
    BY DEF Ids, Snapshots
  <1>2. Vertex(id, d) \in 0..MaxVersion
    <2> DEFINE beside == {f \in Within(id.folder) : f.ext = "vs" /\ f.name = id.name}
    <2>1. CASE beside = {}
      BY <2>1, VizAssumption DEF Vertex
    <2>2. CASE beside # {}
      <3>1. (CHOOSE f \in beside : TRUE) \in beside
        BY <2>2
      <3>2. (CHOOSE f \in beside : TRUE) \in Files
        BY <3>1 DEF Within
      <3> QED BY <2>2, <3>2 DEF Vertex, Snapshots
    <2> QED BY <2>1, <2>2
  <1>3. CASE d[id] = 0
    BY <1>3 DEF PluginSource
  <1>4. CASE d[id] # 0
    <2> DEFINE assets == IF id.folder \in {"top", "milkdrop"} THEN {}
                         ELSE {f \in Within(id.folder) : f.ext = "png" /\ d[f] # 0}
               vertex == IF id.ext = "json" THEN 0 ELSE Vertex(id, d)
    <2>1. assets \in SUBSET Files
      BY DEF Within
    <2>2. vertex \in 0..MaxVersion
      BY <1>2, VizAssumption
    <2>3. d[id] \in 1..MaxVersion
      BY <1>1, <1>4
    <2>4. PluginSource(id, d) = [source |-> d[id], vertex |-> vertex, assets |-> assets]
      BY <1>4 DEF PluginSource
    <2> HIDE DEF assets, vertex
    <2>5. PluginSource(id, d) \in Payloads
      BY <2>1, <2>2, <2>3, <2>4 DEF Payloads
    <2> QED BY <1>4, <2>5, VizAssumption
  <1> QED BY <1>3, <1>4

\* The plugins that a change affects are plugins.
LEMMA ChangedAreIds ==
  ASSUME NEW old, NEW new
  PROVE  ChangedIds(old, new) \subseteq Ids
  BY DEF ChangedIds, AffectedBy

\* A change of a file, other than back to what the watcher knows, affects the plugins
\* whose source it changes, and leaves affected what was.
LEMMA ChangeIsTold ==
  ASSUME NEW old \in Snapshots, NEW d \in Snapshots, NEW f \in Files,
         NEW version \in 0..MaxVersion, version # old[f], NEW new,
         new = [d EXCEPT ![f] = version], NEW id \in Ids
  PROVE  /\ id \in ChangedIds(old, d) => id \in ChangedIds(old, new)
         /\ id \in ChangedIds(old, new) \/ PluginSource(id, new) = PluginSource(id, d)
         /\ id \in ChangedIds(old, new) \/ (new[id] = 0 <=> d[id] = 0)
  <1>1. /\ new \in Snapshots /\ new[f] = version
        /\ \A g \in Files \ {f} : new[g] = d[g]
    BY DEF Snapshots
  <1>2. id \in Files /\ id.ext = IF id.folder = "milkdrop" THEN "json" ELSE "fs"
    BY DEF Ids
  <1>3. \A g \in Files : id \in AffectedBy(g, old, new) /\ old[g] # new[g] =>
                           id \in ChangedIds(old, new)
    BY DEF ChangedIds
  <1>4. ASSUME id \in ChangedIds(old, d)
        PROVE  id \in ChangedIds(old, new)
    <2>1. PICK g \in Files : old[g] # d[g] /\ id \in AffectedBy(g, old, d)
      BY <1>4 DEF ChangedIds
    <2>2. old[g] # new[g]
      BY <1>1, <2>1
    <2>3. id \in AffectedBy(g, old, new)
      <3>1. CASE g \in Ids
        BY <2>1, <3>1 DEF AffectedBy
      <3>2. CASE g \notin Ids /\ g.folder = "top" /\ g.ext = "vs"
        BY <2>1, <3>2 DEF AffectedBy
      <3>3. CASE g \notin Ids /\ g.folder \notin {"top", "milkdrop"}
        <4>1. id.folder = g.folder /\ (old[id] # 0 \/ d[id] # 0)
          BY <2>1, <3>3 DEF AffectedBy
        <4>2. old[id] # 0 \/ new[id] # 0
          BY <1>1, <1>2, <4>1
        <4> QED BY <3>3, <4>1, <4>2 DEF AffectedBy
      <3>4. CASE /\ g \notin Ids /\ ~(g.folder = "top" /\ g.ext = "vs")
                 /\ g.folder \in {"top", "milkdrop"}
        BY <2>1, <3>4 DEF AffectedBy
      <3> QED BY <3>1, <3>2, <3>3, <3>4
    <2> QED BY <1>3, <2>2, <2>3
  <1>5. ASSUME id \notin ChangedIds(old, new)
        PROVE  PluginSource(id, new) = PluginSource(id, d) /\ (new[id] = 0 <=> d[id] = 0)
    <2>1. id \notin AffectedBy(f, old, new)
      BY <1>1, <1>3, <1>5
    <2>2. id # f
      <3>1. id \in AffectedBy(id, old, new)
        BY DEF AffectedBy
      <3> QED BY <2>1, <3>1
    <2>3. new[id] = d[id]
      BY <1>1, <1>2, <2>2
    <2>4. CASE new[id] = 0
      BY <2>3, <2>4 DEF PluginSource
    <2>5. CASE new[id] # 0
      <3>1. id.ext = "json" \/ Vertex(id, new) = Vertex(id, d)
        <4> SUFFICES ASSUME id.ext # "json" PROVE Vertex(id, new) = Vertex(id, d)
          OBVIOUS
        <4> DEFINE beside == {g \in Within(id.folder) : g.ext = "vs" /\ g.name = id.name}
        <4>1. f \notin beside
          <5>1. CASE f \in Ids
            BY <5>1 DEF Ids
          <5>2. CASE f \notin Ids /\ f.folder = "top" /\ f.ext = "vs"
            BY <2>1, <5>2 DEF AffectedBy, Within
          <5>3. CASE f \notin Ids /\ f.folder \notin {"top", "milkdrop"}
            BY <2>1, <2>5, <5>3 DEF AffectedBy, Within
          <5>4. CASE /\ f \notin Ids /\ ~(f.folder = "top" /\ f.ext = "vs")
                     /\ f.folder \in {"top", "milkdrop"}
            BY <1>2, <5>4 DEF Within
          <5> QED BY <5>1, <5>2, <5>3, <5>4
        <4>2. CASE beside = {}
          BY <4>2 DEF Vertex
        <4>3. CASE beside # {}
          <5>1. (CHOOSE g \in beside : TRUE) \in beside
            BY <4>3
          <5>2. (CHOOSE g \in beside : TRUE) \in Files \ {f}
            BY <4>1, <5>1 DEF Within
          <5> QED BY <1>1, <4>3, <5>2 DEF Vertex
        <4> QED BY <4>2, <4>3
      <3>2. \/ id.folder \in {"top", "milkdrop"}
            \/ {g \in Within(id.folder) : g.ext = "png" /\ new[g] # 0}
               = {g \in Within(id.folder) : g.ext = "png" /\ d[g] # 0}
        <4> SUFFICES ASSUME id.folder \notin {"top", "milkdrop"}
                     PROVE  \A g \in Within(id.folder) : g.ext = "png" => new[g] = d[g]
          OBVIOUS
        <4>1. ~(f \in Within(id.folder) /\ f.ext = "png")
          <5> SUFFICES ASSUME f \in Within(id.folder), f.ext = "png" PROVE FALSE
            OBVIOUS
          <5>1. f.folder = id.folder /\ f \notin Ids
            BY DEF Within, Ids
          <5> QED BY <2>1, <2>5, <5>1 DEF AffectedBy
        <4> QED BY <1>1, <4>1 DEF Within
      <3> QED BY <2>3, <2>5, <3>1, <3>2 DEF PluginSource
    <2> QED BY <2>3, <2>4, <2>5
  <1> QED BY <1>4, <1>5

\* A change that affects no plugin leaves the same plugins there.
LEMMA ChangeOfTheList ==
  ASSUME NEW old \in Snapshots, NEW d \in Snapshots, NEW f \in Files,
         NEW version \in 0..MaxVersion, version # old[f], NEW new,
         new = [d EXCEPT ![f] = version]
  PROVE  /\ ChangedIds(old, d) # {} => ChangedIds(old, new) # {}
         /\ ChangedIds(old, new) # {} \/ Discovered(new) = Discovered(d)
  <1>1. ASSUME ChangedIds(old, d) # {}
        PROVE  ChangedIds(old, new) # {}
    <2>1. PICK id \in Ids : id \in ChangedIds(old, d)
      BY <1>1, ChangedAreIds
    <2> QED BY <2>1, ChangeIsTold
  <1>2. ASSUME ChangedIds(old, new) = {}
        PROVE  Discovered(new) = Discovered(d)
    <2>1. \A id \in Ids : new[id] = 0 <=> d[id] = 0
      BY <1>2, ChangeIsTold
    <2> QED BY <2>1 DEF Discovered
  <1> QED BY <1>1, <1>2

\* A plugin is asked for (apply).
LEMMA ApplyIs ==
  ASSUME VizTypeOK, NEW id \in Ids \cup {Builtin, NoPlugin}, NEW v,
         v \in [chosen : Ids \cup {Builtin, NoPlugin}, active : Payloads \cup {Builtin, NoPlugin},
                fallback : Ids \cup {NoPlugin}, list : SUBSET Ids],
         v.chosen = id, disk' = disk, Apply(id, v)
  PROVE  /\ reads' \subseteq [id : Ids, got : Payloads \cup {NoPlugin}, done : BOOLEAN,
                              fresh : BOOLEAN]
         /\ viz' \in [chosen : Ids \cup {Builtin, NoPlugin},
                      active : Payloads \cup {Builtin, NoPlugin},
                      fallback : Ids \cup {NoPlugin}, list : SUBSET Ids]
         /\ viz'.chosen = id /\ viz'.list = v.list
         /\ \A r \in reads' : r.fresh => id \in Ids /\ r.id = id /\ ~r.done
         /\ id \notin Ids => viz'.active = id
         /\ id \in Ids => \E r \in reads' : r.fresh
  <1> DEFINE ReadRec == [id : Ids, got : Payloads \cup {NoPlugin}, done : BOOLEAN, fresh : BOOLEAN]
  <1>1. Overtaken \subseteq ReadRec /\ \A r \in Overtaken : r.fresh = FALSE
    <2> SUFFICES ASSUME NEW r \in reads
                 PROVE  [r EXCEPT !.fresh = FALSE] \in ReadRec
                        /\ [r EXCEPT !.fresh = FALSE].fresh = FALSE
      BY DEF Overtaken
    <2>1. r \in ReadRec
      BY DEF VizTypeOK
    <2> QED BY <2>1
  <1>2. CASE id \in Ids
    <2> DEFINE wanted == [id |-> id, got |-> NoPlugin, done |-> FALSE, fresh |-> TRUE]
    <2>1. reads' = Overtaken \cup {wanted} /\ viz' = v
      BY <1>2 DEF Apply
    <2>2. wanted \in ReadRec /\ wanted.fresh = TRUE /\ wanted.id = id /\ wanted.done = FALSE
      BY <1>2
    <2> HIDE DEF wanted, ReadRec
    <2>3. \A r \in reads' : r.fresh => r = wanted
      BY <1>1, <2>1
    <2>4. reads' \subseteq ReadRec /\ wanted \in reads'
      BY <1>1, <2>1, <2>2
    <2> QED BY <1>2, <2>1, <2>2, <2>3, <2>4 DEF ReadRec
  <1>3. CASE id \notin Ids
    <2>1. reads' = Overtaken /\ viz' = [v EXCEPT !.active = id, !.fallback = NoPlugin]
      BY <1>3 DEF Apply
    <2>2. /\ viz' \in [chosen : Ids \cup {Builtin, NoPlugin},
                      active : Payloads \cup {Builtin, NoPlugin},
                      fallback : Ids \cup {NoPlugin}, list : SUBSET Ids]
          /\ viz'.chosen = id /\ viz'.list = v.list /\ viz'.active = id
      BY <1>3, <2>1
    <2> QED BY <1>1, <1>3, <2>1, <2>2
  <1> QED BY <1>2, <1>3

\* What is asked for now is on its way.
LEMMA ApplyComes ==
  ASSUME VizTypeOK, NEW id \in Ids \cup {Builtin, NoPlugin}, NEW v,
         v \in [chosen : Ids \cup {Builtin, NoPlugin}, active : Payloads \cup {Builtin, NoPlugin},
                fallback : Ids \cup {NoPlugin}, list : SUBSET Ids],
         v.chosen = id, disk' = disk, Apply(id, v)
  PROVE  Current'
  <1>1. /\ viz'.chosen = id
        /\ \A r \in reads' : r.fresh => id \in Ids /\ r.id = id /\ ~r.done
        /\ id \notin Ids => viz'.active = id
        /\ id \in Ids => \E r \in reads' : r.fresh
    BY ApplyIs
  <1>2. id \in Ids => Coming'
    BY <1>1 DEF Coming
  <1> QED BY <1>1, <1>2 DEF Current

\* The watcher finds the folder changed, and waits for it to settle.
LEMMA NoticeKeeps ==
  ASSUME VizInv, Notice
  PROVE  VizInv'
  <1>1. /\ watch' = [watch EXCEPT !.stage = "settling", !.cur = disk]
        /\ disk' = disk /\ events' = events /\ reads' = reads /\ lists' = lists /\ viz' = viz
        /\ VizTypeOK
    BY DEF Notice, VizInv
  <1>2. watch' \in [stage : {"asleep", "settling"}, baseline : Snapshots, cur : Snapshots]
        /\ watch'.baseline = watch.baseline
    BY <1>1 DEF VizTypeOK
  <1>3. VizTypeOK'
    BY <1>1, <1>2 DEF VizTypeOK
  <1> QED BY <1>1, <1>2, <1>3 DEF VizInv, Current, Listed, Coming, Shown, ToTell, Announced

\* The folder has settled: the page is told which plugins the changes affect.
LEMMA SettleScanKeeps ==
  ASSUME VizInv, SettleScan
  PROVE  VizInv'
  <1>1. /\ disk' = disk /\ reads' = reads /\ lists' = lists /\ viz' = viz /\ VizTypeOK
    BY DEF SettleScan, VizInv
  <1>2. CASE disk # watch.cur
    <2>1. watch' = [watch EXCEPT !.cur = disk] /\ events' = events
      BY <1>2 DEF SettleScan
    <2>2. watch' \in [stage : {"asleep", "settling"}, baseline : Snapshots, cur : Snapshots]
          /\ watch'.baseline = watch.baseline
      BY <1>1, <2>1 DEF VizTypeOK
    <2>3. VizTypeOK'
      BY <1>1, <2>1, <2>2 DEF VizTypeOK
    <2> QED BY <1>1, <2>1, <2>2, <2>3 DEF VizInv, Current, Listed, Coming, Shown, ToTell, Announced
  <1>3. CASE disk = watch.cur
    <2> DEFINE ids == ChangedIds(watch.baseline, disk)
    <2>1. /\ watch' = [stage |-> "asleep", baseline |-> disk, cur |-> disk]
          /\ events' = IF ids = {} THEN events ELSE Append(events, ids)
      BY <1>3 DEF SettleScan
    <2>2. watch' \in [stage : {"asleep", "settling"}, baseline : Snapshots, cur : Snapshots]
      BY <1>1, <2>1 DEF VizTypeOK
    <2>3. events \in Seq(SUBSET Ids) /\ ids \in SUBSET Ids
      BY <1>1, ChangedAreIds DEF VizTypeOK
    <2> HIDE DEF ids
    <2>4. /\ events' \in Seq(SUBSET Ids)
          /\ \A i \in 1..Len(events) : i \in 1..Len(events') /\ events'[i] = events[i]
          /\ ids # {} => /\ Len(events') \in 1..Len(events') /\ events'[Len(events')] = ids
                         /\ events' # <<>>
          /\ events # <<>> => events' # <<>>
      <3>1. CASE ids = {}
        BY <2>1, <2>3, <3>1
      <3>2. CASE ids # {}
        BY <2>1, <2>3, <3>2
      <3> QED BY <3>1, <3>2
    <2>5. VizTypeOK'
      BY <1>1, <2>2, <2>4 DEF VizTypeOK
    <2>6. \A id : Announced(id) \/ id \in ids => Announced(id)'
      BY <2>4 DEF Announced
    <2>7. ids = ToTell
      BY DEF ids, ToTell
    <2>8. Coming => Coming'
      BY <1>1 DEF Coming, Shown
    <2>9. Current'
      BY <1>1, <2>6, <2>7, <2>8 DEF VizInv, Current
    <2>10. Listed'
      BY <1>1, <2>4, <2>7 DEF VizInv, Listed
    <2> QED BY <2>5, <2>9, <2>10 DEF VizInv
  <1> QED BY <1>2, <1>3

\* The session chooses another plugin.
LEMMA ChoosePluginKeeps ==
  ASSUME VizInv, NEW id \in Ids \cup {Builtin, NoPlugin}, ChoosePlugin(id)
  PROVE  VizInv'
  <1> DEFINE v == [viz EXCEPT !.chosen = id]
  <1>1. /\ Apply(id, v) /\ VizTypeOK
        /\ disk' = disk /\ watch' = watch /\ events' = events /\ lists' = lists
    BY DEF ChoosePlugin, VizInv
  <1>2. /\ v \in [chosen : Ids \cup {Builtin, NoPlugin}, active : Payloads \cup {Builtin, NoPlugin},
                  fallback : Ids \cup {NoPlugin}, list : SUBSET Ids]
        /\ v.chosen = id /\ v.list = viz.list
    BY <1>1 DEF VizTypeOK
  <1> HIDE DEF v
  <1>3. VizTypeOK' /\ viz'.list = viz.list
    BY <1>1, <1>2, ApplyIs DEF VizTypeOK
  <1>4. Current'
    BY <1>1, <1>2, ApplyComes
  <1> QED BY <1>1, <1>3, <1>4 DEF VizInv, Listed, ToTell

\* The page hears of a change.
LEMMA HearChangeKeeps ==
  ASSUME VizInv, HearChange
  PROVE  VizInv'
  <1>1. /\ events # <<>> /\ events' = Tail(events) /\ lists' = lists + 1
        /\ disk' = disk /\ watch' = watch /\ VizTypeOK
    BY DEF HearChange, VizInv
  <1>2. events \in Seq(SUBSET Ids) /\ lists \in Nat
    BY <1>1 DEF VizTypeOK
  <1>3. /\ events' \in Seq(SUBSET Ids) /\ lists' \in Nat /\ lists' > 0
        /\ Len(events') = Len(events) - 1
        /\ \A i \in 1..Len(events') : events'[i] = events[i + 1]
        /\ Len(events) \in Nat /\ Head(events) = events[1] /\ Head(events) \in SUBSET Ids
    BY <1>1, <1>2
  <1>4. Listed'
    BY <1>3 DEF Listed
  <1>5. CASE viz.chosen \in Head(events)
    <2>1. Apply(viz.chosen, viz)
      BY <1>5 DEF HearChange
    <2>2. VizTypeOK'
      BY <1>1, <1>3, <2>1, ApplyIs DEF VizTypeOK
    <2>3. Current'
      BY <1>1, <2>1, ApplyComes DEF VizTypeOK
    <2> QED BY <1>4, <2>2, <2>3 DEF VizInv
  <1>6. CASE viz.chosen \notin Head(events)
    <2>1. reads' = reads /\ viz' = viz
      BY <1>6 DEF HearChange
    <2>2. VizTypeOK'
      BY <1>1, <1>3, <2>1 DEF VizTypeOK
    <2>3. Announced(viz.chosen) => Announced(viz.chosen)'
      <3> SUFFICES ASSUME NEW i \in 1..Len(events), viz.chosen \in events[i]
                   PROVE  \E j \in 1..Len(events') : viz.chosen \in events'[j]
        BY <2>1 DEF Announced
      <3>1. i # 1
        BY <1>3, <1>6
      <3>2. i - 1 \in 1..Len(events') /\ events'[i - 1] = events[i]
        BY <1>3, <3>1
      <3> QED BY <3>2
    <2>4. Current'
      BY <1>1, <2>1, <2>3 DEF VizInv, Current, Coming, Shown, ToTell
    <2> QED BY <1>4, <2>2, <2>4 DEF VizInv
  <1> QED BY <1>5, <1>6

\* A plugin is read.
LEMMA ReadPluginKeeps ==
  ASSUME VizInv, NEW r \in reads, ReadPlugin(r)
  PROVE  VizInv'
  <1> DEFINE new == [r EXCEPT !.got = PluginSource(r.id, disk), !.done = TRUE]
  <1>1. /\ reads' = (reads \ {r}) \cup {new} /\ VizTypeOK /\ ~r.done
        /\ disk' = disk /\ watch' = watch /\ events' = events /\ lists' = lists /\ viz' = viz
    BY DEF ReadPlugin, VizInv
  <1>2. r \in [id : Ids, got : Payloads \cup {NoPlugin}, done : BOOLEAN, fresh : BOOLEAN]
    BY <1>1 DEF VizTypeOK
  <1>3. PluginSource(r.id, disk) \in Payloads \cup {NoPlugin}
    BY <1>1, <1>2, SourceIs DEF VizTypeOK
  <1>4. /\ new \in [id : Ids, got : Payloads \cup {NoPlugin}, done : BOOLEAN, fresh : BOOLEAN]
        /\ new.got = PluginSource(r.id, disk) /\ new.id = r.id /\ new.fresh = r.fresh
    BY <1>2, <1>3
  <1> HIDE DEF new
  <1>5. VizTypeOK'
    BY <1>1, <1>4 DEF VizTypeOK
  <1>6. \A s \in reads' : s = new \/ s \in reads
    BY <1>1
  <1>7. (\E s \in reads : s.fresh) => \E s \in reads' : s.fresh
    BY <1>1, <1>4
  <1>8. Coming => Coming'
    BY <1>1, <1>4, <1>6, <1>7 DEF Coming, Shown
  <1>9. Current'
    BY <1>1, <1>4, <1>6, <1>8 DEF VizInv, Current, ToTell, Announced
  <1> QED BY <1>1, <1>5, <1>9 DEF VizInv, Listed, ToTell

\* What was read is taken, if it is still what counts.
LEMMA TakePluginKeeps ==
  ASSUME VizInv, NEW r \in reads, TakePlugin(r)
  PROVE  VizInv'
  <1>1. /\ reads' = reads \ {r} /\ viz' = Taken(r, viz) /\ VizTypeOK /\ r.done
        /\ disk' = disk /\ watch' = watch /\ events' = events /\ lists' = lists
    BY DEF TakePlugin, VizInv
  <1>2. r \in [id : Ids, got : Payloads \cup {NoPlugin}, done : BOOLEAN, fresh : BOOLEAN]
    BY <1>1 DEF VizTypeOK
  <1>3. CASE ~r.fresh
    <2>1. viz' = viz
      BY <1>1, <1>3 DEF Taken
    <2>2. VizTypeOK'
      BY <1>1, <2>1 DEF VizTypeOK
    <2>3. Coming => Coming'
      BY <1>1, <1>3, <2>1 DEF Coming, Shown
    <2> QED BY <1>1, <2>1, <2>2, <2>3 DEF VizInv, Current, Listed, ToTell, Announced
  <1>4. CASE r.fresh
    <2>1. viz.chosen \in Ids /\ r.id = viz.chosen
      BY <1>4 DEF VizInv, Current
    <2>2. viz' = IF r.got = NoPlugin THEN [viz EXCEPT !.active = Builtin, !.fallback = r.id]
                 ELSE [viz EXCEPT !.active = r.got, !.fallback = NoPlugin]
      BY <1>1, <1>4 DEF Taken
    <2>3. /\ viz' \in [chosen : Ids \cup {Builtin, NoPlugin},
                       active : Payloads \cup {Builtin, NoPlugin},
                       fallback : Ids \cup {NoPlugin}, list : SUBSET Ids]
          /\ viz'.chosen = viz.chosen /\ viz'.list = viz.list
          /\ viz'.active = IF r.got = NoPlugin THEN Builtin ELSE r.got
      BY <1>1, <1>2, <2>2 DEF VizTypeOK
    <2>4. VizTypeOK'
      BY <1>1, <2>3 DEF VizTypeOK
    <2>5. Coming => Coming'
      <3> SUFFICES ASSUME Coming PROVE Coming'
        OBVIOUS
      <3>1. r.got = PluginSource(viz.chosen, disk)
        BY <1>1, <1>4, <2>1 DEF Coming
      <3>2. viz'.active = Shown(viz.chosen)
        BY <1>1, <2>1, <2>3, <3>1, SourceIs DEF Shown, VizTypeOK
      <3> QED BY <1>1, <2>3, <3>2 DEF Coming, Shown
    <2>6. Current'
      BY <1>1, <2>1, <2>3, <2>5 DEF VizInv, Current, ToTell, Announced
    <2> QED BY <1>1, <2>3, <2>4, <2>6 DEF VizInv, Listed, ToTell
  <1> QED BY <1>3, <1>4

\* The plugins are listed, and one that was replaced is asked for again.
LEMMA ListPluginsKeeps ==
  ASSUME VizInv, ListPlugins
  PROVE  VizInv'
  <1> DEFINE v == [viz EXCEPT !.list = Discovered(disk)]
  <1>1. /\ lists > 0 /\ lists' = lists - 1 /\ VizTypeOK
        /\ IF viz.fallback # NoPlugin /\ viz.fallback = viz.chosen THEN Apply(viz.chosen, v)
           ELSE viz' = v /\ UNCHANGED reads
        /\ disk' = disk /\ watch' = watch /\ events' = events
    BY DEF ListPlugins, VizInv
  <1>2. /\ v \in [chosen : Ids \cup {Builtin, NoPlugin}, active : Payloads \cup {Builtin, NoPlugin},
                  fallback : Ids \cup {NoPlugin}, list : SUBSET Ids]
        /\ v.chosen = viz.chosen /\ v.list = Discovered(disk) /\ v.active = viz.active
        /\ viz.chosen \in Ids \cup {Builtin, NoPlugin}
    <2>1. Discovered(disk) \in SUBSET Ids
      BY DEF Discovered
    <2> QED BY <1>1, <2>1 DEF VizTypeOK
  <1>3. lists' \in Nat
    BY <1>1 DEF VizTypeOK
  <1> HIDE DEF v
  <1>4. CASE viz.fallback # NoPlugin /\ viz.fallback = viz.chosen
    <2>1. Apply(viz.chosen, v)
      BY <1>1, <1>4
    <2>2. VizTypeOK' /\ viz'.list = Discovered(disk)
      BY <1>1, <1>2, <1>3, <2>1, ApplyIs DEF VizTypeOK
    <2>3. Current'
      BY <1>1, <1>2, <2>1, ApplyComes
    <2> QED BY <1>1, <2>2, <2>3 DEF VizInv, Listed
  <1>5. CASE ~(viz.fallback # NoPlugin /\ viz.fallback = viz.chosen)
    <2>1. viz' = v /\ reads' = reads
      BY <1>1, <1>5
    <2>2. VizTypeOK'
      BY <1>1, <1>2, <1>3, <2>1 DEF VizTypeOK
    <2>3. Current'
      BY <1>1, <1>2, <2>1 DEF VizInv, Current, Coming, Shown, ToTell, Announced
    <2>4. Listed'
      BY <1>1, <1>2, <2>1 DEF Listed
    <2> QED BY <2>2, <2>3, <2>4 DEF VizInv
  <1> QED BY <1>4, <1>5

\* The user rescans.
LEMMA RescanKeeps ==
  ASSUME VizInv, Rescan
  PROVE  VizInv'
  <1>1. /\ lists' = lists + 1 /\ lists \in Nat /\ VizTypeOK
        /\ disk' = disk /\ watch' = watch /\ events' = events /\ reads' = reads /\ viz' = viz
    BY DEF Rescan, VizInv, VizTypeOK
  <1>2. lists' \in Nat /\ lists' > 0
    BY <1>1
  <1> QED BY <1>1, <1>2 DEF VizInv, VizTypeOK, Current, Listed, Coming, Shown, ToTell, Announced

\* A file changes: the watcher has the plugins it affects to tell of.
LEMMA WriteFileKeeps ==
  ASSUME VizInv, Flicker = FALSE, NEW f \in Files, NEW version \in 0..MaxVersion,
         WriteFile(f, version)
  PROVE  VizInv'
  <1>1. /\ version # watch.baseline[f] /\ disk' = [disk EXCEPT ![f] = version] /\ VizTypeOK
        /\ watch' = watch /\ events' = events /\ reads' = reads /\ lists' = lists /\ viz' = viz
    BY DEF WriteFile, VizInv
  <1>2. disk \in Snapshots /\ watch.baseline \in Snapshots
    BY <1>1 DEF VizTypeOK
  <1>3. \A id \in Ids :
          /\ id \in ChangedIds(watch.baseline, disk) => id \in ChangedIds(watch.baseline, disk')
          /\ \/ id \in ChangedIds(watch.baseline, disk')
             \/ PluginSource(id, disk') = PluginSource(id, disk)
          /\ id \in ChangedIds(watch.baseline, disk') \/ (disk'[id] = 0 <=> disk[id] = 0)
    BY <1>1, <1>2, ChangeIsTold
  <1>4. /\ ChangedIds(watch.baseline, disk) # {} => ChangedIds(watch.baseline, disk') # {}
        /\ ChangedIds(watch.baseline, disk') # {} \/ Discovered(disk') = Discovered(disk)
    BY <1>1, <1>2, ChangeOfTheList
  <1>5. VizTypeOK'
    BY <1>1, <1>2 DEF VizTypeOK, Snapshots
  <1>6. Current'
    <2>1. ASSUME viz.chosen \in Ids, viz.chosen \notin ChangedIds(watch.baseline, disk'), Coming
          PROVE  Coming'
      <3>1. Shown(viz.chosen)' = Shown(viz.chosen)
        BY <1>1, <1>3, <2>1 DEF Shown
      <3>2. \A r \in reads : r.fresh => PluginSource(r.id, disk') = PluginSource(r.id, disk)
        BY <1>3, <2>1 DEF VizInv, Current
      <3> QED BY <1>1, <2>1, <3>1, <3>2 DEF Coming
    <2> QED BY <1>1, <1>3, <2>1 DEF VizInv, Current, ToTell, Announced
  <1>7. Listed'
    BY <1>1, <1>4 DEF VizInv, Listed, ToTell
  <1> QED BY <1>5, <1>6, <1>7 DEF VizInv

\* When nothing is under way any more, the page shows the chosen plugin as it is in the
\* folder, or the built-in one if it is not there, and lists the plugins that are
\* (ShowsTheFolder: the watcher, the reads and the list).
THEOREM ShowsTheFolderHolds ==
  ASSUME Flicker = FALSE
  PROVE  VizSpec => []ShowsTheFolder
  <1>1. VizInit => VizInv
    <2> SUFFICES ASSUME VizInit PROVE VizInv
      OBVIOUS
    <2>1. disk \in Snapshots
      BY VizAssumption DEF VizInit, Snapshots
    <2>2. Discovered(disk) \in SUBSET Ids
      BY DEF Discovered
    <2>3. VizTypeOK
      BY <2>1, <2>2 DEF VizInit, VizTypeOK
    <2>4. Current
      <3>1. viz.chosen = NoPlugin /\ viz.active = NoPlugin /\ reads = {}
        BY DEF VizInit
      <3>2. NoPlugin \notin Ids
        BY VizAssumption DEF Ids
      <3> QED BY <3>1, <3>2 DEF Current
    <2> QED BY <2>3, <2>4 DEF VizInit, VizInv, Listed
  <1>2. VizInv /\ [VizWorld \/ VizRuns]_vizVars => VizInv'
    <2> SUFFICES ASSUME VizInv, [VizWorld \/ VizRuns]_vizVars PROVE VizInv'
      OBVIOUS
    <2>1. CASE UNCHANGED vizVars
      BY <2>1 DEF vizVars, VizInv, VizTypeOK, Current, Listed, Coming, Shown, ToTell, Announced
    <2>2. CASE VizWorld
      BY <2>2, RescanKeeps, ChoosePluginKeeps, WriteFileKeeps DEF VizWorld
    <2>3. CASE VizRuns
      BY <2>3, NoticeKeeps, SettleScanKeeps, HearChangeKeeps, ListPluginsKeeps,
         ReadPluginKeeps, TakePluginKeeps DEF VizRuns
    <2> QED BY <2>1, <2>2, <2>3
  <1>3. VizInv => ShowsTheFolder
    <2> SUFFICES ASSUME VizInv, watch.baseline = disk, events = <<>>, reads = {}, lists = 0
                 PROVE  /\ viz.list = Discovered(disk)
                        /\ viz.active = IF viz.chosen \notin Ids THEN viz.chosen
                                        ELSE IF disk[viz.chosen] = 0 THEN Builtin
                                        ELSE PluginSource(viz.chosen, disk)
      BY DEF ShowsTheFolder
    <2>1. ToTell = {}
      BY DEF ToTell, ChangedIds
    <2>2. \A id : ~Announced(id)
      BY DEF Announced
    <2> QED BY <2>1, <2>2 DEF VizInv, Current, Listed, Coming, Shown
  <1> QED BY <1>1, <1>2, <1>3, PTL DEF VizSpec

\* Whatever the folder's changes, a read that counts is of the chosen plugin, and a built-in
\* one is shown as soon as it is chosen.
ReadsTheChosen ==
    /\ \A r \in reads : r.fresh => viz.chosen \in Ids /\ r.id = viz.chosen
    /\ viz.chosen \notin Ids => viz.active = viz.chosen

ReadRecs == [id : Ids, got : Payloads \cup {NoPlugin}, done : BOOLEAN, fresh : BOOLEAN]
VizRecs == [chosen : Ids \cup {Builtin, NoPlugin}, active : Payloads \cup {Builtin, NoPlugin},
            fallback : Ids \cup {NoPlugin}, list : SUBSET Ids]

\* A plugin is asked for, or a built-in one shown.
LEMMA ApplyTyped ==
  ASSUME VizTypeOK, NEW id \in Ids \cup {Builtin, NoPlugin}, NEW v \in VizRecs,
         v.chosen = id, Apply(id, v), UNCHANGED <<disk, watch>>,
         events' \in Seq(SUBSET Ids), lists' \in Nat
  PROVE  VizTypeOK' /\ ReadsTheChosen'
  <1>1. /\ reads' \subseteq ReadRecs /\ viz' \in VizRecs /\ viz'.chosen = id
        /\ \A r \in reads' : r.fresh => id \in Ids /\ r.id = id
        /\ id \notin Ids => viz'.active = id
    BY ApplyIs DEF ReadRecs, VizRecs
  <1>2. VizTypeOK'
    BY <1>1 DEF VizTypeOK, ReadRecs, VizRecs
  <1> QED BY <1>1, <1>2 DEF ReadsTheChosen

\* The watcher looks at the folder.
LEMMA WatcherTyped ==
  ASSUME VizTypeOK, Notice \/ SettleScan
  PROVE  VizTypeOK' /\ UNCHANGED <<disk, reads, lists, viz>>
  <1>1. UNCHANGED <<disk, reads, lists, viz>>
    BY DEF Notice, SettleScan
  <1>2. CASE UNCHANGED events /\ (Notice \/ watch' = [watch EXCEPT !.cur = disk])
    <2>1. watch' \in [stage : {"asleep", "settling"}, baseline : Snapshots, cur : Snapshots]
      BY <1>2 DEF Notice, VizTypeOK
    <2> QED BY <1>1, <1>2, <2>1 DEF VizTypeOK
  <1>3. CASE /\ watch' = [stage |-> "asleep", baseline |-> disk, cur |-> disk]
             /\ events' \in {events, Append(events, ChangedIds(watch.baseline, disk))}
    <2>1. watch' \in [stage : {"asleep", "settling"}, baseline : Snapshots, cur : Snapshots]
      BY <1>3 DEF VizTypeOK
    <2>2. events \in Seq(SUBSET Ids) /\ ChangedIds(watch.baseline, disk) \in SUBSET Ids
      BY ChangedAreIds DEF VizTypeOK
    <2>3. events' \in Seq(SUBSET Ids)
      BY <1>3, <2>2
    <2> QED BY <1>1, <2>1, <2>3 DEF VizTypeOK
  <1>4. Notice \/ SettleScan =>
          \/ UNCHANGED events /\ (Notice \/ watch' = [watch EXCEPT !.cur = disk])
          \/ /\ watch' = [stage |-> "asleep", baseline |-> disk, cur |-> disk]
             /\ events' \in {events, Append(events, ChangedIds(watch.baseline, disk))}
    BY DEF Notice, SettleScan
  <1> QED BY <1>1, <1>2, <1>3, <1>4

\* A plugin is chosen, a change heard, or the list answered: the plugin may be asked for.
LEMMA AsksTyped ==
  ASSUME VizTypeOK, ReadsTheChosen, NEW id \in Ids \cup {Builtin, NoPlugin},
         ChoosePlugin(id) \/ HearChange \/ ListPlugins
  PROVE  VizTypeOK' /\ ReadsTheChosen'
  <1>1. /\ viz \in VizRecs /\ viz.chosen \in Ids \cup {Builtin, NoPlugin}
        /\ UNCHANGED <<disk, watch>> /\ events \in Seq(SUBSET Ids) /\ lists \in Nat
    BY DEF VizTypeOK, VizRecs, ChoosePlugin, HearChange, ListPlugins
  <1>2. CASE ChoosePlugin(id)
    <2> DEFINE v == [viz EXCEPT !.chosen = id]
    <2>1. v \in VizRecs /\ v.chosen = id
      BY <1>1 DEF VizRecs
    <2>2. Apply(id, v) /\ events' = events /\ lists' = lists
      BY <1>2 DEF ChoosePlugin
    <2> HIDE DEF v
    <2> QED BY <1>1, <2>1, <2>2, ApplyTyped
  <1>3. CASE HearChange
    <2>1. events' \in Seq(SUBSET Ids) /\ lists' \in Nat
      BY <1>1, <1>3 DEF HearChange
    <2>2. CASE Apply(viz.chosen, viz)
      BY <1>1, <2>1, <2>2, ApplyTyped
    <2>3. CASE UNCHANGED <<reads, viz>>
      BY <1>1, <2>1, <2>3 DEF VizTypeOK, ReadsTheChosen
    <2> QED BY <1>3, <2>2, <2>3 DEF HearChange
  <1>4. CASE ListPlugins
    <2> DEFINE v == [viz EXCEPT !.list = Discovered(disk)]
    <2>1. /\ lists' \in Nat /\ events' = events
          /\ Apply(viz.chosen, v) \/ (viz' = v /\ UNCHANGED reads)
      BY <1>1, <1>4 DEF ListPlugins
    <2>2. Discovered(disk) \in SUBSET Ids
      BY DEF Discovered
    <2>3. v \in VizRecs /\ v.chosen = viz.chosen /\ v.active = viz.active
      BY <1>1, <2>2 DEF VizRecs
    <2> HIDE DEF v
    <2>4. CASE Apply(viz.chosen, v)
      BY <1>1, <2>1, <2>3, <2>4, ApplyTyped
    <2>5. CASE viz' = v /\ UNCHANGED reads
      BY <1>1, <2>1, <2>3, <2>5 DEF VizTypeOK, VizRecs, ReadsTheChosen
    <2> QED BY <2>1, <2>4, <2>5
  <1> QED BY <1>2, <1>3, <1>4

\* A plugin is read, and what was read taken.
LEMMA ReadsTyped ==
  ASSUME VizTypeOK, ReadsTheChosen, NEW r \in reads, ReadPlugin(r) \/ TakePlugin(r)
  PROVE  VizTypeOK' /\ ReadsTheChosen'
  <1>1. /\ UNCHANGED <<disk, watch, events, lists>> /\ viz \in VizRecs /\ r \in ReadRecs
        /\ reads \subseteq ReadRecs
    BY DEF VizTypeOK, VizRecs, ReadRecs, ReadPlugin, TakePlugin
  <1>2. CASE ReadPlugin(r)
    <2> DEFINE new == [r EXCEPT !.got = PluginSource(r.id, disk), !.done = TRUE]
    <2>1. reads' = (reads \ {r}) \cup {new} /\ viz' = viz
      BY <1>2 DEF ReadPlugin
    <2>2. PluginSource(r.id, disk) \in Payloads \cup {NoPlugin}
      BY <1>1, SourceIs DEF VizTypeOK, ReadRecs
    <2>3. new \in ReadRecs /\ new.fresh = r.fresh /\ new.id = r.id
      BY <1>1, <2>2 DEF ReadRecs
    <2> HIDE DEF new
    <2>4. VizTypeOK'
      BY <1>1, <2>1, <2>3 DEF VizTypeOK, ReadRecs
    <2> QED BY <2>1, <2>3, <2>4 DEF ReadsTheChosen
  <1>3. CASE TakePlugin(r)
    <2>1. reads' = reads \ {r} /\ viz' = Taken(r, viz)
      BY <1>3 DEF TakePlugin
    <2>2. viz' \in VizRecs /\ viz'.chosen = viz.chosen
      BY <1>1, <2>1 DEF Taken, VizRecs, ReadRecs
    <2>3. viz.chosen \notin Ids => viz' = viz
      BY <2>1 DEF Taken, ReadsTheChosen
    <2>4. VizTypeOK'
      BY <1>1, <2>1, <2>2 DEF VizTypeOK, VizRecs
    <2> QED BY <2>1, <2>2, <2>3, <2>4 DEF ReadsTheChosen
  <1> QED BY <1>2, <1>3

\* Whatever the edits, even those undone before the watcher has told of them: the state has
\* its type, only a read of the chosen plugin is taken, and a built-in one is shown as soon
\* as it is chosen (vizPlugins.ts, apply and its sequence number).
THEOREM TheChosenIsRead ==
  VizSpec => [](VizTypeOK /\ ReadsTheChosen)
  <1>1. VizInit => VizTypeOK /\ ReadsTheChosen
    <2> SUFFICES ASSUME VizInit PROVE VizTypeOK /\ ReadsTheChosen
      OBVIOUS
    <2>1. disk \in Snapshots
      BY VizAssumption DEF VizInit, Snapshots
    <2>2. Discovered(disk) \in SUBSET Ids
      BY DEF Discovered
    <2>3. NoPlugin \notin Ids
      BY VizAssumption DEF Ids
    <2>4. viz \in VizRecs /\ watch \in [stage : {"asleep", "settling"}, baseline : Snapshots,
                                        cur : Snapshots]
      BY <2>1, <2>2 DEF VizInit, VizRecs
    <2>5. events \in Seq(SUBSET Ids)
      BY DEF VizInit
    <2> QED BY <2>1, <2>3, <2>4, <2>5 DEF VizInit, VizTypeOK, VizRecs, ReadsTheChosen
  <1>2. VizTypeOK /\ ReadsTheChosen /\ [VizWorld \/ VizRuns]_vizVars =>
          VizTypeOK' /\ ReadsTheChosen'
    <2> SUFFICES ASSUME VizTypeOK, ReadsTheChosen, [VizWorld \/ VizRuns]_vizVars
                 PROVE  VizTypeOK' /\ ReadsTheChosen'
      OBVIOUS
    <2>1. CASE UNCHANGED vizVars
      BY <2>1 DEF vizVars, VizTypeOK, ReadsTheChosen
    <2>2. CASE Notice \/ SettleScan
      BY <2>2, WatcherTyped DEF ReadsTheChosen
    <2>3. ASSUME NEW id \in Ids \cup {Builtin, NoPlugin},
                 ChoosePlugin(id) \/ HearChange \/ ListPlugins
          PROVE  VizTypeOK' /\ ReadsTheChosen'
      BY <2>3, AsksTyped
    <2>4. CASE HearChange \/ ListPlugins
      <3>1. NoPlugin \in Ids \cup {Builtin, NoPlugin}
        OBVIOUS
      <3> QED BY <2>3, <2>4, <3>1
    <2>5. ASSUME NEW r \in reads, ReadPlugin(r) \/ TakePlugin(r)
          PROVE  VizTypeOK' /\ ReadsTheChosen'
      BY <2>5, ReadsTyped
    <2>6. CASE Rescan
      BY <2>6 DEF Rescan, VizTypeOK, ReadsTheChosen
    <2>7. ASSUME NEW f \in Files, NEW version \in 0..MaxVersion, WriteFile(f, version)
          PROVE  VizTypeOK' /\ ReadsTheChosen'
      <3>1. disk' \in Snapshots /\ UNCHANGED <<watch, events, reads, lists, viz>>
        BY <2>7 DEF WriteFile, VizTypeOK, Snapshots
      <3> QED BY <3>1 DEF VizTypeOK, ReadsTheChosen
    <2> QED BY <2>1, <2>2, <2>3, <2>4, <2>5, <2>6, <2>7 DEF VizWorld, VizRuns
  <1> QED BY <1>1, <1>2, PTL DEF VizSpec

----------------------------------------------------------------------------
(* What presents a deck's video, without the races that the page does not   *)
(* guard against.                                                           *)

Probe == [n : Nat, file : Media, stage : Stages]
CodecRec ==
    [loaded : Source \cup {Bare}, wanted : {"webcodecs", "legacy"}, backing : Backend \cup {Bare},
     audioOnly : BOOLEAN, element : BOOLEAN, player : Player \cup {Bare}, live : SUBSET Player,
     registry : Media \cup {Bare}, probes : SUBSET Probe, audio : Source \cup {Bare},
     adopt : BOOLEAN, due : BOOLEAN, cut : BOOLEAN, turn : Nat]

\* The backend is that of the deck's source.
Fits(c) == c.loaded # Bare /\ ~NewToDeck(c)

\* Probes are told apart by their numbers, and by their files too.
Apart(probes, turn) ==
    /\ \A p, q \in probes : p.file = q.file \/ p.n = q.n => p = q
    /\ \A p \in probes : p.n < turn
    /\ \A p, q \in probes : p.stage = "demuxed" => p.n <= q.n
    /\ \A p \in probes : p.stage = "timed out" => Stream[p.file] = "none"

\* A probe of the deck's source is its last, and what the backend waits for.
Awaited(c) ==
    /\ \A p \in c.probes : c.loaded # Bare /\ c.loaded.file = p.file =>
         /\ Fits(c) /\ c.backing.kind = "pending"
         /\ \A q \in c.probes : q.n <= p.n
         /\ p.stage = "demuxed" => c.registry = p.file
    /\ Fits(c) /\ c.backing.kind = "pending" => \E p \in c.probes : p.file = c.loaded.file
    /\ c.player = Bare /\ c.registry # Bare =>
         \E p \in c.probes : p.stage = "demuxed" /\ p.file = c.registry

\* The player that is registered plays what the registry serves, and no probe is left.
PlaysOn(c) ==
    /\ c.live = IF c.player = Bare THEN {} ELSE {c.player}
    /\ c.player # Bare => c.probes = {} /\ c.registry = c.player.file

\* The kind of the backend says what there is.
Kind(c) ==
    IF c.backing = Bare THEN c.player = Bare /\ ~c.element /\ ~c.audioOnly
    ELSE /\ c.player # Bare <=> c.backing.kind = "webcodecs"
         /\ c.backing.kind \in {"pending", "webcodecs"} => ~c.element
         /\ c.audioOnly => Stream[c.backing.file] = "none"

\* The audio is that of the source whose backend there is.
AudioHeard(c) ==
    /\ c.turn > 0 /\ (c.loaded # Bare => c.loaded.seq \in 1..c.turn - 1)
    /\ c.audio # Bare => c.audio.seq < c.turn
    /\ c.backing # Bare => c.backing.seq < c.turn
    /\ Fits(c) => c.audio = c.loaded
    /\ c.loaded # Bare /\ NewToDeck(c) /\ ~c.adopt => c.audio # c.loaded
    /\ ~c.cut

\* A pipeline to be adopted is that of a page which has just started.
Adopting(c) ==
    c.adopt => /\ c.loaded # Bare /\ c.backing = Bare /\ c.probes = {} /\ c.registry = Bare
               /\ c.audio = c.loaded /\ c.due

Steady(c) ==
    /\ c \in CodecRec /\ Apart(c.probes, c.turn) /\ Awaited(c) /\ PlaysOn(c) /\ Kind(c)
    /\ AudioHeard(c) /\ Adopting(c)

\* What a pass has seen to.
Presented(c) == Fits(c) /\ c.backing.kind \in {"legacy", "fallback"} => c.element
Settled(c) == IF c.loaded # Bare THEN ~NewToDeck(c) ELSE ~c.element /\ c.player = Bare

CodecInv == Steady(codec) /\ Presented(codec) /\ (~codec.due => Settled(codec))

\* What the parts of the record are.
LEMMA CodecFields ==
  ASSUME NEW c \in CodecRec
  PROVE  /\ c.loaded \in Source \cup {Bare} /\ c.wanted \in {"webcodecs", "legacy"}
         /\ c.backing \in Backend \cup {Bare} /\ c.audioOnly \in BOOLEAN /\ c.element \in BOOLEAN
         /\ c.player \in Player \cup {Bare} /\ c.live \in SUBSET Player
         /\ c.registry \in Media \cup {Bare} /\ c.probes \in SUBSET Probe
         /\ c.audio \in Source \cup {Bare} /\ c.adopt \in BOOLEAN /\ c.due \in BOOLEAN
         /\ c.cut \in BOOLEAN /\ c.turn \in Nat
  BY DEF CodecRec

\* Another backend and probe, or none; what the source and the path are stays.
Cleared(c, d) ==
    /\ d \in CodecRec /\ d.loaded = c.loaded /\ d.wanted = c.wanted /\ d.backing = Bare
    /\ d.audioOnly = FALSE /\ d.element = FALSE /\ d.player = Bare /\ d.live = c.live \ {c.player}
    /\ d.registry = Bare /\ d.probes = c.probes /\ d.audio = Bare /\ d.adopt = c.adopt
    /\ d.due = c.due /\ d.turn = c.turn
    /\ d.cut = (c.cut \/ (c.audio # Bare /\ c.audio = c.loaded))

\* teardownVideoBackendFull.
LEMMA TornDownIs ==
  ASSUME NEW c \in CodecRec
  PROVE  Cleared(c, TornDown(c))
  <1>1. c.cut \in BOOLEAN /\ c.live \in SUBSET Player
    BY CodecFields
  <1>2. (c.live \ {c.player}) \in SUBSET Player
    BY <1>1
  <1> DEFINE w == WithoutPlayer(c)
  <1>3. /\ w \in CodecRec /\ w.loaded = c.loaded /\ w.wanted = c.wanted /\ w.backing = c.backing
        /\ w.audioOnly = c.audioOnly /\ w.element = c.element /\ w.player = Bare
        /\ w.live = c.live \ {c.player} /\ w.registry = Bare /\ w.probes = c.probes
        /\ w.audio = c.audio /\ w.adopt = c.adopt /\ w.due = c.due /\ w.turn = c.turn
        /\ w.cut = c.cut
    BY <1>2 DEF CodecRec, WithoutPlayer
  <1> DEFINE cut == c.cut \/ (c.audio # Bare /\ c.audio = c.loaded)
  <1>4. cut \in BOOLEAN
    OBVIOUS
  <1>5. TornDown(c) = [w EXCEPT !.element = FALSE, !.backing = Bare, !.audioOnly = FALSE,
                                !.audio = Bare, !.cut = cut]
    BY <1>3 DEF TornDown
  <1> HIDE DEF w, cut
  <1>6. TornDown(c) \in CodecRec
    BY <1>3, <1>4, <1>5 DEF CodecRec
  <1> DEFINE d == TornDown(c)
  <1>7. /\ d.loaded = w.loaded /\ d.wanted = w.wanted /\ d.backing = Bare
        /\ d.audioOnly = FALSE /\ d.element = FALSE /\ d.player = w.player
        /\ d.live = w.live /\ d.registry = w.registry /\ d.probes = w.probes
        /\ d.audio = Bare /\ d.adopt = w.adopt /\ d.due = w.due /\ d.turn = w.turn
        /\ d.cut = cut
    BY <1>3, <1>5 DEF CodecRec
  <1> HIDE DEF d
  <1>8. Cleared(c, d)
    BY <1>3, <1>6, <1>7 DEF Cleared, cut, d
  <1> QED BY <1>8 DEF d

\* Another backend of the source, its probe begun if it is to be the player's.
Backs(c, d) ==
    /\ d \in CodecRec /\ d.loaded = c.loaded /\ d.wanted = c.wanted /\ d.audioOnly = c.audioOnly
    /\ d.player = c.player /\ d.live = c.live /\ d.registry = c.registry /\ d.audio = c.audio
    /\ d.adopt = c.adopt /\ d.due = c.due /\ d.cut = c.cut
    /\ d.backing \in Backend /\ d.backing.file = c.loaded.file /\ d.backing.seq = c.loaded.seq
NewProbe(c) == [n |-> c.turn, file |-> c.loaded.file, stage |-> "caching"]
Probes(c, d) ==
    /\ Backs(c, d) /\ d.backing.kind = "pending" /\ d.element = c.element
    /\ d.probes = c.probes \cup {NewProbe(c)} /\ d.turn = c.turn + 1

\* setBackendState, for the source of the deck.
LEMMA BackedIs ==
  ASSUME NEW c \in CodecRec, c.loaded # Bare, NEW kind,
         kind = "pending" \/ kind = "legacy" \/ kind = "webcodecs"
  PROVE  /\ Backs(c, Backed(c, kind)) /\ Backed(c, kind).backing.kind = kind
         /\ Backed(c, kind).element = c.element /\ Backed(c, kind).probes = c.probes
         /\ Backed(c, kind).turn = c.turn
  <1> DEFINE b == [file |-> c.loaded.file, seq |-> c.loaded.seq, kind |-> kind]
  <1>1. c.loaded \in Source
    BY CodecFields
  <1>2. b \in Backend /\ b.file = c.loaded.file /\ b.seq = c.loaded.seq /\ b.kind = kind
    BY <1>1 DEF Source, Backend
  <1>3. Backed(c, kind) = [c EXCEPT !.backing = b]
    BY DEF Backed
  <1> HIDE DEF b
  <1> QED BY <1>2, <1>3 DEF CodecRec, Backs

\* startCodecPath, up to its await.
LEMMA ProbingIs ==
  ASSUME NEW c \in CodecRec, c.loaded # Bare
  PROVE  Probes(c, Probing(c))
  <1> DEFINE e == Backed(c, "pending")
  <1>1. /\ Backs(c, e) /\ e.backing.kind = "pending" /\ e.element = c.element
        /\ e.probes = c.probes /\ e.turn = c.turn
    BY BackedIs
  <1> HIDE DEF e
  <1>2. NewProbe(c) \in Probe
    <2>1. c.loaded \in Source /\ c.turn \in Nat
      BY CodecFields
    <2> QED BY <2>1 DEF NewProbe, Probe, Source, Stages
  <1> DEFINE probes == c.probes \cup {NewProbe(c)}
             turn == c.turn + 1
  <1>3. /\ e \in CodecRec /\ probes \in SUBSET Probe /\ turn \in Nat
    BY <1>1, <1>2, CodecFields DEF Backs
  <1>4. Probing(c) = [e EXCEPT !.probes = probes, !.turn = turn]
    BY <1>1, <1>3 DEF Probing, e, NewProbe
  <1> HIDE DEF probes, turn
  <1>5. /\ Probing(c) \in CodecRec /\ Probing(c).probes = probes /\ Probing(c).turn = turn
        /\ Probing(c).loaded = e.loaded /\ Probing(c).wanted = e.wanted
        /\ Probing(c).audioOnly = e.audioOnly /\ Probing(c).player = e.player
        /\ Probing(c).live = e.live /\ Probing(c).registry = e.registry
        /\ Probing(c).audio = e.audio /\ Probing(c).adopt = e.adopt
        /\ Probing(c).due = e.due /\ Probing(c).cut = e.cut
        /\ Probing(c).backing = e.backing /\ Probing(c).element = e.element
    BY <1>3, <1>4 DEF CodecRec
  <1> QED BY <1>1, <1>5 DEF Probes, Backs, probes, turn

\* The first backend of a source, and its audio.
Starts(c, d) ==
    /\ d \in CodecRec /\ d.loaded = c.loaded /\ d.wanted = c.wanted /\ d.audioOnly = FALSE
    /\ d.player = Bare /\ d.live = {} /\ d.registry = Bare /\ d.audio = c.loaded
    /\ d.adopt = FALSE /\ d.due = c.due /\ d.cut = FALSE
    /\ d.backing \in Backend /\ d.backing.file = c.loaded.file /\ d.backing.seq = c.loaded.seq
    /\ \/ /\ d.backing.kind = "pending" /\ d.element = FALSE
          /\ d.probes = c.probes \cup {NewProbe(c)} /\ d.turn = c.turn + 1
       \/ /\ d.backing.kind = "legacy" /\ d.element = TRUE
          /\ d.probes = c.probes /\ d.turn = c.turn

\* A source that is new to the deck.
LEMMA FreshIs ==
  ASSUME NEW c, Steady(c), c.loaded # Bare, NewToDeck(c)
  PROVE  Starts(c, Fresh(c))
  <1>1. c \in CodecRec /\ c.loaded \in Source /\ c.adopt \in BOOLEAN
    BY CodecFields DEF Steady
  <1> DEFINE d == IF c.adopt THEN c ELSE TornDown(c)
             e == [d EXCEPT !.audio = IF c.adopt THEN @ ELSE c.loaded, !.adopt = FALSE]
  <1>2. /\ d \in CodecRec /\ d.loaded = c.loaded /\ d.wanted = c.wanted /\ d.audioOnly = FALSE
        /\ d.element = FALSE /\ d.player = Bare /\ d.live = {} /\ d.registry = Bare
        /\ d.probes = c.probes /\ d.due = c.due /\ d.cut = FALSE /\ d.turn = c.turn
        /\ c.adopt => d.audio = c.loaded
    <2>1. CASE c.adopt
      <3>1. /\ c.backing = Bare /\ c.registry = Bare /\ c.audio = c.loaded
        BY <2>1 DEF Steady, Adopting
      <3>2. c.player = Bare /\ ~c.element /\ ~c.audioOnly /\ c.live = {} /\ ~c.cut
        BY <3>1 DEF Steady, Kind, PlaysOn, AudioHeard
      <3>3. c.element = FALSE /\ c.audioOnly = FALSE /\ c.cut = FALSE
        BY <1>1, <3>2, CodecFields
      <3> QED BY <1>1, <2>1, <3>1, <3>2, <3>3
    <2>2. CASE ~c.adopt
      <3>1. Cleared(c, d)
        BY <1>1, <2>2, TornDownIs
      <3>2. c.live \ {c.player} = {} /\ ~c.cut /\ c.audio # c.loaded
        BY <2>2 DEF Steady, PlaysOn, AudioHeard
      <3> QED BY <2>2, <3>1, <3>2 DEF Cleared
    <2> QED BY <1>1, <2>1, <2>2
  <1> HIDE DEF d
  <1>3. /\ e \in CodecRec /\ e.loaded = c.loaded /\ e.wanted = c.wanted /\ e.audioOnly = FALSE
        /\ e.element = FALSE /\ e.player = Bare /\ e.live = {} /\ e.registry = Bare
        /\ e.probes = c.probes /\ e.due = c.due /\ e.cut = FALSE /\ e.turn = c.turn
        /\ e.audio = c.loaded /\ e.adopt = FALSE
    <2>1. e = [d EXCEPT !.audio = c.loaded, !.adopt = FALSE]
      BY <1>2
    <2> HIDE DEF e
    <2> QED BY <1>1, <1>2, <2>1 DEF CodecRec
  <1>4. Fresh(c) = IF c.wanted = "webcodecs" THEN Probing(e)
                   ELSE [Backed(e, "legacy") EXCEPT !.element = TRUE]
    BY DEF Fresh, d
  <1> HIDE DEF e
  <1>5. CASE c.wanted = "webcodecs"
    <2>1. Probes(e, Fresh(c))
      BY <1>3, <1>4, <1>5, ProbingIs
    <2>2. NewProbe(e) = NewProbe(c)
      BY <1>3 DEF NewProbe
    <2> QED BY <1>3, <2>1, <2>2 DEF Probes, Backs, Starts
  <1>6. CASE c.wanted # "webcodecs"
    <2> DEFINE b == Backed(e, "legacy")
    <2>1. /\ Backs(e, b) /\ b.backing.kind = "legacy" /\ b.element = e.element
          /\ b.probes = e.probes /\ b.turn = e.turn
      BY <1>3, BackedIs
    <2>2. Fresh(c) = [b EXCEPT !.element = TRUE]
      BY <1>4, <1>6
    <2> HIDE DEF b
    <2> QED BY ZenonT(40), <1>3, <2>1, <2>2 DEF CodecRec, Backs, Starts
  <1> QED BY <1>5, <1>6

\* A probe that begins is told apart from the others.
LEMMA ProbeIsApart ==
  ASSUME NEW c, c.probes \in SUBSET Probe, c.turn \in Nat, Apart(c.probes, c.turn),
         \A p \in c.probes : p.file # c.loaded.file
  PROVE  Apart(c.probes \cup {NewProbe(c)}, c.turn + 1)
  <1> DEFINE probes == c.probes \cup {NewProbe(c)}
  <1>1. NewProbe(c).n = c.turn /\ NewProbe(c).file = c.loaded.file /\ NewProbe(c).stage = "caching"
    BY DEF NewProbe
  <1>2. \A p \in c.probes : p.n \in Nat /\ p.n < c.turn /\ p.n # c.turn /\ p.n <= c.turn
    <2>1. \A p \in c.probes : p.n \in Nat
      BY DEF Probe
    <2>2. \A p \in c.probes : p.n < c.turn
      BY DEF Apart
    <2> QED BY <2>1, <2>2
  <1>3. ASSUME NEW p \in probes, NEW q \in probes, p.file = q.file \/ p.n = q.n
        PROVE  p = q
    <2>1. CASE p \in c.probes /\ q \in c.probes
      BY <1>3, <2>1 DEF Apart
    <2>2. CASE ~(p \in c.probes /\ q \in c.probes)
      BY <1>1, <1>2, <1>3, <2>2
    <2> QED BY <2>1, <2>2
  <1>4. \A p \in probes : p.n < c.turn + 1
    BY <1>1, <1>2
  <1>5. ASSUME NEW p \in probes, NEW q \in probes, p.stage = "demuxed"
        PROVE  p.n <= q.n
    <2>1. p \in c.probes
      BY <1>1, <1>5
    <2>2. CASE q \in c.probes
      BY <1>5, <2>1, <2>2 DEF Apart
    <2>3. CASE q = NewProbe(c)
      BY <1>1, <1>2, <2>1, <2>3
    <2> QED BY <2>2, <2>3
  <1>6. \A p \in probes : p.stage = "timed out" => Stream[p.file] = "none"
    BY <1>1 DEF Apart
  <1> HIDE DEF probes
  <1>7. Apart(probes, c.turn + 1)
    BY <1>3, <1>4, <1>5, <1>6 DEF Apart
  <1> QED BY <1>7 DEF probes

\* A backend that starts keeps all that is known.
LEMMA StartsKeeps ==
  ASSUME NEW c, NEW d, Steady(c), c.loaded # Bare, NewToDeck(c), Starts(c, d)
  PROVE  Steady(d) /\ Presented(d) /\ Settled(d) /\ ~d.adopt
  <1>1. /\ c \in CodecRec /\ c.loaded \in Source /\ c.turn \in Nat /\ c.probes \in SUBSET Probe
        /\ c.loaded.seq \in 1..c.turn - 1
    BY CodecFields DEF Steady, AudioHeard
  <1>2. \A p \in c.probes : p.file # c.loaded.file
    BY DEF Steady, Awaited, Fits
  <1>3. Apart(c.probes, c.turn)
    BY DEF Steady
  <1>4. d.loaded # Bare /\ d.backing # Bare /\ Fits(d) /\ ~NewToDeck(d)
    BY BareAssumption DEF Starts, Fits, NewToDeck
  <1>5. NewProbe(c).n = c.turn /\ NewProbe(c).file = c.loaded.file /\ NewProbe(c).stage = "caching"
    BY DEF NewProbe
  <1>6. PlaysOn(d) /\ Adopting(d)
    BY DEF Starts, PlaysOn, Adopting
  <1>7. Kind(d)
    BY <1>4 DEF Starts, Kind
  <1>8. AudioHeard(d)
    <2>1. d.turn \in Nat /\ d.turn >= c.turn
      BY <1>1 DEF Starts
    <2> QED BY <1>1, <1>4, <2>1 DEF Starts, AudioHeard
  <1>9. CASE d.backing.kind = "pending"
    <2>1. d.probes = c.probes \cup {NewProbe(c)} /\ d.turn = c.turn + 1
      BY <1>9 DEF Starts
    <2>2. \A p \in c.probes : p.n \in Nat /\ p.n < c.turn
      BY <1>1, <1>3 DEF Probe, Apart
    <2>3. Apart(d.probes, d.turn)
      BY <1>1, <1>2, <1>3, <2>1, ProbeIsApart
    <2>4. Awaited(d)
      <3>1. \A q \in d.probes : q.n <= c.turn
        BY <1>1, <1>5, <2>1, <2>2
      <3> QED BY <1>2, <1>4, <1>5, <1>9, <2>1, <3>1 DEF Awaited, Starts
    <2> QED BY <1>4, <1>6, <1>7, <1>8, <1>9, <2>3, <2>4 DEF Steady, Starts, Presented, Settled
  <1>10. CASE d.backing.kind = "legacy"
    <2>1. d.probes = c.probes /\ d.turn = c.turn /\ d.element = TRUE
      BY <1>10 DEF Starts
    <2>2. Apart(d.probes, d.turn)
      BY <1>3, <2>1
    <2>3. Awaited(d)
      BY <1>2, <1>10, <2>1 DEF Awaited, Starts
    <2> QED BY <1>4, <1>6, <1>7, <1>8, <1>10, <2>1, <2>2, <2>3
            DEF Steady, Starts, Presented, Settled
  <1> QED BY <1>9, <1>10 DEF Starts

\* A pass over the deck (syncVideoElements) sees to what there is to see to.
LEMMA SyncedIs ==
  ASSUME NEW c, Steady(c)
  PROVE  /\ Steady(Synced(c)) /\ Presented(Synced(c)) /\ Settled(Synced(c))
         /\ ~Synced(c).adopt /\ Synced(c).due = c.due
  <1>1. /\ c \in CodecRec /\ c.adopt \in BOOLEAN /\ c.probes \in SUBSET Probe
        /\ c.backing \in Backend \cup {Bare} /\ c.wanted \in {"webcodecs", "legacy"}
    BY CodecFields DEF Steady
  <1>2. CASE c.loaded = Bare
    <2>1. ~c.adopt /\ ~Fits(c)
      BY <1>2 DEF Steady, Adopting, Fits
    <2>2. CASE c.element \/ c.player # Bare
      <3> DEFINE d == Synced(c)
      <3>1. Cleared(c, d)
        BY <1>1, <1>2, <2>2, TornDownIs DEF Synced
      <3> HIDE DEF d
      <3>2. c.live \ {c.player} = {} /\ ~c.cut
        BY DEF Steady, PlaysOn, AudioHeard
      <3>3. d.cut = FALSE /\ d.live = {} /\ d.loaded = Bare
        BY <1>2, <3>1, <3>2 DEF Cleared
      <3>4. Apart(d.probes, d.turn)
        BY <3>1 DEF Steady, Cleared
      <3>5. /\ Awaited(d) /\ PlaysOn(d) /\ Kind(d) /\ Adopting(d)
        BY <2>1, <3>1, <3>3 DEF Cleared, Awaited, PlaysOn, Kind, Adopting, Fits
      <3>6. AudioHeard(d)
        BY <2>1, <3>1, <3>3 DEF Cleared, Steady, AudioHeard, Fits
      <3> QED BY <2>1, <3>1, <3>3, <3>4, <3>5, <3>6 DEF Cleared, Steady, Presented, Settled, Fits, d
    <2>3. CASE ~(c.element \/ c.player # Bare)
      <3>1. Synced(c) = c
        BY <1>2, <2>3 DEF Synced
      <3> QED BY <1>2, <2>1, <2>3, <3>1 DEF Presented, Settled
    <2> QED BY <2>2, <2>3
  <1>3. CASE c.loaded # Bare /\ NewToDeck(c)
    <2>1. Synced(c) = Fresh(c)
      BY <1>3 DEF Synced
    <2>2. Starts(c, Synced(c))
      BY <1>3, <2>1, FreshIs
    <2> QED BY <1>3, <2>2, StartsKeeps DEF Starts
  <1>4. CASE c.loaded # Bare /\ ~NewToDeck(c)
    <2>1. /\ Fits(c) /\ c.backing \in Backend /\ c.backing # Bare /\ ~c.adopt
          /\ c.audio = c.loaded /\ c.loaded.seq \in 1..c.turn - 1 /\ c.turn \in Nat
          /\ c.loaded \in Source /\ Apart(c.probes, c.turn)
          /\ c.backing.file = c.loaded.file /\ c.backing.seq = c.loaded.seq
      BY <1>1, <1>4, CodecFields DEF Fits, NewToDeck, Steady, Adopting, AudioHeard
    <2>2. \A p \in c.probes : p.file = c.loaded.file => c.backing.kind = "pending"
      BY <2>1 DEF Steady, Awaited, Fits
    <2>3. c.player # Bare <=> c.backing.kind = "webcodecs"
      BY <2>1 DEF Steady, Kind
    <2>4. CASE c.backing.kind = "pending" \/ (c.backing.kind = "webcodecs" /\ c.wanted = "webcodecs")
      <3>1. Synced(c) = c
        <4>1. CASE c.backing.kind = "pending"
          BY <1>4, <4>1 DEF Synced
        <4>2. CASE c.backing.kind = "webcodecs" /\ c.wanted = "webcodecs"
          BY <1>4, <4>2 DEF Synced
        <4> QED BY <2>4, <4>1, <4>2
      <3> QED BY <1>4, <2>1, <2>4, <3>1 DEF Presented, Settled
    <2>5. CASE c.backing.kind = "legacy" /\ c.wanted = "webcodecs"
      <3> DEFINE d == Synced(c)
                 e == [c EXCEPT !.element = FALSE]
      <3>1. d = Probing(e)
        BY <1>4, <2>5 DEF Synced
      <3>2. /\ e \in CodecRec /\ e.loaded = c.loaded /\ e.wanted = c.wanted /\ e.backing = c.backing
            /\ e.audioOnly = c.audioOnly /\ e.element = FALSE /\ e.player = c.player
            /\ e.live = c.live /\ e.registry = c.registry /\ e.probes = c.probes
            /\ e.audio = c.audio /\ e.adopt = c.adopt /\ e.due = c.due /\ e.turn = c.turn
            /\ e.cut = c.cut
        BY <1>1 DEF CodecRec
      <3> HIDE DEF d, e
      <3>3. Probes(e, d) /\ NewProbe(e) = NewProbe(c)
        BY <1>4, <3>1, <3>2, ProbingIs DEF NewProbe
      <3>4. c.player = Bare /\ c.live = {}
        BY <2>3, <2>5 DEF Steady, PlaysOn
      <3>5. /\ d \in CodecRec /\ d.loaded = c.loaded /\ d.audioOnly = c.audioOnly
            /\ d.player = Bare /\ d.live = {} /\ d.registry = c.registry /\ d.audio = c.loaded
            /\ d.adopt = c.adopt /\ d.due = c.due /\ d.cut = c.cut
            /\ d.backing \in Backend /\ d.backing.file = c.loaded.file
            /\ d.backing.seq = c.loaded.seq /\ d.backing.kind = "pending" /\ d.element = FALSE
            /\ d.probes = c.probes \cup {NewProbe(c)} /\ d.turn = c.turn + 1
        BY <2>1, <3>2, <3>3, <3>4 DEF Probes, Backs
      <3>6. Apart(d.probes, d.turn)
        BY <1>1, <2>1, <2>2, <2>5, <3>5, ProbeIsApart
      <3>7. \A q \in d.probes : q.n <= c.turn
        <4>1. \A q \in c.probes : q.n \in Nat /\ q.n < c.turn
          BY <1>1, <2>1 DEF Probe, Apart
        <4> QED BY <2>1, <3>5, <4>1 DEF NewProbe
      <3>8. Fits(d) /\ ~NewToDeck(d) /\ d.backing # Bare
        BY <1>4, <3>5, BareAssumption DEF Fits, NewToDeck
      <3>9. Awaited(d)
        <4>1. NewProbe(c).n = c.turn /\ NewProbe(c).file = c.loaded.file
              /\ NewProbe(c).stage = "caching"
          BY DEF NewProbe
        <4>2. c.player = Bare /\ c.registry # Bare =>
                \E p \in c.probes : p.stage = "demuxed" /\ p.file = c.registry
          BY DEF Steady, Awaited
        <4> QED BY <2>2, <2>5, <3>4, <3>5, <3>7, <3>8, <4>1, <4>2 DEF Awaited
      <3>10. PlaysOn(d) /\ Adopting(d)
        BY <2>1, <3>5 DEF PlaysOn, Adopting
      <3>11. Kind(d)
        BY <2>1, <3>5, <3>8 DEF Steady, Kind
      <3>12. AudioHeard(d)
        BY <2>1, <3>5, <3>8 DEF Steady, AudioHeard
      <3> QED BY <1>4, <2>1, <3>5, <3>6, <3>8, <3>9, <3>10, <3>11, <3>12
              DEF Steady, Presented, Settled, d
    <2>6. CASE c.backing.kind = "webcodecs" /\ c.wanted = "legacy"
      <3> DEFINE d == Synced(c)
                 w == WithoutPlayer(c)
                 b == Backed(w, "legacy")
      <3>1. d = [b EXCEPT !.audioOnly = FALSE, !.element = TRUE]
        BY <1>4, <2>6 DEF Synced
      <3>2. (c.live \ {c.player}) = {} /\ c.probes = {}
        BY <2>3, <2>6 DEF Steady, PlaysOn
      <3>3. /\ w \in CodecRec /\ w.loaded = c.loaded /\ w.wanted = c.wanted /\ w.player = Bare
            /\ w.live = {} /\ w.registry = Bare /\ w.probes = {}
            /\ w.audio = c.audio /\ w.adopt = c.adopt /\ w.due = c.due /\ w.turn = c.turn
            /\ w.cut = c.cut
        BY <1>1, <3>2 DEF CodecRec, WithoutPlayer
      <3> HIDE DEF w
      <3>4. /\ Backs(w, b) /\ b.backing.kind = "legacy" /\ b.probes = {} /\ b.turn = c.turn
        BY <1>4, <3>3, BackedIs
      <3> HIDE DEF b
      <3>4a. /\ b \in CodecRec /\ b.loaded = c.loaded /\ b.wanted = c.wanted
            /\ b.player = Bare /\ b.live = {} /\ b.registry = Bare /\ b.audio = c.loaded
            /\ b.adopt = c.adopt /\ b.due = c.due /\ b.cut = c.cut
            /\ b.backing \in Backend /\ b.backing.file = c.loaded.file
            /\ b.backing.seq = c.loaded.seq
        BY <2>1, <3>3, <3>4 DEF Backs
      <3>5. /\ d \in CodecRec /\ d.loaded = c.loaded /\ d.audioOnly = FALSE
            /\ d.player = Bare /\ d.live = {} /\ d.registry = Bare /\ d.audio = c.loaded
            /\ d.adopt = c.adopt /\ d.due = c.due /\ d.cut = c.cut
            /\ d.backing \in Backend /\ d.backing.file = c.loaded.file
            /\ d.backing.seq = c.loaded.seq /\ d.backing.kind = "legacy" /\ d.element = TRUE
            /\ d.probes = {} /\ d.turn = c.turn
        BY <3>1, <3>4, <3>4a DEF CodecRec
      <3> HIDE DEF d
      <3>6. Fits(d) /\ ~NewToDeck(d) /\ d.backing # Bare
        BY <1>4, <3>5, BareAssumption DEF Fits, NewToDeck
      <3>7. Apart(d.probes, d.turn) /\ Awaited(d) /\ PlaysOn(d) /\ Kind(d) /\ Adopting(d)
        BY <2>1, <3>5, <3>6 DEF Apart, Awaited, PlaysOn, Kind, Adopting
      <3>8. AudioHeard(d)
        BY <2>1, <3>5, <3>6 DEF Steady, AudioHeard
      <3> QED BY <1>4, <2>1, <3>5, <3>6, <3>7, <3>8 DEF Steady, Presented, Settled, d
    <2>7. CASE \/ c.backing.kind = "legacy" /\ c.wanted = "legacy"
               \/ c.backing.kind = "fallback"
      <3> DEFINE d == Synced(c)
      <3>1. d = [c EXCEPT !.element = TRUE]
        <4>1. CASE c.backing.kind = "legacy" /\ c.wanted = "legacy"
          BY <1>4, <4>1 DEF Synced
        <4>2. CASE c.backing.kind = "fallback"
          BY <1>4, <4>2 DEF Synced
        <4> QED BY <2>7, <4>1, <4>2
      <3>2. /\ d \in CodecRec /\ d.loaded = c.loaded /\ d.wanted = c.wanted /\ d.backing = c.backing
            /\ d.audioOnly = c.audioOnly /\ d.element = TRUE /\ d.player = c.player
            /\ d.live = c.live /\ d.registry = c.registry /\ d.probes = c.probes
            /\ d.audio = c.audio /\ d.adopt = c.adopt /\ d.due = c.due /\ d.turn = c.turn
            /\ d.cut = c.cut
        BY <1>1, <3>1 DEF CodecRec
      <3> HIDE DEF d
      <3>3. (Fits(d) <=> Fits(c)) /\ (NewToDeck(d) <=> NewToDeck(c))
        BY <3>2 DEF Fits, NewToDeck
      <3>4. Kind(d)
        BY <2>1, <2>7, <3>2 DEF Steady, Kind
      <3>5. Apart(d.probes, d.turn) /\ Awaited(d) /\ PlaysOn(d) /\ Adopting(d)
        BY <3>2, <3>3 DEF Steady, Awaited, PlaysOn, Adopting
      <3>6. AudioHeard(d)
        BY <3>2, <3>3 DEF Steady, AudioHeard
      <3> QED BY <1>4, <2>1, <3>2, <3>3, <3>4, <3>5, <3>6 DEF Steady, Presented, Settled, d
    <2> QED BY <1>1, <2>1, <2>4, <2>5, <2>6, <2>7 DEF Backend
  <1> QED BY <1>2, <1>3, <1>4

\* A load, which has a number of its own, has all to come.
LEMMA PutOnKeeps ==
  ASSUME Races = {}, CodecInv, NEW f \in Media, PutOn(f)
  PROVE  CodecInv'
  <1> DEFINE c == codec
             d == codec'
             s == [file |-> f, seq |-> c.turn]
             turn == c.turn + 1
  <1>1. /\ Steady(c) /\ c \in CodecRec /\ c.turn \in Nat /\ ~c.adopt /\ c.probes \in SUBSET Probe
        /\ c.audio \in Source \cup {Bare} /\ c.backing \in Backend \cup {Bare}
        /\ \A p \in c.probes : p.file # f
    BY CodecFields DEF CodecInv, Steady, PutOn
  <1>2. s \in Source /\ s # Bare /\ s.file = f /\ s.seq = c.turn
    BY <1>1, BareAssumption DEF Source
  <1>3. d = [c EXCEPT !.loaded = s, !.turn = turn, !.due = TRUE] /\ turn \in Nat
    BY <1>1 DEF PutOn, CodecRec
  <1> HIDE DEF c, d, s, turn
  <1>4. /\ d \in CodecRec /\ d.loaded = s /\ d.backing = c.backing
        /\ d.audioOnly = c.audioOnly /\ d.element = c.element /\ d.player = c.player
        /\ d.live = c.live /\ d.registry = c.registry /\ d.probes = c.probes
        /\ d.audio = c.audio /\ d.adopt = c.adopt /\ d.due = TRUE /\ d.turn = c.turn + 1
        /\ d.cut = c.cut
    <2>1. d.turn = turn
      BY <1>1, <1>2, <1>3 DEF CodecRec
    <2> QED BY <1>1, <1>2, <1>3, <2>1 DEF CodecRec, turn
  <1>5. /\ c.audio # Bare => c.audio.seq < c.turn /\ c.audio.seq \in Nat
        /\ c.backing # Bare => c.backing.seq < c.turn /\ c.backing.seq \in Nat
        /\ c.loaded # Bare => c.loaded.seq \in 1..c.turn - 1
    BY <1>1 DEF Steady, AudioHeard, Source, Backend
  <1>6. ~Fits(d) /\ NewToDeck(d) /\ d.loaded # Bare
    BY <1>1, <1>2, <1>4, <1>5 DEF Fits, NewToDeck
  <1>7. Apart(d.probes, d.turn)
    <2>1. \A p \in c.probes : p.n \in Nat
      BY <1>1 DEF Probe
    <2>2. \A p \in c.probes : p.n < c.turn
      BY <1>1 DEF Steady, Apart
    <2>3. \A p \in d.probes : p.n < d.turn
      BY <1>1, <1>4, <2>1, <2>2
    <2> QED BY <1>1, <1>4, <2>3 DEF Steady, Apart
  <1>8. Awaited(d) /\ PlaysOn(d) /\ Kind(d) /\ Adopting(d)
    BY <1>1, <1>2, <1>4, <1>6 DEF Steady, Awaited, PlaysOn, Kind, Adopting
  <1>9. AudioHeard(d)
    BY <1>1, <1>2, <1>4, <1>5, <1>6 DEF Steady, AudioHeard
  <1>10. Steady(d) /\ Presented(d) /\ d.due
    BY <1>4, <1>6, <1>7, <1>8, <1>9 DEF Steady, Presented
  <1> QED BY <1>10 DEF CodecInv, d

\* The deck, or its source, is removed.
LEMMA TakeOffKeeps ==
  ASSUME CodecInv, TakeOff
  PROVE  CodecInv'
  <1> DEFINE c == codec
             d == codec'
  <1>1. Steady(c) /\ c \in CodecRec /\ ~c.adopt /\ d = [c EXCEPT !.loaded = Bare, !.due = TRUE]
    BY DEF CodecInv, Steady, TakeOff
  <1> HIDE DEF c, d
  <1>2. /\ d \in CodecRec /\ d.loaded = Bare /\ d.backing = c.backing
        /\ d.audioOnly = c.audioOnly /\ d.element = c.element /\ d.player = c.player
        /\ d.live = c.live /\ d.registry = c.registry /\ d.probes = c.probes
        /\ d.audio = c.audio /\ d.adopt = c.adopt /\ d.due = TRUE /\ d.turn = c.turn
        /\ d.cut = c.cut
    BY <1>1 DEF CodecRec
  <1>3. ~Fits(d)
    BY <1>2 DEF Fits
  <1>4. Steady(d)
    BY <1>1, <1>2, <1>3 DEF Steady, Awaited, PlaysOn, Kind, Adopting, AudioHeard
  <1> QED BY <1>2, <1>3, <1>4 DEF CodecInv, Presented, d

\* Only the path that is asked for changes, or a pass is scheduled or over.
LEMMA NothingElse ==
  ASSUME NEW c, NEW d, Steady(c), NEW wanted, wanted = "webcodecs" \/ wanted = "legacy",
         NEW due \in BOOLEAN, d = [c EXCEPT !.wanted = wanted, !.due = due], c.adopt => due
  PROVE  /\ Steady(d) /\ d.due = due /\ (Presented(c) => Presented(d))
         /\ (Settled(c) => Settled(d))
  <1>1. c \in CodecRec
    BY DEF Steady
  <1>2. /\ d \in CodecRec /\ d.loaded = c.loaded /\ d.backing = c.backing
        /\ d.audioOnly = c.audioOnly /\ d.element = c.element /\ d.player = c.player
        /\ d.live = c.live /\ d.registry = c.registry /\ d.probes = c.probes
        /\ d.audio = c.audio /\ d.adopt = c.adopt /\ d.due = due /\ d.turn = c.turn
        /\ d.cut = c.cut
    BY <1>1 DEF CodecRec
  <1>3. (Fits(d) <=> Fits(c)) /\ (NewToDeck(d) <=> NewToDeck(c))
    BY <1>2 DEF Fits, NewToDeck
  <1>4. Awaited(d) /\ PlaysOn(d) /\ Kind(d) /\ Adopting(d)
    BY <1>2, <1>3 DEF Steady, Awaited, PlaysOn, Kind, Adopting
  <1>5. AudioHeard(d)
    BY <1>2, <1>3 DEF Steady, AudioHeard
  <1> QED BY <1>2, <1>3, <1>4, <1>5 DEF Steady, Presented, Settled

\* setVideoPathOverride, a change of the session, and the pass.
LEMMA PassesKeep ==
  ASSUME CodecInv, ToggledPath \/ StoreChanges \/ SyncVideo
  PROVE  CodecInv'
  <1>1. /\ Steady(codec) /\ codec \in CodecRec /\ codec.wanted \in {"webcodecs", "legacy"}
        /\ codec.due \in BOOLEAN
    BY CodecFields DEF CodecInv, Steady
  <1>2. CASE ToggledPath
    <2> DEFINE wanted == IF codec.wanted = "legacy" THEN "webcodecs" ELSE "legacy"
    <2>1. codec' = [codec EXCEPT !.wanted = wanted, !.due = codec.due]
      BY <1>1, <1>2 DEF ToggledPath, CodecRec
    <2>2. wanted = "webcodecs" \/ wanted = "legacy"
      OBVIOUS
    <2>3. codec.adopt => codec.due
      BY <1>1 DEF Steady, Adopting
    <2> HIDE DEF wanted
    <2>4. /\ Steady(codec') /\ codec'.due = codec.due /\ (Presented(codec) => Presented(codec'))
          /\ (Settled(codec) => Settled(codec'))
      BY <1>1, <2>1, <2>2, <2>3, NothingElse
    <2> QED BY <2>4 DEF CodecInv
  <1>3. CASE StoreChanges
    <2>1. codec' = [codec EXCEPT !.wanted = codec.wanted, !.due = TRUE]
      BY <1>1, <1>3 DEF StoreChanges, CodecRec
    <2>2. /\ Steady(codec') /\ codec'.due = TRUE /\ (Presented(codec) => Presented(codec'))
          /\ (Settled(codec) => Settled(codec'))
      BY ZenonT(40), <1>1, <2>1, NothingElse
    <2> QED BY <2>2 DEF CodecInv
  <1>4. CASE SyncVideo
    <2> DEFINE c == Synced(codec)
    <2>1. Steady(c) /\ Presented(c) /\ Settled(c) /\ ~c.adopt /\ c.due = codec.due
      BY <1>1, SyncedIs
    <2>2. codec' = [c EXCEPT !.due = FALSE]
      BY <1>4 DEF SyncVideo
    <2> HIDE DEF c
    <2>3. c \in CodecRec /\ c.wanted \in {"webcodecs", "legacy"}
      BY <2>1, CodecFields DEF Steady
    <2>4. codec' = [c EXCEPT !.wanted = c.wanted, !.due = FALSE]
      BY <2>2, <2>3 DEF CodecRec
    <2>5. /\ Steady(codec') /\ codec'.due = FALSE /\ (Presented(c) => Presented(codec'))
          /\ (Settled(c) => Settled(codec'))
      BY <2>1, <2>3, <2>4, NothingElse
    <2> QED BY <2>1, <2>5 DEF CodecInv
  <1> QED BY <1>2, <1>3, <1>4

\* A probe p becomes q, and the registry serves r.
Moves(c, p, q, r) ==
    /\ p \in c.probes /\ p.stage # "demuxed" /\ q \in Probe /\ q.n = p.n /\ q.file = p.file
    /\ q.stage = "timed out" => Stream[q.file] = "none"
    /\ IF q.stage = "demuxed" THEN r = p.file /\ \A s \in c.probes : p.n <= s.n
       ELSE r = c.registry

\* A probe comes a step further; the last one makes the registry serve its file.
LEMMA ProbeMoves ==
  ASSUME NEW c, NEW d, Steady(c), NEW p, NEW q, NEW r, Moves(c, p, q, r),
         d = [c EXCEPT !.probes = (c.probes \ {p}) \cup {q}, !.registry = r]
  PROVE  /\ Steady(d) /\ d.due = c.due /\ (Presented(c) => Presented(d))
         /\ (Settled(c) => Settled(d))
  <1>0. /\ p \in c.probes /\ p.stage # "demuxed" /\ q \in Probe /\ q.n = p.n /\ q.file = p.file
        /\ q.stage = "timed out" => Stream[q.file] = "none"
        /\ q.stage = "demuxed" => r = p.file /\ \A s \in c.probes : p.n <= s.n
        /\ q.stage # "demuxed" => r = c.registry
    BY DEF Moves
  <1>1. /\ c \in CodecRec /\ c.registry \in Media \cup {Bare} /\ c.probes \in SUBSET Probe
        /\ c.turn \in Nat
    BY CodecFields DEF Steady
  <1>2. p.n \in Nat /\ p.file \in Media /\ p.file # Bare /\ \A s \in c.probes : s.n \in Nat
    BY <1>0, <1>1, CodecAssumption DEF Probe
  <1> DEFINE probes == (c.probes \ {p}) \cup {q}
  <1>3. probes \in SUBSET Probe /\ r \in Media \cup {Bare}
    BY <1>0, <1>1, <1>2
  <1>4. /\ \A s \in probes : s = q \/ (s \in c.probes /\ s # p)
        /\ \A s \in c.probes : s = p \/ s \in probes
        /\ q \in probes
    OBVIOUS
  <1>5. Apart(c.probes, c.turn) /\ c.player = Bare
    <2>1. c.probes # {}
      BY <1>0
    <2> QED BY <2>1 DEF Steady, PlaysOn
  <1> HIDE DEF probes
  <1>6. /\ d \in CodecRec /\ d.loaded = c.loaded /\ d.backing = c.backing
        /\ d.audioOnly = c.audioOnly /\ d.element = c.element /\ d.player = c.player
        /\ d.live = c.live /\ d.registry = r /\ d.probes = probes
        /\ d.audio = c.audio /\ d.adopt = c.adopt /\ d.due = c.due /\ d.turn = c.turn
        /\ d.cut = c.cut
    <2>1. d = [c EXCEPT !.probes = probes, !.registry = r]
      BY DEF probes
    <2> QED BY <1>1, <1>3, <2>1 DEF CodecRec
  <1>7. Apart(probes, c.turn)
    <2>1. \A s, t \in probes : s.file = t.file \/ s.n = t.n => s = t
      BY <1>0, <1>4, <1>5 DEF Apart
    <2>2. \A s \in probes : s.n < c.turn
      BY <1>0, <1>4, <1>5 DEF Apart
    <2>3. ASSUME NEW s \in probes, NEW t \in probes, s.stage = "demuxed"
          PROVE  s.n <= t.n
      <3>1. CASE s = q /\ t = q
        <4>1. \A n \in Nat : n <= n
          OBVIOUS
        <4>2. p.n <= p.n
          BY <1>2, <4>1
        <4> QED BY <1>0, <3>1, <4>2
      <3>2. CASE s = q /\ t # q
        BY <1>0, <1>4, <2>3, <3>2
      <3>3. CASE s # q
        <4>1. s \in c.probes /\ (t \in c.probes \/ t = q)
          BY <1>4, <3>3
        <4> QED BY <1>0, <1>5, <2>3, <4>1 DEF Apart
      <3> QED BY <3>1, <3>2, <3>3
    <2>4. \A s \in probes : s.stage = "timed out" => Stream[s.file] = "none"
      BY <1>0, <1>4, <1>5 DEF Apart
    <2> QED BY <2>1, <2>2, <2>3, <2>4 DEF Apart
  <1>8. (Fits(d) <=> Fits(c)) /\ (NewToDeck(d) <=> NewToDeck(c))
    BY <1>6 DEF Fits, NewToDeck
  <1>9. Awaited(d)
    <2>1. ASSUME NEW s \in probes, c.loaded # Bare, c.loaded.file = s.file
          PROVE  /\ Fits(c) /\ c.backing.kind = "pending"
                 /\ \A t \in probes : t.n <= s.n
                 /\ s.stage = "demuxed" => r = s.file
      <3>1. CASE s = q
        <4>1. /\ Fits(c) /\ c.backing.kind = "pending" /\ \A t \in c.probes : t.n <= p.n
          BY <1>0, <2>1, <3>1 DEF Steady, Awaited
        <4>2. s.stage = "demuxed" => r = s.file
          BY <1>0, <3>1
        <4>3. \A t \in probes : t.n <= s.n
          BY <1>0, <1>2, <1>4, <3>1, <4>1
        <4> QED BY <4>1, <4>2, <4>3
      <3>2. CASE s # q
        <4>1. s \in c.probes /\ s # p
          BY <1>4, <3>2
        <4>2. /\ Fits(c) /\ c.backing.kind = "pending" /\ \A t \in c.probes : t.n <= s.n
              /\ s.stage = "demuxed" => c.registry = s.file
          BY <2>1, <4>1 DEF Steady, Awaited
        <4>3. \A t \in probes : t.n <= s.n
          BY <1>0, <1>4, <4>1, <4>2
        <4>4. ~(s.stage = "demuxed" /\ q.stage = "demuxed")
          <5> SUFFICES ASSUME s.stage = "demuxed", q.stage = "demuxed" PROVE FALSE
            OBVIOUS
          <5>1. p.n <= s.n /\ s.n <= p.n
            BY <1>0, <1>5, <4>1 DEF Apart
          <5>2. p.n = s.n
            BY <1>0, <1>2, <4>1, <5>1
          <5> QED BY <1>0, <1>5, <4>1, <5>2 DEF Apart
        <4> QED BY <1>0, <4>2, <4>3, <4>4
      <3> QED BY <3>1, <3>2
    <2>2. Fits(c) /\ c.backing.kind = "pending" => \E s \in probes : s.file = c.loaded.file
      <3> SUFFICES ASSUME Fits(c), c.backing.kind = "pending"
                   PROVE  \E s \in probes : s.file = c.loaded.file
        OBVIOUS
      <3>1. PICK s \in c.probes : s.file = c.loaded.file
        BY DEF Steady, Awaited
      <3> QED BY <1>0, <1>4, <3>1
    <2>3. r # Bare => \E s \in probes : s.stage = "demuxed" /\ s.file = r
      <3>1. CASE q.stage = "demuxed"
        BY <1>0, <1>4, <3>1
      <3>2. CASE q.stage # "demuxed"
        <4> SUFFICES ASSUME c.registry # Bare
                     PROVE  \E s \in probes : s.stage = "demuxed" /\ s.file = c.registry
          BY <1>0, <3>2
        <4>1. PICK s \in c.probes : s.stage = "demuxed" /\ s.file = c.registry
          BY <1>5 DEF Steady, Awaited
        <4> QED BY <1>0, <1>4, <4>1
      <3> QED BY <3>1, <3>2
    <2> QED BY <1>6, <1>8, <2>1, <2>2, <2>3 DEF Awaited
  <1>10. PlaysOn(d) /\ Kind(d) /\ Adopting(d)
    BY <1>0, <1>5, <1>6, <1>8 DEF Steady, PlaysOn, Kind, Adopting
  <1>11. AudioHeard(d)
    BY <1>6, <1>8 DEF Steady, AudioHeard
  <1> QED BY <1>6, <1>7, <1>8, <1>9, <1>10, <1>11 DEF Steady, Presented, Settled

\* The file is fetched, its streams are found, and its access units are pulled.
LEMMA ProbesKeep ==
  ASSUME Races = {}, CodecInv, NEW p \in codec.probes,
         FileCached(p) \/ Negotiates(p) \/ Pulls(p)
  PROVE  CodecInv'
  <1>1. Steady(codec) /\ codec \in CodecRec /\ p \in Probe
    BY CodecFields DEF CodecInv, Steady
  <1>2. \A stage \in Stages :
          /\ [p EXCEPT !.stage = stage] \in Probe /\ [p EXCEPT !.stage = stage].n = p.n
          /\ [p EXCEPT !.stage = stage].file = p.file
          /\ [p EXCEPT !.stage = stage].stage = stage
    BY <1>1 DEF Probe
  <1>3. ASSUME NEW stage \in Stages, NEW r, p.stage # "demuxed",
               stage = "timed out" => Stream[p.file] = "none",
               IF stage = "demuxed" THEN r = p.file /\ \A s \in codec.probes : p.n <= s.n
               ELSE r = codec.registry,
               codec' = [codec EXCEPT !.probes = At(p, stage), !.registry = r]
        PROVE  CodecInv'
    <2> DEFINE q == [p EXCEPT !.stage = stage]
    <2>1. q \in Probe /\ q.n = p.n /\ q.file = p.file /\ q.stage = stage
      BY <1>2
    <2>2. codec' = [codec EXCEPT !.probes = (codec.probes \ {p}) \cup {q}, !.registry = r]
      BY <1>3 DEF At
    <2> HIDE DEF q
    <2>3. Moves(codec, p, q, r)
      BY <1>3, <2>1 DEF Moves
    <2>4. /\ Steady(codec') /\ codec'.due = codec.due /\ (Presented(codec) => Presented(codec'))
          /\ (Settled(codec) => Settled(codec'))
      BY <1>1, <2>2, <2>3, ProbeMoves
    <2> QED BY <2>4 DEF CodecInv
  <1>4. \A stage : [codec EXCEPT !.probes = At(p, stage)]
                   = [codec EXCEPT !.probes = At(p, stage), !.registry = codec.registry]
    BY <1>1 DEF CodecRec
  <1>5. CASE FileCached(p)
    <2>1. PICK stage \in {"negotiating", "failed"} : codec' = [codec EXCEPT !.probes = At(p, stage)]
      BY <1>5 DEF FileCached
    <2>2. p.stage # "demuxed" /\ stage \in Stages /\ stage # "demuxed" /\ stage # "timed out"
      BY <1>5, <2>1 DEF FileCached, Stages
    <2>3. codec' = [codec EXCEPT !.probes = At(p, stage), !.registry = codec.registry]
      BY <1>4, <2>1
    <2> QED BY <1>3, <2>2, <2>3
  <1>6. CASE Negotiates(p)
    <2>1. PICK stage \in {"failed"} \cup (IF Stream[p.file] = "supported" THEN {"pulling"} ELSE {})
                \cup (IF Stream[p.file] = "none" THEN {"timed out"} ELSE {}) :
             codec' = [codec EXCEPT !.probes = At(p, stage)]
      BY <1>6 DEF Negotiates
    <2>2. /\ p.stage # "demuxed" /\ stage \in Stages /\ stage # "demuxed"
          /\ stage = "timed out" => Stream[p.file] = "none"
      BY <1>6, <2>1 DEF Negotiates, Stages
    <2>3. codec' = [codec EXCEPT !.probes = At(p, stage), !.registry = codec.registry]
      BY <1>4, <2>1
    <2> QED BY <1>3, <2>2, <2>3
  <1>7. CASE Pulls(p) /\ codec' = [codec EXCEPT !.probes = At(p, "failed")]
    <2>1. codec' = [codec EXCEPT !.probes = At(p, "failed"), !.registry = codec.registry]
      BY <1>4, <1>7
    <2>2. p.stage # "demuxed" /\ "failed" \in Stages
      BY <1>7 DEF Pulls, Stages
    <2> QED BY <1>3, <2>1, <2>2
  <1>8. CASE /\ Pulls(p) /\ \A q \in codec.probes : q.n >= p.n
             /\ codec' = [codec EXCEPT !.probes = At(p, "demuxed"), !.registry = p.file]
    <2>1. p.stage # "demuxed" /\ "demuxed" \in Stages
      BY <1>8 DEF Pulls, Stages
    <2>2. \A s \in codec.probes : p.n <= s.n
      BY <1>8
    <2> QED BY <1>3, <1>8, <2>1, <2>2
  <1> QED BY <1>5, <1>6, <1>7, <1>8 DEF Pulls

\* What a failed or superseded probe leaves: the others.
LEMMA FewerAreApart ==
  ASSUME NEW probes, NEW turn, Apart(probes, turn), NEW p
  PROVE  Apart(probes \ {p}, turn)
  BY DEF Apart

\* A probe is answered: its player presents the deck's source, or is not wanted any more.
LEMMA AnswersKeep ==
  ASSUME CodecInv, NEW p \in codec.probes, Answers(p)
  PROVE  CodecInv'
  <1> DEFINE c == codec
             player == [n |-> p.n, file |-> p.file]
             o == [c EXCEPT !.probes = @ \ {p}]
  <1>1. /\ Steady(c) /\ c \in CodecRec /\ c.probes \in SUBSET Probe /\ p \in Probe /\ p \in c.probes
        /\ p.stage = "demuxed" /\ c.turn \in Nat /\ (~c.due => Settled(c))
    BY CodecFields DEF CodecInv, Steady, Answers
  <1>2. \A q \in c.probes : q.n \in Nat
    BY <1>1 DEF Probe
  <1>3. /\ Apart(c.probes, c.turn) /\ c.player = Bare /\ c.live = {} /\ ~c.adopt
        /\ \A q \in c.probes : p.n <= q.n
    BY <1>1 DEF Steady, PlaysOn, Adopting, Apart
  <1>4. codec' = IF StillWanted(p)
                 THEN Synced([Backed(o, "webcodecs") EXCEPT !.player = player,
                                 !.live = @ \cup {player}, !.audioOnly = FALSE])
                 ELSE [o EXCEPT !.registry = Bare]
    BY DEF Answers
  <1>5. player \in Player /\ player # Bare /\ player.file = p.file
    BY <1>1, BareAssumption DEF Probe, Player
  <1> DEFINE rest == c.probes \ {p}
  <1>6. rest \in SUBSET Probe /\ Apart(rest, c.turn) /\ o = [c EXCEPT !.probes = rest]
    BY <1>1, <1>3, FewerAreApart
  <1>7. \A q \in rest : q \in c.probes /\ q # p
    OBVIOUS
  <1>8. \A q \in c.probes : q = p \/ q \in rest
    OBVIOUS
  <1> HIDE DEF c, player, rest, o
  <1>9. /\ o \in CodecRec /\ o.loaded = c.loaded /\ o.backing = c.backing
        /\ o.audioOnly = c.audioOnly /\ o.element = c.element /\ o.player = Bare
        /\ o.live = {} /\ o.registry = c.registry /\ o.probes = rest
        /\ o.audio = c.audio /\ o.adopt = c.adopt /\ o.due = c.due /\ o.turn = c.turn
        /\ o.cut = c.cut
    BY <1>1, <1>3, <1>6 DEF CodecRec
  <1>10. CASE StillWanted(p)
    <2> DEFINE b == Backed(o, "webcodecs")
               live == b.live \cup {player}
               e == [b EXCEPT !.player = player, !.live = live, !.audioOnly = FALSE]
    <2>1. c.loaded # Bare /\ c.loaded.file = p.file
      BY <1>10 DEF StillWanted, c
    <2>2. /\ Fits(c) /\ c.backing.kind = "pending" /\ c.registry = p.file
          /\ \A q \in c.probes : q.n <= p.n
      BY <1>1, <2>1 DEF Steady, Awaited
    <2>3. rest = {}
      <3>1. \A q \in c.probes : q.n = p.n
        BY <1>1, <1>2, <1>3, <2>2
      <3>2. \A q \in c.probes : q = p
        BY <1>1, <1>3, <3>1 DEF Apart
      <3> QED BY <1>7, <3>2
    <2>4. /\ Backs(o, b) /\ b.backing.kind = "webcodecs" /\ b.element = o.element
          /\ b.probes = o.probes /\ b.turn = o.turn
      BY <1>9, <2>1, BackedIs
    <2>5. codec' = Synced(e)
      BY <1>4, <1>10
    <2> HIDE DEF b
    <2>6. b \in CodecRec /\ b.live = {} /\ live \in SUBSET Player /\ live = {player}
      BY <1>5, <1>9, <2>4 DEF Backs
    <2> HIDE DEF live
    <2>7. /\ e \in CodecRec /\ e.loaded = b.loaded /\ e.backing = b.backing
          /\ e.audioOnly = FALSE /\ e.element = b.element /\ e.player = player
          /\ e.live = live /\ e.registry = b.registry /\ e.probes = b.probes
          /\ e.audio = b.audio /\ e.adopt = b.adopt /\ e.due = b.due /\ e.turn = b.turn
          /\ e.cut = b.cut
      BY <1>5, <2>6 DEF CodecRec
    <2> HIDE DEF e
    <2>8. /\ e.loaded = c.loaded /\ e.backing \in Backend /\ e.backing.file = c.loaded.file
          /\ e.backing.seq = c.loaded.seq /\ e.backing.kind = "webcodecs"
          /\ e.element = c.element /\ e.live = {player} /\ e.registry = p.file /\ e.probes = {}
          /\ e.audio = c.audio /\ e.adopt = c.adopt /\ e.due = c.due /\ e.turn = c.turn
          /\ e.cut = c.cut
      BY <1>9, <2>2, <2>3, <2>4, <2>6, <2>7 DEF Backs
    <2>9. e.backing # Bare /\ Fits(e) /\ c.backing # Bare
      BY <2>1, <2>2, <2>8, BareAssumption DEF Fits, NewToDeck
    <2>10. ~c.element
      BY <1>1, <2>2, <2>9 DEF Steady, Kind
    <2>11. Apart(e.probes, e.turn)
      BY <2>8 DEF Apart
    <2>12. Awaited(e)
      BY <1>5, <2>7, <2>8 DEF Awaited
    <2>13. PlaysOn(e)
      BY <1>5, <2>7, <2>8 DEF PlaysOn
    <2>14. Kind(e)
      BY <1>5, <2>7, <2>8, <2>9, <2>10 DEF Kind
    <2>15. AudioHeard(e) /\ Adopting(e)
      BY <1>1, <1>3, <2>2, <2>8, <2>9 DEF Steady, AudioHeard, Adopting, Fits
    <2>16. Steady(e)
      BY <2>7, <2>11, <2>12, <2>13, <2>14, <2>15 DEF Steady
    <2>17. Steady(codec') /\ Presented(codec') /\ Settled(codec')
      BY <2>5, <2>16, SyncedIs
    <2> QED BY <2>17 DEF CodecInv
  <1>11. CASE ~StillWanted(p)
    <2> DEFINE d == codec'
    <2>1. d = [o EXCEPT !.registry = Bare]
      BY <1>4, <1>11
    <2> HIDE DEF d
    <2>2. /\ d \in CodecRec /\ d.loaded = c.loaded /\ d.backing = c.backing
          /\ d.audioOnly = c.audioOnly /\ d.element = c.element /\ d.player = Bare
          /\ d.live = {} /\ d.registry = Bare /\ d.probes = rest
          /\ d.audio = c.audio /\ d.adopt = c.adopt /\ d.due = c.due /\ d.turn = c.turn
          /\ d.cut = c.cut
      BY <1>9, <2>1 DEF CodecRec
    <2>3. (Fits(d) <=> Fits(c)) /\ (NewToDeck(d) <=> NewToDeck(c))
      BY <2>2 DEF Fits, NewToDeck
    <2>4. c.loaded = Bare \/ c.loaded.file # p.file
      BY <1>11 DEF StillWanted, c
    <2>5. \A q \in rest : q.stage # "demuxed"
      <3> SUFFICES ASSUME NEW q \in rest, q.stage = "demuxed" PROVE FALSE
        OBVIOUS
      <3>1. q.n <= p.n /\ p.n <= q.n /\ q \in c.probes /\ q # p
        BY <1>1, <1>3, <1>7 DEF Apart
      <3>2. q.n = p.n
        BY <1>1, <1>2, <3>1
      <3> QED BY <1>1, <1>3, <3>1, <3>2 DEF Apart
    <2>6. Awaited(d)
      <3>1. \A q \in rest : c.loaded # Bare /\ c.loaded.file = q.file =>
              /\ Fits(c) /\ c.backing.kind = "pending"
              /\ \A s \in rest : s.n <= q.n
        BY <1>1, <1>7 DEF Steady, Awaited
      <3>2. Fits(c) /\ c.backing.kind = "pending" => \E q \in rest : q.file = c.loaded.file
        <4> SUFFICES ASSUME Fits(c), c.backing.kind = "pending"
                     PROVE  \E q \in rest : q.file = c.loaded.file
          OBVIOUS
        <4>1. PICK q \in c.probes : q.file = c.loaded.file
          BY <1>1 DEF Steady, Awaited
        <4> QED BY <1>8, <2>4, <4>1 DEF Fits
      <3> QED BY <2>2, <2>3, <2>5, <3>1, <3>2 DEF Awaited
    <2>7. PlaysOn(d) /\ Kind(d) /\ Adopting(d)
      BY <1>1, <1>3, <2>2 DEF Steady, PlaysOn, Kind, Adopting
    <2>8. AudioHeard(d)
      BY <1>1, <2>2, <2>3 DEF Steady, AudioHeard
    <2>9. Steady(d)
      BY <1>6, <2>2, <2>6, <2>7, <2>8 DEF Steady
    <2>10. Presented(d) /\ (Settled(c) => Settled(d))
      BY <1>3, <2>2, <2>3 DEF CodecInv, Presented, Settled, c
    <2> QED BY <1>1, <2>2, <2>9, <2>10 DEF CodecInv, d
  <1> QED BY <1>10, <1>11

\* A probe fails: the element presents its file, and a pass sees to the deck's source.
LEMMA FailsKeep ==
  ASSUME Races = {}, CodecInv, NEW p \in codec.probes, Fails(p)
  PROVE  CodecInv'
  <1> DEFINE c == codec
             seq == IF c.backing = Bare THEN 0 ELSE c.backing.seq
             b == [file |-> p.file, seq |-> seq, kind |-> "fallback"]
             only == p.stage = "timed out"
             rest == c.probes \ {p}
             e == [c EXCEPT !.probes = rest, !.backing = b, !.audioOnly = only]
  <1>1. /\ Steady(c) /\ c \in CodecRec /\ c.probes \in SUBSET Probe /\ p \in Probe /\ p \in c.probes
        /\ p.stage \in {"failed", "timed out"} /\ c.turn \in Nat
        /\ c.backing \in Backend \cup {Bare} /\ (c.backing # Bare => c.backing.file = p.file)
        /\ c.loaded \in Source \cup {Bare}
    BY CodecFields DEF CodecInv, Steady, Fails
  <1>2. /\ Apart(c.probes, c.turn) /\ c.player = Bare /\ c.live = {} /\ ~c.adopt
        /\ (p.stage = "timed out" => Stream[p.file] = "none")
    BY <1>1 DEF Steady, PlaysOn, Adopting, Apart
  <1>3. codec' = Synced(e)
    <2>1. [file |-> p.file, seq |-> IF c.backing = Bare THEN 0 ELSE c.backing.seq,
           kind |-> "fallback"] = b
      OBVIOUS
    <2> QED BY <2>1 DEF Fails
  <1>4. seq \in Nat /\ seq < c.turn
    BY <1>1 DEF Steady, AudioHeard, Backend
  <1>5. b \in Backend /\ b.file = p.file /\ b.seq = seq /\ b.kind = "fallback" /\ b # Bare
    <2> HIDE DEF seq
    <2>1. p.file \in Media /\ seq \in Nat
      BY <1>1, <1>4 DEF Probe
    <2>2. b \in Backend /\ b.file = p.file /\ b.seq = seq /\ b.kind = "fallback"
      BY <2>1 DEF Backend
    <2> QED BY <2>2, BareAssumption
  <1>6. c.backing = Bare => seq = 0
    OBVIOUS
  <1>7. c.backing # Bare => seq = c.backing.seq
    OBVIOUS
  <1>8. rest \in SUBSET Probe /\ Apart(rest, c.turn)
    BY <1>1, <1>2, FewerAreApart
  <1>9. \A q \in rest : q \in c.probes /\ q # p
    OBVIOUS
  <1>10. \A q \in c.probes : q = p \/ q \in rest
    OBVIOUS
  <1>11. only \in BOOLEAN /\ (only => Stream[p.file] = "none")
    BY <1>2
  <1> HIDE DEF c, seq, b, only, rest
  <1>12. /\ e \in CodecRec /\ e.loaded = c.loaded /\ e.backing = b
         /\ e.audioOnly = only /\ e.element = c.element /\ e.player = Bare
         /\ e.live = {} /\ e.registry = c.registry /\ e.probes = rest
         /\ e.audio = c.audio /\ e.adopt = c.adopt /\ e.due = c.due /\ e.turn = c.turn
         /\ e.cut = c.cut
    BY ZenonT(40), <1>1, <1>2, <1>5, <1>8, <1>11 DEF CodecRec
  <1> HIDE DEF e
  <1>13. c.loaded # Bare => (NewToDeck(e) <=> NewToDeck(c))
    <2>1. CASE c.backing = Bare
      <3>1. c.loaded # Bare => c.loaded.seq \in 1..c.turn - 1
        BY <1>1 DEF Steady, AudioHeard
      <3>2. \A m \in Nat : \A k \in 1..m - 1 : k # 0
        OBVIOUS
      <3>3. c.loaded # Bare => c.loaded.seq # 0
        BY <1>1, <3>1, <3>2
      <3> QED BY <1>5, <1>6, <1>12, <2>1, <3>3 DEF NewToDeck
    <2>2. CASE c.backing # Bare
      BY <1>1, <1>5, <1>7, <1>12, <2>2 DEF NewToDeck
    <2> QED BY <2>1, <2>2
  <1>14. Fits(e) <=> Fits(c)
    BY <1>12, <1>13 DEF Fits
  <1>15. Awaited(e)
    <2>1. ASSUME NEW q \in rest, c.loaded # Bare, c.loaded.file = q.file PROVE FALSE
      <3>1. Fits(c) /\ q \in c.probes /\ q # p
        BY <1>1, <1>9, <2>1 DEF Steady, Awaited
      <3>2. c.backing # Bare /\ c.backing.file = c.loaded.file
        BY <3>1 DEF Fits, NewToDeck
      <3> QED BY <1>1, <1>2, <2>1, <3>1, <3>2 DEF Apart
    <2>2. c.registry # Bare => \E q \in rest : q.stage = "demuxed" /\ q.file = c.registry
      <3> SUFFICES ASSUME c.registry # Bare
                   PROVE  \E q \in rest : q.stage = "demuxed" /\ q.file = c.registry
        OBVIOUS
      <3>1. PICK q \in c.probes : q.stage = "demuxed" /\ q.file = c.registry
        BY <1>1, <1>2 DEF Steady, Awaited
      <3> QED BY <1>1, <1>10, <3>1
    <2> QED BY <1>5, <1>12, <2>1, <2>2 DEF Awaited
  <1>16. PlaysOn(e) /\ Adopting(e)
    BY <1>2, <1>12 DEF PlaysOn, Adopting
  <1>17. Kind(e)
    BY <1>5, <1>11, <1>12 DEF Kind
  <1>18. AudioHeard(e)
    BY <1>1, <1>4, <1>5, <1>12, <1>13, <1>14 DEF Steady, AudioHeard
  <1>19. Steady(e)
    BY <1>8, <1>12, <1>15, <1>16, <1>17, <1>18 DEF Steady
  <1>20. Steady(codec') /\ Presented(codec') /\ Settled(codec')
    BY <1>3, <1>19, SyncedIs
  <1> QED BY <1>20 DEF CodecInv

\* However a load, a reload, a removal or a change of path falls into a probe, nothing
\* presents the deck twice, and when all is done its source has one presentation.
THEOREM OneBackendOfTheLoadHolds ==
  ASSUME Races = {}
  PROVE  CodecSpec => []OneBackendOfTheLoad
  <1>1. CodecInit => CodecInv
    <2> SUFFICES ASSUME CodecInit PROVE CodecInv
      OBVIOUS
    <2>1. Empty \in CodecRec
      BY DEF Empty, CodecRec
    <2>2. CASE codec = Empty
      <3>1. /\ codec \in CodecRec /\ codec.loaded = Bare /\ codec.backing = Bare
            /\ codec.audioOnly = FALSE /\ codec.element = FALSE /\ codec.player = Bare
            /\ codec.live = {} /\ codec.registry = Bare /\ codec.probes = {}
            /\ codec.audio = Bare /\ codec.adopt = FALSE /\ codec.due = FALSE
            /\ codec.cut = FALSE /\ codec.turn = 2
        BY <2>1, <2>2 DEF Empty
      <3>2. Apart(codec.probes, codec.turn) /\ Awaited(codec) /\ PlaysOn(codec) /\ Kind(codec)
        BY <3>1 DEF Apart, Awaited, PlaysOn, Kind, Fits
      <3>3. AudioHeard(codec) /\ Adopting(codec) /\ Presented(codec) /\ Settled(codec)
        BY <3>1 DEF AudioHeard, Adopting, Presented, Settled, Fits
      <3> QED BY <3>1, <3>2, <3>3 DEF CodecInv, Steady
    <2>3. CASE \E f \in Media : LET s == [file |-> f, seq |-> 1] IN
         codec = [Empty EXCEPT !.loaded = s, !.audio = s, !.adopt = TRUE, !.due = TRUE]
      <3>1. PICK f \in Media : LET s == [file |-> f, seq |-> 1] IN
              codec = [Empty EXCEPT !.loaded = s, !.audio = s, !.adopt = TRUE, !.due = TRUE]
        BY <2>3
      <3> DEFINE s == [file |-> f, seq |-> 1]
      <3>2. s \in Source /\ s # Bare /\ s.seq = 1
        BY BareAssumption DEF Source
      <3>3. codec = [Empty EXCEPT !.loaded = s, !.audio = s, !.adopt = TRUE, !.due = TRUE]
        BY <3>1
      <3> HIDE DEF s
      <3>4. /\ codec \in CodecRec /\ codec.loaded = s /\ codec.backing = Bare
            /\ codec.audioOnly = FALSE /\ codec.element = FALSE /\ codec.player = Bare
            /\ codec.live = {} /\ codec.registry = Bare /\ codec.probes = {}
            /\ codec.audio = s /\ codec.adopt = TRUE /\ codec.due = TRUE
            /\ codec.cut = FALSE /\ codec.turn = 2
        BY <2>1, <3>2, <3>3 DEF Empty, CodecRec
      <3>5. ~Fits(codec)
        BY <3>4 DEF Fits, NewToDeck
      <3>6. Apart(codec.probes, codec.turn) /\ Awaited(codec) /\ PlaysOn(codec) /\ Kind(codec)
        BY <3>4, <3>5 DEF Apart, Awaited, PlaysOn, Kind
      <3>7. AudioHeard(codec) /\ Adopting(codec) /\ Presented(codec)
        BY <3>2, <3>4, <3>5 DEF AudioHeard, Adopting, Presented
      <3> QED BY <3>4, <3>6, <3>7 DEF CodecInv, Steady
    <2> QED BY <2>2, <2>3 DEF CodecInit
  <1>2. CodecInv /\ [CodecWorld \/ CodecRuns]_codec => CodecInv'
    <2> SUFFICES ASSUME CodecInv, [CodecWorld \/ CodecRuns]_codec PROVE CodecInv'
      OBVIOUS
    <2>1. CASE CodecWorld
      BY <2>1, PutOnKeeps, TakeOffKeeps, PassesKeep DEF CodecWorld
    <2>2. CASE CodecRuns
      <3>1. CASE SyncVideo
        BY <3>1, PassesKeep
      <3>2. ASSUME NEW p \in codec.probes,
                   FileCached(p) \/ Negotiates(p) \/ Pulls(p) \/ Answers(p) \/ Fails(p)
            PROVE  CodecInv'
        BY <3>2, ProbesKeep, AnswersKeep, FailsKeep
      <3> QED BY <2>2, <3>1, <3>2 DEF CodecRuns
    <2>3. CASE UNCHANGED codec
      BY <2>3 DEF CodecInv
    <2> QED BY <2>1, <2>2, <2>3
  <1>3. CodecInv => OneBackendOfTheLoad
    <2> SUFFICES ASSUME CodecInv PROVE OneBackendOfTheLoad
      OBVIOUS
    <2>1. Steady(codec) /\ Presented(codec) /\ (~codec.due => Settled(codec)) /\ codec \in CodecRec
          /\ codec.element \in BOOLEAN /\ codec.player \in Player \cup {Bare}
          /\ codec.backing \in Backend \cup {Bare}
      BY CodecFields DEF CodecInv, Steady
    <2>2. codec.live = IF codec.player = Bare THEN {} ELSE {codec.player}
      BY <2>1 DEF Steady, PlaysOn
    <2>3. \A p \in codec.live : Served = [status |-> 200, of |-> p.file]
      <3> SUFFICES ASSUME NEW p \in codec.live PROVE Served = [status |-> 200, of |-> p.file]
        OBVIOUS
      <3>1. p = codec.player /\ codec.player # Bare /\ codec.player \in Player
        BY <2>1, <2>2
      <3>2. codec.registry = p.file /\ p.file # Bare
        BY <2>1, <3>1, CodecAssumption DEF Steady, PlaysOn, Player
      <3> QED BY <3>2 DEF Served, Entry
    <2>4. ~(codec.element /\ codec.player # Bare)
      BY <2>1 DEF Steady, Kind
    <2>5. ~codec.cut
      BY <2>1 DEF Steady, AudioHeard
    <2>6. codec.audioOnly => Stream[codec.backing.file] = "none"
      BY <2>1 DEF Steady, Kind
    <2>7. Quiet /\ codec.loaded = Bare => ~codec.element /\ codec.player = Bare
      BY <2>1 DEF Quiet, Settled
    <2>8. ASSUME Quiet, codec.loaded # Bare
          PROVE  /\ ~NewToDeck(codec) /\ codec.audio = codec.loaded
                 /\ codec.element = (codec.player = Bare)
      <3>1. ~NewToDeck(codec) /\ Fits(codec) /\ codec.probes = {}
        BY <2>1, <2>8 DEF Quiet, Settled, Fits
      <3>2. codec.audio = codec.loaded
        BY <2>1, <3>1 DEF Steady, AudioHeard
      <3>3. codec.backing # Bare /\ codec.backing \in Backend /\ codec.backing.kind # "pending"
        BY <2>1, <3>1 DEF Steady, Awaited, Fits, NewToDeck
      <3>4. CASE codec.backing.kind = "webcodecs"
        <4>1. codec.player # Bare /\ ~codec.element
          BY <2>1, <3>3, <3>4 DEF Steady, Kind
        <4>2. codec.element = FALSE /\ (codec.player = Bare) = FALSE
          BY <2>1, <4>1
        <4> QED BY <3>1, <3>2, <4>2
      <3>5. CASE codec.backing.kind \in {"legacy", "fallback"}
        <4>1. codec.player = Bare /\ codec.element
          BY <2>1, <3>1, <3>3, <3>5 DEF Steady, Kind, Presented
        <4>2. codec.element = TRUE /\ (codec.player = Bare) = TRUE
          BY <2>1, <4>1
        <4> QED BY <3>1, <3>2, <4>2
      <3> QED BY <3>1, <3>2, <3>3, <3>4, <3>5 DEF Backend
    <2>9. Quiet => codec.registry = IF codec.player = Bare THEN Bare ELSE codec.player.file
      BY <2>1 DEF Steady, PlaysOn, Awaited, Quiet
    <2> QED BY <2>2, <2>3, <2>4, <2>5, <2>6, <2>7, <2>8, <2>9 DEF OneBackendOfTheLoad
  <1> QED BY <1>1, <1>2, <1>3, PTL DEF CodecSpec

\* The record has its fields, and the registered player's worker runs.
PlayerRuns(c) == c \in CodecRec /\ (c.player = Bare \/ c.player \in c.live)

\* It stays so when the backends change.
LEMMA BackendsTyped ==
  ASSUME NEW c, PlayerRuns(c)
  PROVE  /\ PlayerRuns(WithoutPlayer(c)) /\ WithoutPlayer(c).loaded = c.loaded
         /\ PlayerRuns(TornDown(c))
         /\ c.loaded # Bare =>
              /\ PlayerRuns(Probing(c))
              /\ \A k \in {"legacy", "webcodecs"} :
                   PlayerRuns(Backed(c, k)) /\ Backed(c, k).loaded = c.loaded
  <1>1. c \in CodecRec /\ c.live \in SUBSET Player
    BY CodecFields DEF PlayerRuns
  <1>2. PlayerRuns(TornDown(c))
    BY <1>1, TornDownIs DEF Cleared, PlayerRuns
  <1>3. PlayerRuns(WithoutPlayer(c)) /\ WithoutPlayer(c).loaded = c.loaded
    <2>1. (c.live \ {c.player}) \in SUBSET Player
      BY <1>1
    <2> QED BY <1>1, <2>1 DEF CodecRec, WithoutPlayer, PlayerRuns
  <1>4. ASSUME c.loaded # Bare
        PROVE  /\ PlayerRuns(Probing(c))
               /\ \A k \in {"legacy", "webcodecs"} :
                    PlayerRuns(Backed(c, k)) /\ Backed(c, k).loaded = c.loaded
    BY <1>1, <1>4, BackedIs, ProbingIs DEF PlayerRuns, Probes, Backs
  <1> QED BY <1>2, <1>3, <1>4

\* One field is set.
LEMMA FieldSet ==
  ASSUME NEW c, PlayerRuns(c)
  PROVE  /\ \A x \in BOOLEAN :
              /\ PlayerRuns([c EXCEPT !.element = x]) /\ [c EXCEPT !.element = x].loaded = c.loaded
              /\ PlayerRuns([c EXCEPT !.audioOnly = x])
              /\ [c EXCEPT !.audioOnly = x].loaded = c.loaded
              /\ PlayerRuns([c EXCEPT !.due = x])
         /\ \A x \in Source \cup {Bare}, y \in BOOLEAN :
              PlayerRuns([c EXCEPT !.audio = x, !.adopt = y])
              /\ [c EXCEPT !.audio = x, !.adopt = y].loaded = c.loaded
         /\ \A ps \in SUBSET Probe :
              PlayerRuns([c EXCEPT !.probes = ps]) /\ [c EXCEPT !.probes = ps].loaded = c.loaded
         /\ \A r \in Media \cup {Bare} : PlayerRuns([c EXCEPT !.registry = r])
         /\ \A x \in Source \cup {Bare}, n \in Nat, y \in BOOLEAN :
              PlayerRuns([c EXCEPT !.loaded = x, !.turn = n, !.due = y])
         /\ \A x \in {"webcodecs", "legacy"} : PlayerRuns([c EXCEPT !.wanted = x])
         /\ \A b \in Backend : PlayerRuns([c EXCEPT !.backing = b])
         /\ \A p \in Player :
              PlayerRuns([c EXCEPT !.player = p, !.live = c.live \cup {p}, !.audioOnly = FALSE])
  <1>1. c \in CodecRec
    BY DEF PlayerRuns
  <1>2. \A p \in Player : c.live \cup {p} \in SUBSET Player
    BY <1>1 DEF CodecRec
  <1>3. \A p \in Player :
          PlayerRuns([c EXCEPT !.player = p, !.live = c.live \cup {p}, !.audioOnly = FALSE])
    BY <1>1, <1>2 DEF CodecRec, PlayerRuns
  <1>4. \A x \in BOOLEAN :
          /\ PlayerRuns([c EXCEPT !.element = x]) /\ [c EXCEPT !.element = x].loaded = c.loaded
          /\ PlayerRuns([c EXCEPT !.audioOnly = x])
          /\ [c EXCEPT !.audioOnly = x].loaded = c.loaded
          /\ PlayerRuns([c EXCEPT !.due = x])
    BY <1>1 DEF CodecRec, PlayerRuns
  <1>5. \A x \in Source \cup {Bare}, y \in BOOLEAN :
          PlayerRuns([c EXCEPT !.audio = x, !.adopt = y])
          /\ [c EXCEPT !.audio = x, !.adopt = y].loaded = c.loaded
    BY <1>1 DEF CodecRec, PlayerRuns
  <1>6. \A ps \in SUBSET Probe :
          PlayerRuns([c EXCEPT !.probes = ps]) /\ [c EXCEPT !.probes = ps].loaded = c.loaded
    BY <1>1 DEF CodecRec, PlayerRuns
  <1>7. /\ \A r \in Media \cup {Bare} : PlayerRuns([c EXCEPT !.registry = r])
        /\ \A x \in {"webcodecs", "legacy"} : PlayerRuns([c EXCEPT !.wanted = x])
    BY <1>1 DEF CodecRec, PlayerRuns
  <1>8. \A x \in Source \cup {Bare}, n \in Nat, y \in BOOLEAN :
          PlayerRuns([c EXCEPT !.loaded = x, !.turn = n, !.due = y])
    <2> TAKE x \in Source \cup {Bare}, n \in Nat, y \in BOOLEAN
    <2> DEFINE d == [c EXCEPT !.loaded = x, !.turn = n, !.due = y]
    <2>1. d \in CodecRec
      BY <1>1 DEF CodecRec
    <2>2. d.player = c.player /\ d.live = c.live
      BY <1>1 DEF CodecRec
    <2>3. c.player = Bare \/ c.player \in c.live
      BY DEF PlayerRuns
    <2> QED BY <2>1, <2>2, <2>3 DEF PlayerRuns
  <1>9. \A b \in Backend : PlayerRuns([c EXCEPT !.backing = b])
    BY <1>1 DEF CodecRec, PlayerRuns
  <1> QED BY <1>3, <1>4, <1>5, <1>6, <1>7, <1>8, <1>9

\* syncVideoElements.
LEMMA SyncedTyped ==
  ASSUME NEW c, PlayerRuns(c)
  PROVE  PlayerRuns(Synced(c))
  <1>1. /\ c \in CodecRec /\ c.loaded \in Source \cup {Bare} /\ c.backing \in Backend \cup {Bare}
        /\ c.adopt \in BOOLEAN /\ c.audio \in Source \cup {Bare}
    BY CodecFields DEF PlayerRuns
  <1>2. CASE c.loaded = Bare
    <2>1. Synced(c) \in {c, TornDown(c)}
      BY <1>2 DEF Synced
    <2> QED BY <2>1, BackendsTyped
  <1>3. CASE c.loaded # Bare /\ NewToDeck(c)
    <2> DEFINE d == IF c.adopt THEN c ELSE TornDown(c)
               e == [d EXCEPT !.audio = IF c.adopt THEN @ ELSE c.loaded, !.adopt = FALSE]
    <2>1. PlayerRuns(d) /\ d.loaded = c.loaded /\ d.audio \in Source \cup {Bare}
      BY <1>1, BackendsTyped, TornDownIs DEF Cleared
    <2> HIDE DEF d
    <2>2. \E x \in Source \cup {Bare} : e = [d EXCEPT !.audio = x, !.adopt = FALSE]
      <3>1. CASE c.adopt
        BY <2>1, <3>1
      <3>2. CASE ~c.adopt
        BY <1>1, <3>2
      <3> QED BY <3>1, <3>2
    <2>3. PlayerRuns(e) /\ e.loaded = c.loaded
      <3>1. PICK x \in Source \cup {Bare} : e = [d EXCEPT !.audio = x, !.adopt = FALSE]
        BY <2>2
      <3>2. FALSE \in BOOLEAN
        OBVIOUS
      <3> HIDE DEF e
      <3> QED BY <2>1, <3>1, <3>2, FieldSet
    <2>4. Synced(c) = IF c.wanted = "webcodecs" THEN Probing(e)
                      ELSE [Backed(e, "legacy") EXCEPT !.element = TRUE]
      BY <1>3 DEF Synced, Fresh, e, d
    <2> HIDE DEF e
    <2>5. PlayerRuns(Probing(e)) /\ PlayerRuns(Backed(e, "legacy"))
      BY <1>3, <2>3, BackendsTyped
    <2>6. PlayerRuns([Backed(e, "legacy") EXCEPT !.element = TRUE])
      BY <2>5, FieldSet
    <2> QED BY <2>4, <2>5, <2>6
  <1>4. CASE c.loaded # Bare /\ ~NewToDeck(c)
    <2> DEFINE a == [c EXCEPT !.element = FALSE]
               b == Backed(WithoutPlayer(c), "legacy")
    <2>1. PlayerRuns(a) /\ a.loaded = c.loaded /\ PlayerRuns([c EXCEPT !.element = TRUE])
      BY FieldSet
    <2>2. PlayerRuns(Probing(a))
      <3> HIDE DEF a
      <3> QED BY <1>4, <2>1, BackendsTyped
    <2>3. PlayerRuns([b EXCEPT !.audioOnly = FALSE, !.element = TRUE])
      <3>1. PlayerRuns(WithoutPlayer(c)) /\ WithoutPlayer(c).loaded # Bare
        BY <1>4, BackendsTyped
      <3>2. PlayerRuns(b)
        BY <3>1, BackendsTyped
      <3> HIDE DEF b
      <3>3. PlayerRuns([b EXCEPT !.audioOnly = FALSE])
        BY <3>2, FieldSet
      <3>4. PlayerRuns([[b EXCEPT !.audioOnly = FALSE] EXCEPT !.element = TRUE])
        BY <3>3, FieldSet
      <3>5. [b EXCEPT !.audioOnly = FALSE, !.element = TRUE]
              = [[b EXCEPT !.audioOnly = FALSE] EXCEPT !.element = TRUE]
        BY <3>2 DEF PlayerRuns, CodecRec
      <3> QED BY <3>4, <3>5
    <2>4. Synced(c) \in {c, Probing(a), [b EXCEPT !.audioOnly = FALSE, !.element = TRUE],
                         [c EXCEPT !.element = TRUE]}
      BY <1>4 DEF Synced
    <2> HIDE DEF a, b
    <2> QED BY <2>1, <2>2, <2>3, <2>4
  <1> QED BY <1>2, <1>3, <1>4

\* The deck, its source, the path and the passes.
LEMMA DeckTyped ==
  ASSUME PlayerRuns(codec), CodecWorld \/ SyncVideo
  PROVE  PlayerRuns(codec')
  <1>1. codec \in CodecRec /\ codec.turn \in Nat
    BY CodecFields DEF PlayerRuns
  <1>2. ASSUME NEW f \in Media, PutOn(f) PROVE PlayerRuns(codec')
    <2>1. [file |-> f, seq |-> codec.turn] \in Source /\ codec.turn + 1 \in Nat
      BY <1>1 DEF Source
    <2>2. codec' = [codec EXCEPT !.loaded = [file |-> f, seq |-> codec.turn],
                                 !.turn = codec.turn + 1, !.due = TRUE]
      BY <1>2 DEF PutOn
    <2> QED BY <2>1, <2>2, FieldSet
  <1>3. CASE TakeOff
    <2>1. codec' = [codec EXCEPT !.loaded = Bare, !.turn = codec.turn, !.due = TRUE]
      BY <1>1, <1>3 DEF TakeOff, CodecRec
    <2> QED BY <1>1, <2>1, FieldSet
  <1>4. CASE ToggledPath
    BY <1>4, FieldSet DEF ToggledPath
  <1>5. CASE StoreChanges
    BY <1>5, FieldSet DEF StoreChanges
  <1>6. CASE SyncVideo
    <2>1. PlayerRuns(Synced(codec))
      BY SyncedTyped
    <2> QED BY <1>6, <2>1, FieldSet DEF SyncVideo
  <1> QED BY <1>2, <1>3, <1>4, <1>5, <1>6 DEF CodecWorld

\* The probes, and what the page does with their ends.
LEMMA ProbesTyped ==
  ASSUME PlayerRuns(codec), NEW p \in codec.probes,
         FileCached(p) \/ Negotiates(p) \/ Pulls(p) \/ Answers(p) \/ Fails(p)
  PROVE  PlayerRuns(codec')
  <1>1. /\ codec \in CodecRec /\ codec.probes \in SUBSET Probe /\ codec.turn \in Nat
        /\ codec.backing \in Backend \cup {Bare} /\ codec.loaded \in Source \cup {Bare}
    BY CodecFields DEF PlayerRuns
  <1>2. p \in Probe /\ p.n \in Nat /\ p.file \in Media /\ codec.probes \ {p} \in SUBSET Probe
    BY <1>1 DEF Probe
  <1>3. \A s \in Stages : At(p, s) \in SUBSET Probe
    <2> TAKE s \in Stages
    <2>1. [p EXCEPT !.stage = s] \in Probe
      BY <1>2 DEF Probe
    <2> QED BY <1>2, <2>1 DEF At
  <1>4. CASE FileCached(p) \/ Negotiates(p)
    <2>1. PICK s \in Stages : codec' = [codec EXCEPT !.probes = At(p, s)]
      <3>1. {"negotiating", "failed", "pulling", "timed out"} \subseteq Stages
        BY DEF Stages
      <3> QED BY <1>4, <3>1 DEF FileCached, Negotiates
    <2> QED BY <1>3, <2>1, FieldSet
  <1>5. CASE Pulls(p)
    <2>1. "failed" \in Stages /\ "demuxed" \in Stages
      BY DEF Stages
    <2> DEFINE c == [codec EXCEPT !.probes = At(p, "demuxed")]
    <2>2. PlayerRuns(c) /\ PlayerRuns([codec EXCEPT !.probes = At(p, "failed")])
      BY <1>3, <2>1, FieldSet
    <2>3. [codec EXCEPT !.probes = At(p, "demuxed"), !.registry = p.file]
            = [c EXCEPT !.registry = p.file]
      BY <1>1 DEF CodecRec
    <2> HIDE DEF c
    <2>4. PlayerRuns([c EXCEPT !.registry = p.file])
      BY <1>2, <2>2, FieldSet
    <2> QED BY <1>5, <2>2, <2>3, <2>4 DEF Pulls
  <1>6. CASE Answers(p)
    <2> DEFINE c == [codec EXCEPT !.probes = @ \ {p}]
               player == [n |-> p.n, file |-> p.file]
               b == Backed(c, "webcodecs")
               d == [b EXCEPT !.player = player, !.live = @ \cup {player}, !.audioOnly = FALSE]
    <2>1. PlayerRuns(c) /\ c.loaded = codec.loaded
      BY <1>2, FieldSet
    <2>2. player \in Player
      BY <1>2 DEF Player
    <2>3. codec' = IF StillWanted(p) THEN Synced(d) ELSE [c EXCEPT !.registry = Bare]
      BY <1>6 DEF Answers
    <2> HIDE DEF c
    <2>4. PlayerRuns([c EXCEPT !.registry = Bare])
      BY <2>1, FieldSet
    <2>5. ASSUME StillWanted(p) PROVE PlayerRuns(Synced(d))
      <3>1. c.loaded # Bare
        BY <2>1, <2>5 DEF StillWanted
      <3>2. PlayerRuns(b)
        BY <2>1, <3>1, BackendsTyped
      <3> HIDE DEF player, b
      <3>3. PlayerRuns(d)
        BY <2>2, <3>2, FieldSet
      <3> HIDE DEF d
      <3> QED BY <3>3, SyncedTyped
    <2> QED BY <2>3, <2>4, <2>5
  <1>7. CASE Fails(p)
    <2> DEFINE c == [codec EXCEPT !.probes = @ \ {p}]
               b == [file |-> p.file, seq |-> IF codec.backing = Bare THEN 0 ELSE codec.backing.seq,
                     kind |-> "fallback"]
               only == p.stage = "timed out"
               d == [c EXCEPT !.backing = b]
    <2>1. PlayerRuns(c)
      BY <1>2, FieldSet
    <2>2. b \in Backend
      BY <1>1, <1>2 DEF Backend
    <2>3. codec' = Synced([codec EXCEPT !.probes = @ \ {p}, !.backing = b, !.audioOnly = only])
      BY <1>7 DEF Fails
    <2>4. [codec EXCEPT !.probes = @ \ {p}, !.backing = b, !.audioOnly = only]
            = [d EXCEPT !.audioOnly = only]
      <3> HIDE DEF b, only
      <3> QED BY <1>1 DEF CodecRec
    <2>5. only \in BOOLEAN
      OBVIOUS
    <2> HIDE DEF b, c, only
    <2>6. PlayerRuns(d)
      BY <2>1, <2>2, FieldSet
    <2> HIDE DEF d
    <2>7. PlayerRuns([d EXCEPT !.audioOnly = only])
      BY <2>5, <2>6, FieldSet
    <2> QED BY <2>3, <2>4, <2>7, SyncedTyped
  <1> QED BY <1>4, <1>5, <1>6, <1>7

\* Whatever the races of loads, probes and players, the record of a deck's video has its
\* type: above all, the registered player is one whose worker runs.
THEOREM ThePlayerRuns ==
  CodecSpec => [](CodecTypeOK /\ PlayerRuns(codec))
  <1>1. CodecInit => PlayerRuns(codec)
    <2>1. Empty \in CodecRec
      BY DEF Empty, CodecRec
    <2>2. \A s \in Source : [Empty EXCEPT !.loaded = s, !.audio = s, !.adopt = TRUE, !.due = TRUE]
            \in CodecRec
      BY DEF Empty, CodecRec
    <2>3. \A f \in Media : [file |-> f, seq |-> 1] \in Source
      BY DEF Source
    <2>4. \A s : [Empty EXCEPT !.loaded = s, !.audio = s, !.adopt = TRUE, !.due = TRUE].player = Bare
      BY DEF Empty
    <2>5. Empty.player = Bare
      BY DEF Empty
    <2> QED BY <2>1, <2>2, <2>3, <2>4, <2>5 DEF CodecInit, PlayerRuns
  <1>2. PlayerRuns(codec) /\ [CodecWorld \/ CodecRuns]_codec => PlayerRuns(codec)'
    BY DeckTyped, ProbesTyped DEF CodecRuns
  <1>3. PlayerRuns(codec) => CodecTypeOK
    <2> SUFFICES ASSUME PlayerRuns(codec) PROVE CodecTypeOK
      OBVIOUS
    <2>1. codec \in CodecRec /\ (codec.player = Bare \/ codec.player \in codec.live)
      BY DEF PlayerRuns
    <2>2. /\ codec.loaded \in Source \cup {Bare} /\ codec.wanted \in {"webcodecs", "legacy"}
          /\ codec.backing \in Backend \cup {Bare} /\ codec.live \in SUBSET Player
          /\ codec.registry \in Media \cup {Bare} /\ codec.probes \in SUBSET Probe
          /\ codec.audio \in Source \cup {Bare} /\ codec.turn \in Nat
      BY <2>1, CodecFields
    <2>3. {codec.audioOnly, codec.element, codec.adopt, codec.due, codec.cut} \subseteq BOOLEAN
      BY <2>1, CodecFields
    <2>4. codec.probes \subseteq [n : Nat, file : Media, stage : Stages]
      BY <2>2 DEF Probe
    <2>5. /\ codec.loaded = Bare \/ codec.loaded \in Source
          /\ codec.backing = Bare \/ codec.backing \in Backend
          /\ codec.audio = Bare \/ codec.audio \in Source
          /\ codec.live \subseteq Player
      BY <2>2
    <2>6. codec.registry \in Media \cup {Bare} /\ codec.turn \in Nat
          /\ codec.wanted \in {"webcodecs", "legacy"}
      BY <2>2
    <2> QED BY <2>1, <2>3, <2>4, <2>5, <2>6 DEF CodecTypeOK
  <1> QED BY <1>1, <1>2, <1>3, PTL DEF CodecSpec
=============================================================================
