---------------------------- MODULE PlayPosition ----------------------------
(***************************************************************************)
(* The place that a deck shows (src/lib/renderer/seekBus.ts,                *)
(* src/lib/audio/positionPoll.ts), against the place where its audio is     *)
(* (src-tauri/src/audio/pipeline.rs).  The page asks for the position of a  *)
(* deck that plays or is scratched, one request at a time, and works out    *)
(* the place in the track from it: the pipeline counts what it has put out,  *)
(* at whatever rate, from a seek to a place divided by the rate.  An answer  *)
(* from before a seek must not be taken for one from after it.              *)
(*                                                                         *)
(* One deck, with a codec player: it has no element to fall back on.  A     *)
(* unit of time is more than the half second that tells places apart.       *)
(* Commands reach the main thread in order; play, pause and a load take     *)
(* effect at once, the file is decoded for scratching, the feeder has       *)
(* reached the hand when it is asked for its place, and SNAP is off.        *)
(***************************************************************************)
EXTENDS Integers, Sequences

CONSTANTS
    Extent,   \* the last place of a track
    Tempi,    \* playback rates
    Spots,    \* places that a seek or a hand goes to
    Patience, \* SEEK_STALE_TIMEOUT_MS
    NoPlace,  \* no place, seek, request, or answer
    Mishaps   \* of what the code does not guard against, see the README:
              \* "scratchAnswer", "hastyRelease", "resume", "rateUnheard", "nearby",
              \* "loadUnheard", "slowSeek", "slowAnswer"

ASSUME PositionAssumption ==
    /\ Tempi \subseteq Nat \ {0} /\ 1 \in Tempi /\ {Extent, Patience} \subseteq Nat
    /\ \A p \in Spots, r \in Tempi : p \in 0..Extent /\ p % r = 0
    /\ NoPlace \notin Int
    /\ Mishaps \subseteq {"scratchAnswer", "hastyRelease", "resume", "rateUnheard", "nearby",
                          "loadUnheard", "slowSeek", "slowAnswer"}

VARIABLES
    audio,   \* the pipeline
    screen,  \* what the page knows of the deck
    hand,    \* the scrub gesture
    errands, \* commands on their way to the main thread
    known    \* history: where the audio was, after its last seek, when shown was sampled

posVars == <<audio, screen, hand, errands, known>>

Places == 0..Extent
MaybePlace == Places \cup {NoPlace}

\* out: what query_position says, in its own domain; at: the place in the track;
\* landing: of a flush seek under way; landed: history, of the last one.
AudioRec == [out : Places, at : Places, moving : BOOLEAN, feeder : MaybePlace,
             rested : MaybePlace, landed : MaybePlace,
             landing : {NoPlace} \cup [out : Places, at : Places]]
\* shown: audioTimes; sought: pendingSeekTarget; track: contentPosTracker, with
\* the time since and the way at the rates there were; asked: pendingPos.
ScreenRec == [playing : BOOLEAN, rate : Tempi, shown : Int \cup {NoPlace},
              sought : {NoPlace} \cup [place : Places, age : Nat],
              track : {NoPlace} \cup [out : Places, place : Int, time : Nat, way : Nat],
              asked : {NoPlace} \cup [scrub : BOOLEAN, pos : MaybePlace, truth : MaybePlace]]
GripRec == [target : Int \cup {NoPlace}, due : MaybePlace, silent : BOOLEAN, moved : BOOLEAN]
Errand == [op : {"ask", "seek", "scratch", "stop"}, place : MaybePlace]

\* null is none of these.
ASSUME NoPlaceAssumption ==
    /\ NoPlace \notin [out : Places, at : Places] /\ NoPlace \notin [place : Places, age : Nat]
    /\ NoPlace \notin [out : Places, place : Int, time : Nat, way : Nat]
    /\ NoPlace \notin [scrub : BOOLEAN, pos : MaybePlace, truth : MaybePlace]

PositionTypeOK ==
    /\ audio \in AudioRec /\ screen \in ScreenRec /\ hand \in GripRec
    /\ errands \in Seq(Errand) /\ known \in MaybePlace

Sends(op, place) == Append(errands, [op |-> op, place |-> place])
Scrubbed == hand.target # NoPlace /\ ~hand.silent   \* isScratching
ScratchAsked == screen.asked # NoPlace /\ screen.asked.scrub
AtRest == [target |-> NoPlace, due |-> NoPlace, silent |-> FALSE, moved |-> FALSE]

\* getDeckTime, and what its callers make of null.
DeckTime ==
    IF hand.target # NoPlace THEN hand.target
    ELSE IF screen.shown # NoPlace THEN screen.shown
    ELSE IF screen.sought # NoPlace THEN screen.sought.place ELSE 0

----------------------------------------------------------------------------
(* The page. *)

Sought(place) == [screen EXCEPT !.shown = NoPlace, !.sought = [place |-> place, age |-> 0]]

\* Fault: the pipeline's domain is taken for that of the track.
Unscaled(pos) == pos

\* After a seek the place is the position times the rate.
Scaled(pos) == pos * screen.rate

\* The place in the track: integrated, if the position has moved on as the time has.
Content(pos) ==
    IF screen.track # NoPlace /\ pos - screen.track.out = screen.track.time
    THEN screen.track.place + screen.track.way ELSE Scaled(pos)

InLine == audio.at = audio.out * screen.rate
InStep == screen.track # NoPlace /\ audio.out - screen.track.out = screen.track.time

\* The page would tell where the audio is, and where it is going.
Recognised ==
    /\ InLine /\ Content(audio.out) = audio.at
    /\ audio.landing # NoPlace => Content(audio.landing.out) = audio.landing.at

\* seekDeck.
Seeks(place) ==
    /\ "scratchAnswer" \in Mishaps \/ ~ScratchAsked
    /\ "slowAnswer" \in Mishaps \/ screen.asked = NoPlace \/ screen.sought = NoPlace
    /\ "nearby" \in Mishaps \/ ~screen.playing \/ Content(place \div screen.rate) = place
    /\ screen' = Sought(place)
    /\ errands' = Sends("seek", place)

Seeking == audio.landing # NoPlace \/ \E i \in DOMAIN errands : errands[i].op = "seek"

\* Fault: where the last track was is kept.
Remembered == screen.shown

\* resetPositionTracking.
Unknown == NoPlace

\* Another file: teardownVideoBackendFull, audio_load, and the page starts afresh,
\* but for the target of a seek in the file before.
LoadsTrack ==
    /\ hand.target = NoPlace /\ ~Seeking
    /\ "loadUnheard" \in Mishaps \/ (screen.asked = NoPlace /\ screen.sought = NoPlace)
    /\ audio' = [out |-> 0, at |-> 0, moving |-> FALSE, feeder |-> NoPlace,
                 rested |-> NoPlace, landed |-> NoPlace, landing |-> NoPlace]
    /\ screen' = [screen EXCEPT !.playing = FALSE, !.shown = Unknown, !.track = NoPlace]
    /\ known' = NoPlace
    /\ UNCHANGED <<hand, errands>>

\* The play button: a deck that has paused out of line is taken to have been sought.
PlaysOrPauses ==
    /\ hand.target = NoPlace /\ errands = << >>
    /\ "resume" \in Mishaps \/ screen.playing \/ Recognised
    /\ screen' = [screen EXCEPT !.playing = ~@]
    /\ audio' = [audio EXCEPT !.moving = ~screen.playing,
                              !.rested = IF screen.playing THEN @ ELSE NoPlace]
    /\ UNCHANGED <<hand, errands, known>>

\* syncRate.
TurnsRate(r) ==
    /\ r # screen.rate
    /\ "rateUnheard" \notin Mishaps =>
       ~Seeking /\ IF screen.playing THEN screen.sought = NoPlace /\ InStep /\ ~ScratchAsked
                   ELSE screen.asked = NoPlace
    /\ screen' = [screen EXCEPT !.rate = r]
    /\ UNCHANGED <<audio, hand, errands, known>>

\* A hot cue, a cue point or a jump of beats.
Jumps(place) ==
    /\ hand.target = NoPlace
    /\ Seeks(place)
    /\ UNCHANGED <<audio, hand, known>>

\* beginScrub: nothing is sent, but a deck that is scrubbed aloud is polled.
Grabs ==
    /\ hand.target = NoPlace
    /\ hand' = [target |-> DeckTime, due |-> NoPlace, silent |-> screen.playing, moved |-> FALSE]
    /\ UNCHANGED <<audio, screen, errands, known>>

\* updateScrub, and the frame that sends the target: a silent scrub seeks, at most
\* every 50 ms.
Drags(place) ==
    /\ hand.target # NoPlace
    /\ hand' = [hand EXCEPT !.target = place, !.due = place, !.moved = TRUE]
    /\ UNCHANGED <<audio, screen, errands, known>>

Flushes ==
    /\ hand.due # NoPlace /\ hand' = [hand EXCEPT !.due = NoPlace]
    /\ \/ ~hand.silent /\ errands' = Sends("scratch", hand.due) /\ UNCHANGED screen
       \/ hand.silent /\ Seeks(hand.due)
       \/ hand.silent /\ UNCHANGED <<screen, errands>>
    /\ UNCHANGED <<audio, known>>

\* An answer that is out says, or will say, where the hand was last.
Heard ==
    screen.asked # NoPlace =>
    /\ screen.asked.scrub /\ \A i \in DOMAIN errands : errands[i].op # "scratch"
    /\ hand.target = IF screen.asked.pos = NoPlace THEN audio.feeder ELSE screen.asked.pos

\* endScrub.
Releases ==
    /\ hand.target # NoPlace /\ hand.moved
    /\ "hastyRelease" \in Mishaps \/ hand.due = NoPlace
    /\ "scratchAnswer" \notin Mishaps /\ ~hand.silent => Heard
    /\ \/ hand.silent /\ Seeks(hand.target)
       \/ ~hand.silent /\ screen' = [screen EXCEPT !.shown = hand.target]
                       /\ errands' = Sends("stop", NoPlace)
    /\ hand' = AtRest
    /\ UNCHANGED <<audio, known>>

\* A press that has not moved is a click: cancelScrub, and a seek to where it was.
Clicks(place) ==
    /\ hand.target # NoPlace /\ ~hand.moved
    /\ Seeks(place) /\ hand' = AtRest
    /\ UNCHANGED <<audio, known>>

\* pollDeckPosition, in every frame.
Asks ==
    /\ (screen.playing \/ Scrubbed) /\ screen.asked = NoPlace
    /\ screen' = [screen EXCEPT !.asked = [scrub |-> Scrubbed, pos |-> NoPlace, truth |-> NoPlace]]
    /\ errands' = Sends("ask", NoPlace)
    /\ UNCHANGED <<audio, hand, known>>

\* Fault: an answer is never too old.
StaleNever(place) == FALSE

\* getPendingSeekTarget: the answer is from before a seek that is not long ago.
Stale(place) ==
    screen.sought # NoPlace /\ screen.sought.age <= Patience /\ screen.sought.place # place

\* The answer to the poll.
Learns ==
    /\ screen.asked # NoPlace /\ screen.asked.pos # NoPlace
    /\ LET pos == screen.asked.pos
           scrub == screen.asked.scrub
           place == IF scrub THEN pos ELSE Content(pos)
           answered == [screen EXCEPT !.asked = NoPlace] IN
       IF ~scrub /\ Stale(place)
       THEN screen' = answered /\ UNCHANGED known
       ELSE /\ screen' = [answered EXCEPT
                 !.shown = place, !.sought = IF scrub THEN @ ELSE NoPlace,
                 !.track = [out |-> pos, place |-> place, time |-> 0, way |-> 0]]
            /\ known' = screen.asked.truth
    /\ UNCHANGED <<audio, hand, errands>>

----------------------------------------------------------------------------
(* The pipeline. *)

\* position().
Position ==
    IF audio.feeder # NoPlace THEN audio.feeder
    ELSE IF audio.rested # NoPlace THEN audio.rested \div screen.rate ELSE audio.out

\* The main thread takes the next command.  scratch_to moves the feeder, and the
\* stop lands the file where the feeder was.
Obeys ==
    /\ errands # << >> /\ errands' = Tail(errands)
    /\ LET e == Head(errands) IN
       \/ /\ e.op = "ask"
          /\ screen' = [screen EXCEPT !.asked.pos = Position,
                          !.asked.truth = IF audio.feeder # NoPlace THEN audio.feeder ELSE audio.at]
          /\ UNCHANGED <<audio, known>>
       \/ /\ e.op = "seek"
          /\ audio' = [audio EXCEPT !.rested = NoPlace,
                         !.landing = [out |-> e.place \div screen.rate, at |-> e.place]]
          /\ UNCHANGED <<screen, known>>
       \/ /\ e.op = "scratch" /\ ("slowSeek" \in Mishaps \/ audio.landing = NoPlace)
          /\ audio' = [audio EXCEPT !.feeder = e.place]
          /\ UNCHANGED <<screen, known>>
       \/ /\ e.op = "stop"
          /\ audio' = IF audio.feeder = NoPlace THEN audio
                      ELSE [audio EXCEPT !.at = audio.feeder, !.out = audio.feeder \div screen.rate,
                              !.rested = audio.feeder, !.feeder = NoPlace, !.landed = audio.feeder]
          /\ known' = audio'.at
          /\ UNCHANGED screen
    /\ UNCHANGED hand

\* A flush seek is done.  An answer sampled before it is history.
SeekLands ==
    /\ audio.landing # NoPlace
    /\ audio' = [audio EXCEPT !.at = audio.landing.at, !.out = audio.landing.out,
                              !.landed = audio.landing.at, !.landing = NoPlace]
    /\ known' = NoPlace
    /\ screen' = IF screen.asked = NoPlace THEN screen
                 ELSE [screen EXCEPT !.asked.truth = NoPlace]
    /\ UNCHANGED <<hand, errands>>

\* The time since a seek, and since an answer, as far as they are told apart.
Older(sought) ==
    IF sought = NoPlace \/ sought.age > Patience THEN sought ELSE [sought EXCEPT !.age = @ + 1]
Further(track) ==
    IF track = NoPlace \/ track.time > Extent THEN track
    ELSE [track EXCEPT !.time = @ + 1, !.way = @ + screen.rate]

\* A while passes.  Seeks land and answers come sooner than that.
TimePasses ==
    /\ "slowAnswer" \in Mishaps \/ screen.asked = NoPlace
    /\ "slowSeek" \in Mishaps \/ ~Seeking
    /\ LET goes == audio.moving /\ audio.landing = NoPlace IN
       /\ goes => audio.at + screen.rate <= Extent
       /\ audio' = IF goes THEN [audio EXCEPT !.at = @ + screen.rate, !.out = @ + 1] ELSE audio
    /\ screen' = [screen EXCEPT !.sought = Older(@), !.track = Further(@)]
    /\ UNCHANGED <<hand, errands, known>>

----------------------------------------------------------------------------

PositionInit ==
    /\ audio = [out |-> 0, at |-> 0, moving |-> FALSE, feeder |-> NoPlace,
                rested |-> NoPlace, landed |-> NoPlace, landing |-> NoPlace]
    /\ screen = [playing |-> FALSE, rate |-> 1, shown |-> NoPlace, sought |-> NoPlace,
                 track |-> NoPlace, asked |-> NoPlace]
    /\ hand = AtRest /\ errands = << >> /\ known = NoPlace

PositionRuns == Asks \/ Learns \/ Flushes \/ Obeys \/ SeekLands \/ TimePasses

PositionWorld ==
    \/ LoadsTrack \/ PlaysOrPauses \/ Grabs \/ Releases
    \/ \E r \in Tempi : TurnsRate(r)
    \/ \E p \in Spots : Jumps(p) \/ Drags(p) \/ Clicks(p)

PositionSpec == PositionInit /\ [][PositionRuns \/ PositionWorld]_posVars

\* What a deck shows while nothing is on its way is where its audio was when it was last
\* heard of since the last seek, in the file it has now; until then it is where that
\* seek went (getDeckTime, with pollDeckPosition and seekDeck).
ShowsItsPlace ==
    errands = << >> /\ audio.landing = NoPlace /\ screen.asked = NoPlace /\ hand = AtRest =>
    IF screen.shown # NoPlace THEN screen.shown \in {known, audio.landed}
    ELSE screen.sought # NoPlace => screen.sought.place = audio.landed
=============================================================================
