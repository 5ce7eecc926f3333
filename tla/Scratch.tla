------------------------------- MODULE Scratch -------------------------------
(***************************************************************************)
(* Scratching one deck (src-tauri/src/audio/pipeline.rs).  A gesture takes  *)
(* the deck's outputs away from the file branch and gives them to a feeder  *)
(* thread, which walks a decoded copy of the track: at a rate (velocity     *)
(* mode), or towards the place where the hand is (position mode).  Ending   *)
(* the gesture gives the outputs back and seeks the file branch to where    *)
(* the feeder had got to.  The commands on a deck exclude one another; the  *)
(* feeder runs beside them, a chunk at a time.                              *)
(*                                                                         *)
(* Places are in units of a few milliseconds and the tempo is 1.  Samples,  *)
(* gains, fades and the telemetry are left out.                             *)
(***************************************************************************)
EXTENDS Integers

CONSTANTS MaxFrame,   \* the last place of the track
          Rates,      \* velocity mode's rates
          Snap,       \* SCRATCH_TARGET_SNAP_SECS
          Lag,        \* SCRATCH_SERVO_LAG_CHUNKS
          MaxRate,    \* SCRATCH_TARGET_MAX_RATE
          Coast,      \* SCRATCH_COAST_CHUNKS
          CoastCap,   \* SCRATCH_COAST_MAX_FRAMES
          Hold,       \* hold_ms, in chunks
          NaN,        \* not a number; also the target of velocity mode
          NoFeeder,   \* no scratch_feeder
          NoFrame,    \* no last_scratch_frame
          Gestures    \* of "handover": velocity mode handed over to position mode

ASSUME ScratchAssumption ==
    /\ {MaxFrame, Snap, MaxRate, Coast, CoastCap, Hold} \subseteq Nat /\ Lag \in Nat \ {0}
    /\ Rates \subseteq Int /\ NaN \notin Int /\ NoFrame \notin Int \cup {NaN}
    /\ Gestures \subseteq {"handover"}

VARIABLES
    gear,    \* the deck: PipelineInner, intent and topology
    place,   \* where the file branch is
    clock,   \* "true", or "inflated" by a resync seek, or "unknown" after both
             \* that and a seek: what query_position is worth
    landed,  \* last_scratch_frame
    feeder   \* the feeder thread

scratchVars == <<gear, place, clock, landed, feeder>>

Frames == 0..MaxFrame

\* pcm: pcm_buffer is there; wide: the queue's cap and the sinks' alignment;
\* ended: history, the track has ended since play was last asked for.
GearRec == [inner : {"none", "paused", "playing"}, playing : BOOLEAN, pcm : BOOLEAN,
            pad : {"normal", "scratch"}, locked : BOOLEAN, wide : BOOLEAN,
            eos : BOOLEAN, ended : BOOLEAN]

\* HandTracker: the last target, its speed, the chunks since, and how far beyond it
\* the aim has coasted.
HandRec == [last : Frames \cup {NaN}, speed : (-MaxFrame..MaxFrame) \cup {NaN},
            idle : 0..Coast + 1, coast : (-CoastCap..CoastCap) \cup {NaN}]

FeederRec == [cursor : Frames \cup {NaN}, target : Frames \cup {NaN}, rate : Rates \cup {0},
              inertia : BOOLEAN, age : 0..Hold + 1, hand : HandRec,
              platter : Int \cup {NaN}]

ASSUME FeederAssumption == NoFeeder \notin FeederRec

ScratchTypeOK ==
    /\ gear \in GearRec /\ place \in Frames /\ clock \in {"true", "inflated", "unknown"}
    /\ landed \in Frames \cup {NaN, NoFrame}
    /\ feeder \in FeederRec \cup {NoFeeder}

Scratching == feeder # NoFeeder
IsLoaded == gear.inner # "none"

----------------------------------------------------------------------------
(* Arithmetic with NaN. *)

Plus(x, y) == IF NaN \in {x, y} THEN NaN ELSE x + y
Minus(x, y) == IF NaN \in {x, y} THEN NaN ELSE x - y
Clamped(x, lo, hi) == IF x = NaN THEN NaN ELSE IF x < lo THEN lo ELSE IF x > hi THEN hi ELSE x
Above0(x) == IF x = NaN \/ x < 0 THEN 0 ELSE x  \* x.max(0.0)
Below0(x) == IF x = NaN \/ x > 0 THEN 0 ELSE x
Absolute(x) == IF x < 0 THEN -x ELSE x
SignOf(x) == IF x > 0 THEN 1 ELSE IF x < 0 THEN -1 ELSE 0

\* What lies between two values, the first excluded when they differ.
Towards(x, y) ==
    IF NaN \in {x, y} THEN {NaN}
    ELSE IF x = y THEN {x} ELSE IF x < y THEN (x + 1)..y ELSE y..(x - 1)


\* What a part of a speed may come to in a chunk.
Parts(x) == IF x = NaN THEN {NaN} ELSE {0} \cup Towards(0, x)

----------------------------------------------------------------------------
(* The feeder. *)

\* HandTracker::new.
NewHand(target) == [last |-> target, speed |-> IF target = NaN THEN NaN ELSE 0,
                    idle |-> 0, coast |-> 0]

\* Fault: the coast is dropped as soon as the hand is heard of again.
Unabsorbed(h, target) == 0

\* What is left of the coast when the hand has moved: it is used up against the
\* motion, never dropped.
Absorbed(h, target) ==
    LET delta == Minus(target, h.last) IN
    IF delta # NaN /\ delta > 0 THEN Above0(Minus(h.coast, delta))
    ELSE Below0(Minus(h.coast, delta))

\* HandTracker::step.  The estimate of the speed moves towards what was observed; the
\* coast grows by some part of it, less and less, until the window is over.
Hands(h, target) ==
    IF h.last = NaN \/ target # h.last
    THEN {[last |-> target, speed |-> s, idle |-> 0, coast |-> Absorbed(h, target)] :
            s \in Towards(h.speed, Minus(target, h.last))}
    ELSE IF h.idle >= Coast THEN {[h EXCEPT !.idle = Coast + 1]}
    ELSE {[h EXCEPT !.idle = @ + 1, !.coast = Clamped(Plus(@, c), -CoastCap, CoastCap)] :
            c \in Parts(h.speed)}

\* The point the servo aims at.
AimOf(h) == Clamped(Plus(h.last, h.coast), 0, MaxFrame)

\* servo_step, for an error.
Snaps(err) == err # NaN /\ Absolute(err) > Snap
ServoRate(err) ==
    IF err = NaN THEN NaN
    ELSE IF Absolute(err) > Snap THEN 0
    ELSE Clamped(SignOf(err) * (IF Absolute(err) < Lag THEN Absolute(SignOf(err))
                                ELSE Absolute(err) \div Lag), -MaxRate, MaxRate)

\* The end of a chunk: the platter follows the command, at once or with inertia, and
\* the cursor follows the platter.  At rest, or when nobody has asked for hold_ms,
\* the platter stops.
Moved(f, command, arrived) ==
    LET still == arrived \/ f.age >= Hold IN
    {[f EXCEPT !.platter = v, !.cursor = Clamped(Plus(@, v), 0, MaxFrame),
               !.age = IF @ > Hold THEN @ ELSE @ + 1] :
       v \in IF still THEN {0} ELSE IF f.inertia THEN Towards(f.platter, command)
             ELSE {command}}

\* One chunk in velocity mode; without a servo there is no inertia.
FreeChunks(f) == Moved([f EXCEPT !.inertia = FALSE], f.rate, FALSE)

\* One chunk in position mode.  A target that is too far is jumped to.
ServoChunks(f) ==
    UNION {LET err == Minus(AimOf(h), f.cursor)
               moving == f.inertia /\ f.platter # 0 IN
           IF Snaps(err)
           THEN Moved([f EXCEPT !.hand = NewHand(f.target), !.cursor = f.target,
                                !.platter = 0], 0, TRUE)
           ELSE Moved([f EXCEPT !.hand = h], ServoRate(err), err = 0 /\ ~moving)
             : h \in Hands(f.hand, f.target)}

Chunk ==
    /\ Scratching
    /\ feeder' \in IF feeder.target = NaN THEN FreeChunks(feeder) ELSE ServoChunks(feeder)
    /\ UNCHANGED <<gear, place, clock, landed>>

----------------------------------------------------------------------------
(* Ending a gesture. *)

\* Fault: leaves the sinks and the queue as the gesture needed them.
LeavesWide(g) == [g EXCEPT !.pad = "normal", !.locked = FALSE]

\* stop_scratch_feeder, on the topology.
HandedBack(g) == [g EXCEPT !.pad = "normal", !.locked = FALSE, !.wide = FALSE]

\* The place of the resync seek: a frame that is not a number is the first.
LandedAt(frame) == Above0(frame)

\* stop_scratch_feeder: the frame is remembered, the topology handed back, and the
\* file branch sought to the frame, after which the pipeline's clock is off.
StopFeeder(g) ==
    IF ~Scratching
    THEN /\ gear' = g
         /\ UNCHANGED <<place, clock, landed, feeder>>
    ELSE /\ gear' = HandedBack(g)
         /\ place' = LandedAt(feeder.cursor)
         /\ landed' = feeder.cursor
         /\ clock' = "inflated"
         /\ feeder' = NoFeeder

\* play(): from the start if the track was at its end; a pipeline that was paused has
\* a true clock again.
Playing(g, at) ==
    [gear |-> [g EXCEPT !.playing = TRUE, !.eos = FALSE, !.ended = FALSE,
                        !.inner = IF @ = "none" THEN @ ELSE "playing"],
     place |-> IF g.inner # "none" /\ g.eos THEN 0 ELSE at,
     clock |-> IF g.inner = "paused" THEN "true" ELSE clock]

\* stop_scratch: pause, and play again if that was asked for meanwhile.
StopScratch ==
    /\ IsLoaded /\ Scratching
    /\ LET g == HandedBack([gear EXCEPT !.inner = "paused", !.playing = FALSE])
           at == LandedAt(feeder.cursor)
           p == Playing(g, at) IN
       IF gear.playing
       THEN gear' = p.gear /\ place' = p.place /\ clock' = p.clock /\ landed' = NoFrame
       ELSE gear' = g /\ place' = at /\ clock' = "inflated" /\ landed' = feeder.cursor
    /\ feeder' = NoFeeder

\* pause.
PauseDeck ==
    /\ IsLoaded
    /\ StopFeeder([gear EXCEPT !.inner = "paused", !.playing = FALSE])

----------------------------------------------------------------------------
(* The other commands. *)

\* What position() answers: the cursor of a gesture, the frame where the last one
\* ended, or what the pipeline says ("true" stands for the file branch's place).
Reported ==
    IF Scratching THEN Above0(feeder.cursor)
    ELSE IF landed # NoFrame THEN Above0(landed)
    ELSE IF clock = "true" THEN place ELSE NaN

\* play() in the middle of a gesture leaves the gesture running.
PlayDeck ==
    /\ IsLoaded
    /\ LET p == Playing(gear, place) IN
       gear' = p.gear /\ place' = p.place /\ clock' = p.clock
    /\ landed' = NoFrame
    /\ UNCHANGED feeder

\* seek; one in the middle of a gesture, which the end of the gesture overrides, is
\* left out.
SeekDeck(p) ==
    /\ IsLoaded /\ ~Scratching
    /\ gear' = [gear EXCEPT !.eos = FALSE]
    /\ place' = p
    /\ clock' = IF clock = "true" THEN "true" ELSE "unknown"
    /\ landed' = NoFrame
    /\ UNCHANGED feeder

\* audio_load of a track; its copy may fail to decode.
LoadTrack ==
    /\ gear' \in {[inner |-> "paused", playing |-> FALSE, pcm |-> decodes, pad |-> "normal",
                   locked |-> FALSE, wide |-> FALSE, eos |-> FALSE, ended |-> FALSE] :
                    decodes \in BOOLEAN}
    /\ ~gear.playing
    /\ place' = 0 /\ clock' = "true" /\ landed' = NoFrame /\ feeder' = NoFeeder

\* set_devices, set_cue_device: the pipeline is built again for the same track, and put
\* where the old one said it was.
RestoredAt == Reported

RebuildDeck ==
    /\ IsLoaded /\ RestoredAt # NaN
    /\ LET g == [HandedBack(gear) EXCEPT !.inner = "paused", !.eos = FALSE]
           p == Playing(g, RestoredAt) IN
       IF gear.playing THEN gear' = p.gear /\ place' = p.place
       ELSE gear' = g /\ place' = RestoredAt
    /\ clock' = "true" /\ landed' = NoFrame /\ feeder' = NoFeeder

\* Fault: an update does not refresh last_update.
UpdatedUntimed(f, rate, target, inertia) ==
    [f EXCEPT !.rate = rate, !.target = target, !.inertia = inertia]

\* begin_or_update_scratch, on a gesture under way.
Updated(f, rate, target, inertia) ==
    [f EXCEPT !.rate = rate, !.target = target, !.inertia = inertia, !.age = 0]

\* Its start: at the target, or where the last gesture ended, or where the deck is.
StartFrame(target) ==
    IF target # NaN THEN target ELSE IF landed # NoFrame THEN landed ELSE place

Started(rate, target, inertia) ==
    [cursor |-> StartFrame(target), target |-> target, rate |-> rate, inertia |-> inertia,
     age |-> 0, hand |-> NewHand(target), platter |-> 0]

\* scratch and scratch_to; a track without its copy refuses.
Gesture(rate, target, inertia) ==
    /\ IsLoaded /\ gear.pcm
    /\ Scratching \/ target # NaN \/ landed # NoFrame \/ clock = "true"
    /\ feeder' = IF Scratching THEN Updated(feeder, rate, target, inertia)
                 ELSE Started(rate, target, inertia)
    /\ gear' = IF Scratching THEN [gear EXCEPT !.eos = FALSE]
               ELSE [gear EXCEPT !.eos = FALSE, !.pad = "scratch", !.locked = TRUE,
                                 !.wide = TRUE, !.inner = "playing"]
    /\ clock' = "inflated"
    /\ UNCHANGED <<place, landed>>

ScratchAt(rate) == Gesture(rate, NaN, FALSE)
ScratchTo(target, inertia) ==
    /\ Scratching /\ "handover" \notin Gestures => feeder.hand.last # NaN
    /\ Gesture(0, target, inertia)

\* The file branch plays on, and the track ends.
FileAdvances ==
    /\ gear.inner = "playing" /\ ~gear.locked /\ place < MaxFrame
    /\ place' = place + 1
    /\ UNCHANGED <<gear, clock, landed, feeder>>

EndsOfStream ==
    /\ gear.inner = "playing" /\ ~gear.locked /\ place = MaxFrame
    /\ gear' = [gear EXCEPT !.inner = "paused", !.eos = TRUE, !.ended = TRUE]
    /\ UNCHANGED <<place, clock, landed, feeder>>

----------------------------------------------------------------------------
(* The specification. *)

ScratchInit ==
    /\ gear = [inner |-> "none", playing |-> FALSE, pcm |-> FALSE, pad |-> "normal",
               locked |-> FALSE, wide |-> FALSE, eos |-> FALSE, ended |-> FALSE]
    /\ place = 0 /\ clock = "true" /\ landed = NoFrame /\ feeder = NoFeeder

ScratchCalls ==
    \/ LoadTrack \/ RebuildDeck \/ PlayDeck \/ PauseDeck \/ StopScratch
    \/ \E p \in {0, MaxFrame} : SeekDeck(p)
    \/ \E r \in Rates : ScratchAt(r)
    \/ \E p \in Frames, on \in BOOLEAN : ScratchTo(p, on)

ScratchRuns == Chunk \/ FileAdvances \/ EndsOfStream
ScratchSpec == ScratchInit /\ [][ScratchCalls \/ ScratchRuns]_scratchVars

----------------------------------------------------------------------------
(* Properties. *)

\* A deck that is not scratched is on its file branch, which nothing holds back, and
\* plays exactly if it was last asked to (or has ended since); one that is scratched
\* is on the other.  And wherever position() can be asked, its answer is where the
\* deck is heard to be: the file branch never advances during a gesture.
DeckHandsBack ==
    /\ Scratching => gear.pad = "scratch" /\ gear.locked /\ gear.wide
    /\ ~Scratching =>
         /\ gear.pad = "normal" /\ ~gear.locked /\ ~gear.wide
         /\ gear.inner = "playing" => gear.playing
         /\ gear.playing /\ IsLoaded /\ ~gear.ended => gear.inner = "playing"
         /\ clock # "unknown" => Reported = place

\* A hand that moves one way never turns the record back: the aim goes backwards only
\* on a chunk that sees the hand go backwards, or when the cursor has been put on the
\* hand itself (pipeline.rs:5065-5083).
AimKeepsDirection ==
    [][\/ ~Scratching \/ feeder' = NoFeeder \/ feeder.hand.last = NaN
       \/ feeder'.hand.last = NaN \/ feeder'.cursor = feeder'.hand.last
       \/ LET back == AimOf(feeder'.hand) - AimOf(feeder.hand)
              hand == feeder'.hand.last - feeder.hand.last IN
          (back < 0 => hand < 0 \/ feeder.hand.speed < 0)
          /\ (back > 0 => hand > 0 \/ feeder.hand.speed > 0)]_scratchVars

\* A live gesture may be handed from either mode to the other (src/lib/audio/pipeline.ts,
\* audioScratchTo; ScratchFeeder's target): the cursor stays a place in the track, and so
\* does what the gesture leaves behind.
HandoverIsSafe == (Scratching => feeder.cursor # NaN) /\ landed # NaN

\* When hold_ms has passed without a call, the deck is silent; and if that was in
\* position mode, the cursor has come to the hand, no farther from it than the coast may
\* carry it: hold_ms is a backstop there, and cuts no motion short.
RestsByTheHand ==
    Scratching /\ feeder.age > Hold =>
        /\ feeder.platter = 0
        /\ feeder.target # NaN /\ ~feeder.inertia =>
             Absolute(feeder.cursor - feeder.target) <= CoastCap
=============================================================================
