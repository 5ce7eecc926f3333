------------------------------ MODULE AutoMix ------------------------------
(***************************************************************************)
(* The Auto DJ of src/lib/digger: the near-end crossfade and the preload   *)
(* of autoMix.ts, the end-of-stream fallback of autoDj.ts, the load of a   *)
(* queue item (queueStore.ts) and the rules by which a DJ takes over.      *)
(*                                                                         *)
(* Everything here runs on one JavaScript thread.  An action is a piece of *)
(* code that runs without yielding: an event handler up to its first await *)
(* or timer, or the continuation that runs when the awaited answer or the  *)
(* timer arrives.  Between two actions anything else may run.              *)
(*                                                                         *)
(* A playback position is abstracted to the phase it puts a deck in, as    *)
(* the triggers distinguish them; the arithmetic behind the phases is left *)
(* out.  The crossfader has three values, fully left, between and fully    *)
(* right.                                                                  *)
(***************************************************************************)
EXTENDS Integers, Sequences, FiniteSets

CONSTANTS Left, Right,   \* the deck ids of Session.crossfaderMapping
          Tracks,        \* Digger tracks; a track stands for its id and file
          Queue,         \* the DJ's queue, a sequence of tracks
          OutroTracks,   \* tracks whose mix-out zone anchors the fade
          Starts,        \* ways a transition may start: "sync", "intro", "now"
          Events,        \* the DJ's operations and the faults that may happen
          Repeats,       \* whether Digger may suggest a track played before
          NoTrack,       \* a deck with no source
          Nothing,       \* an absent record: no ramp, an empty slot
          MaxTasks,      \* bound on loads and fetches in flight at once
          MaxSettles     \* bound on transitions waiting for a seek to land

Decks == {Left, Right}

ASSUME DecksAssumption == Left # Right
ASSUME TracksAssumption ==
    /\ NoTrack \notin Tracks
    /\ OutroTracks \subseteq Tracks
    /\ Queue \in Seq(Tracks)
ASSUME StartsAssumption == Starts \subseteq {"sync", "intro", "now"}
ASSUME RepeatsAssumption == Repeats \in BOOLEAN
ASSUME BoundsAssumption == MaxTasks \in Nat /\ MaxSettles \in Nat

VARIABLES
    deck,      \* Session.decks, the two mapped ones
    fader,     \* Session.crossfaderValue: 0 left, 1 between, 2 right
    autoDj,    \* the autoDjEnabled store
    handled,   \* handledOutgoing: deck -> track whose end was taken care of
    preloaded, \* preloadedFor: deck -> track a preload was fetched for
    used,      \* played and skipped track ids, which the picker passes over
    ramp,      \* activeRamp
    settles,   \* transitions inside beginTransition's timers
    tasks,     \* asynchronous loads and fetches in flight
    preview    \* previewInFlight, previewRestore and previewTailTimer

musicVars == <<deck, fader>>
bookVars  == <<handled, preloaded, used>>
flightVars == <<ramp, settles, tasks, preview>>
vars == <<deck, fader, autoDj, handled, preloaded, used,
          ramp, settles, tasks, preview>>

----------------------------------------------------------------------------
(* The values of the state. *)

\* "body": before any trigger; "preload": inside the preload lead; "mix": where
\* the near-end trigger fires; "tail": past it, too late to blend; "end": EOS.
Phases == {"body", "preload", "mix", "tail", "end"}

DeckRec == [present : BOOLEAN, track : Tracks \cup {NoTrack},
            measured : BOOLEAN, playing : BOOLEAN, phase : Phases]

RampRec == [out : Decks, in : Decks, preview : BOOLEAN, touched : BOOLEAN]

SettleRec == [out : Decks, in : Decks, preview : BOOLEAN, touched : BOOLEAN,
              stage : {"preview", "rate", "seek"}]

TaskRec == [kind : {"manual", "preload", "eos", "skipNow", "skipUp"},
            stage : {"pick", "ask", "payload", "ready"},
            deck : Decks, anchor : Tracks \cup {NoTrack},
            track : Tracks \cup {NoTrack}, prev : Tracks \cup {NoTrack}]

PreviewRec == [inFlight : BOOLEAN, tail : BOOLEAN,
               restore : {Nothing} \cup [in : Decks, fader : 0..2]]

ASSUME NothingAssumption == Nothing \notin RampRec \cup SettleRec \cup TaskRec

TaskIds == 1..MaxTasks
SettleIds == 1..MaxSettles

TypeOK ==
    /\ deck \in [Decks -> DeckRec]
    /\ fader \in 0..2
    /\ autoDj \in BOOLEAN
    /\ handled \in [Decks -> Tracks \cup {NoTrack}]
    /\ preloaded \in [Decks -> Tracks \cup {NoTrack}]
    /\ used \subseteq Tracks
    /\ ramp \in {Nothing} \cup RampRec
    /\ settles \in [SettleIds -> {Nothing} \cup SettleRec]
    /\ tasks \in [TaskIds -> {Nothing} \cup TaskRec]
    /\ preview \in PreviewRec

----------------------------------------------------------------------------
(* Helpers. *)

Other(d) == IF d = Left THEN Right ELSE Left

\* The crossfader position at which only d is heard.
FaderAt(d) == IF d = Left THEN 0 ELSE 2

EmptyDeck == [present |-> TRUE, track |-> NoTrack, measured |-> FALSE,
              playing |-> FALSE, phase |-> "body"]

Loaded(d) == deck[d].present /\ deck[d].track # NoTrack

\* source.duration > 0: the signal every trigger takes for "ready".
Ready(d) == Loaded(d) /\ deck[d].measured

\* deck.volume above the audible threshold, as the crossfader sets it.
Audible(d) == deck[d].playing /\ fader # FaderAt(Other(d))

BothExist == deck[Left].present /\ deck[Right].present

\* updateDeck: a patch of a deck that no longer exists changes nothing.
Patched(dk, d, new) == IF dk[d].present THEN [dk EXCEPT ![d] = new] ELSE dk

\* Fault: rewinds and does not play.
RewindOnly(r) == [r EXCEPT !.phase = IF r.phase = "end" THEN "body" ELSE r.phase]

\* Setting deck.playing: a pipeline that stopped at EOS rewinds when played.
PlayFrom(r) == [r EXCEPT !.playing = TRUE,
                         !.phase = IF r.phase = "end" THEN "body" ELSE r.phase]

WithTrack(r, t) == [r EXCEPT !.track = t, !.measured = FALSE,
                             !.playing = FALSE, !.phase = "body"]

Freed(r) == [r EXCEPT !.track = NoTrack, !.measured = FALSE,
                      !.playing = FALSE, !.phase = "body"]

Put(f, x) == LET i == CHOOSE j \in DOMAIN f : f[j] = Nothing
             IN  [f EXCEPT ![i] = x]
Free(f) == \E i \in DOMAIN f : f[i] = Nothing

Task(kind, stage, d, anchor, track, prev) ==
    [kind |-> kind, stage |-> stage, deck |-> d,
     anchor |-> anchor, track |-> track, prev |-> prev]

Settle(out, in, isPreview, stage) ==
    [out |-> out, in |-> in, preview |-> isPreview, touched |-> FALSE,
     stage |-> stage]

\* Fault: the decks swapped.
RampBackwards(out, in, isPreview) ==
    [out |-> in, in |-> out, preview |-> isPreview, touched |-> FALSE]

Ramp(out, in, isPreview) ==
    [out |-> out, in |-> in, preview |-> isPreview, touched |-> FALSE]

\* Fault: the mark is put on the other deck.
MarkedOther(d, t) == [handled EXCEPT ![Other(d)] = t]

\* markHandledOutgoing.
Marked(d, t) == [handled EXCEPT ![d] = t]

\* Fault: forgets that it asked.
FetchedForgotten(d) == preloaded

\* preloadedFor, of the track d plays.
MarkedFetched(d) == [preloaded EXCEPT ![d] = deck[d].track]

\* Fault: the flag is never taken back.
GuardKept(p) == [p EXCEPT !.restore = Nothing]

\* endPreviewGuard.
GuardEnded(p) == [p EXCEPT !.inFlight = FALSE, !.restore = Nothing]

\* Fault: the head of the queue, whatever the anchor.
PicksHead(anchor) == {Queue[i] : i \in {j \in DOMAIN Queue : j = 1}}

\* pickNextTrack: the next unused entry after the anchor, else the first unused
\* entry, else what Digger suggests; empty when Digger has nothing to offer.
Picks(anchor) ==
    LET First(S) == {Queue[i] : i \in {j \in S : \A k \in S : j <= k}}
        At == {i \in DOMAIN Queue : Queue[i] = anchor}
        Unused == {i \in DOMAIN Queue : Queue[i] \notin used}
        After == {i \in Unused : \E a \in At : \A b \in At : a <= b /\ a < i}
    IN  IF After # {} THEN First(After)
        ELSE IF Unused # {} THEN First(Unused)
        ELSE {t \in Tracks : Repeats \/ t \notin used}

\* The windows of checkAutoPreloadTrigger and checkAutoMixTrigger.  Without an
\* outro zone both measure against the track's end, so the preload window
\* reaches into the mix window; with one the marker closes the preload window.
InPreloadWindow(d) ==
    \/ deck[d].phase = "preload"
    \/ deck[d].phase = "mix" /\ deck[d].track \notin OutroTracks
InMixWindow(d) == deck[d].phase = "mix"

----------------------------------------------------------------------------
(* The start of a transition: beginTransition, before its first timer. *)

\* On decks dk: "now" plays the incoming deck and starts the ramp in the same
\* turn, in place of any ramp that was active (a replaced preview ramp leaves
\* the guard to its timer); "intro" seeks to the mix-in marker and waits for the
\* seek to land; "sync" locks the rate and waits for that first.
BeginTransition(out, in, isPreview, dk, slots) ==
    \/ /\ "now" \in Starts
       /\ deck' = Patched(dk, in, PlayFrom(dk[in]))
       /\ ramp' = Ramp(out, in, isPreview)
       /\ settles' = slots
    \/ /\ "intro" \in Starts
       /\ Free(slots)
       /\ deck' = Patched(dk, in, [dk[in] EXCEPT !.phase = "body"])
       /\ settles' = Put(slots, Settle(out, in, isPreview, "seek"))
       /\ UNCHANGED ramp
    \/ /\ "sync" \in Starts
       /\ Free(slots)
       /\ deck' = dk
       /\ settles' = Put(slots, Settle(out, in, isPreview, "rate"))
       /\ UNCHANGED ramp

\* The rate settle is over: seek to the mix-in marker, nudge the phase, and give
\* that seek a settle of its own.  A touch or a missing deck ends it here.
RateSettled(i) ==
    /\ settles[i] # Nothing /\ settles[i].stage = "rate"
    /\ IF settles[i].touched \/ ~BothExist
       THEN /\ settles' = [settles EXCEPT ![i] = Nothing]
            /\ UNCHANGED deck
       ELSE /\ settles' = [settles EXCEPT ![i].stage = "seek"]
            /\ deck' = [deck EXCEPT ![settles[i].in].phase = "body"]
    /\ UNCHANGED <<fader, autoDj, bookVars, ramp, tasks, preview>>

\* The seek settle is over: play the incoming deck and start the ramp.
SeekSettled(i) ==
    LET s == settles[i] IN
    /\ s # Nothing /\ s.stage = "seek"
    /\ settles' = [settles EXCEPT ![i] = Nothing]
    /\ IF s.touched \/ ~BothExist
       THEN UNCHANGED <<deck, ramp>>
       ELSE /\ deck' = [deck EXCEPT ![s.in] = PlayFrom(@)]
            /\ ramp' = Ramp(s.out, s.in, s.preview)
    /\ UNCHANGED <<fader, autoDj, bookVars, tasks, preview>>

----------------------------------------------------------------------------
(* The ramp: step() of startCrossfadeRamp. *)

RampAborts ==
    /\ ramp # Nothing
    /\ ramp.touched \/ ~BothExist
    /\ ramp' = Nothing
    /\ preview' = IF ramp.preview THEN GuardEnded(preview) ELSE preview
    /\ UNCHANGED <<musicVars, autoDj, bookVars, settles, tasks>>

RampMoves ==
    /\ ramp # Nothing /\ ~ramp.touched /\ BothExist
    /\ fader = FaderAt(ramp.out)
    /\ fader' = 1
    /\ UNCHANGED <<deck, autoDj, bookVars, flightVars>>

\* Fully faded: free the outgoing deck, or only pause it after a preview.  A
\* ramp lasts for seconds, a settle 200 ms: none is left when a ramp ends.
RampFinishes ==
    /\ ramp # Nothing /\ ~ramp.touched /\ BothExist
    /\ \A i \in SettleIds : settles[i] = Nothing
    /\ fader' = FaderAt(ramp.in)
    /\ deck' = [deck EXCEPT ![ramp.out] =
                  IF ramp.preview THEN [@ EXCEPT !.playing = FALSE] ELSE Freed(@)]
    /\ preview' = IF ramp.preview THEN [preview EXCEPT !.tail = TRUE] ELSE preview
    /\ ramp' = Nothing
    /\ UNCHANGED <<autoDj, bookVars, settles, tasks>>

----------------------------------------------------------------------------
(* Playback, and the poll that watches it (positionPoll.ts). *)

\* The track plays on.  Its body, minutes long, outlasts the fifteen audible
\* seconds that mark it played, a ramp into it and every request to Digger; the
\* lead a preview starts at, two seconds or more, outlasts the preview's settles.
Advance(d) ==
    LET r == deck[d] IN
    /\ r.playing /\ Ready(d)
    /\ r.phase = "body" =>
         /\ Audible(d) => r.track \in used
         /\ ramp # Nothing => ramp.in # d
         /\ \A i \in TaskIds : tasks[i] # Nothing => tasks[i].stage \in {"ask", "ready"}
    /\ \/ r.phase = "body" /\ deck' = [deck EXCEPT ![d].phase = "preload"]
       \/ r.phase = "preload" /\ deck' = [deck EXCEPT ![d].phase = "mix"]
       \/ /\ r.phase = "mix"
          /\ \A i \in SettleIds : settles[i] # Nothing /\ settles[i].preview => settles[i].out # d
          /\ deck' = [deck EXCEPT ![d].phase = "tail"]
    /\ UNCHANGED <<fader, autoDj, bookVars, flightVars>>

\* The load has been demuxed and the deck reports a duration.
Measure(d) ==
    /\ Loaded(d) /\ ~deck[d].measured
    /\ deck' = [deck EXCEPT ![d].measured = TRUE]
    /\ UNCHANGED <<fader, autoDj, bookVars, flightVars>>

\* playedTracks.ts: audible for PLAYED_THRESHOLD_MS.
Heard(d) ==
    /\ Audible(d) /\ Loaded(d) /\ deck[d].track \notin used
    /\ used' = used \cup {deck[d].track}
    /\ UNCHANGED <<musicVars, autoDj, handled, preloaded, flightVars>>

\* checkAutoPreloadTrigger.
PreloadTrigger(d) ==
    LET o == Other(d) IN
    /\ autoDj /\ ~preview.inFlight
    /\ deck[d].playing /\ Ready(d) /\ InPreloadWindow(d)
    /\ deck[o].present /\ deck[o].track = NoTrack
    /\ preloaded[d] # deck[d].track
    /\ Free(tasks)
    /\ preloaded' = MarkedFetched(d)
    /\ tasks' = Put(tasks, Task("preload", "pick", o, deck[d].track, NoTrack, NoTrack))
    /\ UNCHANGED <<musicVars, autoDj, handled, used, ramp, settles, preview>>

\* checkAutoMixTrigger.
MixTrigger(d) ==
    LET o == Other(d) IN
    /\ autoDj /\ ramp = Nothing /\ ~preview.inFlight
    /\ deck[d].playing /\ Ready(d) /\ InMixWindow(d)
    /\ Ready(o) /\ ~deck[o].playing
    /\ handled[d] # deck[d].track
    /\ handled' = Marked(d, deck[d].track)
    /\ BeginTransition(d, o, FALSE, deck, settles)
    /\ UNCHANGED <<fader, autoDj, preloaded, used, tasks, preview>>

----------------------------------------------------------------------------
(* End of stream: App.svelte's deck-eos listener and handleDeckEos. *)

\* promotePreloadedCounterpart: the other deck already holds a track.
Promotes(d) == Loaded(Other(d)) /\ ~deck[Other(d)].playing

Eos(d) ==
    LET stopped == [deck[d] EXCEPT !.playing = FALSE, !.phase = "end"]
        o == Other(d) IN
    /\ deck[d].playing /\ Ready(d) /\ deck[d].phase = "tail"
    /\ \/ /\ ~autoDj \/ handled[d] = deck[d].track
          /\ deck' = [deck EXCEPT ![d] = stopped]
          /\ UNCHANGED <<fader, tasks>>
       \/ /\ autoDj /\ handled[d] # deck[d].track /\ Promotes(d)
          /\ deck' = [deck EXCEPT ![d] = Freed(@), ![o] = PlayFrom(@)]
          /\ fader' = FaderAt(o)
          /\ UNCHANGED tasks
       \/ /\ autoDj /\ handled[d] # deck[d].track /\ ~Promotes(d)
          /\ Free(tasks)
          /\ deck' = [deck EXCEPT ![d] = stopped]
          /\ tasks' = Put(tasks, Task("eos", "pick", d, deck[d].track, NoTrack, NoTrack))
          /\ UNCHANGED fader
    /\ UNCHANGED <<autoDj, bookVars, ramp, settles, preview>>

----------------------------------------------------------------------------
(* Loads in flight: pickNextTrack, then loadQueueItemToDeck, then whatever  *)
(* the caller does next.                                                    *)

\* loadQueueItemToDeck before its first await.  Only this early look at the
\* deck decides whether the DJ is asked about a deck that is playing.
LoadOf(t) == [t EXCEPT !.stage = IF deck[t.deck].playing /\ Loaded(t.deck)
                                 THEN "ask" ELSE "payload",
                       !.prev = deck[t.deck].track]

\* What the caller does once loadQueueItemToDeck has returned.
AfterLoad(t) ==
    IF t.kind = "skipNow" THEN [t EXCEPT !.stage = "ready"] ELSE Nothing

\* Fault: the loaded track is not started.
LeftPaused(t, r) == r

PlayedAfterLoad(t, r) == IF t.kind = "eos" THEN PlayFrom(r) ELSE r

\* The next track is known.  The preload looks at its deck once more.
TrackPicked(i) ==
    /\ tasks[i] # Nothing /\ tasks[i].stage = "pick"
    /\ \E t \in Picks(tasks[i].anchor) :
         tasks' = [tasks EXCEPT ![i] =
            IF @.kind = "preload" /\ ~(deck[@.deck].present /\ deck[@.deck].track = NoTrack)
            THEN Nothing
            ELSE LoadOf([@ EXCEPT !.track = t])]
    /\ UNCHANGED <<musicVars, autoDj, bookVars, ramp, settles, preview>>

\* Fault: Auto DJ stays engaged.
TaskFailsSilently(i) ==
    /\ tasks[i] # Nothing
    /\ \/ tasks[i].stage = "pick" /\ Picks(tasks[i].anchor) = {}
       \/ tasks[i].stage \in {"pick", "payload"} /\ "unreachable" \in Events
    /\ tasks' = [tasks EXCEPT ![i] = Nothing]
    /\ UNCHANGED <<musicVars, autoDj, bookVars, ramp, settles, preview>>

\* Digger has nothing to suggest, or a request to it fails.
TaskFails(i) ==
    /\ tasks[i] # Nothing
    /\ \/ tasks[i].stage = "pick" /\ Picks(tasks[i].anchor) = {}
       \/ tasks[i].stage \in {"pick", "payload"} /\ "unreachable" \in Events
    /\ tasks' = [tasks EXCEPT ![i] = Nothing]
    /\ autoDj' = (autoDj /\ tasks[i].kind # "eos")
    /\ UNCHANGED <<musicVars, bookVars, ramp, settles, preview>>

\* The DJ answers "Load anyway?".  After a no the load returns as if done.
AskAnswered(i) ==
    LET t == tasks[i] IN
    /\ t # Nothing /\ t.stage = "ask"
    /\ \/ /\ tasks' = [tasks EXCEPT ![i].stage = "payload"]
          /\ UNCHANGED deck
       \/ /\ tasks' = [tasks EXCEPT ![i] = AfterLoad(t)]
          /\ deck' = Patched(deck, t.deck, PlayedAfterLoad(t, deck[t.deck]))
    /\ UNCHANGED <<fader, autoDj, bookVars, ramp, settles, preview>>

\* getCuemarkPayload has answered: the track goes onto the deck, whatever the
\* deck holds by now.  A manual load marks the track it found there as skipped.
PayloadArrives(i) ==
    LET t == tasks[i] IN
    /\ t # Nothing /\ t.stage = "payload"
    /\ deck' = Patched(deck, t.deck, PlayedAfterLoad(t, WithTrack(deck[t.deck], t.track)))
    /\ used' = IF t.kind = "manual" /\ t.prev # NoTrack THEN used \cup {t.prev} ELSE used
    /\ tasks' = [tasks EXCEPT ![i] = AfterLoad(t)]
    /\ UNCHANGED <<fader, autoDj, handled, preloaded, ramp, settles, preview>>

----------------------------------------------------------------------------
(* Skip: skipCurrentTrack and skipUpcomingTrack. *)

\* The rest of skipCurrentTrack once the incoming deck is ready:
\* everything is read again, and the outgoing track it began with is marked.
SkipTransition(out, in, outTrack) ==
    IF deck[out].playing /\ deck[in].present /\ ~deck[in].playing /\ ramp = Nothing
    THEN /\ handled' = IF outTrack = NoTrack THEN handled
                       ELSE Marked(out, outTrack)
         /\ used' = used \cup ({outTrack} \ {NoTrack})
         /\ BeginTransition(out, in, FALSE, deck, settles)
    ELSE UNCHANGED <<handled, used, deck, ramp, settles>>

\* awaitDeckReady answers, yes or, at its deadline or for a missing deck, no.
SkipReady(i) ==
    LET t == tasks[i] IN
    /\ t # Nothing /\ t.stage = "ready"
    /\ tasks' = [tasks EXCEPT ![i] = Nothing]
    /\ IF Ready(t.deck)
       THEN SkipTransition(Other(t.deck), t.deck, t.anchor)
       ELSE UNCHANGED <<handled, used, deck, ramp, settles>>
    /\ UNCHANGED <<fader, autoDj, preloaded, preview>>

\* skipUpcomingTrack: the idle deck it picks is the left one if that is not
\* playing, even if it does not exist (then nothing happens).
SkipUpcoming ==
    \E d \in Decks :
      /\ d = Right => deck[Left].playing
      /\ deck[d].present /\ ~deck[d].playing
      /\ Free(tasks)
      /\ used' = used \cup ({deck[d].track} \ {NoTrack})
      /\ tasks' = Put(tasks, Task("skipUp", "pick", d, deck[Other(d)].track, NoTrack, NoTrack))
      /\ UNCHANGED <<musicVars, autoDj, handled, preloaded, ramp, settles, preview>>

\* skipCurrentTrack, for the one mapped deck that is playing.
SkipCurrent(d) ==
    LET o == Other(d) IN
    /\ BothExist /\ ramp = Nothing /\ ~preview.inFlight
    /\ deck[d].playing /\ ~deck[o].playing
    /\ IF Ready(o)
       THEN /\ SkipTransition(d, o, deck[d].track)
            /\ UNCHANGED tasks
       ELSE /\ Free(tasks)
            /\ tasks' = Put(tasks, Task("skipNow",
                              IF Loaded(o) THEN "ready" ELSE "pick",
                              o, deck[d].track, NoTrack, NoTrack))
            /\ UNCHANGED <<handled, used, deck, ramp, settles>>
    /\ UNCHANGED <<fader, autoDj, preloaded, preview>>

\* The Skip button: without a single playing deck it swaps the upcoming pick.
Skip ==
    \/ \E d \in Decks : SkipCurrent(d)
    \/ /\ BothExist /\ ramp = Nothing /\ ~preview.inFlight
       /\ deck[Left].playing = deck[Right].playing
       /\ SkipUpcoming

----------------------------------------------------------------------------
(* Preview: previewTransition, its settle, its tail and its guard.          *)

\* A press cancels the active ramp, keeps the snapshot of a preview that is not
\* over, parks the fader on the outgoing deck, seeks both decks and plays it.
Preview(out) ==
    LET in == Other(out) IN
    /\ Ready(out) /\ Ready(in)
    /\ Free(settles)
    /\ preview' = [inFlight |-> TRUE, tail |-> FALSE,
                   restore |-> IF preview.restore # Nothing THEN preview.restore
                               ELSE [in |-> in, fader |-> fader]]
    /\ fader' = FaderAt(out)
    /\ deck' = [deck EXCEPT ![out] = [@ EXCEPT !.playing = TRUE, !.phase = "mix"],
                            ![in] = [@ EXCEPT !.phase = "body"]]
    /\ ramp' = Nothing
    /\ settles' = Put(settles, Settle(out, in, TRUE, "preview"))
    /\ UNCHANGED <<autoDj, bookVars, tasks>>

\* The preview's seeks have settled.
PreviewSettled(i) ==
    LET s == settles[i]
        others == [settles EXCEPT ![i] = Nothing] IN
    /\ s # Nothing /\ s.stage = "preview"
    /\ IF BothExist
       THEN /\ BeginTransition(s.out, s.in, TRUE, deck, others)
            /\ UNCHANGED preview
       ELSE /\ settles' = others
            /\ preview' = GuardEnded(preview)
            /\ UNCHANGED <<deck, ramp>>
    /\ UNCHANGED <<fader, autoDj, bookVars, tasks>>

\* finishPreview, when the tail's timer fires.
FinishPreview ==
    LET r == preview.restore IN
    /\ preview.tail
    /\ preview' = [GuardEnded(preview) EXCEPT !.tail = FALSE]
    /\ IF r # Nothing /\ deck[r.in].present
       THEN /\ deck' = [deck EXCEPT ![r.in].playing = FALSE, ![r.in].phase = "body"]
            /\ fader' = r.fader
       ELSE UNCHANGED <<deck, fader>>
    /\ UNCHANGED <<autoDj, bookVars, ramp, settles, tasks>>

\* Fault: the timer does not wait for settles and fade.
PreviewGuardHasNoSlack ==
    /\ preview.inFlight /\ ~preview.tail
    /\ preview' = GuardEnded(preview)
    /\ UNCHANGED <<musicVars, autoDj, bookVars, ramp, settles, tasks>>

\* The guard's own timer.  It leaves eight seconds of slack over settles, fade
\* and tail, so it fires only when none of them is left.
PreviewGuardExpires ==
    /\ preview.inFlight /\ ~preview.tail
    /\ ramp # Nothing => ~ramp.preview
    /\ \A i \in SettleIds : settles[i] # Nothing => ~settles[i].preview
    /\ preview' = GuardEnded(preview)
    /\ UNCHANGED <<musicVars, autoDj, bookVars, ramp, settles, tasks>>

----------------------------------------------------------------------------
(* The DJ. *)

\* A click on Load, or the controller's LOAD button.
ManualLoad(d, t) ==
    /\ Free(tasks)
    /\ tasks' = Put(tasks, LoadOf(Task("manual", "payload", d, NoTrack, t, NoTrack)))
    /\ UNCHANGED <<musicVars, autoDj, bookVars, ramp, settles, preview>>

\* The play button.  notifyManualPlay parks both decks when they now overlap.
PlayToggle(d) ==
    /\ Loaded(d)
    /\ deck' = [deck EXCEPT ![d] = IF @.playing THEN [@ EXCEPT !.playing = FALSE]
                                   ELSE PlayFrom(@)]
    /\ handled' = IF autoDj /\ ~deck[d].playing /\ deck[Other(d)].playing
                  THEN [e \in Decks |-> IF Loaded(e) THEN deck[e].track ELSE handled[e]]
                  ELSE handled
    /\ UNCHANGED <<fader, autoDj, preloaded, used, flightVars>>

\* The crossfader: notifyManualCrossfaderTouch ends the ramp and every settle
\* that looks at the touch count; the settle of a preview's seeks does not.
Touch(v) ==
    /\ fader' = v
    /\ ramp' = IF ramp = Nothing THEN ramp ELSE [ramp EXCEPT !.touched = TRUE]
    /\ settles' = [i \in SettleIds |->
                     IF settles[i] = Nothing \/ settles[i].stage = "preview"
                     THEN settles[i]
                     ELSE [settles[i] EXCEPT !.touched = TRUE]]
    /\ UNCHANGED <<deck, autoDj, bookVars, tasks, preview>>

Seek(d, p) ==
    /\ Ready(d) /\ deck[d].phase # p
    /\ deck' = [deck EXCEPT ![d].phase = p]
    /\ UNCHANGED <<fader, autoDj, bookVars, flightVars>>

\* With a mapped deck missing the session subscriber takes the toggle back at the
\* next change of the session, before Auto DJ can act on it.
ToggleAutoDj ==
    /\ BothExist
    /\ autoDj' = ~autoDj
    /\ UNCHANGED <<musicVars, bookVars, flightVars>>

\* removeDeck; the session subscriber disengages Auto DJ in the same turn.
RemoveDeck(d) ==
    /\ deck[d].present
    /\ deck' = [deck EXCEPT ![d] = [EmptyDeck EXCEPT !.present = FALSE]]
    /\ autoDj' = FALSE
    /\ UNCHANGED <<fader, bookVars, flightVars>>

\* addDeck numbers past the largest deck id: Left's comes back only to an
\* empty session, Right's only while Left is there.
AddDeck(d) ==
    /\ ~deck[d].present
    /\ deck[Other(d)].present <=> d = Right
    /\ deck' = [deck EXCEPT ![d] = EmptyDeck]
    /\ UNCHANGED <<fader, autoDj, bookVars, flightVars>>

----------------------------------------------------------------------------
(* The specification. *)

Idle == /\ handled = [d \in Decks |-> NoTrack]
        /\ preloaded = [d \in Decks |-> NoTrack]
        /\ used = {}
        /\ ramp = Nothing
        /\ settles = [i \in SettleIds |-> Nothing]
        /\ tasks = [i \in TaskIds |-> Nothing]
        /\ preview = [inFlight |-> FALSE, tail |-> FALSE, restore |-> Nothing]

Playing(t) == [EmptyDeck EXCEPT !.track = t, !.measured = TRUE, !.playing = TRUE]
Cued(t) == [EmptyDeck EXCEPT !.track = t, !.measured = TRUE]

\* A cold boot; or a set under way, where the DJ has started the left deck with
\* the head of the queue and may have put another track on the right one.  Auto
\* DJ is on, unless "toggle" leaves that to the DJ.
Init ==
    /\ Idle
    /\ autoDj = ("toggle" \notin Events)
    /\ \/ /\ deck = [d \in Decks |-> EmptyDeck]
          /\ fader = 1
       \/ /\ Queue # << >>
          /\ \E r \in {EmptyDeck} \cup {Cued(t) : t \in Tracks \ {Queue[1]}} :
               deck = [d \in Decks |-> IF d = Left THEN Playing(Queue[1]) ELSE r]
          /\ fader = FaderAt(Left)

\* What the program does by itself.
Automatic ==
    \/ RampAborts \/ RampMoves \/ RampFinishes
    \/ FinishPreview \/ PreviewGuardExpires
    \/ \E i \in SettleIds : RateSettled(i) \/ SeekSettled(i) \/ PreviewSettled(i)
    \/ \E i \in TaskIds : TrackPicked(i) \/ TaskFails(i) \/ AskAnswered(i)
                            \/ PayloadArrives(i) \/ SkipReady(i)
    \/ \E d \in Decks : Advance(d) \/ Measure(d) \/ Heard(d) \/ PreloadTrigger(d)
                          \/ MixTrigger(d) \/ Eos(d)

\* What the DJ may do, of the operations in Events.  "skipReady" presses Skip
\* once the next track is there, "skip" at any time; "preview" auditions when no
\* preview is under way, and with "previewAgain" also restarts one.
Dj ==
    \/ "load" \in Events /\ \E d \in Decks, t \in Tracks : ManualLoad(d, t)
    \/ "play" \in Events /\ \E d \in Decks : PlayToggle(d)
    \/ "touch" \in Events /\ \E v \in 0..2 : Touch(v)
    \/ "seek" \in Events /\ \E d \in Decks, p \in Phases \ {"end"} : Seek(d, p)
    \/ "skip" \in Events /\ Skip
    \/ "skipReady" \in Events /\ \E d \in Decks : Ready(Other(d)) /\ SkipCurrent(d)
    \/ "skipUpcoming" \in Events /\ SkipUpcoming
    \/ /\ "preview" \in Events /\ (preview.inFlight => "previewAgain" \in Events)
       /\ \E d \in Decks : Preview(d)
    \/ "toggle" \in Events /\ ToggleAutoDj
    \/ "decks" \in Events /\ \E d \in Decks : RemoveDeck(d) \/ AddDeck(d)

Next == Automatic \/ Dj

Spec == Init /\ [][Next]_vars

\* Timers fire, requests are answered, audio plays and the poll goes on; the
\* DJ need do nothing.
Fairness ==
    /\ WF_vars(RampAborts) /\ WF_vars(RampMoves) /\ WF_vars(RampFinishes)
    /\ WF_vars(FinishPreview) /\ WF_vars(PreviewGuardExpires)
    /\ \A i \in SettleIds :
         WF_vars(RateSettled(i)) /\ WF_vars(SeekSettled(i)) /\ WF_vars(PreviewSettled(i))
    /\ \A i \in TaskIds :
         /\ WF_vars(TrackPicked(i)) /\ WF_vars(TaskFails(i))
         /\ WF_vars(AskAnswered(i)) /\ WF_vars(PayloadArrives(i)) /\ WF_vars(SkipReady(i))
    /\ \A d \in Decks :
         /\ WF_vars(Advance(d)) /\ WF_vars(Measure(d)) /\ WF_vars(Heard(d))
         /\ WF_vars(PreloadTrigger(d)) /\ WF_vars(MixTrigger(d)) /\ WF_vars(Eos(d))

FairSpec == Spec /\ Fairness

----------------------------------------------------------------------------
(* Properties. *)

Live(s) == s # Nothing /\ ~s.preview
SomethingPlays == \E d \in Decks : deck[d].playing

\* A track is on its way to a deck that will then be started.
MusicPending ==
    \/ \E i \in TaskIds : tasks[i] # Nothing /\ tasks[i].kind = "eos"
    \/ \E i \in SettleIds : Live(settles[i]) /\ ~settles[i].touched

\* While Auto DJ is on, music that plays is followed by music, or by a load or a
\* transition that is about to start some (autoDj.ts:2-3, "keep the music going").
KeepsTheMusicGoing ==
    [][autoDj' /\ (SomethingPlays \/ MusicPending)
         => SomethingPlays' \/ MusicPending']_vars

\* Auto DJ never stays silent: once no deck is heard, one is heard again or Auto
\* DJ has disengaged, saying that it could not advance.
SilenceEnds ==
    (\E d \in Decks : deck[d].phase = "end" \/ MusicPending)
      ~> ((\E d \in Decks : Audible(d)) \/ ~autoDj)

\* Where two tracks of the queue are on the decks, the one that waits comes
\* later in the queue than the one that plays, or is that track again (a preload
\* answered after the end of stream).  The picker steps back only when it has
\* nothing unplayed left ahead (autoDj.ts:62-71).
QueueOrder ==
    \A d \in Decks, i, j \in DOMAIN Queue :
       /\ deck[d].playing /\ deck[d].track = Queue[i]
       /\ Loaded(Other(d)) /\ deck[Other(d)].track = Queue[j]
       /\ ~deck[Other(d)].playing /\ deck[Other(d)].phase # "end"
       => i <= j \/ \A k \in (i + 1)..Len(Queue) : Queue[k] \in used

\* The deck a live transition leaves is marked, so that its end of stream in the
\* middle of the fade does not load and start another track there.
OutgoingIsHandled ==
    \A s \in {ramp} \cup {settles[i] : i \in SettleIds} :
       Live(s) /\ ~s.touched /\ deck[s.out].playing => handled[s.out] = deck[s.out].track

\* The crossfader, moved by the program, moves towards a deck that plays.
MovedByProgram ==
    /\ fader' # fader
    /\ deck' # deck \/ (ramp # Nothing /\ ~ramp.touched /\ ramp' = ramp)
NeverFadesIntoSilence ==
    [][MovedByProgram =>
         \/ fader' = 1 /\ deck[ramp.in].playing
         \/ \E d \in Decks : fader' = FaderAt(d) /\ deck'[d].playing]_vars

\* Music stops only where a track ends: no load, skip or transition of Auto DJ
\* takes away the last deck that plays.
OnlyTheEndStopsMusic ==
    [][SomethingPlays /\ ~SomethingPlays'
         => \E d \in Decks : deck[d].playing /\ deck'[d].phase = "end"]_vars

\* Left to itself Auto DJ never has two loads under way to one deck, of which the
\* later would take the place of the earlier and lose its track: not for all the
\* polls while an answer is out, nor when the track ends before it comes
\* (autoMix.ts:1124-1127, autoDj.ts:106-121).
OneFetchPerDeck ==
    \A i, j \in TaskIds :
       /\ tasks[i] # Nothing /\ tasks[i].kind \in {"preload", "eos"}
       /\ tasks[j] # Nothing /\ tasks[j].kind \in {"preload", "eos"}
       /\ tasks[i].deck = tasks[j].deck
       => i = j

\* A preload lands only on a deck that is still empty (autoMix.ts:20-22).
PreloadSparesDeck ==
    [][\A i \in TaskIds :
         LET t == tasks[i] IN
         t # Nothing /\ t.kind = "preload" /\ tasks'[i] = Nothing
           => deck[t.deck].track = NoTrack \/ deck'[t.deck] = deck[t.deck]]_vars

PreviewWork ==
    \/ preview.tail
    \/ \E s \in {ramp} \cup {settles[i] : i \in SettleIds} : s # Nothing /\ s.preview

\* From the press to the end of the tail the guard is up, so that neither
\* trigger of the poll starts anything beside an audition (autoMix.ts:348-354).
PreviewIsGuarded == PreviewWork => preview.inFlight

\* The guard cannot stick: every preview, aborted or not, gives Auto DJ back.
PreviewEnds == preview.inFlight ~> ~preview.inFlight
=============================================================================
