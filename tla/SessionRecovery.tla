--------------------------- MODULE SessionRecovery ---------------------------
(***************************************************************************)
(* The session across a reload of the page (the watchdog's, or a crash of    *)
(* its process) and across a restart of the program: sessionRecovery.ts,     *)
(* bootRestore.ts, session_store.rs and the boot of App.svelte.  The page    *)
(* pushes its session to the backend a second after the last change; a       *)
(* fresh page takes it back, and adopts the pipelines that went on playing.  *)
(*                                                                         *)
(* A load is its number, as DeckSource.loadSeq has it, for its file.  Loads  *)
(* succeed, decks stay, and play and pause take effect at once: DeckTransport *)
(* and AudioManager have the commands.  Of the settings, level stands for    *)
(* one that a MIDI control moves too, masterVolume.                         *)
(***************************************************************************)
EXTENDS Naturals

CONSTANTS
    Bays,      \* deck ids
    MaxLoad,   \* loads are numbered up to this
    Levels,    \* values of the setting
    Level0,    \* its default
    Gone,      \* no pipeline, session, backend, adoption or saved position
    Upsets     \* of what the code does not guard against, see the README:
               \* "late", "loading", "ended", "eager"

ASSUME RecoveryAssumption ==
    /\ MaxLoad \in Nat \ {0} /\ Level0 \in Levels /\ Gone \notin Nat \cup BOOLEAN \cup Levels
    /\ Upsets \subseteq {"late", "loading", "ended", "eager"}

VARIABLES
    ui,      \* the page
    store,   \* SessionStore, its file, and the file of the MIDI controls
    piped,   \* AudioManager.pipelines
    fetches, \* audio_load commands under way
    intent     \* history: what was asked of the decks and of the setting, the last load

recVars == <<ui, store, piped, fetches, intent>>

Loads == 0..MaxLoad     \* 0 is no source
Lane == [load : Loads, playing : BOOLEAN]
Session == [decks : [Bays -> Lane], level : Levels]
MaybeSession == Session \cup {Gone}

\* due: the timer of the push, and whether a change that only the push can save waits
\* for it; backends: backendState; adoptions: pendingAdoption; last: lastAudioPlaying;
\* answer and audio: the result of session_restore.
PageRec == [phase : {"asking", "told", "set", "up"}, session : Session, due : {"no", "kept", "lost"},
            backends : [Bays -> Loads], adoptions : [Bays -> BOOLEAN \cup {Gone}],
            last : [Bays -> BOOLEAN], answer : MaybeSession, audio : [Bays -> Lane]]
\* again: this load was in a pipeline before.
Piped == [load : Loads, playing : BOOLEAN, again : BOOLEAN]

ASSUME GoneAssumption == Gone \notin Piped /\ Gone \notin Session

RecoveryTypeOK ==
    /\ ui \in PageRec
    /\ store \in [current : MaybeSession, file : MaybeSession, knob : Levels \cup {Gone}]
    /\ piped \in [Bays -> Piped \cup {Gone}]
    /\ fetches \subseteq [bay : Bays, load : Loads]
    /\ intent \in [decks : [Bays -> Lane], level : Levels, loads : Loads, begun : SUBSET Loads]

Idle == [load |-> 0, playing |-> FALSE]
NewSession == [decks |-> [b \in Bays |-> Idle], level |-> Level0]
NewPage == [phase |-> "asking", session |-> NewSession, due |-> "no",
            backends |-> [b \in Bays |-> 0], adoptions |-> [b \in Bays |-> Gone],
            last |-> [b \in Bays |-> FALSE], answer |-> Gone, audio |-> [b \in Bays |-> Idle]]

\* The program may have been used before, and have died with decks loaded.
RecoveryInit ==
    /\ store \in [current : {Gone}, knob : Levels \cup {Gone},
                  file : {Gone} \cup [decks : {[b \in Bays |-> [load |-> 1, playing |-> TRUE]]}, level : Levels]]
    /\ ui = NewPage /\ piped = [b \in Bays |-> Gone] /\ fetches = {}
    /\ intent = [decks |-> NewSession.decks, loads |-> 1, begun |-> {},
               level |-> IF store.file # Gone THEN store.file.level
                         ELSE IF store.knob # Gone THEN store.knob ELSE Level0]

----------------------------------------------------------------------------
(* The page keeps backends and pipelines in step with its session. *)

\* The decks whose source is another than their backend's.
Changed(p) == {b \in Bays : p.session.decks[b].load \notin {0, p.backends[b]}}

\* Fault: an adoption does not spare the pipeline.
TearsAll(p) == Changed(p)

\* teardownVideoBackendFull: the decks whose pipeline is unloaded.
Tears(p) == {b \in Changed(p) : p.adoptions[b] = Gone}

\* ensureAudioLoaded: the decks that are loaded, the others adopted.
Fetched(p) == {b \in Changed(p) : p.adoptions[b] = Gone}

\* The decks whose backend is there and whose pipeline is told to play or pause.
Told(p) == {b \in Bays \ Changed(p) : p.session.decks[b].playing # p.last[b] /\ piped[b] # Gone}

\* syncVideoElements, of the page p.
SyncsPage(p) ==
    /\ ui' = [p EXCEPT
         !.backends = [b \in Bays |-> p.session.decks[b].load],
         !.adoptions = [b \in Bays |-> IF b \in Changed(p) THEN Gone ELSE @[b]],
         !.last = [b \in Bays |-> IF b \in Fetched(p) THEN FALSE
                                  ELSE IF b \in Changed(p) THEN p.adoptions[b]
                                  ELSE IF b \in Told(p) THEN p.session.decks[b].playing ELSE @[b]]]
    /\ piped' = [b \in Bays |-> IF b \in Tears(p) THEN Gone
                                ELSE IF b \in Told(p) THEN [piped[b] EXCEPT !.playing = p.session.decks[b].playing]
                                ELSE piped[b]]
    /\ fetches' = fetches \cup {[bay |-> b, load |-> p.session.decks[b].load] : b \in Fetched(p)}

\* The DJ can act: at a page that has booted.
AtHand == ui.phase = "up" \/ ("eager" \in Upsets /\ ui.phase = "set")

\* A change of the session: its sync once the page renders, and its push within a second.
Edits(s, due) ==
    LET p == [ui EXCEPT !.session = s, !.due = IF @ = "lost" THEN @ ELSE due] IN
    IF ui.phase = "up" THEN SyncsPage(p) ELSE ui' = p /\ UNCHANGED <<piped, fetches>>

LoadsBay(b) ==
    /\ AtHand /\ intent.loads < MaxLoad /\ \A f \in fetches : f.bay # b
    /\ LET lane == [load |-> intent.loads + 1, playing |-> FALSE] IN
       /\ Edits([ui.session EXCEPT !.decks[b] = lane], "lost")
       /\ intent' = [intent EXCEPT !.decks[b] = lane, !.loads = @ + 1]
    /\ UNCHANGED store

PressesPlay(b) ==
    /\ AtHand /\ ui.session.decks[b].load # 0 /\ \A f \in fetches : f.bay # b
    /\ LET plays == ~ui.session.decks[b].playing IN
       /\ Edits([ui.session EXCEPT !.decks[b].playing = plays], "kept")
       /\ intent' = [intent EXCEPT !.decks[b].playing = plays]
    /\ UNCHANGED store

\* On the screen, or by the control, whose position is kept as well.
SetsLevel(v, byKnob) ==
    /\ AtHand
    /\ Edits([ui.session EXCEPT !.level = v], "lost")
    /\ store' = IF byKnob THEN [store EXCEPT !.knob = v] ELSE store
    /\ intent' = [intent EXCEPT !.level = v]

\* The deck-eos event marks the deck stopped, if a page listens.
StreamEnds(b) ==
    /\ piped[b] # Gone /\ piped[b].playing /\ intent.decks[b].playing
    /\ ui.phase = "up" \/ "ended" \in Upsets
    /\ IF ui.phase = "up" THEN Edits([ui.session EXCEPT !.decks[b].playing = FALSE], "kept")
                          ELSE UNCHANGED <<ui, piped, fetches>>
    /\ intent' = [intent EXCEPT !.decks[b].playing = FALSE]
    /\ UNCHANGED store

\* session_sync: to memory and to the file.
PushesSession ==
    /\ ui.due # "no"
    /\ store' = [store EXCEPT !.current = ui.session, !.file = ui.session]
    /\ ui' = [ui EXCEPT !.due = "no"]
    /\ UNCHANGED <<piped, fetches, intent>>

\* An audio_load ends: the pipeline is in the map.
EndsFetch(f) ==
    /\ fetches' = fetches \ {f}
    /\ piped' = [piped EXCEPT ![f.bay] = [load |-> f.load, playing |-> FALSE, again |-> f.load \in intent.begun]]
    /\ intent' = [intent EXCEPT !.begun = @ \cup {f.load}]
    /\ UNCHANGED <<ui, store>>

----------------------------------------------------------------------------
(* Loss and return. *)

\* The page is reloaded; what the backend has lives on.
ReloadsPage ==
    /\ "late" \in Upsets \/ ui.due # "lost"
    /\ "loading" \in Upsets \/ fetches = {}
    /\ ui' = NewPage /\ UNCHANGED <<store, piped, fetches, intent>>

\* The program ends and is started again.
RestartsProgram ==
    /\ "late" \in Upsets \/ ui.due # "lost"
    /\ ui' = NewPage /\ piped' = [b \in Bays |-> Gone] /\ fetches' = {}
    /\ store' = [store EXCEPT !.current = Gone]
    /\ intent' = [intent EXCEPT !.decks = NewSession.decks]

\* audio_status
StatusOf(pipe) == IF pipe = Gone THEN Idle ELSE [load |-> pipe.load, playing |-> pipe.playing]

\* session_restore: the session of record, from memory or else from the file, and what
\* the pipelines do.
AsksSession ==
    /\ ui.phase = "asking"
    /\ ui' = [ui EXCEPT !.phase = "told",
                !.answer = IF store.current # Gone THEN store.current ELSE store.file,
                !.audio = [b \in Bays |-> StatusOf(piped[b])]]
    /\ UNCHANGED <<store, piped, fetches, intent>>

\* Fault: a saved session is taken back whether or not its pipelines live.
RecoversAnyway(p) == p.answer # Gone

\* isRecoveryBoot
Recovers(p) == p.answer # Gone /\ \E b \in Bays : p.audio[b].load # 0

\* Fault: the saved session says what plays.
AsSaved(lane, status) == lane

\* What plays is what the pipeline says.
AsHeard(lane, status) == IF status.load = 0 THEN lane ELSE [lane EXCEPT !.playing = status.playing]

\* restoreSessionOnBoot takes the answer.
RestoresSession ==
    /\ ui.phase = "told"
    /\ ui' = [ui EXCEPT !.phase = "set",
         !.session =
            IF Recovers(ui) THEN [ui.answer EXCEPT !.decks = [b \in Bays |-> AsHeard(@[b], ui.audio[b])]]
            ELSE IF ui.answer # Gone THEN [@ EXCEPT !.level = ui.answer.level] ELSE @,
         !.adoptions = [b \in Bays |->
            IF Recovers(ui) /\ ui.audio[b].load # 0 THEN ui.audio[b].playing ELSE Gone]]
    /\ UNCHANGED <<store, piped, fetches, intent>>

\* Fault: the control's saved position is taken over that of the session.
KnobFirst(p) == store.knob # Gone

\* restoreMidiControlState, where the session did not bring the setting.
KnobCounts(p) == store.knob # Gone /\ p.answer = Gone

\* The boot goes on: the saved controls, the subscription to push, the first sync.
BootsUp ==
    /\ ui.phase = "set"
    /\ SyncsPage([ui EXCEPT !.phase = "up", !.due = IF @ = "lost" THEN @ ELSE "kept",
                    !.session.level = IF KnobCounts(ui) THEN store.knob ELSE @])
    /\ UNCHANGED <<store, intent>>

RecoveryRuns ==
    AsksSession \/ RestoresSession \/ BootsUp \/ PushesSession \/ (\E f \in fetches : EndsFetch(f))

RecoveryWorld ==
    \/ \E b \in Bays : LoadsBay(b) \/ PressesPlay(b) \/ StreamEnds(b)
    \/ \E v \in Levels, byKnob \in BOOLEAN : SetsLevel(v, byKnob)
    \/ ReloadsPage \/ RestartsProgram

RecoverySpec == RecoveryInit /\ [][RecoveryRuns \/ RecoveryWorld]_recVars

----------------------------------------------------------------------------
\* A reload of the page loses nothing and interrupts nothing, and a restart of the program
\* brings back the settings and no ghosts: once a page is up and its loads have ended,
\* the decks it shows, their pipelines and the setting are as they were last asked for, and
\* no pipeline was ever built twice for one load.
RecoversTheSet ==
    /\ \A b \in Bays : piped[b] # Gone => ~piped[b].again
    /\ ui.phase = "up" /\ fetches = {} =>
         /\ ui.session = [decks |-> intent.decks, level |-> intent.level]
         /\ \A b \in Bays : StatusOf(piped[b]) = intent.decks[b]
=============================================================================
