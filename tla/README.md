# cuemark: a formal model

cuemark is a two-deck audio/video DJ program: a Svelte/TypeScript frontend in a
WebKit web view, and a Rust backend (Tauri) that owns the GStreamer pipelines,
the file cache, MIDI and the windows. This directory holds TLA+ modules of the
parts of it in which order, failure and concurrency decide what happens, the
instances TLC checks, and proofs for the TLA+ proof system.

Paths are relative to the repository; `lib/` stands for `src/lib/`, `rs/` for
`src-tauri/src/`.

## The parts of the system

Three kinds of concurrency meet here:

- **the frontend** is one JavaScript thread. A handler runs without being
  interrupted up to its first `await` or to the setting of a timer; everything
  may happen before its continuation runs.
- **backend commands** run on a pool of blocking threads, several at a time;
  shared maps are locked for short whiles and not across the slow work.
- **the world**: GStreamer, web processes, a network share, Digger (the library
  service over HTTP), Snapcast, a MIDI controller, and the DJ.

| Component | State it keeps | Operations | Talks to | What is hard | What makes it correct |
|---|---|---|---|---|---|
| **Auto DJ** `lib/digger/autoMix.ts`, `autoDj.ts`, `queueStore.ts` | `handledOutgoing`, `preloadedFor`, `activeRamp`, `previewInFlight`, `previewRestore`, timers | near-end triggers, preload, ramp, end-of-stream fallback, skip, preview, manual touch / play | session store, position poll, Digger, seek bus | awaits between check and use, timers crossing timers, the DJ's hands at any moment | the music goes on; the queue's order; nothing fades into silence; the DJ wins |
| **Media cache** `rs/media_cache.rs` | `resolved` (path to Ready / InProgress), the cache directory | `ensure_cached`, `lookup`, `lookup_wait` | share, Digger, `audio_load`, media server | many threads, one condition variable, failures and crashes in the middle of a copy | one copier; no lost wake-up; whole files only; every call returns |
| **Freeze watchdog** `rs/watchdog.rs` | per window: last beat, triggered, recovering, failures, gave_up | heartbeat, poll, recovery sequence of three tiers, forget | web views, window events of `rs/lib.rs` | the sequence sleeps between looks; kills hit every window | every silence is handled; one sequence per window; kills bounded |
| **Deck transport** `lib/audio/transport.ts`, `src/App.svelte` (syncVideoElements), `rs/audio/mod.rs` | `lastAudioPlaying`, `transportChains`, backend states; `pipelines` | play, pause, load, unload, retry | session store, deck pipeline | commands detach the pipeline, retries, answers that come late | the deck plays what and when the screen says |
| **Session store** `lib/state/session.ts` | the `Session` | every mutator; tempo reference, locked rates | everything | derived tempo after any sequence of edits | the tempo master exists; locked decks follow it |
| **Seeks and position** `lib/renderer/seekBus.ts`, `lib/audio/positionPoll.ts`, `phaseNudge.ts`, `audioSync.ts` | pending seek targets, throttles, poll in flight | seek, poll, nudge | deck pipeline, video player | answers from before a seek | the shown position converges to the last seek |
| **Codec video path** `lib/video/*` | frame queue, generation, worker state, backend registry | load, seek, tick, worker messages, fall-back | demuxer, output bus | stale frames of an older seek, worker failure | frames shown belong to the last seek; queue bounded |
| **Video demuxer** `rs/video_demux.rs` | sample index per file | open, read group of pictures | media cache, worker | byte ranges of a file being replaced | a group starts at a key frame and is complete |
| **Media server** `rs/media_server.rs` | none | range requests | media cache | range arithmetic | answers lie within the file |
| **Output window** `lib/renderer/outputBus.ts`, `outputProtocol.ts`, `src/output.ts` | known window, last snapshot, sequence numbers | hello, snapshot, deltas, frames | compositor | window opened late, twice, closed | a window that is open converges to the session |
| **Session recovery** `lib/state/bootRestore.ts`, `sessionRecovery.ts`, `rs/session_store.rs` | saved snapshot, instance id, adoptions | sync (debounced), restore | audio manager | page reload against program restart, stale file | a reload loses nothing that plays; a restart restores no ghosts |
| **Played tracks and history** `lib/digger/playedTracks.ts`, `lib/state/history.ts` | played, skipped, timers | load, threshold, skip | session store, Digger | timers against reloads | played means heard |
| **Output graph** `rs/audio/mixer.rs` | per device: sink, mixer, channels | attach, detach, rebuild | deck pipelines | devices vanish while decks attach | a deck is on each of its devices once |
| **Deck pipeline** `rs/audio/pipeline.rs` | GStreamer elements, scratch ring, pending flushes | load, play, seek, scratch, devices, record tap | output graph | flushing seeks, takeover of a ring by a feeder | positions stay true; scratch always ends |
| **Recording** `rs/audio/record.rs` | session flag, file per deck | start, stop, attach | pipelines | decks loaded meanwhile | every deck is in the recording |
| **Snapcast** `rs/audio/snapcontrol.rs` | claim: stream, groups, where from | claim, release | Snapcast server | others move groups | a release restores only what the claim moved |
| **PCM tap**, **clock watch** `rs/audio/pcm_tap.rs`, `clock_watch.rs` | ring and cursors; drift history | push, read; observe | visualizations; log | wrap-around; jitter | no sample twice; no false verdict |
| **MIDI** `rs/midi/*`, `rs/midi_state.rs`, `lib/midi/*` | half-received 14-bit values, ports, saved values, dirty flag | decode, rescan, flush, handle | session store | pairs torn apart, ports that come and go | the last position of a control is applied and kept |
| **Visualizations** `rs/viz_plugins.rs`, `lib/viz/*`, `lib/renderer/*` | presets, cycle, health | load, cycle, fail | compositor | hot reload, failing shaders | a failing preset is not retried for ever |

The rest (signal analysis, drawing, settings, panels, counters, scripts) has
little state of its own; `PROJECT.json` lists it with the reason it is left out.

## The modules

| Module | Models | State ↔ code |
|---|---|---|
| `AutoMix` | `autoMix.ts`, `autoDj.ts`, `loadQueueItemToDeck`, the deck-eos listener | `deck` is the two mapped decks of the session, `fader` the crossfader (left, between, right), `handled` `handledOutgoing`, `preloaded` `preloadedFor`, `ramp` `activeRamp`, `settles` the pending timers of `beginTransition` and `previewTransition`, `tasks` the async functions that wait for Digger, the DJ or a deck, `preview` the guard, the restore and the tail |
| `MediaCache` | `media_cache.rs` | `resolved` the map, `disk` and `temp` the directory, `call` the program counter and the local variables of each thread |
| `SharedCopy` | what `media_cache.rs` promises | abstract: who makes which copy, and what is stored |
| `Watchdog` | `watchdog.rs`, `on_window_event` of `lib.rs` | `entry` `Inner.windows`, `queue` the poll's `to_recover`, `seq` the recovery threads, `view` what a web view does |
| `DeckTransport` | `transport.ts`, the transport half of `syncVideoElements`, `audio_load` / `play` / `pause` / `unload` | `sent` `lastAudioPlaying`, `chain` `transportChains`, `backend` the backend registry, `calls` the commands in flight, `map` `AudioManager.pipelines` |
| `OutputGraph` | `audio/mixer.rs` | a value and the functions on it (every method runs under the graph's mutex): `node` the nodes of the devices with their branches and sources, the record target, delays, master volume, the tap's owner |
| `DeckPipeline` | `audio/pipeline.rs`: load, rebuild, teardown, attach, record tap, play, pause | a pipeline is a value too, and its methods functions on the pair of pipeline and graph |
| `AudioManager` | the commands of `audio/mod.rs` | `deck` `AudioManager.pipelines`, `manager` its settings and the recording flag, `cmd` the commands under way, each with the pipeline it took out of the map; `graph` the one graph |
| `Scratch` | `audio/pipeline.rs`: gestures, feeder, hand tracker, hand-back | `gear` pipeline, intent and topology, `feeder` the thread with its cursor, target and ring, `place` the file branch, `landed` `last_scratch_frame` |
| `Instruments` | `audio/pipeline.rs`: delivery probe, reporter, `MarginWatchdog`, `SinkFlow` | the records of these names; `past` is history |
| `MidiInput` | `midi/mod.rs`, `midi/decode.rs`, `midi_state.rs` | `conns` `CONNS`, `pass` the supervisor's loop, `persist` and `file` the saved positions, `device` and `wire` the hardware |
| `SnapClaims` | `audio/snapcontrol.rs`, its caller in `audio/mod.rs` | `claims` `snapcast_claims`, `call` the command with its requests to come, `on` and `streams` the server |
| `VizPlugins` | `viz_plugins.rs`, `lib/viz/vizPlugins.ts` | `disk` the folder, `watch` the watcher thread, `events` and `reads` what is on its way to the page, `viz` the page |
| `ClockWatch` | `audio/clock_watch.rs` | `sampler` `ClockSampler`, `source` the clocks, `report` the last verdicts |
| `Reports` | `Instruments` and `ClockWatch` side by side | states `ReportsAreTrue` of both |
| `CodecPath` | the video half of `syncVideoElements`, `backendRegistry.ts`, `video_demux.rs`, the demux route of `media_server.rs` | `codec`: the source, the backend's state, element and players, the demuxer's registry, probes under way |
| `PcmTap` | `audio/pcm_tap.rs`, `build_tap` of `mixer.rs`, `lib/viz/vizPcm.ts` | `pcm`: the routing, the buffers under way, the window, the schedule, the gate |
| `TempoReference` | the tempo mutators of `session.ts`; `App.svelte`, `gridSource.ts`, `queueStore.ts`, `bootRestore.ts` | `table` `Session.decks`, `lead` `masterDeckId` and `bpm`, `saved` and `trust` the grids, `lookups` and `analyses` what is under way |
| `PlayPosition` | `seekBus.ts`, `positionPoll.ts`, `pipeline.rs` (position, seek, scratch targets) | `screen` `audioTimes`, `pendingSeekTarget` and the poll's records, `hand` the scrub, `errands` the commands to the main thread, `audio` the pipeline |
| `SessionRecovery` | `session_store.rs`, `sessionRecovery.ts`, `bootRestore.ts`, the boot of `App.svelte` | `ui` the page with its session, timer, backends and adoptions, `store` `SessionStore` and the two files, `piped` `AudioManager.pipelines` |
| `AutoMixProofs`, `MediaCacheProofs`, `WatchdogProofs`, `DeckTransportProofs`, `PageProofs`, `AudioManagerProofs`, `DeckProofs`, `ServicesProofs` | theorems and proofs | |
| `MCAutoMix`, `MCMediaCache`, `MCWatchdog`, `MCDeckTransport`, `MCAudioManager`, `MCScratch` | instances for TLC | a counter bounds what the environment does, never what the program does |
| `MCServices` | the instance of the eleven services that share no state | `part` is the service that runs in a behaviour, `asked` counts its calls and events |

`DeckPipeline` extends `OutputGraph` and `AudioManager` extends both: the three are
one state machine in three layers. `MediaCache` implements `SharedCopy`. The
services of `MCServices` do not meet in the program either (where they do, the
module that needs the other's effect carries it: `CodecPath` has the audio that is
adopted after a recovery, `SessionRecovery` the pipelines, `PlayPosition` the
scratch target), so they share one run, in which each behaviour is of one of them.

An action is one piece of code that cannot be interrupted: on the JavaScript
thread a handler up to its first await or a continuation, in Rust a critical
section or one system call outside it. Definitions whose comment begins with
"Fault:" are not part of the model: each is a variant of the definition that
follows it, with a plausible bug, kept to see that a property notices it.

Where the code does not guard against an order of events, and a property fails
because of it, the module has a constant with the name of that event (`Events`,
`Races`, `Mishaps`...). The runs below exclude it, this file says what it is, and
TLC was seen to report the property for each of them alone. They are the places
where the code is known to be wrong or to rely on luck.

### AutoMix

A playback position becomes the *phase* a deck is in, as the triggers tell them
apart: `body`, `preload` (inside the preload lead), `mix` (where the near-end
trigger fires), `tail` (past it, too late to blend), `end`. Whether a track has a
mix-out zone decides whether its preload window closes where the fade begins
(`OutroTracks`). A transition starts in one of three ways: at once, after the
settle of a seek to a mix-in marker, or after the settle of a rate lock and that
of a seek.

Timing assumptions, each a guard with a comment: a track's body outlasts the
fifteen seconds that mark it played, a fade into it and the requests in flight;
the lead a preview starts at outlasts the preview's settles (two of 200 ms and
one of 200 ms against two seconds or more); a fade (a second or more) outlasts a
settle; the preview guard's timer has its eight seconds of slack. Not modelled:
zone arithmetic, beat matching and its drift-back, rates and sync locks, and the
toggle when a mapped deck is missing (the session subscriber takes it back at the
next change).

### MediaCache

A version stands for the contents of a source file and its size, as the cache's
key is the size. Copies and requests end; Digger declares the length of what it
sends; failures to create the directory or to rename are not told apart from a
failed copy. There is one process. Deadlines are events that may fire at any time
while a thread waits.

### Watchdog

The clock is left out: a silence of six seconds, the back-off and the waits of the
tiers are events. `slow` lets a page take longer to load than a tier waits,
`hopeless` lets a process stay dead, `hasty` lets a window be reopened while the
sequence of its previous life still runs. A window that is closing is gone within
six seconds. Reloads and kills act on the web view as the comments of the code
describe: a frozen page may ignore a reload, a reload right after a kill may be
lost.

### DeckTransport

One deck, since decks share only the map. A load is its number, as `loadSeq`
has it, so that the same file loaded twice is two loads. The fifty retries become
the event `giveUp`; `churn` is any change of the session that does not touch the
deck; `hasty` loads or removes while something is in flight; `reorder` lets the
pool start commands out of order. An unload takes effect with the sync that asks
for it, and a load leaves its pipeline paused.

### OutputGraph, DeckPipeline, AudioManager

Commands that may block take their deck's pipeline out of the map, work on it
without the manager's lock, and put it back; play and pause of a deck that is out
fail. A device change and the start and stop of a recording go through the decks
that were in the map when they began. Elements, caps and clocks are left out but
for the count of the sources a node's pipeline holds. Excluded events: `hasty` (a
recording starts between a load's look at the flag and its insert,
`audio/mod.rs:306`; two device changes overlap; two loads of one deck overlap, of
which the second builds a pipeline of its own and the insert that comes last drops
the other, `audio/mod.rs:267` and `318`) and `prerollFails` (a load that fails
after `pipeline.rs:3884` leaves its branches on the mixers).

### Scratch and Instruments

Places are in units of a few milliseconds, the tempo is 1, samples and gains are
left out. No seek falls into a gesture, and a push of the feeder never fails.
`handover` (velocity mode handed over to position mode within one gesture) has a
run of its own, below. In `Instruments` a margin is one of four sizes, and a pause
or a gesture lasts longer than a tick of the reporter.

### MidiInput

Each port is a controller with a 14-bit fader, a 7-bit fader and a lamp; a byte
has `Base` values. A controller that is unplugged stays away for longer than a pass
of the supervisor, unless `quickReplug`. An output port opens whenever its input does
(`midi/mod.rs:64-77`), and every write of the positions' file succeeds.

### SnapClaims

One `audio_set_main_devices` at a time, and the exit of the program empties the
list. Every request may fail, with or without effect. With `Rush` the others act
on the server while a command is under way: a stream given to a group between the
survey and the switch is then not restored.

### VizPlugins

A scan of the folder and a read of a plugin see it at one instant. With `Flicker` a
change is undone before the watcher has told of it: the page keeps the version it
happened to read in between.

### ClockWatch

Time is in halves of the sampling interval. With `Reuse` a clock is freed and
another is made at its address, which the watch takes for the same
(`clock_watch.rs:153`).

### CodecPath

One deck. Excluded `Races`: a probe's answer that overtakes that of a later one
(`overtaking`), the failure of a superseded probe, which tears down the audio of
the new load (`lateFailure`, `App.svelte:576`), the same file loaded again during
its probe (`sameFile`), and a parse so slow that a film is taken for audio only
(`slowParse`). Decoding, the frame queue, seeks and the worker are not modelled.

### PcmTap

A sample stands for its frame, its channel and the routing it was mixed under.
With `Lagging` the routing changes while buffers mixed under the last one are
queued; they are then read with the new channels, which may have carried the cue.

### TempoReference

Tempi and rates are on a logarithmic scale and the tolerance of 0.0005 is none.
The program starts with the new session of `session.ts:33`. At any moment the page
may be lost: the next one recovers the session, its locks, rates and main tempo as
they stand, and looks every loaded deck up and analyses it again (`Recover`), or it
starts a new session with the main tempo and its deck of the last one, or without
(`StartAnew`). The session recovered is the one at the loss of the page; one that is
up to a second old is the concern of `SessionRecovery`. The main tempo may also be
tapped or lose its deck (`SetMasterBpm`, `ClearMaster`), which at this commit only
the tests of `session.ts` do. Excluded `Slips`: the id of a removed deck used again while its mark of a saved
grid is still there (`deckReturns`, `gridSource.ts:13`), a file loaded again with
an untrusted grid (`fileReturns`), SET BEAT before the analysis, which saves the
tempo of the file before (`earlyBeat`), an analysis that finds no tempo, so that
the one of the file before stays (`noAnalysis`), a reload of the page over a trusted
grid of Digger that is not in the store of saved grids, which the new analysis then
replaces, against `App.svelte:1099` (`trustLost`, `bootRestore.ts:85`), and a
start that takes over the id of a main deck which the new session does not have
(`ghostMaster`, `bootRestore.ts:147-148`). Each of them alone makes
`TemposAreCurrent` fail.

### PlayPosition

One deck with a codec player. A unit of time is longer than the half second with
which the poll tells places apart; commands reach the main thread in order; play,
pause and load are pressed when no command is out, and take effect at once; the
file is decoded for scratching; SNAP is off. Excluded `Mishaps`:

- `scratchAnswer`: an answer about a scratch outlives the gesture and passes the
  filter of stale answers. A click on a paused deck's waveform with a poll in flight
  does it, against the comment at `seekBus.ts:145`.
- `hastyRelease`: the hand lets go before its last movement was sent.
- `resume`: a deck resumes where the poll would take the position, or the place of a
  seek under way, for something else than it is: after a change of rate, the jump of
  the position is no seek (`positionPoll.ts:30-31`), and a seek on the paused deck
  may have moved the position just as far as play would have.
- `rateUnheard`: the rate is turned before the answer to a seek, or on a playing deck
  that of a scratch, has come.
- `nearby`: a seek of a playing deck, also one of a silent scrub, lands where the poll
  would have expected play to be, and is not seen as a seek.
- `loadUnheard`: a load while an answer or a seek of the file before is out. The
  pending target of a codec deck survives the load.
- `slowSeek`: a second seek or a scratch before the first has landed.
- `slowAnswer`: an answer takes longer than `SEEK_STALE_TIMEOUT_MS`.

An audible scrub that had to go on silently never clears `scratchingDecks`; as the
file is decoded for scratching, the module does not reach that.

### SessionRecovery

Decks stay, loads succeed, play and pause take effect at once, and one setting
stands for those of the session that a MIDI control moves too. The page may be
reloaded at any moment, also in the middle of a boot, and the program restarted. The
command `session_restore` answers and the snapshot is written; its failure
(`bootRestore.ts:169`) is a start of `TempoReference` only.
Excluded `Upsets`:

- `late`: a load or a setting is changed within the second before the page is
  lost. A freeze soon after a load is such a case: an adoption does not compare the
  file (`App.svelte:449-456`), so the page then shows one file over the pipeline of
  another, or keeps an adoption for an empty deck that swallows its next load. A
  play or pause within that second is not excluded, as the pipelines make up for it.
- `loading`: a reload while `audio_load` is under way; the deck is loaded twice.
- `ended`: a track ends while no page listens. The pipeline goes on saying that it
  plays, and so does the page.
- `eager`: the DJ acts between the answer and the end of the boot.

## What TLC checks

| Run | States | Checks | Bounds |
|---|---|---|---|
| `AutoMixAutopilot` | Auto DJ by itself; the DJ presses Skip when a deck is ready; Digger fails | `QueueOrder`, `OutgoingIsHandled`, `OneFetchPerDeck`, `KeepsTheMusicGoing`, `SilenceEnds`, `OnlyTheEndStopsMusic`, `NeverFadesIntoSilence` | 4 tracks, 3 of them queued (the fourth comes from Digger's suggestions), 2 with an outro; 2 tasks, 2 settles, 6 operations |
| `AutoMixHands` | every operation of the DJ | `PreviewIsGuarded`, `PreviewEnds` | 2 tracks, 1 queued; 2 operations |
| `MediaCache` | two callers, one path, every fault | `OneCopier`, `NoLostWakeup`, `FilesAreWhole`, `SharesCopies`, `CallsReturn`, `EntriesSettle` | 2 contents, 2 faults |
| `Watchdog` | two windows, one of them closable | `OneSequence`, `GaveUpIsSilent`, `KillsAreBounded`, `SilenceIsHandled` | 2 sequences, 2 failures instead of 3, 2 freezes, thaws, closings or openings |
| `DeckTransport` | one deck | `ChainWaits`, `SentIsTrue`, `BusyConverges` | 3 loads, 4 commands in flight, 7 operations |
| `AudioManager` | two decks over one graph | `BranchesAreOutputs`, `TapFollows`, `RecordingHearsAll`, `SettingsArrive`, `PlaysAsAsked` | 5 device ids on 3 nodes, one of which cannot be built; 2 threads, 6 commands |
| `Services` | eleven services, one in each behaviour | `ServicesTypeOK`, and by service: `DeckHandsBack`, `RestsByTheHand`, `AimKeepsDirection` (scratch), `ControllersAgree` (MIDI), `GroupsComeBack` (Snapcast), `ShowsTheFolder` (plugins), `ReportsAreTrue` (instruments and clock watch), `OneBackendOfTheLoad` (codec path), `ShowsTheMainMix` (tap), `TemposAreCurrent` (tempi), `ShowsItsPlace` (position), `RecoversTheSet` (recovery) | calls and events: scratch 5, MIDI 4, Snapcast 6, plugins 3, instruments 5, clock 3, codec 4, tap 5, tempi 5, position 4, recovery 5 |

Five more runs show what the code does not do (below).

The values of `Services`: a track of 6 places (0 to 5), two velocities, a snap of 4,
a coast of 2, a hold of 7 chunks; 2 ports, bytes of two values, so that a crossing
of the high half is one step; 1 target, 2 groups, 2 streams; 6 files (a fragment
and a vertex shader of one name, a plugin folder with two shaders and a texture, a
preset), 2 versions; windows of 5 samples, 2 of them, 3 dry ticks, 2 skipped; clocks
that stop, or stray by 1 or against time; 3 media files, one of them without video;
a tap window of 3 frames, buffers of 1, 2 and 4, four channels, 2 buffers queued;
2 turntables, one of them in a new session, and 2 records, one with a saved and an
untrusted grid, one with a trusted one; places 0 to 6, rates 1
and 2, a patience of 2; 2 decks, 4 loads, 2 levels.

Why the bounds suffice. The Auto DJ's records are keyed by deck, and two decks are
all there are; three queued tracks let each deck be reused once after a complete
fade, and the fourth makes the picker run out of queue. Two operations of the DJ
produce every pair of an operation and a transition in progress, as transitions
start by themselves. In the cache paths do not interact (what is proved holds for
any number), two callers give a copier and a waiter, and two faults let a second
one strike during the recovery from the first. In the watchdog two windows let a
kill for one hit the other; a failure limit of two still lets a sequence succeed,
fail once, and fail for the last time. In the transport a chain is superseded and
its successor superseded again, which takes three presses within one load, and a
load replaced by another. In the audio manager two
threads let a command find a deck taken out by another, two decks let one be lost
to a loop over the decks, and the device ids name one node by its front pair, by
its rear pair and bare. A scratch needs the hand to move, turn, rest past the hold,
let go and come back while the feeder still runs: five calls. A wrong half of a
14-bit value takes a move, a replug and a move; a claim is undone wrongly by a
claim, another's move, a release and a crash, in any order; a plugin's read is
overtaken by a choice or an edit, and the third edit falls into the settling of
the first; a stale position answer takes a seek, an answer and another seek; a
wrong recovery takes a load, a play, and one or two losses of the page. A locked deck
takes a deck added, two loads, a main deck and the lock, and an answer, which is not
counted, then moves the tempo it follows; a deck locked
to a tapped tempo takes three calls and leaves two for faders, loads, reloads and
restarts.

Every behaviour of the program is explored within these bounds; only what the DJ
and the world do is counted. `CHECK_DEADLOCK FALSE` is given for the Auto DJ and the
transport, which rest when the queue has ended and the DJ does nothing, and for the
audio manager, the services and the scratch, which are commanded and rest when the
instance's commands are used up.

**Fairness.** All of it is weak. JavaScript timers fire, promises are settled
(requests have deadlines), frames are drawn; threads of the pool run what they
are given to its end; the poll thread never stops; a page that runs reports once a
second. The DJ, and the world's faults, are never fair. The liveness properties
are `SilenceEnds` (once silent, music again or Auto DJ says that it disengaged),
`PreviewEnds`, `CallsReturn`, `EntriesSettle`, `SilenceIsHandled` and
`BusyConverges`. The last assumes that the session goes on changing: without that
the property is `Converges`, which the code does not satisfy (below). The audio
manager and the services are checked for safety: what they promise holds whenever
nothing is under way, and nothing obliges their callers to stop.

### What the code does not do

Five runs show the code doing other than what it says.

- `AutoMixOverwrite`: the preload looks once more whether its deck is empty
  (`autoMix.ts:1170-1174`), then awaits the track's payload
  (`queueStore.ts:67`). A track the DJ loads in between is overwritten,
  against `autoMix.ts:20-22`.
- `MediaCacheStale`: a Ready entry is served without looking at the original
  (`media_cache.rs:119-130`), so a file that is replaced while the program runs
  is served from its old copy, against `media_cache.rs:105-106` and `154-155`.
- `WatchdogClosed`: a window closed during its recovery has no entry, `resumed()`
  says false (`watchdog.rs:327-329`), and the sequence escalates to the kill of
  every web process, against `watchdog.rs:543-544`.
- `DeckTransportSwallowed`: a pause pressed while the play command is in flight is
  compared with `lastAudioPlaying`, which still says that nothing plays
  (`App.svelte:674`), and is dropped; the deck then plays though it shows paused,
  against `legacyVideo.ts:210-212`.
- `ScratchHandover`: the feeder's hand tracker starts from the target of the
  gesture's first frame (`pipeline.rs:5205`), NaN in velocity mode. When a live
  gesture is switched to position mode the cursor becomes NaN and the deck lands
  at its start, against `pipeline.rs:4719-4720` and `lib/audio/pipeline.ts:103-104`.

Others were met while modelling. They are the excluded events above, and hazards in
`PROJECT.json`: among them a track fetched for both decks when it ends during its
preload, a skip that does not look again at which track it fades to, a trusted grid that a reload
of the page loses to the analysis, an unload that finds the pipeline detached, two overlapping loads of a deck, and two sequences for a
window that is reopened at once.

## What is proved

tlapm checks these for every value of the constants that satisfies the named
assumptions.

**`MediaCacheProofs`** — any sets of callers, paths, versions and faults.
`TypeCorrect`, `OneCopierHolds`, `NoLostWakeupHolds`, `FilesAreWholeHolds`, and
`Implements`: the cache implements `SharedCopy`. `OneCopier` is inductive with the
types: each step of a call is shown to begin a copy, to settle one, to be steady,
or to be a crash, and only a caller that saw no `InProgress` begins. That files are
whole is not inductive alone: a rename could publish what another call is still
writing. The strengthening `WorkInv` says that a call at work writes a file of its
own path under a temporary name, and that at the rename this file is complete; with
`OneCopier` two calls at work never share a temporary file. The refinement uses the
same classification: beginning maps to `Begin`, the rename to `Store`, publishing
to `End`, a deletion to `Lose`, all else to stuttering.

**`WatchdogProofs`** — any windows and events, any limit of at least two failures.
`TypeCorrect` holds throughout; `OneSequenceHolds`, `GaveUpIsSilentHolds` and
`KillsAreBoundedHolds` assume that no window is reopened while a sequence for it
runs (`"hasty" \notin Events`), without which they are false. The inductive
invariant adds that a window waiting for its sequence has none yet (`QueuedIdle`)
and, for each window (`WindowInv`), how the flags of its entry relate to its
sequence: recovering while there is one, not given up, and with few failures. The
subtle case is a window that is closing: its last heartbeat may make a new entry
that the sequence under way does not know of; the invariant needs that such a
window is neither silent nor triggered until it is destroyed. Two more theorems are
the safety halves of `SilenceIsHandled`. `FlagIsTakenBack` holds whatever happens: a
window is flagged as being recovered only while it waits for a sequence or has one, so
that no sequence leaves a flag behind that keeps the poll from ever trying again.
`WorkIsFlagged` is the converse, for windows that do not close, where none is reopened
in haste.

**`AutoMixProofs`** — any tracks, queue, bounds and operations of the DJ.
`TypeCorrect` holds throughout. `PreviewIsGuardedHolds` assumes that a preview is
not pressed again while one is under way (`"previewAgain" \notin Events`): a
second press within the first one's 200 ms settle cancels no ramp, both previews go
on, and a touch that aborts the first ends the guard of the second. `PreviewIsGuarded`
is not inductive: whatever ends the guard must know that no other part of a preview is
left. The strengthening `OnePreview` says that a preview is in one place only, a
settle, the ramp or the tail, and that a settle of seeks to the audition is a
preview's. Each step either moves the preview on from its one place
(`PreviewMovesOn`), ends it, or brings none (`Fewer`).

The second part of the module is the Auto DJ left to itself, for any tracks, queue and bounds:
the DJ at most presses Skip when the next track is ready, and requests to Digger may
fail (`Untouched`). With more hands the properties are false; the hazards name the
interleavings. `OutgoingIsHandledHolds`, `OneFetchPerDeckHolds`,
`NeverFadesIntoSilenceHolds` and `OnlyTheEndStopsMusicHolds` follow from one invariant,
`Autopilot`: a transition leads from a marked deck to the other one, both loaded
(`Leaves`); both decks play only in a ramp, whose next track has just begun (`Fades`);
all transitions that wait leave the same deck (`Settling`); and a fetch is for an empty
deck, or after silence (`Fetches`), so that none runs beside a transition. The marks of
`preloadedFor` carry the last part: a deck that plays into its preload window is marked
while its fetch is out. `KeepsTheMusicGoingHolds` also assumes that Digger suggests
nothing that was played (`~Repeats`), because marks are kept by deck and path and never
cleared: the same file played again on a deck would be taken for handled. Its invariant
`Onward` adds that a deck marked for the track it holds is being left (`Marks`, which
needs that what is picked was never marked, and this that what is marked is used), that
a track which has played for a while is used (`Hears`), and that what plays is heard
unless it is being faded in (`IsHeard`). `QueueOrderHolds` assumes besides
that the queue holds a track once at most (`OnceEach`): the picker finds its place by the first
entry with the track's id (`autoDj.ts:86`), so that a second entry of the same track
would send it back. What waits is fetched beside what plays, over two steps each, and
either may change in between; `InOrder` says for each of them what it was picked for
(`PicksForFront`, `PicksBesideWaiting`, `OneAnchor`, `PreloadsSuccessor`). Two lemmas on
the picker carry it: its pick is the next unplayed entry, or the first when none is left
(`PickIsNext`), and of two picks for one track the one that is still unplayed does not
come before the other (`PickedBeside`).

**`DeckTransportProofs`** — any number of loads, commands in flight and events.
`TypeCorrect` and `ChainWaitsHolds` hold throughout, `SentIsTrueHolds` assumes that
the pool starts commands in order and that nothing is loaded or removed in a hurry
(`"reorder"`, `"hasty" \notin Events`). The types are not inductive alone: an index
into `calls` is only in range if the chain's command is there. `Typed` proves together
`TypeOK`, that a chain waits for its command (`Waits`), and that a command that holds
has a pipeline (`Holds`). `SentIsTrue`
says of a deck for which no command is in flight that, if something is recorded as sent,
the pipeline is in the map, is that of the source that was set up, and does what was
sent. For it the invariant `OrderedInv` adds: at most one
command holds the pipeline, which is then not in the map (`Alone`); beside a load under
way nothing works (`Loading`); a chain's call is the last of its kind, and once it has
begun the earlier ones are over (`Lasts`); when something is believed sent, cancelled
commands are over and a chain wants the opposite (`Believes`); the pipeline does what it
was told last (`Obeys`); and until a change of the source is seen nothing is under way
(`Changes`). The lemmas `ConcatIs`, `RemoveAtIs`, `UpdateIs` and `AppendIs` say what
removing from and appending to the sequence of commands does. `RestsInAgreement`, under
the same assumptions, is the safety half of `BusyConverges`: where a sync would leave a
deck as it is (`AtRest`: nothing is under way, the source is the one that was set up,
and `lastAudioPlaying` is what the deck should do), the pipeline is of the deck's source
and plays exactly when the deck does. Whatever else is to be brought into agreement, a
sync sees; that the syncs end is left to TLC.

**`PageProofs`** — what a page restores, shows and plays.

- `SessionRecovery`, for any decks, loads and levels. `TypeCorrect` holds
  whatever the page misses; `RecoversTheSetHolds` assumes that nothing of `Upsets`
  happens. The property speaks only of a page that is up and of loads that have ended,
  so `RecoveryInv` says what holds on the way there: what the backend would tell a fresh
  page is what was asked for, but for what plays, unless a push is due (`Kept`); the
  pipelines are as asked for but for those being loaded (`Pipelines`); load numbers tell
  decks apart (`Numbers`); and for each phase of a boot what the page knows (`Unasked`,
  `Answered`, `SetUp`, `Running`). The two steps that carry the argument are
  `RestoreKeeps`, where a session that holds a live deck must be the one in memory, and
  `BootKeeps`, where every deck with a file has an adoption and so none is loaded again.
- `PlayPosition`, for any track, rates and places, if the places a seek or a hand goes
  to are multiples of every rate (`Spots`: nothing is lost on the way to the pipeline's
  domain and back). `PlacesAreTyped` holds whatever happens; `PlaceIsShown`
  assumes that none of the `Mishaps` happens. The property speaks of a deck with
  nothing on its way; `PosInv` says what is on its way. Of the page: one request is out,
  and which commands are before it (`Asking`, `Unsampled`); page and pipeline agree on
  play (`Modes`). Of a hand: what the feeder was told last is what the hand aims at
  (`HeldAim`), its stop comes before any seek (`Feeding`), and after a release the stop
  is the last command and the feeder's place the one shown (`Released`); an answer about
  the scratch tells that place (`ScrubAnswer`). Of seeks: either the page waits, and the
  last one goes where it waits for (`SeekAhead`), or it has taken the seek for landed,
  and all that are still on their way go to what is shown (`SeekHeard`): on a playing
  deck, pressed twice at one place, both may be so in turn. Of the answer: one sampled
  before the seek is dropped by the filter or tells the same place (`AnswerGoing`,
  `AnswerOld`), any other tells where the audio is (`AnswerTrue`). And what the page
  makes of a position is the place in the content, now and after each seek on its way
  (`ContentRight`). The lemmas on the queue say what sending a command and obeying the
  first one does to each of these (`Append...`, `Tail...`), and those on places that a
  rate maps a place to the pipeline's domain and back (`DivPlace`, `SpotDiv`).
- `VizPlugins`: `ShowsTheFolderHolds` assumes that no change is undone before the watcher
  has told of it (`~Flicker`). `VizInv`: the chosen plugin is shown as it is in the folder, or the
  read that counts will bring it, or an event on its way announces it, or the watcher has
  yet to find the change (`Current`); and likewise for the list (`Listed`). The key lemma
  is that a change of a file, other than back to what the watcher knows, is among the
  changes the watcher will find.
  `TheChosenIsRead` holds however the files change: the state has its type, a read that
  counts is of the chosen plugin, and a built-in one is shown as soon as it is chosen.
- `CodecPath`: `OneBackendOfTheLoadHolds` assumes none of the `Races`. `Steady`: a probe
  of the deck's source is the last one, and what the backend waits for (`Awaited`); probes end in the
  order they began (`Apart`); a player that is registered plays what the registry serves,
  and no probe is left (`PlaysOn`); the kind of the backend says whether there is an
  element or a player (`Kind`); the audio is that of the source whose backend there is
  (`Heard`). One lemma about the pass, `SyncedIs`, serves the pass and both answers: from
  any steady state it leads to a steady one in which the source is presented.
  `ThePlayerRuns` holds whatever races: the state has its type, and the player that is
  registered is one whose worker runs, never one that was torn down.

**`AudioManagerProofs`** — any decks, devices, nodes, bounds and commands.
`TypeCorrect` and `TapFollowsHolds` hold whatever fails: the types include that no node
has fewer sources than branches (`Counted`), and `TapInv` says that at most one valve is
open, that one is once the refreshes asked for were carried out, and that delays and
volume hold on every node. `BranchesAreOutputsHolds`, `RecordingHearsAllHolds`,
`SettingsArriveHolds` and `PlaysAsAskedHolds` assume that the page keeps to one command
of a deck at a time and that no preroll fails (`Events = {}`); with the excluded events
they are false, as said above. The invariant has two parts. `Orderly`: a deck that is out
of the map is out with one command only (`Apart`); what each command knows is still so
(`Staged`, `Informed`); a pipeline in the map is as it was asked to be but for what a
command under way has still to do to it (`AtRest`); and one that a command holds, but for
what that command has still to do (`InHand`). `Placed`: wherever a deck's pipeline is,
in the map or in a command's hands, the branches of that deck on the nodes are its
outputs, one each. The argument has a lemma for each method of the pipeline (`AttachIs`,
`RebuildIs`, `TeardownIs`, `AttachRecordIs`, `RejoinIs`...) that says what it does to a
seated deck; `OthersStay` says that it leaves the other decks' branches alone. A command
then only has to be followed through how it takes a pipeline, works on it, puts it back
or passes a deck over (`TakeInv`, `StageOrderly`, `InsertOrderly`, `LeaveInv`).

**`DeckProofs`** — the deck's scratching, what watches the audio, and the tap.
`ReportsAreTrueHolds` is of the specifications of `Instruments` and `ClockWatch` side by
side, and follows from one theorem of each.

- `WarningsAreTrueHolds`, for any windows, ticks and thresholds, if the history is as long
  as the longest wait (`HistoryAssumption`). `InstInv` ties each counter to what happened:
  without a gesture since the window began, the breaches and samples were of undisturbed
  play (`CountsSteady`); what the margin has been off for and what a warning still takes
  add up to `Long` at most (`FiresInTime`, with `Remaining`); and the dry ticks were silent
  ones (`CountsSilence`). `CountsSteady` needs that a gesture lasts longer than a tick of
  the reporter: one that falls between two ticks is not seen by the code either.
- `VerdictsAreTrueHolds` assumes that a new clock is not made at the address of the one
  last sampled (`~Reuse`): the code tells clocks apart by address (`clock_watch.rs:153`).
  `Follows`: since a clock was last read, it has advanced by the real time and what it
  strayed, and is off its baseline by all of its strayings.
  `ReportsAreOfNow` holds also where addresses are used again: what is reported of a clock
  is said by the reading just made, against the baseline there is, and no reading is of a
  time to come. What the address can falsify is whose baseline it is.
- `DeckHandsBackHolds` (scratch) holds throughout. `ScratchInv` adds to the property that
  a frame where a gesture ended is kept only while the deck rests, where the clock is off
  (`DeckSettled`). `AimKeepsDirectionHolds` and `RestsByTheHandHolds` assume that velocity
  mode is not handed over to position mode (`Gestures = {}`): then nothing becomes NaN
  (`DeckKnown`, `HandSeen`). The first is an action property and needs, of the hand
  tracker, that a coast is used up against the motion and grows only as the hand went
  (`AimFollows`). The second says what is left of the way to the aim after so many chunks
  without a call (`Nears`, or `Landed` after a jump), bounded by a sequence `gap` that
  starts at the snap distance, shrinks as the servo closes it and is 0 when hold_ms
  has passed less the coast (`Closing`). With the program's constants such a sequence
  exists: half a second, three quarters of it after each chunk, is within the 12 frames
  that count as arrived after 27 chunks, and `SCRUB_HOLD_MS` leaves 47.
- `ShowsTheMainMixHolds` assumes that the routing changes when no buffer is queued
  (`~Lagging`). `TapInv`: what is queued was mixed under the routing there is (`Mixed`); a
  window shows, for the frames taken last, channels that main was routed to (`Shows`);
  emissions take a period each, and the next one is due within a period (`InTime`). That
  the pair of main channels exists, and is of the side's own where it has one, rests on
  the least and the greatest of finitely many numbers (`SomeLeast`, `SomeMost`).
  `WindowsKeepTime` holds also where the routing changes over queued buffers (`TapSafe`):
  no more is queued than the queue and the appsink take, a window shows the frames taken
  last, in order (`Framed`), emissions keep their schedule and the gate is as told. What a
  stale buffer can falsify is only which pair of channels the frames are of.

**`ServicesProofs`** — three more services, and the eleven in one program.

- `GroupsComeBackHolds` assumes that the server has one target and that the others leave
  it alone while a command is under way (`OneTarget`, `~Rush`). The first is a limit of
  the code: with two targets on one server, the second claim finds the groups on the
  first one's stream and keeps that as what to restore. `SnapInv` says that what is kept
  for a group is what it is to come back to (`Recalls`), that a group not on ours is where
  others put it (`Theirs`), and for each stage of a command what it has done and what its
  list of groups still holds (`ToRelease`, `Releasing`, `ToClaim`, `Claiming`).
  `GroupsAreTyped` keeps only `OneTarget`: also where others move groups during a command,
  what is kept for a group is never one of our own streams.
- `TemposAreCurrentHolds` assumes none of the `Slips`. Beside the property's own parts,
  `TempoInv` says that the main tempo is its deck's (`Sound`) and locked decks follow it
  (`Follow`), that the waveforms show the decks' files, that what was loaded has been seen
  by this page, and that a deck the page has not seen has no mark of a saved grid
  (`Known`), and for each deck where its grid comes from and whether the lookup or
  analysis that would replace it is still to come (`Grounded`). A recovered page keeps
  `Grounded` because every loaded deck is looked up and analysed again, and either makes
  a good grid of it where no trusted one was lost (`RecoverKeeps`).
  `LockedDecksFollow` holds whichever slips happen: what they can falsify is where a grid
  comes from and whether the deck of the main tempo is there, never that the main tempo is
  that of its deck, if there, and that the other locked decks play at it.
- `ControllersAgreeHolds` assumes that no controller is unplugged and plugged in again
  between two passes of the supervisor (`Quirks = {}`). `MidiInv`: on the wire the halves
  of a 14-bit value come in pairs, the coarse one first, where that one may have been
  heard (`Paired`), and the last pair makes the place where the fader stands (`Ending`);
  a wire that is not empty is of a connected port, a lit lamp is one the page wants, and a
  port that is connected during a pass was seen by it; what was touched is on the page,
  and in the file unless a write is to come (`OnFile`).
  `TouchesAreKeptHolds` holds however controllers come and go: what was touched is on the
  page, and in the file unless a write is to come. A deaf connection loses movements, not
  what was heard.
- The composition is `MCServices`. In `EachServiceByItself` its specification implies that
  of every service (`ServicesTakeTurns`: a step of one leaves the others' variables alone),
  so that what is proved of a service by itself holds in the program of all of them.
  `ServicesTypeOKHolds` assumes `OneTarget` and nothing else: whatever mishaps
  happen to each service, all states have their types. `ServicesKeepTheirPromises` puts the
  promises together: with none of the named mishaps, all eleven properties of the run
  `Services` that are of states, and `AimKeepsDirection`, hold at once, for any values of
  the constants and any budget of calls.

The proofs led to changes of the modules: the values that stand for "none"
are assumed to be no members of the sets they are told apart from; the branches of
`AffectedBy` exclude one another as the order of the code's tests has it; `Player` and
`Backend` have names; the platter of a scratch takes any rate, as velocity mode
clamps none; and the guards of `PlayPosition` exclude all of what the mishaps `nearby`,
`resume` and `rateUnheard` name (an attempt at `PlaceIsShown`, and TLC with larger
bounds, found seeks of a paused deck and turns of the rate that they had let through).

Every inductive invariant was first checked by TLC; those of the unconditional theorems
(`ReportsAreOfNow`, `WindowsKeepTime`, `TheChosenIsRead`, `ThePlayerRuns`,
`GroupsAreTyped`, `LockedDecksFollow`, `TouchesAreKeptHolds`) also with the mishaps
switched on.

**Only model-checked**: the liveness properties `SilenceEnds`, `PreviewEnds`,
`CallsReturn`, `EntriesSettle`, `SilenceIsHandled` and `BusyConverges`. Liveness under
fairness and `ENABLED` are outside what tlapm can do, as is induction over data (what a
recursive function computes for every input); no module uses `RECURSIVE`. Where a
proof needs more than that, the theorem takes it as a given (the sequence `gap` of
`RestsByTheHandHolds`) or from the natural numbers being well founded (`SomeLeast`).

## Not modelled

- **Auto DJ**: the zone arithmetic (`autoMix.ts:404-690`), beat matching and drift-back.
- **Audio**: elements, caps and clocks; the legacy branch of an output per deck; rates,
  keylock and volume of a pipeline; pending flushes of seeks; inertia beyond a coast;
  cue alignment; names of recordings; the enumeration of devices.
- **Codec video**: decoding, the frame queue, seeks, the worker, groups of pictures,
  codec strings. What is modelled decides which player a deck has.
- **Media server**: the range route; it has no state.
- **MIDI**: profiles and their parsing, the monitor window, jog wheels, the frontend's
  handler.
- **Session**: the crossfader's curves, the setters of single fields, migrations of old
  snapshots, phase nudges, loops, the vinyl jog, SNAP.
- **Output window**, **played tracks and history**: small protocols of timers and
  snapshots over the session. `AutoMix` has the sets of played and skipped tracks.
- **Visualizations**: the cycle and health of presets, bindings, shaders, drawing.
- **Analysis** (waveform, tempo, onsets) computes on floating point, and the **user
  interface**, the counters and the scripts keep no state that others rely on.

## Plan

What is left, most important first:

1. `OutputBus`: the handshake of output windows that come and go, against the abstract
   specification that an open window shows the session.
2. The codec player with its worker: frames shown belong to the last seek; then the
   seek bus over it.
3. `PlayedTracks` with its timers against reloads, and the rule of `AutoMix` as its
   abstraction.
4. `MixZones`: the arithmetic of `autoMix.ts:404-690` against a reference over bounded
   positions, so that the phases of `AutoMix` have a source.
5. Compositions: `AutoMix` over `DeckTransport`'s promise that a deck that is told to
   play plays; recovery over the transport.
6. `VizCycle` and `VizHealth`; the range route of the media server.

Every safety property that a passing run checks is stated by a theorem; liveness stays
with TLC. Proofs next: those with assumptions, each without one of them, where the code
allows it.
