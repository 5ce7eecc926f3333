----------------------------- MODULE CodecPath -----------------------------
(***************************************************************************)
(* What presents a deck's video (src/App.svelte, src/lib/video/            *)
(* backendRegistry.ts): a player fed with the file's access units, which    *)
(* src-tauri/src/video_demux.rs demuxes and media_server.rs serves, or the  *)
(* legacy <video> element.  A probe is one call of video_demux_load, which  *)
(* the page awaits while the deck may be given another file, or none.       *)
(*                                                                         *)
(* One deck.  video_demux_unload takes effect as it is called, and the      *)
(* media server's port is known.  Decoding, seeks, loops, the element's     *)
(* own synchronisation and the order of the audio's calls are left out.     *)
(***************************************************************************)
EXTENDS Naturals

CONSTANTS
    Media,  \* files
    Stream, \* for each, its video: "supported", "unsupported" or "none"
    Bare,   \* no file, no backend, no player
    Races   \* what the page does not guard against, see the README:
            \* "overtaking", "lateFailure", "sameFile", "slowParse"

ASSUME CodecAssumption ==
    /\ Stream \in [Media -> {"supported", "unsupported", "none"}]
    /\ Bare \notin Media
    /\ Races \subseteq {"overtaking", "lateFailure", "sameFile", "slowParse"}

Stages == {"caching", "negotiating", "pulling", "demuxed", "failed", "timed out"}
Source == [file : Media, seq : Nat]
Player == [n : Nat, file : Media]
Backend == [file : Media, seq : Nat, kind : {"pending", "webcodecs", "legacy", "fallback"}]

ASSUME BareAssumption == Bare \notin Source \cup Player \cup Backend

VARIABLE codec
\* loaded: the deck's source; wanted: the path asked for; backing, audioOnly: the backend's
\* state; element, player: what presents it; live: the players whose worker runs; registry:
\* the file whose access units are served; probes; audio: what the audio pipeline has;
\* adopt: a pipeline to be adopted after a recovery; due: a pass is scheduled;
\* cut: history, the audio of the deck's own load was taken away; turn: a counter.

CodecTypeOK ==
    /\ codec.loaded = Bare \/ codec.loaded \in Source
    /\ codec.wanted \in {"webcodecs", "legacy"}
    /\ codec.backing = Bare \/ codec.backing \in Backend
    /\ codec.player = Bare \/ codec.player \in codec.live
    /\ codec.live \subseteq Player
    /\ codec.probes \subseteq [n : Nat, file : Media, stage : Stages]
    /\ codec.registry \in Media \cup {Bare} /\ codec.turn \in Nat
    /\ codec.audio = Bare \/ codec.audio \in Source
    /\ {codec.audioOnly, codec.element, codec.adopt, codec.due, codec.cut} \subseteq BOOLEAN

----------------------------------------------------------------------------
(* The backends. *)

\* teardownCodecPlayerOnly.
WithoutPlayer(c) ==
    [c EXCEPT !.live = @ \ {c.player}, !.player = Bare, !.registry = Bare]

\* teardownVideoBackendFull: the backend and the audio.
TornDown(c) ==
    [WithoutPlayer(c) EXCEPT !.element = FALSE, !.backing = Bare, !.audioOnly = FALSE,
        !.audio = Bare, !.cut = @ \/ (c.audio # Bare /\ c.audio = c.loaded)]

\* setBackendState.
Backed(c, kind) == [c EXCEPT !.backing = [file |-> c.loaded.file, seq |-> c.loaded.seq, kind |-> kind]]

\* startCodecPath, up to its await.
Probing(c) ==
    [Backed(c, "pending") EXCEPT
        !.probes = @ \cup {[n |-> c.turn, file |-> c.loaded.file, stage |-> "caching"]},
        !.turn = @ + 1]

\* Fault: the pass clears away what it thinks is left of the file before.
FreshAlways(c) ==
    LET d == TornDown(c)
        e == [d EXCEPT !.audio = IF c.adopt THEN @ ELSE c.loaded, !.adopt = FALSE] IN
    IF c.wanted = "webcodecs" THEN Probing(e) ELSE [Backed(e, "legacy") EXCEPT !.element = TRUE]

\* A source that is new to the deck.  The first pass after a recovery finds no backend, and
\* an audio pipeline which lives: it takes that one over.
Fresh(c) ==
    LET d == IF c.adopt THEN c ELSE TornDown(c)
        e == [d EXCEPT !.audio = IF c.adopt THEN @ ELSE c.loaded, !.adopt = FALSE] IN
    IF c.wanted = "webcodecs" THEN Probing(e) ELSE [Backed(e, "legacy") EXCEPT !.element = TRUE]

NewToDeck(c) ==
    c.backing = Bare \/ c.backing.file # c.loaded.file \/ c.backing.seq # c.loaded.seq

\* syncVideoElements.
Synced(c) ==
    CASE c.loaded = Bare -> IF c.element \/ c.player # Bare THEN TornDown(c) ELSE c
      [] c.loaded # Bare /\ NewToDeck(c) -> Fresh(c)
      [] c.loaded # Bare /\ ~NewToDeck(c) ->
           CASE c.backing.kind = "pending" -> c
             [] c.backing.kind = "legacy" /\ c.wanted = "webcodecs" ->
                  Probing([c EXCEPT !.element = FALSE])
             [] c.backing.kind = "webcodecs" /\ c.wanted = "legacy" ->
                  [Backed(WithoutPlayer(c), "legacy") EXCEPT !.audioOnly = FALSE, !.element = TRUE]
             [] c.backing.kind = "webcodecs" /\ c.wanted = "webcodecs" -> c
             [] OTHER -> [c EXCEPT !.element = TRUE]

----------------------------------------------------------------------------
(* The deck. *)

\* A load, or a reload of the same file, which has a sequence number of its own.
PutOn(f) ==
    /\ ~codec.adopt
    /\ "sameFile" \notin Races => \A p \in codec.probes : p.file # f
    /\ codec' = [codec EXCEPT !.loaded = [file |-> f, seq |-> codec.turn], !.turn = @ + 1, !.due = TRUE]

\* The deck, or its source, is removed.
TakeOff ==
    /\ ~codec.adopt /\ codec.loaded # Bare
    /\ codec' = [codec EXCEPT !.loaded = Bare, !.due = TRUE]

\* setVideoPathOverride: the next pass looks at it, and schedules none.
ToggledPath ==
    codec' = [codec EXCEPT !.wanted = IF @ = "legacy" THEN "webcodecs" ELSE "legacy"]

\* Any change of the session schedules a pass.
StoreChanges == ~codec.due /\ codec' = [codec EXCEPT !.due = TRUE]

SyncVideo == codec.due /\ codec' = [Synced(codec) EXCEPT !.due = FALSE]

----------------------------------------------------------------------------
(* video_demux_load. *)

At(p, stage) == (codec.probes \ {p}) \cup {[p EXCEPT !.stage = stage]}

\* ensure_cached.
FileCached(p) ==
    /\ p.stage = "caching"
    /\ \E s \in {"negotiating", "failed"} : codec' = [codec EXCEPT !.probes = At(p, s)]

\* demux_file until the first video pad: one of a supported codec is linked; anything on
\* the bus fails at once; a file that shows no video pad in time is taken to have none.
Negotiates(p) ==
    /\ p.stage = "negotiating"
    /\ \E s \in {"failed"} \cup (IF Stream[p.file] = "supported" THEN {"pulling"} ELSE {})
                \cup (IF Stream[p.file] = "none" \/ "slowParse" \in Races THEN {"timed out"} ELSE {}) :
         codec' = [codec EXCEPT !.probes = At(p, s)]

\* Every access unit is pulled, and the deck's entry replaced; or the pipeline stalls.
Pulls(p) ==
    /\ p.stage = "pulling"
    /\ \/ codec' = [codec EXCEPT !.probes = At(p, "failed")]
       \/ /\ "overtaking" \notin Races => \A q \in codec.probes : q.n >= p.n
          /\ codec' = [codec EXCEPT !.probes = At(p, "demuxed"), !.registry = p.file]

\* What a worker that asks for access units is answered: those of its deck's entry,
\* whichever file they are of, or that there is none.
Entry == codec.registry
Served == [status |-> IF Entry = Bare THEN 404 ELSE 200, of |-> Entry]

----------------------------------------------------------------------------
(* startCodecPath, after its await. *)

\* Fault: the deck's source is not looked at again.
AlwaysWanted(p) == codec.loaded # Bare

StillWanted(p) == codec.loaded # Bare /\ codec.loaded.file = p.file

Answers(p) ==
    /\ p.stage = "demuxed"
    /\ LET c == [codec EXCEPT !.probes = @ \ {p}]
           player == [n |-> p.n, file |-> p.file] IN
       codec' = IF StillWanted(p)
                THEN Synced([Backed(c, "webcodecs") EXCEPT !.player = player,
                                !.live = @ \cup {player}, !.audioOnly = FALSE])
                ELSE [c EXCEPT !.registry = Bare]

\* Its catch: the legacy element, and for a file without video no watch over it.
Fails(p) ==
    /\ p.stage \in {"failed", "timed out"}
    /\ codec.backing # Bare /\ "lateFailure" \notin Races => codec.backing.file = p.file
    /\ codec' = Synced([codec EXCEPT !.probes = @ \ {p},
           !.backing = [file |-> p.file, seq |-> IF @ = Bare THEN 0 ELSE @.seq, kind |-> "fallback"],
           !.audioOnly = p.stage = "timed out"])

----------------------------------------------------------------------------
(* The specification. *)

Empty == [loaded |-> Bare, wanted |-> "webcodecs", backing |-> Bare, audioOnly |-> FALSE,
          element |-> FALSE, player |-> Bare, live |-> {}, registry |-> Bare, probes |-> {},
          audio |-> Bare, adopt |-> FALSE, due |-> FALSE, cut |-> FALSE, turn |-> 2]

\* A first start; or a page that comes back to a deck whose audio pipeline lives.
CodecInit ==
    \/ codec = Empty
    \/ \E f \in Media : LET s == [file |-> f, seq |-> 1] IN
         codec = [Empty EXCEPT !.loaded = s, !.audio = s, !.adopt = TRUE, !.due = TRUE]

CodecWorld == (\E f \in Media : PutOn(f)) \/ TakeOff \/ ToggledPath \/ StoreChanges
CodecRuns ==
    \/ SyncVideo
    \/ \E p \in codec.probes : FileCached(p) \/ Negotiates(p) \/ Pulls(p) \/ Answers(p) \/ Fails(p)
CodecSpec == CodecInit /\ [][CodecWorld \/ CodecRuns]_codec

----------------------------------------------------------------------------
(* Properties. *)

Quiet == codec.probes = {} /\ ~codec.due

\* However a load, a reload, a removal or a change of path falls into a probe: the only
\* worker that runs is the registered player's, and it is served its own file; the deck is
\* never presented twice; its audio is never taken away by its own load; only a file
\* without video goes unwatched; and when all is done the deck's source has its audio
\* and one presentation, and a deck without one has nothing left behind but, at most,
\* the audio of a load that was taken off during its probe.
OneBackendOfTheLoad ==
    /\ codec.live = IF codec.player = Bare THEN {} ELSE {codec.player}
    /\ \A p \in codec.live : Served = [status |-> 200, of |-> p.file]
    /\ ~(codec.element /\ codec.player # Bare)
    /\ ~codec.cut
    /\ codec.audioOnly => Stream[codec.backing.file] = "none"
    /\ Quiet /\ codec.loaded = Bare => ~codec.element /\ codec.player = Bare
    /\ Quiet /\ codec.loaded # Bare =>
         /\ ~NewToDeck(codec) /\ codec.audio = codec.loaded
         /\ codec.element = (codec.player = Bare)
    /\ Quiet => codec.registry = IF codec.player = Bare THEN Bare ELSE codec.player.file
=============================================================================
