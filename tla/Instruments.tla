----------------------------- MODULE Instruments -----------------------------
(***************************************************************************)
(* What watches that a deck which plays is heard                           *)
(* (src-tauri/src/audio/pipeline.rs): the probe on the way to the sink, the *)
(* reporter that reads it every second and gives a verdict every few, the   *)
(* margin watchdog, and the probe that measures gaps at the sink.          *)
(*                                                                         *)
(* Of a margin only its size matters: "none" yet, "fine" (at most          *)
(* MARGIN_REARM_MS), "edge", or "off" (beyond MARGIN_WARN_THRESHOLD_MS).    *)
(* There is one branch.  Pacing ratios and the wording are left out.       *)
(***************************************************************************)
EXTENDS Naturals

CONSTANTS Window,   \* samples in a window: 5
          Windows,  \* MARGIN_WATCHDOG_WINDOWS
          DryTicks, \* DRY_WARN_TICKS
          Skip,     \* RESUME_SKIP_TICKS
          NoTime    \* SinkFlow's last, forgotten

ASSUME InstrumentsAssumption ==
    /\ {Window, Skip} \subseteq Nat /\ {Windows, DryTicks} \subseteq Nat \ {0}
    /\ Window > Skip

VARIABLES
    deck,  \* the flags at_playing and scratching, and which changed since the tick
    probe, \* DeliveryProbe: buffers since the reporter looked, the last one's margin
    flow,  \* SinkFlow's last: seconds ago, up to 3, or NoTime
    rep,   \* the reporter
    dog,   \* MarginWatchdog
    said,  \* the warnings of the last step
    past   \* history, in ticks: see below

instVars == <<deck, probe, flow, rep, dog, said, past>>

Margins == {"none", "fine", "edge", "off"}
Long == (Windows + 1) * Window + Skip

\* The history is long enough for every warning.
ASSUME HistoryAssumption == DryTicks + Skip <= Long /\ 3 <= Long

\* steady: played and not scratched for so long; off: and the margin off all the while;
\* silent: played without a buffer; going: played.  calm, wet: since the last warning the
\* margin has been fine, and the deck has been heard or paused.
PastRec == [steady : 0..Long, off : 0..Long, silent : 0..Long, going : 0..Long,
            calm : BOOLEAN, wet : BOOLEAN]

InstTypeOK ==
    /\ deck \in [playing : BOOLEAN, scratching : BOOLEAN,
                 flipped : SUBSET {"playing", "scratching"}]
    /\ probe \in [moved : BOOLEAN, margin : Margins]
    /\ flow \in 0..3 \cup {NoTime}
    /\ rep \in [samples : 0..Window - 1, skip : 0..Skip, dry : 0..DryTicks, warned : BOOLEAN,
                scratched : BOOLEAN]
    /\ dog \in [breaches : 0..Windows, fired : BOOLEAN]
    /\ said \subseteq {"clock", "dry", "gap"} /\ past \in PastRec

Capped(n, most) == IF n > most THEN most ELSE n

----------------------------------------------------------------------------
(* The deck. *)

\* The bus thread opens and closes the gate, and forgets the last buffer as it closes.
\* That a pause and a gesture last over a tick is an assumption: the reporter samples.
SetPlaying ==
    /\ "playing" \notin deck.flipped
    /\ deck' = [deck EXCEPT !.playing = ~@, !.flipped = @ \cup {"playing"}]
    /\ flow' = NoTime
    /\ past' = [past EXCEPT !.going = 0, !.steady = 0, !.off = 0, !.silent = 0, !.wet = TRUE]
    /\ said' = {}
    /\ UNCHANGED <<probe, rep, dog>>

SetScratching ==
    /\ "scratching" \notin deck.flipped
    /\ deck' = [deck EXCEPT !.scratching = ~@, !.flipped = @ \cup {"scratching"}]
    /\ past' = [past EXCEPT !.steady = 0, !.off = 0]
    /\ said' = {}
    /\ UNCHANGED <<probe, flow, rep, dog>>

\* A buffer passes both probes; the sink's reports the gap before it.
Buffer(margin) ==
    /\ probe' = [moved |-> TRUE, margin |-> margin]
    /\ flow' = IF deck.playing THEN 0 ELSE NoTime
    /\ said' = IF deck.playing /\ flow # NoTime /\ flow > 1 THEN {"gap"} ELSE {}
    /\ past' = [past EXCEPT !.silent = 0, !.wet = TRUE]
    /\ UNCHANGED <<deck, rep, dog>>

----------------------------------------------------------------------------
(* MarginWatchdog::observe. *)

\* Fault: a window with a gesture in it is passed over.
PassesOver(playing, scratched) ==
    IF ~playing THEN [dog EXCEPT !.breaches = 0]
    ELSE IF scratched THEN dog
    ELSE IF probe.margin = "off"
    THEN [breaches |-> Capped(dog.breaches + 1, Windows),
          fired |-> dog.fired \/ dog.breaches + 1 >= Windows]
    ELSE [breaches |-> 0, fired |-> dog.fired /\ probe.margin # "fine"]

\* A window that was played through: two in a row that are off are reported, once until
\* one is fine again.  Any other says nothing, and does not re-arm.
Observed(playing, scratched) ==
    IF ~playing \/ scratched \/ probe.margin = "none" THEN [dog EXCEPT !.breaches = 0]
    ELSE IF probe.margin = "off"
    THEN [breaches |-> Capped(dog.breaches + 1, Windows),
          fired |-> dog.fired \/ dog.breaches + 1 >= Windows]
    ELSE [breaches |-> 0, fired |-> dog.fired /\ probe.margin # "fine"]

----------------------------------------------------------------------------
(* spawn_delivery_reporter, a second at a time. *)

Scratched == rep.scratched \/ deck.scratching

\* Paused: everything is measured anew.
PausedTick ==
    /\ ~deck.playing
    /\ dog' = Observed(FALSE, Scratched)
    /\ rep' = [samples |-> 0, skip |-> Skip, dry |-> 0, warned |-> FALSE,
               scratched |-> FALSE]
    /\ said' = {}

\* The first ticks after a pause only look where the counters stand.
SkippedTick ==
    /\ deck.playing /\ rep.skip > 0
    /\ rep' = [rep EXCEPT !.skip = @ - 1, !.scratched = Scratched]
    /\ said' = {}
    /\ UNCHANGED dog

Dry(r) ==
    IF probe.moved THEN [r EXCEPT !.dry = 0, !.warned = FALSE]
    ELSE [r EXCEPT !.dry = Capped(@ + 1, DryTicks), !.warned = r.warned \/ r.dry + 1 >= DryTicks]

\* A sample; the last of a window is its verdict.
SampledTick ==
    /\ deck.playing /\ rep.skip = 0
    /\ LET r == Dry(rep)
           dry == IF r.warned /\ ~rep.warned THEN {"dry"} ELSE {} IN
       IF rep.samples + 1 < Window
       THEN /\ rep' = [r EXCEPT !.samples = @ + 1, !.scratched = Scratched]
            /\ said' = dry
            /\ UNCHANGED dog
       ELSE /\ rep' = [r EXCEPT !.samples = 0, !.scratched = FALSE]
            /\ dog' = Observed(TRUE, Scratched)
            /\ said' = dry \cup IF dog'.fired /\ ~dog.fired THEN {"clock"} ELSE {}

\* The history of a tick.
Passed ==
    LET still == deck.playing /\ ~deck.scratching
        Longer(n, goes) == IF goes THEN Capped(n + 1, Long) ELSE 0 IN
    [steady |-> Longer(past.steady, still),
     off |-> Longer(past.off, still /\ probe.margin = "off"),
     silent |-> Longer(past.silent, deck.playing /\ ~probe.moved),
     going |-> Longer(past.going, deck.playing),
     calm |-> "clock" \notin said /\ (past.calm \/ probe.margin = "fine"),
     wet |-> "dry" \notin said /\ (past.wet \/ probe.moved \/ ~deck.playing)]

Tick ==
    /\ PausedTick \/ SkippedTick \/ SampledTick
    /\ past' = Passed
    /\ probe' = [probe EXCEPT !.moved = FALSE]
    /\ flow' = IF flow = NoTime THEN NoTime ELSE Capped(flow + 1, 3)
    /\ deck' = [deck EXCEPT !.flipped = {}]

----------------------------------------------------------------------------
(* The specification. *)

InstInit ==
    /\ deck = [playing |-> FALSE, scratching |-> FALSE, flipped |-> {}]
    /\ probe = [moved |-> FALSE, margin |-> "none"]
    /\ flow = NoTime
    /\ rep = [samples |-> 0, skip |-> Skip, dry |-> 0, warned |-> FALSE, scratched |-> FALSE]
    /\ dog = [breaches |-> 0, fired |-> FALSE]
    /\ said = {}
    /\ past = [steady |-> 0, off |-> 0, silent |-> 0, going |-> 0, calm |-> TRUE, wet |-> TRUE]

InstWorld == SetPlaying \/ SetScratching \/ \E m \in Margins \ {"none"} : Buffer(m)
InstSpec == InstInit /\ [][InstWorld \/ Tick]_instVars

----------------------------------------------------------------------------
(* Properties. *)

\* The warnings are neither false nor missing nor repeated.  A clock is called off only
\* after whole windows of undisturbed play, and after the margin has been fine since the
\* last time; one that stays off is called so.  Silence is reported after DryTicks seconds
\* of play without a buffer, once for each; and no gap is measured over a pause.
WarningsAreTrue ==
    /\ "clock" \in said => past.steady >= Windows * Window /\ past.calm
    /\ past.off >= Long => dog.fired
    /\ "dry" \in said => past.silent >= DryTicks /\ past.wet
    /\ past.silent >= DryTicks + Skip => rep.warned
    /\ flow # NoTime => flow <= past.going
=============================================================================
