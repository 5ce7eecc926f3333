----------------------------- MODULE DeckProofs -----------------------------
(***************************************************************************)
(* Proofs about what runs at the pace of the audio: the instruments of a    *)
(* deck's branch, the clock watch of an output node, the scratching of a    *)
(* deck, and the visualizers' tap on a node, for any windows and ticks, any *)
(* interval and strayings, any track, rates and hand, and any routings and  *)
(* buffers.                                                                *)
(***************************************************************************)
EXTENDS Reports, Scratch, PcmTap, WellFoundedInduction, TLAPS

----------------------------------------------------------------------------
(* The invariant of the instruments. *)

\* So many windows, in ticks.
Ticks(n) == n * Window

\* What is counted was counted since the deck began to play.
CountsPlay ==
    /\ ~deck.playing /\ "playing" \notin deck.flipped =>
         rep.samples = 0 /\ dog.breaches = 0 /\ rep.dry = 0
    /\ rep.skip > 0 => rep.samples = 0 /\ dog.breaches = 0 /\ rep.dry = 0

\* Without a gesture since the window began, its samples and the breaches before it were of
\* undisturbed play.
CountsSteady ==
    /\ deck.playing /\ ~deck.scratching /\ ~rep.scratched =>
         past.steady >= Ticks(dog.breaches) + rep.samples
    /\ deck.scratching /\ "scratching" \notin deck.flipped /\ ~rep.scratched =>
         dog.breaches = 0 /\ rep.samples = 0

\* The windows that the margin must still be off after this one.
ToGo == IF rep.scratched THEN Windows ELSE Windows - (dog.breaches + 1)

\* The ticks to a warning, if the margin stays off.
Remaining == rep.skip + (Window - rep.samples) + Ticks(ToGo)

\* A watchdog that has not fired since the margin was fine will in time.
FiresInTime ==
    ~dog.fired =>
        /\ dog.breaches < Windows
        /\ past.calm /\ "clock" \notin said
        /\ past.off + Remaining <= Long

ClockSaid ==
    "clock" \in said => probe.margin = "off" /\ past.steady >= Ticks(Windows) /\ past.calm

\* The dry ticks were silent ones, and a silence is warned of in time.
CountsSilence ==
    /\ deck.playing /\ ~probe.moved => rep.dry <= past.silent
    /\ ~rep.warned => past.wet /\ past.silent + rep.skip <= Skip + rep.dry /\ rep.dry < DryTicks

DrySaid ==
    "dry" \in said => /\ rep.warned /\ ~probe.moved /\ deck.playing
                      /\ past.silent >= DryTicks /\ past.wet

\* A gap is measured within one play.
FlowsInPlay ==
    /\ ~deck.playing => flow = NoTime
    /\ flow # NoTime => flow <= past.going

InstInv ==
    /\ InstTypeOK /\ CountsPlay /\ CountsSteady /\ FiresInTime /\ ClockSaid
    /\ CountsSilence /\ DrySaid /\ FlowsInPlay

----------------------------------------------------------------------------
(* Windows in ticks. *)

\* The constants' types, and what Long adds up to.
LEMMA Constants ==
    /\ Window \in Nat /\ Windows \in Nat /\ DryTicks \in Nat /\ Skip \in Nat
    /\ 0 < Window /\ 0 < Windows /\ 0 < DryTicks /\ Skip < Window
BY InstrumentsAssumption

\* Windows add up in ticks.
LEMMA TicksAdd ==
    /\ Ticks(0) = 0
    /\ \A n \in Nat : Ticks(n) \in Nat /\ Ticks(n + 1) = Ticks(n) + Window
BY Constants DEF Ticks

\* More windows are more ticks.
LEMMA TicksGrow ==
    ASSUME NEW m \in Nat, NEW n \in Nat, m <= n
    PROVE  Ticks(m) <= Ticks(n)
<1>1. (n - m) * Window \in Nat
    BY Constants
<1>2. n * Window = m * Window + (n - m) * Window
    BY Constants
<1> QED
    BY <1>1, <1>2, Constants DEF Ticks

\* Long is what it takes to be sure of two windows.
LEMMA LongIs ==
    /\ Long \in Nat /\ Long = Ticks(Windows) + Window + Skip
    /\ DryTicks + Skip <= Long /\ 3 <= Long
BY Constants, HistoryAssumption DEF Long, Ticks

\* A capped count.
LEMMA CappedIs ==
    ASSUME NEW n \in Nat, NEW most \in Nat
    PROVE  /\ Capped(n, most) \in 0..most /\ Capped(n, most) <= n
           /\ Capped(n, most) = n \/ Capped(n, most) = most
           /\ \A m \in Nat : m <= n /\ m <= most => m <= Capped(n, most)
BY DEF Capped

\* The fields of the state, by their types.
LEMMA InstFields ==
    ASSUME InstTypeOK
    PROVE  /\ deck.playing \in BOOLEAN /\ deck.scratching \in BOOLEAN
           /\ probe.moved \in BOOLEAN /\ probe.margin \in Margins
           /\ rep.samples \in Nat /\ rep.samples < Window /\ rep.skip \in Nat /\ rep.skip <= Skip
           /\ rep.dry \in Nat /\ rep.dry <= DryTicks /\ rep.warned \in BOOLEAN
           /\ rep.scratched \in BOOLEAN
           /\ dog.breaches \in Nat /\ dog.breaches <= Windows /\ dog.fired \in BOOLEAN
           /\ past.steady \in Nat /\ past.off \in Nat /\ past.silent \in Nat /\ past.going \in Nat
           /\ past.calm \in BOOLEAN /\ past.wet \in BOOLEAN
BY Constants DEF InstTypeOK, PastRec

\* What a warning takes is at most Long.
LEMMA RemainingType ==
    InstTypeOK /\ dog.breaches < Windows =>
        /\ ToGo \in Nat /\ Ticks(ToGo) \in Nat
        /\ Remaining \in Nat /\ 0 < Remaining /\ Remaining <= Long
<1> SUFFICES ASSUME InstTypeOK, dog.breaches < Windows
             PROVE  /\ ToGo \in Nat /\ Ticks(ToGo) \in Nat
                    /\ Remaining \in Nat /\ 0 < Remaining /\ Remaining <= Long
    OBVIOUS
<1>1. ToGo \in Nat /\ ToGo <= Windows
    BY InstFields, Constants DEF ToGo
<1>2. Ticks(ToGo) \in Nat /\ Ticks(Windows) \in Nat /\ Ticks(ToGo) <= Ticks(Windows)
    BY <1>1, TicksAdd, TicksGrow, Constants
<1> QED
    BY <1>1, <1>2, InstFields, LongIs, Constants DEF Remaining

\* The same of the next state.
LEMMA RemainingNext ==
    (InstTypeOK /\ dog.breaches < Windows =>
        /\ ToGo \in Nat /\ Ticks(ToGo) \in Nat
        /\ Remaining \in Nat /\ 0 < Remaining /\ Remaining <= Long)'
BY RemainingType, PTL

----------------------------------------------------------------------------
(* The steps of the instruments. *)

\* The invariant holds at first.
LEMMA InstStarts == InstInit => InstInv
<1> SUFFICES ASSUME InstInit PROVE InstInv
    OBVIOUS
<1>1. InstTypeOK
    BY Constants, LongIs DEF InstInit, InstTypeOK, PastRec, Margins
<1>2. CountsPlay /\ CountsSteady /\ ClockSaid /\ CountsSilence /\ DrySaid /\ FlowsInPlay
    BY Constants DEF InstInit, CountsPlay, CountsSteady, ClockSaid, CountsSilence, DrySaid, FlowsInPlay
<1>3. FiresInTime
    <2>1. dog.breaches < Windows /\ past.calm /\ "clock" \notin said /\ past.off = 0
        BY Constants DEF InstInit
    <2> QED
        BY <2>1, <1>1, RemainingType DEF FiresInTime
<1> QED
    BY <1>1, <1>2, <1>3 DEF InstInv

\* The gate opens or closes.
LEMMA PlayKeeps == InstInv /\ SetPlaying => InstInv'
<1> SUFFICES ASSUME InstInv, SetPlaying PROVE InstInv'
    OBVIOUS
<1> USE DEF InstInv
<1>0. past' \in PastRec /\ past'.steady = 0 /\ past'.off = 0 /\ past'.silent = 0 /\ past'.going = 0
      /\ past'.calm = past.calm /\ past'.wet = TRUE
    <2>1. past \in PastRec /\ 0 \in 0..Long
        BY LongIs DEF InstTypeOK
    <2> QED
        BY <2>1 DEF SetPlaying, PastRec
<1>1. /\ deck' \in [playing : BOOLEAN, scratching : BOOLEAN, flipped : SUBSET {"playing", "scratching"}]
      /\ deck'.playing = ~deck.playing /\ deck'.scratching = deck.scratching
      /\ deck'.flipped = deck.flipped \cup {"playing"} /\ "playing" \notin deck.flipped
    BY DEF SetPlaying, InstTypeOK
<1>2. rep' = rep /\ dog' = dog /\ probe' = probe /\ flow' = NoTime /\ said' = {}
    BY DEF SetPlaying
<1>3. InstTypeOK'
    BY <1>0, <1>1, <1>2 DEF InstTypeOK
<1>4. CountsPlay'
    BY <1>1, <1>2 DEF CountsPlay
<1>5. CountsSteady'
    BY <1>0, <1>1, <1>2, InstFields, TicksAdd DEF CountsPlay, CountsSteady
<1>6. FiresInTime'
    <2>1. ~dog'.fired => Remaining' = Remaining /\ Remaining \in Nat /\ Remaining <= Long
        BY <1>2, RemainingType DEF FiresInTime, Remaining, ToGo
    <2> QED
        BY <2>1, <1>0, <1>2 DEF FiresInTime
<1>7. ClockSaid' /\ DrySaid' /\ FlowsInPlay'
    BY <1>2 DEF ClockSaid, DrySaid, FlowsInPlay
<1>8. CountsSilence'
    BY <1>0, <1>1, <1>2, InstFields, Constants DEF CountsSilence, CountsPlay
<1> QED
    BY <1>3, <1>4, <1>5, <1>6, <1>7, <1>8

\* A gesture begins or ends.
LEMMA ScratchKeeps == InstInv /\ SetScratching => InstInv'
<1> SUFFICES ASSUME InstInv, SetScratching PROVE InstInv'
    OBVIOUS
<1> USE DEF InstInv
<1>0. past' \in PastRec /\ past'.steady = 0 /\ past'.off = 0 /\ past'.silent = past.silent
      /\ past'.going = past.going /\ past'.calm = past.calm /\ past'.wet = past.wet
    <2>1. past \in PastRec /\ 0 \in 0..Long
        BY LongIs DEF InstTypeOK
    <2> QED
        BY <2>1 DEF SetScratching, PastRec
<1>1. /\ deck' \in [playing : BOOLEAN, scratching : BOOLEAN, flipped : SUBSET {"playing", "scratching"}]
      /\ deck'.playing = deck.playing /\ deck'.scratching = ~deck.scratching
      /\ deck'.flipped = deck.flipped \cup {"scratching"} /\ "scratching" \notin deck.flipped
    BY DEF SetScratching, InstTypeOK
<1>2. rep' = rep /\ dog' = dog /\ probe' = probe /\ flow' = flow /\ said' = {}
    BY DEF SetScratching
<1>3. InstTypeOK'
    BY <1>0, <1>1, <1>2 DEF InstTypeOK
<1>4. CountsPlay'
    BY <1>1, <1>2 DEF CountsPlay
<1>5. CountsSteady'
    BY <1>0, <1>1, <1>2, InstFields, TicksAdd DEF CountsSteady
<1>6. FiresInTime'
    <2>1. ~dog'.fired => Remaining' = Remaining /\ Remaining \in Nat /\ Remaining <= Long
        BY <1>2, RemainingType DEF FiresInTime, Remaining, ToGo
    <2> QED
        BY <2>1, <1>0, <1>2 DEF FiresInTime
<1>7. ClockSaid' /\ DrySaid' /\ FlowsInPlay'
    BY <1>0, <1>1, <1>2 DEF ClockSaid, DrySaid, FlowsInPlay
<1>8. CountsSilence'
    BY <1>0, <1>1, <1>2, InstFields, Constants DEF CountsSilence
<1> QED
    BY <1>3, <1>4, <1>5, <1>6, <1>7, <1>8

\* A buffer arrives.
LEMMA BufferKeeps ==
    ASSUME NEW m \in Margins
    PROVE  InstInv /\ Buffer(m) => InstInv'
<1> SUFFICES ASSUME InstInv, Buffer(m) PROVE InstInv'
    OBVIOUS
<1> USE DEF InstInv
<1>0. past' \in PastRec /\ past'.steady = past.steady /\ past'.off = past.off /\ past'.silent = 0
      /\ past'.going = past.going /\ past'.calm = past.calm /\ past'.wet = TRUE
    <2>1. past \in PastRec /\ 0 \in 0..Long
        BY LongIs DEF InstTypeOK
    <2> QED
        BY <2>1 DEF Buffer, PastRec
<1>1. rep' = rep /\ dog' = dog /\ deck' = deck /\ probe' = [moved |-> TRUE, margin |-> m]
    BY DEF Buffer
<1>2. said' \subseteq {"gap"} /\ flow' \in {0, NoTime} /\ (~deck.playing => flow' = NoTime)
    BY DEF Buffer
<1>3. InstTypeOK'
    BY <1>0, <1>1, <1>2 DEF InstTypeOK
<1>4. CountsPlay'
    BY <1>1 DEF CountsPlay
<1>5. CountsSteady'
    BY <1>0, <1>1 DEF CountsSteady
<1>6. FiresInTime'
    <2>1. ~dog'.fired => Remaining' = Remaining
        BY <1>1 DEF FiresInTime, Remaining, ToGo
    <2> QED
        BY <2>1, <1>0, <1>1, <1>2 DEF FiresInTime
<1>7. ClockSaid' /\ DrySaid'
    BY <1>2 DEF ClockSaid, DrySaid
<1>8. FlowsInPlay'
    BY <1>0, <1>1, <1>2, InstFields DEF FlowsInPlay
<1>9. CountsSilence'
    BY <1>0, <1>1, InstFields, Constants DEF CountsSilence
<1> QED
    BY <1>3, <1>4, <1>5, <1>6, <1>7, <1>8, <1>9

\* The history of a tick.
LEMMA PassedIs ==
    ASSUME InstTypeOK, Tick
    PROVE  /\ past' \in PastRec
           /\ IF deck.playing /\ ~deck.scratching
              THEN past'.steady = Capped(past.steady + 1, Long) ELSE past'.steady = 0
           /\ IF deck.playing /\ ~deck.scratching /\ probe.margin = "off"
              THEN past'.off = Capped(past.off + 1, Long) ELSE past'.off = 0
           /\ IF deck.playing /\ ~probe.moved
              THEN past'.silent = Capped(past.silent + 1, Long) ELSE past'.silent = 0
           /\ IF deck.playing
              THEN past'.going = Capped(past.going + 1, Long) ELSE past'.going = 0
           /\ past'.calm = ("clock" \notin said /\ (past.calm \/ probe.margin = "fine"))
           /\ past'.wet = ("dry" \notin said /\ (past.wet \/ probe.moved \/ ~deck.playing))
<1>1. past' = Passed
    BY DEF Tick
<1>2. 0 \in 0..Long /\ \A n \in Nat : Capped(n + 1, Long) \in 0..Long
    BY LongIs, CappedIs
<1>3. Passed \in PastRec
    BY <1>2, InstFields DEF Passed, PastRec
<1> QED
    BY <1>1, <1>3 DEF Passed

\* The rest of a tick.
LEMMA TickIs ==
    ASSUME InstTypeOK, Tick
    PROVE  /\ probe' \in [moved : BOOLEAN, margin : Margins]
           /\ probe'.moved = FALSE /\ probe'.margin = probe.margin
           /\ flow' \in 0..3 \cup {NoTime}
           /\ flow = NoTime => flow' = NoTime
           /\ flow # NoTime => flow' = Capped(flow + 1, 3)
           /\ deck' \in [playing : BOOLEAN, scratching : BOOLEAN,
                         flipped : SUBSET {"playing", "scratching"}]
           /\ deck'.playing = deck.playing /\ deck'.scratching = deck.scratching
           /\ deck'.flipped = {}
<1>1. probe' = [probe EXCEPT !.moved = FALSE] /\ deck' = [deck EXCEPT !.flipped = {}]
      /\ flow' = IF flow = NoTime THEN NoTime ELSE Capped(flow + 1, 3)
    BY DEF Tick
<1>2. flow # NoTime => flow \in Nat /\ Capped(flow + 1, 3) \in 0..3
    <2>1. flow # NoTime => flow \in 0..3
        BY DEF InstTypeOK
    <2> QED
        BY <2>1 DEF Capped
<1> QED
    BY <1>1, <1>2 DEF InstTypeOK

\* A gap is measured within one play, a tick later too.
LEMMA TickFlows == InstInv /\ Tick => FlowsInPlay'
<1> SUFFICES ASSUME InstInv, Tick PROVE FlowsInPlay'
    OBVIOUS
<1> USE DEF InstInv
<1>1. CASE flow = NoTime
    BY <1>1, TickIs DEF FlowsInPlay
<1>2. CASE flow # NoTime
    <2>1. deck.playing /\ flow \in Nat /\ flow <= past.going /\ past.going \in Nat
        BY <1>2, InstFields DEF FlowsInPlay, InstTypeOK
    <2>2. past'.going = Capped(past.going + 1, Long) /\ flow' = Capped(flow + 1, 3)
        BY <2>1, <1>2, PassedIs, TickIs
    <2>3. flow' <= past'.going
        BY <2>1, <2>2, LongIs DEF Capped
    <2> QED
        BY <2>1, <2>3, TickIs DEF FlowsInPlay
<1> QED
    BY <1>1, <1>2

\* A tick of a paused deck.
LEMMA PausedKeeps == InstInv /\ Tick /\ PausedTick => InstInv'
<1> SUFFICES ASSUME InstInv, Tick, PausedTick PROVE InstInv'
    OBVIOUS
<1> USE DEF InstInv
<1>1. /\ rep' \in [samples : 0..Window - 1, skip : 0..Skip, dry : 0..DryTicks, warned : BOOLEAN,
                   scratched : BOOLEAN]
      /\ rep'.samples = 0 /\ rep'.skip = Skip /\ rep'.dry = 0 /\ rep'.warned = FALSE
      /\ rep'.scratched = FALSE
    BY Constants DEF PausedTick
<1>2. /\ dog' \in [breaches : 0..Windows, fired : BOOLEAN]
      /\ dog'.breaches = 0 /\ dog'.fired = dog.fired
    BY Constants DEF PausedTick, Observed, InstTypeOK
<1>3. ~deck.playing /\ said' = {}
    BY DEF PausedTick
<1>4. InstTypeOK'
    BY <1>1, <1>2, <1>3, PassedIs, TickIs DEF InstTypeOK
<1>5. CountsPlay' /\ CountsSteady' /\ ClockSaid' /\ DrySaid'
    BY <1>1, <1>2, <1>3, PassedIs, TickIs DEF CountsPlay, CountsSteady, ClockSaid, DrySaid
<1>6. past'.off = 0 /\ past'.silent = 0
    BY <1>3, PassedIs
<1>7. FiresInTime'
    <2>1. SUFFICES ASSUME ~dog'.fired PROVE FiresInTime'
        BY DEF FiresInTime
    <2>2. dog'.breaches < Windows
        BY <1>2, Constants
    <2>3. Remaining' \in Nat /\ Remaining' <= Long
        BY <2>2, <1>4, RemainingNext
    <2>4. past'.calm
        BY <2>1, <1>2, PassedIs DEF FiresInTime
    <2> QED
        BY <2>2, <2>3, <2>4, <1>3, <1>6 DEF FiresInTime
<1>8. CountsSilence'
    <2>1. "dry" \notin said
        BY <1>3 DEF DrySaid
    <2>2. past'.wet
        BY <2>1, <1>3, PassedIs
    <2> QED
        BY <2>2, <1>1, <1>3, <1>6, TickIs, Constants DEF CountsSilence
<1> QED
    BY <1>4, <1>5, <1>7, <1>8, TickFlows

\* A tick that only looks where the counters stand.
LEMMA SkippedKeeps == InstInv /\ Tick /\ SkippedTick => InstInv'
<1> SUFFICES ASSUME InstInv, Tick, SkippedTick PROVE InstInv'
    OBVIOUS
<1> USE DEF InstInv
<1>1. /\ rep' \in [samples : 0..Window - 1, skip : 0..Skip, dry : 0..DryTicks, warned : BOOLEAN,
                   scratched : BOOLEAN]
      /\ rep'.samples = rep.samples /\ rep'.skip = rep.skip - 1 /\ rep'.dry = rep.dry
      /\ rep'.warned = rep.warned /\ rep'.scratched = Scratched
    <2> DEFINE sc == Scratched
    <2>1. sc \in BOOLEAN /\ rep.skip - 1 \in 0..Skip
        BY InstFields, Constants DEF Scratched, SkippedTick
    <2>2. rep' = [rep EXCEPT !.skip = rep.skip - 1, !.scratched = sc]
        BY DEF SkippedTick
    <2>3. Scratched = sc
        OBVIOUS
    <2> HIDE DEF sc
    <2> QED
        BY <2>1, <2>2, <2>3 DEF InstTypeOK
<1>2. deck.playing /\ rep.skip > 0 /\ said' = {} /\ dog' = dog
    BY DEF SkippedTick
<1>3. rep.samples = 0 /\ dog.breaches = 0 /\ rep.dry = 0
    BY <1>2 DEF CountsPlay
<1>4. InstTypeOK'
    BY <1>1, <1>2, PassedIs, TickIs DEF InstTypeOK
<1>5. CountsPlay' /\ ClockSaid' /\ DrySaid'
    BY <1>1, <1>2, <1>3, PassedIs, TickIs DEF CountsPlay, ClockSaid, DrySaid
<1>6. CountsSteady'
    BY <1>1, <1>2, <1>3, <1>4, InstFields, TicksAdd, PassedIs, TickIs
       DEF CountsSteady, Scratched, InstTypeOK, PastRec
<1>7. FiresInTime'
    <2>1. SUFFICES ASSUME ~dog'.fired PROVE FiresInTime'
        BY DEF FiresInTime
    <2>2. dog.breaches < Windows /\ dog'.breaches < Windows /\ past'.calm
        BY <2>1, <1>2, PassedIs DEF FiresInTime
    <2>3. Remaining' \in Nat /\ Remaining' <= Long
        BY <2>2, <1>4, RemainingNext
    <2>4. past'.off + Remaining' <= Long
        <3>1. CASE past'.off = 0
            BY <3>1, <2>3
        <3>2. CASE past'.off # 0
            <4>1. ~deck.scratching /\ past'.off = Capped(past.off + 1, Long)
                BY <3>2, PassedIs
            <4>2. past'.off <= past.off + 1 /\ past'.off \in Nat
                BY <4>1, LongIs, InstFields DEF Capped
            <4>3. rep'.scratched = rep.scratched
                BY <4>1, <1>1, InstFields DEF Scratched
            <4>4. ToGo' = ToGo
                BY <4>3, <1>2 DEF ToGo
            <4>5. Remaining' = Remaining - 1
                BY <4>4, <1>1, <2>2, RemainingType, InstFields, Constants DEF Remaining
            <4> QED
                BY <4>2, <4>5, <2>1, <1>2, <2>2, RemainingType, InstFields, LongIs DEF FiresInTime
        <3> QED
            BY <3>1, <3>2
    <2> QED
        BY <2>2, <2>4, <1>2 DEF FiresInTime
<1>8. CountsSilence'
    <2>1. ~rep'.warned => "dry" \notin said
        BY <1>1 DEF DrySaid
    <2>2. ~rep'.warned => past'.wet
        BY <2>1, <1>1, PassedIs DEF CountsSilence
    <2>3. past'.silent \in Nat /\ past'.silent <= past.silent + 1
        BY PassedIs, LongIs, InstFields DEF Capped
    <2> QED
        BY <2>2, <2>3, <1>1, <1>2, <1>3, InstFields, Constants DEF CountsSilence
<1> QED
    BY <1>4, <1>5, <1>6, <1>7, <1>8, TickFlows

\* The dry seconds and their warning, at a sample.
LEMMA DryIs ==
    ASSUME InstTypeOK
    PROVE  /\ Dry(rep) \in [samples : 0..Window - 1, skip : 0..Skip, dry : 0..DryTicks,
                            warned : BOOLEAN, scratched : BOOLEAN]
           /\ Dry(rep).samples = rep.samples /\ Dry(rep).skip = rep.skip
           /\ Dry(rep).scratched = rep.scratched
           /\ probe.moved => Dry(rep).dry = 0 /\ Dry(rep).warned = FALSE
           /\ ~probe.moved => /\ Dry(rep).dry = Capped(rep.dry + 1, DryTicks)
                              /\ Dry(rep).warned = (rep.warned \/ rep.dry + 1 >= DryTicks)
<1>1. CASE probe.moved
    <2>1. Dry(rep) = [rep EXCEPT !.dry = 0, !.warned = FALSE]
        BY <1>1 DEF Dry
    <2>2. 0 \in 0..DryTicks
        BY Constants
    <2> HIDE DEF Dry
    <2> QED
        BY <1>1, <2>1, <2>2 DEF InstTypeOK
<1>2. CASE ~probe.moved
    <2>1. rep.dry + 1 \in Nat /\ Capped(rep.dry + 1, DryTicks) \in 0..DryTicks
        BY InstFields, Constants DEF Capped
    <2>2. Dry(rep) = [rep EXCEPT !.dry = Capped(rep.dry + 1, DryTicks),
                                 !.warned = rep.warned \/ rep.dry + 1 >= DryTicks]
        BY <1>2 DEF Dry
    <2> HIDE DEF Dry
    <2> QED
        BY <1>2, <2>1, <2>2 DEF InstTypeOK
<1> QED
    BY <1>1, <1>2

\* What a sample does to the dry seconds, whatever it does to the window.
LEMMA SampleSilence ==
    ASSUME InstInv, Tick, deck.playing, rep.skip = 0,
           rep'.dry = Dry(rep).dry, rep'.warned = Dry(rep).warned, rep'.skip = rep.skip,
           "dry" \in said' => Dry(rep).warned /\ ~rep.warned
    PROVE  CountsSilence' /\ DrySaid'
<1> USE DEF InstInv
<1>1. past'.silent \in Nat
    BY PassedIs, LongIs DEF PastRec
<1>2. CASE probe.moved
    <2>1. rep'.dry = 0 /\ rep'.warned = FALSE /\ "dry" \notin said'
        BY <1>2, DryIs
    <2>2. past'.silent = 0 /\ past'.wet
        BY <1>2, PassedIs DEF DrySaid
    <2> QED
        BY <2>1, <2>2, Constants DEF CountsSilence, DrySaid
<1>3. CASE ~probe.moved
    <2>1. rep.dry <= past.silent
        BY <1>3 DEF CountsSilence
    <2>2. past'.silent = Capped(past.silent + 1, Long) /\ rep'.dry = Capped(rep.dry + 1, DryTicks)
          /\ rep'.warned = (rep.warned \/ rep.dry + 1 >= DryTicks)
        BY <1>3, PassedIs, DryIs
    <2>3. rep'.dry <= past'.silent /\ past'.silent <= past.silent + 1
        BY <2>1, <2>2, LongIs, InstFields, Constants DEF Capped
    <2>4. ~rep.warned => past'.wet /\ "dry" \notin said
        BY PassedIs DEF CountsSilence, DrySaid
    <2>5. ~rep'.warned => ~rep.warned /\ rep'.dry = rep.dry + 1 /\ rep'.dry < DryTicks
        <3>1. ASSUME ~rep'.warned PROVE ~rep.warned /\ rep.dry + 1 < DryTicks
            <4>1. ~rep.warned /\ ~(rep.dry + 1 >= DryTicks)
                BY <3>1, <2>2, Zenon
            <4> QED
                BY <4>1, InstFields, Constants
        <3> QED
            BY <3>1, <2>2, InstFields, Constants DEF Capped
    <2>6. CountsSilence'
        BY <2>3, <2>4, <2>5, <1>1, InstFields, Constants DEF CountsSilence
    <2>7. ASSUME "dry" \in said' PROVE rep'.warned /\ past'.silent >= DryTicks /\ past'.wet
        <3>1. ~rep.warned /\ rep'.warned
            BY <2>7
        <3>2. rep'.dry = DryTicks
            BY <3>1, <2>2, InstFields, Constants DEF Capped
        <3> QED
            BY <3>1, <3>2, <2>3, <2>4, <1>1, Constants
    <2> QED
        BY <2>6, <2>7, TickIs DEF DrySaid
<1> QED
    BY <1>2, <1>3

\* A sample within a window.
LEMMA RatedKeeps ==
    InstInv /\ Tick /\ SampledTick /\ rep.samples + 1 < Window => InstInv'
<1> SUFFICES ASSUME InstInv, Tick, SampledTick, rep.samples + 1 < Window PROVE InstInv'
    OBVIOUS
<1> USE DEF InstInv
<1>1. deck.playing /\ rep.skip = 0 /\ dog' = dog
    BY DEF SampledTick
<1>2. /\ rep' = [Dry(rep) EXCEPT !.samples = @ + 1, !.scratched = Scratched]
      /\ said' = IF Dry(rep).warned /\ ~rep.warned THEN {"dry"} ELSE {}
    BY DEF SampledTick
<1>3. /\ rep' \in [samples : 0..Window - 1, skip : 0..Skip, dry : 0..DryTicks, warned : BOOLEAN,
                   scratched : BOOLEAN]
      /\ rep'.samples = rep.samples + 1 /\ rep'.skip = rep.skip /\ rep'.dry = Dry(rep).dry
      /\ rep'.warned = Dry(rep).warned /\ rep'.scratched = Scratched
    <2> DEFINE sc == Scratched
               r == Dry(rep)
    <2>1. sc \in BOOLEAN /\ rep.samples + 1 \in 0..Window - 1
        BY InstFields, Constants DEF Scratched
    <2>2. r \in [samples : 0..Window - 1, skip : 0..Skip, dry : 0..DryTicks, warned : BOOLEAN,
                 scratched : BOOLEAN] /\ r.samples = rep.samples /\ r.skip = rep.skip
        BY DryIs
    <2>3. rep' = [r EXCEPT !.samples = r.samples + 1, !.scratched = sc]
        BY <1>2
    <2>4. Scratched = sc /\ Dry(rep) = r
        OBVIOUS
    <2> HIDE DEF sc, r
    <2> QED
        BY <2>1, <2>2, <2>3, <2>4
<1>4. InstTypeOK'
    BY <1>1, <1>2, <1>3, PassedIs, TickIs DEF InstTypeOK
<1>5. CountsSilence' /\ DrySaid'
    BY <1>1, <1>2, <1>3, SampleSilence
<1>6. CountsPlay' /\ ClockSaid'
    <2>1. CountsPlay'
        <3>1. deck'.playing /\ rep'.skip = 0
            BY <1>1, <1>3, TickIs
        <3> QED
            BY <3>1 DEF CountsPlay
    <2>2. "clock" \notin said'
        BY <1>2
    <2> QED
        BY <2>1, <2>2 DEF ClockSaid
<1>7. CountsSteady'
    <2>1. deck'.scratching => rep'.scratched
        BY <1>3, TickIs DEF Scratched
    <2>2. ASSUME ~deck'.scratching, ~rep'.scratched
          PROVE past'.steady >= Ticks(dog'.breaches) + rep'.samples
        <3>1. ~deck.scratching /\ ~rep.scratched
            BY <2>2, <1>3, TickIs DEF Scratched
        <3>2. past.steady >= Ticks(dog.breaches) + rep.samples
            BY <3>1, <1>1 DEF CountsSteady
        <3>3. past'.steady = Capped(past.steady + 1, Long)
            BY <3>1, <1>1, PassedIs
        <3>4. Ticks(dog.breaches) \in Nat /\ Ticks(Windows) \in Nat
              /\ Ticks(dog.breaches) <= Ticks(Windows)
            BY InstFields, Constants, TicksAdd, TicksGrow
        <3> QED
            BY <3>2, <3>3, <3>4, <1>1, <1>3, InstFields, LongIs, Constants DEF Capped
    <2> QED
        BY <2>1, <2>2 DEF CountsSteady
<1>8. FiresInTime'
    <2>1. SUFFICES ASSUME ~dog'.fired PROVE FiresInTime'
        BY DEF FiresInTime
    <2>2. dog.breaches < Windows /\ dog'.breaches < Windows /\ past'.calm /\ "clock" \notin said'
        BY <2>1, <1>1, <1>2, PassedIs DEF FiresInTime
    <2>3. Remaining' \in Nat /\ Remaining' <= Long
        BY <2>2, <1>4, RemainingNext
    <2>4. past'.off + Remaining' <= Long
        <3>1. CASE past'.off = 0
            BY <3>1, <2>3
        <3>2. CASE past'.off # 0
            <4>1. ~deck.scratching /\ past'.off = Capped(past.off + 1, Long)
                BY <3>2, PassedIs
            <4>2. past'.off <= past.off + 1 /\ past'.off \in Nat
                BY <4>1, LongIs, InstFields DEF Capped
            <4>3. rep'.scratched = rep.scratched
                BY <4>1, <1>3, InstFields DEF Scratched
            <4>4. ToGo' = ToGo
                BY <4>3, <1>1 DEF ToGo
            <4>5. Remaining' = Remaining - 1
                BY <4>4, <1>3, <2>2, RemainingType, InstFields, Constants DEF Remaining
            <4> QED
                BY <4>2, <4>5, <2>1, <1>1, <2>2, RemainingType, InstFields, LongIs DEF FiresInTime
        <3> QED
            BY <3>1, <3>2
    <2> QED
        BY <2>2, <2>4 DEF FiresInTime
<1> QED
    BY <1>4, <1>5, <1>6, <1>7, <1>8, TickFlows

\* What the watchdog makes of a window that was played.
LEMMA ObservedIs ==
    ASSUME InstTypeOK, NEW s \in BOOLEAN
    PROVE  /\ Observed(TRUE, s) \in [breaches : 0..Windows, fired : BOOLEAN]
           /\ s => Observed(TRUE, s).breaches = 0 /\ (Observed(TRUE, s).fired <=> dog.fired)
           /\ ~s /\ probe.margin = "off" =>
                /\ Observed(TRUE, s).breaches = Capped(dog.breaches + 1, Windows)
                /\ Observed(TRUE, s).fired <=> (dog.fired \/ dog.breaches + 1 >= Windows)
           /\ probe.margin # "off" =>
                /\ Observed(TRUE, s).breaches = 0
                /\ Observed(TRUE, s).fired => dog.fired
                /\ dog.fired /\ ~Observed(TRUE, s).fired => probe.margin = "fine"
<1> DEFINE o == Observed(TRUE, s)
           D == [breaches : 0..Windows, fired : BOOLEAN]
<1>0. dog \in D /\ 0 \in 0..Windows
    BY Constants DEF InstTypeOK
<1>1. CASE s \/ probe.margin = "none"
    <2>1. o = [dog EXCEPT !.breaches = 0]
        BY <1>1 DEF Observed
    <2> HIDE DEF o
    <2>2. o \in D /\ o.breaches = 0 /\ o.fired = dog.fired
        BY <1>0, <2>1
    <2> QED
        BY <1>1, <2>2 DEF o
<1>2. CASE ~s /\ probe.margin = "off"
    <2> DEFINE b == Capped(dog.breaches + 1, Windows)
               f == dog.fired \/ dog.breaches + 1 >= Windows
    <2>1. b \in 0..Windows
        BY InstFields, Constants DEF Capped
    <2>2. f \in BOOLEAN
        OBVIOUS
    <2>3. o = [breaches |-> b, fired |-> f]
        BY <1>2 DEF Observed
    <2> HIDE DEF o, b, f
    <2>4. o \in D /\ o.breaches = b /\ (o.fired <=> f)
        BY <2>1, <2>2, <2>3
    <2> QED
        BY <1>2, <2>4, Zenon DEF o, b, f
<1>3. CASE ~s /\ probe.margin \notin {"none", "off"}
    <2> DEFINE f == dog.fired /\ probe.margin # "fine"
    <2>1. o = [breaches |-> 0, fired |-> f]
        BY <1>3 DEF Observed
    <2>2. f \in BOOLEAN
        OBVIOUS
    <2> HIDE DEF o, f
    <2>3. o \in D /\ o.breaches = 0 /\ (o.fired <=> f)
        BY <1>0, <2>1, <2>2
    <2> QED
        BY <1>3, <2>3, Zenon DEF o, f
<1> QED
    BY <1>1, <1>2, <1>3

\* The last sample of a window.
LEMMA VerdictKeeps ==
    InstInv /\ Tick /\ SampledTick /\ ~(rep.samples + 1 < Window) => InstInv'
<1> SUFFICES ASSUME InstInv, Tick, SampledTick, ~(rep.samples + 1 < Window) PROVE InstInv'
    OBVIOUS
<1> USE DEF InstInv
<1>0. rep.samples + 1 = Window /\ Scratched \in BOOLEAN
    BY InstFields, Constants DEF Scratched
<1>1. deck.playing /\ rep.skip = 0 /\ dog' = Observed(TRUE, Scratched)
    BY DEF SampledTick
<1>2. /\ rep' = [Dry(rep) EXCEPT !.samples = 0, !.scratched = FALSE]
      /\ said' = (IF Dry(rep).warned /\ ~rep.warned THEN {"dry"} ELSE {})
                   \cup IF dog'.fired /\ ~dog.fired THEN {"clock"} ELSE {}
    BY DEF SampledTick
<1>3. /\ rep' \in [samples : 0..Window - 1, skip : 0..Skip, dry : 0..DryTicks, warned : BOOLEAN,
                   scratched : BOOLEAN]
      /\ rep'.samples = 0 /\ rep'.skip = rep.skip /\ rep'.dry = Dry(rep).dry
      /\ rep'.warned = Dry(rep).warned /\ rep'.scratched = FALSE
    <2> DEFINE r == Dry(rep)
    <2>1. 0 \in 0..Window - 1
        BY Constants
    <2>2. r \in [samples : 0..Window - 1, skip : 0..Skip, dry : 0..DryTicks, warned : BOOLEAN,
                 scratched : BOOLEAN] /\ r.skip = rep.skip
        BY DryIs
    <2>3. rep' = [r EXCEPT !.samples = 0, !.scratched = FALSE]
        BY <1>2
    <2>4. Dry(rep) = r
        OBVIOUS
    <2> HIDE DEF r
    <2> QED
        BY <2>1, <2>2, <2>3, <2>4
<1>4. /\ dog' \in [breaches : 0..Windows, fired : BOOLEAN]
      /\ Scratched => dog'.breaches = 0 /\ (dog'.fired <=> dog.fired)
      /\ ~Scratched /\ probe.margin = "off" =>
           /\ dog'.breaches = Capped(dog.breaches + 1, Windows)
           /\ dog'.fired <=> (dog.fired \/ dog.breaches + 1 >= Windows)
      /\ probe.margin # "off" =>
           /\ dog'.breaches = 0
           /\ dog'.fired => dog.fired
           /\ dog.fired /\ ~dog'.fired => probe.margin = "fine"
    BY <1>0, <1>1, ObservedIs
<1>5. ("clock" \in said' <=> dog'.fired /\ ~dog.fired)
      /\ ("dry" \in said' => Dry(rep).warned /\ ~rep.warned) /\ said' \subseteq {"clock", "dry", "gap"}
    BY <1>2
<1>6. InstTypeOK'
    BY <1>3, <1>4, <1>5, PassedIs, TickIs DEF InstTypeOK
<1>7. CountsSilence' /\ DrySaid'
    BY <1>1, <1>3, <1>5, SampleSilence
<1>8. CountsPlay'
    <2>1. deck'.playing /\ rep'.skip = 0
        BY <1>1, <1>3, TickIs
    <2> QED
        BY <2>1 DEF CountsPlay
\* Undisturbed, the window adds to what was steady.
<1>9. ~Scratched => past'.steady >= Ticks(dog.breaches + 1)
    <2>1. SUFFICES ASSUME ~Scratched PROVE past'.steady >= Ticks(dog.breaches + 1)
        OBVIOUS
    <2>2. past.steady >= Ticks(dog.breaches) + rep.samples
        BY <2>1, <1>1 DEF CountsSteady, Scratched
    <2>3. past'.steady = Capped(past.steady + 1, Long)
        BY <2>1, <1>1, PassedIs DEF Scratched
    <2>4. /\ Ticks(dog.breaches) \in Nat /\ Ticks(Windows) \in Nat
          /\ Ticks(dog.breaches) <= Ticks(Windows)
          /\ Ticks(dog.breaches + 1) = Ticks(dog.breaches) + Window
        BY InstFields, Constants, TicksAdd, TicksGrow
    <2> QED
        BY <2>2, <2>3, <2>4, <1>0, InstFields, LongIs, Constants DEF Capped
<1>10. CountsSteady'
    <2>1. CASE Scratched \/ probe.margin # "off"
        <3>1. dog'.breaches = 0 /\ rep'.samples = 0 /\ past'.steady \in Nat
            BY <2>1, <1>3, <1>4, PassedIs DEF PastRec
        <3> QED
            BY <3>1, TicksAdd DEF CountsSteady
    <2>2. CASE ~Scratched /\ probe.margin = "off"
        <3>1. dog'.breaches \in Nat /\ dog'.breaches <= dog.breaches + 1
            BY <2>2, <1>4, InstFields, Constants DEF Capped
        <3>2. Ticks(dog'.breaches) \in Nat /\ Ticks(dog.breaches + 1) \in Nat
              /\ Ticks(dog'.breaches) <= Ticks(dog.breaches + 1)
            <4>1. dog.breaches + 1 \in Nat
                BY InstFields
            <4> QED
                BY <3>1, <4>1, TicksAdd, TicksGrow
        <3>3. past'.steady >= Ticks(dog'.breaches) + rep'.samples
            BY <3>2, <2>2, <1>3, <1>9, PassedIs DEF PastRec
        <3>4. ~deck'.scratching
            BY <2>2, TickIs DEF Scratched
        <3> QED
            BY <3>3, <3>4 DEF CountsSteady
    <2> QED
        BY <2>1, <2>2
<1>11. ClockSaid'
    <2>1. SUFFICES ASSUME "clock" \in said'
                   PROVE probe'.margin = "off" /\ past'.steady >= Ticks(Windows) /\ past'.calm
        BY DEF ClockSaid
    <2>2. ~dog.fired /\ dog'.fired
        BY <2>1, <1>5
    <2>3. ~Scratched /\ probe.margin = "off" /\ dog.breaches + 1 >= Windows
        BY <2>2, <1>4, Zenon
    <2>4. Ticks(dog.breaches + 1) >= Ticks(Windows)
        BY <2>3, InstFields, Constants, TicksGrow
    <2>5. Ticks(dog.breaches + 1) \in Nat /\ Ticks(Windows) \in Nat /\ past'.steady \in Nat
        <3>1. dog.breaches + 1 \in Nat /\ past' \in PastRec
            BY InstFields, PassedIs
        <3> QED
            BY <3>1, Constants, LongIs, TicksAdd DEF PastRec
    <2>6. past'.calm
        BY <2>2, PassedIs DEF FiresInTime
    <2> QED
        BY <2>3, <2>4, <2>5, <2>6, <1>9, TickIs
<1>12. FiresInTime'
    <2>1. SUFFICES ASSUME ~dog'.fired PROVE FiresInTime'
        BY DEF FiresInTime
    <2>2. "clock" \notin said'
        BY <2>1, <1>5
    <2>3. dog'.breaches < Windows
        <3>1. CASE Scratched \/ probe.margin # "off"
            BY <3>1, <1>4, Constants
        <3>2. CASE ~Scratched /\ probe.margin = "off"
            <4>1. ~(dog.breaches + 1 >= Windows)
                BY <3>2, <2>1, <1>4, Zenon
            <4> QED
                BY <4>1, <3>2, <1>4, InstFields, Constants DEF Capped
        <3> QED
            BY <3>1, <3>2
    <2>4. past'.calm
        <3>1. CASE ~dog.fired
            BY <3>1, PassedIs DEF FiresInTime
        <3>2. CASE dog.fired
            <4>1. probe.margin = "fine"
                BY <3>2, <2>1, <1>4, Zenon
            <4> QED
                BY <4>1, PassedIs DEF ClockSaid
        <3> QED
            BY <3>1, <3>2
    <2>5. Remaining' \in Nat /\ Remaining' <= Long
        BY <2>3, <1>6, RemainingNext
    <2>6. past'.off + Remaining' <= Long
        <3>1. CASE past'.off = 0
            BY <3>1, <2>5
        <3>2. CASE past'.off # 0
            <4>1. ~deck.scratching /\ probe.margin = "off" /\ past'.off = Capped(past.off + 1, Long)
                BY <3>2, PassedIs
            <4>2. past'.off <= past.off + 1 /\ past'.off \in Nat
                BY <4>1, LongIs, InstFields DEF Capped
            <4>3. ~dog.fired
                BY <4>1, <2>1, <1>4
            <4>4. dog.breaches < Windows /\ past.off + Remaining <= Long /\ Remaining \in Nat
                BY <4>3, RemainingType DEF FiresInTime
            <4>5. Remaining = 1 + Ticks(ToGo)
                BY <1>0, <1>1, InstFields, Constants, <4>4, RemainingType DEF Remaining
            <4>6. Remaining' = Window + Ticks(ToGo')
                BY <1>1, <1>3, Constants, <2>3, <1>6, RemainingNext DEF Remaining, Ticks
            <4>7. ToGo' = Windows - (dog'.breaches + 1) /\ ToGo' \in Nat
                BY <1>3, <2>3, <1>6, RemainingNext DEF ToGo
            <4>8. ToGo = ToGo' + 1
                <5>1. CASE rep.scratched
                    BY <5>1, <4>7, <1>4, Constants DEF Scratched, ToGo
                <5>2. CASE ~rep.scratched
                    <6>1. ~Scratched
                        BY <5>2, <4>1 DEF Scratched
                    <6>2. dog'.breaches = dog.breaches + 1
                        BY <6>1, <4>1, <4>4, <1>4, InstFields, Constants DEF Capped
                    <6> QED
                        BY <6>2, <5>2, <4>7, InstFields, Constants DEF ToGo
                <5> QED
                    BY <5>1, <5>2
            <4>9. Ticks(ToGo) = Ticks(ToGo') + Window /\ Ticks(ToGo') \in Nat
                BY <4>7, <4>8, TicksAdd
            <4> QED
                BY <4>2, <4>4, <4>5, <4>6, <4>9, InstFields, LongIs, Constants
        <3> QED
            BY <3>1, <3>2
    <2> QED
        BY <2>2, <2>3, <2>4, <2>6 DEF FiresInTime
<1> QED
    BY <1>6, <1>7, <1>8, <1>10, <1>11, <1>12, TickFlows

\* Every step of the instruments preserves the invariant.
LEMMA InstKeeps == InstInv /\ [InstWorld \/ Tick]_instVars => InstInv'
<1> SUFFICES ASSUME InstInv, [InstWorld \/ Tick]_instVars PROVE InstInv'
    OBVIOUS
<1>1. CASE SetPlaying
    BY <1>1, PlayKeeps
<1>2. CASE SetScratching
    BY <1>2, ScratchKeeps
<1>3. CASE \E m \in Margins \ {"none"} : Buffer(m)
    BY <1>3, BufferKeeps
<1>4. CASE Tick
    BY <1>4, PausedKeeps, SkippedKeeps, RatedKeeps, VerdictKeeps DEF Tick
<1>5. CASE UNCHANGED instVars
    BY <1>5 DEF instVars, InstInv, InstTypeOK, CountsPlay, CountsSteady, FiresInTime, ClockSaid,
                CountsSilence, DrySaid, FlowsInPlay, Remaining, ToGo
<1> QED
    BY <1>1, <1>2, <1>3, <1>4, <1>5 DEF InstWorld

\* The invariant of the instruments holds throughout.
LEMMA InstHolds == InstSpec => []InstInv
    BY InstStarts, InstKeeps, PTL DEF InstSpec

\* The warnings follow from the invariant.
LEMMA WarningsFollow == InstInv => WarningsAreTrue
<1> SUFFICES ASSUME InstInv PROVE WarningsAreTrue
    OBVIOUS
<1> USE DEF InstInv
<1>1. past.off >= Long => dog.fired
    BY RemainingType, InstFields, LongIs DEF FiresInTime
<1>2. past.silent >= DryTicks + Skip => rep.warned
    BY InstFields, Constants DEF CountsSilence
<1> QED
    BY <1>1, <1>2 DEF WarningsAreTrue, ClockSaid, DrySaid, FlowsInPlay, Ticks

\* The warnings of a deck's instruments (the reporter, the margin watchdog and the sink's
\* probe of pipeline.rs) are neither false nor missing nor repeated, for any windows.
THEOREM WarningsAreTrueHolds == InstSpec => []WarningsAreTrue
    BY InstHolds, WarningsFollow, PTL

----------------------------------------------------------------------------
(* The clock watch. *)

\* Since a clock was last read it has advanced by the real time and what it strayed, and it
\* has strayed from its baseline by all of its strayings.
Follows(c) ==
    sampler[c].last # Unread /\ sampler[c].address = source[c].address =>
        /\ source[c].at - sampler[c].last.at = (mono - sampler[c].last.mono) + truth[c].since
        /\ source[c].at - mono - sampler[c].base = truth[c].total

ClockInv == ClockTypeOK /\ (\A c \in Clocks : Follows(c)) /\ VerdictsAreTrue

Sources == [address : Addresses, given : BOOLEAN, at : Int]
Samplers == [address : Addresses \cup {0}, last : {Unread} \cup Reading, base : Int]
Sayings == [verdict : {"ok", "stalled", "stepped"}, drift : Int]
Truths == [was : Int, span : Nat, since : Int, total : Int]

\* The fields of the state, by their types.
LEMMA ClockFields ==
    ASSUME ClockTypeOK, NEW c \in Clocks
    PROVE  /\ mono \in Nat /\ source[c] \in Sources /\ sampler[c] \in Samplers
           /\ truth[c] \in Truths
           /\ source[c].at \in Int /\ source[c].address \in Addresses /\ source[c].given \in BOOLEAN
           /\ sampler[c].base \in Int
           /\ sampler[c].last # Unread =>
                sampler[c].last \in Reading /\ sampler[c].last.at \in Int /\ sampler[c].last.mono \in Nat
           /\ truth[c].since \in Int /\ truth[c].total \in Int
BY DEF ClockTypeOK, Sources, Samplers, Truths, Reading

\* The invariant holds at first.
LEMMA ClockStarts == ClockInit => ClockInv
<1> SUFFICES ASSUME ClockInit PROVE ClockInv
    OBVIOUS
<1>1. ClockTypeOK
    BY DEF ClockInit, ClockTypeOK, Addresses, Nothing, Untold, Reading
<1>2. \A c \in Clocks : sampler[c].last = Unread /\ report[c] = Unread
    BY DEF ClockInit, Nothing
<1> QED
    BY <1>1, <1>2 DEF ClockInv, Follows, VerdictsAreTrue

\* The real time and a straying go by.
LEMMA Shifts ==
    ASSUME NEW at \in Int, NEW last \in Int, NEW m \in Int, NEW lm \in Int, NEW b \in Int,
           NEW since \in Int, NEW total \in Int, NEW i \in Int, NEW x \in Int,
           at - last = (m - lm) + since, at - m - b = total
    PROVE  /\ (at + i + x) - last = ((m + i) - lm) + (since + x)
           /\ (at + i + x) - (m + i) - b = total + x
OBVIOUS

\* Time goes by.
LEMMA ElapsesKeeps ==
    ASSUME NEW k \in Clocks, NEW s \in Strays \cup {0}
    PROVE  ClockInv /\ Elapses(k, s) => ClockInv'
<1> SUFFICES ASSUME ClockInv, Elapses(k, s) PROVE ClockInv'
    OBVIOUS
<1> USE DEF ClockInv
<1>1. s \in Int /\ Interval \in Nat
    BY ClockWatchAssumption
<1> DEFINE Str(d) == IF d = k THEN s ELSE 0
<1>2. \A d \in Clocks : Str(d) \in Int
    BY <1>1
<1>3. source' = [d \in Clocks |-> [source[d] EXCEPT !.at = @ + Interval + Str(d)]]
    BY DEF Elapses
<1>4. truth' = [truth EXCEPT ![k].since = @ + s, ![k].total = @ + s]
      /\ mono' = mono + Interval /\ report' = Nothing /\ upon' = upon /\ sampler' = sampler
    BY DEF Elapses
<1>5. \A d \in Clocks :
        /\ truth'[d] \in Truths
        /\ truth'[d].since = truth[d].since + Str(d) /\ truth'[d].total = truth[d].total + Str(d)
    <2>1. TAKE d \in Clocks
    <2>2. truth[d] \in Truths /\ truth \in [Clocks -> Truths]
        BY DEF ClockTypeOK, Truths
    <2> QED
        <3>1. CASE d = k
            <4>1. truth'[d] = [truth[d] EXCEPT !.since = @ + s, !.total = @ + s]
                BY <3>1, <2>2, <1>4
            <4> QED
                <5> DEFINE x == truth[d].since + s
                           y == truth[d].total + s
                <5>1. x \in Int /\ y \in Int
                    BY <2>2, <1>1 DEF Truths
                <5>2. truth'[d] = [truth[d] EXCEPT !.since = x, !.total = y]
                    BY <4>1
                <5>3. x = truth[d].since + Str(d) /\ y = truth[d].total + Str(d)
                    BY <3>1
                <5> HIDE DEF x, y, Str
                <5> QED
                    BY <5>1, <5>2, <5>3, <2>2 DEF Truths
        <3>2. CASE d # k
            <4>1. truth'[d] = truth[d]
                BY <3>2, <2>2, <1>4
            <4> QED
                BY <4>1, <3>2, ClockFields
        <3> QED
            BY <3>1, <3>2
<1> HIDE DEF Str
<1>6. \A d \in Clocks :
        /\ source'[d] \in Sources /\ source'[d].address = source[d].address
        /\ source'[d].at = source[d].at + Interval + Str(d)
    <2>1. TAKE d \in Clocks
    <2>2. source[d] \in Sources
        BY ClockFields
    <2> QED
        <3> DEFINE x == source[d].at + Interval + Str(d)
        <3>1. x \in Int /\ source'[d] = [source[d] EXCEPT !.at = x]
            BY <2>2, <1>1, <1>2, <1>3 DEF Sources
        <3> HIDE DEF x
        <3>2. source'[d] \in Sources /\ source'[d].address = source[d].address /\ source'[d].at = x
            BY <3>1, <2>2 DEF Sources
        <3> QED
            BY <3>2 DEF x
<1>7. truth' \in [Clocks -> Truths] /\ source' \in [Clocks -> Sources]
    <2>1. truth \in [Clocks -> Truths]
        BY DEF ClockTypeOK, Truths
    <2> QED
        BY <2>1, <1>3, <1>4, <1>5, <1>6
<1>8. ClockTypeOK'
    BY <1>1, <1>4, <1>7 DEF ClockTypeOK, Nothing, Truths, Sources
<1>9. \A d \in Clocks : Follows(d)'
    <2>1. TAKE d \in Clocks
    <2>2. Follows(d)
        OBVIOUS
    <2>3. CASE sampler[d].last = Unread \/ sampler[d].address # source[d].address
        BY <2>3, <1>4, <1>6 DEF Follows
    <2>4. CASE sampler[d].last # Unread /\ sampler[d].address = source[d].address
        <3>1. /\ source[d].at \in Int /\ mono \in Nat /\ sampler[d].base \in Int
              /\ sampler[d].last.at \in Int /\ sampler[d].last.mono \in Nat
              /\ truth[d].since \in Int /\ truth[d].total \in Int /\ Str(d) \in Int
            BY <2>4, <1>2, ClockFields
        <3>2. /\ source[d].at - sampler[d].last.at = (mono - sampler[d].last.mono) + truth[d].since
              /\ source[d].at - mono - sampler[d].base = truth[d].total
            BY <2>2, <2>4 DEF Follows
        <3>3. /\ source'[d].at - sampler'[d].last.at
                   = (mono' - sampler'[d].last.mono) + truth'[d].since
              /\ source'[d].at - mono' - sampler'[d].base = truth'[d].total
            <4>1. /\ source'[d].at = source[d].at + Interval + Str(d) /\ mono' = mono + Interval
                  /\ sampler'[d] = sampler[d]
                  /\ truth'[d].since = truth[d].since + Str(d)
                  /\ truth'[d].total = truth[d].total + Str(d)
                BY <1>4, <1>5, <1>6
            <4>2. sampler'[d].last = sampler[d].last /\ sampler'[d].base = sampler[d].base
                BY <4>1
            <4>3. mono \in Int /\ sampler[d].last.mono \in Int /\ Interval \in Int
                BY <3>1, <1>1
            <4> DEFINE at == source[d].at
                       last == sampler[d].last
                       base == sampler[d].base
                       since == truth[d].since
                       total == truth[d].total
            <4>4. /\ at \in Int /\ last.at \in Int /\ last.mono \in Int /\ base \in Int
                  /\ since \in Int /\ total \in Int /\ Str(d) \in Int
                  /\ at - last.at = (mono - last.mono) + since /\ at - mono - base = total
                BY <4>3, <3>1, <3>2
            <4>5. /\ source'[d].at = at + Interval + Str(d)
                  /\ sampler'[d].last = last /\ sampler'[d].base = base
                  /\ truth'[d].since = since + Str(d) /\ truth'[d].total = total + Str(d)
                BY <4>1, <4>2
            <4> HIDE DEF at, last, base, since, total
            <4>6. /\ (at + Interval + Str(d)) - last.at
                         = ((mono + Interval) - last.mono) + (since + Str(d))
                  /\ (at + Interval + Str(d)) - (mono + Interval) - base = total + Str(d)
                <5> DEFINE la == last.at
                           lm == last.mono
                           x == Str(d)
                <5>1. /\ la \in Int /\ lm \in Int /\ x \in Int
                      /\ at - la = (mono - lm) + since /\ at - mono - base = total
                    BY <4>4
                <5> HIDE DEF la, lm, x
                <5>2. /\ (at + Interval + x) - la = ((mono + Interval) - lm) + (since + x)
                      /\ (at + Interval + x) - (mono + Interval) - base = total + x
                    BY <4>3, <4>4, <5>1, Shifts
                <5> QED
                    BY <5>2 DEF la, lm, x
            <4> QED
                BY <4>1, <4>5, <4>6
        <3> QED
            BY <3>3 DEF Follows
    <2> QED
        BY <2>3, <2>4
<1>10. VerdictsAreTrue'
    BY <1>4 DEF VerdictsAreTrue, Nothing
<1> QED
    BY <1>8, <1>9, <1>10

\* The pipeline selects another clock, at an address that is not the sampled one's.
LEMMA ReplacedKeeps ==
    ASSUME ~Reuse, NEW k \in Clocks, NEW a \in Addresses
    PROVE  ClockInv /\ Replaced(k, a) => ClockInv'
<1> SUFFICES ASSUME ClockInv, Replaced(k, a) PROVE ClockInv'
    OBVIOUS
<1> USE DEF ClockInv
<1>1. /\ source' = [source EXCEPT ![k] = [address |-> a, given |-> TRUE, at |-> 0]]
      /\ truth' = [truth EXCEPT ![k] = Untold] /\ report' = Nothing
      /\ mono' = mono /\ upon' = upon /\ sampler' = sampler /\ a # sampler[k].address
    BY DEF Replaced
<1>2. ClockTypeOK'
    BY <1>1 DEF ClockTypeOK, Nothing, Untold
<1>3. \A d \in Clocks : Follows(d)'
    <2>1. TAKE d \in Clocks
    <2>2. CASE d = k
        <3>1. source'[d].address # sampler'[d].address
            BY <2>2, <1>1 DEF ClockTypeOK
        <3> QED
            BY <3>1 DEF Follows
    <2>3. CASE d # k
        <3>1. source'[d] = source[d] /\ truth'[d] = truth[d]
            BY <2>3, <1>1 DEF ClockTypeOK
        <3> QED
            BY <3>1, <1>1 DEF Follows
    <2> QED
        BY <2>2, <2>3
<1>4. VerdictsAreTrue'
    BY <1>1 DEF VerdictsAreTrue, Nothing
<1> QED
    BY <1>2, <1>3, <1>4

\* There is no clock to ask for, or there is again.
LEMMA WithheldKeeps ==
    ASSUME NEW k \in Clocks
    PROVE  ClockInv /\ Withheld(k) => ClockInv'
<1> SUFFICES ASSUME ClockInv, Withheld(k) PROVE ClockInv'
    OBVIOUS
<1> USE DEF ClockInv
<1>1. /\ source' = [source EXCEPT ![k].given = ~@]
      /\ truth' = truth /\ report' = report /\ mono' = mono /\ upon' = upon /\ sampler' = sampler
    BY DEF Withheld
<1>2. source \in [Clocks -> Sources] /\ source[k] \in Sources
    BY DEF ClockTypeOK, Sources
<1> DEFINE new == [source[k] EXCEPT !.given = ~@]
<1>3. new \in Sources /\ new.at = source[k].at /\ new.address = source[k].address
    BY <1>2 DEF Sources
<1>6. source' = [source EXCEPT ![k] = new]
    BY <1>1
<1> HIDE DEF new
<1>7. /\ source' \in [Clocks -> Sources]
      /\ \A d \in Clocks : source'[d].at = source[d].at /\ source'[d].address = source[d].address
    BY <1>2, <1>3, <1>6
<1>4. ClockTypeOK'
    BY <1>1, <1>7 DEF ClockTypeOK, Sources
<1>5. (\A d \in Clocks : Follows(d)') /\ VerdictsAreTrue'
    BY <1>1, <1>7 DEF Follows, VerdictsAreTrue
<1> QED
    BY <1>4, <1>5

\* The sampler a clock is read with knows that clock or none.
LEMMA IdentifiedIs ==
    ASSUME ClockTypeOK, NEW c \in Clocks
    PROVE  /\ Identified(c) \in Samplers
           /\ Identified(c).last # Unread =>
                Identified(c) = sampler[c] /\ sampler[c].address = source[c].address
           /\ source[c].given => Identified(c).address = source[c].address
           /\ Identified(c).last = Unread \/ Identified(c) = sampler[c]
<1>1. sampler[c] \in Samplers /\ source[c].given \in BOOLEAN /\ source[c].address \in 1..2
    BY ClockFields DEF Addresses
<1> DEFINE a == IF source[c].given THEN source[c].address ELSE 0
<1>2. a \in Addresses \cup {0} /\ (source[c].given => a = source[c].address) /\ (a = 0 <=> ~source[c].given)
    BY <1>1 DEF Addresses
<1>3. Identified(c) = IF a = 0 \/ a # sampler[c].address THEN Forgotten(sampler[c], a) ELSE sampler[c]
    BY DEF Identified
<1> HIDE DEF a
<1>4. CASE a = 0 \/ a # sampler[c].address
    <2>1. Identified(c) = [sampler[c] EXCEPT !.address = a, !.last = Unread]
        BY <1>3, <1>4 DEF Forgotten
    <2>2. Identified(c) \in Samplers /\ Identified(c).last = Unread /\ Identified(c).address = a
        BY <2>1, <1>1, <1>2 DEF Samplers
    <2> QED
        BY <2>2, <1>2
<1>5. CASE ~(a = 0 \/ a # sampler[c].address)
    <2>1. Identified(c) = sampler[c]
        BY <1>3, <1>5
    <2> QED
        BY <2>1, <1>1, <1>2, <1>5
<1> QED
    BY <1>4, <1>5

\* What a reading says of a clock that advanced by so much of the real time.
LEMMA VerdictIs ==
    ASSUME NEW real \in Int, real > 0, NEW was \in Int
    PROVE  /\ Verdict(real, real + was) \in {"ok", "stalled", "stepped"}
           /\ (Verdict(real, real + was) = "ok") = (was = 0)
           /\ was = -real => Verdict(real, real + was) = "stalled"
<1>1. CASE 10 * (real + was) < real
    <2>1. Verdict(real, real + was) = "stalled" /\ was # 0
        BY <1>1 DEF Verdict
    <2> QED
        BY <2>1
<1>2. CASE ~(10 * (real + was) < real)
    <2>1. Verdict(real, real + was) = (IF real + was # real THEN "stepped" ELSE "ok") /\ was # -real
        BY <1>2 DEF Verdict
    <2>2. real + was = real <=> was = 0
        OBVIOUS
    <2> QED
        BY <2>1, <2>2
<1> QED
    BY <1>1, <1>2

\* What a sample does to one clock: it is read, or only identified.
LEMMA SampledIs ==
    ASSUME ClockTypeOK, NEW timed, Samples(timed), NEW c \in Clocks
    PROVE  \/ /\ source[c].given
              /\ sampler'[c] = Observing(Identified(c), source[c].at)
              /\ report'[c] = Observation(Identified(c), source[c].at)
              /\ truth'[c] =
                   [was |-> truth[c].since, since |-> 0,
                    span |-> IF Identified(c).last = Unread THEN 0 ELSE mono - Identified(c).last.mono,
                    total |-> IF Identified(c).last = Unread THEN 0 ELSE truth[c].total]
           \/ sampler'[c] = Identified(c) /\ report'[c] = Unread /\ truth'[c] = truth[c]
BY DEF Samples

\* A clock is sampled.
LEMMA SampleOfClock ==
    ASSUME ClockInv, NEW timed, Samples(timed), NEW c \in Clocks
    PROVE  /\ sampler'[c] \in Samplers /\ report'[c] \in {Unread} \cup Sayings /\ truth'[c] \in Truths
           /\ Follows(c)'
           /\ report'[c] # Unread =>
                /\ (report'[c].verdict = "ok") = (truth'[c].was = 0)
                /\ truth'[c].was = -truth'[c].span => report'[c].verdict = "stalled"
                /\ report'[c].drift = truth'[c].total
<1> DEFINE id == Identified(c)
           at == source[c].at
<1>0. ClockTypeOK /\ Follows(c) /\ source' = source /\ mono' = mono /\ mono \in Int /\ at \in Int
    BY ClockFields DEF ClockInv, Samples
<1>1. /\ id \in Samplers
      /\ id.last # Unread => id = sampler[c] /\ sampler[c].address = source[c].address
      /\ source[c].given => id.address = source[c].address
      /\ id.last = Unread \/ id = sampler[c]
    BY <1>0, IdentifiedIs
<1>2. truth[c] \in Truths /\ truth[c].since \in Int /\ truth[c].total \in Int
    BY <1>0, ClockFields
<1>3. CASE sampler'[c] = id /\ report'[c] = Unread /\ truth'[c] = truth[c]
    <2>1. Follows(c)'
        BY <1>0, <1>1, <1>3 DEF Follows
    <2> QED
        BY <2>1, <1>1, <1>2, <1>3
<1>4. CASE /\ source[c].given
           /\ sampler'[c] = Observing(id, at) /\ report'[c] = Observation(id, at)
           /\ truth'[c] = [was |-> truth[c].since, since |-> 0,
                           span |-> IF id.last = Unread THEN 0 ELSE mono - id.last.mono,
                           total |-> IF id.last = Unread THEN 0 ELSE truth[c].total]
    <2>0. [at |-> at, mono |-> mono] \in Reading /\ at - mono \in Int
        BY <1>0, ClockFields DEF Reading
    <2>1. CASE id.last = Unread
        <3>1. sampler'[c] = [id EXCEPT !.last = [at |-> at, mono |-> mono], !.base = at - mono]
            BY <1>4, <2>1 DEF Observing
        <3>2. report'[c] = Unread
            BY <1>4, <2>1 DEF Observation
        <3>3. truth'[c] = [was |-> truth[c].since, since |-> 0, span |-> 0, total |-> 0]
            BY <1>4, <2>1
        <3> HIDE DEF id, at
        <3>4. /\ sampler'[c] \in Samplers /\ sampler'[c].last = [at |-> at, mono |-> mono]
              /\ sampler'[c].base = at - mono
            BY <3>1, <2>0, <1>1 DEF Samplers
        <3>5. truth'[c] \in Truths /\ truth'[c].since = 0 /\ truth'[c].total = 0
            BY <3>3, <1>2 DEF Truths
        <3>6. Follows(c)'
            <4>1. source'[c].at = at
                BY <1>0 DEF at
            <4> QED
                BY <4>1, <1>0, <3>4, <3>5 DEF Follows
        <3> QED
            BY <3>2, <3>4, <3>5, <3>6
    <2>2. CASE id.last # Unread
        <3>0. /\ id = sampler[c] /\ sampler[c].last \in Reading /\ sampler[c].base \in Int
              /\ sampler[c].last.at \in Int /\ sampler[c].last.mono \in Nat
              /\ sampler[c].last.mono < mono
            BY <2>2, <1>0, <1>1, ClockFields DEF Samples
        <3> DEFINE real == mono - sampler[c].last.mono
                   since == truth[c].since
                   total == truth[c].total
        <3>1. real \in Nat /\ real > 0 /\ since \in Int /\ total \in Int
            BY <3>0, <1>0, <1>2, ClockFields
        <3>2. at - sampler[c].last.at = real + since /\ at - mono - sampler[c].base = total
            BY <3>0, <2>2, <1>0, <1>1 DEF Follows
        <3>3. sampler'[c] = [sampler[c] EXCEPT !.last = [at |-> at, mono |-> mono]]
            BY <1>4, <2>2, <3>0, <1>0, ClockFields DEF Observing, Samplers
        <3>4. report'[c] = [verdict |-> Verdict(real, real + since), drift |-> total]
            BY <1>4, <2>2, <3>0, <3>2 DEF Observation
        <3>5. truth'[c] = [was |-> since, since |-> 0, span |-> real, total |-> total]
            BY <1>4, <2>2, <3>0
        <3>6. sampler[c] \in Samplers
            BY <3>0, <1>1
        <3> HIDE DEF id, at, real, since, total
        <3>7. /\ sampler'[c] \in Samplers /\ sampler'[c].last = [at |-> at, mono |-> mono]
              /\ sampler'[c].base = sampler[c].base
            BY <3>3, <3>6, <2>0 DEF Samplers
        <3>8. truth'[c] \in Truths /\ truth'[c].since = 0 /\ truth'[c].total = total
              /\ truth'[c].was = since /\ truth'[c].span = real
            BY <3>5, <3>1 DEF Truths
        <3>9. Follows(c)'
            <4>1. source'[c].at = at
                BY <1>0 DEF at
            <4> QED
                BY <4>1, <1>0, <3>2, <3>7, <3>8 DEF Follows
        <3>10. /\ report'[c] \in Sayings
               /\ report'[c].verdict = Verdict(real, real + since) /\ report'[c].drift = total
            BY <3>1, <3>4, VerdictIs DEF Sayings
        <3>11. /\ (report'[c].verdict = "ok") = (truth'[c].was = 0)
               /\ truth'[c].was = -truth'[c].span => report'[c].verdict = "stalled"
            BY <3>1, <3>8, <3>10, VerdictIs
        <3> QED
            BY <3>7, <3>8, <3>9, <3>10, <3>11
    <2> QED
        BY <2>1, <2>2
<1> QED
    BY <1>0, <1>3, <1>4, SampledIs

\* A sample keeps the invariant.
LEMMA SamplesKeep ==
    ASSUME NEW timed
    PROVE  ClockInv /\ Samples(timed) => ClockInv'
<1> SUFFICES ASSUME ClockInv, Samples(timed) PROVE ClockInv'
    OBVIOUS
<1>1. \E f, g, h : /\ sampler' = [c \in Clocks |-> f[c]] /\ report' = [c \in Clocks |-> g[c]]
                   /\ truth' = [c \in Clocks |-> h[c]]
    <2>1. sampler' = [c \in Clocks |-> sampler'[c]] /\ report' = [c \in Clocks |-> report'[c]]
          /\ truth' = [c \in Clocks |-> truth'[c]]
        BY DEF Samples
    <2> QED
        BY <2>1
<1>2. /\ sampler' \in [Clocks -> Samplers] /\ report' \in [Clocks -> {Unread} \cup Sayings]
      /\ truth' \in [Clocks -> Truths]
    BY <1>1, SampleOfClock
<1>3. upon' = upon /\ mono' = mono /\ source' = source
    BY DEF Samples
<1>4. ClockTypeOK'
    BY <1>2, <1>3 DEF ClockInv, ClockTypeOK, Samplers, Sayings, Truths
<1>5. (\A c \in Clocks : Follows(c)') /\ VerdictsAreTrue'
    BY SampleOfClock DEF VerdictsAreTrue
<1> QED
    BY <1>4, <1>5 DEF ClockInv

\* The node goes, or the thread ends.
LEMMA EndsKeep == ClockInv /\ (NodeGoes \/ ThreadEnds) => ClockInv'
<1> SUFFICES ASSUME ClockInv, NodeGoes \/ ThreadEnds PROVE ClockInv'
    OBVIOUS
<1>1. /\ mono' = mono /\ source' = source /\ sampler' = sampler /\ report' = report /\ truth' = truth
      /\ upon' \in [node : BOOLEAN, thread : BOOLEAN]
    BY DEF NodeGoes, ThreadEnds, ClockInv, ClockTypeOK
<1> QED
    BY <1>1 DEF ClockInv, ClockTypeOK, Follows, VerdictsAreTrue

\* Every step of the clock watch keeps its invariant.
LEMMA ClockKeeps ==
    ASSUME ~Reuse
    PROVE  ClockInv /\ [ClockWorld \/ ClockRuns]_clockVars => ClockInv'
<1> SUFFICES ASSUME ClockInv, [ClockWorld \/ ClockRuns]_clockVars PROVE ClockInv'
    OBVIOUS
<1>1. CASE \E c \in Clocks, s \in Strays \cup {0} : Elapses(c, s)
    BY <1>1, ElapsesKeeps
<1>2. CASE \E c \in Clocks, a \in Addresses : Replaced(c, a)
    BY <1>2, ReplacedKeeps
<1>3. CASE \E c \in Clocks : Withheld(c)
    BY <1>3, WithheldKeeps
<1>4. CASE NodeGoes \/ ThreadEnds
    BY <1>4, EndsKeep
<1>5. CASE \E timed \in SUBSET Clocks : Samples(timed)
    BY <1>5, SamplesKeep
<1>6. CASE UNCHANGED clockVars
    BY <1>6 DEF clockVars, ClockInv, ClockTypeOK, Follows, VerdictsAreTrue
<1> QED
    BY <1>1, <1>2, <1>3, <1>4, <1>5, <1>6 DEF ClockWorld, ClockRuns

\* A verdict of the clock watch (clock_watch.rs) is of one clock and of its own advance, and
\* its drift the sum of its strayings, unless a new clock is where the sampled one was.
THEOREM VerdictsAreTrueHolds ==
    ASSUME ~Reuse
    PROVE  ClockSpec => []VerdictsAreTrue
<1>1. ClockInv => VerdictsAreTrue
    BY DEF ClockInv
<1> QED
    BY <1>1, ClockStarts, ClockKeeps, PTL DEF ClockSpec

\* A reading is never of a time to come, and what is reported of a clock is said by the reading
\* just made, against the baseline there is.
ReadJustNow ==
    \A c \in Clocks :
      /\ sampler[c].last # Unread => sampler[c].last.mono <= mono
      /\ report[c] # Unread =>
           /\ sampler[c].last = [at |-> source[c].at, mono |-> mono]
           /\ report[c].drift = source[c].at - mono - sampler[c].base

\* Time goes by, and what was said is said no more.
LEMMA ElapsesTyped ==
    ASSUME ClockTypeOK, ReadJustNow,
           NEW k \in Clocks, NEW s \in Strays \cup {0}, Elapses(k, s)
    PROVE  ClockTypeOK' /\ ReadJustNow'
<1>1. s \in Int /\ Interval \in Nat
    BY ClockWatchAssumption
<1> DEFINE Str(d) == IF d = k THEN s ELSE 0
           Later(d) == [source[d] EXCEPT !.at = @ + Interval + Str(d)]
           off == [truth[k] EXCEPT !.since = @ + s, !.total = @ + s]
<1>2. /\ source' = [d \in Clocks |-> Later(d)] /\ truth' = [truth EXCEPT ![k] = off]
      /\ mono' = mono + Interval /\ report' = Nothing /\ upon' = upon /\ sampler' = sampler
    BY DEF Elapses
<1>3. \A d \in Clocks : Later(d) \in Sources
    <2>1. TAKE d \in Clocks
    <2>2. source[d] \in Sources /\ Str(d) \in Int
        BY <1>1, ClockFields
    <2> DEFINE x == source[d].at + Interval + Str(d)
    <2>3. x \in Int
        BY <2>2, <1>1 DEF Sources
    <2>4. Later(d) = [source[d] EXCEPT !.at = x]
        OBVIOUS
    <2> HIDE DEF x, Later
    <2> QED
        BY <2>2, <2>3, <2>4 DEF Sources
<1>4. off \in Truths
    <2>1. truth[k] \in Truths
        BY ClockFields
    <2> DEFINE x == truth[k].since + s
               y == truth[k].total + s
    <2>2. x \in Int /\ y \in Int
        BY <2>1, <1>1 DEF Truths
    <2>3. off = [truth[k] EXCEPT !.since = x, !.total = y]
        OBVIOUS
    <2> HIDE DEF x, y, off
    <2> QED
        BY <2>1, <2>2, <2>3 DEF Truths
<1>5. truth \in [Clocks -> Truths] /\ mono \in Nat
    BY DEF ClockTypeOK, Truths
<1> HIDE DEF Later, off
<1>6. ClockTypeOK'
    <2>1. truth' \in [Clocks -> Truths] /\ source' \in [Clocks -> Sources] /\ mono' \in Nat
        BY <1>1, <1>2, <1>3, <1>4, <1>5
    <2> QED
        BY <2>1, <1>2 DEF ClockTypeOK, Nothing, Truths, Sources
<1>7. ReadJustNow'
    <2>1. ASSUME NEW d \in Clocks, sampler[d].last # Unread
          PROVE  sampler[d].last.mono <= mono + Interval
        <3>1. sampler[d].last.mono \in Nat /\ sampler[d].last.mono <= mono
            BY <2>1, ClockFields DEF ReadJustNow
        <3> QED
            BY <3>1, <1>1, <1>5
    <2>2. \A d \in Clocks : report'[d] = Unread
        BY <1>2 DEF Nothing
    <2> QED
        BY <1>2, <2>1, <2>2 DEF ReadJustNow
<1> QED
    BY <1>6, <1>7

\* The clocks' own steps, at whatever address a new clock is.
LEMMA SourcesTyped ==
    ASSUME ClockTypeOK, ReadJustNow, NEW k \in Clocks,
           Withheld(k) \/ \E a \in Addresses : Replaced(k, a)
    PROVE  ClockTypeOK' /\ ReadJustNow'
<1>1. mono' = mono /\ sampler' = sampler /\ upon' = upon
    BY DEF Withheld, Replaced
<1>2. CASE Withheld(k)
    <2>1. source \in [Clocks -> Sources] /\ source[k] \in Sources
        BY DEF ClockTypeOK, Sources
    <2> DEFINE new == [source[k] EXCEPT !.given = ~@]
    <2>2. new \in Sources /\ new.at = source[k].at
        BY <2>1 DEF Sources
    <2>3. source' = [source EXCEPT ![k] = new] /\ report' = report /\ truth' = truth
        BY <1>2 DEF Withheld
    <2> HIDE DEF new
    <2>4. source' \in [Clocks -> Sources] /\ \A d \in Clocks : source'[d].at = source[d].at
        BY <2>1, <2>2, <2>3
    <2>5. ClockTypeOK'
        BY <1>1, <2>3, <2>4 DEF ClockTypeOK, Sources
    <2>6. ReadJustNow'
        BY <1>1, <2>3, <2>4 DEF ReadJustNow
    <2> QED
        BY <2>5, <2>6
<1>3. CASE \E a \in Addresses : Replaced(k, a)
    <2>1. PICK a \in Addresses : Replaced(k, a)
        BY <1>3
    <2>2. /\ source' = [source EXCEPT ![k] = [address |-> a, given |-> TRUE, at |-> 0]]
          /\ truth' = [truth EXCEPT ![k] = Untold] /\ report' = Nothing
        BY <2>1 DEF Replaced
    <2>3. ClockTypeOK'
        BY <1>1, <2>2 DEF ClockTypeOK, Nothing, Untold
    <2>4. ReadJustNow'
        BY <1>1, <2>2 DEF ReadJustNow, Nothing
    <2> QED
        BY <2>3, <2>4
<1> QED
    BY <1>2, <1>3

\* One clock is sampled, and is perhaps not the one that was.
LEMMA SampledTyped ==
    ASSUME ClockTypeOK, ReadJustNow, NEW timed, Samples(timed), NEW c \in Clocks
    PROVE  /\ sampler'[c] \in Samplers /\ report'[c] \in {Unread} \cup Sayings /\ truth'[c] \in Truths
           /\ sampler'[c].last # Unread => sampler'[c].last.mono <= mono
           /\ report'[c] # Unread =>
                /\ sampler'[c].last = [at |-> source[c].at, mono |-> mono]
                /\ report'[c].drift = source[c].at - mono - sampler'[c].base
<1> DEFINE id == Identified(c)
           at == source[c].at
           now == [at |-> at, mono |-> mono]
<1>1. mono \in Nat /\ at \in Int /\ truth[c] \in Truths
    BY ClockFields
<1>2. /\ id \in Samplers /\ (id.last = Unread \/ id = sampler[c])
      /\ id.last # Unread => id.last \in Reading /\ id.last.mono < mono
    <2>1. id \in Samplers /\ (id.last = Unread \/ id = sampler[c])
        BY IdentifiedIs
    <2>2. sampler[c].last # Unread => sampler[c].last \in Reading /\ sampler[c].last.mono < mono
        BY ClockFields DEF Samples
    <2> QED
        BY <2>1, <2>2
<1>3. CASE sampler'[c] = id /\ report'[c] = Unread /\ truth'[c] = truth[c]
    <2>1. id.last # Unread => id.last.mono <= mono
        BY <1>1, <1>2 DEF Reading
    <2> HIDE DEF id
    <2> QED
        BY <1>1, <1>2, <1>3, <2>1
<1>4. CASE /\ sampler'[c] = Observing(id, at) /\ report'[c] = Observation(id, at)
           /\ truth'[c] = [was |-> truth[c].since, since |-> 0,
                           span |-> IF id.last = Unread THEN 0 ELSE mono - id.last.mono,
                           total |-> IF id.last = Unread THEN 0 ELSE truth[c].total]
    <2> DEFINE base == IF id.last = Unread THEN at - mono ELSE id.base
               span == IF id.last = Unread THEN 0 ELSE mono - id.last.mono
               total == IF id.last = Unread THEN 0 ELSE truth[c].total
    <2>1. now \in Reading /\ base \in Int /\ id.base \in Int
        BY <1>1, <1>2 DEF Reading, Samplers
    <2>2. span \in Nat /\ total \in Int /\ truth[c].since \in Int
        <3>1. truth[c].total \in Int /\ truth[c].since \in Int
            BY <1>1 DEF Truths
        <3>2. id.last # Unread => mono - id.last.mono \in Nat
            BY <1>1, <1>2 DEF Reading
        <3> QED
            BY <3>1, <3>2
    <2>3. sampler'[c] = [id EXCEPT !.last = now, !.base = base]
        BY <1>4 DEF Observing
    <2>4. truth'[c] = [was |-> truth[c].since, since |-> 0, span |-> span, total |-> total]
        BY <1>4
    <2>5. /\ report'[c] \in {Unread} \cup Sayings
          /\ report'[c] # Unread => report'[c].drift = at - mono - base
        <3>1. CASE id.last = Unread
            BY <1>4, <3>1 DEF Observation
        <3>2. CASE id.last # Unread
            <4> DEFINE v == Verdict(mono - id.last.mono, at - id.last.at)
                       drift == at - mono - id.base
            <4>1. v \in {"ok", "stalled", "stepped"}
                BY DEF Verdict
            <4>2. drift \in Int
                BY <1>1, <2>1
            <4>3. report'[c] = [verdict |-> v, drift |-> drift]
                BY <1>4, <3>2 DEF Observation
            <4> HIDE DEF v
            <4> QED
                BY <3>2, <4>1, <4>2, <4>3 DEF Sayings
        <3> QED
            BY <3>1, <3>2
    <2> HIDE DEF id, base, span, total, now
    <2>6. sampler'[c] \in Samplers /\ sampler'[c].last = now /\ sampler'[c].base = base
        BY <1>2, <2>1, <2>3 DEF Samplers
    <2>7. truth'[c] \in Truths
        BY <2>2, <2>4 DEF Truths
    <2>8. sampler'[c].last.mono <= mono
        BY <1>1, <2>6 DEF now
    <2> QED
        BY <2>5, <2>6, <2>7, <2>8 DEF now
<1> QED
    BY <1>3, <1>4, SampledIs

\* A sample of both clocks.
LEMMA SamplesTyped ==
    ASSUME ClockTypeOK, ReadJustNow, NEW timed, Samples(timed)
    PROVE  ClockTypeOK' /\ ReadJustNow'
<1>1. \E f, g, h : /\ sampler' = [c \in Clocks |-> f[c]] /\ report' = [c \in Clocks |-> g[c]]
                   /\ truth' = [c \in Clocks |-> h[c]]
    <2>1. sampler' = [c \in Clocks |-> sampler'[c]] /\ report' = [c \in Clocks |-> report'[c]]
          /\ truth' = [c \in Clocks |-> truth'[c]]
        BY DEF Samples
    <2> QED
        BY <2>1
<1>2. /\ sampler' \in [Clocks -> Samplers] /\ report' \in [Clocks -> {Unread} \cup Sayings]
      /\ truth' \in [Clocks -> Truths]
    BY <1>1, SampledTyped
<1>3. upon' = upon /\ mono' = mono /\ source' = source
    BY DEF Samples
<1>4. ClockTypeOK'
    BY <1>2, <1>3 DEF ClockTypeOK, Samplers, Sayings, Truths
<1>5. ReadJustNow'
    BY <1>3, SampledTyped DEF ReadJustNow
<1> QED
    BY <1>4, <1>5

\* The node goes, or the thread ends.
LEMMA EndsTyped ==
    ASSUME ClockTypeOK, ReadJustNow, NodeGoes \/ ThreadEnds
    PROVE  ClockTypeOK' /\ ReadJustNow'
<1>1. /\ mono' = mono /\ source' = source /\ sampler' = sampler /\ report' = report /\ truth' = truth
      /\ upon' \in [node : BOOLEAN, thread : BOOLEAN]
    BY DEF NodeGoes, ThreadEnds, ClockTypeOK
<1> QED
    BY <1>1 DEF ClockTypeOK, ReadJustNow

\* Also where a new clock is at the address of the one last sampled, a report of the clock watch
\* (clock_watch.rs) is of the reading just made and against the baseline of its sampler, and
\* no reading is of a time to come: what reuse of an address can falsify is the comparison.
THEOREM ReportsAreOfNow ==
    ClockSpec => [](ClockTypeOK /\ ReadJustNow)
<1>1. ClockInit => ClockTypeOK /\ ReadJustNow
    <2> SUFFICES ASSUME ClockInit PROVE ClockTypeOK /\ ReadJustNow
        OBVIOUS
    <2>1. ClockTypeOK
        BY ClockStarts DEF ClockInv
    <2>2. \A c \in Clocks : sampler[c].last = Unread /\ report[c] = Unread
        BY DEF ClockInit, Nothing
    <2> QED
        BY <2>1, <2>2 DEF ReadJustNow
<1>2. ClockTypeOK /\ ReadJustNow /\ [ClockWorld \/ ClockRuns]_clockVars
        => (ClockTypeOK /\ ReadJustNow)'
    <2> SUFFICES ASSUME ClockTypeOK, ReadJustNow, [ClockWorld \/ ClockRuns]_clockVars
                 PROVE  ClockTypeOK' /\ ReadJustNow'
        OBVIOUS
    <2>1. CASE \E c \in Clocks, s \in Strays \cup {0} : Elapses(c, s)
        BY <2>1, ElapsesTyped
    <2>2. CASE \E c \in Clocks, a \in Addresses : Replaced(c, a)
        BY <2>2, SourcesTyped
    <2>3. CASE \E c \in Clocks : Withheld(c)
        BY <2>3, SourcesTyped
    <2>4. CASE NodeGoes \/ ThreadEnds
        BY <2>4, EndsTyped
    <2>5. CASE \E timed \in SUBSET Clocks : Samples(timed)
        BY <2>5, SamplesTyped
    <2>6. CASE UNCHANGED clockVars
        BY <2>6 DEF clockVars, ClockTypeOK, ReadJustNow
    <2> QED
        BY <2>1, <2>2, <2>3, <2>4, <2>5, <2>6 DEF ClockWorld, ClockRuns
<1> QED
    BY <1>1, <1>2, PTL DEF ClockSpec

\* The instruments of a deck's branch (pipeline.rs) and the clock watch of an output node
\* (clock_watch.rs) report what happened, unless a new clock is where the sampled one was.
THEOREM ReportsAreTrueHolds ==
    ASSUME ~Reuse
    PROVE  InstSpec /\ ClockSpec => []ReportsAreTrue
<1>1. WarningsAreTrue /\ VerdictsAreTrue => ReportsAreTrue
    BY DEF ReportsAreTrue
<1> QED
    BY <1>1, WarningsAreTrueHolds, VerdictsAreTrueHolds, PTL

----------------------------------------------------------------------------
(* Scratching one deck.                                                     *)

\* What is known of a deck that is not scratched.
DeckSettled ==
    /\ gear.pad = "normal" /\ ~gear.locked /\ ~gear.wide
    /\ gear.inner = "playing" => gear.playing /\ landed = NoFrame /\ clock # "inflated"
    /\ gear.playing /\ IsLoaded /\ ~gear.ended => gear.inner = "playing"
    /\ clock # "unknown" => Reported = place

ScratchInv ==
    /\ ScratchTypeOK
    /\ Scratching => gear.pad = "scratch" /\ gear.locked /\ gear.wide
    /\ ~Scratching => DeckSettled

Numbers == Int \cup {NaN}

\* The constants.
LEMMA ScratchNumbers ==
  /\ MaxFrame \in Nat /\ Snap \in Nat /\ MaxRate \in Nat /\ Coast \in Nat /\ CoastCap \in Nat
  /\ Hold \in Nat /\ Lag \in Nat /\ Lag > 0 /\ NaN \notin Int /\ NoFrame \notin Int /\ NoFrame # NaN
  /\ \A r \in Rates : r \in Int
  BY ScratchAssumption

\* Sums and differences.
LEMMA SumsAre ==
  ASSUME NEW x \in Numbers, NEW y \in Numbers
  PROVE  /\ Plus(x, y) \in Numbers /\ Minus(x, y) \in Numbers
         /\ x # NaN /\ y # NaN => /\ x \in Int /\ y \in Int /\ Plus(x, y) = x + y
                                /\ Minus(x, y) = x - y
  <1>1. CASE NaN \in {x, y}
    BY <1>1 DEF Plus, Minus, Numbers
  <1>2. CASE NaN \notin {x, y}
    BY <1>2 DEF Plus, Minus, Numbers
  <1> QED BY <1>1, <1>2

\* What is clamped is between the bounds.
LEMMA ClampedIs ==
  ASSUME NEW x \in Numbers, NEW lo \in Int, NEW hi \in Int, lo <= hi
  PROVE  /\ Clamped(x, lo, hi) \in (lo..hi) \cup {NaN}
         /\ x # NaN => Clamped(x, lo, hi) \in lo..hi
  BY DEF Clamped, Numbers

\* What is towards a value is between the two.
LEMMA TowardsIs ==
  ASSUME NEW x \in Numbers, NEW y \in Numbers, NEW v \in Towards(x, y)
  PROVE  /\ v \in Numbers
         /\ x # NaN /\ y # NaN => v \in Int /\ ((x <= v /\ v <= y) \/ (y <= v /\ v <= x))
         /\ ~(x # NaN /\ y # NaN) => v = NaN
  <1>1. CASE NaN \in {x, y}
    BY <1>1 DEF Towards, Numbers
  <1>2. CASE NaN \notin {x, y}
    <2>1. x \in Int /\ y \in Int /\ NaN \notin Int
      BY <1>2, ScratchNumbers DEF Numbers
    <2>2. v \in IF x = y THEN {x} ELSE IF x < y THEN (x + 1)..y ELSE y..(x - 1)
      BY <1>2 DEF Towards
    <2>3. v \in Int /\ ((x <= v /\ v <= y) \/ (y <= v /\ v <= x))
      <3>1. CASE x = y
        BY <2>1, <2>2, <3>1
      <3>2. CASE x < y
        <4>1. x # y
          BY <2>1, <3>2
        <4>2. v \in (x + 1)..y
          BY <2>2, <3>2, <4>1
        <4> QED BY <2>1, <3>2, <4>2
      <3>3. CASE y < x
        <4>1. x # y /\ ~(x < y)
          BY <2>1, <3>3
        <4>2. v \in y..(x - 1)
          BY <2>2, <4>1
        <4> QED BY <2>1, <4>2
      <3> QED BY <2>1, <3>1, <3>2, <3>3
    <2> QED BY <1>2, <2>1, <2>3 DEF Numbers
  <1> QED BY <1>1, <1>2

\* The hand's aim may coast so far.
Coasts == (-CoastCap..CoastCap) \cup {NaN}
Speeds == (-MaxFrame..MaxFrame) \cup {NaN}

\* What is taken in of a new aim keeps to it.
LEMMA AbsorbedIn ==
  ASSUME NEW h \in HandRec, NEW t \in Frames \cup {NaN}
  PROVE  Absorbed(h, t) \in Coasts
  <1> DEFINE delta == Minus(t, h.last)
             c == h.coast
  <1>1. /\ t \in Numbers /\ h.last \in Numbers /\ c \in Numbers
        /\ c # NaN => -CoastCap <= c /\ c <= CoastCap
    BY ScratchNumbers DEF HandRec, Frames, Numbers
  <1>2. delta \in Numbers
    BY <1>1, SumsAre
  <1>3. Absorbed(h, t) = IF delta # NaN /\ delta > 0 THEN Above0(Minus(c, delta))
                         ELSE Below0(Minus(c, delta))
    BY DEF Absorbed
  <1> HIDE DEF delta, c
  <1>4. CASE NaN \in {c, delta}
    <2>1. Minus(c, delta) = NaN
      BY <1>4 DEF Minus
    <2>2. Absorbed(h, t) = 0
      BY <1>3, <2>1 DEF Above0, Below0
    <2> QED BY <2>2, ScratchNumbers DEF Coasts
  <1>5. CASE NaN \notin {c, delta}
    <2>1. c \in Int /\ delta \in Int /\ -CoastCap <= c /\ c <= CoastCap
      BY <1>1, <1>2, <1>5 DEF Numbers
    <2>2. Minus(c, delta) = c - delta /\ c - delta # NaN /\ delta # NaN
      BY <1>5, <2>1, ScratchNumbers DEF Minus
    <2>3. CASE delta > 0
      <3>1. Absorbed(h, t) = IF c - delta < 0 THEN 0 ELSE c - delta
        BY <1>3, <2>2, <2>3 DEF Above0
      <3> QED BY <2>1, <2>3, <3>1, ScratchNumbers DEF Coasts
    <2>4. CASE ~(delta > 0)
      <3>1. Absorbed(h, t) = IF c - delta > 0 THEN 0 ELSE c - delta
        BY <1>3, <2>2, <2>4 DEF Below0
      <3> QED BY <2>1, <2>4, <3>1, ScratchNumbers DEF Coasts
    <2> QED BY <2>3, <2>4
  <1> QED BY <1>4, <1>5

\* What becomes of the hand in a chunk (HandTracker::step).
LEMMA HandsAre ==
  ASSUME NEW h \in HandRec, NEW t \in Frames \cup {NaN}, NEW k \in Hands(h, t)
  PROVE  /\ k \in HandRec
         /\ \/ /\ h.last = NaN \/ t # h.last
               /\ k.last = t /\ k.idle = 0 /\ k.coast = Absorbed(h, t)
               /\ k.speed \in Towards(h.speed, Minus(t, h.last))
            \/ /\ h.last # NaN /\ t = h.last /\ h.idle >= Coast
               /\ k.last = t /\ k.idle = Coast + 1 /\ k.coast = h.coast /\ k.speed = h.speed
            \/ /\ h.last # NaN /\ t = h.last /\ h.idle < Coast
               /\ k.last = t /\ k.idle = h.idle + 1 /\ k.speed = h.speed
               /\ \E c \in Parts(h.speed) : k.coast = Clamped(Plus(h.coast, c), -CoastCap, CoastCap)
  <1>1. /\ h.last \in Frames \cup {NaN} /\ h.speed \in Speeds /\ h.idle \in 0..Coast + 1
        /\ h.coast \in Coasts
        /\ h.last \in Numbers /\ t \in Numbers /\ h.speed \in Numbers /\ h.coast \in Numbers
    <2>1. /\ h.last \in Frames \cup {NaN} /\ h.speed \in Speeds /\ h.idle \in 0..Coast + 1
          /\ h.coast \in Coasts
      BY DEF HandRec, Speeds, Coasts
    <2> QED BY <2>1, ScratchNumbers DEF Frames, Speeds, Coasts, Numbers
  <1>2. CASE h.last = NaN \/ t # h.last
    <2>1. PICK s \in Towards(h.speed, Minus(t, h.last)) :
            k = [last |-> t, speed |-> s, idle |-> 0, coast |-> Absorbed(h, t)]
      BY <1>2 DEF Hands
    <2>2. s \in Speeds
      <3>1. Minus(t, h.last) \in Numbers
        BY <1>1, SumsAre
      <3>2. CASE NaN \in {h.speed, Minus(t, h.last)}
        <4>1. s = NaN
          BY <1>1, <3>1, <3>2, TowardsIs
        <4> QED BY <4>1 DEF Speeds
      <3>3. CASE NaN \notin {h.speed, Minus(t, h.last)}
        <4>1. t # NaN /\ h.last # NaN
          BY <3>3 DEF Minus
        <4>2. Minus(t, h.last) = t - h.last /\ t \in 0..MaxFrame /\ h.last \in 0..MaxFrame
          BY <1>1, <4>1, SumsAre DEF Frames
        <4>3. Minus(t, h.last) \in -MaxFrame..MaxFrame
          BY <4>2, ScratchNumbers
        <4>4. h.speed \in -MaxFrame..MaxFrame
          BY <1>1, <3>3 DEF Speeds
        <4>5. /\ s \in Int
              /\ \/ h.speed <= s /\ s <= Minus(t, h.last)
                 \/ Minus(t, h.last) <= s /\ s <= h.speed
          BY <1>1, <3>1, <3>3, TowardsIs
        <4> QED BY <4>3, <4>4, <4>5, ScratchNumbers DEF Speeds
      <3> QED BY <3>2, <3>3
    <2>3. Absorbed(h, t) \in Coasts
      BY AbsorbedIn
    <2>4. 0 \in 0..Coast + 1
      BY ScratchNumbers
    <2>5. k \in HandRec
      BY <2>1, <2>2, <2>3, <2>4 DEF HandRec, Speeds, Coasts
    <2> QED BY <1>2, <2>1, <2>5
  <1>3. CASE h.last # NaN /\ t = h.last /\ h.idle >= Coast
    <2>1. k = [h EXCEPT !.idle = Coast + 1]
      BY <1>3 DEF Hands
    <2>2. Coast + 1 \in 0..Coast + 1
      BY ScratchNumbers
    <2>3. k \in HandRec /\ k.last = h.last /\ k.idle = Coast + 1 /\ k.coast = h.coast /\ k.speed = h.speed
      BY <2>1, <2>2 DEF HandRec
    <2> QED BY <1>3, <2>3
  <1>4. CASE h.last # NaN /\ t = h.last /\ h.idle < Coast
    <2>1. ~(h.idle >= Coast)
      BY <1>1, <1>4, ScratchNumbers
    <2>2. PICK c \in Parts(h.speed) :
            k = [h EXCEPT !.idle = @ + 1, !.coast = Clamped(Plus(@, c), -CoastCap, CoastCap)]
      BY <1>4, <2>1 DEF Hands
    <2> DEFINE x == Clamped(Plus(h.coast, c), -CoastCap, CoastCap)
               i == h.idle + 1
    <2>3. c \in Numbers
      <3>1. CASE h.speed = NaN
        BY <3>1 DEF Parts, Numbers
      <3>2. CASE h.speed # NaN
        <4>1. c \in {0} \cup Towards(0, h.speed) /\ 0 \in Numbers
          BY <3>2 DEF Parts, Numbers
        <4> QED BY <1>1, <4>1, TowardsIs
      <3> QED BY <3>1, <3>2
    <2>4. x \in Coasts
      <3>1. Plus(h.coast, c) \in Numbers
        BY <1>1, <2>3, SumsAre
      <3>2. -CoastCap \in Int /\ CoastCap \in Int /\ -CoastCap <= CoastCap
        BY ScratchNumbers
      <3> QED BY <3>1, <3>2, ClampedIs DEF Coasts
    <2>5. i \in 0..Coast + 1
      BY <1>1, <1>4, ScratchNumbers
    <2>6. k = [h EXCEPT !.idle = i, !.coast = x]
      BY <2>2
    <2> HIDE DEF x, i
    <2>7. k \in HandRec /\ k.last = h.last /\ k.idle = i /\ k.coast = x /\ k.speed = h.speed
      BY <2>4, <2>5, <2>6 DEF HandRec, Coasts
    <2> QED BY <1>4, <2>7 DEF x, i
  <1>5. h.idle >= Coast \/ h.idle < Coast
    BY <1>1, ScratchNumbers
  <1> QED BY <1>2, <1>3, <1>4, <1>5

\* The aim, and the servo's command.
LEMMA ServoIn ==
  ASSUME NEW h \in HandRec, NEW x \in Numbers
  PROVE  /\ AimOf(h) \in Frames \cup {NaN} /\ ServoRate(x) \in Numbers
         /\ Minus(AimOf(h), x) \in Numbers
  <1>1. h.last \in Numbers /\ h.coast \in Numbers
    <2>1. h.last \in Frames \cup {NaN} /\ h.coast \in Coasts
      BY DEF HandRec, Coasts
    <2> QED BY <2>1, ScratchNumbers DEF Frames, Coasts, Numbers
  <1>2. Plus(h.last, h.coast) \in Numbers
    BY <1>1, SumsAre
  <1>3. AimOf(h) \in Frames \cup {NaN}
    <2>1. 0 \in Int /\ MaxFrame \in Int /\ 0 <= MaxFrame
      BY ScratchNumbers
    <2> QED BY <1>2, <2>1, ClampedIs DEF AimOf, Frames
  <1>4. AimOf(h) \in Numbers
    BY <1>3, ScratchNumbers DEF Frames, Numbers
  <1>5. ServoRate(x) \in Numbers
    <2>1. CASE x = NaN
      BY <2>1 DEF ServoRate, Numbers
    <2>2. CASE x # NaN /\ Absolute(x) > Snap
      <3>1. ServoRate(x) = 0
        BY <2>2 DEF ServoRate
      <3> QED BY <3>1 DEF Numbers
    <2>3. CASE x # NaN /\ ~(Absolute(x) > Snap)
      <3> DEFINE step == IF Absolute(x) < Lag THEN Absolute(SignOf(x)) ELSE Absolute(x) \div Lag
      <3>1. x \in Int
        BY <2>3 DEF Numbers
      <3>2. SignOf(x) \in Int /\ Absolute(SignOf(x)) \in Int /\ Absolute(x) \in Int
        BY <3>1 DEF SignOf, Absolute
      <3>3. step \in Int
        BY <3>2, ScratchNumbers
      <3> HIDE DEF step
      <3>4. SignOf(x) * step \in Int
        BY <3>2, <3>3
      <3>5. ServoRate(x) = Clamped(SignOf(x) * step, -MaxRate, MaxRate)
        BY <2>3 DEF ServoRate, step
      <3>6. -MaxRate \in Int /\ MaxRate \in Int /\ -MaxRate <= MaxRate
        BY ScratchNumbers
      <3>7. Clamped(SignOf(x) * step, -MaxRate, MaxRate) \in (-MaxRate..MaxRate) \cup {NaN}
        BY <3>4, <3>6, ClampedIs DEF Numbers
      <3> QED BY <3>5, <3>6, <3>7 DEF Numbers
    <2> QED BY <2>1, <2>2, <2>3
  <1>6. Minus(AimOf(h), x) \in Numbers
    BY <1>4, SumsAre
  <1> QED BY <1>3, <1>5, <1>6

\* The time without a call, in chunks, as far as it matters.
Aged(age) == IF age > Hold THEN age ELSE age + 1

\* The end of a chunk.
LEMMA MovedIs ==
  ASSUME NEW f \in FeederRec, NEW command \in Numbers, NEW arrived \in BOOLEAN,
         NEW g \in Moved(f, command, arrived)
  PROVE  /\ g \in FeederRec
         /\ g.target = f.target /\ g.rate = f.rate /\ g.inertia = f.inertia /\ g.hand = f.hand
         /\ g.age = Aged(f.age)
         /\ g.cursor = Clamped(Plus(f.cursor, g.platter), 0, MaxFrame)
         /\ IF arrived \/ f.age >= Hold THEN g.platter = 0
            ELSE IF f.inertia THEN g.platter \in Towards(f.platter, command)
            ELSE g.platter = command
  <1> DEFINE still == arrived \/ f.age >= Hold
  <1>1. PICK v \in IF still THEN {0} ELSE IF f.inertia THEN Towards(f.platter, command) ELSE {command} :
          g = [f EXCEPT !.platter = v, !.cursor = Clamped(Plus(@, v), 0, MaxFrame),
                        !.age = IF @ > Hold THEN @ ELSE @ + 1]
    BY DEF Moved
  <1> DEFINE at == Clamped(Plus(f.cursor, v), 0, MaxFrame)
             age == Aged(f.age)
  <1>2. f.cursor \in Frames \cup {NaN} /\ f.platter \in Numbers /\ f.age \in 0..Hold + 1
    BY DEF FeederRec, Numbers
  <1>3. v \in Numbers
    <2>1. CASE still
      BY <1>1, <2>1 DEF Numbers
    <2>2. CASE ~still /\ f.inertia
      <3>1. v \in Towards(f.platter, command)
        BY <1>1, <2>2
      <3> QED BY <1>2, <3>1, TowardsIs
    <2>3. CASE ~still /\ ~f.inertia
      BY <1>1, <2>3
    <2> QED BY <2>1, <2>2, <2>3
  <1>4. at \in Frames \cup {NaN}
    <2>1. 0 \in Int /\ MaxFrame \in Int /\ 0 <= MaxFrame /\ f.cursor \in Numbers
      BY <1>2, ScratchNumbers DEF Frames, Numbers
    <2>2. Plus(f.cursor, v) \in Numbers
      BY <1>3, <2>1, SumsAre
    <2> QED BY <2>1, <2>2, ClampedIs DEF Frames
  <1>5. age \in 0..Hold + 1
    BY <1>2, ScratchNumbers DEF Aged
  <1>6. g = [f EXCEPT !.platter = v, !.cursor = at, !.age = age]
    BY <1>1 DEF Aged
  <1>7. IF still THEN v = 0 ELSE IF f.inertia THEN v \in Towards(f.platter, command) ELSE v = command
    BY <1>1
  <1> HIDE DEF at, age, still
  <1>8. /\ g \in FeederRec /\ g.platter = v /\ g.cursor = at /\ g.age = age
        /\ g.target = f.target /\ g.rate = f.rate /\ g.inertia = f.inertia /\ g.hand = f.hand
    BY <1>3, <1>4, <1>5, <1>6 DEF FeederRec, Numbers
  <1> QED BY <1>7, <1>8 DEF at, age, still

\* A chunk: the hand is followed, jumped to, or not asked for.
LEMMA ChunkIs ==
  ASSUME feeder \in FeederRec, Chunk
  PROVE  /\ feeder' \in FeederRec /\ feeder'.target = feeder.target
         /\ \/ /\ feeder.target = NaN /\ feeder'.hand = feeder.hand
               /\ \E g \in {[feeder EXCEPT !.inertia = FALSE]} :
                    g \in FeederRec /\ g.cursor = feeder.cursor /\ feeder' \in Moved(g, feeder.rate, FALSE)
            \/ /\ feeder.target # NaN
               /\ \E h \in Hands(feeder.hand, feeder.target) :
                    LET err == Minus(AimOf(h), feeder.cursor) IN
                    \/ /\ Snaps(err) /\ feeder'.hand = NewHand(feeder.target)
                       /\ feeder'.platter = 0 /\ feeder'.cursor = feeder.target
                       /\ feeder'.age = Aged(feeder.age)
                       /\ feeder'.inertia = feeder.inertia
                    \/ /\ ~Snaps(err)
                       /\ \E g \in {[feeder EXCEPT !.hand = h]} :
                            /\ g \in FeederRec /\ g.cursor = feeder.cursor /\ g.hand = h
                            /\ feeder' \in Moved(g, ServoRate(err), err = 0 /\ ~(feeder.inertia /\ feeder.platter # 0))
  <1>1. /\ feeder.cursor \in Frames \cup {NaN} /\ feeder.target \in Frames \cup {NaN}
        /\ feeder.rate \in Numbers /\ feeder.hand \in HandRec /\ feeder.age \in 0..Hold + 1
        /\ feeder.inertia \in BOOLEAN /\ feeder.platter \in Numbers
    <2>1. /\ feeder.cursor \in Frames \cup {NaN} /\ feeder.target \in Frames \cup {NaN}
          /\ feeder.rate \in Rates \cup {0} /\ feeder.hand \in HandRec /\ feeder.age \in 0..Hold + 1
          /\ feeder.inertia \in BOOLEAN /\ feeder.platter \in Int \cup {NaN}
      BY DEF FeederRec
    <2>2. feeder.rate \in Numbers /\ feeder.platter \in Numbers
      BY <2>1, ScratchNumbers DEF Numbers
    <2> QED BY <2>1, <2>2
  <1>2. feeder.cursor \in Numbers
    BY <1>1, ScratchNumbers DEF Frames, Numbers
  <1>3. CASE feeder.target = NaN
    <2> DEFINE g == [feeder EXCEPT !.inertia = FALSE]
    <2>1. feeder' \in Moved(g, feeder.rate, FALSE)
      BY <1>3 DEF Chunk, FreeChunks
    <2>2. /\ g \in FeederRec /\ g.hand = feeder.hand /\ g.target = feeder.target /\ g.cursor = feeder.cursor
      BY DEF FeederRec
    <2>3. feeder' \in FeederRec /\ feeder'.target = feeder.target /\ feeder'.hand = feeder.hand
      <3> HIDE DEF g
      <3> QED BY <1>1, <2>1, <2>2, MovedIs
    <2> QED BY <1>3, <2>1, <2>2, <2>3
  <1>4. CASE feeder.target # NaN
    <2>1. PICK h \in Hands(feeder.hand, feeder.target) :
            LET err == Minus(AimOf(h), feeder.cursor)
                moving == feeder.inertia /\ feeder.platter # 0 IN
            feeder' \in IF Snaps(err)
                        THEN Moved([feeder EXCEPT !.hand = NewHand(feeder.target),
                                      !.cursor = feeder.target, !.platter = 0], 0, TRUE)
                        ELSE Moved([feeder EXCEPT !.hand = h], ServoRate(err), err = 0 /\ ~moving)
      BY <1>4 DEF Chunk, ServoChunks
    <2> DEFINE err == Minus(AimOf(h), feeder.cursor)
               there == err = 0 /\ ~(feeder.inertia /\ feeder.platter # 0)
    <2>2. h \in HandRec
      BY <1>1, HandsAre
    <2>3. CASE Snaps(err)
      <3> DEFINE hand == NewHand(feeder.target)
                 g == [feeder EXCEPT !.hand = hand, !.cursor = feeder.target, !.platter = 0]
      <3>1. feeder' \in Moved(g, 0, TRUE)
        BY <2>1, <2>3
      <3>2. hand \in HandRec
        <4>1. 0 \in 0..Coast + 1 /\ 0 \in -CoastCap..CoastCap /\ 0 \in -MaxFrame..MaxFrame
          BY ScratchNumbers
        <4> QED BY <1>1, <4>1 DEF NewHand, HandRec
      <3> HIDE DEF hand
      <3>3. /\ g \in FeederRec /\ g.hand = hand /\ g.target = feeder.target
            /\ g.cursor = feeder.target /\ g.platter = 0 /\ g.age = feeder.age /\ g.inertia = feeder.inertia
        <4>1. feeder.target \in Frames \cup {NaN} /\ 0 \in Int \cup {NaN}
          BY <1>1
        <4> QED BY <3>2, <4>1 DEF FeederRec
      <3> HIDE DEF g
      <3>4. 0 \in Numbers
        BY DEF Numbers
      <3>5. /\ feeder' \in FeederRec /\ feeder'.target = feeder.target /\ feeder'.hand = hand
            /\ feeder'.platter = 0 /\ feeder'.inertia = feeder.inertia
            /\ feeder'.age = Aged(feeder.age)
            /\ feeder'.cursor = Clamped(Plus(feeder.target, 0), 0, MaxFrame)
        <4>1. TRUE \in BOOLEAN
          OBVIOUS
        <4>2. feeder' \in FeederRec /\ feeder'.target = g.target /\ feeder'.hand = g.hand
          BY ZenonT(40), <3>1, <3>3, <3>4, <4>1, MovedIs
        <4>3. feeder'.inertia = g.inertia
          BY ZenonT(40), <3>1, <3>3, <3>4, <4>1, MovedIs
        <4>6. feeder'.age = Aged(g.age)
          BY ZenonT(40), <3>1, <3>3, <3>4, <4>1, MovedIs
        <4>4. feeder'.platter = 0
          BY <3>1, <3>3, <3>4, <4>1, MovedIs
        <4>5. feeder'.cursor = Clamped(Plus(g.cursor, feeder'.platter), 0, MaxFrame)
          BY ZenonT(40), <3>1, <3>3, <3>4, <4>1, MovedIs
        <4> QED BY <3>3, <4>2, <4>3, <4>4, <4>5, <4>6
      <3>6. Clamped(Plus(feeder.target, 0), 0, MaxFrame) = feeder.target
        <4>1. feeder.target \in 0..MaxFrame /\ 0 # NaN
          BY <1>1, <1>4, ScratchNumbers DEF Frames
        <4>2. Plus(feeder.target, 0) = feeder.target
          BY <1>4, <4>1 DEF Plus
        <4> QED BY <1>4, <4>1, <4>2, ScratchNumbers DEF Clamped
      <3> QED BY <1>4, <2>3, <3>5, <3>6 DEF hand
    <2>4. CASE ~Snaps(err)
      <3> DEFINE g == [feeder EXCEPT !.hand = h]
      <3>1. feeder' \in Moved(g, ServoRate(err), there)
        BY <2>1, <2>4
      <3>2. g \in FeederRec /\ g.hand = h /\ g.target = feeder.target /\ g.cursor = feeder.cursor
        BY <2>2 DEF FeederRec
      <3>3. ServoRate(err) \in Numbers
        BY <1>2, <2>2, ServoIn
      <3>4. there \in BOOLEAN
        OBVIOUS
      <3>5. feeder' \in FeederRec /\ feeder'.target = feeder.target
        <4> HIDE DEF g, err, there
        <4> QED BY <3>1, <3>2, <3>3, <3>4, MovedIs
      <3>6. g \in {[feeder EXCEPT !.hand = h]}
        OBVIOUS
      <3> HIDE DEF g
      <3> QED BY <1>4, <2>4, <3>1, <3>2, <3>5, <3>6
    <2> QED BY <2>3, <2>4
  <1> QED BY <1>3, <1>4

\* What position() answers, and where the file branch lands: a place in the track.
LEMMA LandsIn ==
  ASSUME NEW x \in Frames \cup {NaN}
  PROVE  Above0(x) \in Frames /\ LandedAt(x) \in Frames
  <1>1. 0 \in Frames /\ \A y \in Frames : ~(y < 0)
    BY ScratchNumbers DEF Frames
  <1> QED BY <1>1 DEF Above0, LandedAt

\* The commands that end a gesture, or find none, and those that begin one.
LEMMA CallsKeepDeck ==
  ASSUME ScratchInv, ScratchCalls
  PROVE  ScratchInv'
  <1>1. /\ gear \in GearRec /\ place \in Frames /\ clock \in {"true", "inflated", "unknown"}
        /\ landed \in Frames \cup {NaN, NoFrame} /\ feeder \in FeederRec \cup {NoFeeder}
        /\ (Scratching => gear.pad = "scratch" /\ gear.locked /\ gear.wide)
        /\ (~Scratching => DeckSettled)
    BY DEF ScratchInv, ScratchTypeOK
  <1>2. /\ Scratching => feeder.cursor \in Frames \cup {NaN} /\ feeder \in FeederRec
        /\ gear.playing \in BOOLEAN /\ gear.inner \in {"none", "paused", "playing"}
    BY <1>1 DEF Scratching, FeederRec, GearRec
  <1>3. 0 \in Frames /\ NoFrame \notin Frames /\ NaN \notin Frames /\ NoFrame # NaN
    BY ScratchNumbers DEF Frames
  <1>4. CASE LoadTrack
    <2>1. PICK decodes \in BOOLEAN :
            gear' = [inner |-> "paused", playing |-> FALSE, pcm |-> decodes, pad |-> "normal",
                     locked |-> FALSE, wide |-> FALSE, eos |-> FALSE, ended |-> FALSE]
      BY <1>4 DEF LoadTrack
    <2>2. place' = 0 /\ clock' = "true" /\ landed' = NoFrame /\ feeder' = NoFeeder
      BY <1>4 DEF LoadTrack
    <2>3. gear' \in GearRec
      BY <2>1 DEF GearRec
    <2>4. Reported' = place'
      BY <2>2 DEF Reported, Scratching
    <2> QED BY <1>3, <2>1, <2>2, <2>3, <2>4 DEF ScratchInv, ScratchTypeOK, DeckSettled, Scratching
  <1>5. CASE RebuildDeck
    <2> DEFINE g == [HandedBack(gear) EXCEPT !.inner = "paused", !.eos = FALSE]
               at == Reported
    <2>1. at \in Frames
      <3>1. CASE Scratching
        BY <1>2, <3>1, LandsIn DEF Reported
      <3>2. CASE ~Scratching /\ landed # NoFrame
        <4>1. landed \in Frames \cup {NaN}
          BY <1>1, <3>2
        <4> QED BY <3>2, <4>1, LandsIn DEF Reported
      <3>3. CASE ~Scratching /\ landed = NoFrame
        BY <1>1, <1>5, <3>3 DEF Reported, RebuildDeck, RestoredAt
      <3> QED BY <3>1, <3>2, <3>3
    <2>2. g \in GearRec /\ g.inner = "paused" /\ ~g.eos /\ g.pad = "normal" /\ ~g.locked /\ ~g.wide
          /\ g.playing = gear.playing /\ g.pcm = gear.pcm
      BY <1>1 DEF HandedBack, GearRec
    <2>3. clock' = "true" /\ landed' = NoFrame /\ feeder' = NoFeeder
      BY <1>5 DEF RebuildDeck
    <2>4. CASE gear.playing
      <3>1. gear' = [g EXCEPT !.playing = TRUE, !.eos = FALSE, !.ended = FALSE,
                              !.inner = IF @ = "none" THEN @ ELSE "playing"]
        BY <1>5, <2>4 DEF RebuildDeck, Playing
      <3>2. place' = at
        BY <1>5, <2>2, <2>4 DEF RebuildDeck, Playing, RestoredAt
      <3> HIDE DEF g, at
      <3>3. /\ gear' \in GearRec /\ gear'.inner = "playing" /\ gear'.playing /\ gear'.pad = "normal"
            /\ ~gear'.locked /\ ~gear'.wide
        BY <2>2, <3>1 DEF GearRec
      <3>4. Reported' = place'
        BY <2>3 DEF Reported, Scratching
      <3> QED BY <2>1, <2>3, <3>2, <3>3, <3>4 DEF ScratchInv, ScratchTypeOK, DeckSettled, Scratching
    <2>5. CASE ~gear.playing
      <3>1. gear' = g /\ place' = at
        BY <1>5, <2>5 DEF RebuildDeck, RestoredAt
      <3> HIDE DEF g, at
      <3>2. Reported' = place'
        BY <2>3 DEF Reported, Scratching
      <3> QED BY <2>1, <2>2, <2>3, <2>5, <3>1, <3>2 DEF ScratchInv, ScratchTypeOK, DeckSettled, Scratching
    <2> QED BY <2>4, <2>5
  <1>6. CASE PlayDeck
    <2>1. /\ gear' = [gear EXCEPT !.playing = TRUE, !.eos = FALSE, !.ended = FALSE,
                                  !.inner = IF @ = "none" THEN @ ELSE "playing"]
          /\ place' = IF gear.inner # "none" /\ gear.eos THEN 0 ELSE place
          /\ clock' = IF gear.inner = "paused" THEN "true" ELSE clock
          /\ landed' = NoFrame /\ feeder' = feeder /\ gear.inner # "none"
      BY <1>6 DEF PlayDeck, Playing, IsLoaded
    <2>2. /\ gear' \in GearRec /\ gear'.inner = "playing" /\ gear'.playing = TRUE /\ gear'.pad = gear.pad
          /\ gear'.locked = gear.locked /\ gear'.wide = gear.wide
      BY <1>1, <2>1 DEF GearRec
    <2>3. place' \in Frames /\ clock' \in {"true", "inflated", "unknown"}
      BY <1>1, <1>3, <2>1
    <2>4. CASE Scratching
      BY <1>1, <2>1, <2>2, <2>3, <2>4 DEF ScratchInv, ScratchTypeOK, DeckSettled, Scratching
    <2>5. CASE ~Scratching
      <3>1. clock' # "inflated"
        <4>1. gear.inner = "paused" \/ gear.inner = "playing"
          BY <1>2, <2>1
        <4> QED BY <1>1, <2>1, <2>5, <4>1 DEF DeckSettled
      <3>2. clock' # "unknown" => Reported' = place'
        BY <2>1, <2>3, <2>5, <3>1 DEF Reported, Scratching
      <3> QED BY <1>1, <2>1, <2>2, <2>3, <2>5, <3>1, <3>2
              DEF ScratchInv, ScratchTypeOK, DeckSettled, Scratching
    <2> QED BY <2>4, <2>5
  <1>7. CASE PauseDeck
    <2> DEFINE g == [gear EXCEPT !.inner = "paused", !.playing = FALSE]
    <2>1. /\ g \in GearRec /\ g.inner = "paused" /\ ~g.playing /\ g.pad = gear.pad
          /\ g.locked = gear.locked /\ g.wide = gear.wide
      BY <1>1 DEF GearRec
    <2>2. StopFeeder(g)
      BY <1>7 DEF PauseDeck
    <2> HIDE DEF g
    <2>3. CASE ~Scratching
      <3>1. gear' = g /\ UNCHANGED <<place, clock, landed, feeder>>
        BY <2>2, <2>3 DEF StopFeeder
      <3>2. Reported' = Reported /\ ~Scratching'
        BY <2>3, <3>1 DEF Reported, Scratching
      <3> QED BY <1>1, <2>1, <2>3, <3>1, <3>2 DEF ScratchInv, ScratchTypeOK, DeckSettled
    <2>4. CASE Scratching
      <3>1. /\ gear' = HandedBack(g) /\ place' = LandedAt(feeder.cursor) /\ landed' = feeder.cursor
            /\ clock' = "inflated" /\ feeder' = NoFeeder
        BY <2>2, <2>4 DEF StopFeeder
      <3>2. /\ gear' \in GearRec /\ gear'.inner = "paused" /\ ~gear'.playing /\ gear'.pad = "normal"
            /\ ~gear'.locked /\ ~gear'.wide
        BY <2>1, <3>1 DEF HandedBack, GearRec
      <3>3. place' \in Frames /\ landed' # NoFrame /\ landed' \in Frames \cup {NaN}
        BY <1>2, <1>3, <2>4, <3>1, LandsIn
      <3>4. Reported' = place' /\ ~Scratching'
        BY <3>1, <3>3 DEF Reported, LandedAt, Scratching
      <3> QED BY <3>1, <3>2, <3>3, <3>4 DEF ScratchInv, ScratchTypeOK, DeckSettled
    <2> QED BY <2>3, <2>4
  <1>8. CASE StopScratch
    <2> DEFINE g == HandedBack([gear EXCEPT !.inner = "paused", !.playing = FALSE])
               at == LandedAt(feeder.cursor)
    <2>1. /\ g \in GearRec /\ g.inner = "paused" /\ ~g.playing /\ g.pad = "normal"
          /\ ~g.locked /\ ~g.wide /\ g.eos = gear.eos
      BY <1>1 DEF GearRec, HandedBack
    <2>2. Scratching /\ feeder' = NoFeeder
      BY <1>8 DEF StopScratch
    <2>3. at \in Frames
      BY <1>2, <2>2, LandsIn
    <2>4. CASE gear.playing
      <3>1. /\ gear' = [g EXCEPT !.playing = TRUE, !.eos = FALSE, !.ended = FALSE,
                                 !.inner = IF @ = "none" THEN @ ELSE "playing"]
            /\ place' = IF g.inner # "none" /\ g.eos THEN 0 ELSE at
            /\ clock' = IF g.inner = "paused" THEN "true" ELSE clock
            /\ landed' = NoFrame
        BY <1>8, <2>4 DEF StopScratch, Playing
      <3> HIDE DEF g, at
      <3>2. /\ gear' \in GearRec /\ gear'.inner = "playing" /\ gear'.playing /\ gear'.pad = "normal"
            /\ ~gear'.locked /\ ~gear'.wide
        BY <2>1, <3>1 DEF GearRec
      <3>3. place' \in Frames /\ clock' = "true"
        BY <1>3, <2>1, <2>3, <3>1
      <3>4. Reported' = place' /\ ~Scratching'
        BY <2>2, <3>1, <3>3 DEF Reported, Scratching
      <3> QED BY <2>2, <3>1, <3>2, <3>3, <3>4 DEF ScratchInv, ScratchTypeOK, DeckSettled
    <2>5. CASE ~gear.playing
      <3>1. gear' = g /\ place' = at /\ clock' = "inflated" /\ landed' = feeder.cursor
        BY <1>8, <2>5 DEF StopScratch
      <3>2. landed' # NoFrame /\ landed' \in Frames \cup {NaN}
        BY <1>2, <1>3, <2>2, <3>1
      <3>3. Reported' = place' /\ ~Scratching'
        BY <2>2, <3>1, <3>2 DEF Reported, LandedAt, Scratching
      <3> HIDE DEF g, at
      <3> QED BY <2>1, <2>2, <2>3, <3>1, <3>2, <3>3 DEF ScratchInv, ScratchTypeOK, DeckSettled
    <2> QED BY <2>4, <2>5
  <1>9. CASE \E p \in {0, MaxFrame} : SeekDeck(p)
    <2>1. PICK p \in {0, MaxFrame} : SeekDeck(p)
      BY <1>9
    <2>2. /\ ~Scratching /\ gear' = [gear EXCEPT !.eos = FALSE] /\ place' = p
          /\ clock' = (IF clock = "true" THEN "true" ELSE "unknown") /\ landed' = NoFrame
          /\ feeder' = feeder
      BY <2>1 DEF SeekDeck
    <2>3. p \in Frames
      BY ScratchNumbers DEF Frames
    <2>4. /\ gear' \in GearRec /\ gear'.inner = gear.inner /\ gear'.playing = gear.playing
          /\ gear'.pad = gear.pad /\ gear'.locked = gear.locked /\ gear'.wide = gear.wide
          /\ gear'.ended = gear.ended
      BY <1>1, <2>2 DEF GearRec
    <2>5. clock' # "unknown" => Reported' = place'
      BY <2>2 DEF Reported, Scratching
    <2>6. ~Scratching' /\ clock' # "inflated" /\ IsLoaded' = IsLoaded
      BY <2>2, <2>4 DEF Scratching, IsLoaded
    <2> QED BY <1>1, <2>2, <2>3, <2>4, <2>5, <2>6 DEF ScratchInv, ScratchTypeOK, DeckSettled
  <1>10. ASSUME NEW rate \in Rates \cup {0}, NEW target \in Frames \cup {NaN}, NEW inertia \in BOOLEAN,
                Gesture(rate, target, inertia)
         PROVE  ScratchInv'
    <2>1. /\ clock' = "inflated" /\ place' = place /\ landed' = landed
          /\ feeder' = (IF Scratching THEN Updated(feeder, rate, target, inertia)
                        ELSE Started(rate, target, inertia))
          /\ gear' = IF Scratching THEN [gear EXCEPT !.eos = FALSE]
                     ELSE [gear EXCEPT !.eos = FALSE, !.pad = "scratch", !.locked = TRUE,
                                       !.wide = TRUE, !.inner = "playing"]
      BY <1>10 DEF Gesture
    <2>2. feeder' \in FeederRec
      <3>0. 0 \in 0..Hold + 1 /\ 0 \in Int \cup {NaN}
        BY ScratchNumbers
      <3>1. CASE Scratching
        <4>1. feeder' = [feeder EXCEPT !.rate = rate, !.target = target, !.inertia = inertia, !.age = 0]
          BY <2>1, <3>1 DEF Updated
        <4> QED BY <1>2, <3>0, <3>1, <4>1 DEF FeederRec
      <3>2. CASE ~Scratching
        <4> DEFINE hand == NewHand(target)
                   from == StartFrame(target)
        <4>1. hand \in HandRec
          <5>1. 0 \in 0..Coast + 1 /\ 0 \in -CoastCap..CoastCap /\ 0 \in -MaxFrame..MaxFrame
            BY ScratchNumbers
          <5> QED BY <5>1 DEF NewHand, HandRec
        <4>2. from \in Frames \cup {NaN}
          BY <1>1 DEF StartFrame
        <4>3. feeder' = [cursor |-> from, target |-> target, rate |-> rate, inertia |-> inertia,
                         age |-> 0, hand |-> hand, platter |-> 0]
          BY <2>1, <3>2 DEF Started
        <4> HIDE DEF hand, from
        <4> QED BY <3>0, <4>1, <4>2, <4>3 DEF FeederRec
      <3> QED BY <3>1, <3>2
    <2>3. feeder' # NoFeeder
      BY <2>2, FeederAssumption
    <2>4. gear' \in GearRec /\ gear'.pad = "scratch" /\ gear'.locked /\ gear'.wide
      <3>1. CASE Scratching
        BY <1>1, <2>1, <3>1 DEF GearRec
      <3>2. CASE ~Scratching
        BY <1>1, <2>1, <3>2 DEF GearRec
      <3> QED BY <3>1, <3>2
    <2> QED BY <1>1, <2>1, <2>2, <2>3, <2>4 DEF ScratchInv, ScratchTypeOK, Scratching
  <1>11. CASE \E r \in Rates : ScratchAt(r)
    BY <1>10, <1>11 DEF ScratchAt
  <1>12. CASE \E p \in Frames, inert \in BOOLEAN : ScratchTo(p, inert)
    BY <1>10, <1>12 DEF ScratchTo
  <1> QED BY <1>4, <1>5, <1>6, <1>7, <1>8, <1>9, <1>11, <1>12 DEF ScratchCalls

\* The feeder, and the file branch.
LEMMA RunsKeepDeck ==
  ASSUME ScratchInv, ScratchRuns
  PROVE  ScratchInv'
  <1>1. /\ gear \in GearRec /\ place \in Frames /\ clock \in {"true", "inflated", "unknown"}
        /\ landed \in Frames \cup {NaN, NoFrame} /\ feeder \in FeederRec \cup {NoFeeder}
        /\ (Scratching => gear.pad = "scratch" /\ gear.locked /\ gear.wide)
        /\ (~Scratching => DeckSettled)
    BY DEF ScratchInv, ScratchTypeOK
  <1>2. CASE Chunk
    <2>1. feeder \in FeederRec /\ Scratching
      BY <1>1, <1>2 DEF Chunk, Scratching
    <2>2. feeder' \in FeederRec
      BY <1>2, <2>1, ChunkIs
    <2>3. UNCHANGED <<gear, place, clock, landed>> /\ feeder' # NoFeeder
      BY <1>2, <2>2, FeederAssumption DEF Chunk
    <2> QED BY <1>1, <2>1, <2>2, <2>3 DEF ScratchInv, ScratchTypeOK, Scratching
  <1>3. CASE FileAdvances
    <2>1. /\ gear.inner = "playing" /\ ~gear.locked /\ place < MaxFrame /\ place' = place + 1
          /\ UNCHANGED <<gear, clock, landed, feeder>>
      BY <1>3 DEF FileAdvances
    <2>2. ~Scratching /\ ~Scratching'
      BY <1>1, <2>1 DEF Scratching
    <2>3. place' \in Frames
      BY <1>1, <2>1, ScratchNumbers DEF Frames
    <2>4. clock' # "unknown" => Reported' = place'
      BY <1>1, <2>1, <2>2 DEF Reported, DeckSettled
    <2> QED BY <1>1, <2>1, <2>2, <2>3, <2>4 DEF ScratchInv, ScratchTypeOK, DeckSettled, IsLoaded
  <1>4. CASE EndsOfStream
    <2>1. /\ gear.inner = "playing" /\ ~gear.locked
          /\ gear' = [gear EXCEPT !.inner = "paused", !.eos = TRUE, !.ended = TRUE]
          /\ UNCHANGED <<place, clock, landed, feeder>>
      BY <1>4 DEF EndsOfStream
    <2>2. ~Scratching /\ ~Scratching' /\ Reported' = Reported
      BY <1>1, <2>1 DEF Scratching, Reported
    <2>3. /\ gear' \in GearRec /\ gear'.inner = "paused" /\ gear'.ended = TRUE /\ gear'.pad = gear.pad
          /\ gear'.locked = gear.locked /\ gear'.wide = gear.wide
      BY <1>1, <2>1 DEF GearRec
    <2> QED BY <1>1, <2>1, <2>2, <2>3 DEF ScratchInv, ScratchTypeOK, DeckSettled, IsLoaded
  <1> QED BY <1>2, <1>3, <1>4 DEF ScratchRuns

\* A deck keeps its types, and what is known of it while it is not scratched.
LEMMA ScratchHolds == ScratchSpec => []ScratchInv
  <1>1. ScratchInit => ScratchInv
    <2> SUFFICES ASSUME ScratchInit PROVE ScratchInv
      OBVIOUS
    <2>1. gear \in GearRec /\ place \in Frames /\ ~Scratching
      BY ScratchNumbers DEF ScratchInit, GearRec, Frames, Scratching
    <2>2. Reported = place
      BY <2>1 DEF ScratchInit, Reported
    <2> QED BY <2>1, <2>2 DEF ScratchInit, ScratchInv, ScratchTypeOK, DeckSettled, IsLoaded
  <1>2. ScratchInv /\ [ScratchCalls \/ ScratchRuns]_scratchVars => ScratchInv'
    <2> SUFFICES ASSUME ScratchInv, [ScratchCalls \/ ScratchRuns]_scratchVars PROVE ScratchInv'
      OBVIOUS
    <2>1. CASE ScratchCalls
      BY <2>1, CallsKeepDeck
    <2>2. CASE ScratchRuns
      BY <2>2, RunsKeepDeck
    <2>3. CASE UNCHANGED scratchVars
      BY <2>3 DEF scratchVars, ScratchInv, ScratchTypeOK, Scratching, DeckSettled, IsLoaded, Reported
    <2> QED BY <2>1, <2>2, <2>3
  <1> QED BY <1>1, <1>2, PTL DEF ScratchSpec

\* A deck that is not scratched is on its file branch, with nothing held back, plays as it
\* was asked to, and is where position() says (stop_scratch_feeder, play, pause, seek and
\* set_devices in pipeline.rs), whatever gestures there were.
THEOREM DeckHandsBackHolds == ScratchSpec => []DeckHandsBack
  <1>1. ScratchInv => DeckHandsBack
    BY DEF ScratchInv, DeckSettled, DeckHandsBack
  <1> QED BY <1>1, ScratchHolds, PTL

----------------------------------------------------------------------------
(* A gesture that keeps to its mode, or is handed from position mode.       *)

\* Nothing is "not a number" but the target of velocity mode, and a hand not yet seen.
HandSeen(f) ==
    /\ f.cursor # NaN /\ f.platter # NaN
    /\ f.target # NaN => f.hand.last # NaN
    /\ f.hand.last # NaN => f.hand.speed # NaN /\ f.hand.coast # NaN
DeckKnown == ScratchInv /\ landed # NaN /\ (Scratching => HandSeen(feeder))

\* The fields of a feeder that has seen its hand.
LEMMA SeenAre ==
  ASSUME NEW f \in FeederRec, HandSeen(f), f.target # NaN
  PROVE  /\ f.cursor \in 0..MaxFrame /\ f.target \in 0..MaxFrame /\ f.platter \in Int
         /\ f.hand \in HandRec /\ f.hand.last \in 0..MaxFrame /\ f.hand.last # NaN
         /\ f.hand.speed \in -MaxFrame..MaxFrame /\ f.hand.coast \in -CoastCap..CoastCap
         /\ f.hand.speed # NaN /\ f.hand.coast # NaN /\ f.age \in 0..Hold + 1
  <1>1. /\ f.cursor \in Frames \cup {NaN} /\ f.target \in Frames \cup {NaN} /\ f.hand \in HandRec
        /\ f.platter \in Int \cup {NaN} /\ f.age \in 0..Hold + 1
    BY DEF FeederRec
  <1>2. /\ f.hand.last \in Frames \cup {NaN} /\ f.hand.speed \in (-MaxFrame..MaxFrame) \cup {NaN}
        /\ f.hand.coast \in (-CoastCap..CoastCap) \cup {NaN}
    BY <1>1 DEF HandRec
  <1> QED BY <1>1, <1>2 DEF HandSeen, Frames

\* The aim of a hand whose place and coast are known.
LEMMA AimIs ==
  ASSUME NEW x \in 0..MaxFrame, NEW c \in -CoastCap..CoastCap
  PROVE  /\ Plus(x, c) = x + c
         /\ Clamped(Plus(x, c), 0, MaxFrame) \in 0..MaxFrame
         /\ Clamped(Plus(x, c), 0, MaxFrame) =
               IF x + c < 0 THEN 0 ELSE IF x + c > MaxFrame THEN MaxFrame ELSE x + c
         /\ Absolute(Clamped(Plus(x, c), 0, MaxFrame) - x) <= CoastCap
  <1>1. x \in Int /\ c \in Int /\ x # NaN /\ c # NaN /\ x + c # NaN /\ MaxFrame \in Nat /\ CoastCap \in Nat
    BY ScratchNumbers
  <1>2. Plus(x, c) = x + c
    BY <1>1 DEF Plus
  <1> DEFINE a == Clamped(Plus(x, c), 0, MaxFrame)
  <1>3. a = IF x + c < 0 THEN 0 ELSE IF x + c > MaxFrame THEN MaxFrame ELSE x + c
    BY <1>1, <1>2 DEF Clamped
  <1> HIDE DEF a
  <1>4. 0 <= x /\ x <= MaxFrame /\ -CoastCap <= c /\ c <= CoastCap
    BY <1>1
  <1>5. a \in Int /\ 0 <= a /\ a <= MaxFrame /\ a - x <= CoastCap /\ x - a <= CoastCap
    <2>1. CASE x + c < 0
      <3>1. a = 0
        BY <1>3, <2>1
      <3> QED BY <1>1, <1>4, <2>1, <3>1
    <2>2. CASE ~(x + c < 0) /\ x + c > MaxFrame
      <3>1. a = MaxFrame
        BY <1>3, <2>2
      <3> QED BY <1>1, <1>4, <2>2, <3>1
    <2>3. CASE ~(x + c < 0) /\ ~(x + c > MaxFrame)
      <3>1. a = x + c
        BY <1>3, <2>3
      <3> QED BY <1>1, <1>4, <2>3, <3>1
    <2> QED BY <2>1, <2>2, <2>3
  <1>6. Absolute(a - x) <= CoastCap
    <2>1. Absolute(a - x) = IF a - x < 0 THEN -(a - x) ELSE a - x
      BY DEF Absolute
    <2> QED BY <1>1, <1>5, <2>1
  <1>7. a \in 0..MaxFrame
    BY <1>1, <1>5
  <1> QED BY <1>2, <1>3, <1>6, <1>7 DEF a

\* A hand that moves one way never turns the aim back (HandTracker::step): what has coasted
\* is used up against the motion, and grows only as the hand went.
LEMMA AimFollows ==
  ASSUME NEW h \in HandRec, h.last # NaN, h.speed # NaN, h.coast # NaN,
         NEW t \in 0..MaxFrame, NEW k \in Hands(h, t)
  PROVE  /\ k.last = t /\ k.speed # NaN /\ k.coast # NaN
         /\ AimOf(k) - AimOf(h) < 0 => t - h.last < 0 \/ h.speed < 0
         /\ AimOf(k) - AimOf(h) > 0 => t - h.last > 0 \/ h.speed > 0
  <1> DEFINE x == h.last
             s == h.speed
             c == h.coast
             d == k.coast
             Inside(y) == IF y < 0 THEN 0 ELSE IF y > MaxFrame THEN MaxFrame ELSE y
  <1>1. /\ x \in 0..MaxFrame /\ s \in -MaxFrame..MaxFrame /\ c \in -CoastCap..CoastCap
        /\ t # NaN /\ t \in Frames \cup {NaN} /\ t \in Numbers /\ x \in Numbers /\ s \in Numbers /\ c \in Numbers
    <2>1. /\ h.last \in Frames \cup {NaN} /\ h.speed \in (-MaxFrame..MaxFrame) \cup {NaN}
          /\ h.coast \in (-CoastCap..CoastCap) \cup {NaN}
      BY DEF HandRec
    <2>2. x \in 0..MaxFrame /\ s \in -MaxFrame..MaxFrame /\ c \in -CoastCap..CoastCap
      BY <2>1 DEF Frames
    <2>3. t # NaN /\ t \in Frames \cup {NaN} /\ t \in Numbers
      BY ScratchNumbers DEF Frames, Numbers
    <2>4. x \in Numbers /\ s \in Numbers /\ c \in Numbers
      BY <2>2, ScratchNumbers DEF Numbers
    <2> QED BY <2>2, <2>3, <2>4
  <1>2. /\ k \in HandRec /\ k.last = t
        /\ \/ /\ t # x /\ d = Absorbed(h, t) /\ k.speed \in Towards(s, Minus(t, x))
           \/ /\ t = x /\ d = c /\ k.speed = s
           \/ /\ t = x /\ k.speed = s
              /\ \E p \in Parts(s) : d = Clamped(Plus(c, p), -CoastCap, CoastCap)
    BY <1>1, HandsAre
  <1>3. Minus(t, x) = t - x /\ t - x \in Int /\ t - x # NaN /\ Minus(t, x) \in Numbers
    <2>1. Minus(t, x) = t - x
      BY <1>1, SumsAre
    <2>2. t - x \in Int /\ t - x # NaN
      BY <1>1, ScratchNumbers
    <2> QED BY <2>1, <2>2 DEF Numbers
  <1>4. k.speed # NaN
    <2>1. CASE k.speed \in Towards(s, Minus(t, x))
      <3>1. k.speed \in Int
        BY <1>1, <1>3, <2>1, TowardsIs
      <3> QED BY <3>1, ScratchNumbers
    <2>2. CASE k.speed = s
      BY <2>2
    <2> QED BY <1>2, <2>1, <2>2
  <1>5. /\ d \in -CoastCap..CoastCap /\ d # NaN
        /\ \/ t > x /\ t + d >= x + c
           \/ t < x /\ t + d <= x + c
           \/ t = x /\ (d < c => s < 0) /\ (d > c => s > 0)
    <2>0. /\ t \in Int /\ x \in Int /\ c \in Int /\ s \in Int /\ -CoastCap <= c /\ c <= CoastCap
          /\ CoastCap \in Nat
      BY <1>1, ScratchNumbers
    <2>1. CASE t # x /\ d = Absorbed(h, t)
      <3>1. /\ Minus(c, t - x) = c - (t - x) /\ c - (t - x) # NaN
        <4>1. c - (t - x) \in Int
          BY <2>0
        <4>2. NaN \notin {c, t - x}
          BY <1>3
        <4> QED BY <4>1, <4>2, ScratchNumbers DEF Minus
      <3>2. d = IF t - x > 0 THEN Above0(c - (t - x)) ELSE Below0(c - (t - x))
        BY <1>3, <2>1, <3>1 DEF Absorbed
      <3>3. CASE t - x > 0
        <4>1. d = IF c - (t - x) < 0 THEN 0 ELSE c - (t - x)
          BY <3>1, <3>2, <3>3 DEF Above0
        <4> QED BY <2>0, <3>3, <4>1, ScratchNumbers
      <3>4. CASE ~(t - x > 0)
        <4>1. d = IF c - (t - x) > 0 THEN 0 ELSE c - (t - x)
          BY <3>1, <3>2, <3>4 DEF Below0
        <4> QED BY <2>0, <2>1, <3>4, <4>1, ScratchNumbers
      <3> QED BY <3>3, <3>4
    <2>2. CASE t = x /\ d = c
      BY <2>0, <2>2, <1>1
    <2>3. CASE t = x /\ \E p \in Parts(s) : d = Clamped(Plus(c, p), -CoastCap, CoastCap)
      <3>1. PICK p \in Parts(s) : d = Clamped(Plus(c, p), -CoastCap, CoastCap)
        BY <2>3
      <3>2. p \in Int /\ (p < 0 => s < 0) /\ (p > 0 => s > 0)
        <4>1. p = 0 \/ p \in Towards(0, s)
          BY DEF Parts
        <4>2. CASE p = 0
          BY <4>2
        <4>3. CASE p \in Towards(0, s)
          <5>1. 0 \in Numbers /\ 0 # NaN
            BY ScratchNumbers DEF Numbers
          <5>2. p \in Int /\ ((0 <= p /\ p <= s) \/ (s <= p /\ p <= 0))
            BY <1>1, <4>3, <5>1, TowardsIs
          <5> QED BY <2>0, <5>2
        <4> QED BY <4>1, <4>2, <4>3
      <3>3. Plus(c, p) = c + p /\ c + p \in Int /\ c + p # NaN
        <4>1. NaN \notin {c, p}
          BY <3>2, ScratchNumbers
        <4>2. c + p \in Int
          BY <2>0, <3>2
        <4> QED BY <4>1, <4>2, ScratchNumbers DEF Plus
      <3>4. d = IF c + p < -CoastCap THEN -CoastCap ELSE IF c + p > CoastCap THEN CoastCap ELSE c + p
        BY <3>1, <3>3 DEF Clamped
      <3>5. d \in Int /\ -CoastCap <= d /\ d <= CoastCap /\ (d < c => p < 0) /\ (d > c => p > 0)
        BY <2>0, <3>2, <3>4
      <3> QED BY <2>0, <2>3, <3>2, <3>5, ScratchNumbers
    <2> QED BY <1>2, <2>1, <2>2, <2>3
  <1>6. AimOf(h) = Inside(x + c) /\ AimOf(k) = Inside(t + d)
    <2>1. AimOf(h) = Inside(x + c)
      BY <1>1, AimIs DEF AimOf
    <2>2. AimOf(k) = Inside(t + d)
      BY <1>2, <1>5, AimIs DEF AimOf
    <2> QED BY <2>1, <2>2
  <1>7. \A y, z \in Int : y <= z => Inside(y) \in Int /\ Inside(z) \in Int /\ Inside(y) <= Inside(z)
    BY ScratchNumbers
  <1>8. x + c \in Int /\ t + d \in Int /\ t \in Int /\ x \in Int /\ s \in Int /\ c \in Int /\ d \in Int
    BY <1>1, <1>5, ScratchNumbers
  <1> HIDE DEF x, s, c, d, Inside
  <1>9. /\ Inside(t + d) - Inside(x + c) < 0 => t - x < 0 \/ s < 0
        /\ Inside(t + d) - Inside(x + c) > 0 => t - x > 0 \/ s > 0
    <2>1. CASE t + d < x + c
      <3>1. Inside(t + d) \in Int /\ Inside(x + c) \in Int /\ Inside(t + d) <= Inside(x + c)
        BY <1>7, <1>8, <2>1
      <3>2. t < x \/ s < 0
        BY <1>5, <1>8, <2>1
      <3> QED BY <1>8, <3>1, <3>2
    <2>2. CASE t + d > x + c
      <3>1. Inside(t + d) \in Int /\ Inside(x + c) \in Int /\ Inside(t + d) >= Inside(x + c)
        BY <1>7, <1>8, <2>2
      <3>2. t > x \/ s > 0
        BY <1>5, <1>8, <2>2
      <3> QED BY <1>8, <3>1, <3>2
    <2>3. CASE t + d = x + c
      <3>1. Inside(t + d) = Inside(x + c) /\ Inside(x + c) \in Int
        BY <1>7, <1>8, <2>3
      <3> QED BY <3>1
    <2> QED BY <1>8, <2>1, <2>2, <2>3
  <1> QED BY <1>2, <1>4, <1>5, <1>6, <1>9 DEF x, s, d

\* The servo of a cursor and an aim that are known: its command, and what it leaves of the gap.
LEMMA ServoIs ==
  ASSUME NEW e \in Int, ~Snaps(e)
  PROVE  /\ ServoRate(e) \in Int
         /\ (e >= 0 => 0 <= ServoRate(e) /\ ServoRate(e) <= e)
         /\ (e <= 0 => e <= ServoRate(e) /\ ServoRate(e) <= 0)
  <1> DEFINE size == Absolute(e)
             step == IF size < Lag THEN Absolute(SignOf(e)) ELSE size \div Lag
             raw == SignOf(e) * step
  <1>1. e # NaN /\ MaxRate \in Nat /\ Lag \in Nat /\ Lag > 0
    BY ScratchNumbers
  <1>2. ~(size > Snap)
    BY <1>1 DEF Snaps
  <1>3. ServoRate(e) = Clamped(raw, -MaxRate, MaxRate)
    BY <1>1, <1>2 DEF ServoRate
  <1>4. size \in Nat /\ (e >= 0 => size = e) /\ (e <= 0 => size = -e)
    BY DEF Absolute
  <1>5. step \in Nat /\ step <= size
    <2>1. CASE size < Lag
      <3>1. step = Absolute(SignOf(e))
        BY <2>1
      <3>2. Absolute(SignOf(e)) \in Nat /\ Absolute(SignOf(e)) <= size
        BY <1>4 DEF Absolute, SignOf
      <3> QED BY <3>1, <3>2
    <2>2. CASE ~(size < Lag)
      <3>1. step = size \div Lag
        BY <2>2
      <3> HIDE DEF size
      <3>2. \A a, b \in Nat : b > 0 => a \div b \in Nat /\ a \div b <= a
        OBVIOUS
      <3> QED BY <1>1, <1>4, <3>1, <3>2
    <2> QED BY <2>1, <2>2
  <1> HIDE DEF step, size
  <1>6. raw \in Int /\ (e >= 0 => 0 <= raw /\ raw <= e) /\ (e <= 0 => e <= raw /\ raw <= 0)
    <2>1. CASE e > 0
      <3>1. SignOf(e) = 1
        BY <2>1 DEF SignOf
      <3>2. raw = step
        BY <1>5, <3>1
      <3> QED BY <1>4, <1>5, <2>1, <3>2
    <2>2. CASE e < 0
      <3>1. SignOf(e) = -1
        BY <2>2 DEF SignOf
      <3>2. raw = -step
        BY <1>5, <3>1
      <3> QED BY <1>4, <1>5, <2>2, <3>2
    <2>3. CASE e = 0
      <3>1. SignOf(e) = 0
        BY <2>3 DEF SignOf
      <3>2. raw = 0
        BY <1>5, <3>1
      <3> QED BY <2>3, <3>2
    <2> QED BY <2>1, <2>2, <2>3
  <1> HIDE DEF raw
  <1>7. ServoRate(e) = IF raw < -MaxRate THEN -MaxRate ELSE IF raw > MaxRate THEN MaxRate ELSE raw
    <2>1. raw # NaN
      BY <1>6, ScratchNumbers
    <2> QED BY <1>3, <2>1 DEF Clamped
  <1> QED BY <1>1, <1>6, <1>7

\* What is known stays known in a chunk.
LEMMA ChunkKeepsSeen ==
  ASSUME Gestures = {}, feeder \in FeederRec, HandSeen(feeder), Chunk
  PROVE  HandSeen(feeder')
  <1>1. /\ feeder.cursor \in Numbers /\ feeder.cursor # NaN /\ feeder.platter \in Numbers
        /\ feeder.rate \in Int /\ feeder.rate \in Numbers /\ feeder.rate # NaN /\ feeder.hand \in HandRec
    <2>1. /\ feeder.cursor \in Frames \cup {NaN} /\ feeder.platter \in Int \cup {NaN}
          /\ feeder.rate \in Rates \cup {0} /\ feeder.hand \in HandRec
      BY DEF FeederRec
    <2>2. feeder.rate \in Int
      BY <2>1, ScratchNumbers
    <2> QED BY <2>1, <2>2, ScratchNumbers DEF Frames, Numbers, HandSeen
  <1>2. feeder' \in FeederRec /\ feeder'.target = feeder.target
    BY ChunkIs
  <1>3. ASSUME NEW g \in FeederRec, NEW command \in Int, NEW there \in BOOLEAN,
               feeder' \in Moved(g, command, there), g.cursor = feeder.cursor, g.platter = feeder.platter
        PROVE  feeder'.cursor # NaN /\ feeder'.platter # NaN
    <2>1. command \in Numbers /\ command # NaN
      BY ScratchNumbers DEF Numbers
    <2>2. /\ feeder'.cursor = Clamped(Plus(g.cursor, feeder'.platter), 0, MaxFrame)
          /\ IF there \/ g.age >= Hold THEN feeder'.platter = 0
             ELSE IF g.inertia THEN feeder'.platter \in Towards(g.platter, command)
             ELSE feeder'.platter = command
      BY <1>3, <2>1, MovedIs
    <2>3. feeder'.platter \in Int
      <3>1. CASE feeder'.platter = 0 \/ feeder'.platter = command
        BY <3>1
      <3>2. CASE feeder'.platter \in Towards(g.platter, command)
        <4>1. g.platter \in Numbers /\ g.platter # NaN
          BY <1>1, <1>3 DEF HandSeen
        <4> QED BY <2>1, <3>2, <4>1, TowardsIs
      <3> QED BY <2>2, <3>1, <3>2
    <2>4. feeder'.platter # NaN /\ feeder'.platter \in Numbers
      BY <2>3, ScratchNumbers DEF Numbers
    <2>5. Plus(g.cursor, feeder'.platter) \in Numbers /\ Plus(g.cursor, feeder'.platter) # NaN
      <3>1. /\ Plus(g.cursor, feeder'.platter) = g.cursor + feeder'.platter
            /\ g.cursor \in Int /\ feeder'.platter \in Int
        BY <1>1, <1>3, <2>4, SumsAre
      <3>2. g.cursor + feeder'.platter \in Int
        BY <3>1
      <3> QED BY <3>1, <3>2, ScratchNumbers DEF Numbers
    <2>6. 0 \in Int /\ MaxFrame \in Int /\ 0 <= MaxFrame /\ NaN \notin 0..MaxFrame
      BY ScratchNumbers
    <2>7. feeder'.cursor \in 0..MaxFrame
      BY <2>2, <2>5, <2>6, ClampedIs
    <2> QED BY <2>4, <2>6, <2>7
  <1>4. CASE feeder.target = NaN
    <2> DEFINE g == [feeder EXCEPT !.inertia = FALSE]
    <2>1. g \in FeederRec /\ g.cursor = feeder.cursor /\ g.platter = feeder.platter
      BY DEF FeederRec
    <2>2. feeder' \in Moved(g, feeder.rate, FALSE) /\ feeder'.hand = feeder.hand
      BY <1>4, ChunkIs
    <2>3. FALSE \in BOOLEAN
      OBVIOUS
    <2> HIDE DEF g
    <2>4. feeder'.cursor # NaN /\ feeder'.platter # NaN
      BY <1>1, <1>3, <2>1, <2>2, <2>3
    <2> QED BY <1>2, <1>4, <2>2, <2>4 DEF HandSeen
  <1>5. CASE feeder.target # NaN
    <2>1. /\ feeder.cursor \in 0..MaxFrame /\ feeder.target \in 0..MaxFrame
          /\ feeder.hand.last # NaN /\ feeder.hand.speed # NaN /\ feeder.hand.coast # NaN
      BY <1>5, SeenAre
    <2>2. PICK h \in Hands(feeder.hand, feeder.target) :
            LET err == Minus(AimOf(h), feeder.cursor) IN
            \/ /\ Snaps(err) /\ feeder'.hand = NewHand(feeder.target)
               /\ feeder'.platter = 0 /\ feeder'.cursor = feeder.target
            \/ /\ ~Snaps(err)
               /\ \E g \in {[feeder EXCEPT !.hand = h]} :
                    /\ g \in FeederRec /\ g.cursor = feeder.cursor /\ g.hand = h
                    /\ feeder' \in Moved(g, ServoRate(err), err = 0 /\ ~(feeder.inertia /\ feeder.platter # 0))
      BY <1>5, ChunkIs
    <2> DEFINE err == Minus(AimOf(h), feeder.cursor)
               there == err = 0 /\ ~(feeder.inertia /\ feeder.platter # 0)
               g == [feeder EXCEPT !.hand = h]
    <2>3. h.last = feeder.target /\ h.speed # NaN /\ h.coast # NaN /\ h \in HandRec
      <3>1. feeder.target \in Frames \cup {NaN}
        BY <2>1 DEF Frames
      <3> QED BY <1>1, <2>1, <3>1, AimFollows, HandsAre
    <2>4. CASE Snaps(err)
      <3>1. feeder'.hand = NewHand(feeder.target) /\ feeder'.platter = 0 /\ feeder'.cursor = feeder.target
        BY <2>2, <2>4
      <3>2. /\ feeder'.hand.last = feeder.target /\ feeder'.hand.speed = 0 /\ feeder'.hand.coast = 0
        BY <1>5, <3>1 DEF NewHand
      <3> QED BY <1>2, <1>5, <3>1, <3>2, ScratchNumbers DEF HandSeen
    <2>5. CASE ~Snaps(err)
      <3>1. g \in FeederRec /\ g.hand = h /\ feeder' \in Moved(g, ServoRate(err), there)
        BY <2>2, <2>5
      <3>2. g.cursor = feeder.cursor /\ g.platter = feeder.platter
        BY DEF FeederRec
      <3>3. there \in BOOLEAN
        OBVIOUS
      <3>4. ServoRate(err) \in Int
        <4>1. AimOf(h) \in 0..MaxFrame
          <5>1. h.coast \in -CoastCap..CoastCap
            BY <2>3 DEF HandRec
          <5> QED BY <2>1, <2>3, <5>1, AimIs DEF AimOf
        <4>2. err = AimOf(h) - feeder.cursor /\ err \in Int
          <5>1. AimOf(h) \in Int /\ feeder.cursor \in Int /\ NaN \notin {AimOf(h), feeder.cursor}
            BY <2>1, <4>1, ScratchNumbers
          <5> QED BY <5>1 DEF Minus
        <4> HIDE DEF err
        <4> QED BY <2>5, <4>2, ServoIs
      <3> HIDE DEF g, err, there
      <3>5. feeder'.cursor # NaN /\ feeder'.platter # NaN
        BY <1>3, <3>1, <3>2, <3>3, <3>4
      <3>6. feeder'.hand = h
        <4>1. ServoRate(err) \in Numbers
          BY <3>4 DEF Numbers
        <4> QED BY <3>1, <3>3, <4>1, MovedIs
      <3> QED BY <1>2, <1>5, <2>3, <3>5, <3>6 DEF HandSeen
    <2> QED BY <2>4, <2>5
  <1> QED BY <1>4, <1>5

\* And in every step.
LEMMA DeckKnownStays ==
  ASSUME Gestures = {}, DeckKnown, [ScratchCalls \/ ScratchRuns]_scratchVars
  PROVE  DeckKnown'
  <1>1. /\ ScratchInv /\ landed # NaN /\ (Scratching => HandSeen(feeder))
        /\ feeder \in FeederRec \cup {NoFeeder} /\ place \in Frames
    BY DEF DeckKnown, ScratchInv, ScratchTypeOK
  <1>2. ScratchInv'
    <2>1. CASE UNCHANGED scratchVars
      BY <1>1, <2>1 DEF scratchVars, ScratchInv, ScratchTypeOK, Scratching, DeckSettled, IsLoaded, Reported
    <2> QED BY <1>1, <2>1, CallsKeepDeck, RunsKeepDeck
  <1>3. CASE feeder' = NoFeeder /\ (landed' = NoFrame \/ (Scratching /\ landed' = feeder.cursor))
    <2>1. landed' # NaN
      BY <1>1, <1>3, ScratchNumbers DEF HandSeen
    <2> QED BY <1>2, <1>3, <2>1 DEF DeckKnown, Scratching
  <1>4. CASE feeder' = feeder /\ (landed' = landed \/ landed' = NoFrame)
    BY <1>1, <1>2, <1>4, ScratchNumbers DEF DeckKnown, Scratching
  <1>5. CASE Chunk
    <2>1. Scratching /\ feeder \in FeederRec /\ landed' = landed
      BY <1>1, <1>5 DEF Chunk, Scratching
    <2>2. HandSeen(feeder')
      BY <1>1, <1>5, <2>1, ChunkKeepsSeen
    <2> QED BY <1>1, <1>2, <2>1, <2>2 DEF DeckKnown
  <1>6. ASSUME NEW rate \in Rates \cup {0}, NEW target \in Frames \cup {NaN}, NEW inertia \in BOOLEAN,
               Gesture(rate, target, inertia), Scratching /\ target # NaN => feeder.hand.last # NaN
        PROVE  DeckKnown'
    <2>1. landed' = landed
      BY <1>6 DEF Gesture
    <2>2. HandSeen(feeder')
      <3>1. CASE Scratching
        <4>1. feeder' = [feeder EXCEPT !.rate = rate, !.target = target, !.inertia = inertia, !.age = 0]
          BY <1>6, <3>1 DEF Gesture, Updated
        <4>2. feeder \in FeederRec
          BY <1>1, <3>1 DEF Scratching
        <4>3. /\ feeder'.cursor = feeder.cursor /\ feeder'.platter = feeder.platter
              /\ feeder'.target = target /\ feeder'.hand = feeder.hand
          BY <4>1, <4>2 DEF FeederRec
        <4> QED BY <1>1, <1>6, <3>1, <4>3 DEF HandSeen
      <3>2. CASE ~Scratching
        <4>1. feeder' = Started(rate, target, inertia)
          BY <1>6, <3>2 DEF Gesture
        <4>2. /\ feeder'.cursor = StartFrame(target) /\ feeder'.platter = 0 /\ feeder'.target = target
              /\ feeder'.hand = NewHand(target)
          BY <4>1 DEF Started
        <4>3. StartFrame(target) # NaN
          BY <1>1, ScratchNumbers DEF StartFrame, Frames
        <4>4. /\ feeder'.hand.last = target
              /\ target # NaN => feeder'.hand.speed = 0 /\ feeder'.hand.coast = 0
          BY <4>2 DEF NewHand
        <4> QED BY <4>2, <4>3, <4>4, ScratchNumbers DEF HandSeen
      <3> QED BY <3>1, <3>2
    <2> QED BY <1>1, <1>2, <2>1, <2>2 DEF DeckKnown
  <1>7. CASE ScratchCalls
    <2>1. CASE LoadTrack
      BY <1>3, <2>1 DEF LoadTrack
    <2>2. CASE RebuildDeck
      BY <1>3, <2>2 DEF RebuildDeck
    <2>3. CASE PlayDeck
      BY <1>4, <2>3 DEF PlayDeck
    <2>4. CASE PauseDeck
      <3>1. CASE Scratching
        BY <1>3, <2>4, <3>1 DEF PauseDeck, StopFeeder
      <3>2. CASE ~Scratching
        BY <1>4, <2>4, <3>2 DEF PauseDeck, StopFeeder
      <3> QED BY <3>1, <3>2
    <2>5. CASE StopScratch
      <3>1. /\ Scratching /\ feeder' = NoFeeder
            /\ landed' = NoFrame \/ landed' = feeder.cursor
        BY <2>5 DEF StopScratch
      <3> QED BY <1>3, <3>1
    <2>6. CASE \E p \in {0, MaxFrame} : SeekDeck(p)
      BY <1>4, <2>6 DEF SeekDeck
    <2>7. CASE \E r \in Rates : ScratchAt(r)
      BY <1>6, <2>7 DEF ScratchAt
    <2>8. CASE \E p \in Frames, inert \in BOOLEAN : ScratchTo(p, inert)
      BY <1>6, <2>8 DEF ScratchTo
    <2> QED BY <1>7, <2>1, <2>2, <2>3, <2>4, <2>5, <2>6, <2>7, <2>8 DEF ScratchCalls
  <1>8. CASE FileAdvances \/ EndsOfStream
    BY <1>4, <1>8 DEF FileAdvances, EndsOfStream
  <1>9. CASE UNCHANGED scratchVars
    BY <1>4, <1>9 DEF scratchVars
  <1> QED BY <1>5, <1>7, <1>8, <1>9 DEF ScratchRuns

\* At the start nothing is scratched.
LEMMA InitKnown ==
  ASSUME ScratchInit
  PROVE  DeckKnown
  <1>1. gear \in GearRec /\ place \in Frames /\ ~Scratching /\ landed # NaN
    BY ScratchNumbers DEF ScratchInit, GearRec, Frames, Scratching
  <1>2. Reported = place
    BY <1>1 DEF ScratchInit, Reported
  <1> QED BY <1>1, <1>2 DEF ScratchInit, DeckKnown, ScratchInv, ScratchTypeOK, DeckSettled, IsLoaded

\* Every reachable state is known.
LEMMA AlwaysKnown ==
  ASSUME Gestures = {}
  PROVE  ScratchSpec => []DeckKnown
  <1>1. ScratchInit => DeckKnown
    BY InitKnown
  <1>2. DeckKnown /\ [ScratchCalls \/ ScratchRuns]_scratchVars => DeckKnown'
    BY DeckKnownStays
  <1> QED BY <1>1, <1>2, PTL DEF ScratchSpec

AimStep ==
    \/ ~Scratching \/ feeder' = NoFeeder \/ feeder.hand.last = NaN
    \/ feeder'.hand.last = NaN \/ feeder'.cursor = feeder'.hand.last
    \/ LET back == AimOf(feeder'.hand) - AimOf(feeder.hand)
           hand == feeder'.hand.last - feeder.hand.last IN
       (back < 0 => hand < 0 \/ feeder.hand.speed < 0)
       /\ (back > 0 => hand > 0 \/ feeder.hand.speed > 0)

\* The aim in a step.
LEMMA StepAims ==
  ASSUME DeckKnown, DeckKnown', [ScratchCalls \/ ScratchRuns]_scratchVars
  PROVE  AimStep
  <1> SUFFICES ASSUME Scratching, feeder' # NoFeeder, feeder.hand.last # NaN, feeder'.hand.last # NaN,
                      feeder'.cursor # feeder'.hand.last
               PROVE  LET back == AimOf(feeder'.hand) - AimOf(feeder.hand)
                          hand == feeder'.hand.last - feeder.hand.last IN
                      (back < 0 => hand < 0 \/ feeder.hand.speed < 0)
                      /\ (back > 0 => hand > 0 \/ feeder.hand.speed > 0)
    BY DEF AimStep
  <1>1. feeder \in FeederRec /\ HandSeen(feeder)
    BY DEF DeckKnown, ScratchInv, ScratchTypeOK, Scratching
  <1>2. /\ feeder.hand \in HandRec /\ feeder.hand.speed # NaN /\ feeder.hand.coast # NaN
        /\ AimOf(feeder.hand) \in 0..MaxFrame
    <2>1. feeder.hand \in HandRec /\ feeder.hand.speed # NaN /\ feeder.hand.coast # NaN
      BY <1>1 DEF FeederRec, HandSeen
    <2>2. feeder.hand.last \in 0..MaxFrame /\ feeder.hand.coast \in -CoastCap..CoastCap
      BY <2>1 DEF HandRec, Frames
    <2> QED BY <2>1, <2>2, AimIs DEF AimOf
  <1>3. CASE feeder'.hand = feeder.hand
    <2>1. AimOf(feeder'.hand) = AimOf(feeder.hand) /\ AimOf(feeder.hand) \in Int
      BY <1>2, <1>3 DEF AimOf
    <2>2. AimOf(feeder'.hand) - AimOf(feeder.hand) = 0
      BY <2>1
    <2> QED BY <2>2
  <1>4. CASE feeder' = feeder
    BY <1>3, <1>4
  <1>5. CASE Chunk
    <2>1. CASE feeder.target = NaN
      BY <1>1, <1>3, <1>5, <2>1, ChunkIs
    <2>2. CASE feeder.target # NaN
      <3>1. feeder.target \in 0..MaxFrame
        BY <1>1, <2>2, SeenAre
      <3>2. PICK h \in Hands(feeder.hand, feeder.target) :
              LET err == Minus(AimOf(h), feeder.cursor) IN
              \/ /\ Snaps(err) /\ feeder'.hand = NewHand(feeder.target)
                 /\ feeder'.cursor = feeder.target
              \/ /\ ~Snaps(err)
                 /\ \E g \in {[feeder EXCEPT !.hand = h]} :
                      /\ g \in FeederRec /\ g.cursor = feeder.cursor /\ g.hand = h
                      /\ feeder' \in Moved(g, ServoRate(err), err = 0 /\ ~(feeder.inertia /\ feeder.platter # 0))
        BY <1>1, <1>5, <2>2, ChunkIs
      <3> DEFINE err == Minus(AimOf(h), feeder.cursor)
                 there == err = 0 /\ ~(feeder.inertia /\ feeder.platter # 0)
      <3>3. CASE Snaps(err)
        <4>1. feeder'.hand.last = feeder.target /\ feeder'.cursor = feeder.target
          BY <3>2, <3>3 DEF NewHand
        <4> QED BY <4>1
      <3>4. CASE ~Snaps(err)
        <4>1. feeder'.hand = h
          <5>1. PICK g \in FeederRec : g.hand = h /\ feeder' \in Moved(g, ServoRate(err), there)
            BY <3>2, <3>4
          <5>2. ServoRate(err) \in Numbers
            <6>1. feeder.cursor \in Numbers
              BY <1>1, <2>2, SeenAre, ScratchNumbers DEF Numbers
            <6>2. feeder.target \in Frames \cup {NaN}
              BY <3>1 DEF Frames
            <6>3. h \in HandRec
              BY <1>2, <6>2, HandsAre
            <6> QED BY <6>1, <6>3, ServoIn
          <5>3. there \in BOOLEAN
            OBVIOUS
          <5> HIDE DEF there, err
          <5> QED BY <5>1, <5>2, <5>3, MovedIs
        <4>2. /\ h.last = feeder.target
              /\ AimOf(h) - AimOf(feeder.hand) < 0 =>
                   feeder.target - feeder.hand.last < 0 \/ feeder.hand.speed < 0
              /\ AimOf(h) - AimOf(feeder.hand) > 0 =>
                   feeder.target - feeder.hand.last > 0 \/ feeder.hand.speed > 0
          BY <1>2, <3>1, AimFollows
        <4> QED BY <4>1, <4>2
      <3> QED BY <3>3, <3>4
    <2> QED BY <2>1, <2>2
  <1>6. ASSUME NEW rate, NEW target, NEW inertia, Gesture(rate, target, inertia)
        PROVE  feeder'.hand = feeder.hand
    <2>1. feeder' = [feeder EXCEPT !.rate = rate, !.target = target, !.inertia = inertia, !.age = 0]
      BY <1>6 DEF Gesture, Updated
    <2> QED BY <1>1, <2>1 DEF FeederRec
  <1>7. CASE ScratchCalls
    <2>1. CASE LoadTrack \/ RebuildDeck \/ StopScratch
      BY <2>1 DEF LoadTrack, RebuildDeck, StopScratch
    <2>2. CASE PauseDeck
      BY <2>2 DEF PauseDeck, StopFeeder
    <2>3. CASE PlayDeck
      BY <1>4, <2>3 DEF PlayDeck
    <2>4. CASE \E p \in {0, MaxFrame} : SeekDeck(p)
      BY <1>4, <2>4 DEF SeekDeck
    <2>5. CASE \E r \in Rates : ScratchAt(r)
      BY <1>3, <1>6, <2>5 DEF ScratchAt
    <2>6. CASE \E p \in Frames, inert \in BOOLEAN : ScratchTo(p, inert)
      BY <1>3, <1>6, <2>6 DEF ScratchTo
    <2> QED BY <1>7, <2>1, <2>2, <2>3, <2>4, <2>5, <2>6 DEF ScratchCalls
  <1>8. CASE FileAdvances \/ EndsOfStream
    BY <1>4, <1>8 DEF FileAdvances, EndsOfStream
  <1>9. CASE UNCHANGED scratchVars
    BY <1>4, <1>9 DEF scratchVars
  <1> QED BY <1>5, <1>7, <1>8, <1>9 DEF ScratchRuns

\* A hand that moves one way never turns the record back (HandTracker::step in pipeline.rs),
\* where no gesture goes over from velocity mode to position mode.
THEOREM AimKeepsDirectionHolds ==
  ASSUME Gestures = {}
  PROVE  ScratchSpec => AimKeepsDirection
  <1>1. ScratchSpec => []DeckKnown
    BY AlwaysKnown
  <1>2. DeckKnown /\ DeckKnown' /\ [ScratchCalls \/ ScratchRuns]_scratchVars => [AimStep]_scratchVars
    BY StepAims
  <1>3. ScratchSpec => [][AimStep]_scratchVars
    BY <1>1, <1>2, PTL DEF ScratchSpec
  <1> QED BY <1>3 DEF AimStep, AimKeepsDirection

----------------------------------------------------------------------------
(* A gesture that nobody goes on with.                                      *)

\* What may be left of the way to the hand after so many chunks: nothing in time.
Closing(gap) ==
    /\ gap \in [Nat -> Nat] /\ gap[0] = Snap
    /\ \A n \in Nat : \A e \in 0..gap[n] : e - ServoRate(e) <= gap[n + 1]
    /\ Hold > Coast /\ gap[Hold - Coast] = 0

\* The cursor has been put on the hand; or the hand has rested as long as nobody called, and
\* once it no longer coasts what is left of the way shrinks.
GapLeft(age, gap) == gap[(IF age > Hold THEN Hold ELSE age) - Coast]
Landed(f) == f.hand.speed = 0 /\ f.hand.coast = 0 /\ f.cursor = f.target
Nears(f, gap) ==
    /\ f.hand.idle >= f.age - 1 \/ f.hand.idle >= Coast
    /\ f.age > Coast => Absolute(AimOf(f.hand) - f.cursor) <= GapLeft(f.age, gap)
ComesToRest(f, gap) ==
    /\ f.age > Hold => f.platter = 0
    /\ f.target # NaN /\ ~f.inertia /\ f.age > 0 =>
         f.hand.last = f.target /\ (Landed(f) \/ Nears(f, gap))

\* The servo treats both directions alike.
LEMMA ServoOdd ==
  ASSUME NEW e \in Int
  PROVE  /\ Absolute(e) \in Nat /\ (Snaps(e) <=> Absolute(e) > Snap)
         /\ ~Snaps(e) => Absolute(e - ServoRate(e)) = Absolute(e) - ServoRate(Absolute(e))
  <1>1. e # NaN /\ Absolute(e) \in Nat /\ Absolute(e) # NaN
    <2>1. Absolute(e) \in Nat
      BY DEF Absolute
    <2> QED BY <2>1, ScratchNumbers
  <1>2. Snaps(e) <=> Absolute(e) > Snap
    BY <1>1 DEF Snaps
  <1>3. ASSUME ~Snaps(e), e >= 0
        PROVE  Absolute(e - ServoRate(e)) = Absolute(e) - ServoRate(Absolute(e))
    <2>1. Absolute(e) = e
      BY <1>3 DEF Absolute
    <2>2. ServoRate(e) \in Int /\ 0 <= ServoRate(e) /\ ServoRate(e) <= e
      BY <1>3, ServoIs
    <2>3. e - ServoRate(e) >= 0 /\ e - ServoRate(e) \in Int
      BY <2>2
    <2> QED BY <2>1, <2>3 DEF Absolute
  <1>4. ASSUME ~Snaps(e), e < 0
        PROVE  Absolute(e - ServoRate(e)) = Absolute(e) - ServoRate(Absolute(e))
    <2> DEFINE f == -e
    <2>1. f \in Nat /\ f > 0 /\ e = -f /\ f # NaN
      BY <1>4, ScratchNumbers
    <2>2. Absolute(e) = f /\ Absolute(f) = f /\ SignOf(e) = -1 /\ SignOf(f) = 1
      BY <1>4, <2>1 DEF Absolute, SignOf
    <2>3. ~(f > Snap)
      BY <1>2, <1>4, <2>2
    <2> DEFINE step == IF f < Lag THEN 1 ELSE f \div Lag
    <2>4. step \in Nat
      BY <2>1, ScratchNumbers
    <2> HIDE DEF step
    <2>5. Absolute(SignOf(e)) = 1 /\ Absolute(SignOf(f)) = 1
      <3>1. ASSUME NEW x \in Int, x = -1 \/ x = 1
            PROVE  Absolute(x) = 1
        BY <3>1 DEF Absolute
      <3>2. SignOf(e) \in Int /\ SignOf(f) \in Int
        BY <2>2
      <3> HIDE DEF f
      <3> QED BY <2>2, <3>1, <3>2
    <2>6. /\ ServoRate(e) = Clamped(SignOf(e) * step, -MaxRate, MaxRate)
          /\ ServoRate(f) = Clamped(SignOf(f) * step, -MaxRate, MaxRate)
      <3> HIDE DEF f
      <3> QED BY <1>1, <2>1, <2>2, <2>3, <2>5 DEF ServoRate, step
    <2>7. SignOf(e) * step = -step /\ SignOf(f) * step = step
      BY <2>2, <2>4
    <2>8. -step # NaN /\ step # NaN /\ MaxRate \in Nat
      <3>1. -step \in Int
        BY <2>4
      <3> QED BY <2>4, <3>1, ScratchNumbers
    <2>9. /\ ServoRate(e) = IF step > MaxRate THEN -MaxRate ELSE -step
          /\ ServoRate(f) = IF step > MaxRate THEN MaxRate ELSE step
      BY <2>4, <2>6, <2>7, <2>8 DEF Clamped
    <2>10. ServoRate(e) = -ServoRate(f) /\ ServoRate(f) \in Int
      BY <2>4, <2>8, <2>9
    <2>11. ServoRate(f) <= f
      <3>1. f \in Int /\ ~Snaps(f) /\ f >= 0
        BY <2>1, <2>2, <2>3 DEF Snaps
      <3> QED BY <3>1, ServoIs
    <2> HIDE DEF f
    <2>12. e - ServoRate(e) \in Int /\ e - ServoRate(e) = -(f - ServoRate(f)) /\ f - ServoRate(f) >= 0
      BY <2>1, <2>10, <2>11
    <2>13. Absolute(e - ServoRate(e)) = f - ServoRate(f)
      BY <2>1, <2>10, <2>12 DEF Absolute
    <2> QED BY <2>2, <2>13
  <1> QED BY <1>1, <1>2, <1>3, <1>4

\* What the servo asks for, as long as somebody calls.
Command(age, e) == IF age >= Hold THEN 0 ELSE ServoRate(e)

\* A chunk in position mode, without inertia: the cursor goes where the servo sends it.
LEMMA ServoChunkIs ==
  ASSUME feeder \in FeederRec, HandSeen(feeder), Chunk, feeder.target # NaN, ~feeder.inertia
  PROVE  \/ feeder'.platter = 0 /\ feeder'.cursor = feeder.target /\ feeder'.hand = NewHand(feeder.target)
         \/ \E h \in Hands(feeder.hand, feeder.target), e \in Int :
              /\ feeder'.hand = h /\ AimOf(h) \in 0..MaxFrame /\ e = AimOf(h) - feeder.cursor
              /\ ~Snaps(e) /\ ServoRate(e) \in Int /\ feeder'.platter = Command(feeder.age, e)
              /\ feeder'.cursor = feeder.cursor + feeder'.platter
  <1>1. /\ feeder.cursor \in 0..MaxFrame /\ feeder.target \in 0..MaxFrame /\ feeder.hand \in HandRec
        /\ feeder.hand.last # NaN /\ feeder.hand.speed # NaN /\ feeder.hand.coast # NaN
        /\ feeder.age \in 0..Hold + 1
    BY SeenAre
  <1>2. PICK h \in Hands(feeder.hand, feeder.target) :
          LET err == Minus(AimOf(h), feeder.cursor) IN
          \/ /\ Snaps(err) /\ feeder'.hand = NewHand(feeder.target)
             /\ feeder'.platter = 0 /\ feeder'.cursor = feeder.target
          \/ /\ ~Snaps(err)
             /\ \E g \in {[feeder EXCEPT !.hand = h]} :
                  /\ g \in FeederRec /\ g.cursor = feeder.cursor /\ g.hand = h
                  /\ feeder' \in Moved(g, ServoRate(err), err = 0 /\ ~(feeder.inertia /\ feeder.platter # 0))
    BY ChunkIs
  <1> DEFINE err == Minus(AimOf(h), feeder.cursor)
             there == err = 0 /\ ~(feeder.inertia /\ feeder.platter # 0)
             g == [feeder EXCEPT !.hand = h]
  <1>3. CASE Snaps(err)
    BY <1>2, <1>3
  <1>4. CASE ~Snaps(err)
    <2>1. g \in FeederRec /\ g.hand = h /\ feeder' \in Moved(g, ServoRate(err), there)
      BY <1>2, <1>4
    <2>2. g.cursor = feeder.cursor /\ g.inertia = feeder.inertia /\ g.age = feeder.age
      BY DEF FeederRec
    <2>3. there \in BOOLEAN /\ (there <=> err = 0)
      OBVIOUS
    <2>4. AimOf(h) \in 0..MaxFrame
      <3>1. feeder.target \in Frames \cup {NaN}
        BY <1>1 DEF Frames
      <3>2. h.last = feeder.target /\ h.coast # NaN /\ h \in HandRec
        BY <1>1, <3>1, AimFollows, HandsAre
      <3>3. h.coast \in -CoastCap..CoastCap
        BY <3>2 DEF HandRec
      <3> QED BY <1>1, <3>2, <3>3, AimIs DEF AimOf
    <2>5. err = AimOf(h) - feeder.cursor /\ err \in Int
      <3>1. AimOf(h) \in Int /\ feeder.cursor \in Int /\ NaN \notin {AimOf(h), feeder.cursor}
        BY <1>1, <2>4, ScratchNumbers
      <3> QED BY <3>1 DEF Minus
    <2> HIDE DEF g, err, there
    <2>6. /\ ServoRate(err) \in Int
          /\ (err >= 0 => 0 <= ServoRate(err) /\ ServoRate(err) <= err)
          /\ (err <= 0 => err <= ServoRate(err) /\ ServoRate(err) <= 0)
      BY <1>4, <2>5, ServoIs
    <2>7. ServoRate(err) \in Numbers
      BY <2>6 DEF Numbers
    <2>8. /\ feeder'.hand = h /\ feeder'.cursor = Clamped(Plus(feeder.cursor, feeder'.platter), 0, MaxFrame)
          /\ IF there \/ feeder.age >= Hold THEN feeder'.platter = 0 ELSE feeder'.platter = ServoRate(err)
      BY <2>1, <2>2, <2>3, <2>7, MovedIs
    <2>9. feeder'.platter = Command(feeder.age, err)
      <3>1. CASE feeder.age >= Hold
        BY <2>8, <3>1 DEF Command
      <3>2. CASE ~(feeder.age >= Hold) /\ err = 0
        <4>1. ServoRate(err) = 0
          BY <2>6, <3>2
        <4> QED BY <2>3, <2>8, <3>2, <4>1 DEF Command
      <3>3. CASE ~(feeder.age >= Hold) /\ err # 0
        BY <2>3, <2>8, <3>3 DEF Command
      <3> QED BY <3>1, <3>2, <3>3
    <2>10. feeder'.cursor = feeder.cursor + feeder'.platter
      <3> DEFINE x == feeder.cursor
                 v == feeder'.platter
                 a == AimOf(h)
      <3>1. x \in 0..MaxFrame /\ a \in 0..MaxFrame /\ MaxFrame \in Nat /\ err = a - x
        BY <1>1, <2>4, <2>5, ScratchNumbers
      <3>2. v = 0 \/ v = ServoRate(err)
        BY <2>9 DEF Command
      <3> HIDE DEF x, v, a
      <3>3. x + v \in 0..MaxFrame /\ v \in Int
        BY <2>5, <2>6, <3>1, <3>2
      <3>4. x # NaN /\ v # NaN /\ x + v # NaN
        BY <3>1, <3>3, ScratchNumbers
      <3>5. Plus(x, v) = x + v
        BY <3>4 DEF Plus
      <3>6. Clamped(Plus(x, v), 0, MaxFrame) = x + v
        BY <3>1, <3>3, <3>4, <3>5 DEF Clamped
      <3> QED BY <2>8, <3>6 DEF x, v
    <2> QED BY <1>4, <2>4, <2>5, <2>6, <2>8, <2>9, <2>10
  <1> QED BY <1>3, <1>4

\* A hand that has neither speed nor coast, in a chunk that it stays in.
LEMMA StillHand ==
  ASSUME NEW h \in HandRec, NEW t \in 0..MaxFrame, h.last = t, h.speed = 0, h.coast = 0,
         NEW k \in Hands(h, t)
  PROVE  k.last = t /\ k.speed = 0 /\ k.coast = 0 /\ AimOf(k) = t
  <1>1. t \in Frames \cup {NaN} /\ t # NaN /\ 0 # NaN /\ CoastCap \in Nat /\ MaxFrame \in Nat
    BY ScratchNumbers DEF Frames
  <1>2. k.last = t /\ k.speed = 0
    BY <1>1, HandsAre
  <1>3. k.coast = 0
    <2>1. CASE k.coast = h.coast
      BY <2>1
    <2>2. CASE \E c \in Parts(h.speed) : k.coast = Clamped(Plus(h.coast, c), -CoastCap, CoastCap)
      <3>1. PICK c \in Parts(0) : k.coast = Clamped(Plus(0, c), -CoastCap, CoastCap)
        BY <2>2
      <3>2. c = 0
        BY <1>1, <3>1 DEF Parts, Towards
      <3>3. Plus(0, 0) = 0
        BY <1>1 DEF Plus
      <3>4. Clamped(0, -CoastCap, CoastCap) = 0
        BY <1>1 DEF Clamped
      <3> QED BY <3>1, <3>2, <3>3, <3>4
    <2> QED BY <1>1, <2>1, <2>2, HandsAre
  <1>4. AimOf(k) = t
    <2>1. Plus(t, 0) = t
      BY <1>1 DEF Plus
    <2>2. Clamped(t, 0, MaxFrame) = t
      BY <1>1 DEF Clamped
    <2> QED BY <1>2, <1>3, <2>1, <2>2 DEF AimOf
  <1> QED BY <1>2, <1>3, <1>4

\* What a chunk without a call leaves of the way.
LEMMA WayShrinks ==
  ASSUME NEW gap, Closing(gap), NEW age \in 0..Hold + 1, NEW e \in Int, ~Snaps(e), ServoRate(e) \in Int,
         Aged(age) > Coast, age > Coast => Absolute(e) <= GapLeft(age, gap)
  PROVE  Absolute(e - Command(age, e)) <= GapLeft(Aged(age), gap)
  <1>1. /\ Hold \in Nat /\ Coast \in Nat /\ Hold > Coast /\ gap[Hold - Coast] = 0 /\ gap[0] = Snap
        /\ Absolute(e) \in Nat /\ Absolute(e) <= Snap /\ age \in Nat /\ Snap \in Nat
    <2>1. Absolute(e) \in Nat /\ ~(Absolute(e) > Snap)
      BY ServoOdd
    <2> QED BY <2>1, ScratchNumbers DEF Closing
  <1>2. CASE age >= Hold
    <2>1. GapLeft(age, gap) = 0 /\ GapLeft(Aged(age), gap) = 0
      <3>1. (IF age > Hold THEN Hold ELSE age) = Hold
        BY <1>1, <1>2
      <3>2. (IF Aged(age) > Hold THEN Hold ELSE Aged(age)) = Hold
        BY <1>1, <1>2 DEF Aged
      <3> QED BY <1>1, <3>1, <3>2 DEF GapLeft
    <2>2. Absolute(e) = 0
      BY <1>1, <1>2, <2>1
    <2>3. e - Command(age, e) = e
      BY <1>2 DEF Command
    <2> QED BY <2>1, <2>2, <2>3
  <1>3. CASE age < Hold
    <2> DEFINE n == age - Coast
    <2>1. Aged(age) = age + 1 /\ n \in Nat /\ n + 1 \in Nat
      <3>1. Aged(age) = age + 1
        BY <1>1, <1>3 DEF Aged
      <3> QED BY <1>1, <3>1
    <2>2. GapLeft(Aged(age), gap) = gap[n + 1] /\ GapLeft(age, gap) = gap[n]
      <3>1. (IF age > Hold THEN Hold ELSE age) = age
        BY <1>1, <1>3
      <3>2. (IF age + 1 > Hold THEN Hold ELSE age + 1) = age + 1
        BY <1>1, <1>3
      <3>3. (age + 1) - Coast = n + 1
        BY <1>1
      <3>4. GapLeft(age, gap) = gap[n]
        BY <3>1 DEF GapLeft
      <3>5. GapLeft(age + 1, gap) = gap[n + 1]
        BY <3>2, <3>3 DEF GapLeft
      <3> QED BY <2>1, <3>4, <3>5
    <2>3. Absolute(e) <= gap[n]
      <3>1. CASE age > Coast
        BY <2>2, <3>1
      <3>2. CASE ~(age > Coast)
        <4>1. n = 0
          BY <1>1, <2>1, <3>2
        <4> QED BY <1>1, <4>1
      <3> QED BY <3>1, <3>2
    <2> HIDE DEF n
    <2>4. Absolute(e) \in 0..gap[n]
      <3>1. gap[n] \in Nat
        BY <2>1 DEF Closing
      <3> QED BY <1>1, <2>3, <3>1
    <2>5. Absolute(e) - ServoRate(Absolute(e)) <= gap[n + 1]
      BY <2>1, <2>4 DEF Closing
    <2>6. Command(age, e) = ServoRate(e)
      <3>1. ~(age >= Hold)
        BY <1>1, <1>3
      <3> QED BY <3>1 DEF Command
    <2> QED BY <2>2, <2>5, <2>6, ServoOdd
  <1> QED BY <1>1, <1>2, <1>3

\* Time passes in a chunk, and when nobody calls the platter stops.
LEMMA PlatterStops ==
  ASSUME feeder \in FeederRec, HandSeen(feeder), Chunk
  PROVE  /\ feeder'.age = Aged(feeder.age) /\ feeder'.target = feeder.target
         /\ feeder.age >= Hold => feeder'.platter = 0
         /\ feeder.target # NaN => feeder'.inertia = feeder.inertia
  <1>1. feeder.hand \in HandRec /\ feeder.cursor \in Numbers /\ feeder.rate \in Numbers
    <2>1. feeder.hand \in HandRec /\ feeder.cursor \in Frames \cup {NaN} /\ feeder.rate \in Rates \cup {0}
      BY DEF FeederRec
    <2> QED BY <2>1, ScratchNumbers DEF Frames, Numbers
  <1>2. ASSUME NEW g \in FeederRec, NEW command \in Numbers, NEW there \in BOOLEAN,
               feeder' \in Moved(g, command, there), g.age = feeder.age
        PROVE  /\ feeder'.age = Aged(feeder.age) /\ (feeder.age >= Hold => feeder'.platter = 0)
               /\ feeder'.inertia = g.inertia
    BY <1>2, MovedIs
  <1>3. feeder'.target = feeder.target
    BY ChunkIs
  <1>4. CASE feeder.target = NaN
    <2> DEFINE g == [feeder EXCEPT !.inertia = FALSE]
    <2>1. g \in FeederRec /\ g.age = feeder.age
      BY DEF FeederRec
    <2>2. feeder' \in Moved(g, feeder.rate, FALSE) /\ FALSE \in BOOLEAN
      BY <1>4, ChunkIs
    <2> HIDE DEF g
    <2> QED BY <1>1, <1>2, <1>3, <1>4, <2>1, <2>2
  <1>5. CASE feeder.target # NaN
    <2>1. PICK h \in Hands(feeder.hand, feeder.target) :
            LET err == Minus(AimOf(h), feeder.cursor) IN
            \/ /\ feeder'.platter = 0 /\ feeder'.age = Aged(feeder.age) /\ feeder'.inertia = feeder.inertia
            \/ /\ \E g \in {[feeder EXCEPT !.hand = h]} :
                    /\ g \in FeederRec
                    /\ feeder' \in Moved(g, ServoRate(err), err = 0 /\ ~(feeder.inertia /\ feeder.platter # 0))
      BY <1>5, ChunkIs
    <2> DEFINE err == Minus(AimOf(h), feeder.cursor)
               there == err = 0 /\ ~(feeder.inertia /\ feeder.platter # 0)
               g == [feeder EXCEPT !.hand = h]
    <2>2. CASE feeder'.platter = 0 /\ feeder'.age = Aged(feeder.age) /\ feeder'.inertia = feeder.inertia
      BY <1>3, <2>2
    <2>3. CASE g \in FeederRec /\ feeder' \in Moved(g, ServoRate(err), there)
      <3>1. g.age = feeder.age /\ g.inertia = feeder.inertia
        BY DEF FeederRec
      <3>2. there \in BOOLEAN
        OBVIOUS
      <3>3. ServoRate(err) \in Numbers
        <4>1. h \in HandRec
          <5>1. feeder.target \in Frames \cup {NaN}
            BY DEF FeederRec
          <5> QED BY <1>1, <5>1, HandsAre
        <4> QED BY <1>1, <4>1, ServoIn
      <3> HIDE DEF g, err, there
      <3> QED BY <1>2, <1>3, <2>3, <3>1, <3>2, <3>3
    <2> QED BY <2>1, <2>2, <2>3
  <1> QED BY <1>4, <1>5

\* A chunk brings the cursor nearer to the hand.
LEMMA ChunkRests ==
  ASSUME NEW gap, Closing(gap), feeder \in FeederRec, HandSeen(feeder), ComesToRest(feeder, gap), Chunk
  PROVE  ComesToRest(feeder', gap)
  <1>1. /\ feeder'.age = Aged(feeder.age) /\ feeder'.target = feeder.target
        /\ feeder.age >= Hold => feeder'.platter = 0
        /\ feeder.target # NaN => feeder'.inertia = feeder.inertia
    BY PlatterStops
  <1>2. feeder.age \in 0..Hold + 1 /\ Hold \in Nat /\ Coast \in Nat
    BY ScratchNumbers DEF FeederRec
  <1>3. feeder'.age > Hold => feeder'.platter = 0
    <2>1. Aged(feeder.age) > Hold => feeder.age >= Hold
      BY <1>2 DEF Aged
    <2> QED BY <1>1, <2>1
  <1>4. ASSUME feeder.target # NaN, ~feeder.inertia
        PROVE  feeder'.hand.last = feeder.target /\ (Landed(feeder') \/ Nears(feeder', gap))
    <2>1. /\ feeder.cursor \in 0..MaxFrame /\ feeder.target \in 0..MaxFrame /\ feeder.hand \in HandRec
          /\ feeder.hand.last \in 0..MaxFrame /\ feeder.hand.last # NaN
          /\ feeder.hand.speed # NaN /\ feeder.hand.coast # NaN /\ feeder.target \in Frames \cup {NaN}
      BY <1>4, SeenAre DEF Frames
    <2>2. CASE feeder'.platter = 0 /\ feeder'.cursor = feeder.target /\ feeder'.hand = NewHand(feeder.target)
      BY <1>1, <1>4, <2>2 DEF NewHand, Landed
    <2>3. ASSUME NEW h \in Hands(feeder.hand, feeder.target), NEW e \in Int,
                 feeder'.hand = h, AimOf(h) \in 0..MaxFrame, e = AimOf(h) - feeder.cursor,
                 ~Snaps(e), ServoRate(e) \in Int, feeder'.platter = Command(feeder.age, e),
                 feeder'.cursor = feeder.cursor + feeder'.platter
          PROVE  feeder'.hand.last = feeder.target /\ (Landed(feeder') \/ Nears(feeder', gap))
      <3>1. h.last = feeder.target /\ h \in HandRec
        BY <2>1, HandsAre
      <3>2. CASE feeder.age > 0 /\ Landed(feeder)
        <4>1. feeder.hand.last = feeder.target /\ feeder.hand.speed = 0 /\ feeder.hand.coast = 0
              /\ feeder.cursor = feeder.target
          BY <1>4, <3>2 DEF ComesToRest, Landed
        <4>2. h.speed = 0 /\ h.coast = 0 /\ AimOf(h) = feeder.target
          BY <2>1, <4>1, StillHand
        <4>3. e = 0
          BY <2>1, <2>3, <4>1, <4>2
        <4>4. feeder'.platter = 0
          <5>1. 0 \in Int /\ ~Snaps(0)
            BY <2>3, <4>3
          <5>2. ServoRate(0) = 0
            BY <2>3, <4>3, <5>1, ServoIs
          <5> QED BY <2>3, <4>3, <5>2 DEF Command
        <4>5. feeder'.cursor = feeder.target
          BY <2>1, <2>3, <4>1, <4>4
        <4> QED BY <1>1, <2>3, <3>1, <4>2, <4>5 DEF Landed
      <3>3. CASE feeder.age = 0 \/ (feeder.age > 0 /\ Nears(feeder, gap) /\ feeder.hand.last = feeder.target)
        <4> DEFINE k == feeder.hand
        <4>1. h.idle \in Int /\ k.idle \in Int
          <5>1. h.idle \in 0..Coast + 1 /\ k.idle \in 0..Coast + 1
            BY <2>1, <3>1 DEF HandRec
          <5> QED BY <5>1
        <4>2. h.idle >= Aged(feeder.age) - 1 \/ h.idle >= Coast
          <5>1. CASE feeder.age = 0
            <6>1. Aged(0) = 1
              BY <1>2 DEF Aged
            <6>2. h.idle >= 0
              BY <3>1 DEF HandRec
            <6> QED BY <4>1, <5>1, <6>1, <6>2
          <5>2. CASE feeder.age > 0 /\ Nears(feeder, gap) /\ feeder.hand.last = feeder.target
            <6>1. k.idle >= feeder.age - 1 \/ k.idle >= Coast
              BY <5>2 DEF Nears
            <6>2. (k.idle >= Coast /\ h.idle = Coast + 1) \/ (k.idle < Coast /\ h.idle = k.idle + 1)
              BY <2>1, <5>2, HandsAre
            <6>3. Aged(feeder.age) <= feeder.age + 1 /\ Aged(feeder.age) \in Int
              BY <1>2 DEF Aged
            <6> QED BY <1>2, <4>1, <6>1, <6>2, <6>3
          <5> QED BY <3>3, <5>1, <5>2
        <4>3. feeder.age > Coast => Absolute(e) <= GapLeft(feeder.age, gap)
          <5> SUFFICES ASSUME feeder.age > Coast
                       PROVE  Absolute(e) <= GapLeft(feeder.age, gap)
            OBVIOUS
          <5>1. feeder.age > 0 /\ Nears(feeder, gap) /\ k.last = feeder.target
            BY <1>2, <3>3
          <5>2. k.idle >= Coast
            <6>1. k.idle >= feeder.age - 1 \/ k.idle >= Coast
              BY <5>1 DEF Nears
            <6> QED BY <1>2, <4>1, <6>1
          <5>3. h.coast = k.coast /\ h.last = k.last
            <6>1. ~(k.idle < Coast)
              BY <1>2, <4>1, <5>2
            <6> QED BY <2>1, <5>1, <6>1, HandsAre
          <5>4. AimOf(h) = AimOf(k)
            BY <5>3 DEF AimOf
          <5> QED BY <2>3, <5>1, <5>4 DEF Nears
        <4>4. ASSUME Aged(feeder.age) > Coast
              PROVE  Absolute(AimOf(h) - feeder'.cursor) <= GapLeft(Aged(feeder.age), gap)
          <5>1. Absolute(e - Command(feeder.age, e)) <= GapLeft(Aged(feeder.age), gap)
            BY <1>2, <2>3, <4>3, <4>4, WayShrinks
          <5>2. Command(feeder.age, e) \in Int
            BY <2>3 DEF Command
          <5>3. AimOf(h) - feeder'.cursor = e - Command(feeder.age, e)
            BY <2>1, <2>3, <5>2
          <5> QED BY <5>1, <5>3
        <4> QED BY <1>1, <2>3, <3>1, <4>2, <4>4 DEF Nears
      <3>4. feeder.age = 0 \/ feeder.age > 0
        BY <1>2
      <3> QED BY <1>4, <3>2, <3>3, <3>4 DEF ComesToRest
    <2> QED BY <1>4, <2>2, <2>3, ServoChunkIs
  <1> QED BY <1>1, <1>3, <1>4 DEF ComesToRest

\* A deck that has come to rest, or will.
Resting(gap) == DeckKnown /\ (Scratching => ComesToRest(feeder, gap))

\* In every step: a call starts anew.
LEMMA RestingStays ==
  ASSUME NEW gap, Closing(gap), Gestures = {}, Resting(gap), [ScratchCalls \/ ScratchRuns]_scratchVars
  PROVE  Resting(gap)'
  <1>1. DeckKnown /\ DeckKnown' /\ feeder \in FeederRec \cup {NoFeeder}
    BY DeckKnownStays DEF Resting, DeckKnown, ScratchInv, ScratchTypeOK
  <1>2. CASE feeder' = feeder \/ feeder' = NoFeeder
    BY <1>1, <1>2 DEF Resting, Scratching
  <1>3. CASE Chunk
    <2>1. Scratching /\ feeder \in FeederRec /\ HandSeen(feeder) /\ ComesToRest(feeder, gap)
      BY <1>1, <1>3 DEF Chunk, Scratching, DeckKnown, Resting
    <2>2. ComesToRest(feeder', gap)
      BY <1>3, <2>1, ChunkRests
    <2> QED BY <1>1, <2>2 DEF Resting
  <1>4. ASSUME NEW rate, NEW target, NEW inertia, Gesture(rate, target, inertia)
        PROVE  Resting(gap)'
    <2>1. feeder'.age = 0
      <3>1. CASE Scratching
        <4>1. feeder' = [feeder EXCEPT !.rate = rate, !.target = target, !.inertia = inertia, !.age = 0]
          BY <1>4, <3>1 DEF Gesture, Updated
        <4>2. feeder \in FeederRec
          BY <1>1, <3>1 DEF Scratching
        <4> QED BY <4>1, <4>2 DEF FeederRec
      <3>2. CASE ~Scratching
        BY <1>4, <3>2 DEF Gesture, Started
      <3> QED BY <3>1, <3>2
    <2>2. ~(0 > Hold) /\ ~(0 > 0)
      BY ScratchNumbers
    <2> QED BY <1>1, <2>1, <2>2 DEF Resting, ComesToRest
  <1>5. CASE ScratchCalls
    <2>1. CASE LoadTrack \/ RebuildDeck \/ PlayDeck \/ StopScratch
      BY <1>2, <2>1 DEF LoadTrack, RebuildDeck, PlayDeck, StopScratch
    <2>2. CASE PauseDeck
      BY <1>2, <2>2 DEF PauseDeck, StopFeeder
    <2>3. CASE \E p \in {0, MaxFrame} : SeekDeck(p)
      BY <1>2, <2>3 DEF SeekDeck
    <2>4. CASE \E r \in Rates : ScratchAt(r)
      BY <1>4, <2>4 DEF ScratchAt
    <2>5. CASE \E p \in Frames, inert \in BOOLEAN : ScratchTo(p, inert)
      BY <1>4, <2>5 DEF ScratchTo
    <2> QED BY <1>5, <2>1, <2>2, <2>3, <2>4, <2>5 DEF ScratchCalls
  <1>6. CASE FileAdvances \/ EndsOfStream
    BY <1>2, <1>6 DEF FileAdvances, EndsOfStream
  <1>7. CASE UNCHANGED scratchVars
    BY <1>2, <1>7 DEF scratchVars
  <1> QED BY <1>3, <1>5, <1>6, <1>7 DEF ScratchRuns

\* When hold_ms has passed without a call the deck is silent, with its cursor by the hand
\* (scratch_feeder in pipeline.rs), if the servo closes the snap distance in the time that
\* hold_ms leaves beyond the coast.  Of the 67 chunks of SCRUB_HOLD_MS (seekBus.ts:267) the
\* coast leaves 47, and the servo needs 27 for half a second at three quarters a chunk.
THEOREM RestsByTheHandHolds ==
  ASSUME NEW CONSTANT gap, Closing(gap), Gestures = {}
  PROVE  ScratchSpec => []RestsByTheHand
  <1>1. ScratchInit => Resting(gap)
    <2> SUFFICES ASSUME ScratchInit PROVE Resting(gap)
      OBVIOUS
    <2>1. ~Scratching
      BY DEF ScratchInit, Scratching
    <2> QED BY <2>1, InitKnown DEF Resting
  <1>2. Resting(gap) /\ [ScratchCalls \/ ScratchRuns]_scratchVars => Resting(gap)'
    BY RestingStays
  <1>3. Resting(gap) => RestsByTheHand
    <2> SUFFICES ASSUME Resting(gap), Scratching, feeder.age > Hold
                 PROVE  /\ feeder.platter = 0
                        /\ feeder.target # NaN /\ ~feeder.inertia =>
                             Absolute(feeder.cursor - feeder.target) <= CoastCap
      BY DEF RestsByTheHand
    <2>1. feeder \in FeederRec /\ HandSeen(feeder) /\ ComesToRest(feeder, gap)
      BY DEF Resting, DeckKnown, ScratchInv, ScratchTypeOK, Scratching
    <2>2. Hold \in Nat /\ Coast \in Nat /\ Hold > Coast /\ CoastCap \in Nat
      BY ScratchNumbers DEF Closing
    <2>3. ASSUME feeder.target # NaN, ~feeder.inertia
          PROVE  Absolute(feeder.cursor - feeder.target) <= CoastCap
      <3>1. /\ feeder.cursor \in 0..MaxFrame /\ feeder.target \in 0..MaxFrame
            /\ feeder.hand.coast \in -CoastCap..CoastCap /\ feeder.age \in 0..Hold + 1
        BY <2>1, <2>3, SeenAre
      <3>2. feeder.age > 0 /\ feeder.age > Coast
        BY <2>2, <3>1
      <3>3. feeder.hand.last = feeder.target
        BY <2>1, <2>3, <3>2 DEF ComesToRest
      <3> DEFINE a == AimOf(feeder.hand)
                 x == feeder.cursor
                 t == feeder.target
      <3>4. a \in 0..MaxFrame /\ Absolute(a - t) <= CoastCap
        BY <3>1, <3>3, AimIs DEF AimOf
      <3>5. CASE Landed(feeder)
        <4>1. x - t = 0
          BY <3>1, <3>5 DEF Landed
        <4> QED BY <2>2, <4>1 DEF Absolute
      <3>6. CASE Nears(feeder, gap)
        <4>1. GapLeft(feeder.age, gap) = 0
          <5>1. (IF feeder.age > Hold THEN Hold ELSE feeder.age) = Hold
            OBVIOUS
          <5> QED BY <5>1 DEF GapLeft, Closing
        <4>2. Absolute(a - x) <= 0
          BY <3>2, <3>6, <4>1 DEF Nears
        <4> HIDE DEF a, x, t
        <4>3. a - x = 0
          <5>1. a - x \in Int /\ Absolute(a - x) = IF a - x < 0 THEN -(a - x) ELSE a - x
            BY <3>1, <3>4 DEF Absolute, x
          <5> QED BY <4>2, <5>1
        <4>4. x = a
          BY <3>1, <3>4, <4>3 DEF x
        <4> QED BY <3>4, <4>4 DEF x, t
      <3> QED BY <2>1, <2>3, <3>2, <3>5, <3>6 DEF ComesToRest
    <2> QED BY <2>1, <2>3 DEF ComesToRest
  <1> QED BY <1>1, <1>2, <1>3, PTL DEF ScratchSpec

----------------------------------------------------------------------------
(* The visualizers' tap, where the routing changes when no buffer is queued.*)

\* The channels of a routing that take something from a side.
Fed(m, side) == {c \in DOMAIN m : m[c][side] > 0}
Routed(m, c, side) == IF Fed(m, side) # {} THEN c \in Fed(m, side) ELSE m[c] # <<0, 0>>

\* Of some natural numbers, one is the least.
LEMMA SomeLeast ==
  ASSUME NEW S \in SUBSET Nat, S # {}
  PROVE  \E c \in S : \A d \in S : c <= d
  <1> DEFINE R == OpToRel(<, Nat)
  <1>1. IsWellFoundedOn(R, Nat)
    BY Zenon, NatLessThanWellFounded
  <1>2. \A c, d \in Nat : d < c => <<d, c>> \in R
    BY Zenon DEF OpToRel
  <1> HIDE DEF R
  <1>3. PICK c \in S : \A d \in S : ~(<<d, c>> \in R)
    BY <1>1, WFMin
  <1>4. \A d \in S : ~(d < c)
    BY <1>2, <1>3
  <1> QED BY <1>4

\* Of the numbers of some channels, one is the largest.
LEMMA SomeMost ==
  ASSUME NEW n \in Nat, NEW S \in SUBSET (1..n), S # {}, NEW f \in [S -> Nat]
  PROVE  \E c \in S : \A d \in S : f[d] <= f[c]
  <1> DEFINE Tops(k) == \E c \in S : c <= k /\ \A d \in S : d <= k => f[d] <= f[c]
             T == {k \in Nat : (\E c \in S : c <= k) /\ ~Tops(k)}
  <1>1. \A c \in S : c \in Nat /\ c > 0 /\ c <= n /\ f[c] \in Nat
    OBVIOUS
  <1>2. T = {}
    <2> SUFFICES ASSUME T # {} PROVE FALSE
      OBVIOUS
    <2>1. PICK k \in T : \A j \in T : k <= j
      <3>1. T \subseteq Nat
        OBVIOUS
      <3> HIDE DEF T
      <3> QED BY <3>1, SomeLeast
    <2>2. \A j \in T : ~(j < k)
      <3>1. \A j \in T : j \in Nat
        OBVIOUS
      <3> HIDE DEF T
      <3> QED BY <2>1, <3>1
    <2>3. k \in Nat /\ (\E c \in S : c <= k) /\ ~Tops(k)
      OBVIOUS
    <2>4. k > 0 /\ k - 1 \in Nat /\ k - 1 < k
      BY <1>1, <2>3
    <2>5. k - 1 \notin T
      BY <2>2, <2>4
    <2>6. CASE \E c \in S : c <= k - 1
      <3>1. PICK c \in S : c <= k - 1 /\ \A d \in S : d <= k - 1 => f[d] <= f[c]
        BY <2>4, <2>5, <2>6
      <3>2. \A d \in S : d <= k => d <= k - 1 \/ d = k
        BY <1>1, <2>3
      <3>3. CASE k \in S /\ f[k] > f[c]
        <4>1. \A d \in S : d <= k => f[d] <= f[k]
          BY <1>1, <3>1, <3>2, <3>3
        <4>2. k <= k
          BY <2>3
        <4> QED BY <2>3, <3>3, <4>1, <4>2
      <3>4. CASE ~(k \in S /\ f[k] > f[c])
        <4>1. \A d \in S : d <= k => f[d] <= f[c]
          BY <1>1, <3>1, <3>2, <3>4
        <4>2. c <= k
          BY <1>1, <2>3, <3>1
        <4> QED BY <2>3, <4>1, <4>2
      <3> QED BY <3>3, <3>4
    <2>7. CASE ~\E c \in S : c <= k - 1
      <3>1. \A d \in S : d <= k => d = k
        BY <1>1, <2>3, <2>7
      <3>2. k \in S /\ k <= k /\ f[k] <= f[k]
        BY <1>1, <2>3, <3>1
      <3> QED BY <2>3, <3>1, <3>2
    <2> QED BY <2>6, <2>7
  <1>3. n \notin T /\ \E c \in S : c <= n
    BY <1>1, <1>2
  <1>4. Tops(n)
    BY <1>3
  <1> HIDE DEF T
  <1> QED BY <1>1, <1>4

\* The channel that takes most from a side is one that takes something, if there is one.
LEMMA StrongestIs ==
  ASSUME NEW m \in Seq(Nat \X Nat), NEW side, side = 1 \/ side = 2
  PROVE  IF Fed(m, side) = {} THEN Strongest(m, side) = 0 ELSE Strongest(m, side) \in Fed(m, side)
  <1>1. CASE Fed(m, side) = {}
    BY <1>1 DEF Strongest, Fed
  <1>2. CASE Fed(m, side) # {}
    <2> DEFINE fed == Fed(m, side)
               most == {c \in fed : \A d \in fed : m[d][side] <= m[c][side]}
               f == [c \in fed |-> m[c][side]]
    <2>1. DOMAIN m = 1..Len(m) /\ Len(m) \in Nat /\ \A c \in DOMAIN m : m[c] \in Nat \X Nat
      OBVIOUS
    <2>2. fed \in SUBSET (1..Len(m)) /\ \A c \in fed : m[c][side] \in Nat
      BY <2>1 DEF Fed
    <2>3. f \in [fed -> Nat]
      BY <2>2
    <2>4. \E c \in fed : \A d \in fed : f[d] <= f[c]
      <3> HIDE DEF fed, f
      <3> QED BY <1>2, <2>1, <2>2, <2>3, SomeMost DEF fed
    <2>5. most # {} /\ most \subseteq Nat
      <3>1. \A c \in fed : c \in Nat
        BY <2>2
      <3> QED BY <2>4, <3>1
    <2>7. \E c \in most : \A d \in most : c <= d
      <3> HIDE DEF most
      <3> QED BY <2>5, SomeLeast
    <2>8. Strongest(m, side) = CHOOSE e \in most : \A d \in most : e <= d
      BY <1>2 DEF Strongest, Fed
    <2> HIDE DEF most
    <2>9. Strongest(m, side) \in most
      BY <2>7, <2>8
    <2> QED BY <1>2, <2>9 DEF most
  <1> QED BY <1>1, <1>2

\* The pair of main channels (main_pair): each is one of the side's own, if there is one.
LEMMA MainPairIs ==
  ASSUME NEW m \in Seq(Nat \X Nat)
  PROVE  /\ MainPair(m) \in Seq(Nat)
         /\ MainPair(m) # <<>> => /\ m # <<>>
                                  /\ MainPair(m)[1] \in DOMAIN m /\ Routed(m, MainPair(m)[1], 1)
                                  /\ MainPair(m)[2] \in DOMAIN m /\ Routed(m, MainPair(m)[2], 2)
  <1> DEFINE l == Strongest(m, 1)
             r == Strongest(m, 2)
  <1>1. /\ IF Fed(m, 1) = {} THEN l = 0 ELSE l \in Fed(m, 1)
        /\ IF Fed(m, 2) = {} THEN r = 0 ELSE r \in Fed(m, 2)
    BY StrongestIs
  <1>2. /\ DOMAIN m \subseteq Nat \ {0} /\ (DOMAIN m # {} => m # <<>>)
        /\ \A c \in DOMAIN m : m[c] \in Nat \X Nat
    OBVIOUS
  <1>3. /\ l # 0 => l \in Nat /\ l \in DOMAIN m /\ l \in Fed(m, 1) /\ m[l] # <<0, 0>>
        /\ l = 0 => Fed(m, 1) = {}
        /\ r # 0 => r \in Nat /\ r \in DOMAIN m /\ r \in Fed(m, 2) /\ m[r] # <<0, 0>>
        /\ r = 0 => Fed(m, 2) = {}
    <2>1. \A c \in DOMAIN m : c # 0
      BY <1>2
    <2>2. ASSUME NEW side, side = 1 \/ side = 2, NEW c \in Fed(m, side)
          PROVE  c \in Nat /\ c \in DOMAIN m /\ c # 0 /\ m[c] # <<0, 0>>
      BY <1>2, <2>1, <2>2 DEF Fed
    <2>3. Fed(m, 1) # {} => l \in Fed(m, 1)
      BY <1>1
    <2>4. Fed(m, 2) # {} => r \in Fed(m, 2)
      BY <1>1
    <2>5. (Fed(m, 1) = {} => l = 0) /\ (Fed(m, 2) = {} => r = 0)
      BY <1>1
    <2> HIDE DEF l, r
    <2>6. Fed(m, 1) # {} => l \in Nat /\ l \in DOMAIN m /\ l # 0 /\ m[l] # <<0, 0>>
      BY <2>2, <2>3
    <2>7. Fed(m, 2) # {} => r \in Nat /\ r \in DOMAIN m /\ r # 0 /\ m[r] # <<0, 0>>
      BY <2>2, <2>4
    <2> QED BY <2>3, <2>4, <2>5, <2>6, <2>7
  <1> HIDE DEF l, r
  <1>4. MainPair(m) = CASE l = 0 /\ r = 0 -> <<>>
                        [] l # 0 /\ r = 0 -> <<l, l>>
                        [] l = 0 /\ r # 0 -> <<r, r>>
                        [] OTHER -> <<l, r>>
    BY DEF MainPair, l, r
  <1>5. CASE l = 0 /\ r = 0
    BY <1>4, <1>5
  <1>6. CASE l # 0 /\ r = 0
    <2>1. MainPair(m) = <<l, l>>
      BY <1>4, <1>6
    <2>2. Routed(m, l, 1) /\ Routed(m, l, 2)
      BY <1>3, <1>6 DEF Routed
    <2>3. l \in Nat /\ l \in DOMAIN m /\ m # <<>>
      BY <1>2, <1>3, <1>6
    <2> QED BY <2>1, <2>2, <2>3
  <1>7. CASE l = 0 /\ r # 0
    <2>1. MainPair(m) = <<r, r>>
      BY <1>4, <1>7
    <2>2. Routed(m, r, 1) /\ Routed(m, r, 2)
      BY <1>3, <1>7 DEF Routed
    <2>3. r \in Nat /\ r \in DOMAIN m /\ m # <<>>
      BY <1>2, <1>3, <1>7
    <2> QED BY <2>1, <2>2, <2>3
  <1>8. CASE l # 0 /\ r # 0
    <2>1. MainPair(m) = <<l, r>>
      BY <1>4, <1>8
    <2>2. Routed(m, l, 1) /\ Routed(m, r, 2)
      BY <1>3, <1>8 DEF Routed
    <2>3. l \in Nat /\ r \in Nat /\ l \in DOMAIN m /\ r \in DOMAIN m /\ m # <<>>
      BY <1>2, <1>3, <1>8
    <2> QED BY <2>1, <2>2, <2>3
  <1> QED BY <1>5, <1>6, <1>7, <1>8

\* A window shows the last frames that were taken, of channels that main is routed to.
Shows(w, taken, side) ==
    \A i \in 1..Span :
      /\ w[i] # Silence =>
           /\ Len(taken) - Span + i \in 1..Len(taken) /\ w[i] \in Sample
           /\ w[i].frame = taken[Len(taken) - Span + i]
           /\ Routed(w[i].matrix, w[i].channel, side)
      /\ w[i] = Silence /\ Len(taken) - Span + i \in 1..Len(taken) =>
           \E m \in Matrices : Len(m) > Width

BufferRec == [at : Nat, frames : Buffers, matrix : Matrices \cup {<<>>}]
Panes == [1..Span -> Sample \cup {Silence}]
TapState ==
    [matrix : Matrices \cup {<<>>}, pair : Seq(Nat), open : BOOLEAN, queue : Seq(BufferRec),
     taken : Seq(Nat), left : Panes, right : Panes, now : Nat, due : Nat, emitted : Nat,
     listening : BOOLEAN, want : BOOLEAN, sent : BOOLEAN \cup {Unsent}, failures : Nat]

\* The schedule, and the gate whose calls are answered.
InTime(c) == c.emitted * Period <= c.due /\ c.due <= c.now + Period
GateTold(c) == c.failures = 0 /\ c.sent # Unsent => c.listening = c.sent
Mixed(c) == \A i \in 1..Len(c.queue) : c.queue[i].matrix = c.matrix

\* The windows show what was taken; what is queued was mixed under the routing there is.
TapInv(c) ==
    /\ c \in TapState /\ c.pair = MainPair(c.matrix) /\ Mixed(c)
    /\ Shows(c.left, c.taken, 1) /\ Shows(c.right, c.taken, 2)
    /\ InTime(c) /\ GateTold(c)

\* The frames of a buffer, in order.
LEMMA FramesIn ==
  ASSUME NEW a \in Nat, NEW k \in Nat
  PROVE  LET more == [f \in 1..k |-> a + f] IN
         more \in Seq(Nat) /\ Len(more) = k /\ \A f \in 1..k : more[f] = a + f
  <1> DEFINE more == [f \in 1..k |-> a + f]
  <1>1. \A g \in [1..k -> Nat] : g \in Seq(Nat) /\ Len(g) = k
    OBVIOUS
  <1>2. more \in [1..k -> Nat] /\ \A f \in 1..k : more[f] = a + f
    OBVIOUS
  <1> HIDE DEF more
  <1> QED BY <1>1, <1>2 DEF more

\* The frames of a buffer.
FramesOf(b) == [f \in 1..b.frames |-> b.at + f]

\* Each place of a window that a buffer slid into holds what another place held, of the same
\* frame taken, or a sample of the buffer, of the frame that comes there.
Slid(v, w, taken, all, b, c) ==
    \A i \in 1..Span :
      \/ \E j \in 1..Span :
           /\ v[i] = w[j] /\ Len(all) - Span + i = Len(taken) - Span + j
           /\ Len(all) - Span + i \in 1..Len(all) <=> Len(taken) - Span + j \in 1..Len(taken)
           /\ Len(taken) - Span + j \in 1..Len(taken) =>
                all[Len(all) - Span + i] = taken[Len(taken) - Span + j]
      \/ \E k \in 1..b.frames :
           /\ v[i] = SampleOf(b, k, c) /\ Len(all) - Span + i \in 1..Len(all)
           /\ all[Len(all) - Span + i] = b.at + k

\* A buffer slides into a window (push_interleaved).
LEMMA PushedSlides ==
  ASSUME NEW w, NEW taken \in Seq(Nat), NEW b \in BufferRec, NEW c
  PROVE  LET all == taken \o FramesOf(b)
             v == Pushed(w, b, c) IN
         /\ all \in Seq(Nat) /\ DOMAIN v = 1..Span /\ v = [i \in 1..Span |-> v[i]]
         /\ Slid(v, w, taken, all, b, c)
  <1>1. Span \in Nat /\ Span > 0 /\ b.frames \in Nat /\ b.at \in Nat
    <2>1. b.at \in Nat /\ b.frames \in Buffers
      BY DEF BufferRec
    <2>2. {Span, Width} \subseteq Nat \ {0} /\ Buffers \subseteq Nat
      BY PcmTapAssumption
    <2>3. Span \in Nat \ {0}
      BY <2>2
    <2>4. \A x : x \in Nat \ {0} => x \in Nat /\ x > 0
      OBVIOUS
    <2>5. Span \in Nat /\ Span > 0
      BY <2>3, <2>4
    <2>6. b.frames \in Nat
      BY <2>1, <2>2
    <2> QED BY <2>1, <2>5, <2>6
  <1> DEFINE more == FramesOf(b)
             all == taken \o more
             n == Len(taken)
             v == Pushed(w, b, c)
             take == IF b.frames > Span THEN Span ELSE b.frames
             base == Span - take
             skip == Skipped(b)
  <1>2. more \in Seq(Nat) /\ Len(more) = b.frames /\ \A f \in 1..b.frames : more[f] = b.at + f
    BY <1>1, FramesIn DEF FramesOf
  <1> HIDE DEF more
  <1>3. /\ all \in Seq(Nat) /\ n \in Nat /\ Len(all) = n + b.frames
        /\ \A i \in 1..n : all[i] = taken[i]
        /\ \A f \in 1..b.frames : all[n + f] = b.at + f
    <2>1. n \in Nat /\ n = Len(taken) /\ taken \in Seq(Nat) /\ more \in Seq(Nat)
      BY <1>2
    <2>2. all \in Seq(Nat) /\ Len(all) = n + Len(more)
      BY <2>1
    <2>3. \A i \in 1..n : all[i] = taken[i]
      BY <2>1
    <2>4. \A f \in 1..Len(more) : all[n + f] = more[f]
      <3> SUFFICES ASSUME NEW f \in 1..Len(more) PROVE all[n + f] = more[f]
        OBVIOUS
      <3>1. n + f \in 1..n + Len(more) /\ ~(n + f <= n) /\ n + f - n = f
        BY <2>1
      <3> QED BY <2>1, <3>1
    <2> QED BY <1>2, <2>1, <2>2, <2>3, <2>4
  <1> HIDE DEF all, n
  <1>4. /\ take \in Nat /\ base \in Nat /\ skip \in Nat /\ base + take = Span
        /\ skip + take = b.frames /\ (base > 0 => skip = 0)
    <2> DEFINE k == b.frames
    <2>1. k \in Nat /\ Span \in Nat
      BY <1>1
    <2>2. take = (IF k > Span THEN Span ELSE k) /\ skip = (IF k > Span THEN k - Span ELSE 0)
      BY DEF Skipped
    <2>3. base = Span - take
      OBVIOUS
    <2> HIDE DEF k, take, skip, base
    <2>4. /\ take \in Nat /\ base \in Nat /\ skip \in Nat /\ base + take = Span
          /\ skip + take = k /\ (base > 0 => skip = 0)
      <3>1. CASE k > Span
        <4>1. take = Span /\ skip = k - Span /\ base = Span - Span
          BY <2>2, <2>3, <3>1
        <4> QED BY <2>1, <3>1, <4>1
      <3>2. CASE ~(k > Span)
        <4>1. take = k /\ skip = 0 /\ base = Span - k
          BY <2>2, <2>3, <3>2
        <4> QED BY <2>1, <3>2, <4>1
      <3> QED BY <3>1, <3>2
    <2> QED BY <2>4 DEF k
  <1>5. v = [i \in 1..Span |-> IF i <= base THEN w[i + take] ELSE SampleOf(b, skip + i - base, c)]
    BY DEF Pushed
  <1> HIDE DEF v, take, base, skip
  <1>6. ASSUME NEW i \in 1..Span, i <= base
        PROVE  \E j \in 1..Span :
                   /\ v[i] = w[j] /\ Len(all) - Span + i = n - Span + j
                   /\ Len(all) - Span + i \in 1..Len(all) <=> n - Span + j \in 1..n
                   /\ n - Span + j \in 1..n => all[Len(all) - Span + i] = taken[n - Span + j]
    <2> DEFINE j == i + take
    <2>1. v[i] = w[j]
      BY <1>5, <1>6
    <2>2. i \in Nat /\ i > 0 /\ i <= base
      BY <1>1, <1>6
    <2>3. skip = 0 /\ take = b.frames
      BY <1>1, <1>4, <2>2
    <2>4. j \in 1..Span
      BY <1>1, <1>4, <2>2
    <2>5. Len(all) = n + take
      BY <1>3, <2>3
    <2>6. Len(all) - Span + i = n - Span + j
      <3>1. n \in Nat /\ take \in Nat /\ Span \in Nat /\ i \in Nat
        BY <1>1, <1>3, <1>4, <2>2
      <3> QED BY <2>5, <3>1
    <2> HIDE DEF j
    <2>7. n - Span + j <= n /\ n <= Len(all)
      BY <1>1, <1>3, <1>4, <2>4, <2>5
    <2>8. n - Span + j \in 1..Len(all) <=> n - Span + j \in 1..n
      BY <1>1, <1>3, <2>4, <2>7
    <2> QED BY <1>3, <2>1, <2>4, <2>6, <2>8
  <1>7. ASSUME NEW i \in 1..Span, ~(i <= base)
        PROVE  \E k \in 1..b.frames :
                   /\ v[i] = SampleOf(b, k, c) /\ Len(all) - Span + i \in 1..Len(all)
                   /\ all[Len(all) - Span + i] = b.at + k
    <2> DEFINE k == skip + i - base
    <2>1. v[i] = SampleOf(b, k, c)
      BY <1>5, <1>7
    <2>2. i \in Nat /\ i <= Span /\ i > base
      BY <1>1, <1>4, <1>7
    <2>3. k \in 1..b.frames
      BY <1>1, <1>4, <2>2
    <2>4. Len(all) - Span + i = n + k
      <3>1. n \in Nat /\ skip \in Nat /\ base \in Nat /\ take \in Nat /\ i \in Nat
        BY <1>3, <1>4, <2>2
      <3>2. Len(all) = n + (skip + take) /\ Span = base + take
        BY <1>3, <1>4
      <3> HIDE DEF all
      <3> QED BY <3>1, <3>2
    <2> HIDE DEF k
    <2>5. n + k \in 1..Len(all) /\ all[n + k] = b.at + k
      BY <1>1, <1>3, <2>3
    <2> QED BY <2>1, <2>3, <2>4, <2>5
  <1>8. DOMAIN v = 1..Span /\ v = [i \in 1..Span |-> v[i]]
    BY <1>5
  <1>9. \A i \in 1..Span :
          \/ \E j \in 1..Span :
               /\ v[i] = w[j] /\ Len(all) - Span + i = n - Span + j
               /\ Len(all) - Span + i \in 1..Len(all) <=> n - Span + j \in 1..n
               /\ n - Span + j \in 1..n => all[Len(all) - Span + i] = taken[n - Span + j]
          \/ \E k \in 1..b.frames :
               /\ v[i] = SampleOf(b, k, c) /\ Len(all) - Span + i \in 1..Len(all)
               /\ all[Len(all) - Span + i] = b.at + k
    BY <1>6, <1>7
  <1>10. Slid(v, w, taken, all, b, c)
    BY <1>9 DEF Slid, n
  <1> QED BY <1>3, <1>8, <1>10 DEF v, all, more

\* What a buffer reads as: silence, or the sample of the frame and the channel.
LEMMA SampleIs ==
  ASSUME NEW b \in BufferRec, NEW k \in 1..b.frames, NEW c
  PROVE  \/ SampleOf(b, k, c) = Silence /\ (c \notin 1..Width \/ b.matrix = <<>>)
         \/ /\ SampleOf(b, k, c) \in Sample /\ SampleOf(b, k, c) # Silence
            /\ SampleOf(b, k, c).frame = b.at + k
            /\ SampleOf(b, k, c).matrix = b.matrix /\ SampleOf(b, k, c).channel = c
  <1> DEFINE s == [frame |-> b.at + k, channel |-> c, matrix |-> b.matrix]
  <1>1. b.at + k \in Nat /\ b.matrix \in Matrices \cup {<<>>}
    <2>1. b.at \in Nat /\ b.frames \in Nat /\ b.matrix \in Matrices \cup {<<>>}
      BY PcmTapAssumption DEF BufferRec
    <2> QED BY <2>1
  <1>2. CASE c \in 1..Width /\ b.matrix # <<>>
    <2>1. s \in Sample
      BY <1>1, <1>2 DEF Sample
    <2>2. SampleOf(b, k, c) = s
      BY <1>2 DEF SampleOf
    <2> QED BY <2>1, <2>2, SilenceAssumption
  <1>3. CASE c \notin 1..Width \/ b.matrix = <<>>
    BY <1>3 DEF SampleOf
  <1> QED BY <1>2, <1>3

\* A buffer slides into a window (push_interleaved).
LEMMA PushedShows ==
  ASSUME NEW w, NEW taken \in Seq(Nat), NEW side, Shows(w, taken, side),
         NEW b \in BufferRec, NEW c \in Nat, b.matrix \in Matrices, b.matrix # <<>>,
         c \in DOMAIN b.matrix, Routed(b.matrix, c, side), w \in Panes
  PROVE  LET all == taken \o FramesOf(b) IN
         Pushed(w, b, c) \in Panes /\ Shows(Pushed(w, b, c), all, side) /\ all \in Seq(Nat)
  <1> DEFINE all == taken \o FramesOf(b)
             v == Pushed(w, b, c)
             Here(i) == Len(all) - Span + i
             Was(j) == Len(taken) - Span + j
  <1>1. all \in Seq(Nat) /\ v = [i \in 1..Span |-> v[i]] /\ Slid(v, w, taken, all, b, c)
    <2>1. all \in Seq(Nat)
      BY PushedSlides
    <2>2. v = [i \in 1..Span |-> v[i]]
      BY DEF Pushed
    <2>3. Slid(v, w, taken, all, b, c)
      BY PushedSlides
    <2> QED BY <2>1, <2>2, <2>3
  <1>2. c \notin 1..Width => \E m \in Matrices : Len(m) > Width
    <2>1. b.matrix \in Seq(Nat \X Nat) /\ Width \in Nat
      BY PcmTapAssumption
    <2>2. c \notin 1..Width => Len(b.matrix) > Width
      BY <2>1
    <2> QED BY <2>2
  <1> HIDE DEF all, v
  <1>3. \A j \in 1..Span :
          /\ w[j] \in Sample \cup {Silence}
          /\ w[j] # Silence =>
               /\ Was(j) \in 1..Len(taken) /\ w[j].frame = taken[Was(j)]
               /\ Routed(w[j].matrix, w[j].channel, side)
          /\ w[j] = Silence /\ Was(j) \in 1..Len(taken) => \E m \in Matrices : Len(m) > Width
    BY DEF Shows, Panes
  <1>4. \A i \in 1..Span :
          \/ \E j \in 1..Span : /\ v[i] = w[j] /\ Here(i) = Was(j)
                                /\ Here(i) \in 1..Len(all) <=> Was(j) \in 1..Len(taken)
                                /\ Was(j) \in 1..Len(taken) => all[Here(i)] = taken[Was(j)]
          \/ \E k \in 1..b.frames : /\ v[i] = SampleOf(b, k, c) /\ Here(i) \in 1..Len(all)
                                    /\ all[Here(i)] = b.at + k
    BY <1>1 DEF Slid
  <1> HIDE DEF Here, Was
  <1>5. ASSUME NEW i \in 1..Span
        PROVE  /\ v[i] \in Sample \cup {Silence}
               /\ v[i] # Silence =>
                    /\ Here(i) \in 1..Len(all) /\ v[i].frame = all[Here(i)]
                    /\ Routed(v[i].matrix, v[i].channel, side)
               /\ v[i] = Silence /\ Here(i) \in 1..Len(all) => \E m \in Matrices : Len(m) > Width
    <2>1. CASE \E j \in 1..Span : /\ v[i] = w[j] /\ Here(i) = Was(j)
                                  /\ Here(i) \in 1..Len(all) <=> Was(j) \in 1..Len(taken)
                                  /\ Was(j) \in 1..Len(taken) => all[Here(i)] = taken[Was(j)]
      BY <1>3, <2>1
    <2>2. CASE \E k \in 1..b.frames : /\ v[i] = SampleOf(b, k, c) /\ Here(i) \in 1..Len(all)
                                      /\ all[Here(i)] = b.at + k
      <3>1. PICK k \in 1..b.frames : /\ v[i] = SampleOf(b, k, c) /\ Here(i) \in 1..Len(all)
                                     /\ all[Here(i)] = b.at + k
        BY <2>2
      <3>2. \/ v[i] = Silence /\ c \notin 1..Width
            \/ /\ v[i] \in Sample /\ v[i] # Silence /\ v[i].frame = b.at + k
               /\ v[i].matrix = b.matrix /\ v[i].channel = c
        BY <3>1, SampleIs
      <3> QED BY <1>2, <3>1, <3>2
    <2> QED BY <1>4, <2>1, <2>2
  <1>6. v \in Panes
    BY <1>1, <1>5 DEF Panes
  <1>7. Shows(v, all, side)
    BY <1>5, SilenceAssumption DEF Shows, Here
  <1> QED BY <1>1, <1>6, <1>7 DEF v, all

\* No main branch, no pair.
LEMMA NoPair == MainPair(<<>>) = <<>>
  <1>1. Strongest(<<>>, 1) = 0 /\ Strongest(<<>>, 2) = 0
    BY DEF Strongest
  <1> QED BY <1>1 DEF MainPair

\* A routing's pair is a sequence of channels.
LEMMA PairIn ==
  ASSUME NEW m \in Matrices \cup {<<>>}
  PROVE  MainPair(m) \in Seq(Nat)
  <1>1. CASE m \in Matrices
    <2>1. m \in Seq(Nat \X Nat)
      BY <1>1, PcmTapAssumption
    <2> QED BY <2>1, MainPairIs
  <1>2. CASE m = <<>>
    <2>1. MainPair(m) = <<>>
      BY <1>2, NoPair
    <2>2. <<>> \in Seq(Nat)
      OBVIOUS
    <2> QED BY <2>1, <2>2
  <1> QED BY <1>1, <1>2

\* The tap is refreshed (refresh_tap).
LEMMA RefreshKeeps ==
  ASSUME NEW c \in TapState, Mixed(c), Shows(c.left, c.taken, 1), Shows(c.right, c.taken, 2),
         InTime(c), GateTold(c)
  PROVE  TapInv(RefreshTap(c))
  <1> DEFINE pair == MainPair(c.matrix)
             open == c.listening /\ pair # <<>>
             d == RefreshTap(c)
  <1>1. c.matrix \in Matrices \cup {<<>>} /\ c.listening \in BOOLEAN
    BY DEF TapState
  <1>2. pair \in Seq(Nat) /\ open \in BOOLEAN
    BY <1>1, PairIn
  <1>3. d = [c EXCEPT !.pair = pair, !.open = open]
    BY DEF RefreshTap
  <1>4. pair = MainPair(c.matrix)
    OBVIOUS
  <1> HIDE DEF pair, open, d
  <1>5. /\ d \in TapState /\ d.pair = pair /\ d.matrix = c.matrix /\ d.queue = c.queue
        /\ d.left = c.left /\ d.right = c.right /\ d.taken = c.taken /\ d.now = c.now
        /\ d.due = c.due /\ d.emitted = c.emitted /\ d.listening = c.listening
        /\ d.sent = c.sent /\ d.failures = c.failures
    BY <1>2, <1>3 DEF TapState
  <1>6. Mixed(d) /\ InTime(d) /\ GateTold(d)
    BY <1>5 DEF Mixed, InTime, GateTold
  <1>7. Shows(d.left, d.taken, 1) /\ Shows(d.right, d.taken, 2)
    BY <1>5
  <1> QED BY <1>4, <1>5, <1>6, <1>7 DEF TapInv, d

\* The routing changes, with nothing queued.
LEMMA RoutesKeeps ==
  ASSUME TapInv(pcm), NEW m \in Matrices \cup {<<>>}, Routes(m), Lagging = FALSE
  PROVE  TapInv(pcm')
  <1> DEFINE c == [pcm EXCEPT !.matrix = m]
  <1>1. pcm.queue = <<>> /\ pcm' = RefreshTap(c)
    BY DEF Routes
  <1>2. pcm \in TapState
    BY DEF TapInv
  <1>3. c = [pcm EXCEPT !.matrix = m]
    OBVIOUS
  <1> HIDE DEF c
  <1>4. /\ c \in TapState /\ c.queue = pcm.queue /\ c.left = pcm.left /\ c.right = pcm.right
        /\ c.taken = pcm.taken /\ c.now = pcm.now /\ c.due = pcm.due /\ c.emitted = pcm.emitted
        /\ c.listening = pcm.listening /\ c.sent = pcm.sent /\ c.failures = pcm.failures
    BY <1>2, <1>3 DEF TapState
  <1>5. Mixed(c)
    BY <1>1, <1>4 DEF Mixed
  <1>6. InTime(c) /\ GateTold(c)
    BY <1>4 DEF TapInv, InTime, GateTold
  <1>7. Shows(c.left, c.taken, 1) /\ Shows(c.right, c.taken, 2)
    BY <1>4 DEF TapInv
  <1> QED BY <1>1, <1>4, <1>5, <1>6, <1>7, RefreshKeeps

\* The node mixes a buffer.
LEMMA MixesKeeps ==
  ASSUME TapInv(pcm), NEW frames \in Buffers, Mixes(frames)
  PROVE  TapInv(pcm')
  <1> DEFINE b == [at |-> pcm.now, frames |-> frames, matrix |-> pcm.matrix]
             more == Append(pcm.queue, b)
             queue == CASE ~pcm.open -> pcm.queue
                        [] pcm.open /\ Len(more) > Slots -> Tail(more)
                        [] OTHER -> more
             now == pcm.now + frames
             d == pcm'
  <1>1. pcm \in TapState
    BY DEF TapInv
  <1>2. /\ pcm.now \in Nat /\ frames \in Nat /\ pcm.matrix \in Matrices \cup {<<>>}
        /\ pcm.queue \in Seq(BufferRec) /\ pcm.open \in BOOLEAN
    BY <1>1, PcmTapAssumption DEF TapState
  <1>3. b \in BufferRec /\ b.matrix = pcm.matrix
    BY <1>2 DEF BufferRec
  <1>4. \A i \in 1..Len(pcm.queue) : pcm.queue[i].matrix = pcm.matrix
    BY DEF TapInv, Mixed
  <1>5. d = [pcm EXCEPT !.now = now, !.queue = queue]
    BY DEF Mixes
  <1> HIDE DEF b, d
  <1>6. /\ more \in Seq(BufferRec) /\ Len(more) = Len(pcm.queue) + 1
        /\ \A i \in 1..Len(more) : more[i].matrix = pcm.matrix
    <2> DEFINE q == pcm.queue
    <2>1. q \in Seq(BufferRec) /\ more = Append(q, b)
      BY <1>2
    <2>2. /\ Append(q, b) \in Seq(BufferRec) /\ Len(Append(q, b)) = Len(q) + 1
          /\ \A i \in 1..Len(q) : Append(q, b)[i] = q[i]
          /\ Append(q, b)[Len(q) + 1] = b /\ Len(q) \in Nat
      <3> HIDE DEF q
      <3> QED BY <1>3, <2>1
    <2>3. \A i \in 1..Len(more) : i \in 1..Len(q) \/ i = Len(q) + 1
      <3> HIDE DEF q
      <3> QED BY <2>1, <2>2
    <2> QED BY <1>3, <1>4, <2>1, <2>2, <2>3
  <1> HIDE DEF more
  <1>7. queue \in Seq(BufferRec) /\ \A i \in 1..Len(queue) : queue[i].matrix = pcm.matrix
    <2>1. CASE ~pcm.open
      <3>1. queue = pcm.queue
        BY <2>1
      <3> QED BY <1>2, <1>4, <3>1
    <2>2. CASE pcm.open /\ Len(more) > Slots
      <3>1. queue = Tail(more) /\ more # <<>>
        BY <1>6, <2>2
      <3>2. /\ Tail(more) \in Seq(BufferRec) /\ Len(Tail(more)) = Len(more) - 1 /\ Len(more) \in Nat
            /\ \A i \in 1..Len(Tail(more)) : Tail(more)[i] = more[i + 1]
        BY <1>6, <3>1
      <3>3. \A i \in 1..Len(Tail(more)) : i + 1 \in 1..Len(more)
        BY <3>2
      <3>4. ASSUME NEW i \in 1..Len(queue) PROVE queue[i].matrix = pcm.matrix
        <4>1. i \in 1..Len(Tail(more)) /\ queue[i] = Tail(more)[i]
          BY <3>1
        <4>2. queue[i] = more[i + 1] /\ i + 1 \in 1..Len(more)
          BY <3>2, <3>3, <4>1
        <4> QED BY <1>6, <4>2
      <3> QED BY <3>1, <3>2, <3>4
    <2>3. CASE pcm.open /\ ~(Len(more) > Slots)
      <3>1. queue = more
        BY <2>3
      <3> QED BY <1>6, <3>1
    <2> QED BY <2>1, <2>2, <2>3
  <1>8. now \in Nat /\ now >= pcm.now
    BY <1>2
  <1> HIDE DEF queue, now
  <1>9. /\ d \in TapState /\ d.pair = pcm.pair /\ d.matrix = pcm.matrix /\ d.queue = queue
        /\ d.left = pcm.left /\ d.right = pcm.right /\ d.taken = pcm.taken /\ d.now = now
        /\ d.due = pcm.due /\ d.emitted = pcm.emitted /\ d.listening = pcm.listening
        /\ d.sent = pcm.sent /\ d.failures = pcm.failures
    BY <1>1, <1>5, <1>7, <1>8 DEF TapState
  <1>10. Mixed(d)
    BY <1>7, <1>9 DEF Mixed
  <1>11. InTime(d)
    <2>1. InTime(pcm) /\ pcm.due \in Nat
      BY <1>1 DEF TapInv, TapState
    <2>2. Period \in Nat
      BY PcmTapAssumption
    <2>3. pcm.due <= now + Period
      BY <1>2, <1>8, <2>1, <2>2 DEF InTime
    <2> QED BY <1>9, <2>1, <2>3 DEF InTime
  <1>12. GateTold(d)
    BY <1>9 DEF TapInv, GateTold
  <1>13. Shows(d.left, d.taken, 1) /\ Shows(d.right, d.taken, 2) /\ d.pair = MainPair(d.matrix)
    BY <1>9 DEF TapInv
  <1> QED BY <1>9, <1>10, <1>11, <1>12, <1>13 DEF TapInv, d

\* The schedule of the emissions: it never runs ahead, nor more than a period behind.
LEMMA EmitsInTime ==
  ASSUME NEW c \in TapState, InTime(c)
  PROVE  LET due == CASE c.now < c.due -> c.due
                      [] c.now >= c.due /\ c.now <= c.due + 2 * Period -> c.due + Period
                      [] OTHER -> c.now + Period
             emitted == IF c.now >= c.due THEN c.emitted + 1 ELSE c.emitted IN
         /\ due \in Nat /\ emitted \in Nat
         /\ emitted * Period <= due /\ due <= c.now + Period
  <1> DEFINE t == c.now
             u == c.due
             e == c.emitted
             due == CASE t < u -> u
                      [] t >= u /\ t <= u + 2 * Period -> u + Period
                      [] OTHER -> t + Period
             emitted == IF t >= u THEN e + 1 ELSE e
  <1>1. t \in Nat /\ u \in Nat /\ e \in Nat /\ Period \in Nat
    BY PcmTapAssumption DEF TapState
  <1>2. e * Period <= u /\ u <= t + Period
    BY DEF InTime
  <1> HIDE DEF t, u, e
  <1>3. (e + 1) * Period = e * Period + Period /\ e * Period \in Nat
    BY <1>1
  <1>4. CASE t < u
    <2>1. due = u /\ emitted = e
      BY <1>1, <1>4
    <2> QED BY <1>1, <1>2, <2>1 DEF t, u, e
  <1>5. CASE t >= u /\ t <= u + 2 * Period
    <2>1. due = u + Period /\ emitted = e + 1
      BY <1>1, <1>5
    <2>2. /\ due \in Nat /\ emitted \in Nat
          /\ emitted * Period <= due /\ due <= t + Period
      <3>1. emitted * Period = e * Period + Period
        BY <1>3, <2>1
      <3> QED BY <1>1, <1>2, <1>3, <1>5, <2>1, <3>1
    <2> QED BY <2>2 DEF t, u, e
  <1>6. CASE t >= u /\ ~(t <= u + 2 * Period)
    <2>1. due = t + Period /\ emitted = e + 1
      BY <1>1, <1>6
    <2>2. /\ due \in Nat /\ emitted \in Nat
          /\ emitted * Period <= due /\ due <= t + Period
      <3>1. emitted * Period = e * Period + Period
        BY <1>3, <2>1
      <3> QED BY <1>1, <1>2, <1>3, <1>6, <2>1, <3>1
    <2> QED BY <2>2 DEF t, u, e
  <1> QED BY <1>1, <1>4, <1>5, <1>6

\* A buffer reaches the callback.
LEMMA SampleKeeps ==
  ASSUME TapInv(pcm), NewSample
  PROVE  TapInv(pcm')
  <1> DEFINE b == Head(pcm.queue)
             rest == Tail(pcm.queue)
             left == Pushed(pcm.left, b, pcm.pair[1])
             right == Pushed(pcm.right, b, pcm.pair[2])
             taken == pcm.taken \o FramesOf(b)
             due == CASE pcm.now < pcm.due -> pcm.due
                      [] pcm.now >= pcm.due /\ pcm.now <= pcm.due + 2 * Period -> pcm.due + Period
                      [] OTHER -> pcm.now + Period
             emitted == IF pcm.now >= pcm.due THEN pcm.emitted + 1 ELSE pcm.emitted
             d == pcm'
  <1>1. /\ pcm \in TapState /\ pcm.pair = MainPair(pcm.matrix) /\ Mixed(pcm)
        /\ Shows(pcm.left, pcm.taken, 1) /\ Shows(pcm.right, pcm.taken, 2)
        /\ InTime(pcm) /\ GateTold(pcm)
    BY DEF TapInv
  <1>2. /\ b \in BufferRec /\ b.matrix = pcm.matrix /\ rest \in Seq(BufferRec)
        /\ \A i \in 1..Len(rest) : rest[i].matrix = pcm.matrix
    <2> DEFINE q == pcm.queue
    <2>1. q \in Seq(BufferRec) /\ q # <<>>
      BY <1>1 DEF TapState, NewSample
    <2>2. \A i \in 1..Len(q) : q[i].matrix = pcm.matrix
      BY <1>1 DEF Mixed
    <2> HIDE DEF q
    <2>3. /\ Len(q) \in Nat /\ 1 \in 1..Len(q) /\ Head(q) = q[1] /\ Head(q) \in BufferRec
          /\ Tail(q) \in Seq(BufferRec) /\ Len(Tail(q)) = Len(q) - 1
          /\ \A i \in 1..Len(Tail(q)) : Tail(q)[i] = q[i + 1]
      BY <2>1
    <2>4. \A i \in 1..Len(Tail(q)) : i + 1 \in 1..Len(q)
      BY <2>3
    <2>5. \A i \in 1..Len(Tail(q)) : Tail(q)[i].matrix = pcm.matrix
      BY <2>2, <2>3, <2>4
    <2>6. Head(q).matrix = pcm.matrix
      BY <2>2, <2>3
    <2> QED BY <2>3, <2>5, <2>6 DEF q
  <1>3. /\ due \in Nat /\ emitted \in Nat
        /\ emitted * Period <= due /\ due <= pcm.now + Period
    BY <1>1, EmitsInTime
  <1>4. CASE ~pcm.listening \/ pcm.pair = <<>>
    <2>1. d = [pcm EXCEPT !.queue = rest]
      BY <1>4 DEF NewSample
    <2> HIDE DEF rest, d
    <2>2. /\ d \in TapState /\ d.pair = pcm.pair /\ d.matrix = pcm.matrix /\ d.queue = rest
          /\ d.left = pcm.left /\ d.right = pcm.right /\ d.taken = pcm.taken /\ d.now = pcm.now
          /\ d.due = pcm.due /\ d.emitted = pcm.emitted /\ d.listening = pcm.listening
          /\ d.sent = pcm.sent /\ d.failures = pcm.failures
      BY <1>1, <1>2, <2>1 DEF TapState
    <2>3. Mixed(d) /\ InTime(d) /\ GateTold(d)
      BY <1>1, <1>2, <2>2 DEF Mixed, InTime, GateTold
    <2>4. Shows(d.left, d.taken, 1) /\ Shows(d.right, d.taken, 2) /\ d.pair = MainPair(d.matrix)
      BY <1>1, <2>2
    <2> QED BY <2>2, <2>3, <2>4 DEF TapInv, d
  <1>5. CASE pcm.listening /\ pcm.pair # <<>>
    <2>1. b.matrix # <<>> /\ b.matrix \in Matrices
      <3>1. pcm.matrix # <<>>
        BY <1>1, <1>5, NoPair
      <3>2. pcm.matrix \in Matrices \cup {<<>>}
        BY <1>1 DEF TapState
      <3> QED BY <1>2, <3>1, <3>2
    <2>2. /\ pcm.pair \in Seq(Nat)
          /\ pcm.pair[1] \in DOMAIN b.matrix /\ Routed(b.matrix, pcm.pair[1], 1)
          /\ pcm.pair[2] \in DOMAIN b.matrix /\ Routed(b.matrix, pcm.pair[2], 2)
      <3>1. b.matrix \in Seq(Nat \X Nat)
        BY <2>1, PcmTapAssumption
      <3>2. pcm.pair = MainPair(b.matrix)
        BY <1>1, <1>2
      <3> QED BY <1>5, <3>1, <3>2, MainPairIs
    <2>3. pcm.pair[1] \in Nat /\ pcm.pair[2] \in Nat
      <3>1. b.matrix \in Seq(Nat \X Nat)
        BY <2>1, PcmTapAssumption
      <3>2. DOMAIN b.matrix \subseteq Nat
        BY <3>1
      <3> QED BY <2>2, <3>2
    <2>4. pcm.taken \in Seq(Nat) /\ pcm.left \in Panes /\ pcm.right \in Panes
      BY <1>1 DEF TapState
    <2>5. left \in Panes /\ Shows(left, taken, 1) /\ taken \in Seq(Nat)
      <3> DEFINE x == pcm.pair[1]
      <3>1. x \in Nat /\ x \in DOMAIN b.matrix /\ Routed(b.matrix, x, 1)
        BY <2>2, <2>3
      <3> HIDE DEF x
      <3> HIDE DEF b
      <3>2. Pushed(pcm.left, b, x) \in Panes /\ Shows(Pushed(pcm.left, b, x), taken, 1)
            /\ taken \in Seq(Nat)
        BY <1>1, <1>2, <2>1, <2>4, <3>1, PushedShows
      <3> QED BY <3>2 DEF x
    <2>6. right \in Panes /\ Shows(right, taken, 2)
      <3> DEFINE x == pcm.pair[2]
      <3>1. x \in Nat /\ x \in DOMAIN b.matrix /\ Routed(b.matrix, x, 2)
        BY <2>2, <2>3
      <3> HIDE DEF x
      <3> HIDE DEF b
      <3>2. Pushed(pcm.right, b, x) \in Panes /\ Shows(Pushed(pcm.right, b, x), taken, 2)
        BY <1>1, <1>2, <2>1, <2>4, <3>1, PushedShows
      <3> QED BY <3>2 DEF x
    <2>7. d = [pcm EXCEPT !.queue = rest, !.left = left, !.right = right, !.taken = taken,
                          !.emitted = emitted, !.due = due]
      BY <1>5 DEF NewSample, FramesOf
    <2> HIDE DEF rest, d, left, right, taken, emitted, due
    <2>8. /\ d \in TapState /\ d.pair = pcm.pair /\ d.matrix = pcm.matrix /\ d.queue = rest
          /\ d.left = left /\ d.right = right /\ d.taken = taken /\ d.now = pcm.now
          /\ d.due = due /\ d.emitted = emitted /\ d.listening = pcm.listening
          /\ d.sent = pcm.sent /\ d.failures = pcm.failures
      BY <1>1, <1>2, <1>3, <2>5, <2>6, <2>7 DEF TapState
    <2>9. Mixed(d) /\ InTime(d) /\ GateTold(d)
      BY <1>1, <1>2, <1>3, <2>8 DEF Mixed, InTime, GateTold
    <2>10. Shows(d.left, d.taken, 1) /\ Shows(d.right, d.taken, 2) /\ d.pair = MainPair(d.matrix)
      BY <1>1, <2>5, <2>6, <2>8
    <2> QED BY <2>8, <2>9, <2>10 DEF TapInv, d
  <1>6. pcm.listening \in BOOLEAN
    BY <1>1 DEF TapState
  <1> QED BY <1>4, <1>5, <1>6

\* What the gate's steps change: what is wanted, sent and heard, which agree when it is told.
LEMMA GateIs ==
  ASSUME pcm \in TapState, GateTold(pcm), Wants \/ EvaluateGate \/ GateFails
  PROVE  \E want \in BOOLEAN, sent \in BOOLEAN \cup {Unsent}, listening \in BOOLEAN, n \in Nat :
          /\ pcm' = [pcm EXCEPT !.want = want, !.sent = sent, !.listening = listening,
                                !.failures = n]
          /\ n = 0 /\ sent # Unsent => listening = sent
  <1> DEFINE d == pcm'
  <1>2. /\ pcm.want \in BOOLEAN /\ pcm.sent \in BOOLEAN \cup {Unsent} /\ pcm.failures \in Nat
        /\ pcm.listening \in BOOLEAN
    BY DEF TapState
  <1>3. CASE Wants
    <2> DEFINE other == ~pcm.want
    <2>1. other \in BOOLEAN
      BY <1>2
    <2>2. d = [pcm EXCEPT !.want = other]
      BY <1>3 DEF Wants
    <2> HIDE DEF other, d
    <2>3. d = [pcm EXCEPT !.want = other, !.sent = pcm.sent, !.listening = pcm.listening,
                          !.failures = pcm.failures]
      BY <2>1, <2>2 DEF TapState
    <2>4. pcm.failures = 0 /\ pcm.sent # Unsent => pcm.listening = pcm.sent
      BY DEF GateTold
    <2> QED BY <1>2, <2>1, <2>3, <2>4 DEF d
  <1>4. CASE GateFails
    <2> DEFINE n == pcm.failures - 1
    <2>1. n \in Nat
      BY <1>2, <1>4 DEF GateFails
    <2>2. d = [pcm EXCEPT !.failures = n, !.sent = Unsent]
      BY <1>4 DEF GateFails
    <2> HIDE DEF n, d
    <2>3. d = [pcm EXCEPT !.want = pcm.want, !.sent = Unsent, !.listening = pcm.listening,
                          !.failures = n]
      BY <2>2 DEF TapState
    <2> QED BY <1>2, <2>1, <2>3 DEF d
  <1>5. CASE EvaluateGate /\ pcm' = [pcm EXCEPT !.sent = pcm.want, !.listening = pcm.want]
    <2>1. d = [pcm EXCEPT !.want = pcm.want, !.sent = pcm.want, !.listening = pcm.want,
                          !.failures = pcm.failures]
      BY <1>5 DEF TapState
    <2> QED BY <1>2, <2>1
  <1>6. CASE EvaluateGate /\ pcm' = [pcm EXCEPT !.sent = pcm.want, !.failures = @ + 1]
    <2> DEFINE n == pcm.failures + 1
    <2>1. n \in Nat /\ n # 0
      BY <1>2
    <2>2. d = [pcm EXCEPT !.sent = pcm.want, !.failures = n]
      BY <1>6
    <2> HIDE DEF n, d
    <2>3. d = [pcm EXCEPT !.want = pcm.want, !.sent = pcm.want, !.listening = pcm.listening,
                          !.failures = n]
      BY <2>2 DEF TapState
    <2> QED BY <1>2, <2>1, <2>3 DEF d
  <1> QED BY <1>3, <1>4, <1>5, <1>6 DEF EvaluateGate

\* The gate: what is wanted, what is sent, and what came of it.
LEMMA GateKeeps ==
  ASSUME TapInv(pcm), Wants \/ EvaluateGate \/ GateFails
  PROVE  TapInv(pcm')
  <1> DEFINE d == pcm'
  <1>1. pcm \in TapState /\ GateTold(pcm)
    BY DEF TapInv
  <1>3. PICK want \in BOOLEAN, sent \in BOOLEAN \cup {Unsent}, listening \in BOOLEAN, n \in Nat :
          /\ d = [pcm EXCEPT !.want = want, !.sent = sent, !.listening = listening, !.failures = n]
          /\ n = 0 /\ sent # Unsent => listening = sent
    BY <1>1, GateIs
  <1> HIDE DEF d
  <1>4. /\ d \in TapState /\ d.pair = pcm.pair /\ d.matrix = pcm.matrix /\ d.queue = pcm.queue
        /\ d.left = pcm.left /\ d.right = pcm.right /\ d.taken = pcm.taken /\ d.now = pcm.now
        /\ d.due = pcm.due /\ d.emitted = pcm.emitted /\ d.listening = listening
        /\ d.sent = sent /\ d.failures = n
    BY <1>1, <1>3 DEF TapState
  <1>5. Mixed(d) /\ InTime(d)
    BY <1>4 DEF TapInv, Mixed, InTime
  <1>6. GateTold(d)
    BY <1>3, <1>4 DEF GateTold
  <1>7. Shows(d.left, d.taken, 1) /\ Shows(d.right, d.taken, 2) /\ d.pair = MainPair(d.matrix)
    BY <1>4 DEF TapInv
  <1> QED BY <1>4, <1>5, <1>6, <1>7 DEF TapInv, d

\* The invariant says what the page may rely on.
LEMMA TapShows ==
  ASSUME TapInv(pcm)
  PROVE  ShowsTheMainMix
  <1>1. ASSUME NEW side \in {1, 2}, NEW w, w = IF side = 1 THEN pcm.left ELSE pcm.right,
               NEW i \in 1..Span
        PROVE  /\ w[i] # Silence =>
                    /\ w[i].frame = pcm.taken[Len(pcm.taken) - Span + i]
                    /\ Routed(w[i].matrix, w[i].channel, side)
               /\ w[i] = Silence /\ Len(pcm.taken) - Span + i \in 1..Len(pcm.taken) =>
                    \E m \in Matrices : Len(m) > Width
    <2>1. Shows(w, pcm.taken, side)
      <3>1. CASE side = 1
        BY <1>1, <3>1 DEF TapInv
      <3>2. CASE side = 2
        BY <1>1, <3>2 DEF TapInv
      <3> QED BY <3>1, <3>2
    <2> QED BY <2>1 DEF Shows
  <1>2. pcm.emitted <= 1 + (pcm.now \div Period)
    <2> DEFINE e == pcm.emitted
               t == pcm.now
               q == t \div Period
    <2>1. e \in Nat /\ t \in Nat /\ pcm.due \in Nat
      BY DEF TapInv, TapState
    <2>2. Period \in Nat \ {0}
      BY PcmTapAssumption
    <2>3. e * Period <= t + Period
      BY <2>1, <2>2 DEF TapInv, InTime
    <2>4. q \in Nat /\ t < (q + 1) * Period
      BY <2>1, <2>2
    <2> HIDE DEF e, t, q
    <2>5. SUFFICES ASSUME e > q + 1 PROVE FALSE
      BY <2>1, <2>4 DEF e, t, q
    <2>6. e * Period >= (q + 2) * Period
      BY <2>1, <2>2, <2>4, <2>5
    <2>7. (q + 2) * Period = (q + 1) * Period + Period
      BY <2>2, <2>4
    <2>8. e * Period \in Nat /\ (q + 1) * Period \in Nat
      BY <2>1, <2>2, <2>4
    <2> QED BY <2>1, <2>2, <2>3, <2>4, <2>6, <2>7, <2>8
  <1>3. pcm.failures = 0 /\ pcm.sent = pcm.want => pcm.listening = pcm.want
    BY SilenceAssumption DEF TapInv, TapState, GateTold
  <1> QED BY SMTT(30), <1>1, <1>2, <1>3 DEF ShowsTheMainMix, Routed, Fed

\* The tap starts out silent.
LEMMA TapStarts == PcmInit => TapInv(pcm)
  <1> SUFFICES ASSUME PcmInit PROVE TapInv(pcm)
    OBVIOUS
  <1> DEFINE silent == [i \in 1..Span |-> Silence]
  <1>1. PICK m \in Matrices :
          pcm = [matrix |-> m, pair |-> MainPair(m), open |-> FALSE, queue |-> <<>>, taken |-> <<>>,
                 left |-> silent, right |-> silent, now |-> 0, due |-> 0, emitted |-> 0,
                 listening |-> FALSE, want |-> FALSE, sent |-> Unsent, failures |-> 0]
    BY DEF PcmInit
  <1>2. silent \in Panes /\ \A i \in 1..Span : silent[i] = Silence
    BY DEF Panes
  <1>3. MainPair(m) \in Seq(Nat) /\ <<>> \in Seq(Nat) /\ <<>> \in Seq(BufferRec) /\ Len(<<>>) = 0
    BY PairIn
  <1> HIDE DEF silent
  <1>4. /\ pcm \in TapState /\ pcm.pair = MainPair(m) /\ pcm.matrix = m /\ pcm.queue = <<>>
        /\ pcm.left = silent /\ pcm.right = silent /\ pcm.taken = <<>> /\ pcm.now = 0
        /\ pcm.due = 0 /\ pcm.emitted = 0 /\ pcm.sent = Unsent
    BY <1>1, <1>2, <1>3 DEF TapState
  <1>5. Mixed(pcm) /\ GateTold(pcm)
    BY <1>4 DEF Mixed, GateTold
  <1>6. InTime(pcm)
    <2>1. Period \in Nat
      BY PcmTapAssumption
    <2>2. 0 * Period = 0 /\ 0 <= 0 + Period
      BY <2>1
    <2> QED BY <1>4, <2>1, <2>2 DEF InTime
  <1>7. \A side : Shows(silent, <<>>, side)
    <2>1. \A i : i \notin 1..Len(<<>>)
      OBVIOUS
    <2> QED BY <1>2, <2>1 DEF Shows
  <1> QED BY <1>4, <1>5, <1>6, <1>7 DEF TapInv

\* A window shows the frames that were taken last, of channels main was routed to when they
\* were mixed; emissions keep their schedule, and the gate is as wanted when its calls are
\* answered (pcm_tap.rs, vizPcm.ts): for any routings, buffers and lengths.
THEOREM ShowsTheMainMixHolds ==
  ASSUME Lagging = FALSE
  PROVE  PcmSpec => []ShowsTheMainMix
  <1>1. PcmInit => TapInv(pcm)
    BY TapStarts
  <1>2. TapInv(pcm) /\ [PcmWorld \/ PcmRuns]_pcm => TapInv(pcm)'
    <2> SUFFICES ASSUME TapInv(pcm), [PcmWorld \/ PcmRuns]_pcm PROVE TapInv(pcm')
      OBVIOUS
    <2>1. CASE \E m \in Matrices \cup {<<>>} : Routes(m)
      BY <2>1, RoutesKeeps
    <2>2. CASE \E n \in Buffers : Mixes(n)
      BY <2>2, MixesKeeps
    <2>3. CASE NewSample
      BY <2>3, SampleKeeps
    <2>4. CASE Refreshes
      BY <2>4, RefreshKeeps DEF Refreshes, TapInv
    <2>5. CASE Wants \/ EvaluateGate \/ GateFails
      BY <2>5, GateKeeps
    <2>6. CASE UNCHANGED pcm
      BY <2>6
    <2> QED BY <2>1, <2>2, <2>3, <2>4, <2>5, <2>6 DEF PcmWorld, PcmRuns
  <1>3. TapInv(pcm) => ShowsTheMainMix
    BY TapShows
  <1> QED BY <1>1, <1>2, <1>3, PTL DEF PcmSpec

\* A window shows no frame but the one of its place: the last ones taken, in order.
Framed(w, taken) ==
    \A i \in 1..Span : w[i] # Silence =>
        /\ Len(taken) - Span + i \in 1..Len(taken)
        /\ w[i].frame = taken[Len(taken) - Span + i]

\* Whatever was routed while buffers were queued, no more are queued than there is place for,
\* a window shows frames in order, no more are emitted than the schedule allows, and the gate
\* is as told.
TapSafe(c) ==
    /\ c \in TapState /\ Len(c.queue) <= Slots
    /\ Framed(c.left, c.taken) /\ Framed(c.right, c.taken)
    /\ InTime(c) /\ GateTold(c)

\* A buffer of any routing slides into a window.
LEMMA PushedFrames ==
  ASSUME NEW w \in Panes, NEW taken \in Seq(Nat), Framed(w, taken), NEW b \in BufferRec, NEW c
  PROVE  LET all == taken \o FramesOf(b) IN
         Pushed(w, b, c) \in Panes /\ Framed(Pushed(w, b, c), all) /\ all \in Seq(Nat)
  <1> DEFINE all == taken \o FramesOf(b)
             v == Pushed(w, b, c)
             Now(i) == Len(all) - Span + i
             Was(j) == Len(taken) - Span + j
  <1>1. /\ all \in Seq(Nat) /\ v = [i \in 1..Span |-> v[i]]
        /\ \A i \in 1..Span :
              \/ \E j \in 1..Span : /\ v[i] = w[j] /\ Now(i) = Was(j)
                                    /\ Now(i) \in 1..Len(all) <=> Was(j) \in 1..Len(taken)
                                    /\ Was(j) \in 1..Len(taken) => all[Now(i)] = taken[Was(j)]
              \/ \E k \in 1..b.frames : /\ v[i] = SampleOf(b, k, c) /\ Now(i) \in 1..Len(all)
                                        /\ all[Now(i)] = b.at + k
    <2>1. all \in Seq(Nat)
      BY PushedSlides
    <2>2. v = [i \in 1..Span |-> v[i]]
      BY DEF Pushed
    <2>3. Slid(v, w, taken, all, b, c)
      BY PushedSlides
    <2> HIDE DEF all, v
    <2> QED BY <2>1, <2>2, <2>3 DEF Slid
  <1>2. \A j \in 1..Span : /\ w[j] \in Sample \cup {Silence}
                           /\ w[j] # Silence => Was(j) \in 1..Len(taken) /\ w[j].frame = taken[Was(j)]
    BY DEF Framed, Panes
  <1> HIDE DEF all, v, Now, Was
  <1>3. ASSUME NEW i \in 1..Span
        PROVE  /\ v[i] \in Sample \cup {Silence}
               /\ v[i] # Silence => Now(i) \in 1..Len(all) /\ v[i].frame = all[Now(i)]
    <2>1. CASE \E j \in 1..Span : /\ v[i] = w[j] /\ Now(i) = Was(j)
                                  /\ Now(i) \in 1..Len(all) <=> Was(j) \in 1..Len(taken)
                                  /\ Was(j) \in 1..Len(taken) => all[Now(i)] = taken[Was(j)]
      BY <1>2, <2>1
    <2>2. CASE \E k \in 1..b.frames : /\ v[i] = SampleOf(b, k, c) /\ Now(i) \in 1..Len(all)
                                      /\ all[Now(i)] = b.at + k
      BY <2>2, SampleIs
    <2> QED BY <1>1, <2>1, <2>2
  <1>4. v \in Panes
    BY <1>1, <1>3 DEF Panes
  <1>5. Framed(v, all)
    BY <1>3 DEF Framed, Now
  <1> QED BY <1>1, <1>4, <1>5 DEF v, all

\* The tap is refreshed, under whatever routing there is now.
LEMMA RefreshSafe ==
  ASSUME NEW c, TapSafe(c)
  PROVE  TapSafe(RefreshTap(c))
  <1> DEFINE pair == MainPair(c.matrix)
             open == c.listening /\ pair # <<>>
             d == RefreshTap(c)
  <1>0. c \in TapState
    BY DEF TapSafe
  <1>1. c.matrix \in Matrices \cup {<<>>} /\ c.listening \in BOOLEAN
    BY <1>0 DEF TapState
  <1>2. pair \in Seq(Nat) /\ open \in BOOLEAN
    BY <1>1, PairIn
  <1>3. d = [c EXCEPT !.pair = pair, !.open = open]
    BY DEF RefreshTap
  <1> HIDE DEF pair, open, d
  <1>5. /\ d \in TapState /\ d.queue = c.queue
        /\ d.left = c.left /\ d.right = c.right /\ d.taken = c.taken /\ d.now = c.now
        /\ d.due = c.due /\ d.emitted = c.emitted /\ d.listening = c.listening
        /\ d.sent = c.sent /\ d.failures = c.failures
    BY <1>0, <1>2, <1>3 DEF TapState
  <1>6. InTime(d) /\ GateTold(d)
    BY <1>5 DEF InTime, GateTold, TapSafe
  <1>7. Framed(d.left, d.taken) /\ Framed(d.right, d.taken) /\ Len(d.queue) <= Slots
    BY <1>5 DEF TapSafe
  <1> QED BY <1>5, <1>6, <1>7 DEF TapSafe, d

\* The routing changes, whatever is queued.
LEMMA RoutesSafe ==
  ASSUME TapSafe(pcm), NEW m \in Matrices \cup {<<>>}, Routes(m)
  PROVE  TapSafe(pcm')
  <1> DEFINE c == [pcm EXCEPT !.matrix = m]
  <1>1. pcm' = RefreshTap(c)
    BY DEF Routes
  <1>2. pcm \in TapState
    BY DEF TapSafe
  <1>3. c = [pcm EXCEPT !.matrix = m]
    OBVIOUS
  <1> HIDE DEF c
  <1>4. /\ c \in TapState /\ c.queue = pcm.queue /\ c.left = pcm.left /\ c.right = pcm.right
        /\ c.taken = pcm.taken /\ c.now = pcm.now /\ c.due = pcm.due /\ c.emitted = pcm.emitted
        /\ c.listening = pcm.listening /\ c.sent = pcm.sent /\ c.failures = pcm.failures
    BY <1>2, <1>3 DEF TapState
  <1>6. TapSafe(c)
    <2>1. InTime(c) /\ GateTold(c)
      BY <1>4 DEF TapSafe, InTime, GateTold
    <2>2. Framed(c.left, c.taken) /\ Framed(c.right, c.taken) /\ Len(c.queue) <= Slots
      BY <1>4 DEF TapSafe
    <2> QED BY <1>4, <2>1, <2>2 DEF TapSafe
  <1> QED BY <1>1, <1>6, RefreshSafe

\* The node mixes a buffer: the leaky queue keeps within its places.
LEMMA MixesSafe ==
  ASSUME TapSafe(pcm), NEW frames \in Buffers, Mixes(frames)
  PROVE  TapSafe(pcm')
  <1> DEFINE b == [at |-> pcm.now, frames |-> frames, matrix |-> pcm.matrix]
             q == pcm.queue
             more == Append(q, b)
             queue == CASE ~pcm.open -> q
                        [] pcm.open /\ Len(more) > Slots -> Tail(more)
                        [] OTHER -> more
             now == pcm.now + frames
             d == pcm'
  <1>1. pcm \in TapState /\ Len(q) <= Slots
    BY DEF TapSafe
  <1>2. /\ pcm.now \in Nat /\ frames \in Nat /\ pcm.matrix \in Matrices \cup {<<>>}
        /\ q \in Seq(BufferRec) /\ pcm.open \in BOOLEAN
    BY <1>1, PcmTapAssumption DEF TapState
  <1>3. b \in BufferRec
    BY <1>2 DEF BufferRec
  <1>5. d = [pcm EXCEPT !.now = now, !.queue = queue]
    BY DEF Mixes
  <1>8. now \in Nat /\ now >= pcm.now
    BY <1>2
  <1> HIDE DEF b, q, d, now
  <1>7. queue \in Seq(BufferRec) /\ Len(queue) <= Slots
    <2>1. more \in Seq(BufferRec) /\ Len(more) = Len(q) + 1 /\ Len(q) \in Nat
      BY <1>2, <1>3
    <2>2. Slots \in Nat
      BY PcmTapAssumption
    <2> HIDE DEF more
    <2>3. CASE ~pcm.open
      BY <1>1, <1>2, <2>3
    <2>4. CASE pcm.open /\ Len(more) > Slots
      <3>1. queue = Tail(more) /\ more # <<>>
        BY <2>1, <2>4
      <3>2. Tail(more) \in Seq(BufferRec) /\ Len(Tail(more)) = Len(more) - 1
        BY <2>1, <3>1
      <3> QED BY <1>1, <2>1, <2>2, <3>1, <3>2
    <2>5. CASE pcm.open /\ ~(Len(more) > Slots)
      <3>1. queue = more
        BY <2>5
      <3> QED BY <2>1, <2>2, <2>5, <3>1
    <2> QED BY <2>3, <2>4, <2>5
  <1> HIDE DEF queue
  <1>9. /\ d \in TapState /\ d.queue = queue
        /\ d.left = pcm.left /\ d.right = pcm.right /\ d.taken = pcm.taken /\ d.now = now
        /\ d.due = pcm.due /\ d.emitted = pcm.emitted /\ d.listening = pcm.listening
        /\ d.sent = pcm.sent /\ d.failures = pcm.failures
    BY <1>1, <1>5, <1>7, <1>8 DEF TapState
  <1>11. InTime(d)
    <2>1. InTime(pcm) /\ pcm.due \in Nat
      BY <1>1 DEF TapSafe, TapState
    <2>2. Period \in Nat
      BY PcmTapAssumption
    <2>3. pcm.due <= now + Period
      BY <1>2, <1>8, <2>1, <2>2 DEF InTime
    <2> QED BY <1>9, <2>1, <2>3 DEF InTime
  <1>12. GateTold(d)
    BY <1>9 DEF TapSafe, GateTold
  <1>13. Framed(d.left, d.taken) /\ Framed(d.right, d.taken) /\ Len(d.queue) <= Slots
    BY <1>7, <1>9 DEF TapSafe
  <1> QED BY <1>9, <1>11, <1>12, <1>13 DEF TapSafe, d

\* A buffer reaches the callback, mixed under whatever routing.
LEMMA SampleSafe ==
  ASSUME TapSafe(pcm), NewSample
  PROVE  TapSafe(pcm')
  <1> DEFINE b == Head(pcm.queue)
             rest == Tail(pcm.queue)
             x == pcm.pair[1]
             y == pcm.pair[2]
             left == Pushed(pcm.left, b, x)
             right == Pushed(pcm.right, b, y)
             taken == pcm.taken \o FramesOf(b)
             due == CASE pcm.now < pcm.due -> pcm.due
                      [] pcm.now >= pcm.due /\ pcm.now <= pcm.due + 2 * Period -> pcm.due + Period
                      [] OTHER -> pcm.now + Period
             emitted == IF pcm.now >= pcm.due THEN pcm.emitted + 1 ELSE pcm.emitted
             d == pcm'
  <1>1. /\ pcm \in TapState /\ Framed(pcm.left, pcm.taken) /\ Framed(pcm.right, pcm.taken)
        /\ InTime(pcm) /\ GateTold(pcm)
    BY DEF TapSafe
  <1>2. b \in BufferRec /\ rest \in Seq(BufferRec) /\ Len(rest) <= Slots
    <2> DEFINE q == pcm.queue
    <2>1. q \in Seq(BufferRec) /\ q # <<>> /\ Len(q) <= Slots /\ Slots \in Nat
      BY <1>1, PcmTapAssumption DEF TapState, NewSample, TapSafe
    <2> HIDE DEF q
    <2>3. /\ Len(q) \in Nat /\ Head(q) \in BufferRec
          /\ Tail(q) \in Seq(BufferRec) /\ Len(Tail(q)) = Len(q) - 1
      BY <2>1
    <2>4. Len(Tail(q)) <= Slots
      BY <2>1, <2>3
    <2> QED BY <2>3, <2>4 DEF q
  <1>3. /\ due \in Nat /\ emitted \in Nat
        /\ emitted * Period <= due /\ due <= pcm.now + Period
    BY <1>1, EmitsInTime
  <1>4. CASE ~pcm.listening \/ pcm.pair = <<>>
    <2>1. d = [pcm EXCEPT !.queue = rest]
      BY <1>4 DEF NewSample
    <2> HIDE DEF rest, d
    <2>2. /\ d \in TapState /\ d.queue = rest
          /\ d.left = pcm.left /\ d.right = pcm.right /\ d.taken = pcm.taken /\ d.now = pcm.now
          /\ d.due = pcm.due /\ d.emitted = pcm.emitted /\ d.listening = pcm.listening
          /\ d.sent = pcm.sent /\ d.failures = pcm.failures
      BY <1>1, <1>2, <2>1 DEF TapState
    <2>3. InTime(d) /\ GateTold(d)
      BY <1>1, <2>2 DEF InTime, GateTold
    <2>4. Framed(d.left, d.taken) /\ Framed(d.right, d.taken) /\ Len(d.queue) <= Slots
      BY <1>1, <1>2, <2>2
    <2> QED BY <2>2, <2>3, <2>4 DEF TapSafe, d
  <1>5. CASE pcm.listening /\ pcm.pair # <<>>
    <2>4. pcm.taken \in Seq(Nat) /\ pcm.left \in Panes /\ pcm.right \in Panes
      BY <1>1 DEF TapState
    <2>7. d = [pcm EXCEPT !.queue = rest, !.left = left, !.right = right, !.taken = taken,
                          !.emitted = emitted, !.due = due]
      BY <1>5 DEF NewSample, FramesOf
    <2> HIDE DEF x, y, d, b
    <2>5. left \in Panes /\ Framed(left, taken) /\ taken \in Seq(Nat)
      BY <1>1, <1>2, <2>4, PushedFrames
    <2>6. right \in Panes /\ Framed(right, taken)
      BY <1>1, <1>2, <2>4, PushedFrames
    <2> HIDE DEF rest, left, right, taken, emitted, due
    <2>8. /\ d \in TapState /\ d.queue = rest
          /\ d.left = left /\ d.right = right /\ d.taken = taken /\ d.now = pcm.now
          /\ d.due = due /\ d.emitted = emitted /\ d.listening = pcm.listening
          /\ d.sent = pcm.sent /\ d.failures = pcm.failures
      BY <1>1, <1>2, <1>3, <2>5, <2>6, <2>7 DEF TapState
    <2>9. InTime(d) /\ GateTold(d)
      BY <1>1, <1>3, <2>8 DEF InTime, GateTold
    <2>10. Framed(d.left, d.taken) /\ Framed(d.right, d.taken) /\ Len(d.queue) <= Slots
      BY <1>2, <2>5, <2>6, <2>8
    <2> QED BY <2>8, <2>9, <2>10 DEF TapSafe, d
  <1>6. pcm.listening \in BOOLEAN
    BY <1>1 DEF TapState
  <1> QED BY <1>4, <1>5, <1>6

\* The gate's steps touch no window.
LEMMA GateSafe ==
  ASSUME TapSafe(pcm), Wants \/ EvaluateGate \/ GateFails
  PROVE  TapSafe(pcm')
  <1> DEFINE d == pcm'
  <1>1. pcm \in TapState /\ GateTold(pcm)
    BY DEF TapSafe
  <1>3. PICK want \in BOOLEAN, sent \in BOOLEAN \cup {Unsent}, listening \in BOOLEAN, n \in Nat :
          /\ d = [pcm EXCEPT !.want = want, !.sent = sent, !.listening = listening, !.failures = n]
          /\ n = 0 /\ sent # Unsent => listening = sent
    BY <1>1, GateIs
  <1> HIDE DEF d
  <1>4. /\ d \in TapState /\ d.queue = pcm.queue
        /\ d.left = pcm.left /\ d.right = pcm.right /\ d.taken = pcm.taken /\ d.now = pcm.now
        /\ d.due = pcm.due /\ d.emitted = pcm.emitted /\ d.listening = listening
        /\ d.sent = sent /\ d.failures = n
    BY <1>1, <1>3 DEF TapState
  <1>5. InTime(d)
    BY <1>4 DEF TapSafe, InTime
  <1>6. GateTold(d)
    BY <1>3, <1>4 DEF GateTold
  <1>7. Framed(d.left, d.taken) /\ Framed(d.right, d.taken) /\ Len(d.queue) <= Slots
    BY <1>4 DEF TapSafe
  <1> QED BY <1>4, <1>5, <1>6, <1>7 DEF TapSafe, d

\* A tap that is safe is of its type.
LEMMA SafeIsTyped ==
  ASSUME TapSafe(pcm)
  PROVE  PcmTypeOK
  <1>1. /\ pcm.matrix \in Matrices \cup {<<>>} /\ pcm.pair \in Seq(Nat) /\ Len(pcm.queue) <= Slots
        /\ pcm.left \in Panes /\ pcm.right \in Panes
        /\ {pcm.now, pcm.due, pcm.emitted, pcm.failures} \subseteq Nat
        /\ {pcm.open, pcm.listening, pcm.want} \subseteq BOOLEAN
        /\ pcm.sent \in BOOLEAN \cup {Unsent}
    BY DEF TapSafe, TapState
  <1>2. ASSUME NEW w \in {pcm.left, pcm.right}
        PROVE  DOMAIN w = 1..Span /\ \A i \in 1..Span :
                 w[i] = Silence \/ (w[i].matrix \in Matrices /\ w[i].channel \in 1..Width)
    <2>1. w \in Panes
      BY <1>1
    <2>2. \A s \in Sample : s.matrix \in Matrices /\ s.channel \in 1..Width
      BY DEF Sample
    <2> QED BY <2>1, <2>2 DEF Panes
  <1> QED BY <1>1, <1>2 DEF PcmTypeOK

\* The tap starts out safe.
LEMMA TapStartsSafe == PcmInit => TapSafe(pcm)
  <1> SUFFICES ASSUME PcmInit PROVE TapSafe(pcm)
    OBVIOUS
  <1>1. TapInv(pcm)
    BY TapStarts
  <1>2. Len(pcm.queue) <= Slots
    <2>1. pcm.queue = <<>> /\ Slots \in Nat
      BY PcmTapAssumption DEF PcmInit
    <2>2. Len(<<>>) = 0
      OBVIOUS
    <2> QED BY <2>1, <2>2
  <1> QED BY <1>1, <1>2 DEF TapInv, TapSafe, Shows, Framed

\* Also where the routing changes while buffers mixed under the last one are queued: the tap
\* keeps its types and no more buffers than its leaky queue and its appsink hold, a window
\* shows the frames that were taken last, in order, and no more windows are emitted than the
\* schedule allows (pcm_tap.rs, build_tap in mixer.rs).
THEOREM WindowsKeepTime ==
  PcmSpec => [](PcmTypeOK /\ TapSafe(pcm))
  <1>1. PcmInit => TapSafe(pcm)
    BY TapStartsSafe
  <1>2. TapSafe(pcm) /\ [PcmWorld \/ PcmRuns]_pcm => TapSafe(pcm)'
    <2> SUFFICES ASSUME TapSafe(pcm), [PcmWorld \/ PcmRuns]_pcm PROVE TapSafe(pcm')
      OBVIOUS
    <2>1. CASE \E m \in Matrices \cup {<<>>} : Routes(m)
      BY <2>1, RoutesSafe
    <2>2. CASE \E n \in Buffers : Mixes(n)
      BY <2>2, MixesSafe
    <2>3. CASE NewSample
      BY <2>3, SampleSafe
    <2>4. CASE Refreshes
      BY <2>4, RefreshSafe DEF Refreshes
    <2>5. CASE Wants \/ EvaluateGate \/ GateFails
      BY <2>5, GateSafe
    <2>6. CASE UNCHANGED pcm
      BY <2>6
    <2> QED BY <2>1, <2>2, <2>3, <2>4, <2>5, <2>6 DEF PcmWorld, PcmRuns
  <1>3. TapSafe(pcm) => PcmTypeOK
    BY SafeIsTyped
  <1> QED BY <1>1, <1>2, <1>3, PTL DEF PcmSpec
=============================================================================
