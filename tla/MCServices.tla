----------------------------- MODULE MCServices -----------------------------
(* The services that share no state with one another, for TLC: in each        *)
(* behaviour one of them runs, with a bounded number of calls and events.     *)
EXTENDS Scratch, MidiInput, SnapClaims, VizPlugins, Reports, CodecPath,
        PcmTap, TempoReference, PlayPosition, SessionRecovery

CONSTANTS Budget,  \* for each service, how many calls and events
          p1, p2, t1, t2, r1, r2

VARIABLES part,    \* the service that runs
          asked    \* its calls and events so far

servicesVars == <<scratchVars, midiVars, snapVars, vizVars, instVars, clockVars, codec, pcm, tempoVars, posVars, recVars, part, asked>>

MCRates == {-1, 1}
MCBudget == [scratch |-> 5, midi |-> 4, snap |-> 6, viz |-> 3, instruments |-> 5,
             clock |-> 3, codec |-> 4, pcm |-> 5, tempo |-> 5, position |-> 4,
             recovery |-> 5]

File(folder, name, ext) == [folder |-> folder, name |-> name, ext |-> ext]
MCFiles == {File("top", "a", "fs"), File("top", "a", "vs"), File("p", "p", "fs"),
            File("p", "q", "fs"), File("p", "t", "png"), File("milkdrop", "m", "json")}
MCStrays == {-2, 1}
MCMedia == {"clip", "other", "song"}
MCStream == [f \in MCMedia |-> IF f = "song" THEN "none" ELSE "supported"]

Front == <<<<1, 0>>, <<0, 1>>>>
Rear == <<<<0, 0>>, <<0, 0>>, <<1, 0>>, <<0, 1>>>>
OneSide == <<<<0, 0>>, <<1, 0>>>>
MCMatrices == {Front, Rear, OneSide}

\* A file with a saved grid and an untrusted one, and a file with a trusted one.
MCStored == [f \in Records |-> IF f = r1 THEN 0 ELSE NoTempo]
MCFit == [f \in Records |-> IF f = r1 THEN NoTempo ELSE 0]
MCDigger == [f \in Records |-> IF f = r1 THEN 1 ELSE 2]

\* The services that do not run are in the first of their initial states.
MCServicesInit ==
    /\ ScratchInit /\ MidiInit /\ SnapInit /\ VizInit /\ InstInit /\ ClockInit /\ CodecInit
    /\ PcmInit /\ TempoInit /\ PositionInit /\ RecoveryInit
    /\ part \in DOMAIN Budget /\ asked = 0
    /\ part # "snap" => streams = Streams /\ \A g \in Groups : on[g] = Meta
    /\ part # "viz" => disk = [f \in Files |-> 0]
    /\ part # "codec" => codec = Empty
    /\ part # "pcm" => pcm.matrix = Front
    /\ part # "recovery" => store = [current |-> Gone, file |-> Gone, knob |-> Gone]

Asked == asked < Budget[part] /\ asked' = asked + 1

ScratchStep ==
    /\ part = "scratch"
    /\ UNCHANGED <<midiVars, snapVars, vizVars, instVars, clockVars, codec, pcm, tempoVars, posVars, recVars, part>>
    /\ \/ ScratchRuns /\ UNCHANGED asked
       \/ Asked /\ ScratchCalls

MidiStep ==
    /\ part = "midi"
    /\ UNCHANGED <<scratchVars, snapVars, vizVars, instVars, clockVars, codec, pcm, tempoVars, posVars, recVars, part>>
    /\ \/ MidiRuns /\ UNCHANGED asked
       \/ Asked /\ MidiWorld

SnapStep ==
    /\ part = "snap"
    /\ UNCHANGED <<scratchVars, midiVars, vizVars, instVars, clockVars, codec, pcm, tempoVars, posVars, recVars, part>>
    /\ \/ SnapRuns /\ UNCHANGED asked
       \/ Asked /\ SnapWorld

VizStep ==
    /\ part = "viz"
    /\ UNCHANGED <<scratchVars, midiVars, snapVars, instVars, clockVars, codec, pcm, tempoVars, posVars, recVars, part>>
    /\ \/ VizRuns /\ UNCHANGED asked
       \/ Asked /\ VizWorld

InstStep ==
    /\ part = "instruments"
    /\ UNCHANGED <<scratchVars, midiVars, snapVars, vizVars, clockVars, codec, pcm, tempoVars, posVars, recVars, part>>
    /\ \/ Tick /\ UNCHANGED asked
       \/ Asked /\ InstWorld

ClockStep ==
    /\ part = "clock"
    /\ UNCHANGED <<scratchVars, midiVars, snapVars, vizVars, instVars, codec, pcm, tempoVars, posVars, recVars, part>>
    /\ \/ ClockRuns /\ UNCHANGED asked
       \/ Asked /\ ClockWorld

CodecStep ==
    /\ part = "codec"
    /\ UNCHANGED <<scratchVars, midiVars, snapVars, vizVars, instVars, clockVars, pcm, tempoVars, posVars, recVars, part>>
    /\ \/ CodecRuns /\ UNCHANGED asked
       \/ Asked /\ CodecWorld

PcmStep ==
    /\ part = "pcm"
    /\ UNCHANGED <<scratchVars, midiVars, snapVars, vizVars, instVars, clockVars, codec, tempoVars, posVars, recVars, part>>
    /\ \/ PcmRuns /\ UNCHANGED asked
       \/ Asked /\ PcmWorld

TempoStep ==
    /\ part = "tempo"
    /\ UNCHANGED <<scratchVars, midiVars, snapVars, vizVars, instVars, clockVars, codec, pcm, posVars, recVars, part>>
    /\ \/ TempoRuns /\ UNCHANGED asked
       \/ Asked /\ TempoWorld

PositionStep ==
    /\ part = "position"
    /\ UNCHANGED <<scratchVars, midiVars, snapVars, vizVars, instVars, clockVars, codec, pcm, tempoVars, recVars, part>>
    /\ \/ PositionRuns /\ UNCHANGED asked
       \/ Asked /\ PositionWorld

RecoveryStep ==
    /\ part = "recovery"
    /\ UNCHANGED <<scratchVars, midiVars, snapVars, vizVars, instVars, clockVars, codec, pcm, tempoVars, posVars, part>>
    /\ \/ RecoveryRuns /\ UNCHANGED asked
       \/ Asked /\ RecoveryWorld

MCServicesSpec ==
    MCServicesInit
    /\ [][ScratchStep \/ MidiStep \/ SnapStep \/ VizStep \/ InstStep \/ ClockStep
          \/ CodecStep \/ PcmStep \/ TempoStep \/ PositionStep \/ RecoveryStep]_servicesVars

\* The states of the services are of their types.
ServicesTypeOK ==
    ScratchTypeOK /\ MidiTypeOK /\ SnapTypeOK /\ VizTypeOK /\ InstTypeOK /\ ClockTypeOK /\ CodecTypeOK
    /\ PcmTypeOK /\ TempoTypeOK /\ PositionTypeOK /\ RecoveryTypeOK
=============================================================================
