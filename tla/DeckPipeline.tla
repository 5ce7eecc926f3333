---------------------------- MODULE DeckPipeline ----------------------------
(***************************************************************************)
(* One deck's audio pipeline (src-tauri/src/audio/pipeline.rs): what its   *)
(* methods do to the pipeline and to the branches it holds on the output   *)
(* graph.  A method is a function on the pair of the two.  Scratching is    *)
(* left to Scratch, and the elements between the file and the branches are *)
(* left out: what remains of a load is which branches it leaves and in     *)
(* what state.                                                             *)
(***************************************************************************)
EXTENDS OutputGraph

CONSTANTS MainLists,  \* the lists of main devices Settings may ask for
          CueDevices, \* the cue devices Settings may ask for
          NoCue,      \* the cue device of a deck without one
          Default     \* the device id of the system's default sink

ASSUME ListsAssumption ==
    /\ \A l \in MainLists : l \in Seq(Devices) /\ Len(l) <= 2
    /\ <<>> \in MainLists /\ CueDevices \subseteq Devices
    /\ NoCue \notin Devices \cup {RecordDevice} /\ Default \in Devices

\* PipelineInner: not there, or the state it is in.
InnerStates == {"none", "paused", "playing"}

\* keys: the channels of output_branches; latency: the node whose delay is taken
\* off the position; tap: record_branch.
PipelineRec ==
    [file : BOOLEAN, inner : InnerStates, playing : BOOLEAN,
     devices : MainLists, cue : CueDevices \cup {NoCue}, keys : SUBSET Channels,
     latency : Nodes \cup {Nothing}, tap : BOOLEAN, recording : BOOLEAN]

ASSUME NoPipelineAssumption == Nothing \notin PipelineRec

NewPipeline(devices, cue) ==
    [file |-> FALSE, inner |-> "none", playing |-> FALSE, devices |-> devices,
     cue |-> cue, keys |-> {}, latency |-> Nothing, tap |-> FALSE,
     recording |-> FALSE]

Loaded(p) == p.inner # "none"

\* The device of a main channel, NoCue for none: the default one if the list is empty.
MainDevice(p, channel) ==
    LET list == IF p.devices = <<>> THEN <<Default>> ELSE p.devices
        i == IF channel = "main0" THEN 1 ELSE 2 IN
    IF i <= Len(list) THEN list[i] ELSE NoCue

\* A cue device whose id does not parse has no output.
CueDevice(p) == IF p.cue # NoCue /\ Layout[p.cue] # "bad" THEN p.cue ELSE NoCue

OutputOf(p, channel) ==
    IF channel \in MainChannels THEN MainDevice(p, channel)
    ELSE IF channel = "cue" THEN CueDevice(p) ELSE NoCue

\* One output of attach_output_graph; one that cannot be attached is left silent.
AttachOutput(acc, deck, p, channel, listening) ==
    LET d == OutputOf(p, channel)
        a == Attach(acc.graph, d, <<deck, channel>>, listening) IN
    IF d = NoCue THEN acc
    ELSE IF ~a.ok THEN [acc EXCEPT !.graph = a.graph]
    ELSE [graph |-> a.graph, keys |-> acc.keys \cup {channel},
          latency |-> IF channel = "main0" THEN KeyNode(d) ELSE acc.latency]

\* attach_output_graph, in order and under one lock of the graph.
AttachOutputs(g, deck, p, listening) ==
    LET main0 == AttachOutput([graph |-> g, keys |-> {}, latency |-> Nothing],
                              deck, p, "main0", listening)
        main1 == AttachOutput(main0, deck, p, "main1", listening) IN
    AttachOutput(main1, deck, p, "cue", listening)

DetachOutput(g, deck, channels, channel, listening) ==
    IF channel \in channels THEN Detach(g, <<deck, channel>>, listening) ELSE g

\* detach_output_branches, in the order in which they were attached.
DetachOutputs(g, deck, channels, listening) ==
    LET main0 == DetachOutput(g, deck, channels, "main0", listening)
        main1 == DetachOutput(main0, deck, channels, "main1", listening)
        cue == DetachOutput(main1, deck, channels, "cue", listening) IN
    DetachOutput(cue, deck, channels, "record", listening)

\* Fault: the outgoing pipeline keeps its mixer pads.
TeardownForgets(g, deck, p, listening) == g

\* The start of load and Drop: give the mixer pads back.
Teardown(g, deck, p, listening) == DetachOutputs(g, deck, p.keys, listening)

\* load up to the record tap: the old pipeline is torn down, the new one built,
\* attached and prerolled.  A failed preroll leaves no pipeline, and on the graph
\* the branches it had just attached.
Rebuild(g, deck, p, listening, prerolls) ==
    LET built == AttachOutputs(Teardown(g, deck, p, listening), deck, p, listening) IN
    [graph |-> built.graph,
     pipeline |-> [p EXCEPT !.file = TRUE, !.tap = FALSE,
                            !.inner = IF prerolls THEN "paused" ELSE "none",
                            !.keys = IF prerolls THEN built.keys ELSE {},
                            !.latency = IF prerolls THEN built.latency ELSE Nothing]]

\* attach_record_branch; nothing to do for a deck that has its tap.
AttachRecord(g, deck, p, listening) ==
    LET a == Attach(g, RecordDevice, <<deck, "record">>, listening) IN
    IF ~Loaded(p) \/ p.tap THEN [graph |-> g, pipeline |-> p]
    ELSE IF ~a.ok THEN [graph |-> a.graph, pipeline |-> p]
    ELSE [graph |-> a.graph,
          pipeline |-> [p EXCEPT !.tap = TRUE, !.recording = TRUE,
                                 !.keys = @ \cup {"record"}]]

\* The end of load: a deck that was being recorded attaches its tap again.
Rejoin(g, deck, p, listening) ==
    IF Loaded(p) /\ p.recording
    THEN AttachRecord(g, deck, [p EXCEPT !.recording = FALSE], listening)
    ELSE [graph |-> g, pipeline |-> p]

\* detach_record_branch.
DetachRecord(g, deck, p, listening) ==
    IF ~Loaded(p) \/ ~p.tap
    THEN [graph |-> g, pipeline |-> [p EXCEPT !.recording = FALSE]]
    ELSE [graph |-> Detach(g, <<deck, "record">>, listening),
          pipeline |-> [p EXCEPT !.recording = FALSE, !.tap = FALSE,
                                 !.keys = @ \ {"record"}]]

\* play and pause; the intent is kept even when nothing is loaded.
Play(p) == [p EXCEPT !.playing = TRUE,
                     !.inner = IF Loaded(p) THEN "playing" ELSE "none"]
Pause(p) == [p EXCEPT !.playing = FALSE,
                      !.inner = IF Loaded(p) THEN "paused" ELSE "none"]

\* Fault: forgets to start again what it stopped to rebuild.
StaysPaused(p) == p

\* The end of set_devices and set_cue_device: play again what was playing.
Resume(p) == IF Loaded(p) /\ p.playing THEN Play(p) ELSE p
=============================================================================
