---------------------------- MODULE AudioManager ----------------------------
(***************************************************************************)
(* The audio commands (src-tauri/src/audio/mod.rs) over the decks'         *)
(* pipelines and the output graph they share.  A command that may block    *)
(* takes its deck's pipeline out of the manager's map, works on it without  *)
(* the manager's lock, and puts it back; several commands run at once.     *)
(* Changing a device and starting or stopping a recording go through the   *)
(* decks that were in the map when the command began, one after another.   *)
(***************************************************************************)
EXTENDS DeckPipeline

CONSTANTS Slots,  \* threads of the commands
          Events  \* of "hasty", "prerollFails"

VARIABLES
    graph,      \* Mutex<OutputGraph>, a GraphRec
    listening,  \* PcmShared.listening
    refreshes,  \* threads of viz_set_listening still to reconcile the tap
    manager,    \* main_devices, cue_device and record.active, a ManagerRec
    deck,       \* AudioManager.pipelines: of each deck, a PipelineRec or Nothing
    cmd         \* the commands under way: in each slot, a CmdRec or Nothing

vars == <<graph, listening, refreshes, manager, deck, cmd>>

ManagerRec == [main : MainLists, cue : CueDevices \cup {NoCue}, recording : BOOLEAN]

\* op: the command; deck and held: the deck it has taken out and its pipeline;
\* todo: the decks it has yet to come to; main and cue: what it was asked for.
Ops == {"load", "play", "pause", "devices", "cue", "start", "stop"}
CmdRec == [op : Ops, stage : {"next", "load", "rejoin", "check", "work", "insert"},
           deck : Decks \cup {Nothing}, held : {Nothing} \cup PipelineRec,
           todo : SUBSET Decks, main : MainLists, cue : CueDevices \cup {NoCue}]

ASSUME NoCommandAssumption == Nothing \notin CmdRec

Hasty == "hasty" \in Events
Running(i) == cmd[i] # Nothing
Runs(ops) == \E i \in Slots : Running(i) /\ cmd[i].op \in ops
Holds(i, d) == Running(i) /\ cmd[i].deck = d
Detached(d) == \E i \in Slots : Holds(i, d)
Awaited(d) == \E i \in Slots : Running(i) /\ d \in cmd[i].todo
Mapped == {d \in Decks : deck[d] # Nothing}

Command(op) == [op |-> op, stage |-> "next", deck |-> Nothing, held |-> Nothing,
                todo |-> {}, main |-> <<>>, cue |-> NoCue]

Begin(i, c) == ~Running(i) /\ cmd' = [cmd EXCEPT ![i] = c]
Ends(i) == cmd' = [cmd EXCEPT ![i] = Nothing]

----------------------------------------------------------------------------
(* Taking a pipeline out and putting it back. *)

\* The pipeline an insert replaces is dropped, and gives back the mixer pads
\* registered under its deck's keys.
Dropped(g, d) ==
    IF deck[d] = Nothing THEN g ELSE Teardown(g, d, deck[d], listening)

\* After a pipeline is back: the next deck, or the end of the command.
Advanced(c) ==
    IF c.op \in {"load", "play", "pause"} \/ (c.todo = {} /\ c.op # "stop")
    THEN Nothing
    ELSE [c EXCEPT !.stage = "next", !.deck = Nothing, !.held = Nothing]

Insert(i, p, g) ==
    LET c == cmd[i] IN
    /\ deck' = [deck EXCEPT ![c.deck] = p]
    /\ graph' = Dropped(g, c.deck)
    /\ cmd' = [cmd EXCEPT ![i] = Advanced(c)]

\* with_pipeline_detached for the next deck of a list; one that is not in the map
\* is logged and passed over.
TakeNext(i) ==
    /\ Running(i) /\ cmd[i].stage = "next" /\ cmd[i].todo # {}
    /\ \E d \in cmd[i].todo :
         LET c == [cmd[i] EXCEPT !.todo = @ \ {d}] IN
         IF deck[d] = Nothing
         THEN /\ cmd' = [cmd EXCEPT ![i] = Advanced(c)]
              /\ UNCHANGED deck
         ELSE /\ cmd' = [cmd EXCEPT ![i] =
                   [c EXCEPT !.deck = d, !.held = deck[d],
                             !.stage = IF c.op \in {"devices", "cue"}
                                       THEN "load" ELSE "work"]]
              /\ deck' = [deck EXCEPT ![d] = Nothing]
    /\ UNCHANGED <<graph, listening, refreshes, manager>>

----------------------------------------------------------------------------
(* Load, play, pause, unload. *)

\* audio_load: takes the deck's pipeline, or makes one with the devices of the
\* moment.  The page asks for one thing at a time of a deck, and loads no deck
\* that plays; that it never loads while a device changes or a recording stops
\* is an assumption.
BeginLoad(i, d) ==
    /\ Hasty \/ (~Detached(d) /\ ~Runs({"devices", "cue", "stop"}))
    /\ Hasty \/ (deck[d] # Nothing => ~deck[d].playing)
    /\ Begin(i, [Command("load") EXCEPT !.stage = "load", !.deck = d,
                   !.held = IF deck[d] = Nothing
                            THEN NewPipeline(manager.main, manager.cue) ELSE deck[d]])
    /\ deck' = [deck EXCEPT ![d] = Nothing]
    /\ UNCHANGED <<graph, listening, refreshes, manager>>

\* The devices a command is about to rebuild its pipeline with.
Retargeted(c) ==
    CASE c.op = "devices" -> [c.held EXCEPT !.devices = c.main]
      [] c.op = "cue" -> [c.held EXCEPT !.cue = c.cue]
      [] OTHER -> c.held

\* DeckAudioPipeline::load, but for its last part.
Loads(i) ==
    LET c == cmd[i]
        p == Retargeted(c) IN
    /\ Running(i) /\ c.stage = "load"
    /\ IF c.op # "load" /\ ~p.file
       THEN Insert(i, p, graph)
       ELSE /\ \E prerolls \in {TRUE} \cup {"prerollFails" \notin Events} :
                 LET built == Rebuild(graph, c.deck, p, listening, prerolls) IN
                 /\ graph' = built.graph
                 /\ cmd' = [cmd EXCEPT ![i].held = built.pipeline,
                                       ![i].stage = IF prerolls THEN "rejoin" ELSE "insert"]
            /\ UNCHANGED deck
    /\ UNCHANGED <<listening, refreshes, manager>>

\* The end of load: the record tap.
Rejoins(i) ==
    LET c == cmd[i]
        r == Rejoin(graph, c.deck, c.held, listening) IN
    /\ Running(i) /\ c.stage = "rejoin"
    /\ graph' = r.graph
    /\ cmd' = [cmd EXCEPT ![i].held = r.pipeline,
                          ![i].stage = IF c.op = "load" THEN "check" ELSE "insert"]
    /\ UNCHANGED <<listening, refreshes, manager, deck>>

\* Fault: a deck that loads during a recording stays out of it.
NeverJoins(i) ==
    /\ Running(i) /\ cmd[i].stage = "check"
    /\ cmd' = [cmd EXCEPT ![i].stage = "insert"]
    /\ UNCHANGED <<graph, listening, refreshes, manager, deck>>

\* audio_load looks whether a recording is under way, and joins it.
ChecksRecording(i) ==
    LET c == cmd[i]
        r == AttachRecord(graph, c.deck, c.held, listening) IN
    /\ Running(i) /\ c.stage = "check"
    /\ graph' = IF manager.recording THEN r.graph ELSE graph
    /\ cmd' = [cmd EXCEPT ![i].held = IF manager.recording THEN r.pipeline ELSE @,
                          ![i].stage = "insert"]
    /\ UNCHANGED <<listening, refreshes, manager, deck>>

\* The pipeline goes back, playing again if a device change stopped it.
Inserts(i) ==
    /\ Running(i) /\ cmd[i].stage = "insert"
    /\ Insert(i, IF cmd[i].op = "load" THEN cmd[i].held ELSE Resume(cmd[i].held), graph)
    /\ UNCHANGED <<listening, refreshes, manager>>

\* audio_play and audio_pause.
BeginTransport(i, d, op) ==
    /\ deck[d] # Nothing
    /\ Hasty \/ ~Awaited(d)
    /\ Begin(i, [Command(op) EXCEPT !.stage = "work", !.deck = d, !.held = deck[d]])
    /\ deck' = [deck EXCEPT ![d] = Nothing]
    /\ UNCHANGED <<graph, listening, refreshes, manager>>

\* The work of the commands that do not rebuild.
Works(i) ==
    LET c == cmd[i]
        r == IF c.op = "start" THEN AttachRecord(graph, c.deck, c.held, listening)
             ELSE DetachRecord(graph, c.deck, c.held, listening) IN
    /\ Running(i) /\ c.stage = "work"
    /\ CASE c.op = "play" -> Insert(i, Play(c.held), graph)
         [] c.op = "pause" -> Insert(i, Pause(c.held), graph)
         [] OTHER -> Insert(i, r.pipeline, r.graph)
    /\ UNCHANGED <<listening, refreshes, manager>>

\* audio_unload; a deck that a command has taken out comes back when it ends.
Unload(d) ==
    /\ Hasty \/ ~Detached(d)
    /\ deck[d] # Nothing
    /\ graph' = Dropped(graph, d)
    /\ deck' = [deck EXCEPT ![d] = Nothing]
    /\ UNCHANGED <<listening, refreshes, manager, cmd>>

----------------------------------------------------------------------------
(* Settings and recordings. *)

\* audio_set_main_devices and audio_set_cue_device: nothing to do for what is set.
BeginDevices(i, list) ==
    /\ Hasty \/ \A j \in Slots : ~Running(j)
    /\ list # manager.main
    /\ manager' = [manager EXCEPT !.main = list]
    /\ Begin(i, IF Mapped = {} THEN Nothing
                ELSE [Command("devices") EXCEPT !.todo = Mapped, !.main = list])
    /\ UNCHANGED <<graph, listening, refreshes, deck>>

BeginCue(i, d) ==
    /\ Hasty \/ \A j \in Slots : ~Running(j)
    /\ d # manager.cue
    /\ manager' = [manager EXCEPT !.cue = d]
    /\ Begin(i, IF Mapped = {} THEN Nothing
                ELSE [Command("cue") EXCEPT !.todo = Mapped, !.cue = d])
    /\ UNCHANGED <<graph, listening, refreshes, deck>>

\* A load that has looked for a recording already.
PastCheck(d) ==
    \E i \in Slots : Holds(i, d) /\ (cmd[i].op = "load" => cmd[i].stage = "insert")

\* audio_record_start.  A deck that loads meanwhile joins by itself, unless it has
\* looked already.
BeginRecordStart(i) ==
    /\ Hasty \/ ((\A d \in Decks : ~PastCheck(d)) /\ ~Runs({"stop", "devices", "cue"}))
    /\ ~manager.recording
    /\ manager' = [manager EXCEPT !.recording = TRUE]
    /\ graph' = SetRecordTarget(graph)
    /\ Begin(i, IF Mapped = {} THEN Nothing
                ELSE [Command("start") EXCEPT !.todo = Mapped])
    /\ UNCHANGED <<listening, refreshes, deck>>

\* audio_record_stop, in two parts: the decks, then the file.
BeginRecordStop(i) ==
    /\ Hasty \/ \A j \in Slots : ~Running(j)
    /\ manager.recording
    /\ manager' = [manager EXCEPT !.recording = FALSE]
    /\ Begin(i, [Command("stop") EXCEPT !.todo = Mapped])
    /\ UNCHANGED <<graph, listening, refreshes, deck>>

FinishesRecording(i) ==
    /\ Running(i) /\ cmd[i].op = "stop" /\ cmd[i].stage = "next" /\ cmd[i].todo = {}
    /\ graph' = FinishRecording(graph)
    /\ Ends(i)
    /\ UNCHANGED <<listening, refreshes, manager, deck>>

\* audio_set_output_latency and audio_set_master_volume, on what is there.
SetLatency(n, x) ==
    /\ x # graph.extra[n]
    /\ graph' = SetExtraLatency(graph, n, x)
    /\ UNCHANGED <<listening, refreshes, manager, deck, cmd>>

SetVolume(v) ==
    /\ v # graph.master
    /\ graph' = SetMasterVolume(graph, v)
    /\ UNCHANGED <<listening, refreshes, manager, deck, cmd>>

\* viz_set_listening: the flag flips at once, the tap follows on a thread of its
\* own, which reads the flag again.
SetListening(on) ==
    /\ on # listening
    /\ listening' = on
    /\ refreshes' = refreshes + 1
    /\ UNCHANGED <<graph, manager, deck, cmd>>

Refreshes ==
    /\ refreshes > 0
    /\ refreshes' = refreshes - 1
    /\ graph' = RefreshTap(graph, listening)
    /\ UNCHANGED <<listening, manager, deck, cmd>>

----------------------------------------------------------------------------
(* The specification. *)

Init ==
    /\ graph = EmptyGraph
    /\ listening = FALSE /\ refreshes = 0
    /\ manager = [main |-> <<>>, cue |-> NoCue, recording |-> FALSE]
    /\ deck = [d \in Decks |-> Nothing]
    /\ cmd = [i \in Slots |-> Nothing]

Step(i) ==
    \/ TakeNext(i) \/ Loads(i) \/ Rejoins(i) \/ ChecksRecording(i) \/ Inserts(i)
    \/ Works(i) \/ FinishesRecording(i)

Asks(i) ==
    \/ \E d \in Decks : BeginLoad(i, d)
    \/ \E d \in Decks, op \in {"play", "pause"} : BeginTransport(i, d, op)
    \/ \E l \in MainLists : BeginDevices(i, l)
    \/ \E d \in CueDevices \cup {NoCue} : BeginCue(i, d)
    \/ BeginRecordStart(i) \/ BeginRecordStop(i)

Adjusts ==
    \/ \E n \in Nodes \ {RecordNode}, x \in {0, 1} : SetLatency(n, x)
    \/ \E v \in {0, 1} : SetVolume(v)
    \/ \E on \in BOOLEAN : SetListening(on)

Next ==
    \/ \E i \in Slots : Step(i) \/ Asks(i)
    \/ \E d \in Decks : Unload(d)
    \/ Adjusts
    \/ Refreshes

Spec == Init /\ [][Next]_vars
Fairness == WF_vars(Refreshes) /\ \A i \in Slots : WF_vars(Step(i))
FairSpec == Spec /\ Fairness

----------------------------------------------------------------------------
(* Properties. *)

Quiet == \A i \in Slots : ~Running(i)

\* The deck's pipeline, wherever it is.
PipelineOf(d) ==
    IF \E i \in Slots : Holds(i, d)
    THEN cmd[CHOOSE i \in Slots : Holds(i, d)].held ELSE deck[d]

\* The sources of a node are its branches, one for one; each branch is one of the
\* outputs its deck's pipeline will give back, and each of those is one branch: no
\* dead source stays on a mixer, and no deck is cut off from an output it believes
\* it has (mixer.rs:168-170, pipeline.rs:2628-2631).
BranchesAreOutputs ==
    /\ CensusAgrees(graph)
    /\ \A n \in Nodes : graph.node[n] # Nothing =>
         \A k \in graph.node[n].branches :
           PipelineOf(k[1]) # Nothing /\ k[2] \in PipelineOf(k[1]).keys
    /\ \A d \in Decks : PipelineOf(d) # Nothing =>
         \A c \in PipelineOf(d).keys : Cardinality(Holders(graph, <<d, c>>)) = 1

\* At most one valve lets the visualizers hear; and when the page's wish has been
\* carried out there is one exactly if they listen and a deck has a main output.
TapFollows ==
    LET open == {n \in Nodes : graph.node[n] # Nothing /\ graph.node[n].tap = "open"} IN
    /\ Cardinality(open) <= 1
    /\ refreshes = 0 => (open # {} <=> listening /\ Mains(graph) # {})
    /\ open \subseteq Mains(graph)

\* When every command has ended, the decks that are loaded are in the recording
\* under way, and none is tapped when there is none.
RecordingHearsAll ==
    Quiet => \A d \in Decks : deck[d] # Nothing /\ Loaded(deck[d]) =>
        /\ deck[d].tap = manager.recording
        /\ deck[d].tap => <<d, "record">> \in graph.node[RecordNode].branches

\* When every command has ended, each deck has the devices of the settings and
\* no output but on their nodes; and the delay and the volume that were last set
\* hold on every node, made before or after, the delay also for each deck that
\* takes its own from there.
SettingsArrive ==
    /\ Quiet => \A d \in Mapped :
         /\ deck[d].devices = manager.main /\ deck[d].cue = manager.cue
         /\ \A n \in Nodes \ {RecordNode} : graph.node[n] # Nothing =>
              \A k \in graph.node[n].branches : k[1] = d =>
                 LET device == OutputOf(deck[d], k[2]) IN
                 device # NoCue /\ KeyNode(device) = n
    /\ \A n \in Nodes : graph.node[n] # Nothing =>
         graph.node[n].delay = graph.extra[n] /\ graph.node[n].volume = graph.master
    /\ \A d \in Decks : PipelineOf(d) # Nothing /\ "main0" \in PipelineOf(d).keys =>
         <<d, "main0">> \in graph.node[PipelineOf(d).latency].branches

\* When every command has ended, a deck that is loaded plays exactly if it was
\* last asked to, whatever devices it was rebuilt for.
PlaysAsAsked ==
    Quiet => \A d \in Decks : deck[d] # Nothing /\ Loaded(deck[d]) =>
        (deck[d].inner = "playing" <=> deck[d].playing)
=============================================================================
