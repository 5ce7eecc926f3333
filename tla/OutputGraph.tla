---------------------------- MODULE OutputGraph ----------------------------
(***************************************************************************)
(* The output graph (src-tauri/src/audio/mixer.rs): one pipeline per audio *)
(* device, shared by every deck.  A deck attaches a branch to the node of  *)
(* each device it plays on; the node is made by its first branch, which    *)
(* fixes its width, and is kept when its last branch leaves.  The node a   *)
(* recording is mixed on is the exception: it is removed when the          *)
(* recording stops.                                                        *)
(*                                                                         *)
(* The graph is a value here, and its methods are functions on it: every   *)
(* method runs under the graph's mutex.  Elements, pads, caps and clocks   *)
(* are left out but for the count of the sources a node's pipeline holds.  *)
(***************************************************************************)
EXTENDS Integers, FiniteSets, Sequences

CONSTANTS Decks,    \* deck ids
          Devices,  \* the device ids of the picker
          Layout,   \* of a device id: "bare" without a channel suffix, "wide"
                    \* with a pair of a four-channel layout, "bad" unparsable
          NodeOf,   \* of a device id: its node, numbered in the order of names
          Broken,   \* devices whose sink cannot be built
          Nothing   \* no node, no pipeline, no command

RecordDevice == "record"   \* RECORD_DEVICE_KEY
RecordNode == 0
Nodes == {RecordNode} \cup {NodeOf[d] : d \in Devices}

ASSUME DevicesAssumption ==
    /\ RecordDevice \notin Devices
    /\ Layout \in [Devices -> {"bare", "wide", "bad"}]
    /\ NodeOf \in [Devices -> Nat \ {0}]
    /\ Broken \subseteq Devices

MainChannels == {"main0", "main1"}
Channels == MainChannels \cup {"cue", "record"}
Keys == Decks \X Channels

\* srcs counts the sources in the node's pipeline, which the census compares
\* with its branches; tap is the visualizers' tap and whether its valve is open;
\* delay and volume are the node's copies of two of the settings.
NodeRec == [width : {2, 4}, branches : SUBSET Keys, srcs : Nat,
            tap : {"none", "shut", "open"}, delay : Nat, volume : Nat]

\* target: record_target; extra: extra_latency; master: master_volume.
GraphRec == [node : [Nodes -> {Nothing} \cup NodeRec], target : BOOLEAN,
             extra : [Nodes -> Nat], master : Nat]

ASSUME NothingAssumption == Nothing \notin Decks \cup Nodes \cup NodeRec

EmptyGraph == [node |-> [n \in Nodes |-> Nothing], target |-> FALSE,
               extra |-> [n \in Nodes |-> 0], master |-> 1]

KeyNode(d) == IF d = RecordDevice THEN RecordNode ELSE NodeOf[d]
LayoutOf(d) == IF d = RecordDevice THEN "bare" ELSE Layout[d]
Width(d) == IF LayoutOf(d) = "wide" THEN 4 ELSE 2

----------------------------------------------------------------------------
(* The tap. *)

HasMain(nd) == nd # Nothing /\ \E k \in nd.branches : k[2] \in MainChannels
Mains(g) == {n \in Nodes \ {RecordNode} : HasMain(g.node[n])}
Least(S) == CHOOSE n \in S : \A m \in S : n <= m

\* The node that has a tap already, or else the first one with a main branch.
TapOwner(g) ==
    LET tapped == {n \in Mains(g) : g.node[n].tap # "none"} IN
    IF tapped # {} THEN {Least(tapped)}
    ELSE IF Mains(g) # {} THEN {Least(Mains(g))} ELSE {}

\* build_tap and its valve: a tap is built when it is first wanted and is never
\* taken down.
Tapped(tap, open) == IF open THEN "open" ELSE IF tap = "none" THEN "none" ELSE "shut"

\* Fault: opens the owner's valve and leaves the others as they are.
RefreshOnlyOwner(g, listening) ==
    [g EXCEPT !.node = [n \in Nodes |->
        IF n \in TapOwner(g)
        THEN [g.node[n] EXCEPT !.tap = Tapped(@, listening)]
        ELSE g.node[n]]]

\* refresh_tap: one open valve at most.
RefreshTap(g, listening) ==
    [g EXCEPT !.node = [n \in Nodes |->
        IF g.node[n] = Nothing THEN Nothing
        ELSE [g.node[n] EXCEPT !.tap = Tapped(@, listening /\ n \in TapOwner(g))]]]

----------------------------------------------------------------------------
(* Nodes and branches. *)

\* create_node: the record node needs a target, any other node a sink.
CanCreate(g, d) == IF d = RecordDevice THEN g.target ELSE d \notin Broken

\* Fault: a delay that was set before there was a node is lost.
NewNodeAtZero(g, d) ==
    [width |-> Width(d), branches |-> {}, srcs |-> 0, tap |-> "none",
     delay |-> 0, volume |-> g.master]

NewNode(g, d) ==
    [width |-> Width(d), branches |-> {}, srcs |-> 0, tap |-> "none",
     delay |-> g.extra[KeyNode(d)], volume |-> g.master]

WithNode(g, d) ==
    IF g.node[KeyNode(d)] = Nothing
    THEN [g EXCEPT !.node[KeyNode(d)] = NewNode(g, d)] ELSE g

\* build_branch: a bare id is mapped to the front pair of whatever the node has.
Fits(nd, d) == LayoutOf(d) = "bare" \/ Width(d) = nd.width

\* A branch under a key the node has already takes its place in the map; the
\* sources of the one it replaces stay in the pipeline.
WithBranch(g, n, key) ==
    [g EXCEPT !.node[n].branches = @ \cup {key}, !.node[n].srcs = @ + 1,
              !.node[n].volume = g.master]

Refreshed(g, key, listening) ==
    IF key[2] \in MainChannels THEN RefreshTap(g, listening) ELSE g

\* attach.  A node made for a branch that then does not fit it is kept.
Attach(g, d, key, listening) ==
    LET n == KeyNode(d)
        h == WithNode(g, d) IN
    IF LayoutOf(d) = "bad" \/ (g.node[n] = Nothing /\ ~CanCreate(g, d))
    THEN [ok |-> FALSE, graph |-> g]
    ELSE IF ~Fits(h.node[n], d) THEN [ok |-> FALSE, graph |-> h]
    ELSE [ok |-> TRUE, graph |-> Refreshed(WithBranch(h, n, key), key, listening)]

\* The nodes that hold a branch under a key.
Holders(g, key) ==
    {n \in Nodes : g.node[n] # Nothing /\ key \in g.node[n].branches}

\* detach: the first node found to hold the key, if there is one.
Detach(g, key, listening) ==
    IF Holders(g, key) = {} THEN g
    ELSE LET n == CHOOSE m \in Holders(g, key) : TRUE IN
         Refreshed([g EXCEPT !.node[n].branches = @ \ {key}, !.node[n].srcs = @ - 1],
                   key, listening)

SetRecordTarget(g) == [g EXCEPT !.target = TRUE]

\* set_extra_latency and set_master_volume: kept, and applied to what is there.
SetExtraLatency(g, n, x) ==
    [g EXCEPT !.extra[n] = x,
              !.node[n] = IF @ = Nothing THEN @ ELSE [@ EXCEPT !.delay = x]]
SetMasterVolume(g, v) ==
    [g EXCEPT !.master = v,
              !.node = [n \in Nodes |-> IF g.node[n] = Nothing THEN Nothing
                                        ELSE [g.node[n] EXCEPT !.volume = v]]]

\* census: the sources of each node's pipeline are its branches.
CensusAgrees(g) ==
    \A n \in Nodes : g.node[n] # Nothing =>
        g.node[n].srcs = Cardinality(g.node[n].branches)

\* finish_recording: waits for the end of the stream and removes the node,
\* whoever is attached to it.
FinishRecording(g) == [g EXCEPT !.target = FALSE, !.node[RecordNode] = Nothing]
=============================================================================
