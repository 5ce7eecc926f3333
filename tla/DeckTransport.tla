--------------------------- MODULE DeckTransport ---------------------------
(***************************************************************************)
(* One deck's audio pipeline and the two sides that drive it: the frontend *)
(* (App.svelte's syncVideoElements, lib/audio/transport.ts), which wants   *)
(* the pipeline to hold the deck's source and to play or pause as the deck *)
(* does, and the commands of src-tauri/src/audio/mod.rs, which take the    *)
(* pipeline out of the map while they work on it.  Commands run on a pool  *)
(* of threads; a load may take seconds, and so may a play.                 *)
(*                                                                         *)
(* A load is its number: loading the same file again is another load, as   *)
(* DeckSource.loadSeq has it; 0 is a deck without a source.                *)
(***************************************************************************)
EXTENDS Naturals, Sequences, SequencesExt

CONSTANTS MaxLoads,  \* bound on the loads of a behaviour
          MaxCalls,  \* bound on the commands in flight at once
          Events,    \* of "reorder", "hasty", "badFile", "giveUp", "churn"
          Nothing    \* no pipeline, no chain

ASSUME BoundsAssumption == MaxLoads \in Nat /\ MaxCalls \in Nat

VARIABLES
    \* the frontend
    source,   \* the load the deck's source comes from
    playing,  \* deck.playing
    loads,    \* loads so far
    backend,  \* what syncVideoElements has set up: load and whether it is pending
    dirty,    \* a sync is scheduled for the next frame
    sent,     \* lastAudioPlaying
    chain,    \* transportChains: the state it wants and what it waits for
    \* the commands
    calls,    \* in flight, in the order they were issued
    map       \* AudioManager.pipelines

vars == <<source, playing, loads, backend, dirty, sent, chain, calls, map>>
jsVars == <<source, playing, loads, backend, dirty>>

Loads == 0..MaxLoads
Pipe == [load : Loads, ok : BOOLEAN, playing : BOOLEAN]
ChainRec == [op : {"play", "pause"}, waits : {"call", "timer"}]

ASSUME NothingAssumption == Nothing \notin Pipe \cup ChainRec

Call == [op : {"play", "pause"}, live : BOOLEAN, load : {0},
         stage : {"issued", "held", "done", "failed"}, pipe : {Nothing} \cup Pipe]
LoadCall == [op : {"load"}, live : {FALSE}, load : 1..MaxLoads,
             stage : {"issued", "held", "done"}, pipe : {Nothing} \cup Pipe]

TypeOK ==
    /\ source \in Loads /\ loads \in Loads
    /\ playing \in BOOLEAN /\ dirty \in BOOLEAN
    /\ backend \in [load : Loads, pending : BOOLEAN]
    /\ sent \in {"unset", "play", "pause"}
    /\ chain \in {Nothing} \cup ChainRec
    /\ calls \in Seq(Call \cup LoadCall) /\ Len(calls) <= MaxCalls
    /\ map \in {Nothing} \cup Pipe

Op(p) == IF p THEN "play" ELSE "pause"

Issued(op, live, load) ==
    [op |-> op, live |-> live, load |-> load, stage |-> "issued", pipe |-> Nothing]

\* Fault: the old answers still count.
CancelledNever(cs) == cs

\* cancelAudioTransport: the timer is cleared; a call that is out stays out, but
\* its answer no longer counts.
Cancelled(cs) == [i \in DOMAIN cs |-> [cs[i] EXCEPT !.live = FALSE]]

----------------------------------------------------------------------------
(* The frontend. *)

\* Nothing is under way for the deck.
Calm == calls = << >> /\ chain = Nothing /\ ~dirty /\ ~backend.pending

\* A new track, from the queue, the list or a drop: it comes paused.
Load ==
    /\ loads < MaxLoads
    /\ "hasty" \in Events \/ Calm
    /\ loads' = loads + 1
    /\ source' = loads + 1 /\ playing' = FALSE /\ dirty' = TRUE
    /\ UNCHANGED <<backend, sent, chain, calls, map>>

\* The deck is removed.
RemoveDeck ==
    /\ source # 0
    /\ "hasty" \in Events \/ Calm
    /\ source' = 0 /\ playing' = FALSE /\ dirty' = TRUE
    /\ UNCHANGED <<loads, backend, sent, chain, calls, map>>

PlayPause ==
    /\ source # 0
    /\ playing' = ~playing /\ dirty' = TRUE
    /\ UNCHANGED <<source, loads, backend, sent, chain, calls, map>>

\* Any other change of the session schedules a sync too.
Churn ==
    /\ dirty' = TRUE
    /\ UNCHANGED <<source, playing, loads, backend, sent, chain, calls, map>>

\* reconcileAudioTransport: a chain that wants the same keeps the job; one that
\* wants the opposite is cancelled.
Reconcile ==
    IF chain # Nothing /\ chain.op = Op(playing)
    THEN UNCHANGED <<chain, calls>>
    ELSE /\ Len(calls) < MaxCalls
         /\ chain' = [op |-> Op(playing), waits |-> "call"]
         /\ calls' = Append(Cancelled(calls), Issued(Op(playing), TRUE, 0))

\* The deck has a source other than the one set up, or none any more.  A deck
\* without a source is found by its player, and has none before it settles.
Fresh == source # 0 /\ backend.load # source
Gone == source = 0 /\ backend.load # 0 /\ ~backend.pending

\* syncVideoElements.  A source other than the one set up is torn down, with
\* audio_unload, and loaded; a deck without one is only torn down.
Sync ==
    /\ dirty
    /\ dirty' = FALSE
    /\ \/ /\ Fresh \/ Gone
          /\ Fresh => Len(calls) < MaxCalls
          /\ backend' = [load |-> source, pending |-> source # 0]
          /\ map' = Nothing
          /\ sent' = "unset"
          /\ chain' = Nothing
          /\ calls' = IF source = 0 THEN Cancelled(calls)
                      ELSE Append(Cancelled(calls), Issued("load", FALSE, source))
       \/ /\ ~Fresh /\ ~Gone
          /\ IF source # 0 /\ ~backend.pending /\ sent # Op(playing)
             THEN Reconcile
             ELSE UNCHANGED <<chain, calls>>
          /\ UNCHANGED <<backend, map, sent>>
    /\ UNCHANGED <<source, playing, loads>>

\* startCodecPath is done: the backend settles and syncs once more.  For a deck
\* that has lost its source meanwhile it does neither.
BackendSettles ==
    /\ backend.pending /\ source # 0
    /\ backend' = [backend EXCEPT !.pending = FALSE]
    /\ dirty' = TRUE
    /\ UNCHANGED <<source, playing, loads, sent, chain, calls, map>>

\* Only the answer of a chain's own call counts, once the chain is not cancelled.
Counts(c) == c.live

\* Fault: no timer is set.
RetriedNever(ch) == ch

Retried(ch) == [ch EXCEPT !.waits = "timer"]

\* The answer of a command.  The chain it belongs to is done, or tries again in
\* 200 ms, unless the deck has changed its mind or fifty retries have failed.
\* The answer of a load changes the session (the duration).
Answered(i) ==
    LET c == calls[i] IN
    /\ c.stage \in {"done", "failed"}
    /\ calls' = RemoveAt(calls, i)
    /\ dirty' = (dirty \/ c.op = "load")
    /\ \/ /\ ~Counts(c)
          /\ UNCHANGED <<sent, chain>>
       \/ /\ Counts(c) /\ c.stage = "done"
          /\ sent' = c.op
          /\ chain' = Nothing
       \/ /\ Counts(c) /\ c.stage = "failed"
          /\ chain' \in
               (IF source # 0 /\ Op(playing) = c.op
                THEN {Retried(chain)} ELSE {Nothing})
               \cup (IF "giveUp" \in Events THEN {Nothing} ELSE {})
          /\ UNCHANGED sent
    /\ UNCHANGED <<source, playing, loads, backend, map>>

RetryFires ==
    /\ chain # Nothing /\ chain.waits = "timer"
    /\ Len(calls) < MaxCalls
    /\ chain' = [chain EXCEPT !.waits = "call"]
    /\ calls' = Append(calls, Issued(chain.op, TRUE, 0))
    /\ UNCHANGED <<jsVars, sent, map>>

----------------------------------------------------------------------------
(* The commands. *)

Transport(c) == c.op \in {"play", "pause"}

\* with_pipeline_detached, first half: take the pipeline out of the map.  The
\* pool starts commands in the order they were issued, unless "reorder".
Takes(i) ==
    /\ Transport(calls[i]) /\ calls[i].stage = "issued"
    /\ \/ "reorder" \in Events
       \/ \A j \in 1..(i - 1) : Transport(calls[j]) => calls[j].stage # "issued"
    /\ calls' = [calls EXCEPT ![i] =
                   IF map = Nothing THEN [@ EXCEPT !.stage = "failed"]
                   ELSE [@ EXCEPT !.stage = "held", !.pipe = map]]
    /\ map' = Nothing
    /\ UNCHANGED <<jsVars, sent, chain>>

\* Fault: the state change is lost.
PutsBackUnchanged(i) ==
    LET c == calls[i] IN
    /\ Transport(c) /\ c.stage = "held"
    /\ map' = c.pipe
    /\ calls' = [calls EXCEPT ![i].stage = IF c.pipe.ok THEN "done" ELSE "failed",
                              ![i].pipe = Nothing]
    /\ UNCHANGED <<jsVars, sent, chain>>

\* Second half: play or pause, and put it back, over whatever is there by now.
PutsBack(i) ==
    LET c == calls[i] IN
    /\ Transport(c) /\ c.stage = "held"
    /\ map' = IF c.pipe.ok THEN [c.pipe EXCEPT !.playing = (c.op = "play")] ELSE c.pipe
    /\ calls' = [calls EXCEPT ![i].stage = IF c.pipe.ok THEN "done" ELSE "failed",
                              ![i].pipe = Nothing]
    /\ UNCHANGED <<jsVars, sent, chain>>

\* audio_load, once the file is in the cache: take the pipeline, or make one.
LoadTakes(i) ==
    /\ calls[i].op = "load" /\ calls[i].stage = "issued"
    /\ calls' = [calls EXCEPT ![i].stage = "held",
                   ![i].pipe = IF map # Nothing THEN map
                               ELSE [load |-> 0, ok |-> FALSE, playing |-> FALSE]]
    /\ map' = Nothing
    /\ UNCHANGED <<jsVars, sent, chain>>

\* Prerolled, or failed; either way it goes into the map, over whatever is there.
LoadPutsBack(i) ==
    LET c == calls[i] IN
    /\ c.op = "load" /\ c.stage = "held"
    /\ \E ok \in {TRUE} \cup {"badFile" \notin Events} :
         map' = [load |-> c.load, ok |-> ok, playing |-> FALSE]
    /\ calls' = [calls EXCEPT ![i].stage = "done", ![i].pipe = Nothing]
    /\ UNCHANGED <<jsVars, sent, chain>>

----------------------------------------------------------------------------
(* The specification. *)

Init ==
    /\ source = 0 /\ playing = FALSE /\ loads = 0
    /\ backend = [load |-> 0, pending |-> FALSE]
    /\ dirty = FALSE /\ sent = "unset"
    /\ chain = Nothing /\ calls = << >> /\ map = Nothing

Works(i) == Answered(i) \/ Takes(i) \/ PutsBack(i) \/ LoadTakes(i) \/ LoadPutsBack(i)

Automatic ==
    \/ Sync \/ BackendSettles \/ RetryFires
    \/ "churn" \in Events /\ Churn
    \/ \E i \in DOMAIN calls : Works(i)

Dj == Load \/ RemoveDeck \/ PlayPause

Next == Automatic \/ Dj

Spec == Init /\ [][Next]_vars

\* Frames are drawn, timers fire, the pool runs what it is given to its end.
Fairness ==
    /\ WF_vars(Sync) /\ WF_vars(BackendSettles) /\ WF_vars(RetryFires)
    /\ \A i \in 1..MaxCalls : WF_vars(i \in DOMAIN calls /\ Works(i))
FairSpec == Spec /\ Fairness

----------------------------------------------------------------------------
(* Properties. *)

\* A chain has one call out or its timer set, and never both: with neither it
\* would block every later one that wants the same, with more it would be the
\* storm of calls the chains are there to prevent (transport.ts:41-60).
ChainWaits ==
    LET live == {i \in DOMAIN calls : calls[i].live} IN
    IF chain # Nothing /\ chain.waits = "call"
    THEN \E i \in live : live = {i} /\ calls[i].op = chain.op
    ELSE live = {}

\* When nothing is under way the pipeline is there, is that of the source that
\* was set up, and does what the frontend believes it told it last: an older
\* command never has the last word (transport.ts:69-70).
SentIsTrue ==
    calls = << >> /\ sent # "unset" =>
       map # Nothing /\ map.load = backend.load /\ map.playing = (sent = "play")

\* The pipeline holds the deck's source and plays exactly when the deck does.
Agrees == IF source = 0 THEN map = Nothing
          ELSE /\ map # Nothing
               /\ map.load = source
               /\ map.playing = playing
Stays(s, p) == <>[](source = s /\ playing = p)

\* Whatever is pressed while a load or a command is under way, once the DJ is
\* done the pipeline comes to agree with the deck, if only the session goes on
\* changing, for whatever reason, and so goes on being synced.
BusyConverges ==
    \A s \in Loads, p \in BOOLEAN : Stays(s, p) /\ []<>dirty => <>[]Agrees

\* It does so by itself (legacyVideo.ts:210-212, audioPause "always fires when
\* deck.playing flips to false").
Converges == \A s \in Loads, p \in BOOLEAN : Stays(s, p) => <>[]Agrees
=============================================================================
