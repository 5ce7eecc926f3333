------------------------------ MODULE VizPlugins ------------------------------
(***************************************************************************)
(* Visualization plugins (src-tauri/src/viz_plugins.rs and                 *)
(* src/lib/viz/vizPlugins.ts).  The page shows the plugin that was chosen,  *)
(* read from a folder that people edit while it is shown; a watcher polls  *)
(* the folder, waits for the edits to settle and tells the page which      *)
(* plugins they affect.  A plugin that cannot be read is replaced by a     *)
(* built-in one, until it can.                                             *)
(*                                                                         *)
(* A file is a record: the folder, the name and the extension.  What a     *)
(* file holds, its time and its size are one number, 0 if there is none;   *)
(* that a change of the one shows in the others is an assumption, as is    *)
(* that a scan and a read see the folder at one instant.                   *)
(***************************************************************************)
EXTENDS Naturals, Sequences, FiniteSets

CONSTANTS Files, MaxVersion,
          Flicker, \* may a change be undone before the watcher has told of it?
          Builtin, \* the built-in plugin
          NoPlugin \* no plugin; also a read's answer to come, or one that failed

VARIABLES
    disk,   \* the folder
    watch,  \* spawn_watcher's thread
    events, \* viz-plugins-changed, to come
    reads,  \* viz_read_plugin under way
    lists,  \* viz_list_plugins under way: how many
    viz     \* the page: chosen (currentId), active, fallback (vizFallback), list

vizVars == <<disk, watch, events, reads, lists, viz>>

\* Folders are "top", "milkdrop" and a folder plugin's.
Ids == {f \in Files : f.ext = IF f.folder = "milkdrop" THEN "json" ELSE "fs"}
Snapshots == [Files -> 0..MaxVersion]
Payloads == [source : 1..MaxVersion, vertex : 0..MaxVersion, assets : SUBSET Files]

ASSUME VizAssumption == MaxVersion \in Nat \ {0} /\ NoPlugin \notin Files \cup Payloads

VizTypeOK ==
    /\ disk \in Snapshots
    /\ watch \in [stage : {"asleep", "settling"}, baseline : Snapshots, cur : Snapshots]
    /\ events \in Seq(SUBSET Ids)
    /\ reads \subseteq [id : Ids, got : Payloads \cup {NoPlugin}, done : BOOLEAN,
                        fresh : BOOLEAN]
    /\ lists \in Nat
    /\ viz \in [chosen : Ids \cup {Builtin, NoPlugin}, active : Payloads \cup {Builtin, NoPlugin},
                fallback : Ids \cup {NoPlugin}, list : SUBSET Ids]

----------------------------------------------------------------------------
(* The folder, as the commands read it. *)

Within(folder) == {f \in Files : f.folder = folder}

\* read_plugin_source: the shader, the .vs beside it, and a folder's images by name.
Vertex(id, d) ==
    LET beside == {f \in Within(id.folder) : f.ext = "vs" /\ f.name = id.name} IN
    IF beside = {} THEN 0 ELSE d[CHOOSE f \in beside : TRUE]

PluginSource(id, d) ==
    IF d[id] = 0 THEN NoPlugin
    ELSE [source |-> d[id],
          vertex |-> IF id.ext = "json" THEN 0 ELSE Vertex(id, d),
          assets |-> IF id.folder \in {"top", "milkdrop"} THEN {}
                     ELSE {f \in Within(id.folder) : f.ext = "png" /\ d[f] # 0}]

\* discover_plugins: a folder with a shader of its own name is that plugin alone.
Discovered(d) ==
    LET there == {f \in Ids : d[f] # 0}
        named == {f \in there : f.name = f.folder} IN
    {f \in there : f.folder \in {"top", "milkdrop"} \/ f \in named
                   \/ \A g \in named : g.folder # f.folder}

\* diff_changed_ids: the plugins a changed file affects.
AffectedBy(f, old, new) ==
    CASE f \in Ids -> {f}
      [] f.folder = "top" /\ f.ext = "vs" -> {g \in Ids : g.folder = "top" /\ g.name = f.name}
      [] f \notin Ids /\ f.folder \notin {"top", "milkdrop"} ->
           {g \in Ids : g.folder = f.folder /\ (old[g] # 0 \/ new[g] # 0)}
      [] OTHER -> {}

ChangedIds(old, new) ==
    UNION {AffectedBy(f, old, new) : f \in {g \in Files : old[g] # new[g]}}

----------------------------------------------------------------------------
(* The watcher. *)

\* A poll finds the folder changed.
Notice ==
    /\ watch.stage = "asleep" /\ disk # watch.baseline
    /\ watch' = [watch EXCEPT !.stage = "settling", !.cur = disk]
    /\ UNCHANGED <<disk, events, reads, lists, viz>>

\* Two scans agree: the page is told, if there is anything to tell.
SettleScan ==
    /\ watch.stage = "settling"
    /\ IF disk # watch.cur
       THEN watch' = [watch EXCEPT !.cur = disk] /\ UNCHANGED events
       ELSE LET ids == ChangedIds(watch.baseline, disk) IN
            /\ watch' = [stage |-> "asleep", baseline |-> disk, cur |-> disk]
            /\ events' = IF ids = {} THEN events ELSE Append(events, ids)
    /\ UNCHANGED <<disk, reads, lists, viz>>

----------------------------------------------------------------------------
(* The page. *)

Overtaken == {[r EXCEPT !.fresh = FALSE] : r \in reads}

\* apply: a plugin of the folder is asked for, another is there at once; earlier reads
\* count no more.  The number of the last one (seq) is kept as which of them is fresh.
Apply(id, v) ==
    IF id \in Ids
    THEN /\ reads' = Overtaken \cup {[id |-> id, got |-> NoPlugin, done |-> FALSE,
                                      fresh |-> TRUE]}
         /\ viz' = v
    ELSE reads' = Overtaken /\ viz' = [v EXCEPT !.active = id, !.fallback = NoPlugin]

\* The session's choice changes.
ChoosePlugin(id) ==
    /\ viz.chosen # id
    /\ Apply(id, [viz EXCEPT !.chosen = id])
    /\ UNCHANGED <<disk, watch, events, lists>>

\* The listener: the list is asked for again, and the chosen plugin if it is affected.
HearChange ==
    /\ events # <<>>
    /\ events' = Tail(events) /\ lists' = lists + 1
    /\ IF viz.chosen \in Head(events) THEN Apply(viz.chosen, viz)
       ELSE UNCHANGED <<reads, viz>>
    /\ UNCHANGED <<disk, watch>>

\* viz_read_plugin.
ReadPlugin(r) ==
    /\ r \in reads /\ ~r.done
    /\ reads' = (reads \ {r}) \cup {[r EXCEPT !.got = PluginSource(r.id, disk), !.done = TRUE]}
    /\ UNCHANGED <<disk, watch, events, lists, viz>>

\* Fault: an answer is taken whichever read was the last.
TakenAlways(r, v) ==
    IF r.got = NoPlugin THEN [v EXCEPT !.active = Builtin, !.fallback = r.id]
    ELSE [v EXCEPT !.active = r.got, !.fallback = NoPlugin]

\* Its answer has come to the page; answers may overtake one another.
Taken(r, v) ==
    IF ~r.fresh THEN v
    ELSE IF r.got = NoPlugin THEN [v EXCEPT !.active = Builtin, !.fallback = r.id]
    ELSE [v EXCEPT !.active = r.got, !.fallback = NoPlugin]

TakePlugin(r) ==
    /\ r \in reads /\ r.done
    /\ reads' = reads \ {r} /\ viz' = Taken(r, viz)
    /\ UNCHANGED <<disk, watch, events, lists>>

\* viz_list_plugins, and then retryActive.  The calls are answered in order.
ListPlugins ==
    /\ lists > 0 /\ lists' = lists - 1
    /\ LET v == [viz EXCEPT !.list = Discovered(disk)] IN
       IF viz.fallback # NoPlugin /\ viz.fallback = viz.chosen THEN Apply(viz.chosen, v)
       ELSE viz' = v /\ UNCHANGED reads
    /\ UNCHANGED <<disk, watch, events>>

\* The user's rescan.
Rescan ==
    /\ lists' = lists + 1
    /\ UNCHANGED <<disk, watch, events, reads, viz>>

\* A file is written, or goes.  That no change is undone between two polls, its time
\* included, is an assumption: the watcher would not see it, while a read might have.
WriteFile(f, version) ==
    /\ disk[f] # version
    /\ Flicker \/ version # watch.baseline[f]
    /\ disk' = [disk EXCEPT ![f] = version]
    /\ UNCHANGED <<watch, events, reads, lists, viz>>

----------------------------------------------------------------------------
(* The specification. *)

VizInit ==
    /\ disk \in {[f \in Files |-> 0], [f \in Files |-> 1]}
    /\ watch = [stage |-> "asleep", baseline |-> disk, cur |-> disk]
    /\ events = <<>> /\ reads = {} /\ lists = 0
    /\ viz = [chosen |-> NoPlugin, active |-> NoPlugin, fallback |-> NoPlugin,
              list |-> Discovered(disk)]

VizWorld ==
    \/ Rescan
    \/ \E id \in Ids \cup {Builtin, NoPlugin} : ChoosePlugin(id)
    \/ \E f \in Files, version \in 0..MaxVersion : WriteFile(f, version)

VizRuns ==
    \/ Notice \/ SettleScan \/ HearChange \/ ListPlugins
    \/ \E r \in reads : ReadPlugin(r) \/ TakePlugin(r)

VizSpec == VizInit /\ [][VizWorld \/ VizRuns]_vizVars

----------------------------------------------------------------------------
(* Properties. *)

\* Whatever was edited while what was read: when nothing is under way any more, the page
\* shows the chosen plugin as it is in the folder, with all that belongs to it, or the
\* built-in one if it is not there, and lists the plugins that are.
ShowsTheFolder ==
    watch.stage = "asleep" /\ watch.baseline = disk /\ events = <<>> /\ reads = {} /\ lists = 0 =>
      /\ viz.list = Discovered(disk)
      /\ viz.active = IF viz.chosen \notin Ids THEN viz.chosen
                      ELSE IF disk[viz.chosen] = 0 THEN Builtin
                      ELSE PluginSource(viz.chosen, disk)
=============================================================================
