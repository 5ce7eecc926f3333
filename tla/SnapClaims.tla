----------------------------- MODULE SnapClaims -----------------------------
(***************************************************************************)
(* Claiming the speaker groups of a Snapcast server                        *)
(* (src-tauri/src/audio/snapcontrol.rs, audio_set_main_devices, lib.rs).   *)
(* A network target that enters the list of main outputs takes over every  *)
(* group of its server; one that leaves it gives each group back to the     *)
(* stream it was on.  The server belongs to others too, who move groups,   *)
(* make and unmake them, and change its streams; and the program may crash  *)
(* with its groups claimed.                                                *)
(***************************************************************************)
EXTENDS FiniteSets

CONSTANTS Targets,  \* network targets, each the name of its own stream too
          Groups, Streams,
          Meta,     \* the meta stream; a server may lack it
          NoOne,    \* no stream, no claim, no command
          Rush      \* may the others act while a command is under way?

ASSUME StreamsAssumption == Meta \in Streams /\ Targets \cap Streams = {}
ASSUME NoOneAssumption == NoOne \notin Streams \cup Targets
ASSUME RushAssumption == Rush \in BOOLEAN

VARIABLES
    main,     \* main_devices, the network targets among them
    claims,   \* snapcast_claims
    call,     \* audio_set_main_devices under way, or NoOne
    on,       \* the server: each group's stream, NoOne if there is no such group
    streams,  \* the server's other streams
    wish,     \* history: the stream a group was last given by anything but a claim
    lost      \* history: groups left on our stream, nobody knowing where they were

snapVars == <<main, claims, call, on, streams, wish, lost>>

AllStreams == Streams \cup Targets
Saved == [Groups -> Streams \cup Targets \cup {NoOne}]

\* todo and restore: the groups yet to switch and what was learnt of them; back: the
\* claim being released.
CallRec == [release : SUBSET (Targets \X Saved), claim : SUBSET Targets,
            stage : {"next", "release", "claim"}, target : Targets \cup {NoOne},
            todo : SUBSET Groups, restore : Saved]

ASSUME NoCallAssumption == NoOne \notin Saved /\ NoOne \notin CallRec

SnapTypeOK ==
    /\ main \in SUBSET Targets
    /\ claims \in [Targets -> Saved \cup {NoOne}]
    /\ call \in CallRec \cup {NoOne}
    /\ on \in [Groups -> AllStreams \cup {NoOne}]
    /\ streams \in SUBSET Streams
    /\ wish \in [Groups -> Streams \cup {NoOne}] /\ lost \in SUBSET Groups

Nobody == [g \in Groups |-> NoOne]
Exists(s) == s \in streams \cup Targets
OnStream(t) == {g \in Groups : on[g] = t}

----------------------------------------------------------------------------
(* The command. *)

\* The two lists are compared under the manager's lock, and the tickets taken out.
\* That one such command is over before the next begins is an assumption.
SetTargets(list) ==
    /\ call = NoOne /\ list # main
    /\ main' = list
    /\ claims' = [t \in Targets |-> IF t \in list THEN claims[t] ELSE NoOne]
    /\ call' = [release |-> {<<t, claims[t]>> : t \in {u \in main \ list : claims[u] # NoOne}},
                claim |-> list \ main, stage |-> "next", target |-> NoOne,
                todo |-> {}, restore |-> Nobody]
    /\ UNCHANGED <<on, streams, wish, lost>>

\* release: GetStatus, then each group that is still on our stream and whose own
\* stream still exists; any other that is on ours stays there.
Learn ==
    /\ call # NoOne /\ call.stage = "next" /\ call.release # {}
    /\ \E r \in call.release :
         LET known == {g \in OnStream(r[1]) : r[2][g] # NoOne /\ Exists(r[2][g])} IN
         /\ call' = [call EXCEPT !.release = @ \ {r}, !.stage = "release",
                                 !.target = r[1], !.restore = r[2], !.todo = known]
         /\ lost' = lost \cup (OnStream(r[1]) \ known)
    /\ UNCHANGED <<main, claims, on, streams, wish>>

\* Fault: a group that was on our stream already is to come back to it.
RestoresOurs(g, t) == on[g]

\* The stream a group is to come back to: the meta stream, if there is one, for a
\* group that is on our stream already.
RestoreTo(g, t) ==
    IF on[g] # t THEN on[g] ELSE IF Meta \in streams THEN Meta ELSE NoOne

\* claim: GetStatus, then each group that has somewhere to come back to.
Survey ==
    /\ call # NoOne /\ call.stage = "next" /\ call.release = {} /\ call.claim # {}
    /\ \E t \in call.claim :
         LET restore == [g \in Groups |-> IF on[g] = NoOne THEN NoOne ELSE RestoreTo(g, t)] IN
         call' = [call EXCEPT !.claim = @ \ {t}, !.stage = "claim", !.target = t,
                              !.restore = restore,
                              !.todo = {g \in Groups : restore[g] # NoOne}]
    /\ UNCHANGED <<main, claims, on, streams, wish, lost>>

\* Group.SetStream, one group at a time; the server refuses a group that has gone.
Switch ==
    /\ call # NoOne
    /\ \E g \in call.todo :
         /\ on[g] # NoOne
         /\ call' = [call EXCEPT !.todo = @ \ {g}]
         /\ IF call.stage = "claim"
            THEN on' = [on EXCEPT ![g] = call.target] /\ UNCHANGED <<wish, lost>>
            ELSE /\ on' = [on EXCEPT ![g] = call.restore[g]]
                 /\ wish' = IF g \in lost THEN [wish EXCEPT ![g] = call.restore[g]] ELSE wish
                 /\ lost' = lost \ {g}
    /\ UNCHANGED <<main, claims, streams>>

\* A call that fails, or whose answer is lost, ends the claim or the release there and
\* then: no claim is kept, and the ticket of a release is gone.
RpcFails ==
    /\ call # NoOne /\ call.stage # "next"
    /\ call' = [call EXCEPT !.stage = "next", !.todo = {}]
    /\ lost' = lost \cup OnStream(call.target)
    /\ UNCHANGED <<main, claims, on, streams, wish>>

\* The end of a claim or a release.
Settle ==
    /\ call # NoOne /\ call.stage # "next" /\ call.todo = {}
    /\ claims' = IF call.stage = "claim" THEN [claims EXCEPT ![call.target] = call.restore]
                 ELSE claims
    /\ call' = [call EXCEPT !.stage = "next"]
    /\ UNCHANGED <<main, on, streams, wish, lost>>

Finish ==
    /\ call # NoOne /\ call.stage = "next" /\ call.release = {} /\ call.claim = {}
    /\ call' = NoOne
    /\ UNCHANGED <<main, claims, on, streams, wish, lost>>

----------------------------------------------------------------------------
(* The end of the program, and the others. *)

\* An exit releases what is claimed; it is modelled as the list emptied.
\* A crash releases nothing, and the next start finds an empty list and no claims.
Crash ==
    /\ main' = {} /\ call' = NoOne
    /\ claims' = [t \in Targets |-> NoOne]
    /\ lost' = lost \cup {g \in Groups : on[g] \in Targets}
    /\ UNCHANGED <<on, streams, wish>>

Undisturbed == Rush \/ call = NoOne

\* Somebody gives a group another stream, but none of ours.
MoveGroup(g, s) ==
    /\ Undisturbed /\ on[g] # NoOne /\ s \in streams /\ on[g] # s
    /\ on' = [on EXCEPT ![g] = s]
    /\ wish' = [wish EXCEPT ![g] = s]
    /\ lost' = lost \ {g}
    /\ UNCHANGED <<main, claims, call, streams>>

GroupGoes(g) ==
    /\ Undisturbed /\ on[g] # NoOne
    /\ on' = [on EXCEPT ![g] = NoOne]
    /\ wish' = [wish EXCEPT ![g] = NoOne]
    /\ lost' = lost \ {g}
    /\ UNCHANGED <<main, claims, call, streams>>

GroupComes(g, s) ==
    /\ Undisturbed /\ on[g] = NoOne /\ s \in streams
    /\ on' = [on EXCEPT ![g] = s]
    /\ wish' = [wish EXCEPT ![g] = s]
    /\ UNCHANGED <<main, claims, call, streams, lost>>

\* The server starts again without a stream that no group is on.
StreamGoes(s) ==
    /\ Undisturbed /\ s \in streams /\ \A g \in Groups : on[g] # s
    /\ streams' = streams \ {s}
    /\ UNCHANGED <<main, claims, call, on, wish, lost>>

----------------------------------------------------------------------------
(* The specification. *)

SnapInit ==
    /\ main = {} /\ claims = [t \in Targets |-> NoOne] /\ call = NoOne
    /\ streams \in {Streams, Streams \ {Meta}}
    /\ on \in [Groups -> streams]
    /\ wish = on /\ lost = {}

SnapWorld ==
    \/ \E list \in SUBSET Targets : SetTargets(list)
    \/ Crash
    \/ \E g \in Groups : GroupGoes(g)
    \/ \E g \in Groups, s \in Streams : MoveGroup(g, s) \/ GroupComes(g, s)
    \/ \E s \in Streams : StreamGoes(s)

SnapRuns == Learn \/ Survey \/ Switch \/ RpcFails \/ Settle \/ Finish
SnapSpec == SnapInit /\ [][SnapWorld \/ SnapRuns]_snapVars

----------------------------------------------------------------------------
(* Properties. *)

\* Whatever fails and whoever else moves the groups: when no command is under way and
\* no target is listed, every group is on the stream others gave it, but for those a
\* crash, a failure or a vanished stream has left on ours; while one is listed, that is
\* what its claim would restore, and the left ones would get the meta stream (the
\* module's comment, "Crash leftovers self-heal").
GroupsComeBack ==
    call = NoOne =>
      /\ main = {} => \A g \in Groups \ lost : on[g] = wish[g]
      /\ \A t \in main, g \in Groups : on[g] = t =>
           IF g \in lost THEN claims[t] = NoOne \/ claims[t][g] \in {Meta, NoOne}
           ELSE claims[t] # NoOne /\ claims[t][g] = wish[g]
=============================================================================
