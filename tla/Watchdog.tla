------------------------------ MODULE Watchdog ------------------------------
(***************************************************************************)
(* The freeze watchdog (src-tauri/src/watchdog.rs): windows report once a  *)
(* second, a thread polls for windows that went silent, and for each one   *)
(* runs a recovery sequence in a thread of its own: reload the page, reload *)
(* natively, kill every web process and reload every window.               *)
(*                                                                         *)
(* Time is left out: silence, the end of the back-off and the end of a     *)
(* wait are actions that may happen whenever their conditions hold.        *)
(***************************************************************************)
EXTENDS Naturals, FiniteSets

CONSTANTS Windows,      \* window labels
          Closable,     \* those the user may close and open again
          Events,       \* of "freeze", "thaw", "close", "reopen", "slow",
                        \* "hopeless", "hasty"
          MaxSequences, \* bound on the recovery threads at once
          Nothing,      \* a window without an entry, a slot without a thread
          MaxFailures   \* MAX_CONSECUTIVE_FAILURES

ASSUME WindowsAssumption == Closable \subseteq Windows
ASSUME FailuresAssumption == MaxFailures \in Nat /\ MaxFailures >= 2
ASSUME SequencesAssumption == MaxSequences \in Nat

VARIABLES
    entry,   \* Inner.windows
    view,    \* what each window's web view is doing
    queue,   \* to_recover: the poll's windows whose sequence is not yet spawned
    seq      \* the recovery threads

vars == <<entry, view, queue, seq>>

Slots == 1..MaxSequences
Views == {"alive", "frozen", "gone", "loading", "closing", "closed"}

\* silent: last_beat is SILENCE_THRESHOLD old; due: the back-off is over.
EntryRec == [silent : BOOLEAN, triggered : BOOLEAN, recovering : BOOLEAN,
             due : BOOLEAN, failures : Nat, gaveUp : BOOLEAN]

Stages == {"tier1", "wait1", "wait2", "wait3", "retry", "failed", "succeeded"}
SeqRec == [window : Windows, stage : Stages]

ASSUME NothingAssumption == Nothing \notin EntryRec /\ Nothing \notin SeqRec

TypeOK ==
    /\ entry \in [Windows -> {Nothing} \cup EntryRec]
    /\ view \in [Windows -> Views]
    /\ queue \subseteq Windows
    /\ seq \in [Slots -> {Nothing} \cup SeqRec]

NewEntry == [silent |-> FALSE, triggered |-> FALSE, recovering |-> FALSE,
             due |-> TRUE, failures |-> 0, gaveUp |-> FALSE]

Known(w) == entry[w] # Nothing
Runs(i, w) == seq[i] # Nothing /\ seq[i].window = w
Recovering(w) == w \in queue \/ \E i \in Slots : Runs(i, w)

----------------------------------------------------------------------------
(* Heartbeats. *)

\* Fault: the give-up outlives the silence.
ResumesGivenUp(e) == [e EXCEPT !.silent = FALSE, !.triggered = FALSE, !.failures = 0]

\* A silence ends.
Resumes(e) == [e EXCEPT !.silent = FALSE, !.triggered = FALSE,
                        !.failures = 0, !.gaveUp = FALSE]

\* watchdog_heartbeat: the first one makes the entry; one that ends a silence
\* clears the failure count.
Beat(w) ==
    LET e == entry[w] IN
    /\ view[w] \in {"alive", "closing"}
    /\ entry' = [entry EXCEPT ![w] =
         IF e = Nothing THEN NewEntry
         ELSE IF e.triggered THEN Resumes(e)
         ELSE [e EXCEPT !.silent = FALSE]]
    /\ UNCHANGED <<view, queue, seq>>

\* Six seconds without a report.  A window that is closing is gone by then.
GoesSilent(w) ==
    /\ Known(w) /\ view[w] \notin {"alive", "closing"}
    /\ entry' = [entry EXCEPT ![w].silent = TRUE]
    /\ UNCHANGED <<view, queue, seq>>

\* RECOVERY_BACKOFF has passed since the last attempt.
BackoffEnds(w) ==
    /\ Known(w) /\ ~entry[w].due
    /\ entry' = [entry EXCEPT ![w].due = TRUE]
    /\ UNCHANGED <<view, queue, seq>>

----------------------------------------------------------------------------
(* The poll. *)

Triggered(e) == e.triggered \/ e.silent

\* Fault: does not look for a sequence that is under way.
RecoversAgain(e) == Triggered(e) /\ ~e.gaveUp /\ e.due

Recovers(e) == Triggered(e) /\ ~e.recovering /\ ~e.gaveUp /\ e.due

\* One tick, under the lock: mark the silent windows and choose whom to recover.
Poll ==
    LET chosen == {w \in Windows : Known(w) /\ Recovers(entry[w])} IN
    /\ queue = {}
    /\ entry' = [w \in Windows |->
                   IF ~Known(w) THEN Nothing
                   ELSE IF w \in chosen
                   THEN [entry[w] EXCEPT !.triggered = TRUE, !.recovering = TRUE,
                                         !.due = FALSE]
                   ELSE [entry[w] EXCEPT !.triggered = Triggered(entry[w])]]
    /\ queue' = chosen
    /\ UNCHANGED <<view, seq>>

\* Outside the lock: a window that is not there any more is forgotten, any other
\* gets its sequence.
Spawn(w) ==
    /\ w \in queue
    /\ queue' = queue \ {w}
    /\ \/ /\ view[w] = "closed"
          /\ entry' = [entry EXCEPT ![w] = Nothing]
          /\ UNCHANGED seq
       \/ /\ view[w] # "closed"
          /\ \E i \in Slots :
               /\ seq[i] = Nothing /\ \A j \in 1..(i - 1) : seq[j] # Nothing
               /\ seq' = [seq EXCEPT ![i] = [window |-> w, stage |-> "tier1"]]
          /\ UNCHANGED entry
    /\ UNCHANGED view

----------------------------------------------------------------------------
(* A recovery sequence.  Each step but the first looks whether the window has *)
(* reported since the last one, and escalates if it has not.                 *)

Resumed(w) == Known(w) /\ ~entry[w].triggered

\* What a window may be doing after a reload: a page that runs reloads, a frozen
\* one may or may not, and only a native reload brings back a killed process.
AfterReload(w, native) ==
    CASE view[w] = "alive" -> {"loading"}
      [] view[w] = "frozen" -> {"frozen", "loading"}
      [] view[w] = "gone" ->
           (IF native THEN {"loading"} ELSE {"gone"})
             \cup (IF "hopeless" \in Events THEN {"gone"} ELSE {})
      [] OTHER -> {view[w]}

\* A reload in the same instant as the kill may be dropped.
AfterKill(w) ==
    IF view[w] \in {"closing", "closed"} THEN {view[w]} ELSE {"gone", "loading"}

ToStage(i, stage) == seq' = [seq EXCEPT ![i].stage = stage]

\* eval_reload.
Tier1(i) ==
    /\ seq[i] # Nothing /\ seq[i].stage = "tier1"
    /\ \E v \in AfterReload(seq[i].window, FALSE) :
         view' = [view EXCEPT ![seq[i].window] = v]
    /\ ToStage(i, "wait1")
    /\ UNCHANGED <<entry, queue>>

\* native_reload, unless tier 1 has worked.
Tier2(i) ==
    /\ seq[i] # Nothing /\ seq[i].stage = "wait1" /\ ~Resumed(seq[i].window)
    /\ \E v \in AfterReload(seq[i].window, TRUE) :
         view' = [view EXCEPT ![seq[i].window] = v]
    /\ ToStage(i, "wait2")
    /\ UNCHANGED <<entry, queue>>

\* kill_webkit_descendants and reload_all_windows: every window is hit.
Tier3(i) ==
    /\ seq[i] # Nothing /\ seq[i].stage = "wait2" /\ ~Resumed(seq[i].window)
    /\ view' \in {v \in [Windows -> Views] : \A w \in Windows : v[w] \in AfterKill(w)}
    /\ ToStage(i, "wait3")
    /\ UNCHANGED <<entry, queue>>

\* The second reload of every window, those that are back included.
RetryReload(i) ==
    /\ seq[i] # Nothing /\ seq[i].stage = "wait3" /\ ~Resumed(seq[i].window)
    /\ view' \in {v \in [Windows -> Views] :
                    \A w \in Windows : v[w] \in AfterReload(w, TRUE)}
    /\ ToStage(i, "retry")
    /\ UNCHANGED <<entry, queue>>

\* The last look of a sequence, which decides `ok`.  A page has ten seconds to
\* load and report after the second reload; only a slow one needs more.
Looks(i) ==
    /\ seq[i] # Nothing
    /\ \/ /\ seq[i].stage \in {"wait1", "wait2", "wait3", "retry"}
          /\ Resumed(seq[i].window)
          /\ ToStage(i, "succeeded")
       \/ /\ seq[i].stage = "retry" /\ ~Resumed(seq[i].window)
          /\ view[seq[i].window] \in {"alive", "loading"} => "slow" \in Events
          /\ ToStage(i, "failed")
    /\ UNCHANGED <<entry, view, queue>>

Succeeded(e) == [e EXCEPT !.recovering = FALSE, !.failures = 0, !.gaveUp = FALSE]

\* Fault: never gives up.
NeverGivenUp(e) ==
    [e EXCEPT !.recovering = FALSE, !.failures = e.failures + 1]

\* Fault: the flag is not taken back.
StillRecovering(e) ==
    [e EXCEPT !.failures = e.failures + 1,
              !.gaveUp = e.gaveUp \/ e.failures + 1 >= MaxFailures]

Exhausted(e) ==
    [e EXCEPT !.recovering = FALSE, !.failures = e.failures + 1,
              !.gaveUp = e.gaveUp \/ e.failures + 1 >= MaxFailures]

\* Under the lock again: the flag is taken back and the outcome counted.
Ends(i) ==
    LET w == seq[i].window
        e == entry[w] IN
    /\ seq[i] # Nothing /\ seq[i].stage \in {"succeeded", "failed"}
    /\ seq' = [seq EXCEPT ![i] = Nothing]
    /\ entry' = [entry EXCEPT ![w] =
         IF e = Nothing THEN Nothing
         ELSE IF seq[i].stage = "succeeded" THEN Succeeded(e) ELSE Exhausted(e)]
    /\ UNCHANGED <<view, queue>>

----------------------------------------------------------------------------
(* The windows. *)

ViewChanges(w, from, to) ==
    /\ view[w] \in from
    /\ view' = [view EXCEPT ![w] = to]
    /\ UNCHANGED <<queue, seq>>

Loads(w) == ViewChanges(w, {"loading"}, "alive") /\ UNCHANGED entry
Freezes(w) == ViewChanges(w, {"alive"}, "frozen") /\ UNCHANGED entry
Thaws(w) == ViewChanges(w, {"frozen"}, "alive") /\ UNCHANGED entry

\* Unless the DJ is hasty, the sequence for the window that was closed is over.
Opens(w) ==
    /\ "hasty" \in Events \/ ~Recovering(w)
    /\ ViewChanges(w, {"closed"}, "loading")
    /\ UNCHANGED entry

\* forget_window on CloseRequested, when the page still runs, and on Destroyed.
CloseRequested(w) ==
    /\ ViewChanges(w, {"alive"}, "closing")
    /\ entry' = [entry EXCEPT ![w] = Nothing]
Destroyed(w) ==
    /\ ViewChanges(w, Views \ {"closed"}, "closed")
    /\ entry' = [entry EXCEPT ![w] = Nothing]

----------------------------------------------------------------------------
(* The specification. *)

Init ==
    /\ entry = [w \in Windows |-> Nothing]
    /\ view \in [Windows -> {"alive", "closed"}]
    /\ \A w \in Windows : view[w] = "closed" => w \in Closable
    /\ queue = {}
    /\ seq = [i \in Slots |-> Nothing]

Sequence(i) ==
    Tier1(i) \/ Tier2(i) \/ Tier3(i) \/ RetryReload(i) \/ Looks(i) \/ Ends(i)

Automatic ==
    \/ Poll
    \/ \E w \in Windows :
         Beat(w) \/ GoesSilent(w) \/ BackoffEnds(w) \/ Spawn(w) \/ Loads(w)
    \/ \E i \in Slots : Sequence(i)

Happens ==
    \/ "freeze" \in Events /\ \E w \in Windows : Freezes(w)
    \/ "thaw" \in Events /\ \E w \in Windows : Thaws(w)
    \/ "close" \in Events /\ \E w \in Closable : CloseRequested(w) \/ Destroyed(w)
    \/ "reopen" \in Events /\ \E w \in Closable : Opens(w)

Next == Automatic \/ Happens

Spec == Init /\ [][Next]_vars

\* The poll's thread and the sequences' run on, pages load, a page that runs
\* reports, and time passes.
Fairness ==
    /\ WF_vars(Poll)
    /\ \A w \in Windows :
         /\ WF_vars(Beat(w)) /\ WF_vars(GoesSilent(w)) /\ WF_vars(BackoffEnds(w))
         /\ WF_vars(Spawn(w)) /\ WF_vars(Loads(w))
    /\ \A i \in Slots : WF_vars(Sequence(i))
FairSpec == Spec /\ Fairness

----------------------------------------------------------------------------
(* Properties. *)

\* One sequence at a time works on a window (watchdog.rs:52-53).
OneSequence ==
    \A w \in Windows, i, j \in Slots : Runs(i, w) /\ Runs(j, w) => i = j

\* A window the watchdog gave up on is silent still.  On one that reports, the
\* flag would keep its next freeze from ever being recovered.
GaveUpIsSilent ==
    \A w \in Windows : Known(w) /\ entry[w].gaveUp => entry[w].triggered

\* A sequence, and with it a kill of every web process, runs only for a window
\* with fewer than MaxFailures failures since it last reported: a window that
\* never comes back is not killed for without end (watchdog.rs:39-42).
KillsAreBounded ==
    \A i \in Slots :
       seq[i] # Nothing /\ Known(seq[i].window)
         => ~entry[seq[i].window].gaveUp /\ entry[seq[i].window].failures < MaxFailures

\* A silent window reports again, is given up or is closed: no flag is left
\* behind that keeps the watchdog from trying.
SilenceIsHandled ==
    \A w \in Windows :
       Known(w) /\ entry[w].triggered
         ~> ~Known(w) \/ ~entry[w].triggered \/ entry[w].gaveUp

\* A window that was closed never leads to a kill (watchdog.rs:543-544).
ClosedNeverEscalates ==
    [][\A i \in Slots :
         seq[i] # Nothing /\ seq'[i] = [seq[i] EXCEPT !.stage = "wait3"]
           => view[seq[i].window] # "closed"]_vars
=============================================================================
