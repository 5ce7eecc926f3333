--------------------------- MODULE WatchdogProofs ---------------------------
(***************************************************************************)
(* Proofs about Watchdog for any set of windows and any number of recovery *)
(* threads.  The types hold whatever happens, and so does FlagIsTakenBack; *)
(* the rest holds when a window is not opened again while a sequence for   *)
(* it is still under way ("hasty" is not in Events): with it, it does not. *)
(***************************************************************************)
EXTENDS Watchdog, TLAPS

----------------------------------------------------------------------------
(* Types. *)

LEMMA NewEntryType == NewEntry \in EntryRec
BY DEF NewEntry, EntryRec

LEMMA OutcomeType ==
    ASSUME NEW e \in EntryRec
    PROVE  Resumes(e) \in EntryRec /\ Succeeded(e) \in EntryRec /\ Exhausted(e) \in EntryRec
<1>1. Resumes(e) \in EntryRec /\ Succeeded(e) \in EntryRec
  BY DEF Resumes, Succeeded, EntryRec
<1>2. (e.gaveUp \/ e.failures + 1 >= MaxFailures) \in BOOLEAN
  BY DEF EntryRec
<1>3. e.failures + 1 \in Nat
  BY DEF EntryRec
<1>4. Exhausted(e) \in EntryRec
  BY <1>2, <1>3 DEF Exhausted, EntryRec
<1>5. QED
  BY <1>1, <1>4

LEMMA ReloadType ==
    ASSUME TypeOK, NEW w \in Windows
    PROVE  /\ \A native \in BOOLEAN : AfterReload(w, native) \subseteq Views
           /\ AfterKill(w) \subseteq Views
BY DEF TypeOK, AfterReload, AfterKill, Views

LEMMA InitTypeOK == Init => TypeOK
BY DEF Init, TypeOK, Views

\* A heartbeat and the passing of time change one entry.
LEMMA EntryTypeOK ==
    ASSUME TypeOK, NEW w \in Windows, Beat(w) \/ GoesSilent(w) \/ BackoffEnds(w)
    PROVE  TypeOK'
<1>1. \E e \in EntryRec : entry' = [entry EXCEPT ![w] = e]
  <2>1. CASE Beat(w)
    <3>1. CASE entry[w] = Nothing
      BY <2>1, <3>1, NewEntryType DEF Beat
    <3>2. CASE Known(w) /\ entry[w].triggered
      BY <2>1, <3>2, OutcomeType DEF Beat, Known, TypeOK
    <3>3. CASE Known(w) /\ ~entry[w].triggered
      BY <2>1, <3>3 DEF Beat, Known, TypeOK, EntryRec
    <3>4. QED
      BY <3>1, <3>2, <3>3 DEF Known
  <2>2. CASE GoesSilent(w)
    <3>1. entry[w] \in EntryRec
      BY <2>2 DEF GoesSilent, Known, TypeOK
    <3>2. [entry[w] EXCEPT !.silent = TRUE] \in EntryRec
      BY <3>1 DEF EntryRec
    <3>3. QED
      BY <2>2, <3>2 DEF GoesSilent, TypeOK
  <2>3. CASE BackoffEnds(w)
    <3>1. entry[w] \in EntryRec
      BY <2>3 DEF BackoffEnds, Known, TypeOK
    <3>2. [entry[w] EXCEPT !.due = TRUE] \in EntryRec
      BY <3>1 DEF EntryRec
    <3>3. QED
      BY <2>3, <3>2 DEF BackoffEnds, TypeOK
  <2>4. QED
    BY <2>1, <2>2, <2>3
<1>2. QED
  BY <1>1 DEF TypeOK, Beat, GoesSilent, BackoffEnds

LEMMA PollTypeOK == TypeOK /\ Poll => TypeOK'
<1> SUFFICES ASSUME TypeOK, Poll PROVE TypeOK'
  OBVIOUS
<1>1. ASSUME NEW w \in Windows PROVE entry'[w] \in {Nothing} \cup EntryRec
  BY DEF TypeOK, Poll, Known, Triggered, EntryRec
<1>2. QED
  BY <1>1 DEF TypeOK, Poll

LEMMA SpawnTypeOK == ASSUME TypeOK, NEW w \in Windows, Spawn(w) PROVE TypeOK'
<1>1. CASE view[w] = "closed"
  BY <1>1 DEF TypeOK, Spawn
<1>2. CASE view[w] # "closed"
  BY <1>2 DEF TypeOK, Spawn, SeqRec, Stages
<1>3. QED
  BY <1>1, <1>2

LEMMA SequenceTypeOK == ASSUME TypeOK, NEW i \in Slots, Sequence(i) PROVE TypeOK'
<1>1. ASSUME NEW stage \in Stages, seq[i] # Nothing, ToStage(i, stage)
      PROVE  seq' \in [Slots -> {Nothing} \cup SeqRec]
  BY <1>1 DEF TypeOK, ToStage, SeqRec
<1>2. CASE Tier1(i) \/ Tier2(i)
  <2>1. seq[i].window \in Windows
    BY <1>2 DEF TypeOK, Tier1, Tier2, SeqRec
  <2>2. \E v \in Views : view' = [view EXCEPT ![seq[i].window] = v]
    BY <1>2, <2>1, ReloadType DEF Tier1, Tier2
  <2>3. view' \in [Windows -> Views]
    BY <2>1, <2>2 DEF TypeOK
  <2>4. QED
    BY <1>1, <1>2, <2>3 DEF TypeOK, Tier1, Tier2, Stages
<1>3. CASE Tier3(i) \/ RetryReload(i) \/ Looks(i)
  BY <1>1, <1>3 DEF TypeOK, Tier3, RetryReload, Looks, Stages
<1>4. CASE Ends(i)
  <2>1. seq[i].window \in Windows
    BY <1>4 DEF TypeOK, Ends, SeqRec
  <2>2. \E e \in {Nothing} \cup EntryRec : entry' = [entry EXCEPT ![seq[i].window] = e]
    BY <1>4, <2>1, OutcomeType DEF TypeOK, Ends
  <2>3. QED
    BY <1>4, <2>1, <2>2 DEF TypeOK, Ends
<1>5. QED
  BY <1>2, <1>3, <1>4 DEF Sequence

LEMMA HappensTypeOK == TypeOK /\ (Happens \/ \E w \in Windows : Loads(w)) => TypeOK'
BY WindowsAssumption
DEF TypeOK, Happens, Loads, Freezes, Thaws, Opens, CloseRequested, Destroyed, ViewChanges, Views

LEMMA NextTypeOK == TypeOK /\ [Next]_vars => TypeOK'
<1>1. TypeOK /\ UNCHANGED vars => TypeOK'
  BY DEF TypeOK, vars
<1>2. QED
  BY <1>1, EntryTypeOK, PollTypeOK, SpawnTypeOK, SequenceTypeOK, HappensTypeOK
  DEF Next, Automatic

\* The state always has its type.
THEOREM TypeCorrect == Spec => []TypeOK
BY InitTypeOK, NextTypeOK, PTL DEF Spec

----------------------------------------------------------------------------
(* The inductive invariant. *)

\* No sequence runs for a window whose sequence is yet to be spawned.
QueuedIdle == \A w \in queue, i \in Slots : ~Runs(i, w)

\* The failures of a window that reports are forgotten or just counted; one that
\* is silent has fewer than MaxFailures or is given up.
FewFailures(w) ==
    IF entry[w].triggered
    THEN entry[w].gaveUp \/ entry[w].failures < MaxFailures
    ELSE ~entry[w].gaveUp /\ entry[w].failures <= 1 /\ (Recovering(w) => entry[w].failures = 0)

\* What is true of one window.  A window that closes may be known again before it
\* is destroyed, by a last heartbeat, and the sequence under way for it does not
\* know of that entry; but its page reports, so no second sequence begins.
WindowInv(w) ==
    /\ view[w] = "closed" => ~Known(w)
    /\ ~Known(w) /\ Recovering(w) => view[w] \in {"closing", "closed"}
    /\ Known(w) =>
         /\ view[w] = "closing" => ~entry[w].silent /\ ~entry[w].triggered
         /\ Recovering(w) => ~entry[w].gaveUp /\ (view[w] = "closing" \/ entry[w].recovering)
         /\ FewFailures(w)

IInv == TypeOK /\ OneSequence /\ QueuedIdle /\ \A w \in Windows : WindowInv(w)

\* The same sequences run and wait.
SameSequences == queue' = queue /\ \A i \in Slots, w \in Windows : Runs(i, w)' <=> Runs(i, w)

\* A window that closes or is closed goes on to do so, and no other starts to.
SameKind(w) ==
    /\ view'[w] = "closed" <=> view[w] = "closed"
    /\ view'[w] = "closing" <=> view[w] = "closing"

LEMMA SequencesKept ==
    ASSUME IInv, SameSequences
    PROVE  /\ OneSequence' /\ QueuedIdle'
           /\ \A w \in Windows : Recovering(w)' <=> Recovering(w)
<1>1. OneSequence'
  BY DEF SameSequences, IInv, OneSequence
<1>2. QueuedIdle'
  BY DEF SameSequences, IInv, TypeOK, QueuedIdle
<1>3. QED
  BY <1>1, <1>2 DEF SameSequences, Recovering

\* A window that a step does not touch keeps its invariant.
LEMMA WindowKept ==
    ASSUME IInv, NEW w \in Windows, entry'[w] = entry[w], SameKind(w),
           Recovering(w)' => Recovering(w)
    PROVE  WindowInv(w)'
BY DEF IInv, WindowInv, FewFailures, Known, SameKind

LEMMA BeatIInv == ASSUME IInv, NEW w \in Windows, Beat(w) PROVE IInv'
<1>1. TypeOK'
  BY EntryTypeOK DEF IInv
<1>2. SameSequences
  BY DEF Beat, SameSequences, Runs
<1>3. ASSUME NEW u \in Windows, u # w PROVE WindowInv(u)'
  BY <1>2, <1>3, SequencesKept, WindowKept DEF IInv, TypeOK, Beat, SameKind
<1>4. WindowInv(w)'
  <2>1. view'[w] = view[w] /\ view[w] \in {"alive", "closing"}
    BY DEF Beat
  <2>2. Recovering(w)' <=> Recovering(w)
    BY <1>2, SequencesKept
  <2>3. CASE entry[w] = Nothing
    <3>1. entry'[w] = NewEntry
      BY <2>3 DEF Beat, IInv, TypeOK
    <3>2. entry[w] = Nothing /\ Recovering(w) => view[w] = "closing"
      BY <2>1 DEF IInv, WindowInv, Known
    <3>3. QED
      BY <2>1, <2>2, <2>3, <3>1, <3>2, FailuresAssumption DEF WindowInv, FewFailures, Known, NewEntry
  <2>4. CASE Known(w) /\ entry[w].triggered
    <3>1. entry'[w] = Resumes(entry[w]) /\ entry[w] \in EntryRec /\ entry'[w] # Nothing
      BY <2>4, <1>1, OutcomeType, NothingAssumption DEF Beat, IInv, TypeOK, Known
    <3>2. QED
      BY <2>1, <2>2, <2>4, <3>1 DEF IInv, WindowInv, FewFailures, Known, Resumes, EntryRec
  <2>5. CASE Known(w) /\ ~entry[w].triggered
    <3>1. entry[w] \in EntryRec /\ entry'[w] = [entry[w] EXCEPT !.silent = FALSE]
      BY <2>5 DEF Beat, IInv, TypeOK, Known
    <3>2. entry'[w] \in EntryRec
      BY <3>1 DEF EntryRec
    <3>3. entry'[w] # Nothing
      BY <3>2, NothingAssumption
    <3>4. QED
      BY <2>1, <2>2, <2>5, <3>1, <3>3 DEF IInv, WindowInv, FewFailures, Known, EntryRec
  <2>6. QED
    BY <2>3, <2>4, <2>5 DEF Known
<1>5. QED
  BY <1>1, <1>2, <1>3, <1>4, SequencesKept DEF IInv

LEMMA TimeIInv == ASSUME IInv, NEW w \in Windows, GoesSilent(w) \/ BackoffEnds(w) PROVE IInv'
<1>1. TypeOK'
  BY EntryTypeOK DEF IInv
<1>2. SameSequences
  BY DEF GoesSilent, BackoffEnds, SameSequences, Runs
<1>3. ASSUME NEW u \in Windows, u # w PROVE WindowInv(u)'
  BY <1>2, <1>3, SequencesKept, WindowKept DEF IInv, TypeOK, GoesSilent, BackoffEnds, SameKind
<1>4. WindowInv(w)'
  <2>1. entry[w] \in EntryRec /\ entry'[w] \in EntryRec /\ Known(w) /\ Known(w)'
    <3>1. entry[w] \in EntryRec
      BY DEF GoesSilent, BackoffEnds, IInv, TypeOK, Known
    <3>2. /\ [entry[w] EXCEPT !.silent = TRUE] \in EntryRec
          /\ [entry[w] EXCEPT !.due = TRUE] \in EntryRec
      BY <3>1 DEF EntryRec
    <3>3. entry'[w] \in EntryRec
      BY <3>2 DEF GoesSilent, BackoffEnds, IInv, TypeOK
    <3>4. QED
      BY <3>1, <3>3, NothingAssumption DEF Known
  <2>2. /\ entry'[w].triggered = entry[w].triggered
        /\ entry'[w].recovering = entry[w].recovering
        /\ entry'[w].gaveUp = entry[w].gaveUp
        /\ entry'[w].failures = entry[w].failures
        /\ view[w] = "closing" => entry'[w].silent = entry[w].silent
    BY <2>1 DEF GoesSilent, BackoffEnds, IInv, TypeOK, EntryRec
  <2>3. view'[w] = view[w] /\ (Recovering(w)' <=> Recovering(w))
    BY <1>2, SequencesKept DEF GoesSilent, BackoffEnds
  <2>4. QED
    BY <2>1, <2>2, <2>3 DEF IInv, WindowInv, FewFailures
<1>5. QED
  BY <1>1, <1>2, <1>3, <1>4, SequencesKept DEF IInv

LEMMA PollIInv == IInv /\ Poll => IInv'
<1> SUFFICES ASSUME IInv, Poll PROVE IInv'
  OBVIOUS
<1>1. TypeOK'
  BY PollTypeOK DEF IInv
<1>2. queue = {} /\ view' = view /\ seq' = seq
  BY DEF Poll
<1>3. \A i \in Slots, w \in Windows : Runs(i, w)' <=> Runs(i, w)
  BY <1>2 DEF Runs
<1>4. ASSUME NEW w \in Windows, Known(w), Recovers(entry[w])
      PROVE  ~Recovering(w) /\ view[w] # "closing"
  BY <1>4 DEF IInv, WindowInv, Recovers, Triggered
<1>5. queue' = {w \in Windows : Known(w) /\ Recovers(entry[w])}
  BY DEF Poll
<1>6. QueuedIdle'
  BY <1>3, <1>4, <1>5 DEF QueuedIdle, Recovering
<1>7. OneSequence'
  BY <1>3 DEF IInv, OneSequence
<1>8. ASSUME NEW w \in Windows PROVE WindowInv(w)'
  <2>1. CASE ~Known(w)
    <3>1. entry'[w] = Nothing /\ entry[w] = Nothing
      BY <2>1 DEF Poll, Known
    <3>2. Recovering(w)' => Recovering(w)
      BY <1>3, <1>5, <2>1 DEF Recovering
    <3>3. QED
      BY <1>2, <3>1, <3>2, WindowKept DEF SameKind
  <2>2. CASE Known(w) /\ Recovers(entry[w])
    <3>1. entry[w] \in EntryRec
      BY <2>2 DEF IInv, TypeOK, Known
    <3>2. entry'[w] = [entry[w] EXCEPT !.triggered = TRUE, !.recovering = TRUE, !.due = FALSE]
      BY <2>2 DEF Poll
    <3>3. /\ entry'[w].triggered /\ entry'[w].recovering
          /\ ~entry'[w].gaveUp /\ entry'[w].failures = entry[w].failures
      BY <2>2, <3>1, <3>2 DEF EntryRec, Recovers
    <3>4. entry[w].failures < MaxFailures
      BY <2>2, <3>1, FailuresAssumption DEF IInv, WindowInv, FewFailures, Recovers, EntryRec
    <3>5. Known(w)' /\ view[w] # "closed" /\ view[w] # "closing"
      BY <1>1, <1>4, <2>2, <3>1, <3>2, NothingAssumption DEF IInv, TypeOK, WindowInv, Known, EntryRec
    <3>6. QED
      BY <1>2, <3>3, <3>4, <3>5 DEF WindowInv, FewFailures
  <2>3. CASE Known(w) /\ ~Recovers(entry[w])
    <3>1. entry[w] \in EntryRec
      BY <2>3 DEF IInv, TypeOK, Known
    <3>2. entry'[w] = [entry[w] EXCEPT !.triggered = Triggered(entry[w])]
      BY <2>3 DEF Poll
    <3>3. /\ entry'[w].triggered = Triggered(entry[w]) /\ entry'[w].silent = entry[w].silent
          /\ entry'[w].recovering = entry[w].recovering
          /\ entry'[w].gaveUp = entry[w].gaveUp /\ entry'[w].failures = entry[w].failures
      BY <3>1, <3>2 DEF EntryRec
    <3>4. Known(w)'
      <4>1. Triggered(entry[w]) \in BOOLEAN
        BY <3>1 DEF Triggered, EntryRec
      <4>2. entry'[w] \in EntryRec
        BY <3>1, <3>2, <4>1 DEF EntryRec
      <4>3. QED
        BY <4>2, NothingAssumption DEF Known
    <3>5. Recovering(w)' => Recovering(w)
      BY <1>3, <1>5, <2>3 DEF Recovering
    <3>6. view[w] = "closing" => ~Triggered(entry[w]) /\ ~entry[w].silent
      BY <2>3 DEF IInv, WindowInv, Triggered
    <3>7. FewFailures(w)'
      BY <2>3, <3>1, <3>3, <3>5, FailuresAssumption
      DEF IInv, WindowInv, FewFailures, Triggered, EntryRec
    <3>8. QED
      BY <1>2, <2>3, <3>3, <3>4, <3>5, <3>6, <3>7 DEF IInv, WindowInv
  <2>4. QED
    BY <2>1, <2>2, <2>3
<1>9. QED
  BY <1>1, <1>6, <1>7, <1>8 DEF IInv

LEMMA SpawnIInv == ASSUME IInv, NEW w \in Windows, Spawn(w) PROVE IInv'
<1>1. TypeOK'
  BY SpawnTypeOK DEF IInv
<1>2. w \in queue /\ queue' = queue \ {w} /\ view' = view
  BY DEF Spawn
<1>3. \A i \in Slots : ~Runs(i, w)
  BY <1>2 DEF IInv, QueuedIdle
<1>4. CASE view[w] = "closed"
  <2>1. seq' = seq /\ entry' = [entry EXCEPT ![w] = Nothing]
    BY <1>4 DEF Spawn
  <2>2. \A i \in Slots, u \in Windows : Runs(i, u)' <=> Runs(i, u)
    BY <2>1 DEF Runs
  <2>3. OneSequence' /\ QueuedIdle'
    BY <1>2, <2>2 DEF IInv, TypeOK, OneSequence, QueuedIdle
  <2>4. \A u \in Windows : entry'[u] = entry[u]
    BY <1>4, <2>1 DEF IInv, TypeOK, WindowInv, Known
  <2>5. \A u \in Windows : Recovering(u)' => Recovering(u)
    BY <1>2, <2>2 DEF Recovering
  <2>6. QED
    BY <1>1, <1>2, <2>3, <2>4, <2>5, WindowKept DEF IInv, SameKind
<1>5. CASE view[w] # "closed"
  <2>1. PICK k \in Slots :
           seq[k] = Nothing /\ seq' = [seq EXCEPT ![k] = [window |-> w, stage |-> "tier1"]]
    BY <1>5 DEF Spawn
  <2>2. [window |-> w, stage |-> "tier1"] # Nothing
    BY NothingAssumption DEF SeqRec, Stages
  <2>3. \A i \in Slots, u \in Windows : Runs(i, u)' <=> Runs(i, u) \/ (i = k /\ u = w)
    BY <2>1, <2>2 DEF Runs, IInv, TypeOK
  <2>4. OneSequence' /\ QueuedIdle'
    BY <1>2, <1>3, <2>3 DEF IInv, TypeOK, OneSequence, QueuedIdle
  <2>5. \A u \in Windows : Recovering(u)' => Recovering(u)
    BY <1>2, <2>3 DEF Recovering
  <2>6. entry' = entry
    BY <1>5 DEF Spawn
  <2>7. QED
    BY <1>1, <1>2, <2>4, <2>5, <2>6, WindowKept DEF IInv, SameKind
<1>6. QED
  BY <1>4, <1>5

\* A step within a sequence changes no entry, and no window's kind.
LEMMA TierIInv ==
    ASSUME IInv, NEW i \in Slots,
           Tier1(i) \/ Tier2(i) \/ Tier3(i) \/ RetryReload(i) \/ Looks(i)
    PROVE  IInv'
<1>1. TypeOK'
  BY SequenceTypeOK DEF IInv, Sequence
<1>2. entry' = entry /\ queue' = queue /\ seq[i] # Nothing
  BY DEF Tier1, Tier2, Tier3, RetryReload, Looks
<1>3. PICK stage \in Stages : seq' = [seq EXCEPT ![i].stage = stage]
  BY DEF Tier1, Tier2, Tier3, RetryReload, Looks, ToStage, Stages
<1>4. seq[i] \in SeqRec /\ seq'[i] \in SeqRec /\ seq'[i].window = seq[i].window
  BY <1>2, <1>3 DEF IInv, TypeOK, SeqRec
<1>5. SameSequences
  BY <1>2, <1>3, <1>4, NothingAssumption DEF SameSequences, Runs, IInv, TypeOK
<1>6. \A w \in Windows, native \in BOOLEAN :
         \A v \in AfterReload(w, native) \cup AfterKill(w) :
            /\ v = "closed" <=> view[w] = "closed"
            /\ v = "closing" <=> view[w] = "closing"
  BY DEF AfterReload, AfterKill, IInv, TypeOK, Views
<1>7. \A w \in Windows : SameKind(w)
  <2>1. CASE Tier1(i) \/ Tier2(i)
    <3>1. PICK w \in Windows : w = seq[i].window
      BY <1>4 DEF SeqRec
    <3>2. PICK v \in AfterReload(w, FALSE) \cup AfterReload(w, TRUE) :
             view' = [view EXCEPT ![w] = v]
      BY <2>1, <3>1 DEF Tier1, Tier2
    <3>3. QED
      BY <1>6, <3>2 DEF SameKind, IInv, TypeOK
  <2>2. CASE Tier3(i) \/ RetryReload(i)
    BY <1>6, <2>2 DEF Tier3, RetryReload, SameKind
  <2>3. CASE Looks(i)
    BY <2>3 DEF Looks, SameKind
  <2>4. QED
    BY <2>1, <2>2, <2>3
<1>8. \A w \in Windows : WindowInv(w)'
  BY <1>2, <1>5, <1>7, SequencesKept, WindowKept
<1>9. QED
  BY <1>1, <1>5, <1>8, SequencesKept DEF IInv

LEMMA EndsIInv == ASSUME IInv, NEW i \in Slots, Ends(i) PROVE IInv'
<1>1. TypeOK'
  BY SequenceTypeOK DEF IInv, Sequence
<1>2. PICK w \in Windows : w = seq[i].window /\ Runs(i, w)
  BY DEF Ends, IInv, TypeOK, SeqRec, Runs
<1>3. queue' = queue /\ view' = view /\ seq' = [seq EXCEPT ![i] = Nothing]
  BY DEF Ends
<1>4. \A j \in Slots, u \in Windows : Runs(j, u)' <=> Runs(j, u) /\ j # i
  BY <1>3 DEF Runs, IInv, TypeOK
<1>5. OneSequence' /\ QueuedIdle'
  BY <1>3, <1>4 DEF IInv, TypeOK, OneSequence, QueuedIdle
<1>6. ~Recovering(w)' /\ Recovering(w)
  BY <1>2, <1>3, <1>4 DEF IInv, OneSequence, QueuedIdle, Recovering
<1>7. ASSUME NEW u \in Windows, u # w PROVE WindowInv(u)'
  <2>1. Recovering(u)' => Recovering(u)
    BY <1>3, <1>4 DEF Recovering
  <2>2. entry'[u] = entry[u]
    BY <1>2, <1>7 DEF Ends, IInv, TypeOK
  <2>3. QED
    BY <1>3, <2>1, <2>2, WindowKept DEF SameKind
<1>8. WindowInv(w)'
  <2>1. CASE ~Known(w)
    <3>1. entry'[w] = entry[w]
      BY <1>2, <2>1 DEF Ends, Known, IInv, TypeOK
    <3>2. QED
      BY <1>3, <1>6, <3>1, WindowKept DEF SameKind
  <2>2. CASE Known(w)
    <3>1. entry[w] \in EntryRec /\ ~entry[w].gaveUp
      BY <1>6, <2>2 DEF IInv, TypeOK, WindowInv, Known
    <3>2. entry'[w] = Succeeded(entry[w]) \/ entry'[w] = Exhausted(entry[w])
      BY <1>2, <2>2 DEF Ends, Known, IInv, TypeOK
    <3>3. entry'[w] \in EntryRec /\ Known(w)'
      BY <3>1, <3>2, OutcomeType, NothingAssumption DEF Known
    <3>4. entry'[w].silent = entry[w].silent /\ entry'[w].triggered = entry[w].triggered
      BY <3>1, <3>2 DEF Succeeded, Exhausted, EntryRec
    <3>5. \/ entry'[w].failures = 0 /\ ~entry'[w].gaveUp
          \/ /\ entry'[w].failures = entry[w].failures + 1
             /\ entry'[w].gaveUp <=> entry[w].failures + 1 >= MaxFailures
      BY <3>1, <3>2 DEF Succeeded, Exhausted, EntryRec
    <3>6. ~entry[w].triggered => entry[w].failures = 0
      BY <1>6, <2>2 DEF IInv, WindowInv, FewFailures
    <3>7. FewFailures(w)'
      BY <1>6, <3>1, <3>3, <3>4, <3>5, <3>6, FailuresAssumption DEF FewFailures, EntryRec
    <3>8. QED
      BY <1>3, <1>6, <2>2, <3>3, <3>4, <3>7 DEF IInv, WindowInv
  <2>3. QED
    BY <2>1, <2>2
<1>9. QED
  BY <1>1, <1>5, <1>7, <1>8 DEF IInv

\* What happens to the windows, when none is opened in haste.
LEMMA HappensIInv ==
    ASSUME IInv, "hasty" \notin Events, Happens \/ \E w \in Windows : Loads(w)
    PROVE  IInv'
<1>1. TypeOK'
  BY HappensTypeOK DEF IInv
<1>2. queue' = queue /\ seq' = seq
  BY DEF Happens, Loads, Freezes, Thaws, Opens, CloseRequested, Destroyed, ViewChanges
<1>3. SameSequences
  BY <1>2 DEF SameSequences, Runs
<1>4. CASE \E w \in Windows : Loads(w) \/ Freezes(w) \/ Thaws(w)
  <2>1. entry' = entry /\ \A u \in Windows : SameKind(u)
    BY <1>4 DEF Loads, Freezes, Thaws, ViewChanges, SameKind, IInv, TypeOK
  <2>2. QED
    BY <1>1, <1>3, <2>1, SequencesKept, WindowKept DEF IInv
<1>5. ASSUME NEW w \in Windows, Opens(w) PROVE IInv'
  <2>1. entry' = entry /\ view' = [view EXCEPT ![w] = "loading"] /\ view[w] = "closed"
    BY <1>5 DEF Opens, ViewChanges
  <2>2. ~Recovering(w) /\ ~Known(w)
    BY <1>5, <2>1 DEF Opens, IInv, WindowInv
  <2>3. ~Recovering(w)' /\ ~Known(w)'
    BY <1>3, <2>1, <2>2, SequencesKept DEF Known
  <2>4. WindowInv(w)'
    BY <2>3 DEF WindowInv
  <2>5. \A u \in Windows : u # w => SameKind(u)
    BY <2>1 DEF SameKind, IInv, TypeOK
  <2>6. QED
    BY <1>1, <1>3, <2>1, <2>4, <2>5, SequencesKept, WindowKept DEF IInv
<1>6. ASSUME NEW w \in Windows, CloseRequested(w) \/ Destroyed(w) PROVE IInv'
  <2>1. entry'[w] = Nothing /\ view'[w] \in {"closing", "closed"}
    BY <1>6 DEF CloseRequested, Destroyed, ViewChanges, IInv, TypeOK
  <2>2. WindowInv(w)'
    BY <2>1 DEF WindowInv, Known
  <2>3. \A u \in Windows : u # w => SameKind(u) /\ entry'[u] = entry[u]
    BY <1>6 DEF CloseRequested, Destroyed, ViewChanges, SameKind, IInv, TypeOK
  <2>4. QED
    BY <1>1, <1>3, <2>2, <2>3, SequencesKept, WindowKept DEF IInv
<1>7. QED
  BY <1>4, <1>5, <1>6, WindowsAssumption DEF Happens

LEMMA InitIInv == Init => IInv
<1> SUFFICES ASSUME Init PROVE IInv
  OBVIOUS
<1>1. \A w \in Windows : ~Known(w) /\ ~Recovering(w)
  BY DEF Init, Known, Recovering, Runs
<1>2. OneSequence /\ QueuedIdle
  BY DEF Init, OneSequence, QueuedIdle, Runs
<1>3. QED
  BY <1>1, <1>2, InitTypeOK DEF IInv, WindowInv

LEMMA NextIInv == ASSUME "hasty" \notin Events PROVE IInv /\ [Next]_vars => IInv'
<1> SUFFICES ASSUME IInv, [Next]_vars PROVE IInv'
  OBVIOUS
<1>1. CASE UNCHANGED vars
  <2>1. TypeOK'
    BY <1>1, NextTypeOK DEF IInv
  <2>2. SameSequences
    BY <1>1 DEF vars, SameSequences, Runs
  <2>3. QED
    BY <1>1, <2>1, <2>2, SequencesKept, WindowKept DEF vars, IInv, SameKind
<1>2. QED
  BY <1>1, BeatIInv, TimeIInv, PollIInv, SpawnIInv, TierIInv, EndsIInv, HappensIInv
  DEF Next, Automatic, Sequence

LEMMA Inductive == ASSUME "hasty" \notin Events PROVE Spec => []IInv
<1>1. IInv /\ [Next]_vars => IInv'
  BY NextIInv
<1>2. QED
  BY <1>1, InitIInv, PTL DEF Spec

----------------------------------------------------------------------------
(* The properties. *)

\* One sequence at a time works on a window, unless a window is opened in haste
\* (watchdog.rs:52-53).
THEOREM OneSequenceHolds == ASSUME "hasty" \notin Events PROVE Spec => []OneSequence
BY Inductive, PTL DEF IInv

\* A window that reports is never left given up (watchdog.rs:109-138 and 465-476).
THEOREM GaveUpIsSilentHolds == ASSUME "hasty" \notin Events PROVE Spec => []GaveUpIsSilent
<1>1. IInv => GaveUpIsSilent
  BY DEF IInv, WindowInv, FewFailures, GaveUpIsSilent
<1>2. QED
  BY <1>1, Inductive, PTL

\* Sequences, and the kills they lead to, run only for windows with fewer than
\* MaxFailures failures, whatever MaxFailures is (watchdog.rs:39-42).
THEOREM KillsAreBoundedHolds == ASSUME "hasty" \notin Events PROVE Spec => []KillsAreBounded
<1>1. IInv => KillsAreBounded
  <2> SUFFICES ASSUME IInv, NEW i \in Slots, seq[i] # Nothing, Known(seq[i].window)
               PROVE  /\ ~entry[seq[i].window].gaveUp
                      /\ entry[seq[i].window].failures < MaxFailures
    BY DEF KillsAreBounded
  <2>1. PICK w \in Windows : w = seq[i].window
    BY DEF IInv, TypeOK, SeqRec
  <2>2. Recovering(w) /\ Known(w)
    BY <2>1 DEF Recovering, Runs
  <2>3. ~entry[w].gaveUp /\ FewFailures(w)
    BY <2>2 DEF IInv, WindowInv
  <2>4. entry[w].failures < MaxFailures
    BY <2>2, <2>3, FailuresAssumption DEF FewFailures
  <2>5. QED
    BY <2>1, <2>3, <2>4
<1>2. QED
  BY <1>1, Inductive, PTL
----------------------------------------------------------------------------
(* The flag of a window under recovery (recovering, watchdog.rs:52-54). *)

\* The flag of a window's entry says that somebody is at work on the window.
Worked(w) == Known(w) /\ entry[w].recovering => Recovering(w)
FlagInv == TypeOK /\ \A w \in Windows : Worked(w)

\* A step that leaves a window's sequences, or adds to them, and sets no flag of it.
LEMMA WorkedKept ==
    ASSUME NEW w \in Windows, Worked(w), Recovering(w) => Recovering(w)',
           \/ entry'[w] = Nothing \/ ~entry'[w].recovering
           \/ Known(w) /\ entry'[w].recovering = entry[w].recovering
    PROVE  Worked(w)'
BY DEF Worked, Known

\* A heartbeat and the passing of time leave the flag as it is.
LEMMA EntryWorked ==
    ASSUME FlagInv, NEW w \in Windows, Beat(w) \/ GoesSilent(w) \/ BackoffEnds(w)
    PROVE  \A u \in Windows : Worked(u)'
<1>1. \A u \in Windows : Recovering(u)' <=> Recovering(u)
  BY DEF Beat, GoesSilent, BackoffEnds, Recovering, Runs
<1>2. \A u \in Windows : u # w => entry'[u] = entry[u]
  BY DEF FlagInv, TypeOK, Beat, GoesSilent, BackoffEnds
<1>3. CASE entry[w] = Nothing
  <2>1. entry'[w] = NewEntry
    BY <1>3 DEF FlagInv, TypeOK, Beat, GoesSilent, BackoffEnds, Known
  <2>2. ~entry'[w].recovering
    BY <2>1 DEF NewEntry
  <2>3. QED
    BY <1>1, <1>2, <2>2 DEF FlagInv, Worked, Known
<1>4. CASE entry[w] # Nothing
  <2>1. entry[w] \in EntryRec
    BY <1>4 DEF FlagInv, TypeOK
  <2>2. entry'[w].recovering = entry[w].recovering
    <3>1. \/ entry'[w] = Resumes(entry[w])
          \/ entry'[w] = [entry[w] EXCEPT !.silent = FALSE]
          \/ entry'[w] = [entry[w] EXCEPT !.silent = TRUE]
          \/ entry'[w] = [entry[w] EXCEPT !.due = TRUE]
      BY <1>4 DEF FlagInv, TypeOK, Beat, GoesSilent, BackoffEnds
    <3>2. QED
      BY <2>1, <3>1 DEF Resumes, EntryRec
  <2>3. QED
    BY <1>1, <1>2, <1>4, <2>2 DEF FlagInv, Worked, Known
<1>5. QED
  BY <1>3, <1>4

\* The poll sets the flag of the windows it queues, and of no other.
LEMMA PollWorked == FlagInv /\ Poll => \A u \in Windows : Worked(u)'
<1> SUFFICES ASSUME FlagInv, Poll, NEW u \in Windows PROVE Worked(u)'
  OBVIOUS
<1>1. queue = {} /\ seq' = seq /\ queue' = {w \in Windows : Known(w) /\ Recovers(entry[w])}
  BY DEF Poll
<1>2. CASE Known(u) /\ Recovers(entry[u])
  BY <1>1, <1>2 DEF Worked, Recovering
<1>3. CASE Known(u) /\ ~Recovers(entry[u])
  <2>1. entry[u] \in EntryRec /\ entry'[u] = [entry[u] EXCEPT !.triggered = Triggered(entry[u])]
    BY <1>3 DEF FlagInv, TypeOK, Known, Poll
  <2>2. entry'[u].recovering = entry[u].recovering
    BY <2>1 DEF EntryRec
  <2>3. Recovering(u) => Recovering(u)'
    BY <1>1 DEF Recovering, Runs
  <2>4. QED
    BY <1>3, <2>2, <2>3, WorkedKept DEF FlagInv
<1>4. CASE ~Known(u)
  <2>1. entry'[u] = Nothing
    BY <1>4 DEF Poll
  <2>2. QED
    BY <2>1 DEF Worked, Known
<1>5. QED
  BY <1>2, <1>3, <1>4

\* A queued window gets its sequence, or loses its entry.
LEMMA SpawnWorked ==
    ASSUME FlagInv, NEW w \in Windows, Spawn(w)
    PROVE  \A u \in Windows : Worked(u)'
<1> SUFFICES ASSUME NEW u \in Windows PROVE Worked(u)'
  OBVIOUS
<1>1. queue' = queue \ {w}
  BY DEF Spawn
<1>2. CASE seq' = seq /\ entry' = [entry EXCEPT ![w] = Nothing]
  <2>1. CASE u = w
    BY <1>2, <2>1 DEF FlagInv, TypeOK, Worked, Known
  <2>2. CASE u # w
    BY <1>1, <1>2, <2>2 DEF FlagInv, TypeOK, Worked, Known, Recovering, Runs
  <2>3. QED
    BY <2>1, <2>2
<1>3. ASSUME NEW i \in Slots, seq[i] = Nothing, entry' = entry,
             seq' = [seq EXCEPT ![i] = [window |-> w, stage |-> "tier1"]]
      PROVE  Worked(u)'
  <2>1. [window |-> w, stage |-> "tier1"] # Nothing
    BY NothingAssumption DEF SeqRec, Stages
  <2>2. Runs(i, w)' /\ \A j \in Slots : Runs(j, u) => Runs(j, u)'
    BY <1>3, <2>1 DEF FlagInv, TypeOK, Runs
  <2>3. Recovering(u) => Recovering(u)'
    BY <1>1, <2>2 DEF Recovering
  <2>4. QED
    BY <1>3, <2>3 DEF FlagInv, Worked, Known
<1>4. QED
  BY <1>2, <1>3 DEF Spawn

\* A sequence runs on for its window, and takes the flag back when it ends.
LEMMA SequenceWorked ==
    ASSUME FlagInv, NEW i \in Slots, Sequence(i)
    PROVE  \A u \in Windows : Worked(u)'
<1> SUFFICES ASSUME NEW u \in Windows PROVE Worked(u)'
  OBVIOUS
<1>1. queue' = queue /\ seq[i] # Nothing /\ seq[i] \in SeqRec
  BY DEF FlagInv, TypeOK, Sequence, Tier1, Tier2, Tier3, RetryReload, Looks, Ends
<1>2. CASE Ends(i)
  <2>1. PICK w \in Windows : w = seq[i].window
    BY <1>1 DEF SeqRec
  <2>2. CASE u = w
    <3>1. CASE entry[w] = Nothing
      BY <1>2, <2>1, <2>2, <3>1 DEF Ends, FlagInv, TypeOK, Worked, Known
    <3>2. CASE entry[w] # Nothing
      <4>1. entry[w] \in EntryRec
        BY <3>2 DEF FlagInv, TypeOK
      <4>2. entry'[w] = Succeeded(entry[w]) \/ entry'[w] = Exhausted(entry[w])
        BY <1>2, <2>1, <3>2 DEF Ends, FlagInv, TypeOK
      <4>3. ~entry'[w].recovering
        BY <4>1, <4>2 DEF Succeeded, Exhausted, EntryRec
      <4>4. QED
        BY <2>2, <4>3 DEF Worked
    <3>3. QED
      BY <3>1, <3>2
  <2>3. CASE u # w
    <3>1. \A j \in Slots : Runs(j, u) => Runs(j, u)'
      BY <1>2, <2>1, <2>3 DEF Ends, FlagInv, TypeOK, Runs
    <3>2. entry'[u] = entry[u] /\ (Recovering(u) => Recovering(u)')
      BY <1>1, <1>2, <2>1, <2>3, <3>1 DEF Ends, FlagInv, TypeOK, Recovering
    <3>3. QED
      BY <3>2 DEF FlagInv, Worked, Known
  <2>4. QED
    BY <2>2, <2>3
<1>3. CASE ~Ends(i)
  <2>1. entry' = entry /\ \E stage \in Stages : seq' = [seq EXCEPT ![i].stage = stage]
    BY <1>3 DEF Sequence, Tier1, Tier2, Tier3, RetryReload, Looks, ToStage, Stages
  <2>2. seq'[i] \in SeqRec /\ seq'[i].window = seq[i].window /\ \A j \in Slots : j # i => seq'[j] = seq[j]
    BY <1>1, <2>1 DEF FlagInv, TypeOK, SeqRec
  <2>3. \A j \in Slots : Runs(j, u) => Runs(j, u)'
    BY <2>2, NothingAssumption DEF Runs
  <2>4. Recovering(u) => Recovering(u)'
    BY <1>1, <2>3 DEF Recovering
  <2>5. QED
    BY <2>1, <2>4 DEF FlagInv, Worked, Known
<1>4. QED
  BY <1>2, <1>3

\* Closing a window removes its entry; nothing else that happens changes one.
LEMMA HappensWorked ==
    FlagInv /\ (Happens \/ \E w \in Windows : Loads(w)) => \A u \in Windows : Worked(u)'
<1> SUFFICES ASSUME FlagInv, Happens \/ \E w \in Windows : Loads(w), NEW u \in Windows
             PROVE  Worked(u)'
  OBVIOUS
<1>1. UNCHANGED <<queue, seq>>
  BY DEF Happens, Loads, Freezes, Thaws, Opens, CloseRequested, Destroyed, ViewChanges
<1>2. entry'[u] = entry[u] \/ entry'[u] = Nothing
  BY WindowsAssumption
  DEF Happens, Loads, Freezes, Thaws, Opens, CloseRequested, Destroyed, FlagInv, TypeOK
<1>3. Recovering(u)' <=> Recovering(u)
  BY <1>1 DEF Recovering, Runs
<1>4. QED
  BY <1>2, <1>3 DEF FlagInv, Worked, Known

\* A window is flagged as being recovered only while it is queued or a sequence works on it,
\* whatever happens, a window opened in haste included: no sequence leaves a flag behind that
\* keeps the poll from ever trying again (watchdog.rs:456-458).  This is what
\* SilenceIsHandled, which TLC checks, needs of the states.
THEOREM FlagIsTakenBack ==
    Spec => [](\A w \in Windows : Known(w) /\ entry[w].recovering => Recovering(w))
<1>1. Init => FlagInv
  BY InitTypeOK DEF FlagInv, Worked, Known, Init
<1>2. FlagInv /\ [Next]_vars => FlagInv'
  <2> SUFFICES ASSUME FlagInv, [Next]_vars PROVE FlagInv'
    OBVIOUS
  <2>1. TypeOK'
    BY NextTypeOK DEF FlagInv
  <2>2. CASE UNCHANGED vars
    <3>1. \A w \in Windows : Worked(w)' <=> Worked(w)
      BY <2>2 DEF vars, Worked, Known, Recovering, Runs
    <3>2. QED
      BY <2>1, <3>1 DEF FlagInv
  <2>3. CASE Next
    <3>1. \A u \in Windows : Worked(u)'
      BY <2>3, EntryWorked, PollWorked, SpawnWorked, SequenceWorked, HappensWorked
      DEF Next, Automatic
    <3>2. QED
      BY <2>1, <3>1 DEF FlagInv
  <2>4. QED
    BY <2>2, <2>3
<1>3. FlagInv => \A w \in Windows : Known(w) /\ entry[w].recovering => Recovering(w)
  BY DEF FlagInv, Worked
<1>4. QED
  BY <1>1, <1>2, <1>3, PTL DEF Spec

\* A window that is queued or has a sequence is flagged, unless it closes or is opened in haste:
\* the flag and the work come and go together, so that the poll never begins a second sequence
\* (watchdog.rs:504-509).
THEOREM WorkIsFlagged ==
    ASSUME "hasty" \notin Events
    PROVE  Spec => [](\A w \in Windows :
                        Known(w) /\ view[w] # "closing" /\ Recovering(w) => entry[w].recovering)
<1>1. IInv => \A w \in Windows :
                 Known(w) /\ view[w] # "closing" /\ Recovering(w) => entry[w].recovering
  BY DEF IInv, WindowInv
<1>2. QED
  BY <1>1, Inductive, PTL
=============================================================================
