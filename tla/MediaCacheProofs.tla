-------------------------- MODULE MediaCacheProofs --------------------------
(***************************************************************************)
(* Proofs about MediaCache for any number of callers, paths and versions   *)
(* and every choice of Faults.                                             *)
(***************************************************************************)
EXTENDS MediaCache, TLAPS

----------------------------------------------------------------------------
(* Types. *)

LEMMA FileType == \A p \in Paths, v \in Versions : File(p, v) \in Files /\ File(p, v) \in Temps
BY DEF File, Files, Temps

LEMMA TempType ==
    /\ \A f \in Files : f \in Temps /\ f.path \in Paths /\ f.size \in Versions
    /\ \A t \in Temps : t.path \in Paths /\ (t.size # Unsized => t \in Files)
    /\ \A p \in Paths : File(p, Unsized) \in Temps
BY DEF File, Files, Temps

LEMMA InitTypeOK == Init => TypeOK
BY FileType DEF Init, TypeOK, CallRec, Steps

\* A step of a call rewrites the record of its caller alone.
Updates(c) == \E r \in CallRec : call' = [call EXCEPT ![c] = r]

LEMMA Updated ==
    ASSUME TypeOK, NEW c \in Callers
    PROVE  /\ \A step \in Steps \cup {"asleep", "awake", "late", "notify"} :
                At(c, step) => Updates(c)
           /\ \A r \in Files \cup {Failed} : Return(c, r) \/ Gives(c, r) => Updates(c)
           /\ \A step \in Steps, t \in Temps :
                call' = [call EXCEPT ![c].at = step, ![c].tmp = t] => Updates(c)
           /\ \A step \in Steps, v \in Versions :
                call' = [call EXCEPT ![c].at = step, ![c].from = v] => Updates(c)
<1> USE DEF TypeOK, Updates, CallRec
<1>1. ASSUME NEW step \in Steps \cup {"asleep", "awake", "late", "notify"}, At(c, step)
      PROVE  Updates(c)
  BY <1>1 DEF At
<1>2. ASSUME NEW r \in Files \cup {Failed}, Return(c, r) PROVE Updates(c)
  BY <1>2 DEF Return
<1>3. ASSUME NEW r \in Files \cup {Failed}, Gives(c, r) PROVE Updates(c)
  BY ZenonT(40), <1>3 DEF Gives, Steps
<1>4. ASSUME NEW step \in Steps, NEW t \in Temps,
             call' = [call EXCEPT ![c].at = step, ![c].tmp = t]
      PROVE  Updates(c)
  BY <1>4
<1>5. ASSUME NEW step \in Steps, NEW v \in Versions,
             call' = [call EXCEPT ![c].at = step, ![c].from = v]
      PROVE  Updates(c)
  BY ZenonT(40), <1>5
<1>6. QED
  BY <1>1, <1>2, <1>3, <1>4, <1>5

\* Every step of a call keeps the types.
LEMMA CallTypeOK ==
    ASSUME TypeOK, NEW c \in Callers,
           Works(c) \/ TimesOut(c) \/ Calls(c)
    PROVE  TypeOK'
<1> USE FileType, TempType DEF TypeOK, worldVars
<1>1. CASE Calls(c)
  <2>1. ASSUME NEW p \in Paths, LookupWait(c, p) PROVE TypeOK'
    <3>1. Updates(c)
      BY ZenonT(40), <2>1 DEF Updates, LookupWait, CallRec
    <3>2. QED
      BY <2>1, <3>1 DEF Updates, LookupWait
  <2>2. ASSUME NEW p \in Paths, NEW r \in BOOLEAN, EnsureCached(c, p, r) PROVE TypeOK'
    <3>1. call[c] \in CallRec
      OBVIOUS
    <3>2. \A step \in {"stat", "awake"} :
            [call[c] EXCEPT !.path = p, !.remote = r, !.at = step] \in CallRec
      BY <3>1 DEF CallRec, Steps
    <3>3. resolved[p] \in Files =>
            [call[c] EXCEPT !.path = p, !.remote = r, !.result = resolved[p]] \in CallRec
      BY <3>1 DEF CallRec
    <3>4. Updates(c)
      BY <2>2, <3>1, <3>2, <3>3 DEF Updates, EnsureCached
    <3>5. QED
      BY <2>2, <3>4 DEF Updates, EnsureCached
  <2>3. QED
    BY <1>1, <2>1, <2>2 DEF Calls
<1>2. CASE TimesOut(c)
  <2>1. Updates(c)
    BY <1>2 DEF Updates, TimesOut, At, CallRec
  <2>2. QED
    BY <1>2, <2>1 DEF Updates, TimesOut
<1>3. CASE Look(c)
  <2>1. Updates(c)
    BY <1>3, Updated DEF Look, CallRec
  <2>2. QED
    BY <1>3, <2>1 DEF Updates, Look
<1>4. CASE Stat(c)
  <2>1. Updates(c)
    BY <1>4, Updated DEF Stat, CallRec, Steps
  <2>2. QED
    BY <1>4, <2>1 DEF Updates, Stat
<1>5. CASE CopyBegins(c)
  <2>1. Updates(c)
    BY ZenonT(40), <1>5 DEF Updates, CopyBegins, CallRec, Steps
  <2>2. QED
    BY <1>5, <2>1 DEF Updates, CopyBegins, CallRec
<1>6. CASE CopyEnds(c)
  <2>1. Updates(c)
    BY ZenonT(40), <1>6 DEF Updates, CopyEnds, At, CallRec, Steps
  <2>2. QED
    BY <1>6, <2>1 DEF Updates, CopyEnds, CallRec
<1>7. CASE CopyFails(c)
  <2>1. Updates(c)
    BY ZenonT(40), <1>7 DEF Updates, CopyFails, Gives, CallRec, Steps
  <2>2. QED
    BY <1>7, <2>1 DEF Updates, CopyFails, CallRec
<1>8. CASE FetchBegins(c)
  <2>1. Updates(c)
    BY <1>8, Updated DEF FetchBegins, CallRec, Steps
  <2>2. QED
    BY <1>8, <2>1 DEF Updates, FetchBegins, CallRec
<1>9. CASE FetchEnds(c)
  <2>1. Updates(c)
    BY <1>9, Updated DEF FetchEnds, CallRec, Steps
  <2>2. QED
    BY <1>9, <2>1 DEF Updates, FetchEnds, CallRec
<1>10. CASE Rename(c)
  <2>1. Updates(c)
    BY ZenonT(40), <1>10 DEF Updates, Rename, Gives, CallRec, Steps
  <2>2. QED
    BY <1>10, <2>1 DEF Updates, Rename, CallRec
<1>11. CASE Publish(c)
  <2>1. Updates(c)
    BY ZenonT(40), <1>11 DEF Updates, Publish, At, CallRec, Steps
  <2>2. QED
    BY <1>11, <2>1 DEF Updates, Publish, Entry, CallRec
<1>12. CASE Notify(c)
  <2>1. ASSUME NEW d \in Callers PROVE call'[d] \in CallRec
    BY ZenonT(40), <1>12 DEF Notify, CallRec
  <2>2. QED
    BY <1>12, <2>1 DEF Notify
<1>13. QED
  BY <1>1, <1>2, <1>3, <1>4, <1>5, <1>6, <1>7, <1>8, <1>9, <1>10, <1>11, <1>12 DEF Works

\* So does every change of the world.
LEMMA WorldTypeOK == TypeOK /\ World => TypeOK'
<1> SUFFICES ASSUME TypeOK, World PROVE TypeOK'
  OBVIOUS
<1> USE DEF TypeOK, worldVars
<1>1. CASE MountChanges
  BY <1>1 DEF MountChanges
<1>2. ASSUME NEW p \in Paths, NEW v \in Versions, Replace(p, v) PROVE TypeOK'
  BY <1>2 DEF Replace
<1>3. ASSUME NEW f \in Files, Delete(f) PROVE TypeOK'
  BY <1>3 DEF Delete
<1>4. CASE Crash
  <2>1. ASSUME NEW c \in Callers PROVE call'[c] \in CallRec
    BY <1>4 DEF Crash, CallRec
  <2>2. QED
    BY <1>4, <2>1 DEF Crash
<1>5. QED
  BY <1>1, <1>2, <1>3, <1>4 DEF World

LEMMA NextTypeOK == TypeOK /\ [Next]_vars => TypeOK'
<1>1. TypeOK /\ UNCHANGED vars => TypeOK'
  BY DEF TypeOK, vars
<1>2. QED
  BY <1>1, CallTypeOK, WorldTypeOK DEF Next, Runs

\* The state always has its type.
THEOREM TypeCorrect == Spec => []TypeOK
BY InitTypeOK, NextTypeOK, PTL DEF Spec

----------------------------------------------------------------------------
(* What a step does to the copies in progress. *)

\* Nothing: the same threads copy the same paths.
Steady ==
    /\ resolved' = resolved
    /\ \A d \in Callers, q \in Paths : Copies(d, q)' <=> Copies(d, q)

\* c starts to copy p, which no entry says is being copied.
Begins(c, p) ==
    /\ Misses(p)
    /\ resolved' = [resolved EXCEPT ![p] = InProgress]
    /\ \A q \in Paths : ~Copies(c, q)
    /\ \A d \in Callers, q \in Paths : Copies(d, q)' <=> Copies(d, q) \/ (d = c /\ q = p)
    /\ UNCHANGED disk

\* c's copy of p is over, and p's entry says something else.
Settles(c, p) ==
    /\ Copies(c, p)
    /\ \E e \in Files \cup {Unknown} : resolved' = [resolved EXCEPT ![p] = e]
    /\ \A d \in Callers, q \in Paths : Copies(d, q)' <=> Copies(d, q) /\ d # c
    /\ UNCHANGED disk

LEMMA CallClassified ==
    ASSUME TypeOK, NEW c \in Callers, Works(c) \/ TimesOut(c) \/ Calls(c)
    PROVE  Steady \/ \E p \in Paths : Begins(c, p) \/ Settles(c, p)
<1> USE DEF TypeOK, CallRec, Copies, Steps
<1>1. CASE Calls(c)
  <2>1. ASSUME NEW p \in Paths, LookupWait(c, p) PROVE Steady
    BY <2>1 DEF LookupWait, Steady
  <2>2. ASSUME NEW p \in Paths, NEW r \in BOOLEAN, EnsureCached(c, p, r)
        PROVE  Steady \/ Begins(c, p)
    <3>1. CASE UNCHANGED resolved
      <4>1. call'[c].at \notin Steps /\ \A d \in Callers : d # c => call'[d] = call[d]
        BY ZenonT(40), <2>2, <3>1 DEF EnsureCached, Misses
      <4>2. QED
        BY <2>2, <3>1, <4>1 DEF EnsureCached, Steady
    <3>2. CASE Misses(p) /\ resolved' = [resolved EXCEPT ![p] = InProgress]
      <4>1. call'[c].at = "stat" /\ call'[c].path = p
        BY <2>2, <3>2 DEF EnsureCached, Misses
      <4>2. \A d \in Callers : d # c => call'[d] = call[d]
        BY <2>2 DEF EnsureCached
      <4>3. QED
        BY <2>2, <3>2, <4>1, <4>2 DEF EnsureCached, Begins
    <3>3. QED
      BY <2>2, <3>1, <3>2 DEF EnsureCached
  <2>3. QED
    BY <1>1, <2>1, <2>2 DEF Calls
<1>2. CASE Publish(c)
  <2>1. PICK p \in Paths, e \in Files \cup {Unknown} :
           p = call[c].path /\ e = Entry(call[c].result)
    BY DEF Entry
  <2>2. Settles(c, p)
    BY <1>2, <2>1 DEF Publish, Settles, At
  <2>3. QED
    BY <2>2
<1>3. CASE Notify(c)
  <2>1. \A d \in Callers :
          /\ call'[d].path = call[d].path
          /\ call'[d].at = call[d].at \/ {call'[d].at, call[d].at} \cap Steps = {}
    BY <1>3 DEF Notify, Wakes
  <2>2. \A d \in Callers : call'[d].at \in Steps <=> call[d].at \in Steps
    BY <2>1
  <2>3. QED
    BY <1>3, <2>1, <2>2 DEF Notify, Steady
<1>4. CASE Look(c) \/ TimesOut(c)
  BY <1>4 DEF Look, Return, At, TimesOut, Steady
<1>5. CASE Stat(c)
  BY <1>5 DEF Stat, Gives, Steady
<1>6. CASE CopyBegins(c) \/ CopyEnds(c) \/ CopyFails(c)
  BY <1>6 DEF CopyBegins, CopyEnds, CopyFails, Gives, At, Steady
<1>7. CASE FetchBegins(c) \/ FetchEnds(c) \/ Rename(c)
  BY <1>7 DEF FetchBegins, FetchEnds, Rename, Gives, At, Steady
<1>8. QED
  BY <1>1, <1>2, <1>3, <1>4, <1>5, <1>6, <1>7 DEF Works

LEMMA WorldClassified == TypeOK /\ World => Steady \/ Crash
BY DEF World, MountChanges, Replace, Delete, Steady, Copies

----------------------------------------------------------------------------
(* One thread copies a path. *)

LEMMA InitOneCopier == Init => OneCopier
BY ValuesAssumption DEF Init, OneCopier, Copies, Steps

LEMMA NextOneCopier == TypeOK /\ OneCopier /\ [Next]_vars => OneCopier'
<1> SUFFICES ASSUME TypeOK, OneCopier, [Next]_vars PROVE OneCopier'
  OBVIOUS
<1>1. CASE Steady
  BY <1>1 DEF Steady, OneCopier
<1>2. ASSUME NEW c \in Callers, NEW p \in Paths, Begins(c, p) PROVE OneCopier'
  BY <1>2 DEF Begins, Misses, OneCopier, TypeOK
<1>3. ASSUME NEW c \in Callers, NEW p \in Paths, Settles(c, p) PROVE OneCopier'
  <2>1. \A q \in Paths : Copies(c, q) => q = p
    BY <1>3 DEF Settles, Copies
  <2>2. \A q \in Paths : resolved'[q] = InProgress <=> resolved[q] = InProgress /\ q # p
    BY <1>3, ValuesAssumption, EntriesAssumption DEF Settles, TypeOK
  <2>3. QED
    BY <1>3, <2>1, <2>2 DEF Settles, OneCopier
<1>4. CASE Crash
  <2>1. \A c \in Callers : call'[c].at = "idle"
    BY <1>4 DEF Crash, TypeOK, CallRec
  <2>2. \A p \in Paths : resolved'[p] # InProgress
    BY <1>4, ValuesAssumption DEF Crash
  <2>3. QED
    BY <2>1, <2>2 DEF OneCopier, Copies, Steps
<1>5. CASE UNCHANGED vars
  BY <1>5 DEF vars, OneCopier, Copies
<1>6. QED
  BY <1>1, <1>2, <1>3, <1>4, <1>5, CallClassified, WorldClassified DEF Next, Runs

\* A path is InProgress exactly while one thread works on it, at every number of
\* callers (media_cache.rs:118-145).
THEOREM OneCopierHolds == Spec => []OneCopier
<1>1. Init => TypeOK /\ OneCopier
  BY InitTypeOK, InitOneCopier
<1>2. TypeOK /\ OneCopier /\ [Next]_vars => (TypeOK /\ OneCopier)'
  BY NextTypeOK, NextOneCopier
<1>3. QED
  BY <1>1, <1>2, PTL DEF Spec

----------------------------------------------------------------------------
(* No wake-up is lost. *)

LEMMA NextNoLostWakeup == TypeOK /\ NoLostWakeup /\ [Next]_vars => NoLostWakeup'
<1> SUFFICES ASSUME TypeOK, NoLostWakeup, [Next]_vars PROVE NoLostWakeup'
  OBVIOUS
<1> USE DEF TypeOK, CallRec, NoLostWakeup
<1>1. ASSUME NEW c \in Callers, Calls(c) PROVE NoLostWakeup'
  <2>1. /\ call[c].at = "idle" /\ call'[c].at # "asleep"
        /\ \A d \in Callers : d # c => call'[d] = call[d]
    <3>1. ASSUME NEW p \in Paths, NEW r \in BOOLEAN, EnsureCached(c, p, r)
          PROVE  /\ call[c].at = "idle" /\ call'[c].at \in {"idle", "stat", "awake"}
                 /\ \A d \in Callers : d # c => call'[d] = call[d]
      <4>1. call[c].at = "idle" /\ \A d \in Callers : d # c => call'[d] = call[d]
        BY <3>1 DEF EnsureCached
      <4>2. PICK q \in CallRec : q = [call[c] EXCEPT !.path = p, !.remote = r]
        OBVIOUS
      <4>3. \/ call'[c] = [q EXCEPT !.result = resolved[p]]
            \/ call'[c] = [q EXCEPT !.at = "stat"]
            \/ call'[c] = [q EXCEPT !.at = "awake"]
        BY <3>1, <4>2 DEF EnsureCached
      <4>4. q.at = "idle"
        BY <4>1, <4>2
      <4>5. QED
        BY <4>1, <4>3, <4>4
    <3>2. ASSUME NEW p \in Paths, LookupWait(c, p)
          PROVE  /\ call[c].at = "idle" /\ call'[c].at = "awake"
                 /\ \A d \in Callers : d # c => call'[d] = call[d]
      BY <3>2 DEF LookupWait
    <3>3. QED
      BY <1>1, <3>1, <3>2 DEF Calls
  <2>2. \A p \in Paths : resolved[p] = InProgress => resolved'[p] = InProgress
    <3>1. ASSUME NEW p \in Paths, NEW r \in BOOLEAN, EnsureCached(c, p, r)
          PROVE  resolved' = resolved \/ resolved' = [resolved EXCEPT ![p] = InProgress]
      BY <3>1 DEF EnsureCached
    <3>2. ASSUME NEW p \in Paths, LookupWait(c, p) PROVE resolved' = resolved
      BY <3>2 DEF LookupWait
    <3>3. QED
      BY <1>1, <3>1, <3>2 DEF Calls
  <2>3. QED
    BY <2>1, <2>2
<1>2. ASSUME NEW c \in Callers, Look(c) \/ TimesOut(c) PROVE NoLostWakeup'
  <2>1. /\ call[c].at # "notify" /\ resolved' = resolved
        /\ \A d \in Callers : d # c => call'[d] = call[d]
    BY <1>2 DEF Look, Return, At, TimesOut
  <2>2. call'[c].at = "asleep" =>
           call'[c].path = call[c].path /\ resolved[call[c].path] = InProgress
    BY <1>2 DEF Look, Return, At, TimesOut
  <2>3. QED
    BY <2>1, <2>2
<1>3. ASSUME NEW c \in Callers, Publish(c) PROVE NoLostWakeup'
  BY <1>3 DEF Publish, At
<1>4. ASSUME NEW c \in Callers, Notify(c) PROVE NoLostWakeup'
  BY <1>4 DEF Notify, Wakes
<1>5. ASSUME NEW c \in Callers,
             \/ Stat(c) \/ CopyBegins(c) \/ CopyEnds(c) \/ CopyFails(c)
             \/ FetchBegins(c) \/ FetchEnds(c) \/ Rename(c)
      PROVE  NoLostWakeup'
  <2>1. \A d \in Callers : d # c => call'[d] = call[d]
    BY <1>5 DEF Stat, CopyBegins, CopyEnds, CopyFails, FetchBegins, FetchEnds, Rename,
                Gives, At
  <2>2. call[c].at # "notify" /\ call'[c].at # "asleep" /\ resolved' = resolved
    BY <1>5 DEF Stat, CopyBegins, CopyEnds, CopyFails, FetchBegins, FetchEnds, Rename,
                Gives, At
  <2>3. QED
    BY <2>1, <2>2
<1>6. CASE World
  BY <1>6 DEF World, MountChanges, Replace, Delete, Crash
<1>7. CASE UNCHANGED vars
  BY <1>7 DEF vars
<1>8. QED
  BY <1>1, <1>2, <1>3, <1>4, <1>5, <1>6, <1>7 DEF Next, Runs, Works

\* A thread that sleeps in lookup_wait sleeps on a copy that is being made or is
\* about to be woken (media_cache.rs:84-101 and 280-282).
THEOREM NoLostWakeupHolds == Spec => []NoLostWakeup
<1>1. Init => TypeOK /\ NoLostWakeup
  <2>1. Init => \A c \in Callers : call[c].at = "idle"
    BY DEF Init
  <2>2. QED
    BY <2>1, InitTypeOK DEF NoLostWakeup
<1>2. TypeOK /\ NoLostWakeup /\ [Next]_vars => (TypeOK /\ NoLostWakeup)'
  BY NextTypeOK, NextNoLostWakeup
<1>3. QED
  BY <1>1, <1>2, PTL DEF Spec

----------------------------------------------------------------------------
(* Files appear whole. *)

\* The steps at which a call has a temporary file of its own.
Busy == {"copy", "copying", "fetch", "fetching", "rename"}

\* None of the files that t may be renamed to is there yet.
Fresh(t) == \A f \in Files : f.path = t.path /\ (t.size = Unsized \/ f = t) => disk[f] = Absent

\* What a call at work knows about its temporary file: it is for the call's
\* path, what it will be renamed to is not there, and it is whole before it is
\* renamed.
WorkInv ==
    \A c \in Callers : call[c].at \in Busy =>
       /\ call[c].tmp.path = call[c].path
       /\ Fresh(call[c].tmp)
       /\ call[c].at = "rename" => temp[call[c].tmp] \in Versions

IInv == TypeOK /\ OneCopier /\ WorkInv /\ FilesAreWhole

\* Two calls at work have different paths, and so different files.
LEMMA Apart ==
    ASSUME IInv, NEW c \in Callers, NEW d \in Callers, c # d,
           call[c].at \in Busy, call[d].at \in Busy
    PROVE  call[c].tmp.path # call[d].tmp.path /\ call[c].tmp # call[d].tmp
BY DEF IInv, TypeOK, CallRec, OneCopier, WorkInv, Copies, Busy, Steps

\* The temporary files change only by the call whose file it is.
LEMMA OwnFileOnly ==
    ASSUME IInv, NEW c \in Callers, call[c].at \in Busy,
           \A d \in Callers : d # c => call'[d] = call[d],
           \A t \in Temps : t # call[c].tmp => temp'[t] = temp[t],
           disk' = disk,
           call'[c].at \in Busy =>
              /\ call'[c].tmp = call[c].tmp /\ call'[c].path = call[c].path
              /\ call'[c].at = "rename" => temp'[call[c].tmp] \in Versions
    PROVE  WorkInv'
<1> SUFFICES ASSUME NEW d \in Callers, call'[d].at \in Busy
             PROVE  /\ call'[d].tmp.path = call'[d].path
                    /\ Fresh(call[d].tmp)' /\ call'[d].tmp = call[d].tmp
                    /\ call'[d].at = "rename" => temp'[call'[d].tmp] \in Versions
  BY DEF WorkInv, Fresh
<1>1. call[d].at \in Busy /\ call'[d].tmp = call[d].tmp /\ call'[d].path = call[d].path
  OBVIOUS
<1>2. Fresh(call[d].tmp)'
  BY <1>1 DEF IInv, WorkInv, Fresh
<1>3. ASSUME d # c PROVE temp'[call[d].tmp] = temp[call[d].tmp]
  BY <1>1, <1>3, Apart DEF IInv, TypeOK, CallRec
<1>4. QED
  BY <1>1, <1>2, <1>3 DEF IInv, WorkInv

LEMMA CallWorkInv ==
    ASSUME IInv, NEW c \in Callers, Works(c) \/ TimesOut(c) \/ Calls(c)
    PROVE  WorkInv' /\ FilesAreWhole'
<1> USE DEF IInv, TypeOK, CallRec
<1>1. ASSUME disk' = disk, temp' = temp,
             \A d \in Callers : call'[d].at \in Busy =>
                call'[d].at = call[d].at /\ call'[d].tmp = call[d].tmp
                  /\ call'[d].path = call[d].path
      PROVE  WorkInv' /\ FilesAreWhole'
  BY <1>1 DEF WorkInv, FilesAreWhole, Fresh
<1>2. CASE Calls(c)
  <2>1. ASSUME NEW p \in Paths, NEW r \in BOOLEAN, EnsureCached(c, p, r)
        PROVE  WorkInv' /\ FilesAreWhole'
    <3>1. PICK q \in CallRec : q = [call[c] EXCEPT !.path = p, !.remote = r]
      OBVIOUS
    <3>2. \/ call'[c] = [q EXCEPT !.result = resolved[p]]
          \/ call'[c] = [q EXCEPT !.at = "stat"]
          \/ call'[c] = [q EXCEPT !.at = "awake"]
      BY <2>1, <3>1 DEF EnsureCached
    <3>3. q.at = "idle"
      BY <2>1, <3>1 DEF EnsureCached
    <3>4. call'[c].at \notin Busy
      BY <3>1, <3>2, <3>3 DEF Busy
    <3>5. \A d \in Callers : d # c => call'[d] = call[d]
      BY <2>1 DEF EnsureCached
    <3>6. QED
      BY <1>1, <2>1, <3>4, <3>5 DEF EnsureCached
  <2>2. ASSUME NEW p \in Paths, LookupWait(c, p) PROVE WorkInv' /\ FilesAreWhole'
    BY <1>1, <2>2 DEF LookupWait, Busy
  <2>3. QED
    BY <1>2, <2>1, <2>2 DEF Calls
<1>3. CASE Look(c) \/ TimesOut(c) \/ Publish(c)
  <2>1. call'[c].at \notin Busy /\ \A d \in Callers : d # c => call'[d] = call[d]
    BY <1>3 DEF Look, TimesOut, Publish, Return, At, Busy
  <2>2. QED
    BY <1>1, <1>3, <2>1 DEF Look, TimesOut, Publish
<1>4. CASE Notify(c)
  <2>1. \A d \in Callers : call'[d].at \in Busy => call'[d] = call[d]
    BY <1>4 DEF Notify, Wakes, Busy
  <2>2. QED
    BY <1>1, <1>4, <2>1 DEF Notify
<1>5. CASE Stat(c)
  <2>1. \A d \in Callers : d # c => call'[d] = call[d]
    BY <1>5 DEF Stat, Gives
  <2>2. disk' = disk /\ temp' = temp
    BY <1>5 DEF Stat
  <2>3. CASE call' = [call EXCEPT ![c].at = "copy", ![c].tmp = File(call[c].path, source[call[c].path])]
             /\ ~IsFile(File(call[c].path, source[call[c].path]))
    <3>1. PICK f \in Files : f = File(call[c].path, source[call[c].path])
      BY FileType
    <3>2. f.path = call[c].path /\ f.size \in Versions /\ disk[f] = Absent
      BY <2>3, <3>1 DEF File, IsFile
    <3>3. call'[c].tmp = f /\ call'[c].path = call[c].path /\ call'[c].at = "copy"
      BY <2>3, <3>1
    <3>4. \A g \in Files : g.path = f.path /\ (f.size = Unsized \/ g = f) => disk'[g] = Absent
      BY <2>2, <3>2, ValuesAssumption
    <3>5. ASSUME NEW d \in Callers, d # c, call'[d].at \in Busy
          PROVE  /\ call'[d].tmp.path = call'[d].path
                 /\ Fresh(call[d].tmp)'
                 /\ call'[d].at = "rename" => temp'[call'[d].tmp] \in Versions
      BY <2>1, <2>2, <3>5 DEF WorkInv, Fresh
    <3>6. WorkInv'
      BY <3>2, <3>3, <3>4, <3>5 DEF WorkInv, Fresh
    <3>7. QED
      BY <2>2, <3>6 DEF FilesAreWhole
  <2>4. CASE call' = [call EXCEPT ![c].at = "fetch", ![c].tmp = File(call[c].path, Unsized)]
             /\ {g \in Files : g.path = call[c].path /\ IsFile(g)} = {}
    <3>1. PICK t \in Temps : t = File(call[c].path, Unsized)
      BY TempType
    <3>2. t.path = call[c].path /\ \A f \in Files : f.path = t.path => disk[f] = Absent
      BY <2>4, <3>1 DEF File, IsFile
    <3>3. call'[c].tmp = t /\ call'[c].path = call[c].path /\ call'[c].at = "fetch"
      BY <2>4, <3>1
    <3>4. QED
      BY <2>1, <2>2, <3>2, <3>3 DEF WorkInv, FilesAreWhole, Fresh
  <2>5. CASE \E r \in Files \cup {Failed} : Gives(c, r)
    <3>1. call'[c].at = "publish"
      BY <2>5 DEF Gives
    <3>2. QED
      BY <1>1, <2>1, <2>2, <3>1 DEF Busy
  <2>6. QED
    BY <1>5, <2>3, <2>4, <2>5, FileType DEF Stat
<1>6. CASE \/ CopyBegins(c) \/ CopyEnds(c) \/ CopyFails(c) \/ FetchBegins(c) \/ FetchEnds(c)
  <2>1. call[c].at \in Busy /\ disk' = disk
    BY <1>6 DEF CopyBegins, CopyEnds, CopyFails, FetchBegins, FetchEnds, Busy
  <2>2. \A d \in Callers : d # c => call'[d] = call[d]
    BY <1>6 DEF CopyBegins, CopyEnds, CopyFails, FetchBegins, FetchEnds, Gives, At
  <2>3. \A t \in Temps : t # call[c].tmp => temp'[t] = temp[t]
    BY <1>6 DEF CopyBegins, CopyEnds, CopyFails, FetchBegins, FetchEnds
  <2>4. call'[c].tmp = call[c].tmp /\ call'[c].path = call[c].path
    BY <1>6 DEF CopyBegins, CopyEnds, CopyFails, FetchBegins, FetchEnds, Gives, At
  <2>5. call'[c].at = "rename" => temp'[call[c].tmp] \in Versions
    BY <1>6 DEF CopyBegins, CopyEnds, CopyFails, FetchBegins, FetchEnds, Gives, At
  <2>6. WorkInv'
    BY <2>1, <2>2, <2>3, <2>4, <2>5, OwnFileOnly
  <2>7. QED
    BY <2>1, <2>6 DEF FilesAreWhole
<1>7. CASE Rename(c)
  <2>1. PICK f \in Files :
           /\ disk' = [disk EXCEPT ![f] = temp[call[c].tmp]]
           /\ f.path = call[c].tmp.path
    <3>1. PICK f \in Files :
             f = IF call[c].tmp.size = Unsized THEN File(call[c].tmp.path, call[c].from)
                 ELSE call[c].tmp
      BY FileType, TempType
    <3>2. f.path = call[c].tmp.path
      BY <3>1 DEF File
    <3>3. QED
      BY <1>7, <3>1, <3>2 DEF Rename
  <2>2. call[c].at \in Busy /\ call'[c].at = "publish"
    BY <1>7 DEF Rename, Gives, Busy
  <2>3. \A d \in Callers : d # c => call'[d] = call[d]
    BY <1>7 DEF Rename, Gives
  <2>4. ASSUME NEW d \in Callers, d # c, call[d].at \in Busy
        PROVE  /\ temp'[call[d].tmp] = temp[call[d].tmp]
               /\ \A g \in Files : g.path = call[d].tmp.path => disk'[g] = disk[g]
    BY <1>7, <2>1, <2>2, <2>4, Apart DEF Rename
  <2>5. WorkInv'
    <3>1. call'[c].at \notin Busy
      BY <2>2 DEF Busy
    <3>2. ASSUME NEW d \in Callers, call'[d].at \in Busy
          PROVE  d # c /\ call'[d] = call[d] /\ call[d].at \in Busy
      BY <2>3, <3>1, <3>2
    <3>3. ASSUME NEW d \in Callers, call'[d].at \in Busy
          PROVE  Fresh(call[d].tmp)'
      BY <2>4, <3>2, <3>3 DEF WorkInv, Fresh
    <3>4. QED
      BY <2>4, <3>2, <3>3 DEF WorkInv, Fresh
  <2>6. FilesAreWhole'
    BY <1>7, <2>1, <2>2, ValuesAssumption DEF FilesAreWhole, WorkInv, Rename
  <2>7. QED
    BY <2>5, <2>6
<1>8. QED
  BY <1>2, <1>3, <1>4, <1>5, <1>6, <1>7 DEF Works

LEMMA WorldWorkInv == IInv /\ World => WorkInv' /\ FilesAreWhole'
<1> SUFFICES ASSUME IInv, World PROVE WorkInv' /\ FilesAreWhole'
  OBVIOUS
<1> USE DEF IInv, TypeOK, CallRec
<1>1. CASE MountChanges \/ \E p \in Paths, v \in Versions : Replace(p, v)
  BY <1>1 DEF MountChanges, Replace, WorkInv, FilesAreWhole, Fresh
<1>2. ASSUME NEW f \in Files, Delete(f) PROVE WorkInv' /\ FilesAreWhole'
  <2>1. \A g \in Files : disk'[g] = disk[g] \/ disk'[g] = Absent
    BY <1>2 DEF Delete
  <2>2. QED
    BY <1>2, <2>1, ValuesAssumption DEF Delete, WorkInv, FilesAreWhole, Fresh, worldVars
<1>3. CASE Crash
  <2>1. \A c \in Callers : call'[c].at = "idle"
    BY <1>3 DEF Crash
  <2>2. QED
    BY <1>3, <2>1 DEF Crash, WorkInv, FilesAreWhole, Busy
<1>4. QED
  BY <1>1, <1>2, <1>3 DEF World

LEMMA InitIInv == Init => IInv
<1> SUFFICES ASSUME Init PROVE IInv
  OBVIOUS
<1>1. \A c \in Callers : call[c].at = "idle"
  BY DEF Init
<1>2. QED
  BY <1>1, InitTypeOK, InitOneCopier, ValuesAssumption
  DEF Init, IInv, WorkInv, FilesAreWhole, Busy

LEMMA NextIInv == IInv /\ [Next]_vars => IInv'
<1> SUFFICES ASSUME IInv, [Next]_vars PROVE IInv'
  OBVIOUS
<1>1. TypeOK' /\ OneCopier'
  BY NextTypeOK, NextOneCopier DEF IInv
<1>2. CASE UNCHANGED vars
  BY <1>1, <1>2 DEF vars, IInv, WorkInv, FilesAreWhole, Fresh
<1>3. QED
  BY <1>1, <1>2, CallWorkInv, WorldWorkInv DEF Next, Runs, IInv

LEMMA Inductive == Spec => []IInv
BY InitIInv, NextIInv, PTL DEF Spec

\* Nothing unfinished is ever found under a final name, whatever fails and
\* whenever the program dies (media_cache.rs:158-173 and 258-265).
THEOREM FilesAreWholeHolds == Spec => []FilesAreWhole
BY Inductive, PTL DEF IInv

----------------------------------------------------------------------------
(* The cache implements SharedCopy. *)

Making == {m \in Callers \X Paths : Copies(m[1], m[2])}
Stored == {m \in Paths \X (Versions \cup {Partial}) :
             \E v \in Versions : disk[File(m[1], v)] = m[2]}

LEMMA InMaking == \A c \in Callers, p \in Paths : <<c, p>> \in Making <=> Copies(c, p)
BY DEF Making

LEMMA SteadyMaking == Steady => Making' = Making
BY DEF Steady, Making

LEMMA SameDisk == disk' = disk => Stored' = Stored
BY DEF Stored

\* Only a rename and someone's clearing of the directory change the files.
LEMMA DiskChanges ==
    ASSUME [Next]_vars
    PROVE  disk' = disk \/ (\E c \in Callers : Rename(c)) \/ \E f \in Files : Delete(f)
<1>1. ASSUME NEW c \in Callers, Works(c) PROVE disk' = disk \/ Rename(c)
  BY <1>1 DEF Works, Look, Stat, CopyBegins, CopyEnds, CopyFails, FetchBegins, FetchEnds,
              Publish, Notify
<1>2. ASSUME NEW c \in Callers, TimesOut(c) \/ Calls(c) PROVE disk' = disk
  BY <1>2 DEF TimesOut, Calls, LookupWait, EnsureCached
<1>3. ASSUME World PROVE disk' = disk \/ \E f \in Files : Delete(f)
  BY <1>3 DEF World, MountChanges, Replace, Crash
<1>4. QED
  BY <1>1, <1>2, <1>3 DEF Next, Runs, vars

LEMMA BeginImplements ==
    ASSUME IInv, NEW c \in Callers, NEW p \in Paths, Begins(c, p)
    PROVE  Shared!Begin(c, p)
<1>1. \A m \in Making : m[2] # p
  BY DEF IInv, Begins, Misses, OneCopier, Making
<1>2. Making' = Making \cup {<<c, p>>}
  BY DEF Begins, Making
<1>3. Stored' = Stored
  BY SameDisk DEF Begins
<1>4. QED
  BY <1>1, <1>2, <1>3 DEF Shared!Begin, Making, Stored

LEMMA EndImplements ==
    ASSUME IInv, NEW c \in Callers, NEW p \in Paths, Settles(c, p)
    PROVE  Shared!End(c, p)
<1>1. <<c, p>> \in Making
  BY DEF Settles, Making
<1>2. \A q \in Paths : Copies(c, q) => q = p
  BY DEF Settles, Copies
<1>3. Making' = Making \ {<<c, p>>}
  BY <1>2 DEF Settles, Making
<1>4. Stored' = Stored
  BY SameDisk DEF Settles
<1>5. QED
  BY <1>1, <1>3, <1>4 DEF Shared!End, Making, Stored

LEMMA StoreImplements ==
    ASSUME IInv, NEW c \in Callers, Rename(c)
    PROVE  \E p \in Paths, v \in Versions : Shared!Store(c, p, v)
<1> USE DEF IInv, TypeOK, CallRec
<1>1. PICK p \in Paths, v \in Versions : p = call[c].path /\ v = temp[call[c].tmp]
  BY DEF WorkInv, Rename, Busy
<1>2. Copies(c, p) /\ Copies(c, p)'
  BY <1>1 DEF Copies, Rename, Gives, Steps
<1>3. \A d \in Callers, q \in Paths : Copies(d, q)' <=> Copies(d, q)
  BY <1>1, <1>2 DEF Copies, Rename, Gives, Steps
<1>4. Making' = Making /\ <<c, p>> \in Making
  BY <1>2, <1>3 DEF Making
<1>5. PICK f \in Files :
         f = IF call[c].tmp.size = Unsized THEN File(call[c].tmp.path, call[c].from)
             ELSE call[c].tmp
  BY FileType, TempType
<1>6. PICK w \in Versions : f = File(p, w) /\ disk[f] = Absent
  <2>1. f.path = p /\ disk[f] = Absent
    BY <1>1, <1>5 DEF File, WorkInv, Fresh, Rename, Busy
  <2>2. f = File(f.path, f.size) /\ f.size \in Versions
    BY DEF File, Files
  <2>3. QED
    BY <2>1, <2>2
<1>7. disk' = [disk EXCEPT ![f] = v]
  BY <1>1, <1>5 DEF Rename
<1>8. Stored' = Stored \cup {<<p, v>>}
  <2>1. ASSUME NEW q \in Paths, NEW x \in Versions \cup {Partial}
        PROVE  (\E u \in Versions : disk'[File(q, u)] = x)
                 <=> (\E u \in Versions : disk[File(q, u)] = x) \/ (q = p /\ x = v)
    <3>1. \A u \in Versions : File(q, u) \in Files /\ (File(q, u) = f <=> q = p /\ u = w)
      BY <1>6, FileType DEF File
    <3>2. QED
      BY <1>6, <1>7, <3>1, ValuesAssumption
  <2>2. \A q \in Paths, x \in Versions \cup {Partial} :
           <<q, x>> \in Stored' <=> <<q, x>> \in Stored \cup {<<p, v>>}
    BY <2>1 DEF Stored
  <2>3. /\ Stored' \subseteq Paths \X (Versions \cup {Partial})
        /\ Stored \cup {<<p, v>>} \subseteq Paths \X (Versions \cup {Partial})
    BY DEF Stored
  <2>4. QED
    BY <2>2, <2>3
<1>9. QED
  BY <1>4, <1>8 DEF Shared!Store, Making, Stored

LEMMA LoseImplements ==
    ASSUME IInv, NEW f \in Files, Delete(f)
    PROVE  Shared!Lose
<1>1. Making' = Making
  BY DEF Delete, Making, Copies
<1>2. \A g \in Files : disk'[g] = disk[g] \/ disk'[g] = Absent
  BY DEF Delete, IInv, TypeOK
<1>3. Stored' \subseteq Stored
  BY <1>2, FileType, ValuesAssumption DEF Stored
<1>4. QED
  BY <1>1, <1>3 DEF Shared!Lose, Making, Stored

LEMMA NextImplements == IInv /\ [Next]_vars => [Shared!Next]_(Shared!vars)
<1> SUFFICES ASSUME IInv, [Next]_vars PROVE [Shared!Next]_(Shared!vars)
  OBVIOUS
<1>1. CASE Steady
  <2>1. Making' = Making
    BY <1>1, SteadyMaking
  <2>2. CASE disk' = disk
    BY <2>1, <2>2, SameDisk DEF Shared!vars, Making, Stored
  <2>3. QED
    BY <2>2, DiskChanges, StoreImplements, LoseImplements DEF Shared!Next
<1>2. ASSUME NEW c \in Callers, NEW p \in Paths, Begins(c, p) \/ Settles(c, p)
      PROVE  Shared!Next
  BY <1>2, BeginImplements, EndImplements DEF Shared!Next
<1>3. CASE Crash
  <2>1. \A c \in Callers : call'[c].at = "idle"
    BY <1>3 DEF Crash, IInv, TypeOK, CallRec
  <2>2. \A c \in Callers, p \in Paths : ~Copies(c, p)'
    BY <2>1 DEF Copies, Steps
  <2>3. Making' = {}
    BY <2>2 DEF Making
  <2>4. Stored' = Stored
    BY <1>3, SameDisk DEF Crash
  <2>5. QED
    BY <2>3, <2>4 DEF Shared!Next, Shared!Crash, Making, Stored
<1>4. CASE UNCHANGED vars
  BY <1>4 DEF vars, Shared!vars, Copies
<1>5. QED
  BY <1>1, <1>2, <1>3, <1>4, CallClassified, WorldClassified DEF IInv, Next, Runs

LEMMA InitImplements == Init => Shared!Init
<1> SUFFICES ASSUME Init PROVE Shared!Init
  OBVIOUS
<1>1. Making = {}
  BY DEF Init, Making, Copies, Steps
<1>2. Stored = {}
  BY FileType, ValuesAssumption DEF Init, Stored
<1>3. QED
  BY <1>1, <1>2 DEF Shared!Init, Making, Stored

\* The cache implements SharedCopy for any number of callers and paths: one
\* caller at a time copies a path, and files appear whole and only by it.
THEOREM Implements == Spec => SharesCopies
BY InitImplements, NextImplements, Inductive, PTL DEF Spec, SharesCopies, Shared!Spec
=============================================================================
