----------------------------- MODULE MediaCache -----------------------------
(***************************************************************************)
(* The local copies of media files (src-tauri/src/media_cache.rs): callers *)
(* on many threads ask for one path at once, one of them copies it from    *)
(* the share or fetches it from Digger, the others wait on a condition     *)
(* variable.  The map of what is resolved dies with the process, the cache *)
(* directory does not.                                                     *)
(*                                                                         *)
(* A version stands for the contents of a source file and for their size:  *)
(* two contents of one size are one to the cache, whose key is the size.   *)
(***************************************************************************)
EXTENDS FiniteSets

CONSTANTS Callers,     \* threads that call ensure_cached or lookup_wait
          Paths,       \* original paths
          Versions,    \* contents a source may have
          Faults,      \* of "unmount", "replace", "full", "fetch", "delete", "crash"
          Unknown,     \* no entry in `resolved`
          InProgress,  \* CacheEntry::InProgress
          Failed,      \* Err, or None from lookup_wait
          Absent,      \* no such file
          Partial,     \* a file that is being written, or was left like that
          Unsized      \* the name of a download has no size in it

ASSUME ValuesAssumption ==
    /\ Absent # Partial /\ Absent \notin Versions /\ Partial \notin Versions
    /\ Unsized \notin Versions
    /\ Unknown # InProgress

Files == [path : Paths, size : Versions]
Temps == [path : Paths, size : Versions \cup {Unsized}]

ASSUME EntriesAssumption ==
    Unknown \notin Files /\ InProgress \notin Files /\ Failed \notin Files

VARIABLES
    resolved,  \* MediaCache.resolved; Ready(p) is the file p
    disk,      \* the files of the cache directory under their final names
    temp,      \* the .part and .download files
    source,    \* what the share holds
    mounted,   \* whether the share is there
    call       \* what each thread is doing

vars == <<resolved, disk, temp, source, mounted, call>>
worldVars == <<source, mounted>>

Steps == {"stat", "copy", "copying", "fetch", "fetching", "rename", "publish"}

CallRec == [at : Steps \cup {"idle", "notify", "asleep", "awake", "late"},
            path : Paths, remote : BOOLEAN, tmp : Temps, from : Versions,
            result : Files \cup {Failed}]

TypeOK ==
    /\ resolved \in [Paths -> Files \cup {Unknown, InProgress}]
    /\ disk \in [Files -> Versions \cup {Absent, Partial}]
    /\ temp \in [Temps -> Versions \cup {Absent, Partial}]
    /\ source \in [Paths -> Versions]
    /\ mounted \in BOOLEAN
    /\ call \in [Callers -> CallRec]

File(p, v) == [path |-> p, size |-> v]
IsFile(f) == disk[f] # Absent

\* c makes the copy of p: it has set InProgress and not yet taken it back.
Copies(c, p) == call[c].at \in Steps /\ call[c].path = p

At(c, step) == call' = [call EXCEPT ![c].at = step]

Return(c, r) == call' = [call EXCEPT ![c].at = "idle", ![c].result = r]

\* The work is over with this outcome; it is yet to be published.
Gives(c, r) == call' = [call EXCEPT ![c].at = "publish", ![c].result = r]

----------------------------------------------------------------------------
(* ensure_cached and lookup_wait, up to the work. *)

\* Fault: does not look for a copy in progress.
MissesAnyway(p) == resolved[p] \in Files => ~IsFile(resolved[p])

\* No entry, or one whose file is gone: the caller makes the copy.
Misses(p) ==
    /\ resolved[p] # InProgress
    /\ resolved[p] \in Files => ~IsFile(resolved[p])

\* ensure_cached, under the lock.  A path that another thread is copying is left
\* to lookup_wait, which takes the lock anew.
EnsureCached(c, p, remote) ==
    LET begun == [call[c] EXCEPT !.path = p, !.remote = remote] IN
    /\ call[c].at = "idle"
    /\ \/ /\ resolved[p] \in Files /\ IsFile(resolved[p])
          /\ call' = [call EXCEPT ![c] = [begun EXCEPT !.result = resolved[p]]]
          /\ UNCHANGED resolved
       \/ /\ Misses(p)
          /\ resolved' = [resolved EXCEPT ![p] = InProgress]
          /\ call' = [call EXCEPT ![c] = [begun EXCEPT !.at = "stat"]]
       \/ /\ resolved[p] = InProgress
          /\ call' = [call EXCEPT ![c] = [begun EXCEPT !.at = "awake"]]
          /\ UNCHANGED resolved
    /\ UNCHANGED <<disk, temp, worldVars>>

LookupWait(c, p) ==
    /\ call[c].at = "idle"
    /\ call' = [call EXCEPT ![c].at = "awake", ![c].path = p]
    /\ UNCHANGED <<resolved, disk, temp, worldVars>>

\* One round of the loop in lookup_wait, under the lock.
Look(c) ==
    LET e == resolved[call[c].path] IN
    /\ call[c].at \in {"awake", "late"}
    /\ \/ e \in Files /\ Return(c, IF IsFile(e) THEN e ELSE Failed)
       \/ e = Unknown /\ Return(c, Failed)
       \/ e = InProgress /\ call[c].at = "late" /\ Return(c, Failed)
       \/ e = InProgress /\ call[c].at = "awake" /\ At(c, "asleep")
    /\ UNCHANGED <<resolved, disk, temp, worldVars>>

\* Fault: the deadline starts anew at every look.
DeadlineRestarts(c) ==
    /\ call[c].at = "asleep"
    /\ At(c, "awake")
    /\ UNCHANGED <<resolved, disk, temp, worldVars>>

\* The deadline, one for the whole wait, passes; the thread must still take the
\* lock to look.
TimesOut(c) ==
    /\ call[c].at \in {"asleep", "awake"}
    /\ At(c, "late")
    /\ UNCHANGED <<resolved, disk, temp, worldVars>>

----------------------------------------------------------------------------
(* The work, outside the lock. *)

\* stat the original; without it, reuse any file under the path's hash, whatever
\* its size, or fetch from Digger if the caller has a URL.
Stat(c) ==
    LET p == call[c].path
        f == File(p, source[p])
        existing == {g \in Files : g.path = p /\ IsFile(g)} IN
    /\ call[c].at = "stat"
    /\ \/ mounted /\ IsFile(f) /\ Gives(c, f)
       \/ /\ mounted /\ ~IsFile(f)
          /\ call' = [call EXCEPT ![c].at = "copy", ![c].tmp = f]
       \/ ~mounted /\ ~call[c].remote /\ Gives(c, Failed)
       \/ ~mounted /\ call[c].remote /\ \E g \in existing : Gives(c, g)
       \/ /\ ~mounted /\ call[c].remote /\ existing = {}
          /\ call' = [call EXCEPT ![c].at = "fetch", ![c].tmp = File(p, Unsized)]
    /\ UNCHANGED <<resolved, disk, temp, worldVars>>

\* Fault: writes under the final name.
CopyInPlace(c) ==
    /\ call[c].at = "copy" /\ mounted
    /\ disk' = [disk EXCEPT ![call[c].tmp] = Partial]
    /\ call' = [call EXCEPT ![c].at = "copying", ![c].from = source[call[c].path]]
    /\ UNCHANGED <<resolved, temp, worldVars>>

\* fs::copy opens the source, which need not be the file that was looked at.
CopyBegins(c) ==
    LET p == call[c].path IN
    /\ call[c].at = "copy" /\ mounted
    /\ temp' = [temp EXCEPT ![call[c].tmp] = Partial]
    /\ call' = [call EXCEPT ![c].at = "copying", ![c].from = source[p]]
    /\ UNCHANGED <<resolved, disk, worldVars>>

CopyEnds(c) ==
    /\ call[c].at = "copying" /\ mounted
    /\ temp' = [temp EXCEPT ![call[c].tmp] = call[c].from]
    /\ At(c, "rename")
    /\ UNCHANGED <<resolved, disk, worldVars>>

\* The share is gone or the disk is full: the .part file is removed.
CopyFails(c) ==
    /\ call[c].at \in {"copy", "copying"}
    /\ ~mounted \/ "full" \in Faults
    /\ temp' = [temp EXCEPT ![call[c].tmp] = Absent]
    /\ Gives(c, Failed)
    /\ UNCHANGED <<resolved, disk, worldVars>>

\* Digger streams the file it has, with its length declared.
FetchBegins(c) ==
    /\ call[c].at = "fetch"
    /\ \/ /\ temp' = [temp EXCEPT ![call[c].tmp] = Partial]
          /\ call' = [call EXCEPT ![c].at = "fetching", ![c].from = source[call[c].path]]
       \/ /\ "fetch" \in Faults
          /\ Gives(c, Failed)
          /\ UNCHANGED temp
    /\ UNCHANGED <<resolved, disk, worldVars>>

\* The whole file; or the connection closed early, which the declared length
\* tells and which removes the .download file; or a read error, which does not.
FetchEnds(c) ==
    /\ call[c].at = "fetching"
    /\ \/ /\ temp' = [temp EXCEPT ![call[c].tmp] = call[c].from]
          /\ At(c, "rename")
       \/ /\ "fetch" \in Faults
          /\ temp' = [temp EXCEPT ![call[c].tmp] = Absent]
          /\ Gives(c, Failed)
       \/ /\ "fetch" \in Faults
          /\ Gives(c, Failed)
          /\ UNCHANGED temp
    /\ UNCHANGED <<resolved, disk, worldVars>>

\* Into place: under the size that was looked at, or that was fetched.
Rename(c) ==
    LET t == call[c].tmp
        f == IF t.size = Unsized THEN File(t.path, call[c].from) ELSE t IN
    /\ call[c].at = "rename"
    /\ disk' = [disk EXCEPT ![f] = temp[t]]
    /\ temp' = [temp EXCEPT ![t] = Absent]
    /\ Gives(c, f)
    /\ UNCHANGED <<resolved, worldVars>>

\* Fault: a failure leaves the entry as it is.
EntryStuck(r) == IF r = Failed THEN InProgress ELSE r

\* The entry for an outcome: none after a failure, so that a later call retries.
Entry(r) == IF r = Failed THEN Unknown ELSE r

\* Under the lock again.
Publish(c) ==
    /\ call[c].at = "publish"
    /\ resolved' = [resolved EXCEPT ![call[c].path] = Entry(call[c].result)]
    /\ At(c, "notify")
    /\ UNCHANGED <<disk, temp, worldVars>>

\* Fault: a failure notifies nobody.
WakesIfReady(c, d) == call[d].at = "asleep" /\ call[c].result # Failed

Wakes(c, d) == call[d].at = "asleep"

\* notify_all, after the lock is dropped: every waiter, of any path, wakes up.
Notify(c) ==
    /\ call[c].at = "notify"
    /\ call' = [d \in Callers |->
                  IF d = c THEN [call[d] EXCEPT !.at = "idle"]
                  ELSE IF Wakes(c, d) THEN [call[d] EXCEPT !.at = "awake"]
                  ELSE call[d]]
    /\ UNCHANGED <<resolved, disk, temp, worldVars>>

----------------------------------------------------------------------------
(* The world. *)

MountChanges ==
    /\ mounted' = ~mounted
    /\ UNCHANGED <<resolved, disk, temp, source, call>>

\* A new file takes the place of the old one; a copy that has the old one open
\* reads on from it.
Replace(p, v) ==
    /\ v # source[p]
    /\ source' = [source EXCEPT ![p] = v]
    /\ UNCHANGED <<resolved, disk, temp, mounted, call>>

\* Someone clears the cache directory.
Delete(f) ==
    /\ IsFile(f)
    /\ disk' = [disk EXCEPT ![f] = Absent]
    /\ UNCHANGED <<resolved, temp, worldVars, call>>

\* The program dies and is started again.
Crash ==
    /\ resolved' = [p \in Paths |-> Unknown]
    /\ call' = [c \in Callers |-> [call[c] EXCEPT !.at = "idle"]]
    /\ UNCHANGED <<disk, temp, worldVars>>

World ==
    \/ "unmount" \in Faults /\ MountChanges
    \/ "replace" \in Faults /\ \E p \in Paths, v \in Versions : Replace(p, v)
    \/ "delete" \in Faults /\ \E f \in Files : Delete(f)
    \/ "crash" \in Faults /\ Crash

----------------------------------------------------------------------------
(* The specification. *)

Init ==
    /\ resolved = [p \in Paths |-> Unknown]
    /\ disk = [f \in Files |-> Absent]
    /\ temp = [t \in Temps |-> Absent]
    /\ source \in [Paths -> Versions]
    /\ mounted \in BOOLEAN
    /\ \E p \in Paths, v \in Versions :
         call = [c \in Callers |->
                   [at |-> "idle", path |-> p, remote |-> FALSE,
                    tmp |-> File(p, v), from |-> v, result |-> Failed]]

Works(c) ==
    \/ Look(c)
    \/ Stat(c) \/ CopyBegins(c) \/ CopyEnds(c) \/ CopyFails(c)
    \/ FetchBegins(c) \/ FetchEnds(c) \/ Rename(c) \/ Publish(c) \/ Notify(c)

Calls(c) ==
    \E p \in Paths : LookupWait(c, p) \/ \E r \in BOOLEAN : EnsureCached(c, p, r)

Runs == \E c \in Callers : Works(c) \/ TimesOut(c) \/ Calls(c)
Next == Runs \/ World

Spec == Init /\ [][Next]_vars

\* Threads are scheduled, copies and requests end one way or another (a request
\* to Digger has 30 seconds) and the deadline of a wait passes.
Fairness == \A c \in Callers : WF_vars(Works(c)) /\ WF_vars(TimesOut(c))
FairSpec == Spec /\ Fairness

----------------------------------------------------------------------------
(* Properties. *)

\* A path is InProgress exactly while one thread works on it: no two threads
\* ever write its files, and no entry is left behind by a thread that gave up.
OneCopier ==
    \A p \in Paths :
       /\ \A c, d \in Callers : Copies(c, p) /\ Copies(d, p) => c = d
       /\ resolved[p] = InProgress <=> \E c \in Callers : Copies(c, p)

\* A thread sleeps on a copy that is still being made, or is about to be woken:
\* the wake-up, which comes after the lock is dropped, is never missed.
NoLostWakeup ==
    \A c \in Callers :
       call[c].at = "asleep" =>
          \/ resolved[call[c].path] = InProgress
          \/ \E d \in Callers : call[d].at = "notify"

\* Nothing unfinished is ever found under a final name, crashes included
\* (media_cache.rs:160-162).
FilesAreWhole == \A f \in Files : disk[f] # Partial

\* Every call returns.
CallsReturn == \A c \in Callers : call[c].at # "idle" ~> call[c].at = "idle"

\* A path does not stay InProgress: after a failure it can be tried again
\* (media_cache.rs:276).
EntriesSettle ==
    \A p \in Paths : resolved[p] = InProgress ~> resolved[p] # InProgress

\* The cache implements SharedCopy: what is being made are the calls between
\* InProgress and its end, what is stored are the files under final names.
Shared == INSTANCE SharedCopy WITH
    making <- {m \in Callers \X Paths : Copies(m[1], m[2])},
    stored <- {m \in Paths \X (Versions \cup {Partial}) :
                 \E v \in Versions : disk[File(m[1], v)] = m[2]}
SharesCopies == Shared!Spec

\* A call answered from the map gives the file the share holds now
\* (media_cache.rs:105-106 and 154-155).
ServesCurrent ==
    [][\A c \in Callers :
         /\ call[c].at = "idle" /\ call'[c].at = "idle" /\ call'[c] # call[c]
         /\ call'[c].result \in Files /\ mounted
         => disk[call'[c].result] = source[call'[c].path]]_vars
=============================================================================
