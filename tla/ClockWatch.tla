----------------------------- MODULE ClockWatch -----------------------------
(***************************************************************************)
(* The clock watch of an output node (src-tauri/src/audio/clock_watch.rs):  *)
(* a thread that compares, at every sample, how far the pipeline's clock    *)
(* and the sink's own advanced with how far the monotonic clock did.  It    *)
(* tells clocks apart by their address, and holds no reference to one.      *)
(*                                                                         *)
(* Time is in halves of SAMPLE_SECS: a healthy clock advances by Interval   *)
(* from sample to sample, and any other advance is beyond STEP_WARN_MS.     *)
(***************************************************************************)
EXTENDS Integers

CONSTANTS Interval,  \* the real time between two wake-ups
          Strays,    \* by how much a clock's advance may miss it
          Unread,    \* no reading, or no report
          Reuse      \* a new clock may be at the address of the one last sampled

ASSUME ClockWatchAssumption ==
    Interval \in Nat \ {0} /\ Strays \subseteq Int \ {0} /\ Reuse \in BOOLEAN

Clocks == {"pipeline", "sink"}
Addresses == 1..2

VARIABLES
    upon,    \* whether the node's pipeline runs, and the thread
    mono,    \* the monotonic clock
    source,  \* the clocks: address, whether there is one to ask for, its reading
    sampler, \* ClockSampler: the address (0: none), the last readings, the baseline
    report,  \* what the last sample said of each clock
    truth    \* history: how far this very clock strayed before and since its last
             \* reading, the real time between the last two, and in all

clockVars == <<upon, mono, source, sampler, report, truth>>

Reading == [at : Int, mono : Nat]

ClockTypeOK ==
    /\ upon \in [node : BOOLEAN, thread : BOOLEAN] /\ mono \in Nat
    /\ source \in [Clocks -> [address : Addresses, given : BOOLEAN, at : Int]]
    /\ sampler \in [Clocks -> [address : Addresses \cup {0}, last : {Unread} \cup Reading,
                              base : Int]]
    /\ report \in [Clocks -> {Unread} \cup [verdict : {"ok", "stalled", "stepped"}, drift : Int]]
    /\ truth \in [Clocks -> [was : Int, span : Nat, since : Int, total : Int]]

Nothing == [c \in Clocks |-> Unread]
Untold == [was |-> 0, span |-> 0, since |-> 0, total |-> 0]

----------------------------------------------------------------------------
(* The clocks. *)

\* The thread's sleep: one clock may miss the real time by so much.
Elapses(c, stray) ==
    /\ upon.node
    /\ mono' = mono + Interval
    /\ source' = [d \in Clocks |-> [source[d] EXCEPT !.at = @ + Interval + IF d = c THEN stray ELSE 0]]
    /\ truth' = [truth EXCEPT ![c].since = @ + stray, ![c].total = @ + stray]
    /\ report' = Nothing
    /\ UNCHANGED <<upon, sampler>>

\* The pipeline selects another clock, which has a time of its own.
Replaced(c, address) ==
    /\ upon.node
    /\ Reuse \/ address # sampler[c].address
    /\ source' = [source EXCEPT ![c] = [address |-> address, given |-> TRUE, at |-> 0]]
    /\ truth' = [truth EXCEPT ![c] = Untold]
    /\ report' = Nothing
    /\ UNCHANGED <<upon, mono, sampler>>

\* There is no clock to ask for, or there is again.
Withheld(c) ==
    /\ upon.node
    /\ source' = [source EXCEPT ![c].given = ~@]
    /\ UNCHANGED <<upon, mono, sampler, report, truth>>

\* The node is dropped, or its pipeline goes to Null.
NodeGoes ==
    /\ upon.node
    /\ upon' = [upon EXCEPT !.node = FALSE]
    /\ UNCHANGED <<mono, source, sampler, report, truth>>

----------------------------------------------------------------------------
(* ClockSampler. *)

\* reset.
Forgotten(s, address) == [s EXCEPT !.address = address, !.last = Unread]

\* Fault: only the absence of a clock forgets.
KeptOver(c) ==
    LET s == sampler[c] IN
    IF ~source[c].given THEN Forgotten(s, 0) ELSE [s EXCEPT !.address = source[c].address]

\* The sampler a clock is read with: a change of address forgets the one before.
Identified(c) ==
    LET s == sampler[c]
        a == IF source[c].given THEN source[c].address ELSE 0 IN
    IF a = 0 \/ a # s.address THEN Forgotten(s, a) ELSE s

\* observe: what a reading says of the clock, against the one before.
Verdict(real, advanced) ==
    IF real > 0 /\ 10 * advanced < real THEN "stalled"
    ELSE IF advanced # real THEN "stepped" ELSE "ok"

Observation(s, at) ==
    IF s.last = Unread THEN Unread
    ELSE [verdict |-> Verdict(mono - s.last.mono, at - s.last.at), drift |-> at - mono - s.base]

Observing(s, at) ==
    [s EXCEPT !.last = [at |-> at, mono |-> mono],
              !.base = IF s.last = Unread THEN at - mono ELSE @]

----------------------------------------------------------------------------
(* The thread. *)

\* A sample: the clocks of timed can tell the time.
Samples(timed) ==
    /\ upon.node /\ upon.thread
    /\ \A c \in Clocks : sampler[c].last # Unread => sampler[c].last.mono < mono
    /\ LET Read(c) == c \in timed /\ source[c].given IN
       /\ sampler' = [c \in Clocks |-> IF Read(c) THEN Observing(Identified(c), source[c].at)
                                       ELSE Identified(c)]
       /\ report' = [c \in Clocks |-> IF Read(c) THEN Observation(Identified(c), source[c].at)
                                      ELSE Unread]
       /\ truth' = [c \in Clocks |->
            IF ~Read(c) THEN truth[c]
            ELSE LET first == Identified(c).last = Unread IN
                 [was |-> truth[c].since, since |-> 0,
                  span |-> IF first THEN 0 ELSE mono - Identified(c).last.mono,
                  total |-> IF first THEN 0 ELSE truth[c].total]]
    /\ UNCHANGED <<upon, mono, source>>

\* It ends with its node.
ThreadEnds ==
    /\ upon.thread /\ ~upon.node
    /\ upon' = [upon EXCEPT !.thread = FALSE]
    /\ UNCHANGED <<mono, source, sampler, report, truth>>

ClockInit ==
    /\ upon = [node |-> TRUE, thread |-> TRUE] /\ mono = 0
    /\ source = [c \in Clocks |-> [address |-> 1, given |-> TRUE, at |-> 0]]
    /\ sampler = [c \in Clocks |-> [address |-> 0, last |-> Unread, base |-> 0]]
    /\ report = Nothing
    /\ truth = [c \in Clocks |-> Untold]

ClockWorld ==
    \/ \E c \in Clocks, s \in Strays \cup {0} : Elapses(c, s)
    \/ \E c \in Clocks, a \in Addresses : Replaced(c, a)
    \/ \E c \in Clocks : Withheld(c)
    \/ NodeGoes
ClockRuns == (\E timed \in SUBSET Clocks : Samples(timed)) \/ ThreadEnds
ClockSpec == ClockInit /\ [][ClockWorld \/ ClockRuns]_clockVars

----------------------------------------------------------------------------
(* Properties. *)

\* A verdict is of one clock: it is "ok" exactly when that clock kept the real time since
\* it was last read, "stalled" when it stood, however many samples it could not be read
\* at, and never a comparison of two clocks; its drift is the sum of its own strayings.
VerdictsAreTrue ==
    \A c \in Clocks : report[c] # Unread =>
        /\ (report[c].verdict = "ok") = (truth[c].was = 0)
        /\ truth[c].was = -truth[c].span => report[c].verdict = "stalled"
        /\ report[c].drift = truth[c].total
=============================================================================
