------------------------------- MODULE PcmTap -------------------------------
(***************************************************************************)
(* The visualizers' tap on an output node (src-tauri/src/audio/pcm_tap.rs,  *)
(* the callback of build_tap in mixer.rs) and the gate that switches it     *)
(* (src/lib/viz/vizPcm.ts): of every buffer the node mixes, the main pair   *)
(* goes into a window of the last Span frames, which is emitted in time.    *)
(*                                                                         *)
(* A sample stands for what it is: the frame, the channel and the routing   *)
(* it was mixed under.  A frame is the unit of time.  Quantising, the wire  *)
(* layout and base64 are left out.                                         *)
(***************************************************************************)
EXTENDS Integers, Sequences

CONSTANTS
    Span,     \* PCM_LEN
    Buffers,  \* the frames a buffer may have
    Matrices, \* mix-matrices of main branches: for each channel <<from_left, from_right>>
    Width,    \* the node's channels
    Slots,    \* the buffers that the leaky queue and the appsink hold
    Period,   \* of the emit schedule
    Silence, Unsent,
    Lagging   \* the routing may change while buffers mixed under the last one are queued

ASSUME PcmTapAssumption ==
    /\ {Span, Width, Slots, Period} \subseteq Nat \ {0} /\ Buffers \subseteq Nat \ {0}
    /\ \A m \in Matrices : m \in Seq(Nat \X Nat)
    /\ Lagging \in BOOLEAN

\* What a sample is: a frame, the channel it is of, the routing it was mixed under.
Sample == [frame : Nat, channel : 1..Width, matrix : Matrices]

ASSUME SilenceAssumption == Silence \notin Sample /\ Unsent \notin BOOLEAN

VARIABLE pcm
\* matrix: the main branch's, <<>> without one; pair: PackedPair, <<>> for none; open: the
\* tap's valve; queue: the buffers under way; left, right: PcmWindow; now: frames mixed so far; due: next_due;
\* emitted: windows so far; listening: PcmShared; want, sent: the gate's; failures: its
\* calls that are still to answer so; taken: history, the frames pushed.

PcmTypeOK ==
    /\ pcm.matrix \in Matrices \cup {<<>>} /\ pcm.pair \in Seq(Nat) /\ Len(pcm.queue) <= Slots
    /\ \A w \in {pcm.left, pcm.right} : DOMAIN w = 1..Span /\ \A i \in 1..Span :
         w[i] = Silence \/ (w[i].matrix \in Matrices /\ w[i].channel \in 1..Width)
    /\ {pcm.now, pcm.due, pcm.emitted, pcm.failures} \subseteq Nat
    /\ {pcm.open, pcm.listening, pcm.want} \subseteq BOOLEAN /\ pcm.sent \in BOOLEAN \cup {Unsent}

----------------------------------------------------------------------------
(* Which channels are the main ones. *)

\* The first of the channels that take most from one side, 0 if none takes anything.
Strongest(matrix, side) ==
    LET fed == {c \in DOMAIN matrix : matrix[c][side] > 0}
        most == {c \in fed : \A d \in fed : matrix[d][side] <= matrix[c][side]} IN
    IF fed = {} THEN 0 ELSE CHOOSE c \in most : \A d \in most : c <= d

\* main_pair.
MainPair(matrix) ==
    LET l == Strongest(matrix, 1)
        r == Strongest(matrix, 2) IN
    CASE l = 0 /\ r = 0 -> <<>>
      [] l # 0 /\ r = 0 -> <<l, l>>
      [] l = 0 /\ r # 0 -> <<r, r>>
      [] OTHER -> <<l, r>>

----------------------------------------------------------------------------
(* PcmWindow. *)

\* A channel the buffer does not have reads as silence.
SampleOf(buffer, f, channel) ==
    IF channel \notin 1..Width \/ buffer.matrix = <<>> THEN Silence
    ELSE [frame |-> buffer.at + f, channel |-> channel, matrix |-> buffer.matrix]

\* Fault: of a buffer longer than the window, the first frames are kept.
SkippedNone(buffer) == 0

Skipped(buffer) == IF buffer.frames > Span THEN buffer.frames - Span ELSE 0

\* push_interleaved, for one side: the window slides, and the buffer's last frames follow.
Pushed(window, buffer, channel) ==
    LET take == IF buffer.frames > Span THEN Span ELSE buffer.frames
        base == Span - take IN
    [i \in 1..Span |-> IF i <= base THEN window[i + take]
                       ELSE SampleOf(buffer, Skipped(buffer) + i - base, channel)]

----------------------------------------------------------------------------
(* The node. *)

\* refresh_tap of a tap that is built: the pair, and the valve.
RefreshTap(c) ==
    [c EXCEPT !.pair = MainPair(c.matrix), !.open = c.listening /\ MainPair(c.matrix) # <<>>]

\* The main branch is attached with another matrix, or detached.
Routes(matrix) ==
    /\ Lagging \/ pcm.queue = <<>>
    /\ pcm' = RefreshTap([pcm EXCEPT !.matrix = matrix])

\* The thread that viz_set_listening starts has the graph.
Refreshes == pcm' = RefreshTap(pcm)

\* The node mixes a buffer; a closed valve drops it, and the leaky queue the oldest one.
Mixes(frames) ==
    LET buffer == [at |-> pcm.now, frames |-> frames, matrix |-> pcm.matrix]
        queue == Append(pcm.queue, buffer) IN
    pcm' = [pcm EXCEPT !.now = @ + frames,
                       !.queue = CASE ~pcm.open -> @
                                   [] pcm.open /\ Len(queue) > Slots -> Tail(queue)
                                   [] OTHER -> queue]

\* new_sample: nothing without a listener or a pair; the window, and if it is time an
\* emission, on a schedule that keeps its phase unless it is two periods late.
NewSample ==
    /\ pcm.queue # <<>>
    /\ LET b == Head(pcm.queue)
           c == [pcm EXCEPT !.queue = Tail(@)] IN
       pcm' = IF ~pcm.listening \/ pcm.pair = <<>> THEN c
              ELSE [c EXCEPT
                !.left = Pushed(@, b, pcm.pair[1]), !.right = Pushed(@, b, pcm.pair[2]),
                !.taken = @ \o [f \in 1..b.frames |-> b.at + f],
                !.emitted = IF pcm.now >= pcm.due THEN @ + 1 ELSE @,
                !.due = CASE pcm.now < @ -> @
                          [] pcm.now >= @ /\ pcm.now <= @ + 2 * Period -> @ + Period
                          [] OTHER -> pcm.now + Period]

----------------------------------------------------------------------------
(* The gate. *)

\* A plugin that reads samples is chosen or not, the output window comes or goes.
Wants == pcm' = [pcm EXCEPT !.want = ~@]

\* evaluateGate, and viz_set_listening if the call arrives.
EvaluateGate ==
    /\ pcm.want # pcm.sent
    /\ \/ pcm' = [pcm EXCEPT !.sent = pcm.want, !.listening = pcm.want]
       \/ pcm' = [pcm EXCEPT !.sent = pcm.want, !.failures = @ + 1]

\* Its catch: to be sent again.
GateFails == pcm.failures > 0 /\ pcm' = [pcm EXCEPT !.failures = @ - 1, !.sent = Unsent]

----------------------------------------------------------------------------
(* The specification. *)

PcmInit ==
    \E m \in Matrices :
      pcm = [matrix |-> m, pair |-> MainPair(m), open |-> FALSE, queue |-> <<>>, taken |-> <<>>,
             left |-> [i \in 1..Span |-> Silence], right |-> [i \in 1..Span |-> Silence],
             now |-> 0, due |-> 0, emitted |-> 0,
             listening |-> FALSE, want |-> FALSE, sent |-> Unsent, failures |-> 0]

PcmWorld == (\E m \in Matrices \cup {<<>>} : Routes(m)) \/ (\E n \in Buffers : Mixes(n)) \/ Wants
PcmRuns == NewSample \/ Refreshes \/ EvaluateGate \/ GateFails
PcmSpec == PcmInit /\ [][PcmWorld \/ PcmRuns]_pcm

----------------------------------------------------------------------------
(* Properties. *)

\* What a window shows is the last Span frames that were taken, in order, and of each only
\* a channel that main was routed to when it was mixed, on its own side if it has one:
\* never the cue of a node that carries both.  No more windows are emitted than the
\* schedule allows, and a gate whose calls are all answered is as it is wanted.
ShowsTheMainMix ==
    /\ \A side \in {1, 2} :
         LET w == IF side = 1 THEN pcm.left ELSE pcm.right
             n == Len(pcm.taken) IN
         \A i \in 1..Span :
           /\ w[i] # Silence =>
                /\ w[i].frame = pcm.taken[n - Span + i]
                /\ LET m == w[i].matrix
                       fed == {c \in DOMAIN m : m[c][side] > 0} IN
                   IF fed # {} THEN w[i].channel \in fed ELSE m[w[i].channel] # <<0, 0>>
           /\ w[i] = Silence /\ n - Span + i \in 1..n => \E m \in Matrices : Len(m) > Width
    /\ pcm.emitted <= 1 + pcm.now \div Period
    /\ pcm.failures = 0 /\ pcm.sent = pcm.want => pcm.listening = pcm.want
=============================================================================
