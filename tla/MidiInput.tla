------------------------------ MODULE MidiInput ------------------------------
(***************************************************************************)
(* MIDI controllers (src-tauri/src/midi/, midi_state.rs).  A supervisor    *)
(* polls the ports, opens a connection for each that a profile matches and  *)
(* closes the ones whose port is gone; a connection's callback decodes its  *)
(* messages, halves of 14-bit values among them, into actions for the page; *)
(* the values are kept, and a flusher writes them to a file.  The lamps of  *)
(* a controller stay as they were last told, whoever told them.             *)
(*                                                                         *)
(* Each port here is a controller with a profile of its own, with a 14-bit  *)
(* fader, a 7-bit fader and a button with a lamp; a byte is below Base.     *)
(***************************************************************************)
EXTENDS Integers, Sequences

CONSTANTS Ports,
          Base,    \* the values of a byte: 128
          Silent,  \* no connection, no byte yet, no value
          Quirks   \* of "quickReplug": a port that goes and comes between two polls

VARIABLES
    device,   \* the hardware
    wire,     \* its messages to come
    conns,    \* CONNS
    pass,     \* the supervisor's pass over the ports
    page,     \* the page: what it has heard, and the lamps as it wants them
    persist,  \* MidiPersist and the flusher
    file      \* midi_state.json

midiVars == <<device, wire, conns, pass, page, persist, file>>

Positions == 0..Base * Base - 1
Bytes == 0..Base - 1
Names == {"rate", "gain"}
Values == [Ports \X Names -> Positions \cup {Silent}]

\* plugged: how often it was plugged in, if it is; lamp: lit.
DeviceRec == [here : BOOLEAN, plugged : Nat, rate : Positions, gain : Bytes, lamp : BOOLEAN]
Messages == [half : {"msb", "lsb", "gain", "button"}, byte : Nat]

\* Conn: the time of plugging it belongs to, and the decoder's two halves.
ConnRec == [plugged : Nat, msb : Bytes \cup {Silent}, lsb : Bytes \cup {Silent}]

ASSUME MidiAssumption == Base \in Nat \ {0} /\ Silent \notin Bytes \cup ConnRec \cup Values

MidiTypeOK ==
    /\ device \in [Ports -> DeviceRec]
    /\ wire \in [Ports -> Seq(Messages)]
    /\ conns \in [Ports -> ConnRec \cup {Silent}]
    /\ pass \in [todo : SUBSET Ports, live : SUBSET Ports, on : BOOLEAN]
    /\ page \in [heard : Values, lamp : [Ports -> BOOLEAN]]
    /\ persist \in [values : Values, dirty : BOOLEAN, writing : Values \cup {Silent}]
    /\ file \in Values

Nowhere == [k \in Ports \X Names |-> Silent]
Open(p) == conns[p] # Silent

\* A connection hears the device it was opened on, until that is unplugged.
Attached(p) == Open(p) /\ device[p].here /\ conns[p].plugged = device[p].plugged

----------------------------------------------------------------------------
(* The hardware. *)

Send(p, messages) == wire' = [wire EXCEPT ![p] = IF Attached(p) THEN @ \o messages ELSE @]

\* A 14-bit fader sends both halves, the coarse one first.
MoveRate(p, x) ==
    /\ device[p].here /\ x # device[p].rate
    /\ device' = [device EXCEPT ![p].rate = x]
    /\ Send(p, <<[half |-> "msb", byte |-> x \div Base],
                 [half |-> "lsb", byte |-> x % Base]>>)
    /\ UNCHANGED <<conns, pass, page, persist, file>>

MoveGain(p, x) ==
    /\ device[p].here /\ x # device[p].gain
    /\ device' = [device EXCEPT ![p].gain = x]
    /\ Send(p, <<[half |-> "gain", byte |-> x]>>)
    /\ UNCHANGED <<conns, pass, page, persist, file>>

Press(p) ==
    /\ device[p].here
    /\ Send(p, <<[half |-> "button", byte |-> Base - 1], [half |-> "button", byte |-> 0]>>)
    /\ UNCHANGED <<device, conns, pass, page, persist, file>>

\* A pulled plug takes the messages under way with it, and the light.
Unplug(p) ==
    /\ device[p].here
    /\ device' = [device EXCEPT ![p].here = FALSE, ![p].lamp = FALSE]
    /\ wire' = [wire EXCEPT ![p] = <<>>]
    /\ UNCHANGED <<conns, pass, page, persist, file>>

\* Plugged in again; that it takes longer than a poll is an assumption.
Plug(p) ==
    /\ ~device[p].here
    /\ "quickReplug" \in Quirks \/ (~Open(p) /\ p \notin pass.live)
    /\ device' = [device EXCEPT ![p].here = TRUE, ![p].plugged = @ + 1]
    /\ UNCHANGED <<wire, conns, pass, page, persist, file>>

----------------------------------------------------------------------------
(* The supervisor. *)

StartPass ==
    /\ ~pass.on
    /\ LET live == {p \in Ports : device[p].here} IN
       pass' = [todo |-> live, live |-> live, on |-> TRUE]
    /\ UNCHANGED <<device, wire, conns, page, persist, file>>

\* blank_all_leds, as the output port is opened.
Blanked(p) == [device EXCEPT ![p].lamp = FALSE]

\* One port of the pass: open already, or gone again, or connected; a connection that
\* fails is tried again by the next pass.
Connect(p) ==
    /\ pass.on /\ p \in pass.todo
    /\ pass' = [pass EXCEPT !.todo = @ \ {p}]
    /\ IF Open(p) \/ ~device[p].here
       THEN UNCHANGED <<conns, device>>
       ELSE /\ conns' \in {conns, [conns EXCEPT ![p] = [plugged |-> device[p].plugged,
                                                       msb |-> Silent, lsb |-> Silent]]}
            /\ device' = Blanked(p)
    /\ UNCHANGED <<wire, page, persist, file>>

\* The end of the pass: the connections whose port it did not see are closed.
Disconnect ==
    /\ pass.on /\ pass.todo = {}
    /\ conns' = [p \in Ports |-> IF p \in pass.live THEN conns[p] ELSE Silent]
    /\ pass' = [pass EXCEPT !.on = FALSE, !.live = {}]
    /\ UNCHANGED <<device, wire, page, persist, file>>

----------------------------------------------------------------------------
(* A connection's callback. *)

Or(x, default) == IF x = Silent THEN default ELSE x

\* Fault: the fine half is forgotten as soon as it is heard.
CoarseOnly(c, m) ==
    IF m.half = "msb" THEN Base * m.byte + Or(c.lsb, 0)
    ELSE Base * Or(c.msb, Base \div 2)

\* Fault: the coarse half is shifted by a bit too many.
ShiftedTooFar(c, m) ==
    IF m.half = "msb" THEN 2 * Base * m.byte + Or(c.lsb, 0)
    ELSE 2 * Base * Or(c.msb, Base \div 2) + m.byte

\* Decoder::decode of a 14-bit half: with what is known of the other one, or with a
\* middle value in its place.
Rate14(c, m) ==
    IF m.half = "msb" THEN Base * m.byte + Or(c.lsb, 0)
    ELSE Base * Or(c.msb, Base \div 2) + m.byte

\* What a message means, and what the decoder keeps of it.
Decoded(c, m) ==
    CASE m.half = "gain" -> [name |-> "gain", value |-> m.byte]
      [] m.half \in {"msb", "lsb"} -> [name |-> "rate", value |-> Rate14(c, m)]

Remembers(c, m) ==
    IF m.half \in {"msb", "lsb"} THEN [c EXCEPT ![m.half] = m.byte] ELSE c

\* The page toggles what the button is for, and asks for the lamp to follow.
Lit(p, on) == [device EXCEPT ![p].lamp = on]

\* A value is marked to be kept, then sent to the page.
Hear(p) ==
    /\ Attached(p) /\ wire[p] # <<>>
    /\ LET m == Head(wire[p])
           a == Decoded(conns[p], m) IN
       /\ wire' = [wire EXCEPT ![p] = Tail(@)]
       /\ conns' = [conns EXCEPT ![p] = Remembers(@, m)]
       /\ IF m.half = "button"
          THEN /\ page' = IF m.byte = 0 THEN page ELSE [page EXCEPT !.lamp[p] = ~@]
               /\ device' = IF m.byte = 0 THEN device ELSE Lit(p, ~page.lamp[p])
               /\ UNCHANGED persist
          ELSE /\ persist' = [persist EXCEPT !.values[<<p, a.name>>] = a.value,
                                             !.dirty = TRUE]
               /\ page' = [page EXCEPT !.heard[<<p, a.name>>] = a.value]
               /\ UNCHANGED device
    /\ UNCHANGED <<pass, file>>

----------------------------------------------------------------------------
(* The flusher, and the end of the program. *)

\* spawn_flusher takes its copy under the lock, and marks it clean there.
Snapshot ==
    /\ persist.dirty /\ persist.writing = Silent
    /\ persist' = [persist EXCEPT !.writing = persist.values, !.dirty = FALSE]
    /\ UNCHANGED <<device, wire, conns, pass, page, file>>

\* The new file takes the old one's place; that writing it may fail is left out.
Written ==
    /\ persist.writing # Silent
    /\ file' = persist.writing
    /\ persist' = [persist EXCEPT !.writing = Silent]
    /\ UNCHANGED <<device, wire, conns, pass, page>>

\* The program ends and starts again; the page takes its faders from the file, the
\* map of values starts empty (new_persist), and the controllers' lamps stay.
Restart ==
    /\ conns' = [p \in Ports |-> Silent]
    /\ wire' = [p \in Ports |-> <<>>]
    /\ pass' = [todo |-> {}, live |-> {}, on |-> FALSE]
    /\ page' = [heard |-> file, lamp |-> [p \in Ports |-> FALSE]]
    /\ persist' = [values |-> Nowhere, dirty |-> FALSE, writing |-> Silent]
    /\ UNCHANGED <<device, file>>

----------------------------------------------------------------------------
(* The specification. *)

MidiInit ==
    /\ device = [p \in Ports |-> [here |-> FALSE, plugged |-> 0, rate |-> 0, gain |-> 0,
                                  lamp |-> FALSE]]
    /\ wire = [p \in Ports |-> <<>>] /\ conns = [p \in Ports |-> Silent]
    /\ pass = [todo |-> {}, live |-> {}, on |-> FALSE]
    /\ page = [heard |-> Nowhere, lamp |-> [p \in Ports |-> FALSE]]
    /\ persist = [values |-> Nowhere, dirty |-> FALSE, writing |-> Silent]
    /\ file = Nowhere

MidiWorld ==
    \/ \E p \in Ports : \/ \E x \in Positions : MoveRate(p, x)
                        \/ \E x \in Bytes : MoveGain(p, x)
                        \/ Press(p) \/ Unplug(p) \/ Plug(p)
    \/ Restart

MidiRuns ==
    \/ StartPass \/ Disconnect \/ \E p \in Ports : Connect(p) \/ Hear(p)
    \/ Snapshot \/ Written

MidiSpec == MidiInit /\ [][MidiWorld \/ MidiRuns]_midiVars

----------------------------------------------------------------------------
(* Properties. *)

\* What the controllers, the page and the file say agrees.  When a connection has
\* nothing more to tell, a fader that moved since it was opened is on the page as it
\* stands on the controller, from both halves.  A lamp that is lit on a connected
\* controller is one that the page wants lit: none is left from an earlier run
\* (midi/mod.rs:96-108).  And when there is nothing left to write, the file has the
\* last value of every control that was touched in this run, as the page has it.
ControllersAgree ==
    /\ \A p \in Ports : Attached(p) =>
         /\ wire[p] = <<>> /\ conns[p].lsb # Silent =>
              page.heard[<<p, "rate">>] = device[p].rate
         /\ device[p].lamp => page.lamp[p]
    /\ ~persist.dirty /\ persist.writing = Silent =>
         \A k \in Ports \X Names : persist.values[k] # Silent =>
            file[k] = persist.values[k] /\ page.heard[k] = file[k]
=============================================================================
