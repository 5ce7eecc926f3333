--------------------------- MODULE TempoReference ---------------------------
(***************************************************************************)
(* The tempi of the session (src/lib/state/session.ts) and the beat grids   *)
(* they come from (App.svelte, WaveformCanvas.svelte, gridSource.ts,        *)
(* queueStore.ts).  A deck's grid comes with its load from Digger, from the  *)
(* store of saved grids, or from an analysis of the file, the last two       *)
(* later and in any order; the main tempo is that of a deck, which changes   *)
(* by itself when one deck is left playing; a locked deck follows it.  The   *)
(* page may be lost, and the next one takes the session over with the audio  *)
(* that still runs, or starts a new one (bootRestore.ts).                    *)
(*                                                                         *)
(* Tempi and rates are on a logarithmic scale: a tempo at a rate is a sum,   *)
(* and a tolerance of 0.0005 is none.                                       *)
(***************************************************************************)
EXTENDS Integers, FiniteSets

CONSTANTS
    Turntables,  \* the ids of decks
    First,       \* the decks of a new session
    Records,     \* files
    Stored,      \* the store of saved grids as the program starts, or NoTempo
    Fit,         \* for each file, what the analysis makes of it, or NoTempo
    Digger,      \* for each file, the grid that Digger sends, or NoTempo
    Trusted,     \* the files whose grid in Digger is to be trusted
    Faders, Taps,  \* the rates and the tempi a hand sets
    NoTempo, NoRecord,
    Slips        \* of what the code does not guard against, see the README:
                 \* "deckReturns", "fileReturns", "earlyBeat", "noAnalysis", "trustLost",
                 \* "ghostMaster"

ASSUME TempoAssumption ==
    /\ {Stored, Fit, Digger} \subseteq [Records -> Int \cup {NoTempo}]
    /\ Trusted \subseteq {f \in Records : Digger[f] # NoTempo} /\ Faders \cup Taps \subseteq Int
    /\ First \subseteq Turntables
    /\ NoTempo \notin Int /\ NoRecord \notin Records
    /\ Slips \subseteq {"deckReturns", "fileReturns", "earlyBeat", "noAnalysis",
                    "trustLost", "ghostMaster"}

VARIABLES
    table,     \* Session.decks, NoRecord for one that is not there
    lead,      \* Session.masterDeckId, NoRecord without one, and Session.bpm
    saved,     \* the store of saved grids
    trust,     \* savedGridPaths
    canvas,    \* analyzedPath of each deck's waveform
    unsynced,  \* decks whose load syncVideoElements has yet to see
    lookups, analyses,  \* those under way, of a deck and a file
    good,      \* history: of each deck, the grids of its file: the saved and the trusted one
               \* when it was loaded, or that of the analysis if there was none, and any set since
    seen       \* history: the ids of decks and the pairs of id and file that this page has had

tempoVars == <<table, lead, saved, trust, canvas, unsynced, lookups, analyses, good, seen>>

TableRec == [file : Records \cup {NoRecord}, bpm : Int \cup {NoTempo}, rate : Int,
             playing : BOOLEAN, locked : BOOLEAN]
Pairs == Turntables \X Records

ASSUME NoDeckAssumption == NoRecord \notin TableRec /\ NoRecord \notin Turntables
ASSUME PairsAssumption == Turntables \cap Pairs = {}

TempoTypeOK ==
    /\ table \in [Turntables -> TableRec \cup {NoRecord}]
    /\ lead \in [deck : Turntables \cup {NoRecord}, bpm : Int \cup {NoTempo}]
    /\ saved \in [Records -> Int \cup {NoTempo}]
    /\ trust \in [Turntables -> Records \cup {NoRecord}]
    /\ canvas \in [Turntables -> Records \cup {NoRecord}]
    /\ unsynced \subseteq Turntables /\ lookups \subseteq Pairs /\ analyses \subseteq Pairs
    /\ good \in [Turntables -> SUBSET (Int \cup {NoTempo})]
    /\ seen \subseteq Turntables \cup Pairs

There(d) == table[d] # NoRecord
MadeDeck == [file |-> NoRecord, bpm |-> NoTempo, rate |-> 0, playing |-> FALSE, locked |-> FALSE]
TempoOf(deck) == deck.bpm + deck.rate

----------------------------------------------------------------------------
(* The session: what follows from a change of its decks. *)

\* refreshMasterBpm: the main tempo follows its deck.
RefreshMaster(t, mn) ==
    IF mn.deck = NoRecord \/ t[mn.deck] = NoRecord \/ t[mn.deck].bpm = NoTempo THEN mn
    ELSE [mn EXCEPT !.bpm = TempoOf(t[mn.deck])]

\* reconcileMaster: a deck that plays alone takes the lead.
ReconcileMaster(t, mn) ==
    LET playing == {d \in Turntables : t[d] # NoRecord /\ t[d].playing} IN
    IF \E d \in playing : playing = {d} /\ t[d].bpm # NoTempo
    THEN LET solo == CHOOSE d \in playing : TRUE IN [deck |-> solo, bpm |-> TempoOf(t[solo])]
    ELSE mn

\* applyLockedRates: the others that are locked follow.
LockedRates(t, mn) ==
    [d \in Turntables |->
       IF t[d] # NoRecord /\ t[d].locked /\ d # mn.deck /\ t[d].bpm # NoTempo /\ mn.bpm # NoTempo
       THEN [t[d] EXCEPT !.rate = mn.bpm - t[d].bpm] ELSE t[d]]

Becomes(t, mn) == lead' = mn /\ table' = LockedRates(t, mn)

\* Fault: the tempo of the reference is refreshed only when it plays another file.
UpdatedLate(d, deck, reconciles) ==
    LET t == [table EXCEPT ![d] = deck] IN
    IF reconciles THEN Becomes(t, ReconcileMaster(t, RefreshMaster(t, lead))) ELSE Becomes(t, lead)

\* updateDeck: the patched deck; is playing or bpm in the patch?
UpdateDeck(d, deck, reconciles) ==
    LET t == [table EXCEPT ![d] = deck]
        mn == RefreshMaster(t, lead) IN
    Becomes(t, IF reconciles THEN ReconcileMaster(t, mn) ELSE mn)

\* removeDeck, and the waveform and the looks that go with it.
RemoveDeck(d) ==
    LET t == [table EXCEPT ![d] = NoRecord]
        mn == IF lead.deck = d THEN [lead EXCEPT !.deck = NoRecord] ELSE lead IN
    /\ There(d) /\ Becomes(t, ReconcileMaster(t, mn))
    /\ canvas' = [canvas EXCEPT ![d] = NoRecord]
    /\ analyses' = {p \in analyses : p[1] # d}
    /\ unsynced' = unsynced \ {d}
    /\ seen' = {x \in seen : x = d \/ x \notin {d} \X Records}
    /\ UNCHANGED <<saved, trust, lookups, good>>

\* addDeck: the id may be that of a deck removed before.
AddDeck(d) ==
    /\ ~There(d) /\ ("deckReturns" \in Slips \/ d \notin seen)
    /\ table' = [table EXCEPT ![d] = MadeDeck] /\ seen' = seen \cup {d}
    /\ UNCHANGED <<lead, saved, trust, canvas, unsynced, lookups, analyses, good>>

Grids == <<saved, trust, canvas, unsynced, lookups, analyses, good, seen>>

\* setMasterDeck of a deck.
SetMaster(d) ==
    /\ There(d) /\ table[d].bpm # NoTempo
    /\ Becomes(table, [deck |-> d, bpm |-> TempoOf(table[d])])
    /\ UNCHANGED Grids

\* setMasterDeck(null) and setMasterBpm, exported for a tapped tempo: so far without a caller.
ClearMaster == Becomes(table, [lead EXCEPT !.deck = NoRecord]) /\ UNCHANGED Grids
SetMasterBpm(bpm) == Becomes(table, [deck |-> NoRecord, bpm |-> bpm]) /\ UNCHANGED Grids

----------------------------------------------------------------------------
(* The hand. *)

\* A press of play or pause, or the end of the file.
PressPlay(d) ==
    /\ There(d) /\ table[d].file # NoRecord
    /\ UpdateDeck(d, [table[d] EXCEPT !.playing = ~@], TRUE)
    /\ UNCHANGED Grids

MoveFader(d, rate) ==
    /\ There(d) /\ (rate # table[d].rate \/ table[d].locked)
    /\ UpdateDeck(d, [table[d] EXCEPT !.rate = rate, !.locked = FALSE], FALSE)
    /\ UNCHANGED Grids

\* The Lock button, and Auto DJ before a fade.
PressLock(d) ==
    /\ There(d) /\ lead.deck # d /\ table[d].bpm # NoTempo /\ lead.bpm # NoTempo
    /\ UpdateDeck(d, IF table[d].locked THEN [table[d] EXCEPT !.locked = FALSE]
                     ELSE [table[d] EXCEPT !.locked = TRUE, !.rate = lead.bpm - table[d].bpm], FALSE)
    /\ UNCHANGED Grids

\* The Sync button of a controller leaves the lock alone; the one on the screen opens it.
PressSync(d, opens) ==
    /\ There(d) /\ table[d].bpm # NoTempo /\ lead.bpm # NoTempo
    /\ UpdateDeck(d, [table[d] EXCEPT !.rate = lead.bpm - table[d].bpm,
                                      !.locked = @ /\ ~opens], FALSE)
    /\ UNCHANGED Grids

\* Auto DJ frees a deck.
FreeDeck(d) ==
    /\ There(d) /\ table[d].file # NoRecord
    /\ UpdateDeck(d, [table[d] EXCEPT !.file = NoRecord, !.playing = FALSE, !.locked = FALSE], TRUE)
    /\ canvas' = [canvas EXCEPT ![d] = NoRecord] /\ unsynced' = unsynced \ {d}
    /\ UNCHANGED <<saved, trust, lookups, analyses, good, seen>>

\* A load by hand, or from Digger with the grid it has; the waveform starts to analyse a
\* file that is new to it.
Load(d, f, asks) ==
    LET grid == IF asks THEN Digger[f] ELSE NoTempo
        trusted == grid # NoTempo /\ f \in Trusted IN
    /\ There(d) /\ ("fileReturns" \in Slips \/ <<d, f>> \notin seen)
    /\ UpdateDeck(d, [table[d] EXCEPT !.file = f, !.playing = FALSE,
                                      !.bpm = IF grid # NoTempo THEN grid ELSE @], TRUE)
    /\ trust' = IF trusted THEN [trust EXCEPT ![d] = f] ELSE trust
    /\ unsynced' = unsynced \cup {d}
    /\ canvas' = [canvas EXCEPT ![d] = f]
    /\ analyses' = IF canvas[d] = f THEN analyses ELSE analyses \cup {<<d, f>>}
    /\ good' = [good EXCEPT ![d] =
         IF trusted \/ saved[f] # NoTempo
         THEN ((IF trusted THEN {grid} ELSE {}) \cup {saved[f]}) \ {NoTempo} ELSE {Fit[f]}]
    /\ seen' = seen \cup {<<d, f>>}
    /\ UNCHANGED <<saved, lookups>>

\* SET BEAT saves the grid as it stands.
SetBeat(d) ==
    LET f == table[d].file IN
    /\ There(d) /\ f # NoRecord /\ table[d].bpm # NoTempo
    /\ \/ "earlyBeat" \in Slips
       \/ d \notin unsynced /\ <<d, f>> \notin lookups \cup analyses
    /\ saved' = [saved EXCEPT ![f] = table[d].bpm]
    /\ trust' = [trust EXCEPT ![d] = f]
    /\ good' = [e \in Turntables |-> IF There(e) /\ table[e].file = f
                                      THEN good[e] \cup ({table[d].bpm} \cap good[d]) ELSE good[e]]
    /\ UNCHANGED <<table, lead, canvas, unsynced, lookups, analyses, seen>>

----------------------------------------------------------------------------
(* What comes later. *)

\* Fault: the mark is taken for any file of the deck's.
MarkedAnyFile(d, f) == trust[d] # NoRecord

HasSavedGrid(d, f) == trust[d] = f

\* ensureAudioLoaded, for a file new to the deck.
SyncGrid ==
    \E d \in unsynced :
      LET f == table[d].file IN
      /\ unsynced' = unsynced \ {d}
      /\ trust' = IF HasSavedGrid(d, f) THEN trust ELSE [trust EXCEPT ![d] = NoRecord]
      /\ lookups' = IF HasSavedGrid(d, f) THEN lookups ELSE lookups \cup {<<d, f>>}
      /\ UNCHANGED <<table, lead, saved, canvas, analyses, good, seen>>

\* The answer of gridGetSaved.
GridGetSaved ==
    \E p \in lookups :
      LET d == p[1]
          f == p[2] IN
      /\ lookups' = lookups \ {p}
      /\ IF saved[f] # NoTempo /\ There(d) /\ table[d].file = f
         THEN UpdateDeck(d, [table[d] EXCEPT !.bpm = saved[f]], TRUE) /\ trust' = [trust EXCEPT ![d] = f]
         ELSE UNCHANGED <<table, lead, trust>>
      /\ UNCHANGED <<saved, canvas, unsynced, analyses, good, seen>>

\* onAnalyzed.
Analyzed ==
    \E p \in analyses :
      LET d == p[1]
          f == p[2] IN
      /\ analyses' = analyses \ {p}
      /\ IF canvas[d] = f /\ ~HasSavedGrid(d, table[d].file)
         THEN \/ UpdateDeck(d, [table[d] EXCEPT !.bpm = Fit[f]], TRUE)
              \/ "noAnalysis" \in Slips /\ UNCHANGED <<table, lead>>
         ELSE UNCHANGED <<table, lead>>
      /\ UNCHANGED <<saved, trust, canvas, unsynced, lookups, good, seen>>

----------------------------------------------------------------------------
(* A new page, and a new program. *)

\* The decks of a new session.
NewTable == [d \in Turntables |-> IF d \in First THEN MadeDeck ELSE NoRecord]
NoLead == [deck |-> NoRecord, bpm |-> NoTempo]

NoFiles == [d \in Turntables |-> NoRecord]

\* The page is lost and the next one recovers the session, with the decks that play as the
\* pipelines say; what the page knew of saved grids is gone, and every deck's file is new to
\* the waveforms and to ensureAudioLoaded.  A trusted grid of Digger is not in the store.
Recover(plays) ==
    LET decks == {d \in Turntables : There(d)}
        loaded == {d \in decks : table[d].file # NoRecord}
        held == {p \in Pairs : p[1] \in loaded /\ table[p[1]].file = p[2]} IN
    /\ loaded # {} /\ plays \subseteq loaded
    /\ "trustLost" \in Slips \/ \A d \in loaded :
         trust[d] = table[d].file => saved[table[d].file] # NoTempo
    /\ table' = [d \in Turntables |-> IF d \in loaded THEN [table[d] EXCEPT !.playing = d \in plays]
                                      ELSE table[d]]
    /\ trust' = NoFiles
    /\ canvas' = [d \in Turntables |-> IF d \in loaded THEN table[d].file ELSE NoRecord]
    /\ unsynced' = loaded /\ lookups' = {} /\ analyses' = held
    /\ seen' = decks \cup held
    /\ UNCHANGED <<lead, saved, good>>

\* No pipeline is left of the session, or it cannot be had: of its tempi the main one is
\* taken over, with its deck, which need not be one of the new session, or nothing is.
StartAnew ==
    /\ \/ lead' = NoLead
       \/ UNCHANGED lead /\ ("ghostMaster" \in Slips \/ lead.deck \in First \cup {NoRecord})
    /\ table' = NewTable /\ trust' = NoFiles /\ canvas' = NoFiles
    /\ unsynced' = {} /\ lookups' = {} /\ analyses' = {}
    /\ good' = [d \in Turntables |-> {}] /\ seen' = First
    /\ UNCHANGED saved

----------------------------------------------------------------------------
(* The specification. *)

\* A new session, without one to recover.
TempoInit ==
    /\ table = NewTable /\ trust = NoFiles /\ canvas = NoFiles
    /\ unsynced = {} /\ lookups = {} /\ analyses = {}
    /\ good = [d \in Turntables |-> {}] /\ seen = First
    /\ saved = Stored /\ lead = NoLead

TempoWorld ==
    \/ ClearMaster \/ StartAnew
    \/ \E bpm \in Taps \cup {NoTempo} : SetMasterBpm(bpm)
    \/ \E plays \in SUBSET Turntables : Recover(plays)
    \/ \E d \in Turntables :
        \/ AddDeck(d) \/ RemoveDeck(d) \/ SetMaster(d) \/ PressPlay(d) \/ PressLock(d)
        \/ FreeDeck(d) \/ SetBeat(d)
        \/ \E r \in Faders : MoveFader(d, r)
        \/ \E f \in Records, asks \in BOOLEAN : Load(d, f, asks)
        \/ \E opens \in BOOLEAN : PressSync(d, opens)

TempoRuns == SyncGrid \/ GridGetSaved \/ Analyzed
TempoSpec == TempoInit /\ [][TempoWorld \/ TempoRuns]_tempoVars

----------------------------------------------------------------------------
(* Properties. *)

\* A deck for which nothing is under way has a grid of its own file, a saved or trusted one
\* rather than that of the analysis (App.svelte:1099-1100).
SavedGridsWin ==
    \A d \in Turntables :
      There(d) /\ table[d].file # NoRecord /\ d \notin unsynced
      /\ <<d, table[d].file>> \notin lookups \cup analyses => table[d].bpm \in good[d]

\* After any sequence of loads, edits, removals, answers, reloads and restarts: the main tempo
\* is that of the deck it comes from, as it now is, and every other locked deck plays at it
\* (session.ts:116-118); and the decks' grids are their files', the saved ones first.
TemposAreCurrent ==
    /\ lead.deck # NoRecord =>
         There(lead.deck) /\ (table[lead.deck].bpm # NoTempo => lead.bpm = TempoOf(table[lead.deck]))
    /\ \A d \in Turntables \ {lead.deck} :
         There(d) /\ table[d].locked /\ table[d].bpm # NoTempo /\ lead.bpm # NoTempo =>
           TempoOf(table[d]) = lead.bpm
    /\ SavedGridsWin
=============================================================================
