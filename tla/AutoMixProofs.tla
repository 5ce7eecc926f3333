--------------------------- MODULE AutoMixProofs ---------------------------
(***************************************************************************)
(* Proofs about AutoMix, for any tracks, queue and bounds: the types of    *)
(* its state, and that a preview is guarded from its first settle to the   *)
(* end of its tail.  The second holds when a preview is not pressed again  *)
(* while one is under way ("previewAgain" is not in Events): a second      *)
(* press that is then touched ends the guard of the first.                 *)
(*                                                                         *)
(* Then of the Auto DJ left to itself.  One invariant shows that what a    *)
(* transition leaves is marked, that no deck is fetched for twice, that    *)
(* music stops only where a track ends, that no fade goes into silence     *)
(* and, where Digger suggests nothing twice, that the music goes on and,   *)
(* where the queue holds a track once at most, in its order.               *)
(***************************************************************************)
EXTENDS AutoMix, TLAPS

----------------------------------------------------------------------------
(* What the helpers return. *)

LEMMA DecksType == Left \in Decks /\ Right \in Decks /\ \A d \in Decks : Other(d) \in Decks
BY DEF Decks, Other

LEMMA FaderType == \A d \in Decks : FaderAt(d) \in 0..2
BY DEF FaderAt

LEMMA DeckTypes ==
    ASSUME NEW r \in DeckRec, NEW t \in Tracks \cup {NoTrack}
    PROVE  /\ EmptyDeck \in DeckRec
           /\ PlayFrom(r) \in DeckRec
           /\ WithTrack(r, t) \in DeckRec
           /\ Freed(r) \in DeckRec
BY DEF DeckRec, Phases, EmptyDeck, PlayFrom, WithTrack, Freed

LEMMA PatchedType ==
    ASSUME NEW dk \in [Decks -> DeckRec], NEW d \in Decks, NEW r \in DeckRec
    PROVE  Patched(dk, d, r) \in [Decks -> DeckRec]
BY DEF Patched

LEMMA RecordTypes ==
    ASSUME NEW out \in Decks, NEW in \in Decks, NEW p \in BOOLEAN
    PROVE  /\ Ramp(out, in, p) \in RampRec
           /\ \A s \in {"preview", "rate", "seek"} : Settle(out, in, p, s) \in SettleRec
BY DEF Ramp, RampRec, Settle, SettleRec

\* A record is put into one slot, that was free.
LEMMA PutFree ==
    ASSUME NEW f, Free(f), NEW x
    PROVE  \E j \in DOMAIN f : f[j] = Nothing /\ Put(f, x) = [f EXCEPT ![j] = x]
BY DEF Free, Put

LEMMA PicksType == \A a : Picks(a) \subseteq Tracks
<1>1. \A i \in DOMAIN Queue : Queue[i] \in Tracks
  BY TracksAssumption
<1>2. QED
  BY <1>1 DEF Picks

\* A transition begins with a ramp, or with a settle in a free slot.
Begun(p, slots) ==
    \/ ramp'.preview = p /\ settles' = slots
    \/ /\ ramp' = ramp
       /\ \E j \in SettleIds, s \in SettleRec :
            /\ slots[j] = Nothing
            /\ s.preview = p /\ s.stage # "preview"
            /\ settles' = [slots EXCEPT ![j] = s]

LEMMA Begins ==
    ASSUME NEW out \in Decks, NEW in \in Decks, NEW p \in BOOLEAN,
           NEW dk \in [Decks -> DeckRec],
           NEW slots \in [SettleIds -> {Nothing} \cup SettleRec],
           ramp \in {Nothing} \cup RampRec,
           BeginTransition(out, in, p, dk, slots)
    PROVE  /\ deck' \in [Decks -> DeckRec]
           /\ ramp' \in {Nothing} \cup RampRec
           /\ settles' \in [SettleIds -> {Nothing} \cup SettleRec]
           /\ Begun(p, slots)
<1>1. CASE deck' = Patched(dk, in, PlayFrom(dk[in])) /\ ramp' = Ramp(out, in, p) /\ settles' = slots
  <2>1. deck' \in [Decks -> DeckRec]
    BY <1>1, DeckTypes, PatchedType
  <2>2. ramp' \in RampRec /\ ramp'.preview = p
    BY <1>1, RecordTypes DEF Ramp
  <2>3. QED
    BY <1>1, <2>1, <2>2 DEF Begun
<1>2. CASE \E stage \in {"rate", "seek"} :
             /\ Free(slots)
             /\ deck' \in {dk, Patched(dk, in, [dk[in] EXCEPT !.phase = "body"])}
             /\ settles' = Put(slots, Settle(out, in, p, stage))
             /\ ramp' = ramp
  <2>1. PICK stage \in {"rate", "seek"} :
             /\ Free(slots)
             /\ deck' \in {dk, Patched(dk, in, [dk[in] EXCEPT !.phase = "body"])}
             /\ settles' = Put(slots, Settle(out, in, p, stage))
             /\ ramp' = ramp
    BY <1>2
  <2>2. [dk[in] EXCEPT !.phase = "body"] \in DeckRec
    BY DEF DeckRec, Phases
  <2>3. deck' \in [Decks -> DeckRec]
    BY <2>1, <2>2, PatchedType
  <2> DEFINE s == Settle(out, in, p, stage)
  <2>4. s \in SettleRec /\ s.preview = p /\ s.stage # "preview"
    BY RecordTypes DEF Settle
  <2>5. \E j \in SettleIds : slots[j] = Nothing /\ settles' = [slots EXCEPT ![j] = s]
    <3>1. \E j \in SettleIds : slots[j] = Nothing /\ Put(slots, s) = [slots EXCEPT ![j] = s]
      BY <2>1, PutFree
    <3>2. QED
      BY <2>1, <3>1
  <2>6. QED
    BY <2>1, <2>3, <2>4, <2>5 DEF Begun
<1>3. QED
  BY <1>1, <1>2 DEF BeginTransition

LEMMA PutTask ==
    ASSUME TypeOK, Free(tasks), NEW x \in TaskRec
    PROVE  Put(tasks, x) \in [TaskIds -> {Nothing} \cup TaskRec]
<1>1. \E j \in TaskIds : Put(tasks, x) = [tasks EXCEPT ![j] = x]
  BY PutFree DEF TypeOK
<1>2. QED
  BY <1>1 DEF TypeOK

LEMMA TaskTypes ==
    ASSUME TypeOK, NEW t \in TaskRec
    PROVE  /\ LoadOf(t) \in TaskRec
           /\ AfterLoad(t) \in {Nothing} \cup TaskRec
           /\ \A r \in DeckRec : PlayedAfterLoad(t, r) \in DeckRec
<1>1. deck[t.deck].track \in Tracks \cup {NoTrack}
  BY DEF TypeOK, TaskRec, DeckRec
<1>2. LoadOf(t) \in TaskRec
  BY <1>1 DEF LoadOf, TaskRec
<1>3. AfterLoad(t) \in {Nothing} \cup TaskRec
  BY DEF AfterLoad, TaskRec
<1>4. QED
  BY <1>2, <1>3, DeckTypes DEF PlayedAfterLoad

LEMMA GuardType == ASSUME TypeOK PROVE GuardEnded(preview) \in PreviewRec
BY DEF TypeOK, PreviewRec, GuardEnded

----------------------------------------------------------------------------
(* Types. *)

LEMMA InitTypeOK == Init => TypeOK
<1> SUFFICES ASSUME Init PROVE TypeOK
  OBVIOUS
<1>1. \A t \in Tracks : Playing(t) \in DeckRec /\ Cued(t) \in DeckRec
  BY DEF Playing, Cued, EmptyDeck, DeckRec, Phases
<1>2. EmptyDeck \in DeckRec
  BY DEF EmptyDeck, DeckRec, Phases
<1>3. Queue # << >> => Queue[1] \in Tracks
  BY TracksAssumption
<1>4. deck \in [Decks -> DeckRec] /\ fader \in 0..2
  <2>1. CASE deck = [d \in Decks |-> EmptyDeck] /\ fader = 1
    BY <2>1, <1>2
  <2>2. CASE /\ Queue # << >>
             /\ \E r \in {EmptyDeck} \cup {Cued(t) : t \in Tracks \ {Queue[1]}} :
                  deck = [d \in Decks |-> IF d = Left THEN Playing(Queue[1]) ELSE r]
             /\ fader = FaderAt(Left)
    BY <2>2, <1>1, <1>2, <1>3, DecksType, FaderType
  <2>3. QED
    BY <2>1, <2>2 DEF Init
<1>5. QED
  BY <1>4 DEF Init, Idle, TypeOK, PreviewRec

LEMMA SettleTypeOK ==
    ASSUME TypeOK, NEW i \in SettleIds, RateSettled(i) \/ SeekSettled(i)
    PROVE  TypeOK'
<1> DEFINE s == settles[i]
<1>1. s \in SettleRec
  BY DEF TypeOK, RateSettled, SeekSettled
<1>2. s.in \in Decks /\ s.out \in Decks /\ s.preview \in BOOLEAN
  BY <1>1 DEF SettleRec
<1>3. CASE RateSettled(i)
  <2>1. [s EXCEPT !.stage = "seek"] \in SettleRec
    BY <1>1 DEF SettleRec
  <2>2. settles' \in [SettleIds -> {Nothing} \cup SettleRec]
    BY <1>3, <2>1 DEF RateSettled, TypeOK
  <2>3. [deck[s.in] EXCEPT !.phase = "body"] \in DeckRec
    BY <1>2 DEF TypeOK, DeckRec, Phases
  <2>4. deck' \in [Decks -> DeckRec]
    BY <1>2, <1>3, <2>3 DEF RateSettled, TypeOK
  <2>5. QED
    BY <1>3, <2>2, <2>4 DEF RateSettled, TypeOK, bookVars
<1>4. CASE SeekSettled(i)
  <2>1. deck[s.in] \in DeckRec
    BY <1>2 DEF TypeOK
  <2>2. PlayFrom(deck[s.in]) \in DeckRec
    BY <2>1, DeckTypes
  <2>3. Ramp(s.out, s.in, s.preview) \in RampRec
    BY <1>2, RecordTypes
  <2>4. deck' \in [Decks -> DeckRec] /\ ramp' \in {Nothing} \cup RampRec
    BY <1>2, <1>4, <2>2, <2>3 DEF SeekSettled, TypeOK
  <2>5. QED
    BY <1>4, <2>4 DEF SeekSettled, TypeOK, bookVars
<1>5. QED
  BY <1>3, <1>4

LEMMA RampTypeOK == TypeOK /\ (RampAborts \/ RampMoves \/ RampFinishes) => TypeOK'
<1> SUFFICES ASSUME TypeOK, RampAborts \/ RampMoves \/ RampFinishes PROVE TypeOK'
  OBVIOUS
<1>1. CASE RampAborts
  BY <1>1, GuardType DEF RampAborts, TypeOK, musicVars, bookVars
<1>2. CASE RampMoves
  BY <1>2 DEF RampMoves, TypeOK, bookVars, flightVars
<1>3. CASE RampFinishes
  <2>1. ramp.out \in Decks /\ ramp.in \in Decks
    BY <1>3 DEF RampFinishes, TypeOK, RampRec
  <2>2. Freed(deck[ramp.out]) \in DeckRec /\ [deck[ramp.out] EXCEPT !.playing = FALSE] \in DeckRec
    <3>1. deck[ramp.out] \in DeckRec
      BY <2>1 DEF TypeOK
    <3>2. QED
      BY <3>1, DeckTypes DEF DeckRec
  <2>3. [preview EXCEPT !.tail = TRUE] \in PreviewRec
    BY DEF TypeOK, PreviewRec
  <2>4. \E r \in DeckRec : deck' = [deck EXCEPT ![ramp.out] = r]
    BY <1>3, <2>2 DEF RampFinishes
  <2>5. deck' \in [Decks -> DeckRec]
    BY <2>4 DEF TypeOK
  <2>6. preview' \in PreviewRec
    BY <1>3, <2>3 DEF RampFinishes, TypeOK
  <2>7. QED
    BY <1>3, <2>1, <2>5, <2>6, FaderType DEF RampFinishes, TypeOK, bookVars
<1>4. QED
  BY <1>1, <1>2, <1>3

LEMMA PlaybackTypeOK ==
    ASSUME TypeOK, NEW d \in Decks,
           Advance(d) \/ Measure(d) \/ Heard(d) \/ PreloadTrigger(d) \/ MixTrigger(d) \/ Eos(d)
    PROVE  TypeOK'
<1>1. deck[d] \in DeckRec /\ Other(d) \in Decks /\ deck[Other(d)] \in DeckRec
  BY DecksType DEF TypeOK
<1>2. deck[d].track \in Tracks \cup {NoTrack}
  BY <1>1 DEF DeckRec
<1>3. CASE Advance(d) \/ Measure(d)
  <2>1. \E r \in DeckRec : deck' = [deck EXCEPT ![d] = r]
    BY <1>1, <1>3 DEF Advance, Measure, DeckRec, Phases
  <2>2. deck' \in [Decks -> DeckRec]
    BY <2>1 DEF TypeOK
  <2>3. QED
    BY <1>3, <2>2 DEF Advance, Measure, TypeOK, bookVars, flightVars
<1>4. CASE Heard(d)
  BY <1>2, <1>4 DEF Heard, TypeOK, musicVars, flightVars, Loaded
<1>5. CASE PreloadTrigger(d)
  <2>1. Task("preload", "pick", Other(d), deck[d].track, NoTrack, NoTrack) \in TaskRec
    BY <1>1, <1>2 DEF Task, TaskRec
  <2>2. tasks' \in [TaskIds -> {Nothing} \cup TaskRec]
    BY <1>5, <2>1, PutTask DEF PreloadTrigger
  <2>3. preloaded' \in [Decks -> Tracks \cup {NoTrack}]
    BY <1>2, <1>5 DEF PreloadTrigger, MarkedFetched, TypeOK
  <2>4. QED
    BY <1>5, <2>2, <2>3 DEF PreloadTrigger, TypeOK, musicVars
<1>6. CASE MixTrigger(d)
  <2>1. BeginTransition(d, Other(d), FALSE, deck, settles)
    BY <1>6 DEF MixTrigger
  <2>2. /\ deck' \in [Decks -> DeckRec]
        /\ ramp' \in {Nothing} \cup RampRec
        /\ settles' \in [SettleIds -> {Nothing} \cup SettleRec]
    BY <1>1, <2>1, Begins DEF TypeOK
  <2>3. handled' \in [Decks -> Tracks \cup {NoTrack}]
    BY <1>2, <1>6 DEF MixTrigger, Marked, TypeOK
  <2>4. QED
    BY <1>6, <2>2, <2>3 DEF MixTrigger, TypeOK
<1>7. CASE Eos(d)
  <2> DEFINE stopped == [deck[d] EXCEPT !.playing = FALSE, !.phase = "end"]
  <2>1. stopped \in DeckRec
    BY <1>1 DEF DeckRec, Phases
  <2>2. ASSUME deck' = [deck EXCEPT ![d] = stopped] PROVE deck' \in [Decks -> DeckRec]
    BY <2>1, <2>2 DEF TypeOK
  <2>3. ASSUME deck' = [deck EXCEPT ![d] = Freed(deck[d]), ![Other(d)] = PlayFrom(deck[Other(d)])]
        PROVE  deck' \in [Decks -> DeckRec]
    <3>1. Freed(deck[d]) \in DeckRec /\ PlayFrom(deck[Other(d)]) \in DeckRec
      BY <1>1, DeckTypes
    <3>2. QED
      BY <2>3, <3>1 DEF TypeOK
  <2>5. deck' \in [Decks -> DeckRec]
    <3>1. \/ deck' = [deck EXCEPT ![d] = stopped]
          \/ deck' = [deck EXCEPT ![d] = Freed(deck[d]), ![Other(d)] = PlayFrom(deck[Other(d)])]
      BY <1>7 DEF Eos
    <3>2. QED
      BY <2>2, <2>3, <3>1
  <2>6. Task("eos", "pick", d, deck[d].track, NoTrack, NoTrack) \in TaskRec
    BY <1>2 DEF Task, TaskRec
  <2>7. tasks' \in [TaskIds -> {Nothing} \cup TaskRec]
    BY <1>7, <2>6, PutTask DEF Eos, TypeOK
  <2>8. fader' \in 0..2
    BY <1>1, <1>7, FaderType DEF Eos, TypeOK
  <2>9. QED
    BY <1>7, <2>5, <2>7, <2>8 DEF Eos, TypeOK, bookVars
<1>8. QED
  BY <1>3, <1>4, <1>5, <1>6, <1>7

\* What skipCurrentTrack does in the end.
LEMMA SkipTypes ==
    ASSUME TypeOK, NEW out \in Decks, NEW in \in Decks, NEW t \in Tracks \cup {NoTrack},
           SkipTransition(out, in, t)
    PROVE  /\ deck' \in [Decks -> DeckRec]
           /\ ramp' \in {Nothing} \cup RampRec
           /\ settles' \in [SettleIds -> {Nothing} \cup SettleRec]
           /\ handled' \in [Decks -> Tracks \cup {NoTrack}]
           /\ used' \subseteq Tracks
<1>1. CASE BeginTransition(out, in, FALSE, deck, settles)
           /\ handled' = (IF t = NoTrack THEN handled ELSE Marked(out, t))
           /\ used' = used \cup ({t} \ {NoTrack})
  <2>1. /\ deck' \in [Decks -> DeckRec]
        /\ ramp' \in {Nothing} \cup RampRec
        /\ settles' \in [SettleIds -> {Nothing} \cup SettleRec]
    BY <1>1, Begins DEF TypeOK
  <2>2. QED
    BY <1>1, <2>1 DEF TypeOK, Marked
<1>2. CASE UNCHANGED <<handled, used, deck, ramp, settles>>
  BY <1>2 DEF TypeOK
<1>3. QED
  BY <1>1, <1>2 DEF SkipTransition

LEMMA TaskTypeOK ==
    ASSUME TypeOK, NEW i \in TaskIds,
           \/ TrackPicked(i) \/ TaskFails(i) \/ AskAnswered(i)
           \/ PayloadArrives(i) \/ SkipReady(i)
    PROVE  TypeOK'
<1> DEFINE t == tasks[i]
<1>1. t \in TaskRec
  BY DEF TypeOK, TrackPicked, TaskFails, AskAnswered, PayloadArrives, SkipReady
<1>2. /\ t.deck \in Decks /\ deck[t.deck] \in DeckRec
      /\ t.anchor \in Tracks \cup {NoTrack}
      /\ t.track \in Tracks \cup {NoTrack}
      /\ t.prev \in Tracks \cup {NoTrack}
  BY <1>1 DEF TypeOK, TaskRec
<1>3. CASE TrackPicked(i)
  <2>1. PICK x \in Tracks :
          tasks' = [tasks EXCEPT ![i] =
            IF @.kind = "preload" /\ ~(deck[@.deck].present /\ deck[@.deck].track = NoTrack)
            THEN Nothing
            ELSE LoadOf([@ EXCEPT !.track = x])]
    BY <1>3, PicksType DEF TrackPicked
  <2>2. [t EXCEPT !.track = x] \in TaskRec
    BY <1>1 DEF TaskRec
  <2>3. LoadOf([t EXCEPT !.track = x]) \in TaskRec
    BY <2>2, TaskTypes
  <2>4. \E y \in {Nothing} \cup TaskRec : tasks' = [tasks EXCEPT ![i] = y]
    BY <2>1, <2>3
  <2>5. tasks' \in [TaskIds -> {Nothing} \cup TaskRec]
    BY <2>4 DEF TypeOK
  <2>6. QED
    BY <1>3, <2>5 DEF TrackPicked, TypeOK, musicVars, bookVars
<1>4. CASE TaskFails(i)
  BY <1>4 DEF TaskFails, TypeOK, musicVars, bookVars
<1>5. CASE AskAnswered(i)
  <2>1. [t EXCEPT !.stage = "payload"] \in TaskRec
    BY <1>1 DEF TaskRec
  <2>2. \E y \in {Nothing} \cup TaskRec : tasks' = [tasks EXCEPT ![i] = y]
    BY <1>1, <1>5, <2>1, TaskTypes DEF AskAnswered
  <2>3. tasks' \in [TaskIds -> {Nothing} \cup TaskRec]
    BY <2>2 DEF TypeOK
  <2>4. PlayedAfterLoad(t, deck[t.deck]) \in DeckRec
    BY <1>1, <1>2, TaskTypes
  <2>5. deck' \in [Decks -> DeckRec]
    <3>1. deck' = deck \/ deck' = Patched(deck, t.deck, PlayedAfterLoad(t, deck[t.deck]))
      BY <1>5 DEF AskAnswered
    <3>2. QED
      BY <1>2, <2>4, <3>1 DEF TypeOK, Patched
  <2>6. QED
    BY <1>5, <2>3, <2>5 DEF AskAnswered, TypeOK, bookVars
<1>6. CASE PayloadArrives(i)
  <2>1. WithTrack(deck[t.deck], t.track) \in DeckRec
    BY <1>2, DeckTypes
  <2>2. PlayedAfterLoad(t, WithTrack(deck[t.deck], t.track)) \in DeckRec
    BY <1>1, <2>1, TaskTypes
  <2>3. deck' \in [Decks -> DeckRec]
    BY <1>2, <1>6, <2>2, PatchedType DEF PayloadArrives, TypeOK
  <2>4. \E y \in {Nothing} \cup TaskRec : tasks' = [tasks EXCEPT ![i] = y]
    BY <1>1, <1>6, TaskTypes DEF PayloadArrives
  <2>5. tasks' \in [TaskIds -> {Nothing} \cup TaskRec]
    BY <2>4 DEF TypeOK
  <2>6. used' \subseteq Tracks
    BY <1>2, <1>6 DEF PayloadArrives, TypeOK
  <2>7. QED
    BY <1>6, <2>3, <2>5, <2>6 DEF PayloadArrives, TypeOK
<1>7. CASE SkipReady(i)
  <2>1. tasks' \in [TaskIds -> {Nothing} \cup TaskRec]
    BY <1>7 DEF SkipReady, TypeOK
  <2>2. CASE SkipTransition(Other(t.deck), t.deck, t.anchor)
    BY <1>2, <1>7, <2>1, <2>2, SkipTypes, DecksType DEF SkipReady, TypeOK
  <2>3. CASE UNCHANGED <<handled, used, deck, ramp, settles>>
    BY <1>7, <2>1, <2>3 DEF SkipReady, TypeOK
  <2>4. QED
    BY <1>7, <2>2, <2>3 DEF SkipReady
<1>8. QED
  BY <1>3, <1>4, <1>5, <1>6, <1>7

LEMMA PreviewTypeOK ==
    ASSUME TypeOK,
           \/ FinishPreview \/ PreviewGuardExpires
           \/ \E i \in SettleIds : PreviewSettled(i)
           \/ \E d \in Decks : Preview(d)
    PROVE  TypeOK'
<1>1. CASE FinishPreview
  <2> DEFINE r == preview.restore
  <2>1. [GuardEnded(preview) EXCEPT !.tail = FALSE] \in PreviewRec
    BY GuardType DEF PreviewRec
  <2>2. CASE r # Nothing
    <3>1. r.in \in Decks /\ r.fader \in 0..2
      BY <2>2 DEF TypeOK, PreviewRec
    <3>2. [deck[r.in] EXCEPT !.playing = FALSE, !.phase = "body"] \in DeckRec
      <4>1. deck[r.in] \in DeckRec
        BY <3>1 DEF TypeOK
      <4>2. QED
        BY <4>1 DEF DeckRec, Phases
    <3>3. ASSUME deck' = [deck EXCEPT ![r.in].playing = FALSE, ![r.in].phase = "body"]
          PROVE  deck' \in [Decks -> DeckRec]
      <4>1. deck' = [deck EXCEPT ![r.in] = [deck[r.in] EXCEPT !.playing = FALSE, !.phase = "body"]]
        BY <3>1, <3>3 DEF TypeOK
      <4>2. QED
        BY <3>1, <3>2, <4>1 DEF TypeOK
    <3>4. deck' \in [Decks -> DeckRec] /\ fader' \in 0..2
      BY <1>1, <2>2, <3>1, <3>3 DEF FinishPreview, TypeOK
    <3>5. QED
      BY <1>1, <2>1, <3>4 DEF FinishPreview, TypeOK, bookVars
  <2>3. CASE r = Nothing
    BY <1>1, <2>1, <2>3 DEF FinishPreview, TypeOK, bookVars
  <2>4. QED
    BY <2>2, <2>3
<1>2. CASE PreviewGuardExpires
  BY <1>2, GuardType DEF PreviewGuardExpires, TypeOK, musicVars, bookVars
<1>3. ASSUME NEW i \in SettleIds, PreviewSettled(i) PROVE TypeOK'
  <2> DEFINE s == settles[i]
             others == [settles EXCEPT ![i] = Nothing]
  <2>1. s.out \in Decks /\ s.in \in Decks
    BY <1>3 DEF PreviewSettled, TypeOK, SettleRec
  <2>2. others \in [SettleIds -> {Nothing} \cup SettleRec]
    BY DEF TypeOK
  <2>3. CASE BothExist
    <3>1. BeginTransition(s.out, s.in, TRUE, deck, others)
      BY <1>3, <2>3 DEF PreviewSettled
    <3>2. /\ deck' \in [Decks -> DeckRec]
          /\ ramp' \in {Nothing} \cup RampRec
          /\ settles' \in [SettleIds -> {Nothing} \cup SettleRec]
      <4>1. deck \in [Decks -> DeckRec] /\ ramp \in {Nothing} \cup RampRec
        BY DEF TypeOK
      <4>2. QED
        BY <2>1, <2>2, <3>1, <4>1, Begins
    <3>3. QED
      BY <1>3, <2>3, <3>2 DEF PreviewSettled, TypeOK, bookVars
  <2>4. CASE ~BothExist
    BY <1>3, <2>2, <2>4, GuardType DEF PreviewSettled, TypeOK, bookVars
  <2>5. QED
    BY <2>3, <2>4
<1>4. ASSUME NEW d \in Decks, Preview(d) PROVE TypeOK'
  <2> DEFINE o == Other(d)
  <2>1. o \in Decks /\ o # d
    BY DecksAssumption, DecksType DEF Other, Decks
  <2>2. /\ [deck[d] EXCEPT !.playing = TRUE, !.phase = "mix"] \in DeckRec
        /\ [deck[o] EXCEPT !.phase = "body"] \in DeckRec
    <3>1. deck[d] \in DeckRec /\ deck[o] \in DeckRec
      BY <2>1 DEF TypeOK
    <3>2. QED
      BY <3>1 DEF DeckRec, Phases
  <2>3. \E x \in DeckRec, y \in DeckRec : deck' = [deck EXCEPT ![d] = x, ![o] = y]
    BY <1>4, <2>1, <2>2 DEF Preview, TypeOK
  <2>4. deck' \in [Decks -> DeckRec]
    BY <2>1, <2>3 DEF TypeOK
  <2>5. \E j \in SettleIds : settles' = [settles EXCEPT ![j] = Settle(d, o, TRUE, "preview")]
    <3>1. Free(settles) /\ settles' = Put(settles, Settle(d, o, TRUE, "preview"))
      BY <1>4 DEF Preview
    <3>2. DOMAIN settles = SettleIds
      BY DEF TypeOK
    <3>3. QED
      BY <3>1, <3>2, PutFree
  <2>6. settles' \in [SettleIds -> {Nothing} \cup SettleRec]
    BY <2>1, <2>5, RecordTypes DEF TypeOK
  <2>7. preview' \in PreviewRec
    BY <1>4, <2>1 DEF Preview, TypeOK, PreviewRec
  <2>8. QED
    BY <1>4, <2>4, <2>6, <2>7, FaderType DEF Preview, TypeOK, bookVars
<1>5. QED
  BY <1>1, <1>2, <1>3, <1>4

LEMMA SkipTypeOK ==
    ASSUME TypeOK, SkipUpcoming \/ \E d \in Decks : SkipCurrent(d)
    PROVE  TypeOK'
<1>1. CASE SkipUpcoming
  <2>1. PICK d \in Decks :
          /\ Free(tasks)
          /\ used' = used \cup ({deck[d].track} \ {NoTrack})
          /\ tasks' = Put(tasks, Task("skipUp", "pick", d, deck[Other(d)].track, NoTrack, NoTrack))
          /\ UNCHANGED <<musicVars, autoDj, handled, preloaded, ramp, settles, preview>>
    BY <1>1 DEF SkipUpcoming
  <2>2. deck[d].track \in Tracks \cup {NoTrack} /\ deck[Other(d)].track \in Tracks \cup {NoTrack}
    BY DecksType DEF TypeOK, DeckRec
  <2>3. Task("skipUp", "pick", d, deck[Other(d)].track, NoTrack, NoTrack) \in TaskRec
    BY <2>2 DEF Task, TaskRec
  <2>4. tasks' \in [TaskIds -> {Nothing} \cup TaskRec]
    BY <2>1, <2>3, PutTask
  <2>5. QED
    BY <2>1, <2>2, <2>4 DEF TypeOK, musicVars
<1>2. ASSUME NEW d \in Decks, SkipCurrent(d) PROVE TypeOK'
  <2>1. Other(d) \in Decks /\ deck[d].track \in Tracks \cup {NoTrack}
    BY DecksType DEF TypeOK, DeckRec
  <2>2. CASE SkipTransition(d, Other(d), deck[d].track) /\ UNCHANGED tasks
    <3>1. /\ deck' \in [Decks -> DeckRec]
          /\ ramp' \in {Nothing} \cup RampRec
          /\ settles' \in [SettleIds -> {Nothing} \cup SettleRec]
          /\ handled' \in [Decks -> Tracks \cup {NoTrack}]
          /\ used' \subseteq Tracks
      BY <2>1, <2>2, SkipTypes
    <3>2. QED
      BY <1>2, <2>2, <3>1 DEF SkipCurrent, TypeOK
  <2>3. ASSUME NEW stage \in {"ready", "pick"}, Free(tasks),
               tasks' = Put(tasks, Task("skipNow", stage, Other(d), deck[d].track, NoTrack, NoTrack)),
               UNCHANGED <<handled, used, deck, ramp, settles>>
        PROVE  TypeOK'
    <3>1. Task("skipNow", stage, Other(d), deck[d].track, NoTrack, NoTrack) \in TaskRec
      BY <2>1 DEF Task, TaskRec
    <3>2. tasks' \in [TaskIds -> {Nothing} \cup TaskRec]
      BY <2>3, <3>1, PutTask
    <3>3. QED
      BY <1>2, <2>3, <3>2 DEF SkipCurrent, TypeOK
  <2>4. QED
    BY <1>2, <2>2, <2>3 DEF SkipCurrent
<1>3. QED
  BY <1>1, <1>2

LEMMA HandsTypeOK ==
    ASSUME TypeOK,
           \/ \E d \in Decks, t \in Tracks : ManualLoad(d, t)
           \/ \E d \in Decks : PlayToggle(d) \/ RemoveDeck(d) \/ AddDeck(d)
           \/ \E d \in Decks, p \in Phases : Seek(d, p)
           \/ \E v \in 0..2 : Touch(v)
           \/ ToggleAutoDj
    PROVE  TypeOK'
<1>1. ASSUME NEW d \in Decks, NEW t \in Tracks, ManualLoad(d, t) PROVE TypeOK'
  <2>1. Task("manual", "payload", d, NoTrack, t, NoTrack) \in TaskRec
    BY DEF Task, TaskRec
  <2>2. tasks' \in [TaskIds -> {Nothing} \cup TaskRec]
    BY <1>1, <2>1, TaskTypes, PutTask DEF ManualLoad
  <2>3. QED
    BY <1>1, <2>2 DEF ManualLoad, TypeOK, musicVars, bookVars
<1>2. ASSUME NEW d \in Decks, PlayToggle(d) PROVE TypeOK'
  <2>1. deck[d] \in DeckRec
    BY DEF TypeOK
  <2>2. \E r \in DeckRec : deck' = [deck EXCEPT ![d] = r]
    BY <1>2, <2>1, DeckTypes DEF PlayToggle, DeckRec
  <2>3. deck' \in [Decks -> DeckRec]
    BY <2>2 DEF TypeOK
  <2>4. \A e \in Decks : deck[e].track \in Tracks \cup {NoTrack}
    BY DEF TypeOK, DeckRec
  <2>5. handled' \in [Decks -> Tracks \cup {NoTrack}]
    BY <1>2, <2>4 DEF PlayToggle, TypeOK
  <2>6. QED
    BY <1>2, <2>3, <2>5 DEF PlayToggle, TypeOK, flightVars
<1>3. ASSUME NEW d \in Decks, RemoveDeck(d) \/ AddDeck(d) PROVE TypeOK'
  <2>1. EmptyDeck \in DeckRec /\ [EmptyDeck EXCEPT !.present = FALSE] \in DeckRec
    BY DEF EmptyDeck, DeckRec, Phases
  <2>2. deck' \in [Decks -> DeckRec]
    BY <1>3, <2>1 DEF RemoveDeck, AddDeck, TypeOK
  <2>3. QED
    BY <1>3, <2>2 DEF RemoveDeck, AddDeck, TypeOK, bookVars, flightVars
<1>4. ASSUME NEW d \in Decks, NEW p \in Phases, Seek(d, p) PROVE TypeOK'
  <2>1. [deck[d] EXCEPT !.phase = p] \in DeckRec
    BY DEF TypeOK, DeckRec
  <2>2. deck' \in [Decks -> DeckRec]
    BY <1>4, <2>1 DEF Seek, TypeOK
  <2>3. QED
    BY <1>4, <2>2 DEF Seek, TypeOK, bookVars, flightVars
<1>5. ASSUME NEW v \in 0..2, Touch(v) PROVE TypeOK'
  <2>1. ramp' \in {Nothing} \cup RampRec
    BY <1>5 DEF Touch, TypeOK, RampRec
  <2>2. ASSUME NEW i \in SettleIds PROVE settles'[i] \in {Nothing} \cup SettleRec
    <3>1. settles[i] # Nothing => [settles[i] EXCEPT !.touched = TRUE] \in SettleRec
      BY DEF TypeOK, SettleRec
    <3>2. QED
      BY <1>5, <3>1 DEF Touch, TypeOK
  <2>3. settles' \in [SettleIds -> {Nothing} \cup SettleRec]
    BY <1>5, <2>2 DEF Touch
  <2>4. QED
    BY <1>5, <2>1, <2>3 DEF Touch, TypeOK, bookVars
<1>6. CASE ToggleAutoDj
  BY <1>6 DEF ToggleAutoDj, TypeOK, musicVars, bookVars, flightVars
<1>7. QED
  BY <1>1, <1>2, <1>3, <1>4, <1>5, <1>6

LEMMA NextTypeOK == TypeOK /\ [Next]_vars => TypeOK'
<1> SUFFICES ASSUME TypeOK, [Next]_vars PROVE TypeOK'
  OBVIOUS
<1>1. CASE UNCHANGED vars
  BY <1>1 DEF TypeOK, vars
<1>2. CASE Automatic
  BY <1>2, SettleTypeOK, RampTypeOK, PlaybackTypeOK, TaskTypeOK, PreviewTypeOK DEF Automatic
<1>3. CASE Dj
  BY <1>3, SkipTypeOK, HandsTypeOK, PreviewTypeOK DEF Dj, Skip
<1>4. QED
  BY <1>1, <1>2, <1>3 DEF Next

\* The state of the Auto DJ always has its type, whatever the DJ does.
THEOREM TypeCorrect == Spec => []TypeOK
BY InitTypeOK, NextTypeOK, PTL DEF Spec

----------------------------------------------------------------------------
(* The preview's guard.  What keeps it up is that there is one preview at a   *)
(* time and that it is in one place: in a settle, in the ramp or in the tail. *)
(* Whoever ends the guard then knows that no other part of it is left.        *)

PreviewRamp == ramp # Nothing /\ ramp.preview
PreviewSettle(i) == settles[i] # Nothing /\ settles[i].preview

OnePreview ==
    /\ preview.tail => ~PreviewRamp /\ \A i \in SettleIds : ~PreviewSettle(i)
    /\ PreviewRamp => \A i \in SettleIds : ~PreviewSettle(i)
    /\ \A i, j \in SettleIds : PreviewSettle(i) /\ PreviewSettle(j) => i = j
    /\ \A i \in SettleIds :
          settles[i] # Nothing /\ settles[i].stage = "preview" => settles[i].preview

IInv == TypeOK /\ PreviewIsGuarded /\ OnePreview

LEMMA InitIInv == Init => IInv
<1> SUFFICES ASSUME Init PROVE IInv
  OBVIOUS
<1>1. ~preview.tail /\ ramp = Nothing /\ \A i \in SettleIds : settles[i] = Nothing
  BY DEF Init, Idle
<1>2. QED
  BY <1>1, InitTypeOK DEF IInv, PreviewIsGuarded, PreviewWork, OnePreview, PreviewRamp, PreviewSettle

\* A step that brings no preview and leaves the guard alone.
Fewer ==
    /\ preview'.inFlight = preview.inFlight
    /\ preview'.tail => preview.tail
    /\ PreviewRamp' => PreviewRamp
    /\ \A i \in SettleIds :
          /\ PreviewSettle(i)' => PreviewSettle(i)
          /\ settles'[i] # Nothing /\ settles'[i].stage = "preview" => settles'[i].preview

LEMMA FewerKeeps == PreviewIsGuarded /\ OnePreview /\ Fewer => PreviewIsGuarded' /\ OnePreview'
BY DEF Fewer, PreviewIsGuarded, OnePreview, PreviewWork, PreviewRamp, PreviewSettle

\* The start of a live transition.
LEMMA LiveBegins ==
    ASSUME TypeOK, OnePreview, NEW out \in Decks, NEW in \in Decks,
           BeginTransition(out, in, FALSE, deck, settles), preview' = preview
    PROVE  Fewer
<1>1. Begun(FALSE, settles)
  <2>1. /\ deck \in [Decks -> DeckRec] /\ ramp \in {Nothing} \cup RampRec
        /\ settles \in [SettleIds -> {Nothing} \cup SettleRec]
    BY DEF TypeOK
  <2>2. QED
    BY <2>1, Begins
<1>2. CASE ramp'.preview = FALSE /\ settles' = settles
  BY <1>2 DEF Fewer, OnePreview, PreviewRamp, PreviewSettle
<1>3. ASSUME NEW j \in SettleIds, NEW s \in SettleRec,
             s.preview = FALSE, s.stage # "preview",
             ramp' = ramp, settles' = [settles EXCEPT ![j] = s]
      PROVE  Fewer
  <2>1. settles'[j] = s /\ \A i \in SettleIds : i # j => settles'[i] = settles[i]
    BY <1>3 DEF TypeOK
  <2>2. QED
    BY <1>3, <2>1 DEF Fewer, OnePreview, PreviewRamp, PreviewSettle
<1>4. QED
  BY <1>1, <1>2, <1>3 DEF Begun

LEMMA SkipKeeps ==
    ASSUME TypeOK, OnePreview, NEW out \in Decks, NEW in \in Decks, NEW t,
           SkipTransition(out, in, t), preview' = preview
    PROVE  Fewer
<1>1. CASE BeginTransition(out, in, FALSE, deck, settles)
  BY <1>1, LiveBegins
<1>2. CASE UNCHANGED <<ramp, settles>>
  BY <1>2 DEF Fewer, OnePreview, PreviewRamp, PreviewSettle
<1>3. QED
  BY <1>1, <1>2 DEF SkipTransition

\* The settle of a preview, or of its seeks, becomes its ramp or its next settle.
LEMMA PreviewMovesOn ==
    ASSUME IInv, NEW i \in SettleIds, PreviewSettle(i), NEW s,
           \/ settles' = [settles EXCEPT ![i] = Nothing]
           \/ ramp' = ramp /\ settles' = [settles EXCEPT ![i] = s] /\ s.preview /\ s.stage # "preview"
           \/ /\ ramp' = ramp
              /\ \E j \in SettleIds :
                   /\ [settles EXCEPT ![i] = Nothing][j] = Nothing
                   /\ settles' = [[settles EXCEPT ![i] = Nothing] EXCEPT ![j] = s]
                   /\ s.preview /\ s.stage # "preview",
           preview' = preview
    PROVE  PreviewIsGuarded' /\ OnePreview'
<1>1. preview.inFlight /\ ~preview.tail /\ ~PreviewRamp
  BY DEF IInv, PreviewIsGuarded, PreviewWork, OnePreview, PreviewSettle
<1>2. \A j \in SettleIds : j # i => ~PreviewSettle(j)
  BY DEF IInv, OnePreview
<1>3. \A j \in SettleIds : settles[j] # Nothing /\ settles[j].stage = "preview" => settles[j].preview
  BY DEF IInv, OnePreview
<1>4. settles \in [SettleIds -> {Nothing} \cup SettleRec]
  BY DEF IInv, TypeOK
<1>5. PreviewIsGuarded'
  BY <1>1 DEF PreviewIsGuarded
<1>6. CASE settles' = [settles EXCEPT ![i] = Nothing]
  <2>1. \A k \in SettleIds : settles'[k] = IF k = i THEN Nothing ELSE settles[k]
    BY <1>4, <1>6
  <2>2. \A k \in SettleIds : ~PreviewSettle(k)'
    BY <1>2, <2>1 DEF PreviewSettle
  <2>3. \A k \in SettleIds : settles'[k] # Nothing /\ settles'[k].stage = "preview" => settles'[k].preview
    BY <1>3, <2>1
  <2>4. OnePreview'
    BY <1>1, <2>2, <2>3 DEF OnePreview
  <2>5. QED
    BY <1>5, <2>4
<1>7. ASSUME NEW j \in SettleIds, ramp' = ramp, s.preview, s.stage # "preview",
             settles' = [[settles EXCEPT ![i] = Nothing] EXCEPT ![j] = s]
      PROVE  OnePreview'
  <2>1. \A k \in SettleIds : settles'[k] = IF k = j THEN s ELSE IF k = i THEN Nothing ELSE settles[k]
    BY <1>4, <1>7
  <2>2. \A k \in SettleIds : k # j => ~PreviewSettle(k)'
    BY <1>2, <2>1 DEF PreviewSettle
  <2>3. \A k \in SettleIds : settles'[k] # Nothing /\ settles'[k].stage = "preview" => settles'[k].preview
    BY ZenonT(40), <1>3, <1>7, <2>1
  <2>4. ~preview'.tail /\ ~PreviewRamp'
    BY <1>1, <1>7 DEF PreviewRamp
  <2>5. QED
    BY <2>2, <2>3, <2>4 DEF OnePreview
<1>8. CASE ramp' = ramp /\ settles' = [settles EXCEPT ![i] = s] /\ s.preview /\ s.stage # "preview"
  <2>1. settles' = [[settles EXCEPT ![i] = Nothing] EXCEPT ![i] = s]
    BY <1>4, <1>8
  <2>2. OnePreview'
    BY <1>7, <1>8, <2>1
  <2>3. QED
    BY <1>5, <2>2
<1>9. QED
  BY <1>5, <1>6, <1>7, <1>8

LEMMA SettleIInv ==
    ASSUME IInv, NEW i \in SettleIds, RateSettled(i) \/ SeekSettled(i)
    PROVE  IInv'
<1>1. TypeOK'
  BY SettleTypeOK DEF IInv
<1>2. preview' = preview /\ settles[i] # Nothing /\ settles[i].stage # "preview"
  BY DEF RateSettled, SeekSettled
<1>3. settles \in [SettleIds -> {Nothing} \cup SettleRec]
  BY DEF IInv, TypeOK
<1>4. \/ settles' = [settles EXCEPT ![i] = Nothing] /\ ramp' = ramp
      \/ ramp' = ramp /\ settles' = [settles EXCEPT ![i] = [settles[i] EXCEPT !.stage = "seek"]]
      \/ /\ settles' = [settles EXCEPT ![i] = Nothing]
         /\ ramp' = Ramp(settles[i].out, settles[i].in, settles[i].preview)
  BY <1>3 DEF RateSettled, SeekSettled
<1>5. CASE PreviewSettle(i)
  <2> DEFINE s == [settles[i] EXCEPT !.stage = "seek"]
  <2>1. s.preview /\ s.stage # "preview"
    BY <1>2, <1>3, <1>5 DEF PreviewSettle, SettleRec
  <2>2. \/ settles' = [settles EXCEPT ![i] = Nothing]
        \/ ramp' = ramp /\ settles' = [settles EXCEPT ![i] = s]
    BY <1>4
  <2>3. PreviewIsGuarded' /\ OnePreview'
    BY <1>2, <1>5, <2>1, <2>2, PreviewMovesOn
  <2>4. QED
    BY <1>1, <2>3 DEF IInv
<1>6. CASE ~PreviewSettle(i)
  <2>1. settles[i] \in SettleRec /\ settles[i].preview = FALSE
    BY <1>2, <1>3, <1>6 DEF PreviewSettle, SettleRec
  <2>2. PreviewRamp' => PreviewRamp
    BY <1>4, <2>1 DEF PreviewRamp, Ramp
  <2>3. \A j \in SettleIds : PreviewSettle(j)' => PreviewSettle(j)
    BY <1>3, <1>4, <2>1 DEF PreviewSettle, SettleRec
  <2>4. \A j \in SettleIds : settles'[j] # Nothing /\ settles'[j].stage = "preview" => settles'[j].preview
    BY <1>3, <1>4, <2>1 DEF IInv, OnePreview, SettleRec
  <2>5. Fewer
    BY <1>2, <2>2, <2>3, <2>4 DEF Fewer
  <2>6. QED
    BY <1>1, <2>5, FewerKeeps DEF IInv
<1>7. QED
  BY <1>5, <1>6

LEMMA RampIInv == IInv /\ (RampAborts \/ RampMoves \/ RampFinishes) => IInv'
<1> SUFFICES ASSUME IInv, RampAborts \/ RampMoves \/ RampFinishes PROVE IInv'
  OBVIOUS
<1>1. TypeOK'
  BY RampTypeOK DEF IInv
<1>2. CASE RampMoves
  BY <1>1, <1>2, FewerKeeps DEF RampMoves, flightVars, Fewer, IInv, OnePreview, PreviewRamp, PreviewSettle
<1>3. CASE (RampAborts \/ RampFinishes) /\ ~PreviewRamp
  <2>1. ramp' = Nothing /\ settles' = settles /\ preview' = preview
    BY <1>3 DEF RampAborts, RampFinishes, PreviewRamp
  <2>2. Fewer
    BY <2>1 DEF Fewer, IInv, OnePreview, PreviewRamp, PreviewSettle
  <2>3. QED
    BY <1>1, <2>2, FewerKeeps DEF IInv
<1>4. CASE (RampAborts \/ RampFinishes) /\ PreviewRamp
  <2>1. /\ preview.inFlight /\ ~preview.tail
        /\ \A i \in SettleIds : ~PreviewSettle(i)
    BY <1>4 DEF IInv, PreviewIsGuarded, PreviewWork, OnePreview, PreviewRamp
  <2>2. /\ ramp' = Nothing /\ settles' = settles
        /\ preview' \in {GuardEnded(preview), [preview EXCEPT !.tail = TRUE]}
    BY <1>4 DEF RampAborts, RampFinishes, PreviewRamp
  <2>3. preview \in PreviewRec
    BY DEF IInv, TypeOK
  <2>4. preview'.tail => preview'.inFlight
    BY <2>1, <2>2, <2>3 DEF GuardEnded, PreviewRec
  <2>5. \A i \in SettleIds : ~PreviewSettle(i)'
    BY <2>1, <2>2 DEF PreviewSettle
  <2>6. ~PreviewRamp'
    BY <2>2 DEF PreviewRamp
  <2>7. \A i \in SettleIds :
          settles'[i] # Nothing /\ settles'[i].stage = "preview" => settles'[i].preview
    BY <2>2 DEF IInv, OnePreview
  <2>8. PreviewIsGuarded'
    BY <2>4, <2>5, <2>6 DEF PreviewIsGuarded, PreviewWork, PreviewRamp, PreviewSettle
  <2>9. QED
    BY <1>1, <2>5, <2>6, <2>7, <2>8 DEF IInv, OnePreview
<1>5. QED
  BY <1>2, <1>3, <1>4

LEMMA PreviewSettledIInv == ASSUME IInv, NEW i \in SettleIds, PreviewSettled(i) PROVE IInv'
<1> DEFINE s == settles[i]
           others == [settles EXCEPT ![i] = Nothing]
<1>1. TypeOK'
  BY PreviewTypeOK DEF IInv
<1>2. PreviewSettle(i)
  BY DEF PreviewSettled, PreviewSettle, IInv, OnePreview
<1>3. CASE BothExist
  <2>1. BeginTransition(s.out, s.in, TRUE, deck, others) /\ preview' = preview
    BY <1>3 DEF PreviewSettled
  <2>2. s.out \in Decks /\ s.in \in Decks
    BY <1>2 DEF PreviewSettle, IInv, TypeOK, SettleRec
  <2>3. others \in [SettleIds -> {Nothing} \cup SettleRec]
    BY DEF IInv, TypeOK
  <2>4. Begun(TRUE, others)
    <3>1. deck \in [Decks -> DeckRec] /\ ramp \in {Nothing} \cup RampRec
      BY DEF IInv, TypeOK
    <3>2. QED
      BY <2>1, <2>2, <2>3, <3>1, Begins
  <2>5. CASE settles' = others
    <3>1. PreviewIsGuarded' /\ OnePreview'
      BY <1>2, <2>1, <2>5, PreviewMovesOn
    <3>2. QED
      BY <1>1, <3>1 DEF IInv
  <2>6. ASSUME NEW j \in SettleIds, NEW r \in SettleRec, ramp' = ramp, others[j] = Nothing,
               r.preview = TRUE, r.stage # "preview", settles' = [others EXCEPT ![j] = r]
        PROVE  IInv'
    <3>1. PreviewIsGuarded' /\ OnePreview'
      BY <1>2, <2>1, <2>6, PreviewMovesOn
    <3>2. QED
      BY <1>1, <3>1 DEF IInv
  <2>7. QED
    BY <2>4, <2>5, <2>6 DEF Begun
<1>4. CASE ~BothExist
  <2>1. settles' = others /\ ramp' = ramp /\ preview' = GuardEnded(preview)
    BY <1>4 DEF PreviewSettled
  <2>2. ~preview.tail /\ ~PreviewRamp /\ \A j \in SettleIds : j # i => ~PreviewSettle(j)
    BY <1>2 DEF IInv, OnePreview
  <2>3. \A j \in SettleIds : settles'[j] = IF j = i THEN Nothing ELSE settles[j]
    BY <2>1 DEF IInv, TypeOK
  <2>4. \A j \in SettleIds : ~PreviewSettle(j)'
    BY <2>2, <2>3 DEF PreviewSettle
  <2>5. ~preview'.tail
    BY <2>1, <2>2 DEF GuardEnded, IInv, TypeOK, PreviewRec
  <2>6. ~PreviewRamp'
    BY <2>1, <2>2 DEF PreviewRamp
  <2>7. \A j \in SettleIds :
          settles'[j] # Nothing /\ settles'[j].stage = "preview" => settles'[j].preview
    BY <2>3 DEF IInv, OnePreview
  <2>8. PreviewIsGuarded'
    BY <2>4, <2>5, <2>6 DEF PreviewIsGuarded, PreviewWork, PreviewRamp, PreviewSettle
  <2>9. QED
    BY <1>1, <2>4, <2>5, <2>6, <2>7, <2>8 DEF IInv, OnePreview
<1>5. QED
  BY <1>3, <1>4

\* The tail ends, or the guard's timer fires: no preview is left.
LEMMA PreviewEndsIInv == IInv /\ (FinishPreview \/ PreviewGuardExpires) => IInv'
<1> SUFFICES ASSUME IInv, FinishPreview \/ PreviewGuardExpires PROVE IInv'
  OBVIOUS
<1>1. TypeOK'
  BY PreviewTypeOK DEF IInv
<1>2. ramp' = ramp /\ settles' = settles
  BY DEF FinishPreview, PreviewGuardExpires
<1>3. ~PreviewRamp /\ \A i \in SettleIds : ~PreviewSettle(i)
  <2>1. CASE FinishPreview
    BY <2>1 DEF FinishPreview, IInv, OnePreview
  <2>2. CASE PreviewGuardExpires
    BY <2>2 DEF PreviewGuardExpires, PreviewRamp, PreviewSettle
  <2>3. QED
    BY <2>1, <2>2
<1>4. ~preview'.tail
  BY DEF FinishPreview, PreviewGuardExpires, GuardEnded, IInv, TypeOK, PreviewRec
<1>5. ~PreviewRamp' /\ \A i \in SettleIds : ~PreviewSettle(i)'
  BY <1>2, <1>3 DEF PreviewRamp, PreviewSettle
<1>6. \A i \in SettleIds :
        settles'[i] # Nothing /\ settles'[i].stage = "preview" => settles'[i].preview
  BY <1>2 DEF IInv, OnePreview
<1>7. PreviewIsGuarded'
  BY <1>4, <1>5 DEF PreviewIsGuarded, PreviewWork, PreviewRamp, PreviewSettle
<1>8. QED
  BY <1>1, <1>4, <1>5, <1>6, <1>7 DEF IInv, OnePreview

\* A press while no preview is under way puts the only preview into a settle.
LEMMA PreviewIInv == ASSUME IInv, NEW d \in Decks, Preview(d), ~preview.inFlight PROVE IInv'
<1> DEFINE s == Settle(d, Other(d), TRUE, "preview")
<1>1. TypeOK'
  BY PreviewTypeOK DEF IInv
<1>2. \A i \in SettleIds : ~PreviewSettle(i)
  BY DEF IInv, PreviewIsGuarded, PreviewWork, PreviewSettle
<1>3. Free(settles) /\ settles' = Put(settles, s) /\ ramp' = Nothing
  BY DEF Preview
<1>4. preview'.inFlight /\ ~preview'.tail
  BY DEF Preview
<1>5. settles \in [SettleIds -> {Nothing} \cup SettleRec]
  BY DEF IInv, TypeOK
<1>6. PICK j \in SettleIds : settles' = [settles EXCEPT ![j] = s]
  BY <1>3, <1>5, PutFree
<1>7. \A i \in SettleIds : settles'[i] = IF i = j THEN s ELSE settles[i]
  BY <1>5, <1>6
<1>8. \A i \in SettleIds : i # j => ~PreviewSettle(i)'
  BY <1>2, <1>7 DEF PreviewSettle
<1>9. \A i \in SettleIds :
        settles'[i] # Nothing /\ settles'[i].stage = "preview" => settles'[i].preview
  <2>1. s.preview
    BY DEF Settle
  <2>2. \A i \in SettleIds : settles[i] # Nothing /\ settles[i].stage = "preview" => settles[i].preview
    BY DEF IInv, OnePreview
  <2>3. QED
    BY <1>7, <2>1, <2>2
<1>10. ~PreviewRamp'
  BY <1>3 DEF PreviewRamp
<1>11. PreviewIsGuarded'
  BY <1>4 DEF PreviewIsGuarded
<1>12. QED
  BY <1>1, <1>4, <1>8, <1>9, <1>10, <1>11 DEF IInv, OnePreview

----------------------------------------------------------------------------
(* The steps that have no part in a preview. *)

LEMMA QuietKeeps == OnePreview /\ UNCHANGED <<ramp, settles, preview>> => Fewer
BY DEF OnePreview, Fewer, PreviewRamp, PreviewSettle

LEMMA PlaybackIInv ==
    ASSUME IInv, NEW d \in Decks,
           Advance(d) \/ Measure(d) \/ Heard(d) \/ PreloadTrigger(d) \/ MixTrigger(d) \/ Eos(d)
    PROVE  IInv'
<1>1. TypeOK'
  BY PlaybackTypeOK DEF IInv
<1>2. Fewer
  <2>1. CASE MixTrigger(d)
    <3>1. BeginTransition(d, Other(d), FALSE, deck, settles) /\ preview' = preview
      BY <2>1 DEF MixTrigger
    <3>2. QED
      BY <3>1, DecksType, LiveBegins DEF IInv
  <2>2. CASE Advance(d) \/ Measure(d) \/ Heard(d) \/ PreloadTrigger(d) \/ Eos(d)
    <3>1. UNCHANGED <<ramp, settles, preview>>
      BY <2>2 DEF Advance, Measure, Heard, PreloadTrigger, Eos, flightVars
    <3>2. QED
      BY <3>1, QuietKeeps DEF IInv
  <2>3. QED
    BY <2>1, <2>2
<1>3. QED
  BY <1>1, <1>2, FewerKeeps DEF IInv

LEMMA TaskIInv ==
    ASSUME IInv, NEW i \in TaskIds,
           \/ TrackPicked(i) \/ TaskFails(i) \/ AskAnswered(i)
           \/ PayloadArrives(i) \/ SkipReady(i)
    PROVE  IInv'
<1>1. TypeOK'
  BY TaskTypeOK DEF IInv
<1>2. Fewer
  <2>1. CASE SkipReady(i)
    <3>1. tasks[i].deck \in Decks /\ Other(tasks[i].deck) \in Decks
      BY <2>1, DecksType DEF SkipReady, IInv, TypeOK, TaskRec
    <3>2. preview' = preview
      BY <2>1 DEF SkipReady
    <3>3. CASE SkipTransition(Other(tasks[i].deck), tasks[i].deck, tasks[i].anchor)
      BY <3>1, <3>2, <3>3, SkipKeeps DEF IInv
    <3>4. CASE UNCHANGED <<ramp, settles>>
      BY <3>2, <3>4, QuietKeeps DEF IInv
    <3>5. QED
      BY <2>1, <3>3, <3>4 DEF SkipReady
  <2>2. CASE TrackPicked(i) \/ TaskFails(i) \/ AskAnswered(i) \/ PayloadArrives(i)
    <3>1. UNCHANGED <<ramp, settles, preview>>
      BY <2>2 DEF TrackPicked, TaskFails, AskAnswered, PayloadArrives
    <3>2. QED
      BY <3>1, QuietKeeps DEF IInv
  <2>3. QED
    BY <2>1, <2>2
<1>3. QED
  BY <1>1, <1>2, FewerKeeps DEF IInv

LEMMA SkipIInv ==
    ASSUME IInv, SkipUpcoming \/ \E d \in Decks : SkipCurrent(d)
    PROVE  IInv'
<1>1. TypeOK'
  BY SkipTypeOK DEF IInv
<1>2. CASE SkipUpcoming
  <2>1. UNCHANGED <<ramp, settles, preview>>
    BY <1>2 DEF SkipUpcoming
  <2>2. QED
    BY <1>1, <2>1, QuietKeeps, FewerKeeps DEF IInv
<1>3. ASSUME NEW d \in Decks, SkipCurrent(d) PROVE IInv'
  <2>1. preview' = preview
    BY <1>3 DEF SkipCurrent
  <2>2. Fewer
    <3>1. CASE SkipTransition(d, Other(d), deck[d].track)
      BY <2>1, <3>1, DecksType, SkipKeeps DEF IInv
    <3>2. CASE UNCHANGED <<ramp, settles>>
      BY <2>1, <3>2, QuietKeeps DEF IInv
    <3>3. QED
      BY <1>3, <3>1, <3>2 DEF SkipCurrent
  <2>3. QED
    BY <1>1, <2>2, FewerKeeps DEF IInv
<1>4. QED
  BY <1>2, <1>3

LEMMA HandsIInv ==
    ASSUME IInv,
           \/ \E d \in Decks, t \in Tracks : ManualLoad(d, t)
           \/ \E d \in Decks : PlayToggle(d) \/ RemoveDeck(d) \/ AddDeck(d)
           \/ \E d \in Decks, p \in Phases : Seek(d, p)
           \/ \E v \in 0..2 : Touch(v)
           \/ ToggleAutoDj
    PROVE  IInv'
<1>1. TypeOK'
  BY HandsTypeOK DEF IInv
<1>2. CASE UNCHANGED <<ramp, settles, preview>>
  BY <1>1, <1>2, QuietKeeps, FewerKeeps DEF IInv
<1>3. ASSUME NEW v \in 0..2, Touch(v) PROVE IInv'
  <2>1. PreviewRamp' => PreviewRamp
    BY <1>3 DEF Touch, PreviewRamp, IInv, TypeOK, RampRec
  <2>2. ASSUME NEW i \in SettleIds
        PROVE  /\ PreviewSettle(i)' => PreviewSettle(i)
               /\ settles'[i] # Nothing /\ settles'[i].stage = "preview" => settles'[i].preview
    <3>1. \/ settles'[i] = settles[i]
          \/ settles[i] # Nothing /\ settles'[i] = [settles[i] EXCEPT !.touched = TRUE]
      BY <1>3 DEF Touch
    <3>2. settles[i] # Nothing => settles[i] \in SettleRec
      BY DEF IInv, TypeOK
    <3>3. settles[i] # Nothing /\ settles[i].stage = "preview" => settles[i].preview
      BY DEF IInv, OnePreview
    <3>4. QED
      BY <3>1, <3>2, <3>3 DEF PreviewSettle, SettleRec
  <2>3. preview' = preview
    BY <1>3 DEF Touch
  <2>4. Fewer
    BY <2>1, <2>2, <2>3 DEF Fewer
  <2>5. QED
    BY <1>1, <2>4, FewerKeeps DEF IInv
<1>4. QED
  BY <1>2, <1>3 DEF ManualLoad, PlayToggle, RemoveDeck, AddDeck, Seek, ToggleAutoDj, flightVars

LEMMA NextIInv == ASSUME "previewAgain" \notin Events PROVE IInv /\ [Next]_vars => IInv'
<1> SUFFICES ASSUME IInv, [Next]_vars PROVE IInv'
  OBVIOUS
<1>1. CASE UNCHANGED vars
  <2>1. TypeOK'
    BY <1>1, NextTypeOK DEF IInv
  <2>2. UNCHANGED <<ramp, settles, preview>>
    BY <1>1 DEF vars
  <2>3. QED
    BY <2>1, <2>2, QuietKeeps, FewerKeeps DEF IInv
<1>2. CASE Automatic
  BY <1>2, RampIInv, PreviewEndsIInv, SettleIInv, PreviewSettledIInv, TaskIInv, PlaybackIInv
  DEF Automatic
<1>3. CASE Dj
  BY <1>3, SkipIInv, PreviewIInv, HandsIInv DEF Dj, Skip
<1>4. QED
  BY <1>1, <1>2, <1>3 DEF Next

\* Unless a preview is pressed again while one is under way, the guard is up from
\* the press to the end of the tail (autoMix.ts:348-354).
THEOREM PreviewIsGuardedHolds == ASSUME "previewAgain" \notin Events PROVE Spec => []PreviewIsGuarded
<1>1. IInv /\ [Next]_vars => IInv'
  BY NextIInv
<1>2. IInv => PreviewIsGuarded
  BY DEF IInv
<1>3. QED
  BY <1>1, <1>2, InitIInv, PTL DEF Spec

----------------------------------------------------------------------------
(* The Auto DJ left to itself: nothing happens but what the program does,    *)
(* Digger's failures, and presses of Skip when the next track is ready.      *)

\* The DJ at most presses Skip when the next track is ready; Digger may fail.
Untouched == Events \subseteq {"skipReady", "unreachable"}

----------------------------------------------------------------------------
(* The invariant. *)

\* Both decks are there, and there are no previews and no touches.
HandsOff ==
    /\ BothExist /\ ~preview.tail
    /\ ramp # Nothing => ~ramp.preview /\ ~ramp.touched
    /\ \A i \in SettleIds : settles[i] # Nothing =>
         ~settles[i].preview /\ ~settles[i].touched /\ settles[i].stage # "preview"

\* A deck that rests is at its start or at its end, and an empty one rests.
Stands(r) ==
    /\ r.track = NoTrack => ~r.playing /\ r.phase = "body"
    /\ r.playing => r.phase # "end"
    /\ ~r.playing => r.phase \in {"body", "end"}

\* A transition is from one deck to the other, both with tracks, and marked.
Leaves(s) ==
    /\ s.in = Other(s.out) /\ Loaded(s.in)
    /\ Loaded(s.out) /\ handled[s.out] = deck[s.out].track

\* The ramp's next track plays and has just begun; only in a ramp do both play.
Fades ==
    /\ ramp # Nothing => Leaves(ramp) /\ deck[ramp.in].playing /\ deck[ramp.in].phase = "body"
    /\ (\A d \in Decks : deck[d].playing) => ramp # Nothing

\* The transitions that wait are from one deck, that of the ramp if there is one.
Settling ==
    /\ \A i \in SettleIds : settles[i] # Nothing =>
         /\ Leaves(settles[i])
         /\ IF ramp = Nothing THEN ~deck[settles[i].in].playing ELSE settles[i].out = ramp.out
    /\ \A i, j \in SettleIds :
         settles[i] # Nothing /\ settles[j] # Nothing => settles[i].out = settles[j].out

\* A preload is for an empty deck, and was marked for what the other one plays, unless
\* that has just begun.
ForEmptyDeck(t) ==
    /\ deck[t.deck].track = NoTrack
    /\ LET o == Other(t.deck) IN preloaded[o] = deck[o].track \/ deck[o].phase = "body"

\* At the end of a track that nothing followed all rests.
AfterSilence(t) ==
    /\ deck[t.deck].phase = "end" /\ ramp = Nothing
    /\ \A d \in Decks : ~deck[d].playing
    /\ \A i \in SettleIds : settles[i] = Nothing

Fetches ==
    /\ \A i \in TaskIds : tasks[i] # Nothing =>
         /\ tasks[i].kind \in {"preload", "eos"} /\ tasks[i].stage \in {"pick", "payload"}
         /\ tasks[i].stage = "payload" => tasks[i].track # NoTrack
         /\ tasks[i].kind = "preload" => ForEmptyDeck(tasks[i])
         /\ tasks[i].kind = "eos" => AfterSilence(tasks[i])
    /\ \A i, j \in TaskIds :
         /\ tasks[i] # Nothing /\ tasks[j] # Nothing
         /\ tasks[i].deck = tasks[j].deck \/ (tasks[i].kind = "eos" /\ tasks[j].kind = "eos")
         => i = j

Autopilot ==
    /\ HandsOff /\ Fades /\ Settling /\ Fetches
    /\ \A d \in Decks : Stands(deck[d])

----------------------------------------------------------------------------
(* What the invariant says of a state. *)

\* The two decks are each other's counterpart.
LEMMA TwoDecks ==
    /\ Left \in Decks /\ Right \in Decks
    /\ \A d \in Decks : Other(d) \in Decks /\ Other(d) # d /\ Other(Other(d)) = d
    /\ \A d, e \in Decks : e # d => e = Other(d)
BY DecksAssumption DEF Decks, Other

\* What the types say, record by record.
LEMMA Records ==
    ASSUME TypeOK
    PROVE  /\ deck \in [Decks -> DeckRec]
           /\ \A d \in Decks : /\ deck[d] \in DeckRec /\ deck[d].playing \in BOOLEAN
                               /\ deck[d].track \in Tracks \cup {NoTrack} /\ deck[d].phase \in Phases
           /\ ramp # Nothing => ramp \in RampRec /\ ramp.in \in Decks /\ ramp.out \in Decks
           /\ settles \in [SettleIds -> {Nothing} \cup SettleRec]
           /\ \A i \in SettleIds : settles[i] # Nothing =>
                settles[i] \in SettleRec /\ settles[i].in \in Decks /\ settles[i].out \in Decks
           /\ tasks \in [TaskIds -> {Nothing} \cup TaskRec]
           /\ \A i \in TaskIds : tasks[i] # Nothing => tasks[i] \in TaskRec /\ tasks[i].deck \in Decks
BY DEF TypeOK, DeckRec, RampRec, SettleRec, TaskRec

\* Nothing is fetched beside a transition, nor while one deck plays and the other is loaded.
LEMMA NoFetchBeside ==
    ASSUME TypeOK, Autopilot,
           \/ ramp # Nothing
           \/ \E i \in SettleIds : settles[i] # Nothing
           \/ \E d \in Decks : deck[d].playing /\ Loaded(Other(d))
    PROVE  \A i \in TaskIds : tasks[i] = Nothing
<1>1. ASSUME NEW i \in TaskIds, tasks[i] # Nothing, tasks[i].kind = "preload" PROVE FALSE
  <2>1. tasks[i].deck \in Decks /\ deck[tasks[i].deck].track = NoTrack /\ ~deck[tasks[i].deck].playing
    BY <1>1, Records DEF Autopilot, Fetches, ForEmptyDeck, Stands
  <2>2. \A s : Leaves(s) /\ s.out \in Decks => deck[s.out].track # NoTrack /\ deck[Other(s.out)].track # NoTrack
    BY DEF Leaves, Loaded
  <2>3. ~\E d \in Decks : deck[d].track # NoTrack /\ deck[Other(d)].track # NoTrack
    BY <2>1, TwoDecks
  <2>4. \A d \in Decks : deck[d].playing => deck[d].track # NoTrack
    BY DEF Autopilot, Stands
  <2>5. QED
    BY <2>2, <2>3, <2>4, Records DEF Autopilot, Fades, Settling, Loaded
<1>2. ASSUME NEW i \in TaskIds, tasks[i] # Nothing, tasks[i].kind = "eos" PROVE FALSE
  <2>1. AfterSilence(tasks[i])
    BY <1>2 DEF Autopilot, Fetches
  <2>2. QED
    BY <2>1 DEF AfterSilence
<1>3. QED
  BY <1>1, <1>2 DEF Autopilot, Fetches

\* Where there is nothing to fetch, the fetches are in order.
LEMMA NoFetches == (\A i \in TaskIds : tasks[i] = Nothing) => Fetches
BY DEF Fetches

\* A step that changes nothing the invariant looks at.
Alike ==
    /\ \A d \in Decks : /\ deck'[d].present = deck[d].present /\ deck'[d].track = deck[d].track
                        /\ deck'[d].playing = deck[d].playing /\ deck'[d].phase = deck[d].phase
    /\ UNCHANGED <<handled, preloaded, ramp, settles, tasks>> /\ preview'.tail = preview.tail

\* Such a step keeps the invariant.
LEMMA AlikeKeeps == ASSUME TypeOK, Autopilot, Alike PROVE Autopilot'
<1>1. \A d \in Decks : Loaded(d)' <=> Loaded(d)
  BY DEF Alike, Loaded
<1>2. HandsOff' /\ \A d \in Decks : Stands(deck[d])'
  BY TwoDecks DEF Autopilot, Alike, HandsOff, Stands, BothExist
<1>3. \A s : s.out \in Decks /\ Leaves(s) => Leaves(s)'
  BY <1>1, TwoDecks DEF Alike, Leaves
<1>4. Fades'
  BY <1>3, Records DEF Autopilot, Alike, Fades
<1>5. Settling'
  BY <1>3, Records DEF Autopilot, Alike, Settling
<1>6. Fetches'
  <2>1. \A t : t.deck \in Decks /\ ForEmptyDeck(t) => ForEmptyDeck(t)'
    BY TwoDecks DEF Alike, ForEmptyDeck
  <2>2. \A t : t.deck \in Decks /\ AfterSilence(t) => AfterSilence(t)'
    BY DEF Alike, AfterSilence
  <2>3. QED
    BY <2>1, <2>2, Records DEF Autopilot, Alike, Fetches
<1>7. QED
  BY <1>2, <1>4, <1>5, <1>6 DEF Autopilot

\* A transition that waits takes a free slot.
LEMMA PutSettle ==
    ASSUME TypeOK, Free(settles), NEW s
    PROVE  \E j \in SettleIds : Put(settles, s) = [settles EXCEPT ![j] = s]
BY PutFree DEF TypeOK

----------------------------------------------------------------------------
\* A boot and a set under way are in order.
LEMMA InitAutopilot == Init => Autopilot
<1> SUFFICES ASSUME Init PROVE Autopilot
  OBVIOUS
<1>1. /\ ramp = Nothing /\ ~preview.tail /\ (\A i \in SettleIds : settles[i] = Nothing)
      /\ \A i \in TaskIds : tasks[i] = Nothing
  BY DEF Init, Idle
<1>2. Stands(EmptyDeck) /\ EmptyDeck.present /\ ~EmptyDeck.playing
  BY DEF Stands, EmptyDeck
<1>3. \A t \in Tracks : /\ Stands(Cued(t)) /\ Cued(t).present /\ ~Cued(t).playing
                        /\ Stands(Playing(t)) /\ Playing(t).present
  BY TracksAssumption DEF Stands, EmptyDeck, Cued, Playing
<1>4. /\ \A d \in Decks : Stands(deck[d]) /\ deck[d].present
      /\ ~deck[Right].playing
  <2>1. CASE deck = [d \in Decks |-> EmptyDeck]
    BY <1>2, <2>1, TwoDecks
  <2>2. CASE Queue # << >> /\ \E r \in {EmptyDeck} \cup {Cued(t) : t \in Tracks \ {Queue[1]}} :
                  deck = [d \in Decks |-> IF d = Left THEN Playing(Queue[1]) ELSE r]
    <3>1. Queue[1] \in Tracks
      BY <2>2, TracksAssumption
    <3>2. PICK r \in {EmptyDeck} \cup {Cued(t) : t \in Tracks \ {Queue[1]}} :
                  deck = [d \in Decks |-> IF d = Left THEN Playing(Queue[1]) ELSE r]
      BY <2>2
    <3>3. Stands(r) /\ r.present /\ ~r.playing
      BY <1>2, <1>3
    <3>4. QED
      BY <1>3, <3>1, <3>2, <3>3, TwoDecks, DecksAssumption
  <2>3. QED
    BY <2>1, <2>2 DEF Init
<1>5. HandsOff /\ Fades /\ Settling
  BY <1>1, <1>4, TwoDecks DEF HandsOff, BothExist, Fades, Settling
<1>6. QED
  BY <1>1, <1>4, <1>5, NoFetches DEF Autopilot

----------------------------------------------------------------------------
(* Transitions. *)

\* A transition begins, of a deck that plays and is marked, to one that waits.
LEMMA BeginKeeps ==
    ASSUME TypeOK, Autopilot, NEW d \in Decks, NEW o, o = Other(d),
           deck[d].playing, ~deck[o].playing, Loaded(o), ramp = Nothing,
           handled' = Marked(d, deck[d].track),
           BeginTransition(d, o, FALSE, deck, settles),
           UNCHANGED <<tasks, preview>>
    PROVE  Autopilot'
<1>0. o \in Decks /\ o # d /\ Other(o) = d /\ \A e \in Decks : e = d \/ e = o
  BY TwoDecks
<1>1. Loaded(d) /\ deck[d].track # NoTrack /\ deck[o].phase \in {"body", "end"} /\ deck[o].present
  BY <1>0 DEF Autopilot, HandsOff, BothExist, Stands, Loaded, Decks
<1>2. \A i \in SettleIds : settles[i] # Nothing => settles[i].out = d
  BY <1>0, Records DEF Autopilot, Settling, Leaves
<1>3. /\ \A i \in TaskIds : tasks[i] = Nothing
      /\ Fetches'
  <2>1. \A i \in TaskIds : tasks[i] = Nothing
    BY NoFetchBeside
  <2>2. QED
    BY <2>1 DEF Fetches
<1> DEFINE Steady ==
             /\ deck'[d] = deck[d]
             /\ deck'[o].present /\ deck'[o].track = deck[o].track /\ Stands(deck'[o])
           New(s) == s.in = o /\ s.out = d /\ ~s.preview /\ ~s.touched /\ s.stage # "preview"
<1>4. Steady => Stands(deck'[d]) /\ (\A s : s.in = o /\ s.out = d => Leaves(s)') /\ BothExist'
  <2>1. handled'[d] = deck[d].track
    BY DEF Marked, TypeOK
  <2>2. QED
    BY <1>0, <1>1, <2>1 DEF Leaves, Loaded, BothExist, Autopilot, HandsOff, Decks
<1>5. CASE deck' = Patched(deck, o, PlayFrom(deck[o])) /\ ramp' = Ramp(d, o, FALSE) /\ settles' = settles
  <2>1. deck' = [deck EXCEPT ![o] = PlayFrom(deck[o])]
    BY <1>1, <1>5 DEF Patched
  <2>2. /\ deck'[d] = deck[d] /\ deck'[o].present /\ deck'[o].track = deck[o].track
        /\ deck'[o].playing /\ deck'[o].phase = "body"
    BY <1>0, <1>1, <2>1, Records DEF PlayFrom, DeckRec
  <2>3. Steady
    BY <1>1, <2>2 DEF Stands, Loaded
  <2>4. /\ ramp' \in RampRec /\ ramp' # Nothing /\ ramp'.in = o /\ ramp'.out = d
        /\ ~ramp'.preview /\ ~ramp'.touched
    BY <1>0, <1>5, NothingAssumption, RecordTypes DEF Ramp
  <2>5. HandsOff'
    BY <1>4, <1>5, <2>3, <2>4 DEF Autopilot, HandsOff
  <2>6. Fades'
    BY <1>4, <2>2, <2>3, <2>4 DEF Fades
  <2>7. Settling'
    <3>1. \A i \in SettleIds : settles[i] # Nothing => settles[i].in = o
      BY <1>2 DEF Autopilot, Settling, Leaves
    <3>2. QED
      BY <1>2, <1>4, <1>5, <2>3, <2>4, <3>1 DEF Settling
  <2>8. QED
    BY <1>0, <1>3, <1>4, <2>3, <2>5, <2>6, <2>7 DEF Autopilot
<1>6. ASSUME NEW s, New(s), NEW j \in SettleIds, settles' = [settles EXCEPT ![j] = s], ramp' = ramp,
             Steady, ~deck'[o].playing
      PROVE  Autopilot'
  <2>1. \A i \in SettleIds : settles'[i] = IF i = j THEN s ELSE settles[i]
    BY <1>6, Records
  <2>2. HandsOff'
    BY <1>4, <1>6, <2>1 DEF Autopilot, HandsOff
  <2>3. Fades'
    BY <1>0, <1>6 DEF Fades
  <2>4. Settling'
    <3>1. \A i \in SettleIds : settles'[i] # Nothing => settles'[i].in = o /\ settles'[i].out = d
      BY <1>2, <1>6, <2>1 DEF Autopilot, Settling, Leaves
    <3>2. QED
      BY <1>4, <1>6, <3>1 DEF Settling
  <2>5. QED
    BY <1>0, <1>3, <1>4, <1>6, <2>2, <2>3, <2>4 DEF Autopilot
<1>7. ASSUME NEW stage \in {"rate", "seek"}, Free(settles), ramp' = ramp,
             settles' = Put(settles, Settle(d, o, FALSE, stage)),
             deck' \in {deck, Patched(deck, o, [deck[o] EXCEPT !.phase = "body"])}
      PROVE  Autopilot'
  <2>1. New(Settle(d, o, FALSE, stage))
    BY DEF Settle
  <2>2. \E j \in SettleIds : settles' = [settles EXCEPT ![j] = Settle(d, o, FALSE, stage)]
    <3> DEFINE s == Settle(d, o, FALSE, stage)
    <3>1. Free(settles) /\ settles' = Put(settles, s)
      BY <1>7
    <3> HIDE DEF s
    <3>2. \E j \in SettleIds : settles' = [settles EXCEPT ![j] = s]
      BY <3>1, PutSettle
    <3>3. QED
      BY <3>2 DEF s
  <2>3. Steady /\ ~deck'[o].playing
    <3>1. CASE deck' = deck
      BY <1>0, <1>1, <3>1 DEF Autopilot
    <3>2. CASE deck' = [deck EXCEPT ![o] = [deck[o] EXCEPT !.phase = "body"]]
      <4>1. /\ deck'[d] = deck[d] /\ deck'[o].present /\ deck'[o].track = deck[o].track
            /\ ~deck'[o].playing /\ deck'[o].phase = "body"
        BY <1>0, <1>1, <3>2, Records DEF DeckRec
      <4>2. QED
        BY <4>1 DEF Stands
    <3>3. QED
      BY <1>1, <1>7, <3>1, <3>2 DEF Patched
  <2>4. QED
    BY <1>6, <1>7, <2>1, <2>2, <2>3
<1>8. QED
  BY <1>5, <1>7 DEF BeginTransition

\* The next deck is put at the mark where it is to come in.
LEMMA RateSettledKeeps ==
    ASSUME TypeOK, Autopilot, NEW i \in SettleIds, RateSettled(i)
    PROVE  Autopilot'
<1> DEFINE s == [settles[i] EXCEPT !.stage = "seek"]
           in == settles[i].in
<1>1. /\ settles[i] # Nothing /\ settles[i] \in SettleRec /\ in \in Decks
      /\ settles' = [settles EXCEPT ![i] = s] /\ deck' = [deck EXCEPT ![in].phase = "body"]
      /\ UNCHANGED <<handled, ramp, tasks, preview>>
  <2>1. settles[i] # Nothing /\ settles[i] \in SettleRec /\ in \in Decks
    BY Records DEF RateSettled
  <2>2. ~(settles[i].touched \/ ~BothExist)
    BY <2>1 DEF Autopilot, HandsOff
  <2>3. settles' = [settles EXCEPT ![i].stage = "seek"] /\ deck' = [deck EXCEPT ![in].phase = "body"]
    BY <2>2 DEF RateSettled
  <2>4. QED
    BY <2>1, <2>3 DEF RateSettled, bookVars
<1>2. s.in = in /\ s.out = settles[i].out /\ ~s.preview /\ ~s.touched /\ s.stage = "seek"
  BY <1>1 DEF SettleRec, Autopilot, HandsOff
<1> HIDE DEF s
<1>3. \A j \in SettleIds : settles'[j] = IF j = i THEN s ELSE settles[j]
  BY <1>1, Records
<1>4. \A d \in Decks : /\ deck'[d].present = deck[d].present /\ deck'[d].track = deck[d].track
                       /\ deck'[d].playing = deck[d].playing
                       /\ deck'[d].phase = IF d = in THEN "body" ELSE deck[d].phase
  BY <1>1, Records DEF DeckRec
<1>5. HandsOff' /\ \A d \in Decks : Stands(deck[d])'
  BY <1>1, <1>2, <1>3, <1>4, TwoDecks DEF Autopilot, HandsOff, BothExist, Stands
<1>6. \A t, u : t.out \in Decks /\ Leaves(t) /\ u.out = t.out /\ u.in = t.in => Leaves(u)'
  BY <1>1, <1>4, TwoDecks DEF Leaves, Loaded
<1>7. Fades'
  BY <1>1, <1>4, <1>6, Records DEF Autopilot, Fades
<1>8. Settling'
  <2>1. \A j \in SettleIds : settles'[j] # Nothing =>
           settles[j] # Nothing /\ settles'[j].in = settles[j].in /\ settles'[j].out = settles[j].out
    BY <1>1, <1>2, <1>3
  <2>2. \A j \in SettleIds : settles[j] # Nothing => settles[j].out \in Decks /\ Leaves(settles[j])
    BY Records DEF Autopilot, Settling
  <2>3. QED
    BY <1>1, <1>4, <1>6, <2>1, <2>2, Records DEF Autopilot, Settling
<1>9. Fetches'
  BY <1>1, NoFetchBeside DEF Fetches
<1>10. QED
  BY <1>5, <1>7, <1>8, <1>9 DEF Autopilot

\* The ramp starts: in place of no other, or of one between the same decks.
LEMMA SeekSettledKeeps ==
    ASSUME TypeOK, Autopilot, NEW i \in SettleIds, SeekSettled(i)
    PROVE  Autopilot'
<1> DEFINE in == settles[i].in
           out == settles[i].out
<1>1. /\ settles[i] # Nothing /\ settles[i] \in SettleRec /\ in \in Decks /\ out \in Decks
      /\ settles' = [settles EXCEPT ![i] = Nothing] /\ deck' = [deck EXCEPT ![in] = PlayFrom(deck[in])]
      /\ ramp' = Ramp(out, in, FALSE)
      /\ UNCHANGED <<handled, tasks, preview>>
  <2>1. /\ settles[i] # Nothing /\ settles[i] \in SettleRec /\ in \in Decks /\ out \in Decks
        /\ ~(settles[i].touched \/ ~BothExist) /\ settles[i].preview = FALSE
    BY Records DEF SeekSettled, Autopilot, HandsOff, SettleRec
  <2>2. deck' = [deck EXCEPT ![in] = PlayFrom(deck[in])] /\ ramp' = Ramp(out, in, FALSE)
    BY <2>1 DEF SeekSettled
  <2>3. QED
    BY <2>1, <2>2 DEF SeekSettled, bookVars
<1>2. \A j \in SettleIds : settles'[j] = IF j = i THEN Nothing ELSE settles[j]
  BY <1>1, Records
<1>3. in = Other(out) /\ Leaves(settles[i]) /\ Loaded(in)
  BY <1>1 DEF Autopilot, Settling, Leaves
<1>4. ramp' # Nothing /\ ramp'.in = in /\ ramp'.out = out /\ ~ramp'.preview /\ ~ramp'.touched
  BY <1>1, NothingAssumption, RecordTypes DEF Ramp
<1>5. deck[in].phase \in {"body", "end"}
  <2>1. CASE ramp = Nothing
    BY <1>1, <2>1 DEF Autopilot, Settling, Stands
  <2>2. CASE ramp # Nothing
    BY <1>1, <1>3, <2>2 DEF Autopilot, Settling, Fades, Leaves
  <2>3. QED
    BY <2>1, <2>2
<1>6. /\ \A d \in Decks : d # in => deck'[d] = deck[d]
      /\ deck'[in].playing /\ deck'[in].phase = "body" /\ deck'[in].track = deck[in].track
      /\ deck'[in].present = deck[in].present
  BY <1>1, <1>5, Records DEF PlayFrom, DeckRec
<1>7. \A d \in Decks : (Loaded(d) <=> Loaded(d)') /\ deck'[d].track = deck[d].track
                       /\ deck'[d].present = deck[d].present
  BY <1>6 DEF Loaded
<1>8. HandsOff' /\ \A d \in Decks : Stands(deck[d])'
  <2>1. Stands(deck'[in])
    BY <1>3, <1>6 DEF Stands, Loaded
  <2>2. HandsOff'
    <3>1. BothExist'
      BY <1>7, TwoDecks DEF Autopilot, HandsOff, BothExist
    <3>2. \A j \in SettleIds : settles'[j] # Nothing => settles'[j] = settles[j]
      BY <1>2
    <3>3. ~preview'.tail
      BY <1>1 DEF Autopilot, HandsOff
    <3>4. QED
      BY <1>4, <3>1, <3>2, <3>3 DEF Autopilot, HandsOff
  <2>3. QED
    BY <1>6, <2>1, <2>2 DEF Autopilot
<1>9. \A t : t.out \in Decks /\ Leaves(t) => Leaves(t)'
  BY <1>1, <1>7, TwoDecks DEF Leaves
<1>10. Fades'
  <2>1. \A u : u.in = in /\ u.out = out => Leaves(u)'
    BY <1>1, <1>3, <1>7, TwoDecks DEF Leaves
  <2>2. QED
    BY <1>4, <1>6, <2>1 DEF Fades
<1>11. Settling'
  BY <1>1, <1>2, <1>4, <1>9, Records DEF Autopilot, Settling
<1>12. Fetches'
  BY <1>1, NoFetchBeside DEF Fetches
<1>13. QED
  BY <1>8, <1>10, <1>11, <1>12 DEF Autopilot

\* Fully faded, the deck that was left is empty and one deck plays.
LEMMA RampFinishesKeeps ==
    ASSUME TypeOK, Autopilot, RampFinishes
    PROVE  Autopilot'
<1>1. /\ ramp # Nothing /\ ramp.out \in Decks /\ ramp' = Nothing
      /\ deck' = [deck EXCEPT ![ramp.out] = Freed(deck[ramp.out])]
      /\ \A i \in SettleIds : settles[i] = Nothing
      /\ UNCHANGED <<settles, tasks>> /\ preview' = preview
  BY Records DEF RampFinishes, Autopilot, HandsOff
<1>2. /\ \A d \in Decks : d # ramp.out => deck'[d] = deck[d]
      /\ deck'[ramp.out].track = NoTrack /\ ~deck'[ramp.out].playing /\ deck'[ramp.out].phase = "body"
      /\ deck'[ramp.out].present = deck[ramp.out].present
  BY <1>1, Records DEF Freed, DeckRec
<1>3. HandsOff' /\ \A d \in Decks : Stands(deck[d])'
  BY <1>1, <1>2, TwoDecks DEF Autopilot, HandsOff, BothExist, Stands
<1>4. Fades' /\ Settling'
  BY <1>1, <1>2 DEF Fades, Settling
<1>5. Fetches'
  BY <1>1, NoFetchBeside DEF Fetches
<1>6. QED
  BY <1>3, <1>4, <1>5 DEF Autopilot

----------------------------------------------------------------------------
(* Playback. *)

\* A track plays on.  What a ramp brings in has just begun, and a track that has just
\* begun does not go on while a preload for it is out.
LEMMA AdvanceKeeps ==
    ASSUME TypeOK, Autopilot, NEW d \in Decks, Advance(d)
    PROVE  Autopilot'
<1>1. /\ deck[d].playing /\ UNCHANGED <<handled, preloaded, ramp, settles, tasks, preview>>
      /\ deck[d].phase = "body" /\ ramp # Nothing => ramp.in # d
      /\ deck[d].phase = "body" => \A i \in TaskIds : tasks[i] # Nothing => tasks[i].stage \in {"ask", "ready"}
  BY DEF Advance, bookVars, flightVars
<1>2. \E p \in {"preload", "mix", "tail"} : deck' = [deck EXCEPT ![d].phase = p]
  BY DEF Advance
<1>3. /\ \A e \in Decks : /\ deck'[e].present = deck[e].present /\ deck'[e].track = deck[e].track
                          /\ deck'[e].playing = deck[e].playing
                          /\ e # d => deck'[e].phase = deck[e].phase
      /\ deck'[d].phase \in {"preload", "mix", "tail"}
  BY <1>2, Records DEF DeckRec
<1>4. HandsOff' /\ \A e \in Decks : Stands(deck[e])'
  BY <1>1, <1>3, TwoDecks DEF Autopilot, HandsOff, BothExist, Stands
<1>5. \A t : t.out \in Decks /\ Leaves(t) => Leaves(t)'
  BY <1>1, <1>3, TwoDecks DEF Leaves, Loaded
<1>6. Fades'
  <2>1. ramp # Nothing => ramp.in # d
    BY <1>1 DEF Autopilot, Fades
  <2>2. QED
    BY <1>1, <1>3, <1>5, <2>1, Records DEF Autopilot, Fades
<1>7. Settling'
  BY <1>1, <1>3, <1>5, Records DEF Autopilot, Settling
<1>8. Fetches'
  <2>1. ASSUME NEW i \in TaskIds, tasks[i] # Nothing, tasks[i].kind = "preload"
        PROVE  ForEmptyDeck(tasks[i])'
    <3>1. /\ tasks[i].deck \in Decks /\ ForEmptyDeck(tasks[i]) /\ tasks[i].stage \in {"pick", "payload"}
          /\ tasks'[i].deck = tasks[i].deck
      BY <1>1, <2>1, Records DEF Autopilot, Fetches
    <3>2. deck[d].phase # "body"
      BY <1>1, <2>1, <3>1
    <3>3. QED
      BY <1>1, <1>3, <3>1, <3>2, TwoDecks DEF ForEmptyDeck
  <2>2. ASSUME NEW i \in TaskIds, tasks[i] # Nothing, tasks[i].kind = "eos" PROVE FALSE
    BY <1>1, <2>2 DEF Autopilot, Fetches, AfterSilence
  <2>3. QED
    BY <1>1, <2>1, <2>2 DEF Autopilot, Fetches
<1>9. QED
  BY <1>4, <1>6, <1>7, <1>8 DEF Autopilot

\* Beside an empty deck there is no transition.
LEMMA NoTransitionBeside ==
    ASSUME TypeOK, Autopilot, NEW d \in Decks, deck[d].track = NoTrack
    PROVE  ramp = Nothing /\ \A i \in SettleIds : settles[i] = Nothing
<1>1. \A s : s.out \in Decks /\ Leaves(s) => FALSE
  BY TwoDecks DEF Leaves, Loaded
<1>2. QED
  BY <1>1, Records DEF Autopilot, Fades, Settling

\* A deck that plays towards its end asks once for its successor.
LEMMA PreloadKeeps ==
    ASSUME TypeOK, Autopilot, NEW d \in Decks, PreloadTrigger(d)
    PROVE  Autopilot'
<1> DEFINE o == Other(d)
           new == Task("preload", "pick", o, deck[d].track, NoTrack, NoTrack)
<1>0. o \in Decks /\ o # d /\ Other(o) = d /\ \A e \in Decks : e = d \/ e = o
  BY TwoDecks
<1>1. /\ deck[d].playing /\ deck[d].phase \in {"preload", "mix"} /\ deck[d].track # NoTrack
      /\ deck[o].track = NoTrack /\ preloaded[d] # deck[d].track
      /\ preloaded' = [preloaded EXCEPT ![d] = deck[d].track]
      /\ Free(tasks) /\ tasks' = Put(tasks, new)
      /\ UNCHANGED <<deck, handled, ramp, settles, preview>>
  BY DEF PreloadTrigger, InPreloadWindow, Ready, Loaded, MarkedFetched, musicVars
<1>2. \A i \in TaskIds : tasks[i] = Nothing
  <2>1. ASSUME NEW i \in TaskIds, tasks[i] # Nothing, tasks[i].kind = "eos" PROVE FALSE
    BY <1>1, <2>1 DEF Autopilot, Fetches, AfterSilence
  <2>2. ASSUME NEW i \in TaskIds, tasks[i] # Nothing, tasks[i].kind = "preload" PROVE FALSE
    <3>1. tasks[i].deck \in Decks /\ ForEmptyDeck(tasks[i])
      BY <2>2, Records DEF Autopilot, Fetches
    <3>2. QED
      BY <1>0, <1>1, <3>1 DEF ForEmptyDeck
  <2>3. QED
    BY <2>1, <2>2 DEF Autopilot, Fetches
<1>3. new.kind = "preload" /\ new.stage = "pick" /\ new.deck = o
  BY DEF Task
<1> HIDE DEF new
<1>4. PICK j \in TaskIds : tasks' = [tasks EXCEPT ![j] = new]
  <2>1. \E j \in TaskIds : Put(tasks, new) = [tasks EXCEPT ![j] = new]
    BY <1>1, PutFree DEF TypeOK
  <2>2. QED
    BY <1>1, <2>1
<1>5. \A i \in TaskIds : tasks'[i] = IF i = j THEN new ELSE Nothing
  BY <1>2, <1>4, Records
<1>6. preloaded'[d] = deck[d].track
  BY <1>1 DEF TypeOK
<1>7. Fetches'
  BY <1>0, <1>1, <1>3, <1>5, <1>6 DEF Fetches, ForEmptyDeck
<1>8. HandsOff' /\ \A e \in Decks : Stands(deck[e])'
  BY <1>1, <1>0 DEF Autopilot, HandsOff, BothExist, Stands
<1>9. Fades' /\ Settling'
  BY <1>0, <1>1, NoTransitionBeside DEF Autopilot, Fades, Settling
<1>10. QED
  BY <1>7, <1>8, <1>9 DEF Autopilot

\* The poll begins the transition of a track that nears its end.
LEMMA MixKeeps ==
    ASSUME TypeOK, Autopilot, NEW d \in Decks, MixTrigger(d)
    PROVE  Autopilot'
<1>1. /\ deck[d].playing /\ ~deck[Other(d)].playing /\ Loaded(Other(d)) /\ ramp = Nothing
      /\ handled' = Marked(d, deck[d].track)
      /\ BeginTransition(d, Other(d), FALSE, deck, settles)
      /\ UNCHANGED <<tasks, preview>>
  BY DEF MixTrigger, Ready
<1>2. QED
  BY <1>1, BeginKeeps

\* The DJ presses Skip when the next track is ready.
LEMMA SkipCurrentKeeps ==
    ASSUME TypeOK, Autopilot, NEW d \in Decks, Ready(Other(d)), SkipCurrent(d)
    PROVE  Autopilot'
<1>1. /\ deck[d].playing /\ ~deck[Other(d)].playing /\ Loaded(Other(d)) /\ ramp = Nothing
      /\ SkipTransition(d, Other(d), deck[d].track)
      /\ UNCHANGED <<tasks, preview>>
  BY DEF SkipCurrent, Ready
<1>2. deck[d].track # NoTrack /\ deck[Other(d)].present
  BY <1>1 DEF Autopilot, Stands, Loaded
<1>3. handled' = Marked(d, deck[d].track) /\ BeginTransition(d, Other(d), FALSE, deck, settles)
  BY <1>1, <1>2 DEF SkipTransition
<1>4. QED
  BY <1>1, <1>3, BeginKeeps

\* The end of a track that was faded out, or with Auto DJ off, only stops its deck.
LEMMA StopKeeps ==
    ASSUME TypeOK, Autopilot, NEW d \in Decks, deck[d].playing, deck[d].phase = "tail",
           deck' = [deck EXCEPT ![d] = [deck[d] EXCEPT !.playing = FALSE, !.phase = "end"]],
           UNCHANGED <<handled, preloaded, ramp, settles, tasks, preview>>
    PROVE  Autopilot'
<1>1. /\ \A e \in Decks : /\ deck'[e].present = deck[e].present /\ deck'[e].track = deck[e].track
                          /\ e # d => deck'[e] = deck[e]
      /\ ~deck'[d].playing /\ deck'[d].phase = "end"
  BY Records DEF DeckRec
<1>2. deck[d].track # NoTrack
  BY DEF Autopilot, Stands
<1>3. HandsOff' /\ \A e \in Decks : Stands(deck[e])'
  <2>1. Stands(deck'[d])
    BY <1>1, <1>2 DEF Stands
  <2>2. QED
    BY ZenonT(40), <1>1, <2>1, TwoDecks DEF Autopilot, HandsOff, BothExist
<1>4. \A t : t.out \in Decks /\ Leaves(t) => Leaves(t)'
  BY <1>1, TwoDecks DEF Leaves, Loaded
<1>5. Fades'
  BY <1>1, <1>4, Records DEF Autopilot, Fades
<1>6. Settling'
  BY <1>1, <1>4, Records DEF Autopilot, Settling
<1>7. Fetches'
  <2>1. ASSUME NEW i \in TaskIds, tasks[i] # Nothing, tasks[i].kind = "preload"
        PROVE  ForEmptyDeck(tasks[i])'
    <3>1. tasks[i].deck \in Decks /\ ForEmptyDeck(tasks[i]) /\ tasks'[i].deck = tasks[i].deck
      BY <2>1, Records DEF Autopilot, Fetches
    <3>2. QED
      BY <1>1, <3>1, TwoDecks DEF ForEmptyDeck
  <2>2. ASSUME NEW i \in TaskIds, tasks[i] # Nothing, tasks[i].kind = "eos" PROVE FALSE
    BY <2>2 DEF Autopilot, Fetches, AfterSilence
  <2>3. QED
    BY <2>1, <2>2 DEF Autopilot, Fetches
<1>8. QED
  BY <1>3, <1>5, <1>6, <1>7 DEF Autopilot

\* At the end of a track that nothing was marked for, no transition is of its deck, nor
\* into it.
LEMMA NoTransitionAtEnd ==
    ASSUME TypeOK, Autopilot, NEW d \in Decks, deck[d].playing, deck[d].phase = "tail",
           handled[d] # deck[d].track
    PROVE  ramp = Nothing /\ \A i \in SettleIds : settles[i] = Nothing
<1>1. \A s : s.out \in Decks /\ Leaves(s) => s.in = d
  BY TwoDecks DEF Leaves
<1>2. ramp = Nothing
  BY <1>1, Records DEF Autopilot, Fades
<1>3. QED
  BY <1>1, <1>2, Records DEF Autopilot, Settling

\* A track ends: its deck stops, is freed for the other one, or is fetched for.
LEMMA EosKeeps ==
    ASSUME TypeOK, Autopilot, NEW d \in Decks, Eos(d)
    PROVE  Autopilot'
<1> DEFINE o == Other(d)
           stopped == [deck[d] EXCEPT !.playing = FALSE, !.phase = "end"]
           new == Task("eos", "pick", d, deck[d].track, NoTrack, NoTrack)
<1>0. o \in Decks /\ o # d /\ Other(o) = d /\ \A e \in Decks : e = d \/ e = o
  BY TwoDecks
<1>1. deck[d].playing /\ deck[d].phase = "tail" /\ UNCHANGED <<handled, preloaded, ramp, settles, preview>>
  BY DEF Eos, bookVars
<1>2. CASE deck' = [deck EXCEPT ![d] = stopped] /\ tasks' = tasks
  BY <1>1, <1>2, StopKeeps
<1>3. CASE /\ handled[d] # deck[d].track /\ Promotes(d) /\ tasks' = tasks
           /\ deck' = [deck EXCEPT ![d] = Freed(@), ![o] = PlayFrom(@)]
  <2>1. Loaded(o) /\ ~deck[o].playing /\ ramp = Nothing /\ \A i \in SettleIds : settles[i] = Nothing
    BY <1>1, <1>3, NoTransitionAtEnd DEF Promotes
  <2>2. deck[o].phase \in {"body", "end"}
    BY <1>0, <2>1 DEF Autopilot, Stands
  <2>3. /\ deck'[d] = Freed(deck[d]) /\ deck'[o] = PlayFrom(deck[o])
    BY <1>0, <1>3, Records
  <2>4. /\ deck'[d].track = NoTrack /\ ~deck'[d].playing /\ deck'[d].phase = "body"
        /\ deck'[d].present = deck[d].present
    BY <2>3, Records DEF Freed, DeckRec
  <2>5. /\ deck'[o].track = deck[o].track /\ deck'[o].playing /\ deck'[o].phase = "body"
        /\ deck'[o].present = deck[o].present
    BY <1>0, <2>2, <2>3, Records DEF PlayFrom, DeckRec
  <2>6. HandsOff' /\ \A e \in Decks : Stands(deck[e])'
    BY ZenonT(40), <1>0, <1>1, <2>1, <2>4, <2>5, TwoDecks DEF Autopilot, HandsOff, BothExist, Stands, Loaded
  <2>7. Fades' /\ Settling'
    BY <1>1, <2>1, <2>4 DEF Fades, Settling
  <2>8. Fetches'
    BY <1>1, <1>3, <2>1, NoFetchBeside DEF Fetches
  <2>9. QED
    BY <2>6, <2>7, <2>8 DEF Autopilot
<1>4. CASE /\ handled[d] # deck[d].track /\ ~Promotes(d) /\ Free(tasks)
           /\ deck' = [deck EXCEPT ![d] = stopped] /\ tasks' = Put(tasks, new)
  <2>1. ramp = Nothing /\ (\A i \in SettleIds : settles[i] = Nothing) /\ deck[d].track # NoTrack
    BY <1>1, <1>4, NoTransitionAtEnd DEF Autopilot, Stands
  <2>2. ~deck[o].playing
    BY <1>0, <1>1, <2>1 DEF Autopilot, Fades
  <2>3. deck[o].track = NoTrack
    BY <1>0, <1>4, <2>2, TwoDecks DEF Promotes, Loaded, Autopilot, HandsOff, BothExist, Decks
  <2>4. /\ deck'[o] = deck[o] /\ deck'[d].present = deck[d].present /\ deck'[d].track = deck[d].track
        /\ ~deck'[d].playing /\ deck'[d].phase = "end"
    BY <1>0, <1>4, Records DEF DeckRec
  <2>5. HandsOff' /\ \A e \in Decks : Stands(deck[e])'
    BY <1>0, <1>1, <2>1, <2>4, TwoDecks DEF Autopilot, HandsOff, BothExist, Stands
  <2>6. Fades' /\ Settling'
    BY <1>1, <2>1, <2>4 DEF Fades, Settling
  <2>7. \A i \in TaskIds : tasks[i] # Nothing => tasks[i].kind = "preload" /\ tasks[i].deck = o
    <3>1. ASSUME NEW i \in TaskIds, tasks[i] # Nothing, tasks[i].kind = "eos" PROVE FALSE
      BY <1>1, <3>1 DEF Autopilot, Fetches, AfterSilence
    <3>2. ASSUME NEW i \in TaskIds, tasks[i] # Nothing, tasks[i].kind = "preload" PROVE tasks[i].deck = o
      <4>1. tasks[i].deck \in Decks /\ deck[tasks[i].deck].track = NoTrack
        BY <3>2, Records DEF Autopilot, Fetches, ForEmptyDeck
      <4>2. QED
        BY <1>0, <2>1, <4>1
    <3>3. QED
      BY <3>1, <3>2 DEF Autopilot, Fetches
  <2>8. new.kind = "eos" /\ new.stage = "pick" /\ new.deck = d
    BY DEF Task
  <2> HIDE DEF new
  <2>9. PICK j \in TaskIds : tasks' = [tasks EXCEPT ![j] = new]
    <3>1. \E j \in TaskIds : Put(tasks, new) = [tasks EXCEPT ![j] = new]
      BY <1>4, PutFree DEF TypeOK
    <3>2. QED
      BY <1>4, <3>1
  <2>10. \A i \in TaskIds : tasks'[i] = IF i = j THEN new ELSE tasks[i]
    BY <2>9, Records
  <2>11. \A t : t.deck = d => AfterSilence(t)'
    BY <1>0, <1>1, <2>1, <2>2, <2>4 DEF AfterSilence
  <2>12. \A t : t.deck = o /\ ForEmptyDeck(t) => ForEmptyDeck(t)'
    BY <1>0, <1>1, <2>4 DEF ForEmptyDeck
  <2>13. Fetches'
    BY <1>0, <2>7, <2>8, <2>10, <2>11, <2>12 DEF Autopilot, Fetches
  <2>14. QED
    BY <2>5, <2>6, <2>13 DEF Autopilot
<1>5. QED
  BY <1>2, <1>3, <1>4 DEF Eos

----------------------------------------------------------------------------
(* Fetches. *)

\* While something is fetched there is no transition, and one deck at most plays.
LEMMA FetchesAlone ==
    ASSUME TypeOK, Autopilot, NEW i \in TaskIds, tasks[i] # Nothing
    PROVE  /\ ramp = Nothing /\ \A j \in SettleIds : settles[j] = Nothing
           /\ \E d \in Decks : ~deck[d].playing
BY NoFetchBeside, TwoDecks DEF Autopilot, Fades

\* A fetch that goes on, or ends without a load, changes no deck.
LEMMA FetchMoves ==
    ASSUME TypeOK, Autopilot, NEW i \in TaskIds, tasks[i] # Nothing,
           NEW t, tasks' = [tasks EXCEPT ![i] = t],
           t # Nothing => /\ t.kind = tasks[i].kind /\ t.deck = tasks[i].deck
                          /\ t.stage = "payload" /\ t.track # NoTrack,
           UNCHANGED <<deck, handled, preloaded, ramp, settles, preview>>
    PROVE  Autopilot'
<1>1. \A j \in TaskIds : tasks'[j] = IF j = i THEN t ELSE tasks[j]
  BY Records
<1>2. \A u : /\ ForEmptyDeck(u) /\ u.deck = tasks[i].deck /\ tasks[i].deck \in Decks => ForEmptyDeck(u)'
             /\ AfterSilence(u) /\ u.deck = tasks[i].deck => AfterSilence(u)'
  BY DEF ForEmptyDeck, AfterSilence
<1>3. \A j \in TaskIds : tasks'[j] # Nothing =>
         /\ tasks[j] # Nothing /\ tasks'[j].kind = tasks[j].kind /\ tasks'[j].deck = tasks[j].deck
         /\ tasks'[j].stage \in {"pick", "payload"}
         /\ tasks'[j].stage = "payload" => tasks'[j].track # NoTrack
  BY <1>1 DEF Autopilot, Fetches
<1>4. Fetches'
  BY <1>3 DEF Autopilot, Fetches, ForEmptyDeck, AfterSilence
<1>5. HandsOff' /\ Fades' /\ Settling' /\ \A d \in Decks : Stands(deck[d])'
  BY DEF Autopilot, HandsOff, BothExist, Fades, Settling, Leaves, Loaded, Stands
<1>6. QED
  BY <1>4, <1>5 DEF Autopilot

\* The next track is known: it is asked for, or the preload is dropped.
LEMMA PickedKeeps ==
    ASSUME TypeOK, Autopilot, NEW i \in TaskIds, TrackPicked(i)
    PROVE  Autopilot'
<1>1. /\ tasks[i] # Nothing /\ tasks[i] \in TaskRec /\ tasks[i].deck \in Decks
      /\ UNCHANGED <<deck, handled, preloaded, ramp, settles, preview>>
  BY Records DEF TrackPicked, musicVars, bookVars
<1>2. PICK u \in Picks(tasks[i].anchor) :
         tasks' = [tasks EXCEPT ![i] =
            IF @.kind = "preload" /\ ~(deck[@.deck].present /\ deck[@.deck].track = NoTrack)
            THEN Nothing
            ELSE LoadOf([@ EXCEPT !.track = u])]
  BY DEF TrackPicked
<1> DEFINE new == LoadOf([tasks[i] EXCEPT !.track = u])
<1>3. ~(deck[tasks[i].deck].playing /\ Loaded(tasks[i].deck))
  BY <1>1 DEF Autopilot, Fetches, ForEmptyDeck, AfterSilence, Loaded
<1>4. u # NoTrack
  BY PicksType, TracksAssumption
<1>5. /\ new.kind = tasks[i].kind /\ new.deck = tasks[i].deck
      /\ new.stage = "payload" /\ new.track # NoTrack
  BY <1>1, <1>3, <1>4 DEF LoadOf, TaskRec
<1>6. tasks' = [tasks EXCEPT ![i] = Nothing] \/ tasks' = [tasks EXCEPT ![i] = new]
  BY <1>2
<1> HIDE DEF new
<1>7. QED
  BY <1>1, <1>5, <1>6, FetchMoves

\* A fetch that fails leaves everything as it was.
LEMMA FailsKeeps ==
    ASSUME TypeOK, Autopilot, NEW i \in TaskIds, TaskFails(i)
    PROVE  Autopilot'
<1>1. /\ tasks[i] # Nothing /\ tasks' = [tasks EXCEPT ![i] = Nothing]
      /\ UNCHANGED <<deck, handled, preloaded, ramp, settles, preview>>
  BY DEF TaskFails, musicVars, bookVars
<1>2. QED
  BY <1>1, FetchMoves

\* The track goes onto its deck, that is empty or at its end.
LEMMA ArrivesKeeps ==
    ASSUME TypeOK, Autopilot, NEW i \in TaskIds, PayloadArrives(i)
    PROVE  Autopilot'
<1> DEFINE e == tasks[i].deck
           o == Other(e)
           r == WithTrack(deck[e], tasks[i].track)
<1>1. /\ tasks[i] # Nothing /\ tasks[i] \in TaskRec /\ e \in Decks /\ tasks[i].stage = "payload"
      /\ tasks[i].track # NoTrack /\ tasks[i].kind \in {"preload", "eos"}
      /\ UNCHANGED <<handled, preloaded, ramp, settles, preview>>
  BY Records DEF PayloadArrives, Autopilot, Fetches
<1>2. o \in Decks /\ o # e /\ Other(o) = e /\ \A d \in Decks : d = e \/ d = o
  BY <1>1, TwoDecks
<1>3. deck[e].present /\ \A d \in Decks : deck[d].present
  BY <1>1, TwoDecks DEF Autopilot, HandsOff, BothExist, Decks
<1>4. \A j \in TaskIds : tasks'[j] = IF j = i THEN Nothing ELSE tasks[j]
  <2>1. tasks' = [tasks EXCEPT ![i] = AfterLoad(tasks[i])]
    BY DEF PayloadArrives
  <2>2. AfterLoad(tasks[i]) = Nothing
    BY <1>1 DEF AfterLoad
  <2>3. QED
    BY <2>1, <2>2, Records
<1>5. deck' = [deck EXCEPT ![e] = PlayedAfterLoad(tasks[i], r)]
  BY <1>3 DEF PayloadArrives, Patched
<1>6. /\ r.track = tasks[i].track /\ ~r.playing /\ r.phase = "body" /\ r.present = deck[e].present
      /\ r \in DeckRec
  BY ZenonT(40), <1>1, Records, DeckTypes DEF WithTrack, DeckRec, TaskRec
<1> HIDE DEF r
<1>7. /\ deck'[o] = deck[o] /\ deck'[e].track = tasks[i].track /\ deck'[e].phase = "body"
      /\ deck'[e].present = deck[e].present
      /\ deck'[e].playing <=> tasks[i].kind = "eos"
  <2>1. CASE tasks[i].kind = "eos"
    <3>1. deck'[o] = deck[o] /\ deck'[e] = PlayFrom(r)
      BY <1>1, <1>2, <1>5, <2>1, Records DEF PlayedAfterLoad
    <3>2. QED
      BY <1>6, <2>1, <3>1 DEF PlayFrom, DeckRec
  <2>2. CASE tasks[i].kind # "eos"
    <3>1. deck'[o] = deck[o] /\ deck'[e] = r
      BY <1>1, <1>2, <1>5, <2>2, Records DEF PlayedAfterLoad
    <3>2. QED
      BY <1>6, <2>2, <3>1
  <2>3. QED
    BY <2>1, <2>2
<1>8. HandsOff' /\ \A d \in Decks : Stands(deck[d])'
  <2>1. Stands(deck'[e]) /\ Stands(deck'[o])
    BY <1>1, <1>2, <1>7 DEF Stands, Autopilot
  <2>2. BothExist'
    BY <1>2, <1>3, <1>7 DEF BothExist, Decks
  <2>3. QED
    BY <1>1, <1>2, <2>1, <2>2 DEF Autopilot, HandsOff
<1>9. ramp = Nothing /\ \A j \in SettleIds : settles[j] = Nothing
  BY <1>1, FetchesAlone
<1>10. ~deck'[e].playing \/ ~deck'[o].playing
  BY <1>1, <1>2, <1>7 DEF Autopilot, Fetches, AfterSilence
<1>11. Fades' /\ Settling'
  BY <1>1, <1>2, <1>9, <1>10 DEF Fades, Settling
<1>12. \A j \in TaskIds : j # i /\ tasks[j] # Nothing =>
          /\ tasks[j].deck = o
          /\ tasks[j].kind = "eos" => tasks[i].kind = "preload"
  BY <1>1, <1>2, Records DEF Autopilot, Fetches
<1>13. \A t : t.deck = o /\ ForEmptyDeck(t) => ForEmptyDeck(t)'
  BY <1>2, <1>7 DEF ForEmptyDeck
<1>14. tasks[i].kind = "preload" => \A t : t.deck = o /\ AfterSilence(t) => AfterSilence(t)'
  BY <1>1, <1>2, <1>7 DEF AfterSilence
<1>15. Fetches'
  BY <1>4, <1>12, <1>13, <1>14 DEF Autopilot, Fetches
<1>16. QED
  BY <1>8, <1>11, <1>15 DEF Autopilot

----------------------------------------------------------------------------
(* Every step. *)

\* What the program does by itself keeps the invariant.
LEMMA AutomaticKeeps ==
    ASSUME TypeOK, Autopilot, Automatic
    PROVE  Autopilot'
<1>1. CASE RampAborts
  BY <1>1 DEF RampAborts, Autopilot, HandsOff
<1>2. CASE RampMoves
  <2>1. Alike
    BY <1>2 DEF RampMoves, Alike, bookVars, flightVars
  <2>2. QED
    BY <2>1, AlikeKeeps
<1>3. CASE FinishPreview
  BY <1>3 DEF FinishPreview, Autopilot, HandsOff
<1>4. CASE PreviewGuardExpires
  <2>1. preview'.tail = preview.tail
    BY <1>4 DEF PreviewGuardExpires, GuardEnded, TypeOK, PreviewRec
  <2>2. Alike
    BY <1>4, <2>1 DEF PreviewGuardExpires, Alike, musicVars, bookVars
  <2>3. QED
    BY <2>2, AlikeKeeps
<1>5. ASSUME NEW i \in SettleIds, PreviewSettled(i) PROVE FALSE
  BY <1>5 DEF PreviewSettled, Autopilot, HandsOff
<1>6. ASSUME NEW i \in TaskIds, AskAnswered(i) \/ SkipReady(i) PROVE FALSE
  BY <1>6 DEF AskAnswered, SkipReady, Autopilot, Fetches
<1>7. ASSUME NEW d \in Decks, Measure(d) PROVE Autopilot'
  <2>1. Alike
    BY <1>7, Records DEF Measure, Alike, DeckRec, bookVars, flightVars
  <2>2. QED
    BY <2>1, AlikeKeeps
<1>8. ASSUME NEW d \in Decks, Heard(d) PROVE Autopilot'
  <2>1. Alike
    BY <1>8 DEF Heard, Alike, musicVars, flightVars
  <2>2. QED
    BY <2>1, AlikeKeeps
<1>9. QED
  BY <1>1, <1>2, <1>3, <1>4, <1>5, <1>6, <1>7, <1>8, RampFinishesKeeps, RateSettledKeeps,
     SeekSettledKeeps, PickedKeeps, FailsKeeps, ArrivesKeeps, AdvanceKeeps, PreloadKeeps,
     MixKeeps, EosKeeps DEF Automatic

\* So does every step, the presses of Skip included.
LEMMA NextKeeps ==
    ASSUME TypeOK, Autopilot, Untouched, [Next]_vars
    PROVE  Autopilot'
<1>1. CASE Automatic
  BY <1>1, AutomaticKeeps
<1>2. CASE Dj
  <2>1. \E d \in Decks : Ready(Other(d)) /\ SkipCurrent(d)
    BY <1>2 DEF Dj, Untouched
  <2>2. QED
    BY <2>1, SkipCurrentKeeps
<1>3. CASE UNCHANGED vars
  <2>1. Alike
    BY <1>3 DEF vars, Alike
  <2>2. QED
    BY <2>1, AlikeKeeps
<1>4. QED
  BY <1>1, <1>2, <1>3 DEF Next

\* The invariant holds throughout.
LEMMA AutopilotHolds == ASSUME Untouched PROVE Spec => [](TypeOK /\ Autopilot)
<1>1. Init => TypeOK /\ Autopilot
  BY InitTypeOK, InitAutopilot
<1>2. TypeOK /\ Autopilot /\ [Next]_vars => TypeOK' /\ Autopilot'
  BY NextTypeOK, NextKeeps
<1>3. QED
  BY <1>1, <1>2, PTL DEF Spec

\* The deck a transition leaves is marked for as long as the transition lasts.
THEOREM OutgoingIsHandledHolds == ASSUME Untouched PROVE Spec => []OutgoingIsHandled
<1>1. TypeOK /\ Autopilot => OutgoingIsHandled
  BY DEF Autopilot, Fades, Settling, Leaves, OutgoingIsHandled, Live
<1>2. QED
  BY <1>1, AutopilotHolds, PTL

\* No deck is fetched for twice at a time.
THEOREM OneFetchPerDeckHolds == ASSUME Untouched PROVE Spec => []OneFetchPerDeck
<1>1. TypeOK /\ Autopilot => OneFetchPerDeck
  BY DEF Autopilot, Fetches, OneFetchPerDeck
<1>2. QED
  BY <1>1, AutopilotHolds, PTL

\* The fader is moved by a ramp, or at the end of a track to the deck that is promoted.
LEMMA FaderFollows ==
    ASSUME TypeOK, Autopilot, Untouched, [Next]_vars, fader' # fader
    PROVE  \/ fader' = 1 /\ deck[ramp.in].playing
           \/ \E d \in Decks : fader' = FaderAt(d) /\ deck'[d].playing
<1>1. CASE RampMoves
  BY <1>1 DEF RampMoves, Autopilot, Fades
<1>2. CASE RampFinishes
  <2>1. /\ ramp.in \in Decks /\ ramp.out \in Decks /\ ramp.in # ramp.out /\ deck[ramp.in].playing
        /\ fader' = FaderAt(ramp.in)
    BY <1>2, Records, TwoDecks DEF RampFinishes, Autopilot, Fades, Leaves
  <2>2. deck'[ramp.in] = deck[ramp.in]
    BY <1>2, <2>1, Records DEF RampFinishes
  <2>3. QED
    BY <2>1, <2>2
<1>3. ASSUME NEW d \in Decks, Eos(d)
      PROVE  \E e \in Decks : fader' = FaderAt(e) /\ deck'[e].playing
  <2>1. /\ fader' = FaderAt(Other(d))
        /\ deck' = [deck EXCEPT ![d] = Freed(@), ![Other(d)] = PlayFrom(@)]
    BY <1>3 DEF Eos
  <2>2. Other(d) \in Decks /\ deck'[Other(d)] = PlayFrom(deck[Other(d)])
    BY <2>1, Records, TwoDecks
  <2>3. deck'[Other(d)].playing
    BY <2>2, Records DEF PlayFrom, DeckRec
  <2>4. QED
    BY <2>1, <2>2, <2>3
<1>4. CASE FinishPreview
  BY <1>4 DEF FinishPreview, Autopilot, HandsOff
<1>5. CASE Dj
  BY <1>5 DEF Dj, Untouched, SkipCurrent
<1>6. CASE UNCHANGED vars
  BY <1>6 DEF vars
<1>7. CASE Automatic /\ ~RampMoves /\ ~RampFinishes /\ ~FinishPreview /\ ~\E d \in Decks : Eos(d)
  <2>1. UNCHANGED fader
    BY <1>7 DEF Automatic, RampAborts, PreviewGuardExpires, RateSettled, SeekSettled, PreviewSettled,
                TrackPicked, TaskFails, AskAnswered, PayloadArrives, SkipReady, Advance, Measure, Heard,
                PreloadTrigger, MixTrigger, musicVars
  <2>2. QED
    BY <2>1
<1>8. QED
  BY <1>1, <1>2, <1>3, <1>4, <1>5, <1>6, <1>7 DEF Next

\* The program moves the fader only towards a deck that plays.
THEOREM NeverFadesIntoSilenceHolds == ASSUME Untouched PROVE Spec => NeverFadesIntoSilence
<1>1. TypeOK /\ Autopilot /\ [Next]_vars
      => [MovedByProgram => \/ fader' = 1 /\ deck[ramp.in].playing
                            \/ \E d \in Decks : fader' = FaderAt(d) /\ deck'[d].playing]_vars
  BY FaderFollows DEF MovedByProgram
<1>2. QED
  BY <1>1, AutopilotHolds, PTL DEF Spec, NeverFadesIntoSilence

\* What the program does keeps a deck playing, but for the end of a track.
LEMMA MusicGoesOn ==
    ASSUME TypeOK, Autopilot, Untouched, [Next]_vars, NEW d \in Decks, deck[d].playing
    PROVE  \/ \E e \in Decks : deck'[e].playing
           \/ \E e \in Decks : Eos(e) /\ deck[e].playing /\ deck'[e].phase = "end"
<1>1. ASSUME NEW e \in Decks, BeginTransition(e, Other(e), FALSE, deck, settles), deck[e].playing
      PROVE  deck'[e].playing
  <2>1. deck'[e] = deck[e]
    BY <1>1, Records, TwoDecks DEF BeginTransition, Patched
  <2>2. QED
    BY <1>1, <2>1
<1>2. CASE RampFinishes
  <2>1. /\ ramp.in \in Decks /\ ramp.out \in Decks /\ ramp.in # ramp.out /\ deck[ramp.in].playing
    BY <1>2, Records, TwoDecks DEF RampFinishes, Autopilot, Fades, Leaves
  <2>2. deck'[ramp.in] = deck[ramp.in]
    BY <1>2, <2>1, Records DEF RampFinishes
  <2>3. QED
    BY <2>1, <2>2
<1>3. ASSUME NEW i \in SettleIds, RateSettled(i) PROVE deck'[d].playing
  <2>1. deck' = deck \/ \E e \in Decks : deck' = [deck EXCEPT ![e].phase = "body"]
    BY <1>3, Records DEF RateSettled
  <2>2. QED
    BY <2>1, Records DEF DeckRec
<1>4. ASSUME NEW i \in SettleIds, SeekSettled(i) PROVE deck'[d].playing
  <2>1. deck' = deck \/ \E e \in Decks : deck' = [deck EXCEPT ![e] = PlayFrom(deck[e])]
    BY <1>4, Records DEF SeekSettled
  <2>2. \A r \in DeckRec : PlayFrom(r).playing
    BY DEF PlayFrom, DeckRec
  <2>3. QED
    BY <2>1, <2>2, Records
<1>5. ASSUME NEW i \in TaskIds, PayloadArrives(i) PROVE deck'[d].playing
  <2>1. /\ tasks[i] # Nothing /\ tasks[i].deck \in Decks /\ ~deck[tasks[i].deck].playing
    BY <1>5, Records DEF PayloadArrives, Autopilot, Fetches, ForEmptyDeck, AfterSilence, Stands
  <2>2. deck'[d] = deck[d]
    BY <1>5, <2>1, Records DEF PayloadArrives, Patched
  <2>3. QED
    BY <2>2
<1>6. ASSUME NEW e \in Decks, Eos(e)
      PROVE  \E c \in Decks : deck'[c].playing \/ (Eos(c) /\ deck[c].playing /\ deck'[c].phase = "end")
  <2>1. CASE deck' = [deck EXCEPT ![e] = [deck[e] EXCEPT !.playing = FALSE, !.phase = "end"]]
    <3>1. deck[e].playing /\ deck'[e].phase = "end"
      BY <1>6, <2>1, Records DEF Eos, DeckRec
    <3>2. QED
      BY <1>6, <3>1
  <2>2. CASE deck' = [deck EXCEPT ![e] = Freed(@), ![Other(e)] = PlayFrom(@)]
    <3>1. Other(e) \in Decks /\ deck'[Other(e)] = PlayFrom(deck[Other(e)])
      BY <2>2, Records, TwoDecks
    <3>2. deck'[Other(e)].playing
      BY <3>1, Records DEF PlayFrom, DeckRec
    <3>3. QED
      BY <3>1, <3>2
  <2>3. \/ deck' = [deck EXCEPT ![e] = [deck[e] EXCEPT !.playing = FALSE, !.phase = "end"]]
        \/ deck' = [deck EXCEPT ![e] = Freed(@), ![Other(e)] = PlayFrom(@)]
    BY <1>6 DEF Eos
  <2>4. QED
    BY <2>1, <2>2, <2>3
<1>7. ASSUME NEW e \in Decks, Advance(e) \/ Measure(e) PROVE deck'[d].playing
  <2>1. \/ \E p \in Phases : deck' = [deck EXCEPT ![e].phase = p]
        \/ deck' = [deck EXCEPT ![e].measured = TRUE]
    BY <1>7 DEF Advance, Measure, Phases
  <2>2. QED
    BY <2>1, Records DEF DeckRec
<1>8. ASSUME NEW e \in Decks, MixTrigger(e) PROVE deck'[e].playing
  BY <1>1, <1>8 DEF MixTrigger
<1>9. CASE Dj
  <2>1. PICK e \in Decks : Ready(Other(e)) /\ SkipCurrent(e)
    BY <1>9 DEF Dj, Untouched
  <2>2. deck' = deck \/ (BeginTransition(e, Other(e), FALSE, deck, settles) /\ deck[e].playing)
    BY <2>1 DEF SkipCurrent, SkipTransition
  <2>3. QED
    BY <1>1, <2>2
<1>10. ASSUME NEW i \in SettleIds, PreviewSettled(i) PROVE FALSE
  BY <1>10 DEF PreviewSettled, Autopilot, HandsOff
<1>11. ASSUME NEW i \in TaskIds, AskAnswered(i) \/ SkipReady(i) PROVE FALSE
  BY <1>11 DEF AskAnswered, SkipReady, Autopilot, Fetches
<1>12. CASE \/ RampAborts \/ RampMoves \/ PreviewGuardExpires
            \/ \E i \in TaskIds : TrackPicked(i) \/ TaskFails(i)
            \/ \E e \in Decks : Heard(e) \/ PreloadTrigger(e)
  BY <1>12 DEF RampAborts, RampMoves, PreviewGuardExpires, TrackPicked, TaskFails, Heard, PreloadTrigger,
               musicVars
<1>13. CASE FinishPreview
  BY <1>13 DEF FinishPreview, Autopilot, HandsOff
<1>14. CASE UNCHANGED vars
  BY <1>14 DEF vars
<1>15. QED
  BY <1>2, <1>3, <1>4, <1>5, <1>6, <1>7, <1>8, <1>9, <1>10, <1>11, <1>12, <1>13, <1>14
     DEF Next, Automatic

\* Music stops only where a track ends.
THEOREM OnlyTheEndStopsMusicHolds == ASSUME Untouched PROVE Spec => OnlyTheEndStopsMusic
<1>1. TypeOK /\ Autopilot /\ [Next]_vars
      => [SomethingPlays /\ ~SomethingPlays'
            => \E d \in Decks : deck[d].playing /\ deck'[d].phase = "end"]_vars
  BY MusicGoesOn DEF SomethingPlays
<1>2. QED
  BY <1>1, AutopilotHolds, PTL DEF Spec, OnlyTheEndStopsMusic

----------------------------------------------------------------------------
(* The music goes on, where Digger suggests no track that was played before.  *)

\* A transition from d is under way.
Leaving(d) ==
    \/ ramp # Nothing /\ ramp.out = d
    \/ \E i \in SettleIds : settles[i] # Nothing /\ settles[i].out = d

\* The mark of a deck is for the track it is leaving, or for one that is used.
Marks ==
    /\ \A d \in Decks : handled[d] \in used \cup {NoTrack}
    /\ \A d \in Decks : Loaded(d) /\ handled[d] = deck[d].track => Leaving(d)
    /\ \A i \in TaskIds : tasks[i] # Nothing /\ tasks[i].stage = "payload"
         => handled[tasks[i].deck] # tasks[i].track

\* A track that has played for a while is used.
Hears == \A d \in Decks : deck[d].playing /\ deck[d].phase # "body" => deck[d].track \in used

\* What plays is heard, but for what is being faded in.
IsHeard ==
    /\ \A d \in Decks : deck[d].playing /\ fader = FaderAt(Other(d)) => ramp # Nothing /\ ramp.in = d
    /\ \A i \in TaskIds : tasks[i] # Nothing /\ tasks[i].kind = "eos"
         => fader # FaderAt(Other(tasks[i].deck))

Onward == Marks /\ Hears /\ IsHeard

\* A boot and a set under way have no marks, and what plays is heard.
LEMMA InitOnward == Init => Onward
<1> SUFFICES ASSUME Init PROVE Onward
  OBVIOUS
<1>1. /\ handled = [d \in Decks |-> NoTrack] /\ \A i \in TaskIds : tasks[i] = Nothing
      /\ ramp = Nothing
  BY DEF Init, Idle
<1>2. \A t \in Tracks : ~Cued(t).playing /\ Playing(t).phase = "body" /\ Cued(t).phase = "body"
  BY DEF EmptyDeck, Cued, Playing
<1>3. ~EmptyDeck.playing
  BY DEF EmptyDeck
<1>4. /\ \A d \in Decks : deck[d].playing => d = Left /\ deck[d].phase = "body"
      /\ fader \in {1, FaderAt(Left)}
  <2>1. CASE deck = [d \in Decks |-> EmptyDeck] /\ fader = 1
    BY <1>3, <2>1
  <2>2. CASE /\ Queue # << >>
             /\ \E r \in {EmptyDeck} \cup {Cued(t) : t \in Tracks \ {Queue[1]}} :
                  deck = [d \in Decks |-> IF d = Left THEN Playing(Queue[1]) ELSE r]
             /\ fader = FaderAt(Left)
    BY <1>2, <1>3, <2>2, TracksAssumption
  <2>3. QED
    BY <2>1, <2>2 DEF Init
<1>5. Marks
  BY <1>1 DEF Marks, Loaded
<1>6. Hears /\ IsHeard
  BY <1>1, <1>4, TwoDecks, DecksAssumption DEF Hears, IsHeard, FaderAt, Other
<1>7. QED
  BY <1>5, <1>6 DEF Onward

\* The marks stay right where no mark and no track changes and what is left goes on
\* being left.
LEMMA MarksStay ==
    ASSUME TypeOK, Marks, UNCHANGED handled, used \subseteq used',
           \A d \in Decks : Loaded(d)' =>
             /\ Loaded(d) /\ deck'[d].track = deck[d].track
             /\ Leaving(d) => Leaving(d)',
           \A i \in TaskIds : tasks'[i] # Nothing /\ tasks'[i].stage = "payload" => tasks'[i] = tasks[i]
    PROVE  Marks'
<1>1. \A i \in TaskIds : tasks'[i] # Nothing /\ tasks'[i].stage = "payload"
        => handled[tasks'[i].deck] # tasks'[i].track
  BY DEF Marks
<1>2. \A d \in Decks : handled[d] \in used' \cup {NoTrack}
  BY DEF Marks
<1>3. \A d \in Decks : Loaded(d)' /\ handled[d] = deck'[d].track => Leaving(d)'
  BY DEF Marks
<1>4. QED
  BY <1>1, <1>2, <1>3 DEF Marks

\* The two ends of the crossfader.
LEMMA Ends == \A d \in Decks : FaderAt(d) # FaderAt(Other(d)) /\ FaderAt(d) # 1
BY DecksAssumption DEF Decks, FaderAt, Other

\* Steps that leave the fader, what plays and what is fetched alone.
LEMMA QuietOnward ==
    ASSUME TypeOK, Onward, UNCHANGED <<handled, ramp, settles, tasks>>, used \subseteq used',
           fader' \in {fader, 1},
           \A d \in Decks : /\ deck'[d].present = deck[d].present /\ deck'[d].track = deck[d].track
                            /\ deck'[d].playing = deck[d].playing /\ deck'[d].phase = deck[d].phase
    PROVE  Onward'
<1>1. Marks'
  BY MarksStay DEF Onward, Loaded, Leaving
<1>2. Hears'
  BY DEF Onward, Hears
<1>3. IsHeard'
  BY Ends, TwoDecks, Records DEF Onward, IsHeard
<1>4. QED
  BY <1>1, <1>2, <1>3 DEF Onward

\* What a beginning transition from d to o does.
Shape(d, o) ==
    /\ deck'[d] = deck[d] /\ deck'[o].track = deck[o].track /\ deck'[o].present
    /\ \/ /\ ramp' # Nothing /\ ramp'.out = d /\ ramp'.in = o
          /\ deck'[o].phase = IF deck[o].phase = "end" THEN "body" ELSE deck[o].phase
       \/ /\ ramp' = ramp /\ deck'[o].playing = deck[o].playing
          /\ deck'[o].phase \in {deck[o].phase, "body"}
          /\ \E i \in SettleIds : settles'[i] # Nothing /\ settles'[i].out = d

\* Every way a transition begins has this shape.
LEMMA BeginShape ==
    ASSUME TypeOK, NEW d \in Decks, NEW o \in Decks, o # d, deck[o].present,
           BeginTransition(d, o, FALSE, deck, settles)
    PROVE  Shape(d, o)
<1>1. CASE deck' = Patched(deck, o, PlayFrom(deck[o])) /\ ramp' = Ramp(d, o, FALSE)
  <2>1. deck' = [deck EXCEPT ![o] = PlayFrom(deck[o])]
    BY <1>1 DEF Patched
  <2>2. /\ deck'[d] = deck[d] /\ deck'[o].track = deck[o].track /\ deck'[o].present
        /\ deck'[o].phase = IF deck[o].phase = "end" THEN "body" ELSE deck[o].phase
    BY <2>1, Records DEF PlayFrom, DeckRec
  <2>3. ramp' # Nothing /\ ramp'.out = d /\ ramp'.in = o
    BY <1>1, NothingAssumption, RecordTypes DEF Ramp
  <2>4. QED
    BY <2>2, <2>3 DEF Shape
<1>2. ASSUME NEW stage \in {"rate", "seek"}, Free(settles), ramp' = ramp,
             settles' = Put(settles, Settle(d, o, FALSE, stage)),
             deck' \in {deck, Patched(deck, o, [deck[o] EXCEPT !.phase = "body"])}
      PROVE  Shape(d, o)
  <2> DEFINE s == Settle(d, o, FALSE, stage)
  <2>1. s # Nothing /\ s.out = d
    BY NothingAssumption, RecordTypes DEF Settle
  <2>2. Free(settles) /\ settles' = Put(settles, s)
    BY <1>2
  <2> HIDE DEF s
  <2>3. PICK j \in SettleIds : settles' = [settles EXCEPT ![j] = s]
    BY <2>2, PutSettle
  <2>4. settles'[j] = s
    BY <2>3, Records
  <2>5. deck' = deck \/ deck' = [deck EXCEPT ![o] = [deck[o] EXCEPT !.phase = "body"]]
    BY <1>2 DEF Patched
  <2>6. /\ deck'[d] = deck[d] /\ deck'[o].track = deck[o].track /\ deck'[o].present
        /\ deck'[o].playing = deck[o].playing
        /\ deck'[o].phase \in {deck[o].phase, "body"}
    BY <2>5, Records DEF DeckRec
  <2>7. QED
    BY <1>2, <2>1, <2>4, <2>6 DEF Shape
<1>3. QED
  BY <1>1, <1>2 DEF BeginTransition

\* A transition begins, of a track that is used by then.
LEMMA BeginOnward ==
    ASSUME TypeOK, Autopilot, Onward, NEW d \in Decks, NEW o, o = Other(d),
           deck[d].playing, ~deck[o].playing, Loaded(o), ramp = Nothing,
           handled' = Marked(d, deck[d].track),
           BeginTransition(d, o, FALSE, deck, settles),
           deck[d].track \in used', used \subseteq used', UNCHANGED <<fader, tasks>>
    PROVE  Onward'
<1>0. o \in Decks /\ o # d /\ Other(o) = d /\ \A e \in Decks : e = d \/ e = o
  BY TwoDecks
<1>1. \A i \in TaskIds : tasks[i] = Nothing
  BY NoFetchBeside
<1>2. deck[o].present /\ deck[o].phase \in {"body", "end"}
  BY <1>0 DEF Loaded, Autopilot, Stands
<1>3. /\ deck'[d] = deck[d] /\ deck'[o].track = deck[o].track /\ deck'[o].present
      /\ \/ /\ ramp' # Nothing /\ ramp'.out = d /\ ramp'.in = o /\ deck'[o].phase = "body"
         \/ /\ ramp' = ramp /\ ~deck'[o].playing
            /\ \E i \in SettleIds : settles'[i] # Nothing /\ settles'[i].out = d
  <2>1. Shape(d, o)
    BY <1>0, <1>2, BeginShape
  <2>2. (deck'[o].playing = deck[o].playing) => ~deck'[o].playing
    OBVIOUS
  <2>3. QED
    BY <1>2, <2>1, <2>2 DEF Shape
<1>4. handled' = [handled EXCEPT ![d] = deck[d].track]
  BY DEF Marked
<1>5. \A i \in SettleIds : settles[i] # Nothing => settles[i].out # o
  BY <1>0, Records DEF Autopilot, Settling, Leaves
<1>6. Leaving(d)' /\ handled[o] # deck[o].track
  <2>1. ~Leaving(o)
    BY <1>5 DEF Leaving
  <2>2. Leaving(d)'
    BY <1>3 DEF Leaving
  <2>3. QED
    BY <1>0, <2>1, <2>2 DEF Onward, Marks
<1>7. handled'[d] = deck[d].track /\ handled'[o] = handled[o]
  BY <1>0, <1>4 DEF TypeOK
<1>8. Marks'
  BY <1>0, <1>1, <1>3, <1>6, <1>7 DEF Onward, Marks
<1>9. Hears'
  BY <1>0, <1>3 DEF Onward, Hears
<1>10. IsHeard'
  BY <1>0, <1>1, <1>3 DEF Onward, IsHeard
<1>11. QED
  BY <1>8, <1>9, <1>10 DEF Onward

\* A settle that goes on or starts its ramp goes on leaving the deck it left.
LEMMA RateSettledOnward ==
    ASSUME TypeOK, Autopilot, Onward, NEW i \in SettleIds, RateSettled(i)
    PROVE  Onward'
<1> DEFINE s == [settles[i] EXCEPT !.stage = "seek"]
           in == settles[i].in
<1>1. /\ settles[i] # Nothing /\ settles[i] \in SettleRec /\ in \in Decks
      /\ settles' = [settles EXCEPT ![i] = s] /\ deck' = [deck EXCEPT ![in].phase = "body"]
      /\ UNCHANGED <<fader, handled, used, ramp, tasks>>
  <2>1. settles[i] # Nothing /\ settles[i] \in SettleRec /\ in \in Decks
    BY Records DEF RateSettled
  <2>2. ~(settles[i].touched \/ ~BothExist)
    BY <2>1 DEF Autopilot, HandsOff
  <2>3. settles' = [settles EXCEPT ![i].stage = "seek"] /\ deck' = [deck EXCEPT ![in].phase = "body"]
    BY <2>2 DEF RateSettled
  <2>4. QED
    BY <2>1, <2>3 DEF RateSettled, bookVars
<1>2. s.out = settles[i].out /\ s # Nothing
  <2>1. s \in SettleRec
    BY <1>1 DEF SettleRec
  <2>2. QED
    BY <1>1, <2>1, NothingAssumption DEF SettleRec
<1> HIDE DEF s
<1>3. \A j \in SettleIds : settles[j] # Nothing => settles'[j] # Nothing /\ settles'[j].out = settles[j].out
  BY <1>1, <1>2, Records
<1>4. \A d \in Decks : /\ deck'[d].present = deck[d].present /\ deck'[d].track = deck[d].track
                       /\ deck'[d].playing = deck[d].playing
                       /\ deck'[d].phase \in {"body", deck[d].phase}
  BY <1>1, Records DEF DeckRec
<1>5. Marks'
  BY <1>1, <1>3, <1>4, MarksStay DEF Onward, Loaded, Leaving
<1>6. Hears' /\ IsHeard'
  BY <1>1, <1>4 DEF Onward, Hears, IsHeard
<1>7. QED
  BY <1>5, <1>6 DEF Onward

\* The ramp starts, in place of a settle or a ramp from the same deck, and its deck plays.
LEMMA SeekSettledOnward ==
    ASSUME TypeOK, Autopilot, Onward, NEW i \in SettleIds, SeekSettled(i)
    PROVE  /\ Onward'
           /\ deck'[settles[i].in].playing
<1> DEFINE in == settles[i].in
           out == settles[i].out
<1>1. /\ settles[i] # Nothing /\ in \in Decks /\ out \in Decks
      /\ settles' = [settles EXCEPT ![i] = Nothing] /\ deck' = [deck EXCEPT ![in] = PlayFrom(deck[in])]
      /\ ramp' = Ramp(out, in, FALSE)
      /\ UNCHANGED <<fader, handled, used, tasks>>
  <2>1. /\ settles[i] # Nothing /\ in \in Decks /\ out \in Decks
        /\ ~(settles[i].touched \/ ~BothExist) /\ settles[i].preview = FALSE
    BY Records DEF SeekSettled, Autopilot, HandsOff, SettleRec
  <2>2. deck' = [deck EXCEPT ![in] = PlayFrom(deck[in])] /\ ramp' = Ramp(out, in, FALSE)
    BY <2>1 DEF SeekSettled
  <2>3. QED
    BY <2>1, <2>2 DEF SeekSettled, bookVars
<1>2. /\ in = Other(out) /\ Leaves(settles[i])
      /\ ramp # Nothing => ramp.in = in /\ ramp.out = out
      /\ \A j \in SettleIds : settles[j] # Nothing => settles[j].out = out
  BY <1>1, Records DEF Autopilot, Settling, Fades, Leaves
<1>3. ramp' # Nothing /\ ramp'.in = in /\ ramp'.out = out
  BY <1>1, NothingAssumption, RecordTypes DEF Ramp
<1>4. deck[in].phase \in {"body", "end"}
  <2>1. CASE ramp = Nothing
    BY <1>1, <2>1 DEF Autopilot, Settling, Stands
  <2>2. CASE ramp # Nothing
    BY <1>2, <2>2 DEF Autopilot, Fades
  <2>3. QED
    BY <2>1, <2>2
<1>5. /\ \A d \in Decks : d # in => deck'[d] = deck[d]
      /\ deck'[in].playing /\ deck'[in].phase = "body" /\ deck'[in].track = deck[in].track
      /\ deck'[in].present = deck[in].present
  BY <1>1, <1>4, Records DEF PlayFrom, DeckRec
<1>6. \A d \in Decks : (Loaded(d)' => Loaded(d)) /\ deck'[d].track = deck[d].track
  BY <1>5 DEF Loaded
<1>7. \A d \in Decks : Leaving(d) => Leaving(d)'
  BY <1>2, <1>3 DEF Leaving
<1>8. Marks'
  BY <1>1, <1>6, <1>7, MarksStay DEF Onward
<1>9. Hears'
  BY <1>1, <1>5 DEF Onward, Hears
<1>10. IsHeard'
  BY <1>1, <1>2, <1>3, <1>5, TwoDecks DEF Onward, IsHeard
<1>11. QED
  BY <1>5, <1>8, <1>9, <1>10 DEF Onward

\* What the ramp brought in was not marked.
LEMMA RampFinishesOnward ==
    ASSUME TypeOK, Autopilot, Onward, RampFinishes
    PROVE  Onward'
<1> DEFINE out == ramp.out
           in == ramp.in
<1>1. /\ ramp # Nothing /\ out \in Decks /\ in \in Decks /\ in = Other(out) /\ ramp' = Nothing
      /\ deck' = [deck EXCEPT ![out] = Freed(deck[out])] /\ deck[in].playing
      /\ \A i \in SettleIds : settles[i] = Nothing
      /\ fader' = FaderAt(in) /\ UNCHANGED <<handled, used, tasks>>
  BY Records DEF RampFinishes, Autopilot, HandsOff, Fades, Leaves, bookVars
<1>2. /\ in # out /\ \A d \in Decks : d = in \/ d = out
      /\ deck'[in] = deck[in] /\ deck'[out].track = NoTrack /\ ~deck'[out].playing
  BY <1>1, TwoDecks, Records DEF Freed, DeckRec
<1>3. ~Leaving(in) /\ \A i \in TaskIds : tasks[i] = Nothing
  BY <1>1, <1>2, NoFetchBeside DEF Leaving
<1>4. Marks'
  BY <1>1, <1>2, <1>3, MarksStay DEF Onward, Loaded
<1>5. Hears'
  BY <1>1, <1>2 DEF Onward, Hears
<1>6. IsHeard'
  BY <1>1, <1>2, <1>3, Ends DEF IsHeard
<1>7. QED
  BY <1>4, <1>5, <1>6 DEF Onward

\* A track that goes on from its body has been heard.
LEMMA AdvanceOnward ==
    ASSUME TypeOK, Autopilot, Onward, NEW d \in Decks, Advance(d)
    PROVE  Onward'
<1>1. /\ deck[d].playing /\ UNCHANGED <<fader, handled, used, ramp, settles, tasks>>
      /\ deck[d].phase = "body" /\ Audible(d) => deck[d].track \in used
      /\ deck[d].phase = "body" /\ ramp # Nothing => ramp.in # d
      /\ \E p \in Phases : deck' = [deck EXCEPT ![d].phase = p]
  BY DEF Advance, bookVars, flightVars, Phases
<1>2. deck[d].track \in used
  <2>1. CASE deck[d].phase = "body"
    BY <1>1, <2>1 DEF Onward, IsHeard, Audible
  <2>2. CASE deck[d].phase # "body"
    BY <1>1, <2>2 DEF Onward, Hears
  <2>3. QED
    BY <2>1, <2>2
<1>3. \A e \in Decks : /\ deck'[e].present = deck[e].present /\ deck'[e].track = deck[e].track
                       /\ deck'[e].playing = deck[e].playing
                       /\ e # d => deck'[e].phase = deck[e].phase
  BY <1>1, Records DEF DeckRec
<1>4. Marks'
  BY <1>1, <1>3, MarksStay DEF Onward, Loaded, Leaving
<1>5. Hears' /\ IsHeard'
  BY <1>1, <1>2, <1>3 DEF Onward, Hears, IsHeard
<1>6. QED
  BY <1>4, <1>5 DEF Onward

\* A new fetch has no track yet; at the end of a track its deck was heard.
LEMMA FetchOnward ==
    ASSUME TypeOK, Onward, NEW t, t.stage = "pick", t.kind = "eos" => fader # FaderAt(Other(t.deck)),
           Free(tasks), tasks' = Put(tasks, t),
           UNCHANGED <<fader, handled, used, ramp, settles>>,
           \A d \in Decks : /\ deck'[d].present = deck[d].present /\ deck'[d].track = deck[d].track
                            /\ deck'[d].playing => deck[d].playing /\ deck'[d].phase = deck[d].phase
    PROVE  Onward'
<1>1. PICK j \in TaskIds : tasks' = [tasks EXCEPT ![j] = t]
  <2>1. \E j \in TaskIds : Put(tasks, t) = [tasks EXCEPT ![j] = t]
    BY PutFree DEF TypeOK
  <2>2. QED
    BY <2>1
<1>2. \A i \in TaskIds : tasks'[i] = IF i = j THEN t ELSE tasks[i]
  BY <1>1, Records
<1>3. Marks'
  BY <1>2, MarksStay DEF Onward, Loaded, Leaving
<1>4. Hears' /\ IsHeard'
  BY <1>2 DEF Onward, Hears, IsHeard
<1>5. QED
  BY <1>3, <1>4 DEF Onward

\* At the end of a track its deck was heard, so that what is fetched for it will be.
LEMMA EosOnward ==
    ASSUME TypeOK, Autopilot, Onward, NEW d \in Decks, Eos(d)
    PROVE  Onward'
<1> DEFINE o == Other(d)
           stopped == [deck[d] EXCEPT !.playing = FALSE, !.phase = "end"]
           new == Task("eos", "pick", d, deck[d].track, NoTrack, NoTrack)
<1>0. o \in Decks /\ o # d /\ Other(o) = d /\ \A e \in Decks : e = d \/ e = o
  BY TwoDecks
<1>1. deck[d].playing /\ deck[d].phase = "tail" /\ UNCHANGED <<handled, used, ramp, settles>>
  BY DEF Eos, bookVars
<1>2. ASSUME deck' = [deck EXCEPT ![d] = stopped]
      PROVE  \A e \in Decks : /\ deck'[e].present = deck[e].present /\ deck'[e].track = deck[e].track
                              /\ deck'[e].playing => deck[e].playing /\ deck'[e].phase = deck[e].phase
  BY <1>2, Records DEF DeckRec
<1>3. CASE deck' = [deck EXCEPT ![d] = stopped] /\ UNCHANGED <<fader, tasks>>
  <2>1. Marks'
    BY <1>1, <1>2, <1>3, MarksStay DEF Onward, Loaded, Leaving
  <2>2. Hears' /\ IsHeard'
    BY <1>1, <1>2, <1>3 DEF Onward, Hears, IsHeard
  <2>3. QED
    BY <2>1, <2>2 DEF Onward
<1>4. CASE /\ handled[d] # deck[d].track /\ Promotes(d) /\ UNCHANGED tasks /\ fader' = FaderAt(o)
           /\ deck' = [deck EXCEPT ![d] = Freed(@), ![o] = PlayFrom(@)]
  <2>1. /\ Loaded(o) /\ ~deck[o].playing /\ (\A i \in TaskIds : tasks[i] = Nothing)
        /\ ramp = Nothing /\ \A i \in SettleIds : settles[i] = Nothing
    BY <1>1, <1>4, NoTransitionAtEnd, NoFetchBeside DEF Promotes
  <2>2. deck[o].phase \in {"body", "end"}
    BY <1>0, <2>1 DEF Autopilot, Stands
  <2>3. deck'[d] = Freed(deck[d]) /\ deck'[o] = PlayFrom(deck[o])
    BY <1>0, <1>4, Records
  <2>4. /\ deck'[d].track = NoTrack /\ ~deck'[d].playing
        /\ deck'[o].track = deck[o].track /\ deck'[o].phase = "body"
    BY <1>0, <2>2, <2>3, Records DEF Freed, PlayFrom, DeckRec
  <2>5. Marks'
    BY <1>0, <1>1, <1>4, <2>1, <2>4, MarksStay DEF Onward, Loaded, Leaving
  <2>6. Hears'
    BY <1>0, <2>4 DEF Hears
  <2>7. IsHeard'
    BY <1>0, <1>4, <2>1, <2>4, Ends DEF IsHeard
  <2>8. QED
    BY <2>5, <2>6, <2>7 DEF Onward
<1>5. CASE /\ handled[d] # deck[d].track /\ Free(tasks) /\ UNCHANGED fader
           /\ deck' = [deck EXCEPT ![d] = stopped] /\ tasks' = Put(tasks, new)
  <2>1. fader # FaderAt(o)
    BY <1>1, <1>5, NoTransitionAtEnd DEF Onward, IsHeard
  <2>2. new.stage = "pick" /\ new.deck = d
    BY DEF Task
  <2> HIDE DEF new
  <2>3. QED
    BY <1>1, <1>2, <1>5, <2>1, <2>2, FetchOnward
<1>6. QED
  BY <1>3, <1>4, <1>5 DEF Eos

\* A preload leaves the marks alone.
LEMMA PreloadOnward ==
    ASSUME TypeOK, Autopilot, Onward, NEW d \in Decks, PreloadTrigger(d)
    PROVE  Onward'
<1> DEFINE new == Task("preload", "pick", Other(d), deck[d].track, NoTrack, NoTrack)
<1>1. new.stage = "pick" /\ new.kind = "preload"
  BY DEF Task
<1>2. /\ Free(tasks) /\ tasks' = Put(tasks, new)
      /\ UNCHANGED <<deck, fader, handled, used, ramp, settles>>
  BY DEF PreloadTrigger, musicVars
<1> HIDE DEF new
<1>3. QED
  BY <1>1, <1>2, FetchOnward

\* What is picked was not played before, so that no deck is marked for it.
LEMMA PickedOnward ==
    ASSUME TypeOK, Autopilot, Onward, ~Repeats, NEW i \in TaskIds, TrackPicked(i)
    PROVE  /\ Onward'
           /\ tasks[i].kind = "eos" => tasks'[i] # Nothing /\ tasks'[i].kind = "eos"
<1>1. /\ tasks[i] # Nothing /\ tasks[i] \in TaskRec /\ tasks[i].deck \in Decks
      /\ UNCHANGED <<deck, fader, handled, used, ramp, settles>>
  BY Records DEF TrackPicked, musicVars, bookVars
<1>2. PICK u \in Picks(tasks[i].anchor) :
         tasks' = [tasks EXCEPT ![i] =
            IF @.kind = "preload" /\ ~(deck[@.deck].present /\ deck[@.deck].track = NoTrack)
            THEN Nothing
            ELSE LoadOf([@ EXCEPT !.track = u])]
  BY DEF TrackPicked
<1> DEFINE new == LoadOf([tasks[i] EXCEPT !.track = u])
<1>3. u \notin used \cup {NoTrack} /\ u \in Tracks
  <2>1. \A a : \A t \in Picks(a) : t \notin used
    BY DEF Picks
  <2>2. QED
    BY <2>1, PicksType, TracksAssumption
<1>4. /\ new.kind = tasks[i].kind /\ new.deck = tasks[i].deck /\ new.track = u
      /\ new # Nothing
  <2>1. [tasks[i] EXCEPT !.track = u] \in TaskRec
    BY <1>1, <1>3 DEF TaskRec
  <2>2. new \in TaskRec
    BY <2>1, TaskTypes
  <2>3. QED
    BY ZenonT(40), <1>1, <2>2, NothingAssumption DEF LoadOf, TaskRec
<1>5. \/ tasks' = [tasks EXCEPT ![i] = Nothing] /\ tasks[i].kind = "preload"
      \/ tasks' = [tasks EXCEPT ![i] = new]
  BY <1>2
<1> HIDE DEF new
<1>6. /\ \A j \in TaskIds : j # i => tasks'[j] = tasks[j]
      /\ \/ tasks'[i] = Nothing /\ tasks[i].kind = "preload"
         \/ tasks'[i] = new
  BY <1>5, Records
<1>7. Marks'
  <2>1. \A d \in Decks : handled[d] # u
    BY <1>3 DEF Onward, Marks
  <2>2. \A j \in TaskIds : tasks'[j] # Nothing /\ tasks'[j].stage = "payload"
          => handled[tasks'[j].deck] # tasks'[j].track
    BY <1>1, <1>4, <1>6, <2>1 DEF Onward, Marks
  <2>3. QED
    BY <1>1, <2>2 DEF Onward, Marks, Leaving, Loaded
<1>8. Hears' /\ IsHeard'
  BY <1>1, <1>4, <1>6 DEF Onward, Hears, IsHeard
<1>9. QED
  BY <1>4, <1>6, <1>7, <1>8 DEF Onward

\* So does a fetch that fails.
LEMMA FailsOnward ==
    ASSUME TypeOK, Autopilot, Onward, NEW i \in TaskIds, TaskFails(i)
    PROVE  Onward'
<1>1. /\ tasks' = [tasks EXCEPT ![i] = Nothing]
      /\ UNCHANGED <<deck, fader, handled, used, ramp, settles>>
  BY DEF TaskFails, musicVars, bookVars
<1>2. \A j \in TaskIds : tasks'[j] # Nothing => tasks'[j] = tasks[j]
  BY <1>1, Records
<1>3. Marks'
  BY <1>1, <1>2, MarksStay DEF Onward, Loaded, Leaving
<1>4. Hears' /\ IsHeard'
  BY <1>1, <1>2 DEF Onward, Hears, IsHeard
<1>5. QED
  BY <1>3, <1>4 DEF Onward

\* What arrives is not what its deck is marked for, and is heard if it plays.
LEMMA ArrivesOnward ==
    ASSUME TypeOK, Autopilot, Onward, NEW i \in TaskIds, PayloadArrives(i)
    PROVE  /\ Onward'
           /\ tasks[i].kind = "eos" => deck'[tasks[i].deck].playing
<1> DEFINE e == tasks[i].deck
           r == WithTrack(deck[e], tasks[i].track)
<1>1. /\ tasks[i] # Nothing /\ tasks[i] \in TaskRec /\ e \in Decks /\ tasks[i].stage = "payload"
      /\ tasks[i].kind \in {"preload", "eos"}
      /\ UNCHANGED <<fader, handled, ramp, settles>> /\ used' = used
  BY Records DEF PayloadArrives, Autopilot, Fetches
<1>2. deck[e].present
  BY <1>1 DEF Autopilot, HandsOff, BothExist, Decks
<1>3. \A j \in TaskIds : tasks'[j] = IF j = i THEN Nothing ELSE tasks[j]
  <2>1. tasks' = [tasks EXCEPT ![i] = AfterLoad(tasks[i])]
    BY DEF PayloadArrives
  <2>2. AfterLoad(tasks[i]) = Nothing
    BY <1>1 DEF AfterLoad
  <2>3. QED
    BY <2>1, <2>2, Records
<1>4. deck' = [deck EXCEPT ![e] = PlayedAfterLoad(tasks[i], r)]
  BY <1>2 DEF PayloadArrives, Patched
<1>5. r.track = tasks[i].track /\ ~r.playing /\ r.phase = "body" /\ r \in DeckRec
  <2>1. tasks[i].track \in Tracks \cup {NoTrack} /\ deck[e] \in DeckRec
    BY <1>1, Records DEF TaskRec
  <2>2. r \in DeckRec
    BY <2>1, DeckTypes
  <2>3. QED
    BY <2>1, <2>2 DEF WithTrack, DeckRec
<1> HIDE DEF r
<1>6. /\ \A d \in Decks : d # e => deck'[d] = deck[d]
      /\ deck'[e].track = tasks[i].track /\ deck'[e].phase = "body"
      /\ deck'[e].playing <=> tasks[i].kind = "eos"
  <2>1. CASE tasks[i].kind = "eos"
    <3>1. (\A d \in Decks : d # e => deck'[d] = deck[d]) /\ deck'[e] = PlayFrom(r)
      BY <1>1, <1>4, <2>1, Records DEF PlayedAfterLoad
    <3>2. QED
      BY <1>5, <2>1, <3>1 DEF PlayFrom, DeckRec
  <2>2. CASE tasks[i].kind # "eos"
    <3>1. (\A d \in Decks : d # e => deck'[d] = deck[d]) /\ deck'[e] = r
      BY <1>1, <1>4, <2>2, Records DEF PlayedAfterLoad
    <3>2. QED
      BY <1>5, <2>2, <3>1
  <2>3. QED
    BY <2>1, <2>2
<1>7. handled[e] # tasks[i].track
  BY <1>1 DEF Onward, Marks
<1>8. Marks'
  <2>1. \A d \in Decks : Loaded(d)' /\ handled[d] = deck'[d].track => Leaving(d)'
    BY <1>1, <1>6, <1>7 DEF Onward, Marks, Loaded, Leaving
  <2>2. QED
    BY <1>1, <1>3, <2>1 DEF Onward, Marks
<1>9. Hears'
  BY <1>1, <1>6 DEF Onward, Hears
<1>10. IsHeard'
  BY <1>1, <1>3, <1>6 DEF Onward, IsHeard
<1>11. QED
  BY <1>6, <1>8, <1>9, <1>10 DEF Onward

\* The poll begins the transition of a track that was heard; Skip says that it was.
LEMMA MixOnward ==
    ASSUME TypeOK, Autopilot, Onward, NEW d \in Decks, MixTrigger(d)
    PROVE  Onward'
<1>1. /\ deck[d].playing /\ ~deck[Other(d)].playing /\ Loaded(Other(d)) /\ ramp = Nothing
      /\ handled' = Marked(d, deck[d].track) /\ deck[d].phase = "mix"
      /\ BeginTransition(d, Other(d), FALSE, deck, settles)
      /\ UNCHANGED <<fader, used, tasks>>
  BY DEF MixTrigger, Ready, InMixWindow
<1>2. deck[d].track \in used
  BY <1>1 DEF Onward, Hears
<1>3. QED
  BY <1>1, <1>2, BeginOnward

\* Skip marks the track it leaves and says that it was played.
LEMMA SkipOnward ==
    ASSUME TypeOK, Autopilot, Onward, NEW d \in Decks, Ready(Other(d)), SkipCurrent(d)
    PROVE  Onward'
<1>1. /\ deck[d].playing /\ ~deck[Other(d)].playing /\ Loaded(Other(d)) /\ ramp = Nothing
      /\ SkipTransition(d, Other(d), deck[d].track)
      /\ UNCHANGED <<fader, tasks>>
  BY DEF SkipCurrent, Ready
<1>2. deck[d].track # NoTrack /\ deck[Other(d)].present
  BY <1>1 DEF Autopilot, Stands, Loaded
<1>3. /\ handled' = Marked(d, deck[d].track) /\ used' = used \cup {deck[d].track}
      /\ BeginTransition(d, Other(d), FALSE, deck, settles)
  BY <1>1, <1>2 DEF SkipTransition
<1>4. QED
  BY <1>1, <1>3, BeginOnward

\* Every step.
LEMMA NextOnward ==
    ASSUME TypeOK, Autopilot, Onward, Untouched, ~Repeats, [Next]_vars
    PROVE  Onward'
<1>1. CASE RampAborts \/ FinishPreview
  BY <1>1 DEF RampAborts, FinishPreview, Autopilot, HandsOff
<1>2. CASE RampMoves
  BY <1>2, QuietOnward DEF RampMoves, bookVars, flightVars
<1>3. CASE PreviewGuardExpires
  BY <1>3, QuietOnward DEF PreviewGuardExpires, musicVars, bookVars
<1>4. ASSUME NEW i \in SettleIds, PreviewSettled(i) PROVE FALSE
  BY <1>4 DEF PreviewSettled, Autopilot, HandsOff
<1>5. ASSUME NEW i \in TaskIds, AskAnswered(i) \/ SkipReady(i) PROVE FALSE
  BY <1>5 DEF AskAnswered, SkipReady, Autopilot, Fetches
<1>6. ASSUME NEW d \in Decks, Measure(d) PROVE Onward'
  <2>1. /\ UNCHANGED <<fader, used, handled, ramp, settles, tasks>>
        /\ \A e \in Decks : /\ deck'[e].present = deck[e].present /\ deck'[e].track = deck[e].track
                            /\ deck'[e].playing = deck[e].playing /\ deck'[e].phase = deck[e].phase
    BY <1>6, Records DEF Measure, DeckRec, bookVars, flightVars
  <2>2. QED
    BY <2>1, QuietOnward
<1>7. ASSUME NEW d \in Decks, Heard(d) PROVE Onward'
  BY <1>7, QuietOnward DEF Heard, musicVars, flightVars
<1>8. CASE Automatic
  BY <1>1, <1>2, <1>3, <1>4, <1>5, <1>6, <1>7, <1>8, RampFinishesOnward, RateSettledOnward,
     SeekSettledOnward, PickedOnward, FailsOnward, ArrivesOnward, AdvanceOnward, PreloadOnward,
     MixOnward, EosOnward DEF Automatic
<1>9. CASE Dj
  <2>1. \E d \in Decks : Ready(Other(d)) /\ SkipCurrent(d)
    BY <1>9 DEF Dj, Untouched
  <2>2. QED
    BY <2>1, SkipOnward
<1>10. CASE UNCHANGED vars
  BY <1>10, QuietOnward DEF vars
<1>11. QED
  BY <1>8, <1>9, <1>10 DEF Next

----------------------------------------------------------------------------
(* That the music goes on. *)

\* A track that ends is followed by the deck that a transition brings in, by the other
\* deck, or by a fetch.
LEMMA EndIsFollowed ==
    ASSUME TypeOK, Autopilot, Onward, NEW d \in Decks, Eos(d), autoDj
    PROVE  SomethingPlays' \/ MusicPending'
<1> DEFINE o == Other(d)
           stopped == [deck[d] EXCEPT !.playing = FALSE, !.phase = "end"]
           new == Task("eos", "pick", d, deck[d].track, NoTrack, NoTrack)
<1>0. o \in Decks /\ o # d /\ Other(o) = d
  BY TwoDecks
<1>1. deck[d].playing /\ UNCHANGED <<ramp, settles>> /\ Loaded(d)
  BY DEF Eos, Ready
<1>2. CASE handled[d] = deck[d].track /\ deck' = [deck EXCEPT ![d] = stopped]
  <2>1. Leaving(d)
    BY <1>1, <1>2 DEF Onward, Marks
  <2>2. CASE ramp # Nothing /\ ramp.out = d
    <3>1. ramp.in = o /\ deck[o].playing
      BY <2>2, Records DEF Autopilot, Fades, Leaves
    <3>2. deck'[o] = deck[o]
      BY <1>0, <1>2, Records
    <3>3. QED
      BY <1>0, <3>1, <3>2 DEF SomethingPlays
  <2>3. CASE \E i \in SettleIds : settles[i] # Nothing /\ settles[i].out = d
    BY <1>1, <2>3 DEF Autopilot, HandsOff, MusicPending, Live
  <2>4. QED
    BY <2>1, <2>2, <2>3 DEF Leaving
<1>3. CASE deck' = [deck EXCEPT ![d] = Freed(@), ![o] = PlayFrom(@)]
  <2>1. deck'[o] = PlayFrom(deck[o])
    BY <1>0, <1>3, Records
  <2>2. deck'[o].playing
    BY <1>0, <2>1, Records DEF PlayFrom, DeckRec
  <2>3. QED
    BY <1>0, <2>2 DEF SomethingPlays
<1>4. CASE Free(tasks) /\ tasks' = Put(tasks, new)
  <2>1. new # Nothing /\ new.kind = "eos"
    <3>1. new \in TaskRec
      BY Records DEF Task, TaskRec
    <3>2. QED
      BY <3>1, NothingAssumption DEF Task
  <2> HIDE DEF new
  <2>2. PICK j \in TaskIds : tasks' = [tasks EXCEPT ![j] = new]
    <3>1. \E j \in TaskIds : Put(tasks, new) = [tasks EXCEPT ![j] = new]
      BY <1>4, PutFree DEF TypeOK
    <3>2. QED
      BY <1>4, <3>1
  <2>3. tasks'[j] = new
    BY <2>2, Records
  <2>4. QED
    BY <2>1, <2>3 DEF MusicPending
<1>5. QED
  BY <1>2, <1>3, <1>4 DEF Eos

\* In silence a fetch for the end of a track, and a transition, end in music, unless Auto
\* DJ gives up.
LEMMA PendingGoesOn ==
    ASSUME TypeOK, Autopilot, Onward, Untouched, ~Repeats, [Next]_vars, autoDj',
           \A d \in Decks : ~deck[d].playing, MusicPending
    PROVE  SomethingPlays' \/ MusicPending'
<1> DEFINE Goal == SomethingPlays' \/ MusicPending'
<1>1. CASE UNCHANGED <<settles, tasks>>
  BY <1>1 DEF MusicPending
<1>2. ASSUME NEW i \in SettleIds, RateSettled(i) PROVE Goal
  <2> DEFINE s == [settles[i] EXCEPT !.stage = "seek"]
  <2>1. /\ settles[i] # Nothing /\ settles[i] \in SettleRec /\ ~settles[i].touched /\ ~settles[i].preview
        /\ BothExist
    BY <1>2, Records DEF RateSettled, Autopilot, HandsOff
  <2>2. settles' = [settles EXCEPT ![i] = s]
    BY <1>2, <2>1 DEF RateSettled
  <2>3. s # Nothing /\ ~s.preview /\ ~s.touched
    <3>1. s \in SettleRec
      BY <2>1 DEF SettleRec
    <3>2. QED
      BY <2>1, <3>1, NothingAssumption DEF SettleRec
  <2> HIDE DEF s
  <2>4. settles'[i] = s
    BY <2>2, Records
  <2>5. QED
    BY <2>3, <2>4 DEF MusicPending, Live
<1>3. ASSUME NEW i \in SettleIds, SeekSettled(i) PROVE Goal
  <2>1. deck'[settles[i].in].playing /\ settles[i].in \in Decks
    BY <1>3, SeekSettledOnward, Records DEF SeekSettled
  <2>2. QED
    BY <2>1 DEF SomethingPlays
<1>4. ASSUME NEW i \in TaskIds, TrackPicked(i) \/ TaskFails(i) \/ PayloadArrives(i) PROVE Goal
  <2>1. /\ tasks[i] # Nothing /\ UNCHANGED settles
        /\ \E x : tasks' = [tasks EXCEPT ![i] = x]
    BY <1>4 DEF TrackPicked, TaskFails, PayloadArrives
  <2>2. CASE tasks[i].kind = "eos"
    <3>1. CASE TrackPicked(i)
      BY <2>2, <3>1, PickedOnward DEF MusicPending
    <3>2. CASE TaskFails(i)
      BY <2>2, <3>2 DEF TaskFails
    <3>3. CASE PayloadArrives(i)
      <4>1. deck'[tasks[i].deck].playing /\ tasks[i].deck \in Decks
        BY <2>1, <2>2, <3>3, ArrivesOnward, Records
      <4>2. QED
        BY <4>1 DEF SomethingPlays
    <3>4. QED
      BY <1>4, <3>1, <3>2, <3>3
  <2>3. CASE tasks[i].kind # "eos"
    <3>1. \A j \in TaskIds : tasks[j] # Nothing /\ tasks[j].kind = "eos" => tasks'[j] = tasks[j]
      BY <2>1, <2>3, Records
    <3>2. QED
      BY <2>1, <3>1 DEF MusicPending
  <2>4. QED
    BY <2>2, <2>3
<1>5. ASSUME NEW i \in SettleIds, PreviewSettled(i) PROVE FALSE
  BY <1>5 DEF PreviewSettled, Autopilot, HandsOff
<1>6. ASSUME NEW i \in TaskIds, AskAnswered(i) \/ SkipReady(i) PROVE FALSE
  BY <1>6 DEF AskAnswered, SkipReady, Autopilot, Fetches
<1>7. ASSUME NEW d \in Decks, PreloadTrigger(d) \/ MixTrigger(d) \/ Eos(d) \/ SkipCurrent(d) PROVE FALSE
  BY <1>7 DEF PreloadTrigger, MixTrigger, Eos, SkipCurrent
<1>8. CASE \/ RampAborts \/ RampMoves \/ RampFinishes \/ FinishPreview \/ PreviewGuardExpires
           \/ \E d \in Decks : Advance(d) \/ Measure(d) \/ Heard(d)
           \/ UNCHANGED vars
  <2>1. UNCHANGED <<settles, tasks>>
    BY <1>8 DEF RampAborts, RampMoves, RampFinishes, FinishPreview, PreviewGuardExpires, Advance, Measure,
                Heard, flightVars, vars
  <2>2. QED
    BY <1>1, <2>1
<1>9. CASE Dj
  BY <1>7, <1>9 DEF Dj, Untouched
<1>10. QED
  BY <1>2, <1>3, <1>4, <1>5, <1>6, <1>7, <1>8, <1>9 DEF Next, Automatic

\* While Auto DJ is on, where Digger suggests only what was not played before, music is
\* followed by music or by what will start some.
THEOREM KeepsTheMusicGoingHolds ==
    ASSUME Untouched, ~Repeats PROVE Spec => KeepsTheMusicGoing
<1>1. Init => TypeOK /\ Autopilot /\ Onward
  BY InitTypeOK, InitAutopilot, InitOnward
<1>2. TypeOK /\ Autopilot /\ Onward /\ [Next]_vars => TypeOK' /\ Autopilot' /\ Onward'
  BY NextTypeOK, NextKeeps, NextOnward
<1>3. TypeOK /\ Autopilot /\ Onward /\ [Next]_vars
      => [autoDj' /\ (SomethingPlays \/ MusicPending) => SomethingPlays' \/ MusicPending']_vars
  <2> SUFFICES ASSUME TypeOK, Autopilot, Onward, [Next]_vars, autoDj', SomethingPlays \/ MusicPending
               PROVE  SomethingPlays' \/ MusicPending'
    OBVIOUS
  <2>1. CASE SomethingPlays
    <3>1. PICK d \in Decks : deck[d].playing
      BY <2>1 DEF SomethingPlays
    <3>2. \/ \E e \in Decks : deck'[e].playing
          \/ \E e \in Decks : Eos(e)
      BY <3>1, MusicGoesOn
    <3>3. ASSUME NEW e \in Decks, Eos(e) PROVE SomethingPlays' \/ MusicPending'
      <4>1. autoDj
        BY <3>3 DEF Eos
      <4>2. QED
        BY <3>3, <4>1, EndIsFollowed
    <3>4. QED
      BY <3>2, <3>3 DEF SomethingPlays
  <2>2. CASE ~SomethingPlays
    BY <2>2, PendingGoesOn DEF SomethingPlays
  <2>3. QED
    BY <2>1, <2>2
<1>4. QED
  BY <1>1, <1>2, <1>3, PTL DEF Spec, KeepsTheMusicGoing

----------------------------------------------------------------------------
(* The order of the queue, where Digger suggests nothing twice. *)

\* The queue holds a track once at most.
OnceEach == \A i, j \in DOMAIN Queue : Queue[i] = Queue[j] => i = j

\* Nothing unplayed is left after a.
Exhausted(a) == \A i, k \in DOMAIN Queue : Queue[i] = a /\ i < k => Queue[k] \in used

\* What QueueOrder asks of a track that waits beside one that plays.
Follows(a, b) ==
    \A i, j \in DOMAIN Queue : Queue[i] = a /\ Queue[j] = b
      => i <= j \/ \A k \in (i + 1)..Len(Queue) : Queue[k] \in used

\* The pick for a: the next unplayed entry after it, or with none left the first.
Succeeds(a, b) ==
    \A j \in DOMAIN Queue : Queue[j] = b =>
      \/ \E i \in DOMAIN Queue :
           /\ Queue[i] = a /\ i < j
           /\ \A k \in DOMAIN Queue : i < k /\ k < j => Queue[k] \in used
      \/ Exhausted(a) /\ \A k \in DOMAIN Queue : k < j => Queue[k] \in used

\* A fetch of that kind has come that far.
Fetching(i, kind, stage) == tasks[i] # Nothing /\ tasks[i].kind = kind /\ tasks[i].stage = stage

\* p plays on d, or is about to: it was picked at the end of a track.
Front(d, p) ==
    \/ deck[d].playing /\ deck[d].track = p
    \/ \E i \in TaskIds : Fetching(i, "eos", "payload") /\ tasks[i].deck = d /\ tasks[i].track = p

\* t waits on d, or is about to.
Waits(d, t) ==
    \/ Loaded(d) /\ ~deck[d].playing /\ deck[d].track = t
    \/ \E i \in TaskIds : Fetching(i, "preload", "payload") /\ tasks[i].deck = d /\ tasks[i].track = t

\* Outside a ramp, what waits follows what plays.
Ordered ==
    ramp = Nothing =>
      \A d \in Decks, p, t \in Tracks : Front(d, p) /\ Waits(Other(d), t) => Follows(p, t)

\* A preload that picks does so for what plays, or what plays was picked beside it and
\* has just begun.
PicksForFront ==
    \A i \in TaskIds : Fetching(i, "preload", "pick") =>
      \A p \in Tracks : Front(Other(tasks[i].deck), p) =>
        \/ p = tasks[i].anchor
        \/ /\ Succeeds(tasks[i].anchor, p)
           /\ deck[Other(tasks[i].deck)].phase \in {"body", "end"}

\* The end of a track that picks finds beside it what was picked for that track.
PicksBesideWaiting ==
    \A i \in TaskIds : Fetching(i, "eos", "pick") =>
      \A t \in Tracks : Waits(Other(tasks[i].deck), t) => Succeeds(tasks[i].anchor, t) /\ t \notin used

\* A preload and the end of a track that both pick do so for the same track.
OneAnchor ==
    \A i, j \in TaskIds : Fetching(i, "eos", "pick") /\ Fetching(j, "preload", "pick")
      => tasks[i].anchor = tasks[j].anchor

\* A preload beside a track that has played for a while is of what was picked for it.
PreloadsSuccessor ==
    \A i \in TaskIds : Fetching(i, "preload", "payload") =>
      LET d == Other(tasks[i].deck) IN
      deck[d].playing /\ deck[d].phase # "body"
        => tasks[i].track \notin used /\ Succeeds(deck[d].track, tasks[i].track)

\* What a transition leaves plays or has ended.
LeavesMusic ==
    /\ ramp # Nothing => deck[ramp.out].playing \/ deck[ramp.out].phase = "end"
    /\ \A i \in SettleIds : settles[i] # Nothing =>
         deck[settles[i].out].playing \/ deck[settles[i].out].phase = "end"

InOrder ==
    /\ Ordered /\ PicksForFront /\ PicksBesideWaiting
    /\ OneAnchor /\ PreloadsSuccessor /\ LeavesMusic

\* What the picker returns was not played, and comes next.
LEMMA PickIsNext ==
    ASSUME OnceEach, ~Repeats, NEW a, NEW t \in Picks(a)
    PROVE  t \in Tracks /\ t \notin used /\ Follows(a, t) /\ Succeeds(a, t)
<1> DEFINE At == {i \in DOMAIN Queue : Queue[i] = a}
           Unused == {i \in DOMAIN Queue : Queue[i] \notin used}
           After == {i \in Unused : \E x \in At : \A b \in At : x <= b /\ x < i}
           First(S) == {Queue[i] : i \in {j \in S : \A k \in S : j <= k}}
<1>0. DOMAIN Queue = 1..Len(Queue) /\ Len(Queue) \in Nat
  BY TracksAssumption
<1>1. t \in Tracks
  BY PicksType
<1>2. \/ After # {} /\ t \in First(After)
      \/ After = {} /\ Unused # {} /\ t \in First(Unused)
      \/ Unused = {} /\ t \notin used
  BY DEF Picks
<1>3. \A i \in At, k \in Unused : i < k => k \in After
  BY <1>0 DEF OnceEach
<1>4. CASE After # {} /\ t \in First(After)
  <2>1. PICK m \in After : t = Queue[m] /\ \A k \in After : m <= k
    BY <1>4
  <2>2. PICK x \in At : x < m
    BY <2>1
  <2>3. \A j \in DOMAIN Queue : Queue[j] = t => j = m
    BY <2>1 DEF OnceEach
  <2>4. \A i \in DOMAIN Queue : Queue[i] = a => i = x
    BY DEF OnceEach
  <2>5. \A k \in DOMAIN Queue : x < k /\ k < m => Queue[k] \in used
    BY <1>0, <1>3, <2>1
  <2>6. Follows(a, t)
    BY <1>0, <2>2, <2>3, <2>4 DEF Follows
  <2>7. Succeeds(a, t)
    BY <2>2, <2>3, <2>5 DEF Succeeds
  <2>8. QED
    BY <1>1, <2>1, <2>6, <2>7
<1>5. CASE After = {} /\ Unused # {} /\ t \in First(Unused)
  <2>1. PICK m \in Unused : t = Queue[m] /\ \A k \in Unused : m <= k
    BY <1>5
  <2>2. \A j \in DOMAIN Queue : Queue[j] = t => j = m
    BY <2>1 DEF OnceEach
  <2>3. \A k \in DOMAIN Queue : k < m => Queue[k] \in used
    BY <1>0, <2>1
  <2>4. Exhausted(a)
    BY <1>3, <1>5 DEF Exhausted
  <2>5. Follows(a, t)
    BY <1>0, <2>4 DEF Exhausted, Follows
  <2>6. Succeeds(a, t)
    BY <2>2, <2>3, <2>4 DEF Succeeds
  <2>7. QED
    BY <1>1, <2>1, <2>5, <2>6
<1>6. CASE Unused = {} /\ t \notin used
  <2>1. \A k \in DOMAIN Queue : Queue[k] \in used
    BY <1>6
  <2>2. Follows(a, t) /\ Succeeds(a, t)
    BY <1>6, <2>1 DEF Follows, Succeeds
  <2>3. QED
    BY <1>1, <1>6, <2>2
<1>7. QED
  BY <1>2, <1>4, <1>5, <1>6

\* Of two picks for one track, the one not played yet follows the other.
LEMMA PickedBeside ==
    ASSUME OnceEach, NEW a, NEW b, NEW t, Succeeds(a, b), Succeeds(a, t), t \notin used
    PROVE  Follows(b, t)
<1> SUFFICES ASSUME NEW i \in DOMAIN Queue, NEW j \in DOMAIN Queue, Queue[i] = b, Queue[j] = t, j < i
             PROVE  \A k \in (i + 1)..Len(Queue) : Queue[k] \in used
  <2>1. DOMAIN Queue = 1..Len(Queue) /\ Len(Queue) \in Nat
    BY TracksAssumption
  <2>2. QED
    BY <2>1 DEF Follows
<1>0. DOMAIN Queue = 1..Len(Queue) /\ Len(Queue) \in Nat
  BY TracksAssumption
<1>1. PICK x \in DOMAIN Queue :
        /\ Queue[x] = a /\ x < i
        /\ \A k \in DOMAIN Queue : x < k /\ k < i => Queue[k] \in used
  BY DEF Succeeds
<1>2. ~(x < j)
  BY <1>1
<1>3. Exhausted(a)
  <2>1. \A y \in DOMAIN Queue : Queue[y] = a => y = x
    BY <1>1 DEF OnceEach
  <2>2. QED
    BY <1>2, <2>1 DEF Succeeds
<1>4. QED
  BY <1>0, <1>1, <1>3 DEF Exhausted

\* What was next stays next as more is played.
LEMMA OrderStays ==
    ASSUME used \subseteq used', NEW a, NEW b
    PROVE  (Follows(a, b) => Follows(a, b)') /\ (Succeeds(a, b) => Succeeds(a, b)')
BY DEF Follows, Succeeds, Exhausted

----------------------------------------------------------------------------
\* A set under way begins with the head of the queue.
LEMMA InitInOrder == ASSUME OnceEach PROVE Init => InOrder
<1> SUFFICES ASSUME Init PROVE InOrder
  OBVIOUS
<1>1. /\ ramp = Nothing /\ (\A i \in SettleIds : settles[i] = Nothing)
      /\ \A i \in TaskIds : tasks[i] = Nothing
  BY DEF Init, Idle
<1>2. ~EmptyDeck.playing /\ EmptyDeck.track = NoTrack
  BY DEF EmptyDeck
<1>3. \A t \in Tracks : ~Cued(t).playing /\ Playing(t).playing /\ Playing(t).track = t
  BY DEF EmptyDeck, Cued, Playing
<1>4. \A d \in Decks : deck[d].playing => Queue # << >> /\ d = Left /\ deck[d].track = Queue[1]
  <2>1. CASE deck = [d \in Decks |-> EmptyDeck]
    BY <1>2, <2>1
  <2>2. CASE /\ Queue # << >>
             /\ \E r \in {EmptyDeck} \cup {Cued(t) : t \in Tracks \ {Queue[1]}} :
                  deck = [d \in Decks |-> IF d = Left THEN Playing(Queue[1]) ELSE r]
    <3>1. Queue[1] \in Tracks
      BY <2>2, TracksAssumption
    <3>2. PICK r \in {EmptyDeck} \cup {Cued(t) : t \in Tracks \ {Queue[1]}} :
                  deck = [d \in Decks |-> IF d = Left THEN Playing(Queue[1]) ELSE r]
      BY <2>2
    <3>3. ~r.playing
      BY <1>2, <1>3
    <3>4. QED
      BY <1>3, <2>2, <3>1, <3>2, <3>3
  <2>3. QED
    BY <2>1, <2>2 DEF Init
<1>5. Queue # << >> => \A t : Follows(Queue[1], t)
  <2>1. Queue # << >> => 1 \in DOMAIN Queue /\ DOMAIN Queue = 1..Len(Queue) /\ Len(Queue) \in Nat
    BY TracksAssumption
  <2>2. QED
    BY <2>1 DEF Follows, OnceEach
<1>6. Ordered
  BY <1>1, <1>4, <1>5 DEF Ordered, Front, Fetching
<1>7. QED
  BY <1>1, <1>6 DEF InOrder, PicksForFront, PicksBesideWaiting, OneAnchor, PreloadsSuccessor,
                    LeavesMusic, Fetching

\* What waits beside d follows what d plays.
InTurn(d) ==
    deck[d].playing /\ Loaded(Other(d)) /\ ~deck[Other(d)].playing
      => Follows(deck[d].track, deck[Other(d)].track)

\* Where nothing is fetched, the order is that of the two decks.
LEMMA DecksInOrder ==
    ASSUME \A i \in TaskIds : tasks'[i] = Nothing, LeavesMusic',
           ramp' = Nothing => \A d \in Decks : InTurn(d)'
    PROVE  InOrder'
<1>1. Ordered'
  BY DEF Ordered, Front, Waits, Fetching, InTurn
<1>2. QED
  BY <1>1 DEF InOrder, PicksForFront, PicksBesideWaiting, OneAnchor, PreloadsSuccessor, Fetching

\* A deck that goes on playing, beside one that goes on waiting, stays in turn.
LEMMA TurnStays ==
    ASSUME NEW d \in Decks, InTurn(d), used \subseteq used',
           deck[d].playing, Loaded(Other(d)), ~deck[Other(d)].playing,
           deck'[d].track = deck[d].track, deck'[Other(d)].track = deck[Other(d)].track
    PROVE  InTurn(d)'
<1>1. Follows(deck[d].track, deck[Other(d)].track)
  BY DEF InTurn
<1>2. \A a, b : Follows(a, b) /\ a = deck'[d].track /\ b = deck'[Other(d)].track => InTurn(d)'
  BY DEF Follows, InTurn
<1>3. QED
  BY <1>1, <1>2

\* Outside a ramp each deck is in turn.
LEMMA DecksInTurn ==
    ASSUME TypeOK, InOrder, NEW d \in Decks, ramp = Nothing
    PROVE  InTurn(d)
<1> SUFFICES ASSUME deck[d].playing, Loaded(Other(d)), ~deck[Other(d)].playing
             PROVE  Follows(deck[d].track, deck[Other(d)].track)
  BY DEF InTurn
<1>1. Front(d, deck[d].track) /\ Waits(Other(d), deck[Other(d)].track)
  BY DEF Front, Waits
<1>2. deck[d].track \in Tracks \/ deck[d].track = NoTrack
  BY Records
<1>3. deck[Other(d)].track \in Tracks
  BY Records, TwoDecks DEF Loaded
<1>4. CASE deck[d].track \in Tracks
  BY <1>1, <1>3, <1>4 DEF InOrder, Ordered
<1>5. CASE deck[d].track = NoTrack
  <2>1. \A i \in DOMAIN Queue : Queue[i] # NoTrack
    BY TracksAssumption
  <2>2. QED
    BY <1>5, <2>1 DEF Follows
<1>6. QED
  BY <1>2, <1>4, <1>5

\* Steps that leave the decks and what is fetched for them alone.
LEMMA QuietInOrder ==
    ASSUME TypeOK, InOrder, UNCHANGED <<ramp, settles, tasks>>, used \subseteq used',
           \A d \in Decks : /\ deck'[d].present = deck[d].present /\ deck'[d].track = deck[d].track
                            /\ deck'[d].playing = deck[d].playing /\ deck'[d].phase = deck[d].phase,
           \/ used' = used
           \/ /\ \A i \in TaskIds : ~Fetching(i, "eos", "pick")
              /\ \A i \in TaskIds : Fetching(i, "preload", "payload") =>
                   LET d == Other(tasks[i].deck) IN ~deck[d].playing \/ deck[d].phase = "body"
    PROVE  InOrder'
<1>1. \A i, k, s : Fetching(i, k, s)' <=> Fetching(i, k, s)
  BY DEF Fetching
<1>2. \A d \in Decks : \A p : (Front(d, p)' <=> Front(d, p)) /\ (Waits(d, p)' <=> Waits(d, p))
  BY <1>1 DEF Front, Waits, Loaded
<1>3. Ordered'
  BY <1>2, OrderStays, TwoDecks DEF InOrder, Ordered
<1>4. \A i \in TaskIds : \A k, s : Fetching(i, k, s) => tasks[i].deck \in Decks /\ Other(tasks[i].deck) \in Decks
  BY Records, TwoDecks DEF Fetching
<1>5. PicksForFront'
  BY <1>1, <1>2, <1>4, OrderStays DEF InOrder, PicksForFront
<1>6. PicksBesideWaiting'
  BY <1>1, <1>2, <1>4, OrderStays DEF InOrder, PicksBesideWaiting
<1>7. OneAnchor'
  BY <1>1 DEF InOrder, OneAnchor
<1>8. PreloadsSuccessor'
  BY <1>1, <1>4, OrderStays DEF InOrder, PreloadsSuccessor
<1>9. LeavesMusic'
  BY Records DEF InOrder, LeavesMusic
<1>10. QED
  BY <1>3, <1>5, <1>6, <1>7, <1>8, <1>9 DEF InOrder

\* A transition begins: what it leaves plays.
LEMMA BeginInOrder ==
    ASSUME TypeOK, Autopilot, Autopilot', InOrder, NEW d \in Decks, NEW o, o = Other(d),
           deck[d].playing, ~deck[o].playing, Loaded(o), ramp = Nothing,
           BeginTransition(d, o, FALSE, deck, settles),
           used \subseteq used', UNCHANGED tasks
    PROVE  InOrder'
<1>0. o \in Decks /\ o # d /\ Other(o) = d /\ \A e \in Decks : e = d \/ e = o
  BY TwoDecks
<1>1. \A i \in TaskIds : tasks'[i] = Nothing
  BY NoFetchBeside
<1>2. Shape(d, o)
  BY <1>0, BeginShape DEF Loaded
<1>3. deck'[d] = deck[d] /\ deck'[o].track = deck[o].track
  BY <1>2 DEF Shape
<1>4. ramp' # Nothing => ramp'.out = d
  BY <1>2 DEF Shape
<1>5. \A i \in SettleIds : settles'[i] # Nothing => settles'[i].out = d
  BY <1>2, <1>4 DEF Shape, Autopilot, Settling
<1>6. LeavesMusic'
  BY <1>3, <1>4, <1>5 DEF LeavesMusic
<1>7. ASSUME ramp' = Nothing, NEW e \in Decks
      PROVE  InTurn(e)'
  <2>1. ~deck'[o].playing
    <3>1. deck'[o].playing = deck[o].playing
      BY <1>2, <1>7 DEF Shape
    <3>2. QED
      BY <3>1
  <2>2. CASE e = d
    BY <1>3, <2>2, DecksInTurn, TurnStays
  <2>3. CASE e = o
    BY <2>1, <2>3 DEF InTurn
  <2>4. QED
    BY <1>0, <2>2, <2>3
<1>8. QED
  BY <1>1, <1>6, <1>7, DecksInOrder

\* Of two transitions that wait, both leave the same deck, and go to the other.
LEMMA SettlesAlike ==
    ASSUME TypeOK, Autopilot, NEW i \in SettleIds, NEW j \in SettleIds,
           settles[i] # Nothing, settles[j] # Nothing
    PROVE  /\ settles[j].out = settles[i].out /\ settles[i].in = Other(settles[j].out)
           /\ settles[j].out \in Decks /\ settles[i].in # settles[j].out
           /\ ramp # Nothing => ramp.out = settles[i].out
BY Records, TwoDecks DEF Autopilot, Settling, Leaves

\* The next deck is put at its mark; the deck that is left is as it was.
LEMMA RateSettledInOrder ==
    ASSUME TypeOK, Autopilot, InOrder, NEW i \in SettleIds, RateSettled(i)
    PROVE  InOrder'
<1> DEFINE s == [settles[i] EXCEPT !.stage = "seek"]
           in == settles[i].in
<1>1. /\ settles[i] # Nothing /\ settles[i] \in SettleRec /\ in \in Decks
      /\ settles' = [settles EXCEPT ![i] = s] /\ deck' = [deck EXCEPT ![in].phase = "body"]
      /\ UNCHANGED <<used, ramp, tasks>>
  <2>1. settles[i] # Nothing /\ settles[i] \in SettleRec /\ in \in Decks
    BY Records DEF RateSettled
  <2>2. ~(settles[i].touched \/ ~BothExist)
    BY <2>1 DEF Autopilot, HandsOff
  <2>3. settles' = [settles EXCEPT ![i].stage = "seek"] /\ deck' = [deck EXCEPT ![in].phase = "body"]
    BY <2>2 DEF RateSettled
  <2>4. QED
    BY <2>1, <2>3 DEF RateSettled, bookVars
<1>2. s.out = settles[i].out
  BY <1>1 DEF SettleRec
<1> HIDE DEF s
<1>3. \A j \in SettleIds : settles'[j] = IF j = i THEN s ELSE settles[j]
  BY <1>1, Records
<1>4. \A d \in Decks : /\ deck'[d].present = deck[d].present /\ deck'[d].track = deck[d].track
                       /\ deck'[d].playing = deck[d].playing
                       /\ deck'[d].phase = IF d = in THEN "body" ELSE deck[d].phase
  BY <1>1, Records DEF DeckRec
<1>5. \A j \in SettleIds : settles'[j] # Nothing =>
        settles[j] # Nothing /\ settles'[j].out = settles[j].out /\ settles[j].out \in Decks /\ settles[j].out # in
  BY <1>1, <1>2, <1>3, SettlesAlike
<1>6. ramp # Nothing => ramp.out \in Decks /\ ramp.out # in
  BY <1>1, SettlesAlike, Records
<1>7. LeavesMusic'
  BY <1>1, <1>4, <1>5, <1>6 DEF InOrder, LeavesMusic
<1>8. \A j \in TaskIds : tasks'[j] = Nothing
  BY <1>1, NoFetchBeside
<1>9. ASSUME ramp' = Nothing, NEW d \in Decks PROVE InTurn(d)'
  <2>1. InTurn(d)
    BY <1>1, <1>9, DecksInTurn
  <2>2. used \subseteq used' /\ Other(d) \in Decks
    BY <1>1, TwoDecks
  <2>3. (Loaded(Other(d)) <=> Loaded(Other(d))') /\ deck'[d].playing = deck[d].playing
        /\ deck'[Other(d)].playing = deck[Other(d)].playing
    BY <1>4, <2>2 DEF Loaded
  <2>4. CASE deck[d].playing /\ Loaded(Other(d)) /\ ~deck[Other(d)].playing
    BY <1>4, <2>1, <2>2, <2>4, TurnStays
  <2>5. CASE ~(deck[d].playing /\ Loaded(Other(d)) /\ ~deck[Other(d)].playing)
    BY <2>3, <2>5 DEF InTurn
  <2>6. QED
    BY <2>4, <2>5
<1>10. QED
  BY <1>7, <1>8, <1>9, DecksInOrder

\* The ramp starts; the deck that it leaves is as it was.
LEMMA SeekSettledInOrder ==
    ASSUME TypeOK, Autopilot, InOrder, NEW i \in SettleIds, SeekSettled(i)
    PROVE  InOrder'
<1> DEFINE in == settles[i].in
           out == settles[i].out
<1>1. /\ settles[i] # Nothing /\ in \in Decks /\ out \in Decks
      /\ settles' = [settles EXCEPT ![i] = Nothing] /\ deck' = [deck EXCEPT ![in] = PlayFrom(deck[in])]
      /\ ramp' = Ramp(out, in, FALSE)
      /\ UNCHANGED tasks
  <2>1. /\ settles[i] # Nothing /\ in \in Decks /\ out \in Decks
        /\ ~(settles[i].touched \/ ~BothExist) /\ settles[i].preview = FALSE
    BY Records DEF SeekSettled, Autopilot, HandsOff, SettleRec
  <2>2. deck' = [deck EXCEPT ![in] = PlayFrom(deck[in])] /\ ramp' = Ramp(out, in, FALSE)
    BY <2>1 DEF SeekSettled
  <2>3. QED
    BY <2>1, <2>2 DEF SeekSettled
<1>2. \A j \in SettleIds : settles'[j] # Nothing => settles'[j] = settles[j]
  BY <1>1, Records
<1>3. \A j \in SettleIds : settles'[j] # Nothing => settles'[j].out = out
  BY <1>1, <1>2, SettlesAlike
<1>4. out # in
  BY <1>1, SettlesAlike
<1>5. deck'[out] = deck[out]
  BY <1>1, <1>4, Records
<1>6. ramp' # Nothing /\ ramp'.out = out
  BY <1>1, NothingAssumption, RecordTypes DEF Ramp
<1>7. LeavesMusic'
  BY <1>1, <1>3, <1>5, <1>6 DEF InOrder, LeavesMusic
<1>8. \A j \in TaskIds : tasks'[j] = Nothing
  BY <1>1, NoFetchBeside
<1>9. QED
  BY <1>6, <1>7, <1>8, DecksInOrder

\* Fully faded, one deck plays and the other is empty.
LEMMA RampFinishesInOrder ==
    ASSUME TypeOK, Autopilot, InOrder, RampFinishes
    PROVE  InOrder'
<1>1. /\ ramp # Nothing /\ ramp.out \in Decks /\ ramp' = Nothing
      /\ deck' = [deck EXCEPT ![ramp.out] = Freed(deck[ramp.out])]
      /\ \A i \in SettleIds : settles'[i] = Nothing
      /\ UNCHANGED tasks
  BY Records DEF RampFinishes, Autopilot, HandsOff
<1>2. deck'[ramp.out].track = NoTrack /\ ~deck'[ramp.out].playing
  BY <1>1, Records DEF Freed, DeckRec
<1>3. ramp.in = Other(ramp.out) /\ deck[ramp.in].playing
  BY <1>1 DEF Autopilot, Fades, Leaves
<1>4. deck'[ramp.in] = deck[ramp.in]
  BY <1>1, <1>3, TwoDecks, Records
<1>5. \A d \in Decks : InTurn(d)'
  <2>1. \A d \in Decks : d = ramp.out \/ d = ramp.in
    BY <1>1, <1>3, TwoDecks
  <2>2. ASSUME NEW d \in Decks, d = ramp.out PROVE InTurn(d)'
    BY <1>2, <2>2 DEF InTurn
  <2>3. ASSUME NEW d \in Decks, d = ramp.in PROVE InTurn(d)'
    <3>1. Other(d) = ramp.out
      BY <1>1, <1>3, <2>3, TwoDecks
    <3>2. QED
      BY <1>2, <3>1 DEF InTurn, Loaded
  <2>4. QED
    BY <2>1, <2>2, <2>3
<1>6. LeavesMusic'
  BY <1>1 DEF LeavesMusic
<1>7. \A j \in TaskIds : tasks'[j] = Nothing
  BY <1>1, NoFetchBeside
<1>8. QED
  BY <1>5, <1>6, <1>7, DecksInOrder

\* A track plays on: only one that has played for a while does so beside a fetch.
LEMMA AdvanceInOrder ==
    ASSUME TypeOK, Autopilot, InOrder, NEW d \in Decks, Advance(d)
    PROVE  InOrder'
<1>1. /\ deck[d].playing /\ UNCHANGED <<used, ramp, settles, tasks>>
      /\ deck[d].phase = "body" => \A i \in TaskIds : tasks[i] # Nothing => tasks[i].stage \in {"ask", "ready"}
  BY DEF Advance, bookVars, flightVars
<1>2. \E p \in {"preload", "mix", "tail"} : deck' = [deck EXCEPT ![d].phase = p]
  BY DEF Advance
<1>3. /\ \A e \in Decks : /\ deck'[e].present = deck[e].present /\ deck'[e].track = deck[e].track
                          /\ deck'[e].playing = deck[e].playing
                          /\ e # d => deck'[e].phase = deck[e].phase
      /\ deck'[d].phase \in {"preload", "mix", "tail"}
  BY <1>2, Records DEF DeckRec
<1>4. deck[d].phase # "end"
  BY <1>1 DEF Autopilot, Stands
<1>5. LeavesMusic'
  BY <1>1, <1>3, <1>4, Records DEF InOrder, LeavesMusic
<1>6. \A i, k, s : Fetching(i, k, s)' <=> Fetching(i, k, s)
  BY <1>1 DEF Fetching
<1>7. \A e \in Decks : \A p : (Front(e, p)' <=> Front(e, p)) /\ (Waits(e, p)' <=> Waits(e, p))
  BY <1>1, <1>3, <1>6 DEF Front, Waits, Loaded
<1>8. \A i \in TaskIds : \A k, s : Fetching(i, k, s) => tasks[i].deck \in Decks /\ Other(tasks[i].deck) \in Decks
  BY Records, TwoDecks DEF Fetching
<1>9. \A a, b : (Follows(a, b)' <=> Follows(a, b)) /\ (Succeeds(a, b)' <=> Succeeds(a, b))
  BY <1>1 DEF Follows, Succeeds, Exhausted
<1>10. CASE deck[d].phase = "body"
  <2>1. \A i \in TaskIds : tasks[i] = Nothing
    BY <1>1, <1>10 DEF Autopilot, Fetches
  <2>2. Ordered'
    BY <1>1, <1>7, <1>9, TwoDecks DEF InOrder, Ordered
  <2>3. QED
    BY <1>1, <1>5, <2>1, <2>2 DEF InOrder, PicksForFront, PicksBesideWaiting, OneAnchor, PreloadsSuccessor,
                                  Fetching
<1>11. CASE deck[d].phase # "body"
  <2>1. Ordered'
    BY <1>1, <1>7, <1>9, TwoDecks DEF InOrder, Ordered
  <2>2. PicksForFront'
    BY <1>1, <1>3, <1>4, <1>6, <1>7, <1>8, <1>9, <1>11 DEF InOrder, PicksForFront
  <2>3. PicksBesideWaiting'
    BY <1>1, <1>6, <1>7, <1>8, <1>9 DEF InOrder, PicksBesideWaiting
  <2>4. OneAnchor'
    BY <1>1, <1>6 DEF InOrder, OneAnchor
  <2>5. PreloadsSuccessor'
    BY <1>1, <1>3, <1>6, <1>8, <1>9, <1>11 DEF InOrder, PreloadsSuccessor
  <2>6. QED
    BY <1>5, <2>1, <2>2, <2>3, <2>4, <2>5 DEF InOrder
<1>12. QED
  BY <1>10, <1>11

\* What is heard for the first time has just begun, and a preload beside it does not know
\* of more than that it is yet to play.
LEMMA HeardInOrder ==
    ASSUME TypeOK, Autopilot, Onward, InOrder, NEW d \in Decks, Heard(d)
    PROVE  InOrder'
<1>1. /\ deck[d].playing /\ deck[d].track \notin used /\ used \subseteq used'
      /\ UNCHANGED <<deck, ramp, settles, tasks>>
  BY DEF Heard, Audible, musicVars, flightVars
<1>2. deck[d].phase = "body"
  BY <1>1 DEF Onward, Hears
<1>3. \A i \in TaskIds : ~Fetching(i, "eos", "pick")
  BY <1>1 DEF Fetching, Autopilot, Fetches, AfterSilence
<1>4. ASSUME NEW i \in TaskIds, Fetching(i, "preload", "payload")
      PROVE  LET e == Other(tasks[i].deck) IN ~deck[e].playing \/ deck[e].phase = "body"
  <2>1. ramp = Nothing
    BY <1>4, FetchesAlone DEF Fetching
  <2>2. \A e \in Decks : e # d => ~deck[e].playing
    BY <1>1, <2>1, TwoDecks DEF Autopilot, Fades
  <2>3. Other(tasks[i].deck) \in Decks
    BY <1>4, Records, TwoDecks DEF Fetching
  <2>4. QED
    BY <1>2, <2>2, <2>3
<1>5. QED
  BY <1>1, <1>3, <1>4, QuietInOrder

\* A track ends: its deck stops, is freed for the other one, or is fetched for beside a
\* preload for that track.
LEMMA EosInOrder ==
    ASSUME TypeOK, Autopilot, Onward, InOrder, NEW d \in Decks, Eos(d)
    PROVE  InOrder'
<1> DEFINE o == Other(d)
           stopped == [deck[d] EXCEPT !.playing = FALSE, !.phase = "end"]
           new == Task("eos", "pick", d, deck[d].track, NoTrack, NoTrack)
<1>0. o \in Decks /\ o # d /\ Other(o) = d /\ \A e \in Decks : e = d \/ e = o
  BY TwoDecks
<1>1. /\ deck[d].playing /\ deck[d].phase = "tail" /\ Loaded(d) /\ UNCHANGED <<used, ramp, settles>>
      /\ deck[d].track \in Tracks
  BY Records DEF Eos, bookVars, Ready, Loaded
<1>2. \A i \in TaskIds : \A s : ~Fetching(i, "eos", s)
  BY <1>1 DEF Fetching, Autopilot, Fetches, AfterSilence
<1>3. \A i \in TaskIds : \A s : Fetching(i, "preload", s) =>
        tasks[i].deck = o /\ deck[o].track = NoTrack /\ ~deck[o].playing
  <2>1. ASSUME NEW i \in TaskIds, NEW s, Fetching(i, "preload", s)
        PROVE  tasks[i].deck = o /\ deck[o].track = NoTrack /\ ~deck[o].playing
    <3>1. tasks[i].deck \in Decks /\ deck[tasks[i].deck].track = NoTrack
      BY <2>1, Records DEF Fetching, Autopilot, Fetches, ForEmptyDeck
    <3>2. tasks[i].deck # d
      BY <1>1, <3>1 DEF Loaded
    <3>3. QED
      BY <1>0, <3>1, <3>2 DEF Autopilot, Stands
  <2>2. QED
    BY <2>1
<1>4. ASSUME deck' = [deck EXCEPT ![d] = stopped]
      PROVE  /\ deck'[o] = deck[o] /\ deck'[d].track = deck[d].track
             /\ ~deck'[d].playing /\ deck'[d].phase = "end"
             /\ LeavesMusic'
  <2>1. /\ deck'[o] = deck[o] /\ deck'[d].track = deck[d].track
        /\ ~deck'[d].playing /\ deck'[d].phase = "end"
    BY <1>0, <1>4, Records DEF DeckRec
  <2>2. LeavesMusic'
    BY <1>0, <1>1, <2>1, Records DEF InOrder, LeavesMusic
  <2>3. QED
    BY <2>1, <2>2
<1>5. CASE deck' = [deck EXCEPT ![d] = stopped] /\ UNCHANGED tasks
  <2>1. \A i \in TaskIds : \A k, s : Fetching(i, k, s)' <=> Fetching(i, k, s)
    BY <1>5 DEF Fetching
  <2>2. \A p : ~Front(d, p)'
    BY <1>2, <1>4, <1>5, <2>1 DEF Front
  <2>3. Ordered'
    <3>1. ramp = Nothing => ~deck[o].playing
      BY <1>0, <1>1 DEF Autopilot, Fades
    <3>2. ramp = Nothing => \A p : ~Front(o, p)'
      BY <1>2, <1>4, <1>5, <2>1, <3>1 DEF Front
    <3>3. QED
      BY <1>0, <1>1, <2>2, <3>2 DEF Ordered
  <2>4. PicksForFront'
    BY <1>0, <1>3, <1>5, <2>1, <2>2 DEF PicksForFront
  <2>5. PicksBesideWaiting' /\ OneAnchor'
    BY <1>2, <2>1 DEF PicksBesideWaiting, OneAnchor
  <2>6. PreloadsSuccessor'
    BY <1>0, <1>3, <1>4, <1>5, <2>1 DEF PreloadsSuccessor
  <2>7. QED
    BY <1>4, <1>5, <2>3, <2>4, <2>5, <2>6 DEF InOrder
<1>6. CASE /\ handled[d] # deck[d].track /\ Promotes(d) /\ UNCHANGED tasks
           /\ deck' = [deck EXCEPT ![d] = Freed(@), ![o] = PlayFrom(@)]
  <2>1. /\ (\A i \in TaskIds : tasks[i] = Nothing)
        /\ ramp = Nothing /\ \A i \in SettleIds : settles[i] = Nothing
    BY <1>1, <1>6, NoTransitionAtEnd, NoFetchBeside DEF Promotes
  <2>2. deck'[d] = Freed(deck[d]) /\ deck'[o] = PlayFrom(deck[o])
    BY <1>0, <1>6, Records
  <2>3. deck'[d].track = NoTrack /\ ~deck'[d].playing /\ deck'[o].playing
    BY <1>0, <2>2, Records DEF Freed, PlayFrom, DeckRec
  <2>4. \A e \in Decks : InTurn(e)'
    BY <1>0, <2>3 DEF InTurn, Loaded
  <2>5. LeavesMusic'
    BY <1>1, <2>1 DEF LeavesMusic
  <2>6. QED
    BY <1>6, <2>1, <2>4, <2>5, DecksInOrder
<1>7. CASE /\ handled[d] # deck[d].track /\ ~Promotes(d) /\ Free(tasks)
           /\ deck' = [deck EXCEPT ![d] = stopped] /\ tasks' = Put(tasks, new)
  <2>1. ramp = Nothing /\ (\A i \in SettleIds : settles[i] = Nothing)
    BY <1>1, <1>7, NoTransitionAtEnd
  <2>2. ~deck[o].playing
    BY <1>0, <1>1, <2>1 DEF Autopilot, Fades
  <2>3. ~Loaded(o)
    BY <1>7, <2>2 DEF Promotes
  <2>4. new.kind = "eos" /\ new.stage = "pick" /\ new.deck = d /\ new.anchor = deck[d].track
    BY DEF Task
  <2> HIDE DEF new
  <2>5. PICK j \in TaskIds : tasks' = [tasks EXCEPT ![j] = new] /\ tasks[j] = Nothing
    <3>1. \E j \in TaskIds : Put(tasks, new) = [tasks EXCEPT ![j] = new] /\ tasks[j] = Nothing
      BY <1>7, PutFree DEF TypeOK
    <3>2. QED
      BY <1>7, <3>1
  <2>6. \A i \in TaskIds : tasks'[i] = IF i = j THEN new ELSE tasks[i]
    BY <2>5, Records
  <2>7. \A i \in TaskIds : \A s : /\ Fetching(i, "preload", s)' => Fetching(i, "preload", s) /\ tasks'[i] = tasks[i]
                                  /\ Fetching(i, "eos", s)' => i = j /\ s = "pick"
    BY <1>2, <2>4, <2>6 DEF Fetching
  <2>8. \A e \in Decks : \A p : ~Front(e, p)'
    BY <1>0, <1>4, <1>7, <2>2, <2>7 DEF Front
  <2>9. Ordered' /\ PicksForFront'
    BY <1>0, <1>3, <2>7, <2>8, TwoDecks DEF Ordered, PicksForFront
  <2>10. PicksBesideWaiting'
    <3>1. ASSUME NEW t \in Tracks, Waits(o, t)'
          PROVE  Succeeds(deck[d].track, t) /\ t \notin used
      <4>1. ~Loaded(o)'
        BY <1>4, <1>7, <2>3 DEF Loaded
      <4>2. PICK i \in TaskIds : Fetching(i, "preload", "payload") /\ tasks[i].track = t
        BY <2>7, <3>1, <4>1 DEF Waits
      <4>3. Other(tasks[i].deck) = d
        BY <1>0, <1>3, <4>2
      <4>4. QED
        BY <1>1, <4>2, <4>3 DEF InOrder, PreloadsSuccessor
    <3>2. \A a, b : Succeeds(a, b) => Succeeds(a, b)'
      BY <1>1 DEF Succeeds, Exhausted
    <3>3. \A i \in TaskIds : Fetching(i, "eos", "pick")' =>
            tasks'[i].deck = d /\ Other(tasks'[i].deck) = o /\ tasks'[i].anchor = deck[d].track
      BY <2>4, <2>6, <2>7
    <3>4. \A t \in Tracks : Waits(o, t)' => Succeeds(deck[d].track, t) /\ t \notin used'
      BY <1>1, <3>1
    <3>5. \A a, t : Succeeds(a, t) /\ a = deck[d].track => Succeeds(a, t)'
      BY <3>2
    <3>6. QED
      BY <3>3, <3>4, <3>5 DEF PicksBesideWaiting
  <2>11. OneAnchor'
    <3>1. \A i \in TaskIds : Fetching(i, "preload", "pick") => tasks[i].anchor = deck[d].track
      <4>1. Front(d, deck[d].track)
        BY <1>1 DEF Front
      <4>2. QED
        BY <1>0, <1>1, <1>3, <4>1 DEF InOrder, PicksForFront
    <3>2. QED
      BY <2>4, <2>6, <2>7, <3>1 DEF OneAnchor
  <2>12. PreloadsSuccessor'
    BY <1>0, <1>3, <1>4, <1>7, <2>7 DEF PreloadsSuccessor
  <2>13. QED
    BY <1>4, <1>7, <2>9, <2>10, <2>11, <2>12 DEF InOrder
<1>8. QED
  BY <1>5, <1>6, <1>7 DEF Eos

\* A preload is asked for what plays.
LEMMA PreloadInOrder ==
    ASSUME TypeOK, Autopilot, InOrder, NEW d \in Decks, PreloadTrigger(d)
    PROVE  InOrder'
<1> DEFINE o == Other(d)
           new == Task("preload", "pick", o, deck[d].track, NoTrack, NoTrack)
<1>0. o \in Decks /\ o # d /\ Other(o) = d /\ \A e \in Decks : e = d \/ e = o
  BY TwoDecks
<1>1. /\ deck[d].playing /\ Free(tasks) /\ tasks' = Put(tasks, new)
      /\ UNCHANGED <<deck, used, ramp, settles>>
  BY DEF PreloadTrigger, musicVars
<1>2. \A i \in TaskIds : \A s : ~Fetching(i, "eos", s)
  BY <1>1 DEF Fetching, Autopilot, Fetches, AfterSilence
<1>3. new.kind = "preload" /\ new.stage = "pick" /\ new.deck = o /\ new.anchor = deck[d].track
  BY DEF Task
<1> HIDE DEF new
<1>4. PICK j \in TaskIds : tasks' = [tasks EXCEPT ![j] = new] /\ tasks[j] = Nothing
  <2>1. \E j \in TaskIds : Put(tasks, new) = [tasks EXCEPT ![j] = new] /\ tasks[j] = Nothing
    BY <1>1, PutFree DEF TypeOK
  <2>2. QED
    BY <1>1, <2>1
<1>5. \A i \in TaskIds : tasks'[i] = IF i = j THEN new ELSE tasks[i]
  BY <1>4, Records
<1>6. \A i \in TaskIds : \A k, s : Fetching(i, k, s)' =>
        \/ i = j /\ k = "preload" /\ s = "pick"
        \/ Fetching(i, k, s) /\ tasks'[i] = tasks[i]
  BY <1>3, <1>5 DEF Fetching
<1>7. \A e \in Decks : \A p : (Front(e, p)' => Front(e, p)) /\ (Waits(e, p)' => Waits(e, p))
  BY <1>1, <1>6 DEF Front, Waits, Loaded
<1>8. \A p : Front(d, p) => p = deck[d].track
  BY <1>2 DEF Front
<1>9. \A a, b : (Follows(a, b) => Follows(a, b)') /\ (Succeeds(a, b) => Succeeds(a, b)')
  BY <1>1, OrderStays
<1>10. Ordered'
  BY <1>1, <1>7, <1>9, TwoDecks DEF InOrder, Ordered
<1>11. PicksForFront'
  <2>1. ASSUME NEW i \in TaskIds, Fetching(i, "preload", "pick")', NEW p \in Tracks,
               Front(Other(tasks'[i].deck), p)
        PROVE  \/ p = tasks'[i].anchor
               \/ /\ Succeeds(tasks'[i].anchor, p)
                  /\ deck[Other(tasks'[i].deck)].phase \in {"body", "end"}
    <3>1. CASE tasks'[i] = new
      BY <1>0, <1>3, <1>8, <2>1, <3>1
    <3>2. CASE tasks'[i] = tasks[i]
      BY <1>5, <2>1, <3>2 DEF InOrder, PicksForFront, Fetching
    <3>3. QED
      BY <1>5, <3>1, <3>2
  <2>2. \A i \in TaskIds : Fetching(i, "preload", "pick")' => Other(tasks'[i].deck) \in Decks
    BY <1>0, <1>3, <1>5, Records, TwoDecks DEF Fetching
  <2>3. QED
    BY <1>1, <1>7, <1>9, <2>1, <2>2 DEF PicksForFront
<1>12. PicksBesideWaiting' /\ OneAnchor'
  BY <1>2, <1>6 DEF PicksBesideWaiting, OneAnchor
<1>13. PreloadsSuccessor'
  BY <1>1, <1>6, <1>9 DEF InOrder, PreloadsSuccessor
<1>14. LeavesMusic'
  BY <1>1 DEF InOrder, LeavesMusic
<1>15. QED
  BY <1>10, <1>11, <1>12, <1>13, <1>14 DEF InOrder

\* A fetch that fails leaves less to be in order.
LEMMA FailsInOrder ==
    ASSUME TypeOK, InOrder, NEW i \in TaskIds, tasks' = [tasks EXCEPT ![i] = Nothing],
           UNCHANGED <<deck, used, ramp, settles>>
    PROVE  InOrder'
<1>1. \A j \in TaskIds : \A k, s : Fetching(j, k, s)' => Fetching(j, k, s) /\ tasks'[j] = tasks[j]
  BY Records DEF Fetching
<1>2. \A e \in Decks : \A p : (Front(e, p)' => Front(e, p)) /\ (Waits(e, p)' => Waits(e, p))
  BY <1>1 DEF Front, Waits, Loaded
<1>3. \A a, b : (Follows(a, b) => Follows(a, b)') /\ (Succeeds(a, b) => Succeeds(a, b)')
  BY OrderStays
<1>4. \A j \in TaskIds : \A k, s : Fetching(j, k, s) => Other(tasks[j].deck) \in Decks
  BY Records, TwoDecks DEF Fetching
<1>5. Ordered'
  BY <1>2, <1>3, TwoDecks DEF InOrder, Ordered
<1>6. PicksForFront'
  BY <1>1, <1>2, <1>3, <1>4 DEF InOrder, PicksForFront
<1>7. PicksBesideWaiting'
  BY <1>1, <1>2, <1>3, <1>4 DEF InOrder, PicksBesideWaiting
<1>8. OneAnchor' /\ PreloadsSuccessor'
  BY <1>1, <1>3 DEF InOrder, OneAnchor, PreloadsSuccessor
<1>9. LeavesMusic'
  BY DEF InOrder, LeavesMusic
<1>10. QED
  BY <1>5, <1>6, <1>7, <1>8, <1>9 DEF InOrder

\* A preload has picked: the next track after what plays, and not one played before.
LEMMA PreloadPickedInOrder ==
    ASSUME TypeOK, Autopilot, InOrder, OnceEach, ~Repeats,
           NEW i \in TaskIds, Fetching(i, "preload", "pick"), NEW b \in Picks(tasks[i].anchor),
           NEW x, x.kind = "preload", x.stage = "payload", x.deck = tasks[i].deck, x.track = b,
           tasks' = [tasks EXCEPT ![i] = x],
           UNCHANGED <<deck, used, ramp, settles>>
    PROVE  InOrder'
<1> DEFINE o == tasks[i].deck
           d == Other(o)
           a == tasks[i].anchor
<1>0. o \in Decks /\ d \in Decks /\ o # d /\ Other(d) = o /\ \A e \in Decks : e = d \/ e = o
  BY Records, TwoDecks DEF Fetching
<1>1. \A j \in TaskIds : tasks'[j] = IF j = i THEN x ELSE tasks[j]
  BY Records
<1>2. \A j \in TaskIds : \A k, s : Fetching(j, k, s)' =>
        \/ j = i /\ k = "preload" /\ s = "payload"
        \/ Fetching(j, k, s) /\ tasks'[j] = tasks[j]
  BY <1>1 DEF Fetching
<1>3. b \in Tracks /\ b \notin used /\ Follows(a, b) /\ Succeeds(a, b)
  BY PickIsNext
<1>4. /\ \A e \in Decks : \A p : Front(e, p)' => Front(e, p)
      /\ \A p : Waits(d, p)' => Waits(d, p)
      /\ \A p : Waits(o, p)' => p = b \/ Waits(o, p)
  BY <1>0, <1>1, <1>2 DEF Front, Waits, Loaded
<1>5. \A p : ~Front(o, p)
  <2>1. ~deck[o].playing
    BY <1>0 DEF Fetching, Autopilot, Fetches, ForEmptyDeck, Stands
  <2>2. ASSUME NEW j \in TaskIds, Fetching(j, "eos", "payload"), tasks[j].deck = o PROVE FALSE
    BY <2>2 DEF Fetching, Autopilot, Fetches
  <2>3. QED
    BY <2>1, <2>2 DEF Front
<1>6. \A p \in Tracks : Front(d, p) => Follows(p, b)
  BY <1>0, <1>3, PickedBeside DEF InOrder, PicksForFront
<1>7. \A u, v : (Follows(u, v) => Follows(u, v)') /\ (Succeeds(u, v) => Succeeds(u, v)')
  BY OrderStays
<1>8. Ordered'
  BY <1>0, <1>4, <1>5, <1>6, <1>7 DEF InOrder, Ordered
<1>9. \A j \in TaskIds : \A k, s : Fetching(j, k, s) => Other(tasks[j].deck) \in Decks
  BY Records, TwoDecks DEF Fetching
<1>10. PicksForFront'
  BY <1>2, <1>4, <1>7, <1>9 DEF InOrder, PicksForFront
<1>11. PicksBesideWaiting'
  <2>1. ASSUME NEW j \in TaskIds, Fetching(j, "eos", "pick")', NEW p \in Tracks,
               Waits(Other(tasks[j].deck), p) \/ p = b
        PROVE  Succeeds(tasks[j].anchor, p) /\ p \notin used /\ tasks'[j] = tasks[j]
    <3>1. Fetching(j, "eos", "pick") /\ tasks'[j] = tasks[j]
      BY <1>2, <2>1
    <3>2. tasks[j].anchor = a
      BY <3>1 DEF InOrder, OneAnchor
    <3>3. QED
      BY <1>3, <2>1, <3>1, <3>2 DEF InOrder, PicksBesideWaiting
  <2>2. \A e \in Decks : \A p : Waits(e, p)' => Waits(e, p) \/ p = b
    BY <1>0, <1>4
  <2>3. \A j \in TaskIds : Fetching(j, "eos", "pick")' => Other(tasks'[j].deck) \in Decks /\ tasks'[j] = tasks[j]
    BY <1>2, <1>9
  <2>4. QED
    BY <1>7, <2>1, <2>2, <2>3 DEF PicksBesideWaiting
<1>12. OneAnchor'
  BY <1>2 DEF InOrder, OneAnchor
<1>13. PreloadsSuccessor'
  <2>1. deck[d].playing /\ deck[d].phase # "body" => Succeeds(deck[d].track, b)
    <3>1. SUFFICES ASSUME deck[d].playing, deck[d].phase # "body" PROVE Succeeds(deck[d].track, b)
      OBVIOUS
    <3>2. deck[d].phase # "end" /\ deck[d].track \in Tracks
      BY <1>0, <3>1, Records DEF Autopilot, Stands
    <3>3. Front(d, deck[d].track)
      BY <3>1 DEF Front
    <3>4. deck[d].track = a
      BY <3>1, <3>2, <3>3 DEF InOrder, PicksForFront
    <3>5. QED
      BY <1>3, <3>4
  <2>2. \A j \in TaskIds : Fetching(j, "preload", "payload")' =>
          \/ tasks'[j].deck = o /\ tasks'[j].track = b
          \/ Fetching(j, "preload", "payload") /\ tasks'[j] = tasks[j]
    BY <1>1, <1>2
  <2>3. QED
    BY <1>3, <1>7, <2>1, <2>2 DEF InOrder, PreloadsSuccessor
<1>14. LeavesMusic'
  BY DEF InOrder, LeavesMusic
<1>15. QED
  BY <1>8, <1>10, <1>11, <1>12, <1>13, <1>14 DEF InOrder

\* The end of a track has picked: what waits beside it follows the pick.
LEMMA EosPickedInOrder ==
    ASSUME TypeOK, Autopilot, InOrder, OnceEach, ~Repeats,
           NEW i \in TaskIds, Fetching(i, "eos", "pick"), NEW b \in Picks(tasks[i].anchor),
           NEW x, x.kind = "eos", x.stage = "payload", x.deck = tasks[i].deck, x.track = b,
           tasks' = [tasks EXCEPT ![i] = x],
           UNCHANGED <<deck, used, ramp, settles>>
    PROVE  InOrder'
<1> DEFINE d == tasks[i].deck
           o == Other(d)
           a == tasks[i].anchor
<1>0. o \in Decks /\ d \in Decks /\ o # d /\ Other(o) = d /\ \A e \in Decks : e = d \/ e = o
  BY Records, TwoDecks DEF Fetching
<1>1. \A j \in TaskIds : tasks'[j] = IF j = i THEN x ELSE tasks[j]
  BY Records
<1>2. /\ \A j \in TaskIds : \A s : Fetching(j, "eos", s) => j = i /\ s = "pick"
      /\ deck[d].phase = "end" /\ \A e \in Decks : ~deck[e].playing
  BY DEF Fetching, Autopilot, Fetches, AfterSilence
<1>3. \A j \in TaskIds : \A s :
        /\ Fetching(j, "preload", s)' => Fetching(j, "preload", s) /\ tasks'[j] = tasks[j]
        /\ Fetching(j, "eos", s)' => j = i /\ s = "payload"
  BY <1>1, <1>2 DEF Fetching
<1>4. b \in Tracks /\ b \notin used /\ Succeeds(a, b)
  BY PickIsNext
<1>5. /\ \A p : Front(d, p)' => p = b
      /\ \A p : ~Front(o, p)'
      /\ \A e \in Decks : \A p : Waits(e, p)' => Waits(e, p)
  BY <1>0, <1>1, <1>2, <1>3 DEF Front, Waits, Loaded
<1>6. \A p \in Tracks : Waits(o, p) => Follows(b, p)
  BY <1>4, PickedBeside DEF InOrder, PicksBesideWaiting
<1>7. \A u, v : (Follows(u, v) => Follows(u, v)') /\ (Succeeds(u, v) => Succeeds(u, v)')
  BY OrderStays
<1>8. Ordered'
  BY <1>0, <1>5, <1>6, <1>7 DEF Ordered
<1>9. PicksForFront'
  <2>1. ASSUME NEW j \in TaskIds, Fetching(j, "preload", "pick")
        PROVE  tasks[j].anchor = a
    BY <2>1 DEF InOrder, OneAnchor
  <2>2. \A e \in Decks : \A p : Front(e, p)' => e = d /\ p = b
    BY <1>0, <1>5
  <2>3. \A j \in TaskIds : Fetching(j, "preload", "pick")' =>
          Other(tasks'[j].deck) \in Decks /\ tasks'[j].anchor = a
    BY <1>3, <2>1, Records, TwoDecks DEF Fetching
  <2>4. \A u : u = a => Succeeds(u, b)'
    BY <1>4, <1>7
  <2>5. QED
    BY <1>2, <2>2, <2>3, <2>4 DEF PicksForFront
<1>10. PicksBesideWaiting' /\ OneAnchor'
  BY <1>3 DEF PicksBesideWaiting, OneAnchor
<1>11. PreloadsSuccessor'
  <2>1. \A j \in TaskIds : Fetching(j, "preload", "payload")' => ~deck[Other(tasks'[j].deck)].playing
    BY <1>2, <1>3, Records, TwoDecks DEF Fetching
  <2>2. QED
    BY <2>1 DEF PreloadsSuccessor
<1>12. LeavesMusic'
  BY DEF InOrder, LeavesMusic
<1>13. QED
  BY <1>8, <1>9, <1>10, <1>11, <1>12 DEF InOrder

\* The next track is known.
LEMMA PickedInOrder ==
    ASSUME TypeOK, Autopilot, InOrder, OnceEach, ~Repeats, NEW i \in TaskIds, TrackPicked(i)
    PROVE  InOrder'
<1>1. /\ tasks[i] # Nothing /\ tasks[i] \in TaskRec /\ tasks[i].deck \in Decks /\ tasks[i].stage = "pick"
      /\ UNCHANGED <<deck, used, ramp, settles>>
  BY Records DEF TrackPicked, musicVars, bookVars
<1>2. PICK u \in Picks(tasks[i].anchor) :
         tasks' = [tasks EXCEPT ![i] =
            IF @.kind = "preload" /\ ~(deck[@.deck].present /\ deck[@.deck].track = NoTrack)
            THEN Nothing
            ELSE LoadOf([@ EXCEPT !.track = u])]
  BY DEF TrackPicked
<1> DEFINE new == LoadOf([tasks[i] EXCEPT !.track = u])
<1>3. ~(deck[tasks[i].deck].playing /\ Loaded(tasks[i].deck))
  BY <1>1 DEF Autopilot, Fetches, ForEmptyDeck, AfterSilence, Loaded
<1>4. /\ new.kind = tasks[i].kind /\ new.deck = tasks[i].deck
      /\ new.stage = "payload" /\ new.track = u
  BY <1>1, <1>3 DEF LoadOf, TaskRec
<1>5. tasks' = [tasks EXCEPT ![i] = Nothing] \/ tasks' = [tasks EXCEPT ![i] = new]
  BY <1>2
<1> HIDE DEF new
<1>6. Fetching(i, "preload", "pick") \/ Fetching(i, "eos", "pick")
  BY <1>1 DEF Fetching, Autopilot, Fetches
<1>7. CASE tasks' = [tasks EXCEPT ![i] = Nothing]
  BY <1>1, <1>7, FailsInOrder
<1>8. CASE tasks' = [tasks EXCEPT ![i] = new] /\ Fetching(i, "preload", "pick")
  BY <1>1, <1>4, <1>8, PreloadPickedInOrder DEF Fetching
<1>9. CASE tasks' = [tasks EXCEPT ![i] = new] /\ Fetching(i, "eos", "pick")
  BY <1>1, <1>4, <1>9, EosPickedInOrder DEF Fetching
<1>10. QED
  BY <1>5, <1>6, <1>7, <1>8, <1>9

\* The track goes onto its deck, where it waits or plays as it was going to.
LEMMA ArrivesInOrder ==
    ASSUME TypeOK, Autopilot, InOrder, NEW i \in TaskIds, PayloadArrives(i)
    PROVE  InOrder'
<1> PICK e \in Decks : e = tasks[i].deck
  BY Records DEF PayloadArrives
<1> DEFINE o == Other(e)
           r == WithTrack(deck[e], tasks[i].track)
<1>1. /\ tasks[i] # Nothing /\ tasks[i] \in TaskRec /\ e \in Decks /\ tasks[i].stage = "payload"
      /\ tasks[i].kind \in {"preload", "eos"}
      /\ UNCHANGED <<ramp, settles>> /\ used' = used
  BY Records DEF PayloadArrives, Autopilot, Fetches
<1>2. o \in Decks /\ o # e /\ Other(o) = e /\ \A d \in Decks : d = e \/ d = o
  BY <1>1, TwoDecks
<1>3. deck[e].present
  BY <1>1 DEF Autopilot, HandsOff, BothExist, Decks
<1>4. \A j \in TaskIds : tasks'[j] = IF j = i THEN Nothing ELSE tasks[j]
  <2>1. tasks' = [tasks EXCEPT ![i] = AfterLoad(tasks[i])]
    BY DEF PayloadArrives
  <2>2. AfterLoad(tasks[i]) = Nothing
    BY <1>1 DEF AfterLoad
  <2>3. QED
    BY <2>1, <2>2, Records
<1>5. deck' = [deck EXCEPT ![e] = PlayedAfterLoad(tasks[i], r)]
  BY <1>3 DEF PayloadArrives, Patched
<1>6. r.track = tasks[i].track /\ ~r.playing /\ r.phase = "body" /\ r \in DeckRec
  <2>1. tasks[i].track \in Tracks \cup {NoTrack} /\ deck[e] \in DeckRec
    BY <1>1, Records DEF TaskRec
  <2>2. r \in DeckRec
    BY <2>1, DeckTypes
  <2>3. QED
    BY <2>1, <2>2 DEF WithTrack, DeckRec
<1> HIDE DEF r
<1>7. /\ deck'[o] = deck[o] /\ deck'[e].track = tasks[i].track /\ deck'[e].phase = "body"
      /\ deck'[e].playing <=> tasks[i].kind = "eos"
  <2>1. CASE tasks[i].kind = "eos"
    <3>1. deck'[o] = deck[o] /\ deck'[e] = PlayFrom(r)
      BY <1>1, <1>2, <1>5, <2>1, Records DEF PlayedAfterLoad
    <3>2. QED
      BY <1>6, <2>1, <3>1 DEF PlayFrom, DeckRec
  <2>2. CASE tasks[i].kind # "eos"
    <3>1. deck'[o] = deck[o] /\ deck'[e] = r
      BY <1>1, <1>2, <1>5, <2>2, Records DEF PlayedAfterLoad
    <3>2. QED
      BY <1>6, <2>2, <3>1
  <2>3. QED
    BY <2>1, <2>2
<1>8. \A j \in TaskIds : \A k, s : Fetching(j, k, s)' =>
        Fetching(j, k, s) /\ tasks'[j] = tasks[j] /\ tasks[j].deck = o
  <2>1. \A j \in TaskIds : j # i /\ tasks[j] # Nothing => tasks[j].deck = o
    BY <1>1, <1>2, Records DEF Autopilot, Fetches
  <2>2. QED
    BY <1>4, <2>1 DEF Fetching
<1>9. /\ \A p : Front(o, p)' => Front(o, p)
      /\ \A p : Waits(o, p)' => Waits(o, p)
  BY <1>2, <1>7, <1>8 DEF Front, Waits, Loaded
<1>10. \A p : Front(e, p)' => tasks[i].kind = "eos" /\ Front(e, p)
  <2>1. \A p : Front(e, p)' => tasks[i].kind = "eos" /\ p = tasks[i].track
    BY <1>2, <1>7, <1>8 DEF Front
  <2>2. tasks[i].kind = "eos" => Front(e, tasks[i].track)
    BY <1>1 DEF Front, Fetching
  <2>3. QED
    BY <2>1, <2>2
<1>11. \A p : Waits(e, p)' => Waits(e, p)
  <2>1. \A p : Waits(e, p)' => tasks[i].kind = "preload" /\ p = tasks[i].track
    BY <1>1, <1>2, <1>7, <1>8 DEF Waits
  <2>2. tasks[i].kind = "preload" => Waits(e, tasks[i].track)
    BY <1>1 DEF Waits, Fetching
  <2>3. QED
    BY <2>1, <2>2
<1>12. \A u, v : (Follows(u, v) => Follows(u, v)') /\ (Succeeds(u, v) => Succeeds(u, v)')
  BY <1>1, OrderStays
<1>13. Ordered'
  BY <1>1, <1>2, <1>9, <1>10, <1>11, <1>12 DEF InOrder, Ordered
<1>14. PicksForFront'
  BY <1>2, <1>7, <1>8, <1>10, <1>12 DEF InOrder, PicksForFront
<1>15. PicksBesideWaiting'
  BY <1>1, <1>2, <1>8, <1>11, <1>12 DEF InOrder, PicksBesideWaiting
<1>16. OneAnchor'
  BY <1>8 DEF InOrder, OneAnchor
<1>17. PreloadsSuccessor'
  BY <1>2, <1>7, <1>8 DEF PreloadsSuccessor
<1>18. LeavesMusic'
  BY <1>1, FetchesAlone DEF LeavesMusic
<1>19. QED
  BY <1>13, <1>14, <1>15, <1>16, <1>17, <1>18 DEF InOrder

\* Every step.
LEMMA NextInOrder ==
    ASSUME TypeOK, Autopilot, Autopilot', Onward, InOrder, Untouched, OnceEach, ~Repeats, [Next]_vars
    PROVE  InOrder'
<1>1. CASE RampAborts \/ FinishPreview
  BY <1>1 DEF RampAborts, FinishPreview, Autopilot, HandsOff
<1>2. CASE RampMoves
  BY <1>2, QuietInOrder DEF RampMoves, bookVars, flightVars
<1>3. CASE PreviewGuardExpires
  BY <1>3, QuietInOrder DEF PreviewGuardExpires, musicVars, bookVars
<1>4. ASSUME NEW i \in SettleIds, PreviewSettled(i) PROVE FALSE
  BY <1>4 DEF PreviewSettled, Autopilot, HandsOff
<1>5. ASSUME NEW i \in TaskIds, AskAnswered(i) \/ SkipReady(i) PROVE FALSE
  BY <1>5 DEF AskAnswered, SkipReady, Autopilot, Fetches
<1>6. ASSUME NEW d \in Decks, Measure(d) PROVE InOrder'
  <2>1. /\ UNCHANGED <<used, ramp, settles, tasks>>
        /\ \A e \in Decks : /\ deck'[e].present = deck[e].present /\ deck'[e].track = deck[e].track
                            /\ deck'[e].playing = deck[e].playing /\ deck'[e].phase = deck[e].phase
    BY <1>6, Records DEF Measure, DeckRec, bookVars, flightVars
  <2>2. QED
    BY <2>1, QuietInOrder
<1>7. ASSUME NEW i \in TaskIds, TaskFails(i) PROVE InOrder'
  BY <1>7, FailsInOrder DEF TaskFails, musicVars, bookVars
<1>8. ASSUME NEW d \in Decks, MixTrigger(d) PROVE InOrder'
  <2>1. /\ deck[d].playing /\ ~deck[Other(d)].playing /\ Loaded(Other(d)) /\ ramp = Nothing
        /\ BeginTransition(d, Other(d), FALSE, deck, settles)
        /\ UNCHANGED <<used, tasks>>
    BY <1>8 DEF MixTrigger, Ready
  <2>2. QED
    BY <2>1, BeginInOrder
<1>9. ASSUME NEW d \in Decks, Ready(Other(d)), SkipCurrent(d) PROVE InOrder'
  <2>1. /\ deck[d].playing /\ ~deck[Other(d)].playing /\ Loaded(Other(d)) /\ ramp = Nothing
        /\ SkipTransition(d, Other(d), deck[d].track)
        /\ UNCHANGED tasks
    BY <1>9 DEF SkipCurrent, Ready
  <2>2. used \subseteq used' /\ BeginTransition(d, Other(d), FALSE, deck, settles)
    BY <2>1 DEF SkipTransition, Loaded
  <2>3. QED
    BY <2>1, <2>2, BeginInOrder
<1>10. CASE Automatic
  BY <1>1, <1>2, <1>3, <1>4, <1>5, <1>6, <1>7, <1>8, <1>10, RampFinishesInOrder, RateSettledInOrder,
     SeekSettledInOrder, PickedInOrder, ArrivesInOrder, AdvanceInOrder, HeardInOrder, PreloadInOrder,
     EosInOrder DEF Automatic
<1>11. CASE Dj
  <2>1. \E d \in Decks : Ready(Other(d)) /\ SkipCurrent(d)
    BY <1>11 DEF Dj, Untouched
  <2>2. QED
    BY <1>9, <2>1
<1>12. CASE UNCHANGED vars
  BY <1>12, QuietInOrder DEF vars
<1>13. QED
  BY <1>10, <1>11, <1>12 DEF Next

\* In order, what waits follows what plays: in a ramp what is left plays or has ended.
LEMMA InOrderSuffices == TypeOK /\ Autopilot /\ InOrder => QueueOrder
<1> SUFFICES ASSUME TypeOK, Autopilot, InOrder,
                    NEW d \in Decks, NEW i \in DOMAIN Queue, NEW j \in DOMAIN Queue,
                    deck[d].playing, deck[d].track = Queue[i],
                    Loaded(Other(d)), deck[Other(d)].track = Queue[j],
                    ~deck[Other(d)].playing, deck[Other(d)].phase # "end"
             PROVE  i <= j \/ \A k \in (i + 1)..Len(Queue) : Queue[k] \in used
  BY DEF QueueOrder
<1>1. CASE ramp = Nothing
  BY <1>1, DecksInTurn DEF InTurn, Follows
<1>2. CASE ramp # Nothing
  <2>1. /\ ramp.out \in Decks /\ ramp.in = Other(ramp.out) /\ deck[ramp.in].playing
        /\ deck[ramp.out].playing \/ deck[ramp.out].phase = "end"
    BY <1>2, Records DEF Autopilot, Fades, Leaves, InOrder, LeavesMusic
  <2>2. Other(d) = ramp.out \/ Other(d) = ramp.in
    BY <2>1, TwoDecks
  <2>3. QED
    BY <2>1, <2>2
<1>3. QED
  BY <1>1, <1>2

\* Where the queue holds a track once at most and Digger suggests nothing twice, the
\* track that waits comes later in the queue than the one that plays, unless nothing
\* unplayed is left there.
THEOREM QueueOrderHolds ==
    ASSUME Untouched, OnceEach, ~Repeats PROVE Spec => []QueueOrder
<1>1. Init => TypeOK /\ Autopilot /\ Onward /\ InOrder
  BY InitTypeOK, InitAutopilot, InitOnward, InitInOrder
<1>2. TypeOK /\ Autopilot /\ Onward /\ InOrder /\ [Next]_vars
      => TypeOK' /\ Autopilot' /\ Onward' /\ InOrder'
  BY NextTypeOK, NextKeeps, NextOnward, NextInOrder
<1>3. TypeOK /\ Autopilot /\ InOrder => QueueOrder
  BY InOrderSuffices
<1>4. QED
  BY <1>1, <1>2, <1>3, PTL DEF Spec
=============================================================================
