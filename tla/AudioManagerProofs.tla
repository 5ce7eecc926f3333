------------------------- MODULE AudioManagerProofs -------------------------
(***************************************************************************)
(* What is proved of AudioManager, for every set of decks and devices, any *)
(* number of threads and any lists of main devices.                         *)
(***************************************************************************)
EXTENDS AudioManager, FiniteSetTheorems, TLAPS

----------------------------------------------------------------------------
(* Nodes. *)

\* Every device has a node, which is the recording's for no device of the picker.
LEMMA NodesTyped ==
  /\ Nodes \subseteq Nat /\ RecordNode \in Nodes
  /\ \A d \in Devices : KeyNode(d) \in Nodes \ {RecordNode} /\ KeyNode(d) = NodeOf[d]
  /\ KeyNode(RecordDevice) = RecordNode
  BY DevicesAssumption DEF Nodes, RecordNode, KeyNode, RecordDevice

\* The least of some numbers is one of them.
LEMMA LeastIsOne ==
  ASSUME NEW S \in SUBSET Nat, S # {}
  PROVE  Least(S) \in S
  <1>1. \E x \in S : \A y \in S : ~(<<y, x>> \in OpToRel(<, Nat))
    BY WFMin, NatLessThanWellFounded
  <1>2. PICK x \in S : \A y \in S : ~(y < x)
    BY <1>1 DEF OpToRel
  <1>3. \A y \in S : x <= y
    BY <1>2
  <1> QED BY <1>3 DEF Least

\* The owner of the tap is one node with a main branch, if there is one.
LEMMA OwnerIsMain ==
  ASSUME NEW g \in GraphRec
  PROVE  /\ TapOwner(g) \subseteq Mains(g)
         /\ Mains(g) = {} => TapOwner(g) = {}
         /\ Mains(g) # {} => \E n \in Mains(g) : TapOwner(g) = {n}
  <1> DEFINE tapped == {n \in Mains(g) : g.node[n].tap # "none"}
  <1>1. Mains(g) \subseteq Nat /\ tapped \subseteq Mains(g) /\ tapped \in SUBSET Nat
    BY NodesTyped DEF Mains
  <1>2. tapped # {} => Least(tapped) \in tapped
    BY <1>1, LeastIsOne
  <1>3. Mains(g) # {} => Least(Mains(g)) \in Mains(g)
    BY <1>1, LeastIsOne
  <1>4. TapOwner(g) = IF tapped # {} THEN {Least(tapped)}
                      ELSE IF Mains(g) # {} THEN {Least(Mains(g))} ELSE {}
    BY DEF TapOwner
  <1> HIDE DEF tapped
  <1>5. CASE tapped # {}
    BY <1>1, <1>2, <1>4, <1>5
  <1>6. CASE tapped = {}
    BY <1>3, <1>4, <1>6
  <1> QED BY <1>5, <1>6

----------------------------------------------------------------------------
(* The tap. *)

Open(g, n) == g.node[n] # Nothing /\ g.node[n].tap = "open"

TapSound(g) ==
    /\ \A n, m \in Nodes : Open(g, n) /\ Open(g, m) => n = m
    /\ \A n \in Nodes : Open(g, n) => n \in Mains(g)

TapReady(g, on) == (\E n \in Nodes : Open(g, n)) <=> on /\ Mains(g) # {}

\* h is g but for the taps.
Kept(g, h) ==
    /\ h.target = g.target /\ h.extra = g.extra /\ h.master = g.master
    /\ \A n \in Nodes :
         /\ h.node[n] = Nothing <=> g.node[n] = Nothing
         /\ g.node[n] # Nothing =>
              /\ h.node[n].width = g.node[n].width
              /\ h.node[n].branches = g.node[n].branches
              /\ h.node[n].srcs = g.node[n].srcs
              /\ h.node[n].delay = g.node[n].delay
              /\ h.node[n].volume = g.node[n].volume

\* refresh_tap changes nothing but taps.
LEMMA RefreshKeeps ==
  ASSUME NEW g \in GraphRec, NEW on \in BOOLEAN
  PROVE  RefreshTap(g, on) \in GraphRec /\ Kept(g, RefreshTap(g, on))
  <1> DEFINE h == RefreshTap(g, on)
  <1>1. ASSUME NEW n \in Nodes
        PROVE  /\ g.node[n] = Nothing => h.node[n] = Nothing
               /\ g.node[n] # Nothing =>
                    h.node[n] = [g.node[n] EXCEPT !.tap = Tapped(@, on /\ n \in TapOwner(g))]
    BY DEF RefreshTap, GraphRec
  <1>2. ASSUME NEW n \in Nodes, g.node[n] # Nothing
        PROVE  /\ g.node[n] \in NodeRec /\ h.node[n] \in NodeRec
               /\ h.node[n] = [g.node[n] EXCEPT !.tap = Tapped(@, on /\ n \in TapOwner(g))]
               /\ h.node[n] # Nothing
    BY <1>1, <1>2, NothingAssumption DEF GraphRec, NodeRec, Tapped
  <1>3. h = [g EXCEPT !.node = h.node] /\ DOMAIN h.node = Nodes
    BY DEF RefreshTap, GraphRec
  <1>4. h.node \in [Nodes -> {Nothing} \cup NodeRec]
    <2>1. h.node = [n \in Nodes |-> h.node[n]]
      BY DEF RefreshTap, GraphRec
    <2> QED BY <1>1, <1>2, <2>1
  <1>5. h \in GraphRec
    BY <1>3, <1>4 DEF GraphRec
  <1>6. h.target = g.target /\ h.extra = g.extra /\ h.master = g.master
    BY DEF RefreshTap, GraphRec
  <1>7. ASSUME NEW n \in Nodes, g.node[n] # Nothing
        PROVE  /\ h.node[n].width = g.node[n].width
               /\ h.node[n].branches = g.node[n].branches
               /\ h.node[n].srcs = g.node[n].srcs
               /\ h.node[n].delay = g.node[n].delay
               /\ h.node[n].volume = g.node[n].volume
    <2>1. PICK t : h.node[n] = [g.node[n] EXCEPT !.tap = t]
      BY <1>2, <1>7
    <2>2. g.node[n] \in NodeRec
      BY <1>2, <1>7
    <2> HIDE DEF h
    <2> QED BY <2>1, <2>2 DEF NodeRec
  <1> HIDE DEF h
  <1> QED BY <1>1, <1>2, <1>5, <1>6, <1>7 DEF Kept, h

\* Nodes that differ in taps only have the same main branches.
LEMMA KeptMains ==
  ASSUME NEW g, NEW h, Kept(g, h)
  PROVE  Mains(h) = Mains(g)
  BY DEF Kept, Mains, HasMain

\* refresh_tap leaves one open valve at most: its owner's, if the visualizers listen.
LEMMA RefreshFollows ==
  ASSUME NEW g \in GraphRec, NEW on \in BOOLEAN
  PROVE  TapSound(RefreshTap(g, on)) /\ TapReady(RefreshTap(g, on), on)
  <1> DEFINE h == RefreshTap(g, on)
  <1>1. Kept(g, h) /\ Mains(h) = Mains(g)
    BY RefreshKeeps, KeptMains
  <1>2. ASSUME NEW n \in Nodes
        PROVE  Open(h, n) <=> on /\ n \in TapOwner(g)
    <2>1. CASE g.node[n] = Nothing
      <3>1. n \notin TapOwner(g)
        BY <2>1, OwnerIsMain DEF Mains, HasMain
      <3> QED BY <1>1, <2>1, <3>1 DEF Open, Kept
    <2>2. CASE g.node[n] # Nothing
      <3>1. h.node[n].tap = Tapped(g.node[n].tap, on /\ n \in TapOwner(g))
        BY <2>2 DEF RefreshTap, GraphRec, NodeRec
      <3>2. h.node[n] # Nothing
        BY <1>1, <2>2 DEF Kept
      <3> QED BY <3>1, <3>2 DEF Open, Tapped
    <2> QED BY <2>1, <2>2
  <1> HIDE DEF h
  <1>3. TapOwner(g) \subseteq Mains(g)
        /\ (Mains(g) = {} => TapOwner(g) = {})
        /\ (Mains(g) # {} => \E n \in Mains(g) : TapOwner(g) = {n})
    BY OwnerIsMain
  <1>4. Mains(g) \subseteq Nodes
    BY DEF Mains
  <1>5. TapSound(h)
    BY <1>1, <1>2, <1>3 DEF TapSound
  <1>6. TapReady(h, on)
    BY <1>1, <1>2, <1>3, <1>4 DEF TapReady
  <1> QED BY <1>5, <1>6 DEF h

----------------------------------------------------------------------------
(* Attaching and detaching. *)

At(g, n, d, c) == g.node[n] # Nothing /\ <<d, c>> \in g.node[n].branches

\* No node has fewer sources than branches; none is counted below zero.
Counted(g) ==
    \A n \in Nodes : g.node[n] # Nothing =>
        IsFiniteSet(g.node[n].branches) /\ Cardinality(g.node[n].branches) <= g.node[n].srcs

GraphOK(g) == g \in GraphRec /\ Counted(g)

\* The settings hold on every node.
Settled(g) ==
    \A n \in Nodes : g.node[n] # Nothing =>
        g.node[n].delay = g.extra[n] /\ g.node[n].volume = g.master

\* What every change of branches leaves as it is.
Steady(g, h, on) ==
    /\ GraphOK(h)
    /\ h.target = g.target /\ h.extra = g.extra /\ h.master = g.master
    /\ Settled(g) => Settled(h)
    /\ TapSound(g) => TapSound(h)
    /\ TapSound(g) /\ TapReady(g, on) => TapReady(h, on)

\* One steady change after another is one.
LEMMA SteadyTwice ==
  ASSUME NEW g, NEW h, NEW i, NEW on, Steady(g, h, on), Steady(h, i, on)
  PROVE  Steady(g, i, on)
  BY DEF Steady

\* No change is one.
LEMMA SteadyNone ==
  ASSUME NEW g, NEW on, GraphOK(g)
  PROVE  Steady(g, g, on)
  BY DEF Steady

\* refresh_tap is a steady change, which touches no branch.
LEMMA RefreshSteady ==
  ASSUME NEW g, GraphOK(g), NEW on \in BOOLEAN
  PROVE  LET h == RefreshTap(g, on) IN
         /\ Steady(g, h, on)
         /\ CensusAgrees(g) => CensusAgrees(h)
         /\ \A n \in Nodes : \A d, c : At(h, n, d, c) <=> At(g, n, d, c)
  <1> DEFINE h == RefreshTap(g, on)
  <1>1. g \in GraphRec /\ Counted(g)
    BY DEF GraphOK
  <1>2. h \in GraphRec /\ Kept(g, h) /\ TapSound(h) /\ TapReady(h, on)
    BY <1>1, RefreshKeeps, RefreshFollows
  <1> HIDE DEF h
  <1>3. Counted(h) /\ (Settled(g) => Settled(h)) /\ (CensusAgrees(g) => CensusAgrees(h))
    BY <1>1, <1>2 DEF Kept, Counted, Settled, CensusAgrees
  <1>4. \A n \in Nodes : \A d, c : At(h, n, d, c) <=> At(g, n, d, c)
    BY <1>2 DEF Kept, At
  <1>5. Steady(g, h, on)
    BY <1>1, <1>2, <1>3 DEF Kept, Steady, GraphOK
  <1> QED BY <1>3, <1>4, <1>5 DEF h

\* create_node makes an empty node with the settings of the moment.
LEMMA WithNodeSteady ==
  ASSUME NEW g, GraphOK(g), NEW dev \in Devices \cup {RecordDevice}, NEW on \in BOOLEAN
  PROVE  LET h == WithNode(g, dev) IN
         /\ Steady(g, h, on)
         /\ CensusAgrees(g) => CensusAgrees(h)
         /\ \A n \in Nodes : \A d, c : At(h, n, d, c) <=> At(g, n, d, c)
         /\ h.node[KeyNode(dev)] # Nothing
         /\ Mains(h) = Mains(g)
  <1> DEFINE h == WithNode(g, dev)
             k == KeyNode(dev)
             new == NewNode(g, dev)
  <1>1. g \in GraphRec /\ Counted(g) /\ k \in Nodes
    BY NodesTyped DEF GraphOK
  <1>2. CASE g.node[k] # Nothing
    <2>1. h = g
      BY <1>2 DEF WithNode
    <2> QED BY <1>2, <2>1, SteadyNone
  <1>3. CASE g.node[k] = Nothing
    <2>1. /\ new \in NodeRec /\ new # Nothing /\ new.branches = {} /\ new.srcs = 0
          /\ new.tap = "none" /\ new.delay = g.extra[k] /\ new.volume = g.master
      BY <1>1, NothingAssumption DEF NewNode, NodeRec, GraphRec, Width
    <2>2. h = [g EXCEPT !.node[k] = new]
      BY <1>3 DEF WithNode
    <2> HIDE DEF new
    <2>3. /\ h \in GraphRec /\ h.node = [g.node EXCEPT ![k] = new]
          /\ h.target = g.target /\ h.extra = g.extra /\ h.master = g.master
      BY <1>1, <2>1, <2>2 DEF GraphRec
    <2>4. ASSUME NEW n \in Nodes
          PROVE  h.node[n] = IF n = k THEN new ELSE g.node[n]
      BY <1>1, <2>3 DEF GraphRec
    <2> HIDE DEF h, k
    <2>5. Counted(h) /\ (CensusAgrees(g) => CensusAgrees(h))
      <3>1. IsFiniteSet({}) /\ Cardinality({}) = 0
        BY FS_EmptySet
      <3>2. IsFiniteSet(new.branches) /\ Cardinality(new.branches) <= new.srcs
            /\ new.srcs = Cardinality(new.branches)
        BY <2>1, <3>1
      <3>3. Counted(h)
        BY <1>1, <2>4, <3>2 DEF Counted
      <3>4. CensusAgrees(g) => CensusAgrees(h)
        BY <2>4, <3>2 DEF CensusAgrees
      <3> QED BY <3>3, <3>4
    <2>6. Settled(g) => Settled(h)
      BY <1>1, <2>1, <2>3, <2>4 DEF Settled
    <2>7. \A n \in Nodes : \A d, c : At(h, n, d, c) <=> At(g, n, d, c)
      BY <1>3, <2>1, <2>4 DEF At
    <2>8. \A n \in Nodes : HasMain(h.node[n]) <=> HasMain(g.node[n])
      BY <1>3, <2>1, <2>4 DEF HasMain
    <2>9. Mains(h) = Mains(g)
      BY <2>8 DEF Mains
    <2>10. \A n \in Nodes : Open(h, n) <=> Open(g, n)
      BY <1>3, <2>1, <2>4 DEF Open
    <2>11. Steady(g, h, on)
      BY <2>3, <2>5, <2>6, <2>9, <2>10 DEF Steady, GraphOK, TapSound, TapReady
    <2>12. h.node[k] # Nothing
      BY <1>1, <2>1, <2>4
    <2> QED BY <2>5, <2>7, <2>9, <2>11, <2>12 DEF h, k
  <1> QED BY <1>2, <1>3

\* A branch more, and for one that is no main branch nothing else: the tap stays.
LEMMA WithBranchIs ==
  ASSUME NEW g, GraphOK(g), NEW k \in Nodes, g.node[k] # Nothing,
         NEW d \in Decks, NEW c \in Channels, NEW on \in BOOLEAN
  PROVE  LET h == WithBranch(g, k, <<d, c>>) IN
         /\ GraphOK(h)
         /\ h.target = g.target /\ h.extra = g.extra /\ h.master = g.master
         /\ Settled(g) => Settled(h)
         /\ CensusAgrees(g) /\ ~At(g, k, d, c) => CensusAgrees(h)
         /\ \A n \in Nodes : \A e, f :
              At(h, n, e, f) <=> At(g, n, e, f) \/ (n = k /\ e = d /\ f = c)
         /\ c \notin MainChannels => Steady(g, h, on)
  <1> DEFINE h == WithBranch(g, k, <<d, c>>)
             old == g.node[k]
             new == [old EXCEPT !.branches = @ \cup {<<d, c>>}, !.srcs = @ + 1,
                                !.volume = g.master]
  <1>1. g \in GraphRec /\ Counted(g)
    BY DEF GraphOK
  <1>2. old \in NodeRec /\ <<d, c>> \in Keys
    BY <1>1 DEF GraphRec, Keys
  <1>3. /\ new \in NodeRec /\ new.branches = old.branches \cup {<<d, c>>}
        /\ new.srcs = old.srcs + 1 /\ new.volume = g.master /\ new.delay = old.delay
        /\ new.tap = old.tap
    <2>1. g.master \in Nat
      BY <1>1 DEF GraphRec
    <2>2. PICK b, s : /\ b = old.branches \cup {<<d, c>>} /\ s = old.srcs + 1
                      /\ new = [old EXCEPT !.branches = b, !.srcs = s, !.volume = g.master]
      OBVIOUS
    <2>3. b \in SUBSET Keys /\ s \in Nat
      BY <1>2, <2>2 DEF NodeRec
    <2> HIDE DEF new, old
    <2> QED BY <1>2, <2>1, <2>2, <2>3 DEF NodeRec
  <1>4. new # Nothing
    BY <1>3, NothingAssumption
  <1>5. h = [g EXCEPT !.node[k] = new]
    BY <1>1 DEF WithBranch, GraphRec
  <1> HIDE DEF h, new
  <1>6. /\ h \in GraphRec /\ h.node = [g.node EXCEPT ![k] = new]
        /\ h.target = g.target /\ h.extra = g.extra /\ h.master = g.master
    BY <1>1, <1>3, <1>5 DEF GraphRec
  <1>7. ASSUME NEW n \in Nodes
        PROVE  h.node[n] = IF n = k THEN new ELSE g.node[n]
    BY <1>1, <1>6 DEF GraphRec
  <1>8. /\ IsFiniteSet(old.branches) /\ Cardinality(old.branches) <= old.srcs
        /\ Cardinality(old.branches) \in Nat /\ old.srcs \in Nat
    BY <1>1, <1>2, FS_CardinalityType DEF Counted, NodeRec
  <1>9. /\ IsFiniteSet(new.branches)
        /\ Cardinality(new.branches) = Cardinality(old.branches)
                                       + IF <<d, c>> \in old.branches THEN 0 ELSE 1
    <2>1. /\ IsFiniteSet(new.branches)
          /\ Cardinality(new.branches) = IF <<d, c>> \in old.branches
                                         THEN Cardinality(old.branches)
                                         ELSE Cardinality(old.branches) + 1
      <3> HIDE DEF old
      <3>1. /\ IsFiniteSet(old.branches \cup {<<d, c>>})
            /\ Cardinality(old.branches \cup {<<d, c>>}) =
                 IF <<d, c>> \in old.branches THEN Cardinality(old.branches)
                 ELSE Cardinality(old.branches) + 1
        BY <1>8, FS_AddElement, Zenon
      <3> QED BY <1>3, <3>1
    <2> HIDE DEF old
    <2> QED BY <1>8, <2>1
  <1>10. Counted(h)
    <2>1. /\ IsFiniteSet(new.branches)
          /\ Cardinality(new.branches) <= new.srcs
      <3> HIDE DEF old
      <3> QED BY <1>3, <1>8, <1>9
    <2> QED BY <1>1, <1>7, <2>1 DEF Counted
  <1>11. Settled(g) => Settled(h)
    BY <1>3, <1>6, <1>7 DEF Settled
  <1>12. CensusAgrees(g) /\ ~At(g, k, d, c) => CensusAgrees(h)
    BY <1>3, <1>7, <1>8, <1>9 DEF CensusAgrees, At
  <1>13. \A n \in Nodes : \A e, f :
              At(h, n, e, f) <=> At(g, n, e, f) \/ (n = k /\ e = d /\ f = c)
    BY <1>3, <1>4, <1>7 DEF At
  <1>14. ASSUME c \notin MainChannels
         PROVE  Steady(g, h, on)
    <2>1. \A n \in Nodes : HasMain(h.node[n]) <=> HasMain(g.node[n])
      BY <1>3, <1>4, <1>7, <1>14 DEF HasMain
    <2>2. Mains(h) = Mains(g)
      BY <2>1 DEF Mains
    <2>3. \A n \in Nodes : Open(h, n) <=> Open(g, n)
      BY <1>3, <1>4, <1>7 DEF Open
    <2> QED BY <1>6, <1>10, <1>11, <2>2, <2>3 DEF Steady, GraphOK, TapSound, TapReady
  <1> QED BY <1>6, <1>10, <1>11, <1>12, <1>13, <1>14 DEF h, GraphOK

\* attach.  A branch it makes is on the device's node, and is counted there if the node
\* had none under its key; the recording's is made whenever there is a target.
LEMMA AttachIs ==
  ASSUME NEW g, GraphOK(g), NEW dev \in Devices \cup {RecordDevice},
         NEW d \in Decks, NEW c \in Channels, NEW on \in BOOLEAN
  PROVE  LET a == Attach(g, dev, <<d, c>>, on) IN
         /\ a.ok \in BOOLEAN /\ Steady(g, a.graph, on)
         /\ CensusAgrees(g) /\ ~At(g, KeyNode(dev), d, c) => CensusAgrees(a.graph)
         /\ \A n \in Nodes : \A e, f :
              At(a.graph, n, e, f)
              <=> At(g, n, e, f) \/ (a.ok /\ n = KeyNode(dev) /\ e = d /\ f = c)
         /\ dev = RecordDevice /\ g.target => a.ok
  <1> DEFINE k == KeyNode(dev)
             h == WithNode(g, dev)
             i == WithBranch(h, k, <<d, c>>)
             j == Refreshed(i, <<d, c>>, on)
             a == Attach(g, dev, <<d, c>>, on)
  <1>1. k \in Nodes
    BY NodesTyped
  <1>2. /\ Steady(g, h, on) /\ (CensusAgrees(g) => CensusAgrees(h))
        /\ \A n \in Nodes : \A e, f : At(h, n, e, f) <=> At(g, n, e, f)
        /\ h.node[k] # Nothing
    BY WithNodeSteady
  <1>3. GraphOK(h)
    BY <1>2 DEF Steady
  <1>4. \/ a = [ok |-> FALSE, graph |-> g]
        \/ a = [ok |-> FALSE, graph |-> h]
        \/ a = [ok |-> TRUE, graph |-> j]
    BY DEF Attach
  <1>5. dev = RecordDevice /\ g.target => a.ok
    BY DEF Attach, LayoutOf, CanCreate, Fits
  <1> HIDE DEF a, h
  <1>6. /\ GraphOK(i)
        /\ i.target = h.target /\ i.extra = h.extra /\ i.master = h.master
        /\ Settled(h) => Settled(i)
        /\ CensusAgrees(h) /\ ~At(h, k, d, c) => CensusAgrees(i)
        /\ \A n \in Nodes : \A e, f :
              At(i, n, e, f) <=> At(h, n, e, f) \/ (n = k /\ e = d /\ f = c)
        /\ c \notin MainChannels => Steady(h, i, on)
    BY <1>1, <1>2, <1>3, WithBranchIs
  <1> HIDE DEF i, k
  <1>7. /\ Steady(h, j, on)
        /\ CensusAgrees(i) => CensusAgrees(j)
        /\ \A n \in Nodes : \A e, f : At(j, n, e, f) <=> At(i, n, e, f)
    <2>1. CASE c \notin MainChannels
      <3>1. j = i
        BY <2>1 DEF Refreshed
      <3> QED BY <1>6, <2>1, <3>1
    <2>2. CASE c \in MainChannels
      <3>1. j = RefreshTap(i, on)
        BY <2>2 DEF Refreshed
      <3>2. /\ Steady(i, j, on)
            /\ CensusAgrees(i) => CensusAgrees(j)
            /\ \A n \in Nodes : \A e, f : At(j, n, e, f) <=> At(i, n, e, f)
        BY <1>6, <3>1, RefreshSteady
      <3>3. TapSound(j) /\ TapReady(j, on)
        BY <1>6, <3>1, RefreshFollows DEF GraphOK
      <3> QED BY <1>6, <3>2, <3>3 DEF Steady
    <2> QED BY <2>1, <2>2
  <1> HIDE DEF j
  <1>8. /\ a.ok \in BOOLEAN /\ Steady(g, a.graph, on)
        /\ CensusAgrees(g) /\ ~At(g, k, d, c) => CensusAgrees(a.graph)
        /\ \A n \in Nodes : \A e, f :
              At(a.graph, n, e, f)
              <=> At(g, n, e, f) \/ (a.ok /\ n = k /\ e = d /\ f = c)
    <2>1. CASE a = [ok |-> FALSE, graph |-> g]
      <3>1. a.ok = FALSE /\ a.graph = g
        BY <2>1
      <3> QED BY <3>1, SteadyNone
    <2>2. CASE a = [ok |-> FALSE, graph |-> h]
      <3>1. a.ok = FALSE /\ a.graph = h
        BY <2>2
      <3> QED BY <1>2, <3>1
    <2>3. CASE a = [ok |-> TRUE, graph |-> j]
      <3>1. a.ok = TRUE /\ a.graph = j
        BY <2>3
      <3>2. Steady(g, j, on)
        BY <1>2, <1>7, SteadyTwice
      <3> QED BY <1>1, <1>2, <1>6, <1>7, <3>1, <3>2
    <2> QED BY <1>4, <2>1, <2>2, <2>3
  <1> QED BY <1>5, <1>8 DEF a, k

\* detach takes away one branch under the key at most, and the only one if there is one.
LEMMA DetachIs ==
  ASSUME NEW g, GraphOK(g), NEW d \in Decks, NEW c \in Channels, NEW on \in BOOLEAN
  PROVE  LET h == Detach(g, <<d, c>>, on) IN
         /\ Steady(g, h, on)
         /\ CensusAgrees(g) => CensusAgrees(h)
         /\ \A n \in Nodes : \A e, f : At(h, n, e, f) => At(g, n, e, f)
         /\ \A n \in Nodes : \A e, f :
              ~(e = d /\ f = c) => (At(h, n, e, f) <=> At(g, n, e, f))
         /\ (\A n, m \in Nodes : At(g, n, d, c) /\ At(g, m, d, c) => n = m)
            => \A n \in Nodes : ~At(h, n, d, c)
  <1> DEFINE k == CHOOSE m \in Holders(g, <<d, c>>) : TRUE
             old == g.node[k]
             new == [old EXCEPT !.branches = @ \ {<<d, c>>}, !.srcs = @ - 1]
             i == [g EXCEPT !.node[k].branches = @ \ {<<d, c>>}, !.node[k].srcs = @ - 1]
             h == Detach(g, <<d, c>>, on)
  <1>1. g \in GraphRec /\ Counted(g)
    BY DEF GraphOK
  <1>2. \A n \in Nodes : n \in Holders(g, <<d, c>>) <=> At(g, n, d, c)
    BY DEF Holders, At
  <1>3. CASE Holders(g, <<d, c>>) = {}
    <2>1. h = g
      BY <1>3 DEF Detach
    <2> QED BY <1>2, <1>3, <2>1, SteadyNone
  <1>4. CASE Holders(g, <<d, c>>) # {}
    <2>1. k \in Nodes /\ At(g, k, d, c)
      BY <1>2, <1>4 DEF Holders
    <2>2. h = Refreshed(i, <<d, c>>, on)
      BY <1>4 DEF Detach
    <2> HIDE DEF k, h
    <2>3. old \in NodeRec /\ <<d, c>> \in old.branches /\ old # Nothing
      BY <1>1, <2>1 DEF GraphRec, At
    <2>4. /\ IsFiniteSet(old.branches) /\ Cardinality(old.branches) <= old.srcs
          /\ Cardinality(old.branches) \in Nat /\ old.srcs \in Nat
      BY <1>1, <2>1, <2>3, FS_CardinalityType DEF Counted, NodeRec
    <2>5. /\ IsFiniteSet(old.branches \ {<<d, c>>})
          /\ Cardinality(old.branches \ {<<d, c>>}) = Cardinality(old.branches) - 1
      <3> HIDE DEF old
      <3>1. /\ IsFiniteSet(old.branches \ {<<d, c>>})
            /\ Cardinality(old.branches \ {<<d, c>>}) =
                 IF <<d, c>> \in old.branches THEN Cardinality(old.branches) - 1
                 ELSE Cardinality(old.branches)
        BY <2>4, FS_RemoveElement, Zenon
      <3> QED BY <2>3, <3>1
    <2>6. Cardinality(old.branches \ {<<d, c>>}) \in Nat
      BY <2>5, FS_CardinalityType
    <2>7. /\ new \in NodeRec /\ new.branches = old.branches \ {<<d, c>>}
          /\ new.srcs = old.srcs - 1 /\ new.delay = old.delay /\ new.volume = old.volume
          /\ new.tap = old.tap
      <3>1. PICK b, s : /\ b = old.branches \ {<<d, c>>} /\ s = old.srcs - 1
                        /\ new = [old EXCEPT !.branches = b, !.srcs = s]
        OBVIOUS
      <3> HIDE DEF new, old
      <3>2. b \in SUBSET Keys
        BY <2>3, <3>1 DEF NodeRec
      <3>3. s \in Nat
        BY <2>4, <2>5, <2>6, <3>1
      <3> QED BY <2>3, <3>1, <3>2, <3>3 DEF NodeRec
    <2>8. new # Nothing
      BY <2>7, NothingAssumption
    <2>9. i = [g EXCEPT !.node[k] = new]
      BY <1>1 DEF GraphRec
    <2> HIDE DEF i, new
    <2>10. /\ i \in GraphRec /\ i.node = [g.node EXCEPT ![k] = new]
           /\ i.target = g.target /\ i.extra = g.extra /\ i.master = g.master
      BY <1>1, <2>7, <2>9 DEF GraphRec
    <2>11. ASSUME NEW n \in Nodes
           PROVE  i.node[n] = IF n = k THEN new ELSE g.node[n]
      BY <1>1, <2>10 DEF GraphRec
    <2>12. /\ IsFiniteSet(new.branches) /\ Cardinality(new.branches) <= new.srcs
           /\ (old.srcs = Cardinality(old.branches) => new.srcs = Cardinality(new.branches))
      <3> HIDE DEF old
      <3> QED BY <2>4, <2>5, <2>7
    <2>13. Counted(i)
      BY <1>1, <2>11, <2>12 DEF Counted
    <2>14. CensusAgrees(g) => CensusAgrees(i)
      BY <2>1, <2>3, <2>11, <2>12 DEF CensusAgrees
    <2>15. Settled(g) => Settled(i)
      BY <2>3, <2>7, <2>10, <2>11 DEF Settled
    <2>16. \A n \in Nodes : \A e, f :
              At(i, n, e, f) <=> At(g, n, e, f) /\ ~(n = k /\ e = d /\ f = c)
      BY <2>3, <2>7, <2>8, <2>11 DEF At
    <2>17. /\ Steady(g, h, on)
           /\ CensusAgrees(i) => CensusAgrees(h)
           /\ \A n \in Nodes : \A e, f : At(h, n, e, f) <=> At(i, n, e, f)
      <3>1. CASE c \in MainChannels
        <4>1. h = RefreshTap(i, on)
          BY <2>2, <3>1 DEF Refreshed
        <4>2. /\ Steady(i, h, on)
              /\ CensusAgrees(i) => CensusAgrees(h)
              /\ \A n \in Nodes : \A e, f : At(h, n, e, f) <=> At(i, n, e, f)
          BY <2>10, <2>13, <4>1, RefreshSteady DEF GraphOK
        <4>3. TapSound(h) /\ TapReady(h, on)
          BY <2>10, <4>1, RefreshFollows
        <4> QED BY <2>10, <2>15, <4>2, <4>3 DEF Steady
      <3>2. CASE c \notin MainChannels
        <4>1. h = i
          BY <2>2, <3>2 DEF Refreshed
        <4>2. \A n \in Nodes : HasMain(i.node[n]) <=> HasMain(g.node[n])
          BY <2>3, <2>7, <2>8, <2>11, <3>2 DEF HasMain
        <4>3. Mains(i) = Mains(g)
          BY <4>2 DEF Mains
        <4>4. \A n \in Nodes : Open(i, n) <=> Open(g, n)
          BY <2>3, <2>7, <2>8, <2>11 DEF Open
        <4> QED BY <2>10, <2>13, <2>15, <4>1, <4>3, <4>4
                DEF Steady, GraphOK, TapSound, TapReady
      <3> QED BY <3>1, <3>2
    <2> QED BY <2>1, <2>14, <2>16, <2>17 DEF h
  <1> QED BY <1>3, <1>4

----------------------------------------------------------------------------
(* The outputs of a deck. *)

\* The node of a channel of a pipeline.
Place(p, c) == IF c = "record" THEN RecordNode ELSE KeyNode(OutputOf(p, c))

\* A deck has no two branches of one channel.
Single(g, d) == \A c : \A n, m \in Nodes : At(g, n, d, c) /\ At(g, m, d, c) => n = m
Absent(g, d) == \A c : \A n \in Nodes : ~At(g, n, d, c)

\* A deck's branches are the outputs of its pipeline, each where it belongs.
Seated(g, d, p) ==
    /\ \A n \in Nodes, c \in Channels : At(g, n, d, c) <=> c \in p.keys /\ n = Place(p, c)
    /\ \A c \in p.keys \ {"record"} : OutputOf(p, c) # NoCue
    /\ "main0" \in p.keys => p.latency = Place(p, "main0")

\* The other decks' branches stay.
OthersStay(g, h, d) ==
    \A n \in Nodes : \A e, f : e # d => (At(h, n, e, f) <=> At(g, n, e, f))

\* Every output of a pipeline is a device, with a node that is not the recording's.
LEMMA OutputTyped ==
  ASSUME NEW p \in PipelineRec, NEW c
  PROVE  OutputOf(p, c) \in Devices \cup {NoCue}
  <1>1. p.devices \in Seq(Devices) /\ Len(p.devices) <= 2
    BY ListsAssumption DEF PipelineRec
  <1>2. MainDevice(p, c) \in Devices \cup {NoCue}
    <2>1. CASE p.devices = <<>>
      BY <2>1, ListsAssumption DEF MainDevice
    <2>2. CASE p.devices # <<>>
      BY <1>1, <2>2 DEF MainDevice
    <2> QED BY <2>1, <2>2
  <1>3. CueDevice(p) \in Devices \cup {NoCue}
    BY ListsAssumption DEF CueDevice, PipelineRec
  <1> QED BY <1>2, <1>3 DEF OutputOf

\* Branches are of decks and channels.
LEMMA AtTyped ==
  ASSUME NEW g, GraphOK(g), NEW n \in Nodes, NEW d, NEW c, At(g, n, d, c)
  PROVE  d \in Decks /\ c \in Channels
  BY DEF GraphOK, GraphRec, NodeRec, Keys, At

\* A pipeline that is seated has one branch for each channel.
LEMMA SeatedSingle ==
  ASSUME NEW g, GraphOK(g), NEW d, NEW p, Seated(g, d, p)
  PROVE  Single(g, d) /\ \A c : \A n \in Nodes : At(g, n, d, c) => c \in p.keys
  BY AtTyped DEF Seated, Single

\* h is g without the deck's branch of a channel, if that is in K.
Clears(g, h, d, K, c, on) ==
    /\ Steady(g, h, on)
    /\ CensusAgrees(g) => CensusAgrees(h)
    /\ \A n \in Nodes : \A e, f : At(h, n, e, f) => At(g, n, e, f)
    /\ OthersStay(g, h, d)
    /\ Single(g, d) => Single(h, d)
    /\ Single(g, d) /\ c \in K => \A n \in Nodes : ~At(h, n, d, c)

\* One channel of detach_output_branches.
LEMMA DetachOutputIs ==
  ASSUME NEW g, GraphOK(g), NEW d \in Decks, NEW K, NEW c \in Channels, NEW on \in BOOLEAN
  PROVE  Clears(g, DetachOutput(g, d, K, c, on), d, K, c, on)
  <1> DEFINE h == DetachOutput(g, d, K, c, on)
  <1>1. CASE c \notin K
    <2>1. h = g
      BY <1>1 DEF DetachOutput
    <2> QED BY <1>1, <2>1, SteadyNone DEF OthersStay, Clears
  <1>2. CASE c \in K
    <2>1. h = Detach(g, <<d, c>>, on)
      BY <1>2 DEF DetachOutput
    <2> HIDE DEF h
    <2>2. /\ Steady(g, h, on)
          /\ CensusAgrees(g) => CensusAgrees(h)
          /\ \A n \in Nodes : \A e, f : At(h, n, e, f) => At(g, n, e, f)
          /\ \A n \in Nodes : \A e, f :
               ~(e = d /\ f = c) => (At(h, n, e, f) <=> At(g, n, e, f))
          /\ (\A n, m \in Nodes : At(g, n, d, c) /\ At(g, m, d, c) => n = m)
             => \A n \in Nodes : ~At(h, n, d, c)
      BY <2>1, DetachIs
    <2>3. OthersStay(g, h, d)
      BY <2>2 DEF OthersStay
    <2>4. Single(g, d) => Single(h, d) /\ \A n \in Nodes : ~At(h, n, d, c)
      BY <2>2 DEF Single
    <2> QED BY <2>2, <2>3, <2>4 DEF h, Clears
  <1> QED BY <1>1, <1>2

\* The start of load, and Drop: a deck that had no other branches has none left, and the
\* others keep theirs.
LEMMA TeardownIs ==
  ASSUME NEW g, GraphOK(g), NEW d \in Decks, NEW p, NEW on \in BOOLEAN
  PROVE  LET h == Teardown(g, d, p, on) IN
         /\ Steady(g, h, on)
         /\ CensusAgrees(g) => CensusAgrees(h)
         /\ OthersStay(g, h, d)
         /\ Single(g, d) /\ (\A c : \A n \in Nodes : At(g, n, d, c) => c \in p.keys)
            => Absent(h, d)
  <1> DEFINE K == p.keys
             g1 == DetachOutput(g, d, K, "main0", on)
             g2 == DetachOutput(g1, d, K, "main1", on)
             g3 == DetachOutput(g2, d, K, "cue", on)
             h == DetachOutput(g3, d, K, "record", on)
  <1>1. Teardown(g, d, p, on) = h
    BY DEF Teardown, DetachOutputs
  <1>2. {"main0", "main1", "cue", "record"} = Channels
    BY DEF Channels, MainChannels
  <1> HIDE DEF K
  <1>3. ASSUME NEW a, GraphOK(a), NEW c \in Channels
        PROVE  /\ Clears(a, DetachOutput(a, d, K, c, on), d, K, c, on)
               /\ GraphOK(DetachOutput(a, d, K, c, on))
    <2>1. Clears(a, DetachOutput(a, d, K, c, on), d, K, c, on)
      BY <1>3, DetachOutputIs
    <2> QED BY <2>1 DEF Steady, Clears
  <1>4. {"main0", "main1", "cue", "record"} \subseteq Channels
    BY <1>2
  <1>5. Clears(g, g1, d, K, "main0", on) /\ GraphOK(g1)
    BY <1>3, <1>4
  <1> HIDE DEF g1
  <1>6. Clears(g1, g2, d, K, "main1", on) /\ GraphOK(g2)
    BY <1>3, <1>4, <1>5
  <1> HIDE DEF g2
  <1>7. Clears(g2, g3, d, K, "cue", on) /\ GraphOK(g3)
    BY <1>3, <1>4, <1>6
  <1> HIDE DEF g3
  <1>8. Clears(g3, h, d, K, "record", on)
    BY <1>3, <1>4, <1>7
  <1> HIDE DEF h
  <1>10. Steady(g, h, on)
    BY <1>5, <1>6, <1>7, <1>8, SteadyTwice DEF Clears
  <1>11. CensusAgrees(g) => CensusAgrees(h)
    BY <1>5, <1>6, <1>7, <1>8 DEF Clears
  <1>12. OthersStay(g, h, d)
    BY <1>5, <1>6, <1>7, <1>8 DEF Clears, OthersStay
  <1>13. ASSUME Single(g, d), \A c : \A n \in Nodes : At(g, n, d, c) => c \in K
         PROVE  Absent(h, d)
    <2> SUFFICES ASSUME NEW c, NEW n \in Nodes, At(h, n, d, c)
                 PROVE  FALSE
      BY DEF Absent
    <2>1. At(g3, n, d, c) /\ At(g2, n, d, c) /\ At(g1, n, d, c) /\ At(g, n, d, c)
      BY <1>5, <1>6, <1>7, <1>8 DEF Clears
    <2>2. c \in K /\ c \in {"main0", "main1", "cue", "record"}
      BY <1>2, <1>13, <2>1, AtTyped
    <2>3. Single(g1, d) /\ Single(g2, d) /\ Single(g3, d)
      BY <1>5, <1>6, <1>7, <1>13 DEF Clears
    <2> QED BY <1>5, <1>6, <1>7, <1>8, <1>13, <2>1, <2>2, <2>3 DEF Clears
  <1> QED BY <1>1, <1>10, <1>11, <1>12, <1>13 DEF K

\* What attach_output_graph has made when it has come to the channels of K.
Attached(g, acc, d, p, K, on) ==
    /\ acc = [graph |-> acc.graph, keys |-> acc.keys, latency |-> acc.latency]
    /\ Steady(g, acc.graph, on)
    /\ acc.keys \subseteq K
    /\ \A n \in Nodes : \A e, f :
         At(acc.graph, n, e, f)
         <=> At(g, n, e, f) \/ (e = d /\ f \in acc.keys /\ n = Place(p, f))
    /\ \A c \in acc.keys : OutputOf(p, c) # NoCue
    /\ acc.latency \in Nodes \cup {Nothing}
    /\ "main0" \in acc.keys => acc.latency = Place(p, "main0")
    /\ CensusAgrees(g) /\ Absent(g, d) => CensusAgrees(acc.graph)

\* One output.
LEMMA AttachOutputIs ==
  ASSUME NEW g, NEW acc, NEW d \in Decks, NEW p \in PipelineRec, NEW K, NEW on \in BOOLEAN,
         Attached(g, acc, d, p, K, on), NEW c \in Channels, c \notin K, c # "record"
  PROVE  Attached(g, AttachOutput(acc, d, p, c, on), d, p, K \cup {c}, on)
  <1> DEFINE dev == OutputOf(p, c)
             a == Attach(acc.graph, dev, <<d, c>>, on)
             b == AttachOutput(acc, d, p, c, on)
  <1>1. CASE dev = NoCue
    <2>1. b = acc
      BY <1>1 DEF AttachOutput
    <2> QED BY <2>1 DEF Attached
  <1>2. CASE dev # NoCue
    <2>1. dev \in Devices
      BY <1>2, OutputTyped
    <2>2. Place(p, c) = KeyNode(dev) /\ c \in Channels /\ KeyNode(dev) \in Nodes
      BY <2>1, NodesTyped DEF Place, Channels, MainChannels
    <2> acc = [graph |-> acc.graph, keys |-> acc.keys, latency |-> acc.latency]
      BY DEF Attached
    <2>3. b = IF ~a.ok THEN [acc EXCEPT !.graph = a.graph]
              ELSE [graph |-> a.graph, keys |-> acc.keys \cup {c},
                    latency |-> IF c = "main0" THEN KeyNode(dev) ELSE acc.latency]
      BY <1>2 DEF AttachOutput
    <2>4. GraphOK(acc.graph)
      BY DEF Attached, Steady
    <2>5. /\ a.ok \in BOOLEAN /\ Steady(acc.graph, a.graph, on)
          /\ CensusAgrees(acc.graph) /\ ~At(acc.graph, KeyNode(dev), d, c)
             => CensusAgrees(a.graph)
          /\ \A n \in Nodes : \A e, f :
               At(a.graph, n, e, f)
               <=> At(acc.graph, n, e, f) \/ (a.ok /\ n = KeyNode(dev) /\ e = d /\ f = c)
      BY <2>1, <2>2, <2>4, AttachIs
    <2> HIDE DEF a, b, dev
    <2>6. Steady(g, a.graph, on)
      BY <2>5, SteadyTwice DEF Attached
    <2>7. CensusAgrees(g) /\ Absent(g, d) => CensusAgrees(a.graph)
      <3>1. c \notin acc.keys
        BY DEF Attached
      <3>2. Absent(g, d) => ~At(acc.graph, KeyNode(dev), d, c)
        BY <2>2, <3>1 DEF Absent, Attached
      <3> QED BY <2>5, <3>2 DEF Attached
    <2>8. CASE ~a.ok
      <3>1. b.graph = a.graph /\ b.keys = acc.keys /\ b.latency = acc.latency
        BY <2>3, <2>8
      <3>2. b = [graph |-> b.graph, keys |-> b.keys, latency |-> b.latency]
        BY <2>3, <2>8
      <3>3. Attached(g, b, d, p, K \cup {c}, on)
        BY <2>5, <2>6, <2>7, <2>8, <3>1, <3>2 DEF Attached
      <3> QED BY <3>3 DEF b
    <2>9. CASE a.ok
      <3>1. /\ b.graph = a.graph /\ b.keys = acc.keys \cup {c}
            /\ b.latency = IF c = "main0" THEN KeyNode(dev) ELSE acc.latency
        BY <2>3, <2>9
      <3>2. b = [graph |-> b.graph, keys |-> b.keys, latency |-> b.latency]
        BY <2>3, <2>9
      <3>3. \A n \in Nodes : \A e, f :
              At(b.graph, n, e, f)
              <=> At(g, n, e, f) \/ (e = d /\ f \in b.keys /\ n = Place(p, f))
        BY <2>2, <2>5, <2>9, <3>1 DEF Attached
      <3>4. \A f \in b.keys : OutputOf(p, f) # NoCue
        BY <1>2, <3>1 DEF Attached, dev
      <3>5. /\ b.latency \in Nodes \cup {Nothing} /\ b.keys \subseteq K \cup {c}
            /\ "main0" \in b.keys => b.latency = Place(p, "main0")
        BY <2>2, <3>1 DEF Attached
      <3>6. Attached(g, b, d, p, K \cup {c}, on)
        BY <2>6, <2>7, <3>1, <3>2, <3>3, <3>4, <3>5 DEF Attached
      <3> QED BY <3>6 DEF b
    <2> QED BY <2>5, <2>8, <2>9
  <1> QED BY <1>1, <1>2

\* attach_output_graph.
LEMMA AttachOutputsIs ==
  ASSUME NEW g, GraphOK(g), NEW d \in Decks, NEW p \in PipelineRec, NEW on \in BOOLEAN
  PROVE  Attached(g, AttachOutputs(g, d, p, on), d, p, {"main0", "main1", "cue"}, on)
  <1> DEFINE a0 == [graph |-> g, keys |-> {}, latency |-> Nothing]
             a1 == AttachOutput(a0, d, p, "main0", on)
             a2 == AttachOutput(a1, d, p, "main1", on)
             a3 == AttachOutput(a2, d, p, "cue", on)
  <1>1. AttachOutputs(g, d, p, on) = a3
    BY DEF AttachOutputs
  <1>2. Attached(g, a0, d, p, {}, on)
    BY SteadyNone DEF Attached
  <1>3. {"main0", "main1", "cue"} \subseteq Channels
    BY DEF Channels, MainChannels
  <1>4. ASSUME NEW acc, NEW K, Attached(g, acc, d, p, K, on),
               NEW c \in Channels, c \notin K, c # "record"
        PROVE  Attached(g, AttachOutput(acc, d, p, c, on), d, p, K \cup {c}, on)
    BY <1>4, AttachOutputIs
  <1> HIDE DEF a0, a1, a2, a3
  <1>5. Attached(g, a1, d, p, {} \cup {"main0"}, on)
    BY <1>2, <1>3, <1>4 DEF a1
  <1>6. Attached(g, a2, d, p, ({} \cup {"main0"}) \cup {"main1"}, on)
    BY <1>3, <1>4, <1>5 DEF a2
  <1>7. Attached(g, a3, d, p, (({} \cup {"main0"}) \cup {"main1"}) \cup {"cue"}, on)
    BY <1>3, <1>4, <1>6 DEF a3
  <1>8. (({} \cup {"main0"}) \cup {"main1"}) \cup {"cue"} = {"main0", "main1", "cue"}
    OBVIOUS
  <1> QED BY <1>1, <1>7, <1>8

----------------------------------------------------------------------------
(* The pipeline's methods. *)

\* A pipeline that is whole: it has a tap exactly if it has the recording's branch, and
\* then it is loaded and knows that it is recorded; without a file there is no output.
Whole(p) ==
    /\ p \in PipelineRec
    /\ p.tap <=> "record" \in p.keys
    /\ p.tap => Loaded(p) /\ p.recording
    /\ Loaded(p) => p.file
    /\ ~Loaded(p) => p.keys = {}

\* What a method that works on the graph leaves of it: the deck is seated if it was.
Moves(g, h, d, p, q, on) ==
    /\ Steady(g, h, on) /\ OthersStay(g, h, d)
    /\ Seated(g, d, p) => Seated(h, d, q)
    /\ Seated(g, d, p) /\ CensusAgrees(g) => CensusAgrees(h)

\* A pipeline that is not rebuilt: what it was asked to play, and on what, stays.
Same(p, q) == q.devices = p.devices /\ q.cue = p.cue /\ q.playing = p.playing

\* load, when it prerolls.
LEMMA RebuildIs ==
  ASSUME NEW g, GraphOK(g), NEW d \in Decks, NEW p \in PipelineRec, NEW on \in BOOLEAN,
         NEW prerolls \in BOOLEAN
  PROVE  LET r == Rebuild(g, d, p, on, prerolls)
             q == r.pipeline IN
         /\ q \in PipelineRec /\ Same(p, q) /\ q.recording = p.recording /\ q.file /\ ~q.tap
         /\ q.inner = IF prerolls THEN "paused" ELSE "none"
         /\ Steady(g, r.graph, on)
         /\ prerolls => Whole(q)
         /\ prerolls /\ Single(g, d) /\ (\A c : \A n \in Nodes : At(g, n, d, c) => c \in p.keys)
            => /\ OthersStay(g, r.graph, d) /\ Seated(r.graph, d, q)
               /\ CensusAgrees(g) => CensusAgrees(r.graph)
  <1> DEFINE h == Teardown(g, d, p, on)
             b == AttachOutputs(h, d, p, on)
             r == Rebuild(g, d, p, on, prerolls)
             q == r.pipeline
  <1>1. /\ Steady(g, h, on)
        /\ CensusAgrees(g) => CensusAgrees(h)
        /\ OthersStay(g, h, d)
        /\ Single(g, d) /\ (\A c : \A n \in Nodes : At(g, n, d, c) => c \in p.keys)
           => Absent(h, d)
    BY TeardownIs
  <1>2. r = [graph |-> b.graph,
             pipeline |-> [p EXCEPT !.file = TRUE, !.tap = FALSE,
                             !.inner = IF prerolls THEN "paused" ELSE "none",
                             !.keys = IF prerolls THEN b.keys ELSE {},
                             !.latency = IF prerolls THEN b.latency ELSE Nothing]]
    BY DEF Rebuild
  <1> HIDE DEF r, h
  <1>3. Attached(h, b, d, p, {"main0", "main1", "cue"}, on)
    BY <1>1, AttachOutputsIs DEF Steady
  <1> HIDE DEF b
  <1>4. /\ b.keys \subseteq {"main0", "main1", "cue"} /\ b.keys \in SUBSET Channels
        /\ b.latency \in Nodes \cup {Nothing}
    BY <1>3 DEF Attached, Channels, MainChannels
  <1>5. /\ q \in PipelineRec /\ Same(p, q) /\ q.recording = p.recording /\ q.file /\ ~q.tap
        /\ q.inner = IF prerolls THEN "paused" ELSE "none"
        /\ q.keys = IF prerolls THEN b.keys ELSE {}
        /\ q.latency = IF prerolls THEN b.latency ELSE Nothing
    <2>1. PICK x, k, l :
            /\ x = IF prerolls THEN "paused" ELSE "none"
            /\ k = IF prerolls THEN b.keys ELSE {}
            /\ l = IF prerolls THEN b.latency ELSE Nothing
            /\ q = [p EXCEPT !.file = TRUE, !.tap = FALSE, !.inner = x, !.keys = k, !.latency = l]
      BY <1>2
    <2>2. x \in InnerStates /\ k \in SUBSET Channels /\ l \in Nodes \cup {Nothing}
      BY <1>4, <2>1 DEF InnerStates
    <2> HIDE DEF q
    <2>3. /\ q \in PipelineRec /\ q.file = TRUE /\ q.tap = FALSE /\ q.inner = x /\ q.keys = k
          /\ q.latency = l /\ Same(p, q) /\ q.recording = p.recording
      BY <2>1, <2>2 DEF PipelineRec, Same
    <2> QED BY <2>1, <2>3
  <1>6. r.graph = b.graph
    BY <1>2
  <1> HIDE DEF q
  <1>7. Steady(g, r.graph, on)
    BY <1>1, <1>3, <1>6, SteadyTwice DEF Attached
  <1>8. prerolls => Whole(q)
    BY <1>4, <1>5 DEF Whole, Loaded
  <1>9. ASSUME prerolls, Absent(h, d)
        PROVE  /\ OthersStay(g, r.graph, d) /\ Seated(r.graph, d, q)
               /\ CensusAgrees(g) => CensusAgrees(r.graph)
    <2>1. OthersStay(g, r.graph, d)
      BY <1>1, <1>3, <1>6 DEF OthersStay, Attached
    <2>2. q.keys = b.keys /\ q.latency = b.latency
      BY <1>5, <1>9
    <2>3. \A c : Place(q, c) = Place(p, c) /\ OutputOf(q, c) = OutputOf(p, c)
      BY <1>5 DEF Same, Place, OutputOf, MainDevice, CueDevice
    <2>4. Seated(r.graph, d, q)
      BY <1>3, <1>6, <1>9, <2>2, <2>3 DEF Seated, Attached, Absent
    <2>5. CensusAgrees(g) => CensusAgrees(r.graph)
      BY <1>1, <1>3, <1>6, <1>9 DEF Attached
    <2> QED BY <2>1, <2>4, <2>5
  <1> QED BY <1>1, <1>5, <1>7, <1>8, <1>9 DEF q, r

\* attach_record_branch: a whole pipeline that is loaded has a tap afterwards, if there is
\* a recording to join.
LEMMA AttachRecordIs ==
  ASSUME NEW g, GraphOK(g), NEW d \in Decks, NEW p \in PipelineRec, NEW on \in BOOLEAN
  PROVE  LET r == AttachRecord(g, d, p, on)
             q == r.pipeline IN
         /\ q \in PipelineRec /\ Same(p, q) /\ q.file = p.file /\ q.inner = p.inner
         /\ Steady(g, r.graph, on)
         /\ p.recording => q.recording
         /\ p.tap => q.tap
         /\ Whole(p) => Whole(q)
         /\ (p.tap <=> "record" \in p.keys) => Moves(g, r.graph, d, p, q, on)
         /\ Loaded(p) /\ g.target => q.tap
         /\ q.tap => p.tap \/ (Loaded(p) /\ q.recording)
         /\ q.recording => p.recording \/ Loaded(p)
  <1> DEFINE a == Attach(g, RecordDevice, <<d, "record">>, on)
             r == AttachRecord(g, d, p, on)
             q == r.pipeline
  <1>1. CASE ~Loaded(p) \/ p.tap
    <2>1. r = [graph |-> g, pipeline |-> p]
      BY <1>1 DEF AttachRecord
    <2>2. r.graph = g /\ q = p
      BY <2>1
    <2> HIDE DEF r, q
    <2>3. Moves(g, r.graph, d, p, q, on)
      BY <2>2, SteadyNone DEF Moves, OthersStay
    <2> QED BY <1>1, <2>2, <2>3, SteadyNone DEF Same, r, q
  <1>2. CASE Loaded(p) /\ ~p.tap
    <2>1. /\ a.ok \in BOOLEAN /\ Steady(g, a.graph, on)
          /\ CensusAgrees(g) /\ ~At(g, RecordNode, d, "record") => CensusAgrees(a.graph)
          /\ \A n \in Nodes : \A e, f :
               At(a.graph, n, e, f)
               <=> At(g, n, e, f) \/ (a.ok /\ n = RecordNode /\ e = d /\ f = "record")
          /\ g.target => a.ok
      <3>1. "record" \in Channels /\ KeyNode(RecordDevice) = RecordNode
        BY NodesTyped DEF Channels
      <3> QED BY <3>1, AttachIs
    <2>2. r = IF ~a.ok THEN [graph |-> a.graph, pipeline |-> p]
              ELSE [graph |-> a.graph,
                    pipeline |-> [p EXCEPT !.tap = TRUE, !.recording = TRUE,
                                           !.keys = @ \cup {"record"}]]
      BY <1>2 DEF AttachRecord
    <2> HIDE DEF r, a
    <2>3. CASE ~a.ok
      <3>1. r.graph = a.graph /\ q = p
        BY <2>2, <2>3
      <3> HIDE DEF q
      <3>2. \A n \in Nodes : \A e, f : At(r.graph, n, e, f) <=> At(g, n, e, f)
        BY <2>1, <2>3, <3>1
      <3>3. ("record" \notin p.keys) => Moves(g, r.graph, d, p, q, on)
        <4>1. Seated(g, d, p) => Seated(r.graph, d, q)
          BY <3>1, <3>2 DEF Seated
        <4>2. "record" \notin p.keys /\ Seated(g, d, p) => ~At(g, RecordNode, d, "record")
          BY NodesTyped DEF Seated, Channels
        <4> QED BY <2>1, <3>1, <3>2, <4>1, <4>2 DEF Moves, OthersStay
      <3> QED BY <1>2, <2>1, <2>3, <3>1, <3>3 DEF Same, q, r, a
    <2>4. CASE a.ok
      <3>1. /\ r.graph = a.graph
            /\ q = [p EXCEPT !.tap = TRUE, !.recording = TRUE, !.keys = p.keys \cup {"record"}]
        BY <2>2, <2>4
      <3> HIDE DEF q
      <3>2. /\ q \in PipelineRec /\ q.tap = TRUE /\ q.recording = TRUE
            /\ q.keys = p.keys \cup {"record"} /\ Same(p, q) /\ q.file = p.file
            /\ q.inner = p.inner /\ q.latency = p.latency
        BY <3>1 DEF PipelineRec, Channels, Same
      <3>3. Whole(p) => Whole(q)
        BY <1>2, <3>2 DEF Whole, Loaded
      <3>4. \A c : Place(q, c) = Place(p, c) /\ OutputOf(q, c) = OutputOf(p, c)
        BY <3>2 DEF Same, Place, OutputOf, MainDevice, CueDevice
      <3>5. Place(p, "record") = RecordNode /\ RecordNode \in Nodes /\ "record" \in Channels
        BY NodesTyped DEF Place, Channels
      <3>6. Seated(g, d, p) => Seated(r.graph, d, q)
        BY <2>1, <2>4, <3>1, <3>2, <3>4, <3>5 DEF Seated
      <3>7. "record" \notin p.keys /\ Seated(g, d, p) => ~At(g, RecordNode, d, "record")
        BY <3>5 DEF Seated
      <3>8. ("record" \notin p.keys) => Moves(g, r.graph, d, p, q, on)
        BY <2>1, <3>1, <3>6, <3>7 DEF Moves, OthersStay
      <3> QED BY <1>2, <2>1, <3>1, <3>2, <3>3, <3>8 DEF q, r, a
    <2> QED BY <2>1, <2>3, <2>4
  <1> QED BY <1>1, <1>2

\* The end of load: a pipeline that was being recorded has a tap again, if there is still a
\* recording to join.
LEMMA RejoinIs ==
  ASSUME NEW g, GraphOK(g), NEW d \in Decks, NEW p \in PipelineRec, NEW on \in BOOLEAN
  PROVE  LET r == Rejoin(g, d, p, on)
             q == r.pipeline IN
         /\ q \in PipelineRec /\ Same(p, q) /\ q.file = p.file /\ q.inner = p.inner
         /\ Steady(g, r.graph, on)
         /\ q.recording => p.recording
         /\ Whole(p) /\ ~p.tap => Whole(q) /\ Moves(g, r.graph, d, p, q, on)
         /\ Loaded(p) /\ p.recording /\ g.target => q.tap
         /\ q.tap => p.tap \/ p.recording
  <1> DEFINE r == Rejoin(g, d, p, on)
             q == r.pipeline
             o == [p EXCEPT !.recording = FALSE]
             a == AttachRecord(g, d, o, on)
  <1>1. CASE ~(Loaded(p) /\ p.recording)
    <2>1. r = [graph |-> g, pipeline |-> p]
      BY <1>1 DEF Rejoin
    <2>2. r.graph = g /\ q = p
      BY <2>1
    <2> HIDE DEF r, q
    <2>3. Moves(g, r.graph, d, p, q, on)
      BY <2>2, SteadyNone DEF Moves, OthersStay
    <2> QED BY <1>1, <2>2, <2>3, SteadyNone DEF Same, r, q
  <1>2. CASE Loaded(p) /\ p.recording
    <2>1. r = a
      BY <1>2 DEF Rejoin
    <2>2. /\ o \in PipelineRec /\ o.file = p.file /\ o.inner = p.inner /\ o.tap = p.tap
          /\ o.keys = p.keys /\ o.latency = p.latency /\ o.recording = FALSE /\ Same(p, o)
      BY DEF PipelineRec, Same
    <2> HIDE DEF r, o, a
    <2>3. /\ a.pipeline \in PipelineRec /\ Same(o, a.pipeline)
          /\ a.pipeline.file = o.file /\ a.pipeline.inner = o.inner
          /\ Steady(g, a.graph, on)
          /\ Whole(o) => Whole(a.pipeline)
          /\ (o.tap <=> "record" \in o.keys) => Moves(g, a.graph, d, o, a.pipeline, on)
          /\ Loaded(o) /\ g.target => a.pipeline.tap
      BY <2>2, AttachRecordIs DEF a
    <2>4. Whole(p) /\ ~p.tap => Whole(o)
      BY <2>2 DEF Whole, Loaded
    <2>5. Seated(g, d, p) => Seated(g, d, o)
      BY <2>2 DEF Seated, Same, Place, OutputOf, MainDevice, CueDevice
    <2>6. Whole(p) /\ ~p.tap => Moves(g, a.graph, d, p, a.pipeline, on)
      BY <2>3, <2>4, <2>5 DEF Moves, Whole
    <2>7. Same(p, a.pipeline) /\ (Loaded(p) => Loaded(o))
      BY <2>2, <2>3 DEF Same, Loaded
    <2> QED BY <1>2, <2>1, <2>2, <2>3, <2>4, <2>6, <2>7 DEF r
  <1> QED BY <1>1, <1>2

\* detach_record_branch: the deck is in no recording afterwards.
LEMMA DetachRecordIs ==
  ASSUME NEW g, GraphOK(g), NEW d \in Decks, NEW p \in PipelineRec, NEW on \in BOOLEAN
  PROVE  LET r == DetachRecord(g, d, p, on)
             q == r.pipeline IN
         /\ q \in PipelineRec /\ Same(p, q) /\ q.file = p.file /\ q.inner = p.inner
         /\ Steady(g, r.graph, on)
         /\ ~q.recording
         /\ Whole(p) => Whole(q) /\ ~q.tap /\ Moves(g, r.graph, d, p, q, on)
  <1> DEFINE h == Detach(g, <<d, "record">>, on)
             r == DetachRecord(g, d, p, on)
             q == r.pipeline
  <1>1. CASE ~Loaded(p) \/ ~p.tap
    <2>1. r = [graph |-> g, pipeline |-> [p EXCEPT !.recording = FALSE]]
      BY <1>1 DEF DetachRecord
    <2>2. r.graph = g /\ q = [p EXCEPT !.recording = FALSE]
      BY <2>1
    <2> HIDE DEF r, q
    <2>3. /\ q \in PipelineRec /\ q.recording = FALSE /\ Same(p, q) /\ q.file = p.file
          /\ q.inner = p.inner /\ q.tap = p.tap /\ q.keys = p.keys /\ q.latency = p.latency
      BY <2>2 DEF PipelineRec, Same
    <2>4. Seated(g, d, p) => Seated(g, d, q)
      BY <2>3 DEF Seated, Same, Place, OutputOf, MainDevice, CueDevice
    <2>5. Moves(g, r.graph, d, p, q, on)
      BY <2>2, <2>4, SteadyNone DEF Moves, OthersStay
    <2>6. Whole(p) => ~p.tap /\ Whole(q) /\ ~q.tap
      BY <1>1, <2>3 DEF Whole, Loaded
    <2> QED BY <2>2, <2>3, <2>5, <2>6, SteadyNone DEF r, q
  <1>2. CASE Loaded(p) /\ p.tap
    <2>1. r = [graph |-> h,
               pipeline |-> [p EXCEPT !.recording = FALSE, !.tap = FALSE,
                                      !.keys = p.keys \ {"record"}]]
      BY <1>2 DEF DetachRecord
    <2>2. r.graph = h /\ q = [p EXCEPT !.recording = FALSE, !.tap = FALSE,
                                       !.keys = p.keys \ {"record"}]
      BY <2>1
    <2> HIDE DEF r, q, h
    <2>3. /\ q \in PipelineRec /\ q.recording = FALSE /\ Same(p, q) /\ q.file = p.file
          /\ q.inner = p.inner /\ q.tap = FALSE /\ q.keys = p.keys \ {"record"}
          /\ q.latency = p.latency
      BY <2>2 DEF PipelineRec, Same
    <2>4. /\ Steady(g, h, on)
          /\ CensusAgrees(g) => CensusAgrees(h)
          /\ \A n \in Nodes : \A e, f :
               ~(e = d /\ f = "record") => (At(h, n, e, f) <=> At(g, n, e, f))
          /\ (\A n, m \in Nodes : At(g, n, d, "record") /\ At(g, m, d, "record") => n = m)
             => \A n \in Nodes : ~At(h, n, d, "record")
      <3>1. "record" \in Channels
        BY DEF Channels
      <3> QED BY <3>1, DetachIs DEF h
    <2>5. \A c : Place(q, c) = Place(p, c) /\ OutputOf(q, c) = OutputOf(p, c)
      BY <2>3 DEF Same, Place, OutputOf, MainDevice, CueDevice
    <2>6. ASSUME Seated(g, d, p)
          PROVE  Seated(h, d, q)
      <3>1. \A n \in Nodes : ~At(h, n, d, "record")
        BY <2>4, <2>6, SeatedSingle DEF Single
      <3> QED BY <2>3, <2>4, <2>5, <2>6, <3>1 DEF Seated
    <2>7. Moves(g, r.graph, d, p, q, on)
      BY <2>2, <2>4, <2>6 DEF Moves, OthersStay
    <2>8. Whole(p) => Whole(q)
      BY <1>2, <2>3 DEF Whole, Loaded
    <2> QED BY <2>2, <2>3, <2>4, <2>7, <2>8 DEF r, q
  <1> QED BY <1>1, <1>2

\* play and pause.
LEMMA PlayPauseAre ==
  ASSUME NEW p \in PipelineRec, NEW q \in {Play(p), Pause(p)}
  PROVE  /\ q \in PipelineRec /\ q.file = p.file /\ q.devices = p.devices /\ q.cue = p.cue
         /\ q.keys = p.keys /\ q.latency = p.latency /\ q.tap = p.tap
         /\ q.recording = p.recording
         /\ Loaded(q) <=> Loaded(p)
         /\ Loaded(q) => (q.inner = "playing" <=> q.playing)
  <1>1. CASE q = Play(p)
    <2>1. PICK x : /\ x = IF Loaded(p) THEN "playing" ELSE "none"
                   /\ q = [p EXCEPT !.playing = TRUE, !.inner = x]
      BY <1>1 DEF Play
    <2> QED BY <2>1 DEF PipelineRec, InnerStates, Loaded
  <1>2. CASE q = Pause(p)
    <2>1. PICK x : /\ x = IF Loaded(p) THEN "paused" ELSE "none"
                   /\ q = [p EXCEPT !.playing = FALSE, !.inner = x]
      BY <1>2 DEF Pause
    <2> QED BY <2>1 DEF PipelineRec, InnerStates, Loaded
  <1> QED BY <1>1, <1>2

\* A pipeline of which only the state of play has changed holds the same branches.
LEMMA PlayedIs ==
  ASSUME NEW g, GraphOK(g), NEW d \in Decks, NEW p \in PipelineRec, NEW on \in BOOLEAN,
         NEW q \in PipelineRec, q.file = p.file, q.devices = p.devices, q.cue = p.cue,
         q.keys = p.keys, q.latency = p.latency, q.tap = p.tap, q.recording = p.recording,
         Loaded(q) <=> Loaded(p)
  PROVE  Moves(g, g, d, p, q, on) /\ (Whole(p) => Whole(q))
  <1>1. Seated(g, d, p) => Seated(g, d, q)
    BY DEF Seated, Place, OutputOf, MainDevice, CueDevice
  <1>2. Whole(p) => Whole(q)
    BY DEF Whole, Loaded
  <1> QED BY <1>1, <1>2, SteadyNone DEF Moves, OthersStay

\* The end of a device change: a pipeline that was stopped to be rebuilt plays again.
LEMMA ResumeIs ==
  ASSUME NEW p \in PipelineRec
  PROVE  LET q == Resume(p) IN
         /\ q \in PipelineRec /\ q.file = p.file /\ q.devices = p.devices /\ q.cue = p.cue
         /\ q.keys = p.keys /\ q.latency = p.latency /\ q.tap = p.tap
         /\ q.recording = p.recording
         /\ Loaded(q) <=> Loaded(p)
         /\ p.inner # "playing" /\ Loaded(q) => (q.inner = "playing" <=> q.playing)
  BY PlayPauseAre DEF Resume, Loaded, PipelineRec

----------------------------------------------------------------------------
(* The types. *)

DecksOK(D) == D \in [Decks -> {Nothing} \cup PipelineRec]

\* A command that is past choosing a deck has one, and its pipeline.
CmdOK(c) ==
    /\ c \in CmdRec
    /\ c.stage # "next" => c.deck \in Decks /\ c.held \in PipelineRec
CmdsOK(K) ==
    /\ K \in [Slots -> {Nothing} \cup CmdRec]
    /\ \A i \in Slots : K[i] # Nothing => CmdOK(K[i])

\* The types of the state, no node with fewer sources than branches among them.
TypeOK ==
    /\ GraphOK(graph) /\ listening \in BOOLEAN /\ refreshes \in Nat
    /\ manager \in ManagerRec /\ DecksOK(deck) /\ CmdsOK(cmd)

\* A change of the graph after which the settings hold and the tap follows, if they did.
Calm(g, h, on) ==
    /\ GraphOK(h)
    /\ Settled(g) => Settled(h)
    /\ TapSound(g) => TapSound(h)
    /\ TapSound(g) /\ TapReady(g, on) => TapReady(h, on)

\* A new command has no deck yet.
LEMMA CommandTyped ==
  ASSUME NEW op \in Ops
  PROVE  /\ CmdOK(Command(op)) /\ Command(op).op = op /\ Command(op).stage = "next"
         /\ Command(op).todo = {} /\ Command(op).deck = Nothing
         /\ Command(op).main = <<>> /\ Command(op).cue = NoCue
  BY ListsAssumption DEF Command, CmdRec, CmdOK

\* A command after its deck is done: at an end, or between two decks.
LEMMA AdvancedIs ==
  ASSUME NEW c, CmdOK(c)
  PROVE  LET a == Advanced(c) IN
         \/ a = Nothing /\ (c.todo = {} \/ c.op \in {"load", "play", "pause"})
         \/ /\ a # Nothing /\ CmdOK(a) /\ a.stage = "next" /\ a.deck = Nothing /\ a.held = Nothing
            /\ a.op = c.op /\ a.todo = c.todo /\ a.main = c.main /\ a.cue = c.cue
            /\ a.op \notin {"load", "play", "pause"}
  <1> DEFINE a == Advanced(c)
  <1>1. CASE c.op \in {"load", "play", "pause"} \/ (c.todo = {} /\ c.op # "stop")
    BY <1>1 DEF Advanced
  <1>2. CASE ~(c.op \in {"load", "play", "pause"} \/ (c.todo = {} /\ c.op # "stop"))
    <2>1. a = [c EXCEPT !.stage = "next", !.deck = Nothing, !.held = Nothing]
      BY <1>2 DEF Advanced
    <2> HIDE DEF a
    <2>2. a \in CmdRec
      BY <2>1 DEF CmdOK, CmdRec
    <2>3. /\ a.stage = "next" /\ a.deck = Nothing /\ a.held = Nothing
          /\ a.op = c.op /\ a.todo = c.todo /\ a.main = c.main /\ a.cue = c.cue
      BY <2>1 DEF CmdOK, CmdRec
    <2> QED BY <1>2, <2>2, <2>3, NoCommandAssumption DEF CmdOK, a
  <1> QED BY <1>1, <1>2

\* One slot of the commands changes.
LEMMA SetCmd ==
  ASSUME NEW K, CmdsOK(K), NEW i \in Slots, NEW c, c = Nothing \/ CmdOK(c)
  PROVE  CmdsOK([K EXCEPT ![i] = c])
  BY DEF CmdsOK, CmdOK

\* One deck of the map changes.
LEMMA SetDeck ==
  ASSUME NEW D, DecksOK(D), NEW d \in Decks, NEW p \in {Nothing} \cup PipelineRec
  PROVE  DecksOK([D EXCEPT ![d] = p])
  BY DEF DecksOK

\* A command that runs is typed.
LEMMA RunningTyped ==
  ASSUME TypeOK, NEW i \in Slots, Running(i)
  PROVE  /\ CmdOK(cmd[i]) /\ cmd[i] \in CmdRec
         /\ cmd[i].stage # "next" => cmd[i].deck \in Decks /\ cmd[i].held \in PipelineRec
  BY DEF TypeOK, CmdsOK, CmdOK, Running

\* A steady change is calm, and one calm change after another is calm.
LEMMA SteadyCalm ==
  ASSUME NEW g, NEW h, NEW on, Steady(g, h, on)
  PROVE  Calm(g, h, on)
  BY DEF Steady, Calm

\* The pipeline that an insert replaces gives back its branches; that is a steady change.
LEMMA DroppedSteady ==
  ASSUME TypeOK, NEW g, GraphOK(g), NEW d \in Decks
  PROVE  Steady(g, Dropped(g, d), listening)
  <1>1. CASE deck[d] = Nothing
    BY <1>1, SteadyNone DEF Dropped
  <1>2. CASE deck[d] # Nothing
    BY <1>2, TeardownIs DEF Dropped, TypeOK
  <1> QED BY <1>1, <1>2

\* What an insert does, whatever it puts back.
LEMMA InsertTyped ==
  ASSUME TypeOK, NEW i \in Slots, Running(i), cmd[i].stage # "next",
         NEW q \in PipelineRec, NEW g, Steady(graph, g, listening), Insert(i, q, g)
  PROVE  Steady(graph, graph', listening) /\ DecksOK(deck') /\ CmdsOK(cmd')
  <1>1. CmdOK(cmd[i]) /\ cmd[i].deck \in Decks
    BY RunningTyped
  <1>2. GraphOK(g)
    BY DEF Steady
  <1>3. Steady(graph, graph', listening)
    BY <1>1, <1>2, DroppedSteady, SteadyTwice DEF Insert
  <1>4. DecksOK(deck')
    BY <1>1, SetDeck DEF Insert, TypeOK
  <1>5. Advanced(cmd[i]) = Nothing \/ CmdOK(Advanced(cmd[i]))
    BY <1>1, AdvancedIs
  <1>6. CmdsOK(cmd')
    BY <1>5, SetCmd DEF Insert, TypeOK
  <1> QED BY <1>3, <1>4, <1>6

\* A command has gone to another stage, with another pipeline.
Turned(i, q, s) ==
    /\ CmdOK(cmd'[i]) /\ \A j \in Slots \ {i} : cmd'[j] = cmd[j]
    /\ cmd'[i].held = q /\ cmd'[i].stage = s /\ cmd'[i].deck = cmd[i].deck
    /\ cmd'[i].op = cmd[i].op /\ cmd'[i].todo = cmd[i].todo
    /\ cmd'[i].main = cmd[i].main /\ cmd'[i].cue = cmd[i].cue

\* A command goes to another stage with its pipeline changed.
LEMMA StageTyped ==
  ASSUME TypeOK, NEW i \in Slots, Running(i), cmd[i].stage # "next", NEW q \in PipelineRec,
         NEW s, s = "rejoin" \/ s = "check" \/ s = "insert",
         cmd' = [cmd EXCEPT ![i].held = q, ![i].stage = s]
  PROVE  CmdsOK(cmd') /\ Turned(i, q, s)
  <1> DEFINE c == [cmd[i] EXCEPT !.held = q, !.stage = s]
  <1>1. CmdOK(cmd[i]) /\ cmd[i] \in CmdRec /\ cmd[i].deck \in Decks
    BY RunningTyped
  <1>2. /\ c \in CmdRec /\ c.held = q /\ c.stage = s /\ c.deck = cmd[i].deck /\ c.op = cmd[i].op
        /\ c.todo = cmd[i].todo /\ c.main = cmd[i].main /\ c.cue = cmd[i].cue
    BY <1>1 DEF CmdRec
  <1>3. cmd' = [cmd EXCEPT ![i] = c]
    BY DEF TypeOK, CmdsOK
  <1> HIDE DEF c
  <1>4. CmdOK(c)
    BY <1>1, <1>2 DEF CmdOK
  <1>5. CmdsOK(cmd')
    <2>1. CmdsOK([cmd EXCEPT ![i] = c])
      BY <1>4, SetCmd DEF TypeOK
    <2> QED BY <1>3, <2>1, Zenon
  <1>6. cmd'[i] = c /\ \A j \in Slots \ {i} : cmd'[j] = cmd[j]
    BY <1>3 DEF TypeOK, CmdsOK
  <1> QED BY <1>2, <1>4, <1>5, <1>6 DEF Turned

\* A command takes a deck out of the map, or makes a pipeline for it.
LEMMA TakeTyped ==
  ASSUME TypeOK, NEW i \in Slots, NEW d \in Decks, NEW b \in CmdRec,
         b.deck = d, b.held \in PipelineRec,
         cmd' = [cmd EXCEPT ![i] = b], deck' = [deck EXCEPT ![d] = Nothing]
  PROVE  /\ CmdsOK(cmd') /\ DecksOK(deck')
         /\ cmd'[i] = b /\ b # Nothing /\ \A j \in Slots \ {i} : cmd'[j] = cmd[j]
         /\ deck'[d] = Nothing /\ \A e \in Decks \ {d} : deck'[e] = deck[e]
  <1>1. CmdOK(b) /\ b # Nothing
    BY NoCommandAssumption DEF CmdOK
  <1>2. CmdsOK(cmd')
    BY <1>1, SetCmd DEF TypeOK
  <1>3. DecksOK(deck')
    BY SetDeck DEF TypeOK
  <1>4. cmd'[i] = b /\ \A j \in Slots \ {i} : cmd'[j] = cmd[j]
    BY DEF TypeOK, CmdsOK
  <1>5. deck'[d] = Nothing /\ \A e \in Decks \ {d} : deck'[e] = deck[e]
    BY DEF TypeOK, DecksOK
  <1> QED BY <1>1, <1>2, <1>3, <1>4, <1>5

\* What a step does to the types, and to the tap while the page's wish does not change.
Typed ==
    /\ Calm(graph, graph', listening) /\ listening' = listening /\ refreshes' = refreshes
    /\ manager' \in ManagerRec /\ DecksOK(deck') /\ CmdsOK(cmd')

\* The next deck of a list: its pipeline is taken, or it is passed over.
LEMMA TakeNextIs ==
  ASSUME TypeOK, NEW i \in Slots, TakeNext(i)
  PROVE  \E d \in cmd[i].todo :
           \/ /\ deck[d] = Nothing /\ deck' = deck
              /\ \E c : /\ CmdOK(c) /\ c.op = cmd[i].op /\ c.stage = "next"
                        /\ c.todo = cmd[i].todo \ {d} /\ c.deck = cmd[i].deck
                        /\ c.main = cmd[i].main /\ c.cue = cmd[i].cue
                        /\ cmd' = [cmd EXCEPT ![i] = Advanced(c)]
           \/ /\ deck[d] # Nothing /\ deck' = [deck EXCEPT ![d] = Nothing]
              /\ \E b \in CmdRec :
                   /\ b.deck = d /\ b.held = deck[d]
                   /\ b.stage = IF cmd[i].op \in {"devices", "cue"} THEN "load" ELSE "work"
                   /\ b.op = cmd[i].op /\ b.todo = cmd[i].todo \ {d}
                   /\ b.main = cmd[i].main /\ b.cue = cmd[i].cue
                   /\ cmd' = [cmd EXCEPT ![i] = b]
  <1>1. Running(i) /\ cmd[i].stage = "next"
    BY DEF TakeNext
  <1>2. cmd[i] \in CmdRec /\ cmd[i].todo \subseteq Decks
    BY <1>1, RunningTyped DEF CmdRec
  <1>3. PICK d \in cmd[i].todo :
          LET c == [cmd[i] EXCEPT !.todo = @ \ {d}] IN
          IF deck[d] = Nothing
          THEN /\ cmd' = [cmd EXCEPT ![i] = Advanced(c)]
               /\ UNCHANGED deck
          ELSE /\ cmd' = [cmd EXCEPT ![i] =
                    [c EXCEPT !.deck = d, !.held = deck[d],
                              !.stage = IF c.op \in {"devices", "cue"}
                                        THEN "load" ELSE "work"]]
               /\ deck' = [deck EXCEPT ![d] = Nothing]
    BY DEF TakeNext
  <1> DEFINE c == [cmd[i] EXCEPT !.todo = @ \ {d}]
             b == [c EXCEPT !.deck = d, !.held = deck[d],
                            !.stage = IF c.op \in {"devices", "cue"} THEN "load" ELSE "work"]
  <1>4. /\ c \in CmdRec /\ c.op = cmd[i].op /\ c.stage = "next" /\ c.todo = cmd[i].todo \ {d}
        /\ c.main = cmd[i].main /\ c.cue = cmd[i].cue /\ c.deck = cmd[i].deck
    <2>1. PICK T : T = cmd[i].todo \ {d} /\ c = [cmd[i] EXCEPT !.todo = T]
      OBVIOUS
    <2> HIDE DEF c
    <2> QED BY <1>1, <1>2, <2>1 DEF CmdRec
  <1>5. deck[d] \in {Nothing} \cup PipelineRec /\ d \in Decks
    BY <1>2 DEF TypeOK, DecksOK
  <1>6. CASE deck[d] = Nothing
    <2>1. cmd' = [cmd EXCEPT ![i] = Advanced(c)] /\ deck' = deck
      BY <1>3, <1>6
    <2> HIDE DEF c
    <2>2. CmdOK(c)
      BY <1>4 DEF CmdOK
    <2> QED BY <1>4, <1>6, <2>1, <2>2
  <1>7. CASE deck[d] # Nothing
    <2>1. cmd' = [cmd EXCEPT ![i] = b] /\ deck' = [deck EXCEPT ![d] = Nothing]
      BY <1>3, <1>7
    <2>2. PICK s : /\ s = IF c.op \in {"devices", "cue"} THEN "load" ELSE "work"
                   /\ b = [c EXCEPT !.deck = d, !.held = deck[d], !.stage = s]
      OBVIOUS
    <2> HIDE DEF b, c
    <2>3. s = "load" \/ s = "work"
      BY <2>2
    <2>4. /\ b \in CmdRec /\ b.deck = d /\ b.held = deck[d] /\ b.stage = s /\ b.op = c.op
          /\ b.todo = c.todo /\ b.main = c.main /\ b.cue = c.cue
      BY <1>4, <1>5, <1>7, <2>2, <2>3 DEF CmdRec
    <2> QED BY <1>4, <1>7, <2>1, <2>2, <2>4
  <1> QED BY <1>6, <1>7

\* ... and the types hold after it.
LEMMA TakeNextTyped ==
  ASSUME TypeOK, NEW i \in Slots, TakeNext(i)
  PROVE  Typed
  <1>1. /\ Running(i) /\ cmd[i].todo \subseteq Decks
        /\ UNCHANGED <<graph, listening, refreshes, manager>>
    BY RunningTyped DEF TakeNext, CmdRec
  <1>2. Calm(graph, graph', listening)
    BY <1>1, SteadyNone, SteadyCalm DEF TypeOK
  <1>3. PICK d \in cmd[i].todo :
           \/ /\ deck[d] = Nothing /\ deck' = deck
              /\ \E c : CmdOK(c) /\ cmd' = [cmd EXCEPT ![i] = Advanced(c)]
           \/ /\ deck[d] # Nothing /\ deck' = [deck EXCEPT ![d] = Nothing]
              /\ \E b \in CmdRec : /\ b.deck = d /\ b.held = deck[d]
                                   /\ cmd' = [cmd EXCEPT ![i] = b]
    BY TakeNextIs
  <1>4. CASE deck[d] = Nothing
    <2>1. PICK c : CmdOK(c) /\ cmd' = [cmd EXCEPT ![i] = Advanced(c)]
      BY <1>3, <1>4
    <2>2. Advanced(c) = Nothing \/ CmdOK(Advanced(c))
      BY <2>1, AdvancedIs
    <2>3. CmdsOK(cmd')
      BY <2>1, <2>2, SetCmd DEF TypeOK
    <2> QED BY <1>1, <1>2, <1>3, <1>4, <2>3 DEF Typed, TypeOK
  <1>5. CASE deck[d] # Nothing
    <2>1. PICK b \in CmdRec : /\ b.deck = d /\ b.held = deck[d]
                              /\ cmd' = [cmd EXCEPT ![i] = b]
      BY <1>3, <1>5
    <2>2. d \in Decks /\ deck[d] \in PipelineRec /\ deck' = [deck EXCEPT ![d] = Nothing]
      BY <1>1, <1>3, <1>5 DEF TypeOK, DecksOK
    <2>3. CmdsOK(cmd') /\ DecksOK(deck')
      BY <2>1, <2>2, TakeTyped
    <2> QED BY <1>1, <1>2, <2>3 DEF Typed, TypeOK
  <1> QED BY <1>4, <1>5

\* The pipeline audio_load begins with.
LEMMA BeginLoadIs ==
  ASSUME TypeOK, NEW i \in Slots, NEW d \in Decks, BeginLoad(i, d)
  PROVE  \E b \in CmdRec :
           /\ b.op = "load" /\ b.stage = "load" /\ b.deck = d /\ b.todo = {}
           /\ b.held = IF deck[d] = Nothing THEN NewPipeline(manager.main, manager.cue)
                       ELSE deck[d]
           /\ b.held \in PipelineRec
           /\ cmd' = [cmd EXCEPT ![i] = b] /\ deck' = [deck EXCEPT ![d] = Nothing]
  <1> DEFINE p == IF deck[d] = Nothing THEN NewPipeline(manager.main, manager.cue) ELSE deck[d]
             b == [Command("load") EXCEPT !.stage = "load", !.deck = d, !.held = p]
  <1>1. p \in PipelineRec
    BY DEF TypeOK, DecksOK, ManagerRec, NewPipeline, PipelineRec, InnerStates
  <1>2. cmd' = [cmd EXCEPT ![i] = b] /\ deck' = [deck EXCEPT ![d] = Nothing]
    BY DEF BeginLoad, Begin
  <1>3. /\ CmdOK(Command("load")) /\ Command("load").op = "load" /\ Command("load").todo = {}
    BY CommandTyped DEF Ops
  <1> HIDE DEF p
  <1>4. /\ b \in CmdRec /\ b.op = "load" /\ b.stage = "load" /\ b.deck = d /\ b.todo = {}
        /\ b.held = p
    BY <1>1, <1>3 DEF CmdOK, CmdRec
  <1> QED BY <1>1, <1>2, <1>4 DEF p

\* The pipeline audio_play and audio_pause begin with.
LEMMA BeginTransportIs ==
  ASSUME TypeOK, NEW i \in Slots, NEW d \in Decks, NEW op, op = "play" \/ op = "pause",
         BeginTransport(i, d, op)
  PROVE  \E b \in CmdRec :
           /\ b.op = op /\ b.stage = "work" /\ b.deck = d /\ b.todo = {}
           /\ b.held = deck[d] /\ b.held \in PipelineRec
           /\ cmd' = [cmd EXCEPT ![i] = b] /\ deck' = [deck EXCEPT ![d] = Nothing]
  <1> DEFINE b == [Command(op) EXCEPT !.stage = "work", !.deck = d, !.held = deck[d]]
  <1>1. deck[d] \in PipelineRec
    BY DEF TypeOK, DecksOK, BeginTransport
  <1>2. cmd' = [cmd EXCEPT ![i] = b] /\ deck' = [deck EXCEPT ![d] = Nothing]
    BY DEF BeginTransport, Begin
  <1>3. op \in Ops /\ CmdOK(Command(op)) /\ Command(op).op = op /\ Command(op).todo = {}
    BY CommandTyped DEF Ops
  <1>4. /\ b \in CmdRec /\ b.op = op /\ b.stage = "work" /\ b.deck = d /\ b.todo = {}
        /\ b.held = deck[d]
    BY <1>1, <1>3 DEF CmdOK, CmdRec
  <1> QED BY <1>1, <1>2, <1>4

\* The pipeline a rebuild begins with: the one its command holds, but for the devices.
LEMMA RetargetedIs ==
  ASSUME NEW c, CmdOK(c), c.stage # "next"
  PROVE  LET p == Retargeted(c) IN
         /\ p \in PipelineRec /\ p.file = c.held.file /\ p.inner = c.held.inner
         /\ p.playing = c.held.playing /\ p.keys = c.held.keys /\ p.latency = c.held.latency
         /\ p.tap = c.held.tap /\ p.recording = c.held.recording
         /\ p.devices = IF c.op = "devices" THEN c.main ELSE c.held.devices
         /\ p.cue = IF c.op = "cue" THEN c.cue ELSE c.held.cue
  <1> DEFINE p == Retargeted(c)
  <1>1. c.held \in PipelineRec /\ c.main \in MainLists /\ c.cue \in CueDevices \cup {NoCue}
    BY DEF CmdOK, CmdRec
  <1>2. CASE c.op = "devices"
    <2>1. p = [c.held EXCEPT !.devices = c.main]
      BY <1>2 DEF Retargeted
    <2> QED BY <1>1, <1>2, <2>1 DEF PipelineRec
  <1>3. CASE c.op = "cue"
    <2>1. p = [c.held EXCEPT !.cue = c.cue]
      BY <1>3 DEF Retargeted
    <2> QED BY <1>1, <1>3, <2>1 DEF PipelineRec
  <1>4. CASE c.op # "devices" /\ c.op # "cue"
    <2>1. p = c.held
      BY <1>4 DEF Retargeted
    <2> QED BY <1>1, <1>4, <2>1
  <1> QED BY <1>2, <1>3, <1>4

\* A recording's target is no setting.
LEMMA TargetCalm ==
  ASSUME NEW g, GraphOK(g), NEW on
  PROVE  LET h == SetRecordTarget(g) IN
         /\ Calm(g, h, on) /\ h.target = TRUE /\ h.node = g.node
  <1> DEFINE h == SetRecordTarget(g)
  <1>1. /\ h \in GraphRec /\ h.target = TRUE /\ h.node = g.node /\ h.extra = g.extra
        /\ h.master = g.master
    BY DEF SetRecordTarget, GraphOK, GraphRec
  <1> HIDE DEF h
  <1>2. Counted(h) /\ (Settled(g) => Settled(h))
    BY <1>1 DEF Counted, Settled, GraphOK
  <1>3. Mains(h) = Mains(g) /\ \A n \in Nodes : Open(h, n) <=> Open(g, n)
    BY <1>1 DEF Mains, Open
  <1> QED BY <1>1, <1>2, <1>3 DEF Calm, GraphOK, TapSound, TapReady, h

\* A delay that is set holds on its node from then on.
LEMMA LatencyCalm ==
  ASSUME NEW g, GraphOK(g), NEW k \in Nodes, NEW x \in Nat, NEW on
  PROVE  LET h == SetExtraLatency(g, k, x) IN
         /\ Calm(g, h, on) /\ h.target = g.target
         /\ CensusAgrees(g) => CensusAgrees(h)
         /\ \A n \in Nodes : \A d, c : At(h, n, d, c) <=> At(g, n, d, c)
  <1> DEFINE h == SetExtraLatency(g, k, x)
             old == g.node[k]
             new == IF old = Nothing THEN old ELSE [old EXCEPT !.delay = x]
  <1>1. g \in GraphRec /\ Counted(g)
    BY DEF GraphOK
  <1>2. h = [g EXCEPT !.extra[k] = x, !.node[k] = new]
    BY <1>1 DEF SetExtraLatency, GraphRec
  <1>3. /\ new \in {Nothing} \cup NodeRec /\ (new = Nothing <=> old = Nothing)
        /\ old # Nothing =>
             /\ new.branches = old.branches /\ new.srcs = old.srcs /\ new.tap = old.tap
             /\ new.volume = old.volume /\ new.delay = x
    BY <1>1, NothingAssumption DEF GraphRec, NodeRec
  <1> HIDE DEF new
  <1>4. /\ h \in GraphRec /\ h.target = g.target /\ h.master = g.master
        /\ h.extra = [g.extra EXCEPT ![k] = x] /\ h.node = [g.node EXCEPT ![k] = new]
    <2>1. PICK e, m : /\ e = [g.extra EXCEPT ![k] = x] /\ m = [g.node EXCEPT ![k] = new]
                      /\ h = [g EXCEPT !.extra = e, !.node = m]
      <3> DEFINE e == [g.extra EXCEPT ![k] = x]
                 m == [g.node EXCEPT ![k] = new]
      <3>1. h = [g EXCEPT !.extra = e, !.node = m]
        BY <1>1, <1>2 DEF GraphRec
      <3> HIDE DEF h
      <3> QED BY <3>1
    <2>2. e \in [Nodes -> Nat] /\ m \in [Nodes -> {Nothing} \cup NodeRec]
      BY <1>1, <1>3, <2>1 DEF GraphRec
    <2> HIDE DEF h
    <2>3. h \in GraphRec /\ h.target = g.target /\ h.master = g.master /\ h.extra = e /\ h.node = m
      BY <1>1, <2>1, <2>2 DEF GraphRec
    <2> QED BY <2>1, <2>3
  <1> HIDE DEF h
  <1>5. \A n \in Nodes : /\ h.node[n] = IF n = k THEN new ELSE g.node[n]
                         /\ h.extra[n] = IF n = k THEN x ELSE g.extra[n]
    BY <1>1, <1>4 DEF GraphRec
  <1>6. Counted(h) /\ (CensusAgrees(g) => CensusAgrees(h))
    BY <1>1, <1>3, <1>5 DEF Counted, CensusAgrees
  <1>7. Settled(g) => Settled(h)
    BY <1>3, <1>4, <1>5 DEF Settled
  <1>8. \A n \in Nodes : Open(h, n) <=> Open(g, n)
    BY <1>3, <1>5 DEF Open
  <1>9. \A n \in Nodes : HasMain(h.node[n]) <=> HasMain(g.node[n])
    BY <1>3, <1>5 DEF HasMain
  <1>10. Mains(h) = Mains(g)
    BY <1>9 DEF Mains
  <1>11. \A n \in Nodes : \A d, c : At(h, n, d, c) <=> At(g, n, d, c)
    BY <1>3, <1>5 DEF At
  <1> QED BY <1>4, <1>6, <1>7, <1>8, <1>10, <1>11 DEF Calm, GraphOK, TapSound, TapReady, h

\* A volume that is set holds on every node.
LEMMA VolumeCalm ==
  ASSUME NEW g, GraphOK(g), NEW v \in Nat, NEW on
  PROVE  LET h == SetMasterVolume(g, v) IN
         /\ Calm(g, h, on) /\ h.target = g.target
         /\ CensusAgrees(g) => CensusAgrees(h)
         /\ \A n \in Nodes : \A d, c : At(h, n, d, c) <=> At(g, n, d, c)
  <1> DEFINE h == SetMasterVolume(g, v)
  <1>1. g \in GraphRec /\ Counted(g)
    BY DEF GraphOK
  <1>2. \A n \in Nodes :
          h.node[n] = IF g.node[n] = Nothing THEN Nothing ELSE [g.node[n] EXCEPT !.volume = v]
    BY <1>1 DEF SetMasterVolume, GraphRec
  <1>3. h.extra = g.extra /\ h.target = g.target /\ h.master = v /\ h = [g EXCEPT !.master = v, !.node = h.node]
    BY <1>1 DEF SetMasterVolume, GraphRec
  <1>4. h.node = [n \in Nodes |-> h.node[n]]
    BY <1>1 DEF SetMasterVolume, GraphRec
  <1> HIDE DEF h
  <1>5. ASSUME NEW n \in Nodes
        PROVE  /\ h.node[n] \in {Nothing} \cup NodeRec
               /\ h.node[n] = Nothing <=> g.node[n] = Nothing
               /\ g.node[n] # Nothing =>
                    /\ h.node[n].branches = g.node[n].branches
                    /\ h.node[n].srcs = g.node[n].srcs /\ h.node[n].tap = g.node[n].tap
                    /\ h.node[n].delay = g.node[n].delay /\ h.node[n].volume = v
    <2>1. CASE g.node[n] = Nothing
      BY <1>2, <2>1
    <2>2. CASE g.node[n] # Nothing
      <3>1. g.node[n] \in NodeRec
        BY <1>1, <2>2 DEF GraphRec
      <3>2. h.node[n] = [g.node[n] EXCEPT !.volume = v]
        BY <1>2, <2>2
      <3>3. h.node[n] \in NodeRec
        BY <3>1, <3>2 DEF NodeRec
      <3> QED BY <2>2, <3>1, <3>2, <3>3, NothingAssumption DEF NodeRec
    <2> QED BY <2>1, <2>2
  <1>6. h.node \in [Nodes -> {Nothing} \cup NodeRec]
    BY <1>4, <1>5
  <1>7. h \in GraphRec
    BY <1>1, <1>3, <1>6 DEF GraphRec
  <1>8. Counted(h) /\ (CensusAgrees(g) => CensusAgrees(h))
    BY <1>1, <1>5 DEF Counted, CensusAgrees
  <1>9. Settled(g) => Settled(h)
    BY <1>3, <1>5 DEF Settled
  <1>10. \A n \in Nodes : Open(h, n) <=> Open(g, n)
    BY <1>5 DEF Open
  <1>11. \A n \in Nodes : HasMain(h.node[n]) <=> HasMain(g.node[n])
    BY <1>5 DEF HasMain
  <1>12. Mains(h) = Mains(g)
    BY <1>11 DEF Mains
  <1>13. \A n \in Nodes : \A d, c : At(h, n, d, c) <=> At(g, n, d, c)
    BY <1>5 DEF At
  <1> QED BY <1>3, <1>7, <1>8, <1>9, <1>10, <1>12, <1>13
          DEF Calm, GraphOK, TapSound, TapReady, h

\* The recording's node is no main output: removing it changes nothing for the tap, if it
\* had none.
LEMMA FinishCalm ==
  ASSUME NEW g, GraphOK(g), NEW on
  PROVE  LET h == FinishRecording(g) IN
         /\ Calm(g, h, on)
         /\ CensusAgrees(g) => CensusAgrees(h)
         /\ \A n \in Nodes : \A d, c : At(h, n, d, c) <=> At(g, n, d, c) /\ n # RecordNode
  <1> DEFINE h == FinishRecording(g)
  <1>1. g \in GraphRec /\ Counted(g)
    BY DEF GraphOK
  <1>2. /\ h \in GraphRec /\ h.extra = g.extra /\ h.master = g.master
        /\ h.node = [g.node EXCEPT ![RecordNode] = Nothing]
    BY <1>1, NodesTyped DEF FinishRecording, GraphRec
  <1> HIDE DEF h
  <1>3. \A n \in Nodes : h.node[n] = IF n = RecordNode THEN Nothing ELSE g.node[n]
    BY <1>1, <1>2 DEF GraphRec
  <1>4. Counted(h) /\ (Settled(g) => Settled(h)) /\ (CensusAgrees(g) => CensusAgrees(h))
    BY <1>1, <1>2, <1>3 DEF Counted, Settled, CensusAgrees
  <1>5. Mains(h) = Mains(g)
    BY <1>3 DEF Mains
  <1>6. \A n \in Nodes : Open(h, n) <=> Open(g, n) /\ n # RecordNode
    BY <1>3 DEF Open
  <1>7. TapSound(g) => /\ TapSound(h)
                       /\ \A n \in Nodes : Open(h, n) <=> Open(g, n)
    BY <1>5, <1>6 DEF TapSound, Mains
  <1>8. \A n \in Nodes : \A d, c : At(h, n, d, c) <=> At(g, n, d, c) /\ n # RecordNode
    BY <1>3 DEF At
  <1> QED BY <1>2, <1>4, <1>5, <1>7, <1>8 DEF Calm, GraphOK, TapReady, h

\* An insert leaves the types as they are.
LEMMA InsertsTyped ==
  ASSUME TypeOK, NEW i \in Slots, Running(i), cmd[i].stage # "next",
         NEW q \in PipelineRec, NEW g, Steady(graph, g, listening), Insert(i, q, g),
         UNCHANGED <<listening, refreshes, manager>>
  PROVE  Typed
  BY InsertTyped, SteadyCalm DEF Typed, TypeOK

\* Another stage leaves the types as they are.
LEMMA StagesTyped ==
  ASSUME TypeOK, NEW i \in Slots, Running(i), cmd[i].stage # "next", NEW q \in PipelineRec,
         NEW s, s = "rejoin" \/ s = "check" \/ s = "insert",
         cmd' = [cmd EXCEPT ![i].held = q, ![i].stage = s],
         Steady(graph, graph', listening), UNCHANGED <<listening, refreshes, manager, deck>>
  PROVE  Typed
  <1>1. CmdsOK(cmd')
    BY StageTyped
  <1> QED BY <1>1, SteadyCalm DEF Typed, TypeOK

\* What load does of its own: it puts the pipeline back as it is, or rebuilds it.
LEMMA LoadsIs ==
  ASSUME TypeOK, NEW i \in Slots, Loads(i)
  PROVE  LET c == cmd[i]
             p == Retargeted(c) IN
         /\ Running(i) /\ c.stage = "load" /\ p \in PipelineRec
         /\ UNCHANGED <<listening, refreshes, manager>>
         /\ \/ c.op # "load" /\ ~p.file /\ Insert(i, p, graph)
            \/ /\ c.op = "load" \/ p.file
               /\ UNCHANGED deck
               /\ \E prerolls \in {TRUE} \cup {"prerollFails" \notin Events} :
                    LET r == Rebuild(graph, c.deck, p, listening, prerolls) IN
                    /\ graph' = r.graph
                    /\ cmd' = [cmd EXCEPT ![i].held = r.pipeline,
                                 ![i].stage = IF prerolls THEN "rejoin" ELSE "insert"]
  <1>1. Running(i) /\ cmd[i].stage = "load" /\ CmdOK(cmd[i])
    BY RunningTyped DEF Loads
  <1>2. Retargeted(cmd[i]) \in PipelineRec
    BY <1>1, RetargetedIs
  <1> QED BY <1>1, <1>2 DEF Loads

\* load leaves the types as they are.
LEMMA LoadsTyped ==
  ASSUME TypeOK, NEW i \in Slots, Loads(i)
  PROVE  Typed
  <1> DEFINE c == cmd[i]
             p == Retargeted(c)
  <1>1. /\ Running(i) /\ c.stage = "load" /\ p \in PipelineRec
        /\ UNCHANGED <<listening, refreshes, manager>>
        /\ \/ c.op # "load" /\ ~p.file /\ Insert(i, p, graph)
           \/ /\ UNCHANGED deck
              /\ \E prerolls \in {TRUE} \cup {"prerollFails" \notin Events} :
                   LET r == Rebuild(graph, c.deck, p, listening, prerolls) IN
                   /\ graph' = r.graph
                   /\ cmd' = [cmd EXCEPT ![i].held = r.pipeline,
                                ![i].stage = IF prerolls THEN "rejoin" ELSE "insert"]
    BY LoadsIs
  <1>2. c.deck \in Decks /\ GraphOK(graph) /\ listening \in BOOLEAN
    BY <1>1, RunningTyped DEF TypeOK
  <1> HIDE DEF p
  <1>3. CASE Insert(i, p, graph)
    <2>1. Steady(graph, graph, listening)
      BY <1>2, SteadyNone
    <2> QED BY <1>1, <1>3, <2>1, InsertsTyped
  <1>4. CASE UNCHANGED deck /\
             \E prerolls \in {TRUE} \cup {"prerollFails" \notin Events} :
                   LET r == Rebuild(graph, c.deck, p, listening, prerolls) IN
                   /\ graph' = r.graph
                   /\ cmd' = [cmd EXCEPT ![i].held = r.pipeline,
                                ![i].stage = IF prerolls THEN "rejoin" ELSE "insert"]
    <2>1. PICK prerolls \in BOOLEAN :
                   LET r == Rebuild(graph, c.deck, p, listening, prerolls) IN
                   /\ graph' = r.graph
                   /\ cmd' = [cmd EXCEPT ![i].held = r.pipeline,
                                ![i].stage = IF prerolls THEN "rejoin" ELSE "insert"]
      BY <1>4
    <2> DEFINE r == Rebuild(graph, c.deck, p, listening, prerolls)
               s == IF prerolls THEN "rejoin" ELSE "insert"
    <2>2. r.pipeline \in PipelineRec /\ Steady(graph, r.graph, listening)
      BY <1>1, <1>2, RebuildIs
    <2>3. graph' = r.graph /\ cmd' = [cmd EXCEPT ![i].held = r.pipeline, ![i].stage = s]
      BY <2>1
    <2>4. s = "rejoin" \/ s = "insert"
      OBVIOUS
    <2> HIDE DEF r, s
    <2>5. PICK q \in PipelineRec : q = r.pipeline
      BY <2>2
    <2>6. c.stage # "next"
      BY <1>1
    <2> QED BY <1>1, <1>4, <2>2, <2>3, <2>4, <2>5, <2>6, StagesTyped
  <1> QED BY <1>1, <1>3, <1>4

\* The record tap, at the end of load and after it, leaves the types as they are.
LEMMA RejoinsTyped ==
  ASSUME TypeOK, NEW i \in Slots, Rejoins(i) \/ ChecksRecording(i)
  PROVE  Typed
  <1>1. Running(i) /\ cmd[i].stage # "next"
    BY DEF Rejoins, ChecksRecording
  <1>2. cmd[i].deck \in Decks /\ GraphOK(graph) /\ listening \in BOOLEAN
        /\ cmd[i].held \in PipelineRec
    BY <1>1, RunningTyped DEF TypeOK
  <1>3. CASE Rejoins(i)
    <2> DEFINE r == Rejoin(graph, cmd[i].deck, cmd[i].held, listening)
               s == IF cmd[i].op = "load" THEN "check" ELSE "insert"
    <2>1. r.pipeline \in PipelineRec /\ Steady(graph, r.graph, listening)
      BY <1>2, RejoinIs
    <2>2. /\ graph' = r.graph /\ cmd' = [cmd EXCEPT ![i].held = r.pipeline, ![i].stage = s]
          /\ UNCHANGED <<listening, refreshes, manager, deck>>
      BY <1>3 DEF Rejoins
    <2>3. s = "check" \/ s = "insert"
      OBVIOUS
    <2> HIDE DEF r, s
    <2> QED BY <1>1, <2>1, <2>2, <2>3, StagesTyped
  <1>4. CASE ChecksRecording(i)
    <2> DEFINE r == AttachRecord(graph, cmd[i].deck, cmd[i].held, listening)
               q == IF manager.recording THEN r.pipeline ELSE cmd[i].held
    <2>1. r.pipeline \in PipelineRec /\ Steady(graph, r.graph, listening)
      BY <1>2, AttachRecordIs
    <2>2. /\ graph' = IF manager.recording THEN r.graph ELSE graph
          /\ UNCHANGED <<listening, refreshes, manager, deck>>
      BY <1>4 DEF ChecksRecording
    <2>3. cmd' = [cmd EXCEPT ![i].held = q, ![i].stage = "insert"]
      BY <1>4 DEF ChecksRecording, TypeOK, CmdsOK
    <2> HIDE DEF r
    <2>4. q \in PipelineRec /\ Steady(graph, graph', listening)
      BY <1>2, <2>1, <2>2, SteadyNone
    <2> HIDE DEF q
    <2> QED BY <1>1, <2>2, <2>3, <2>4, StagesTyped
  <1> QED BY <1>3, <1>4

\* Putting a pipeline back, worked on or not, leaves the types as they are.
LEMMA WorksTyped ==
  ASSUME TypeOK, NEW i \in Slots, Inserts(i) \/ Works(i)
  PROVE  Typed
  <1>1. /\ Running(i) /\ cmd[i].stage # "next" /\ UNCHANGED <<listening, refreshes, manager>>
    BY DEF Inserts, Works
  <1>2. cmd[i].deck \in Decks /\ GraphOK(graph) /\ listening \in BOOLEAN
        /\ cmd[i].held \in PipelineRec /\ Steady(graph, graph, listening)
    BY <1>1, RunningTyped, SteadyNone DEF TypeOK
  <1>3. CASE Inserts(i)
    <2>1. Resume(cmd[i].held) \in PipelineRec
      BY <1>2, ResumeIs
    <2> QED BY <1>1, <1>2, <1>3, <2>1, InsertsTyped DEF Inserts
  <1>4. CASE Works(i)
    <2> DEFINE p == cmd[i].held
               a == AttachRecord(graph, cmd[i].deck, p, listening)
               b == DetachRecord(graph, cmd[i].deck, p, listening)
    <2>1. \/ Insert(i, Play(p), graph) \/ Insert(i, Pause(p), graph)
          \/ Insert(i, a.pipeline, a.graph) \/ Insert(i, b.pipeline, b.graph)
      BY <1>4 DEF Works
    <2>2. Play(p) \in PipelineRec /\ Pause(p) \in PipelineRec
      BY <1>2, PlayPauseAre
    <2>3. a.pipeline \in PipelineRec /\ Steady(graph, a.graph, listening)
      BY <1>2, AttachRecordIs
    <2>4. b.pipeline \in PipelineRec /\ Steady(graph, b.graph, listening)
      BY <1>2, DetachRecordIs
    <2> HIDE DEF a, b, p
    <2>5. CASE Insert(i, Play(p), graph) \/ Insert(i, Pause(p), graph)
      BY <1>1, <1>2, <2>2, <2>5, InsertsTyped
    <2>6. CASE Insert(i, a.pipeline, a.graph)
      BY <1>1, <2>3, <2>6, InsertsTyped
    <2>7. CASE Insert(i, b.pipeline, b.graph)
      BY <1>1, <2>4, <2>7, InsertsTyped
    <2> QED BY <2>1, <2>5, <2>6, <2>7
  <1> QED BY <1>3, <1>4

\* What a command that goes through a list of decks begins with.
LEMMA BeginsIs ==
  ASSUME TypeOK, NEW i \in Slots
  PROVE  /\ \A m \in MainLists : BeginDevices(i, m) =>
              \E b \in CmdRec :
                /\ CmdOK(b) /\ b.op = "devices" /\ b.stage = "next" /\ b.deck = Nothing
                /\ b.todo = Mapped /\ b.main = m
                /\ Begin(i, IF Mapped = {} THEN Nothing ELSE b)
         /\ \A u \in CueDevices \cup {NoCue} : BeginCue(i, u) =>
              \E b \in CmdRec :
                /\ CmdOK(b) /\ b.op = "cue" /\ b.stage = "next" /\ b.deck = Nothing
                /\ b.todo = Mapped /\ b.cue = u
                /\ Begin(i, IF Mapped = {} THEN Nothing ELSE b)
         /\ BeginRecordStart(i) =>
              \E b \in CmdRec :
                /\ CmdOK(b) /\ b.op = "start" /\ b.stage = "next" /\ b.deck = Nothing
                /\ b.todo = Mapped
                /\ Begin(i, IF Mapped = {} THEN Nothing ELSE b)
         /\ BeginRecordStop(i) =>
              \E b \in CmdRec :
                /\ CmdOK(b) /\ b.op = "stop" /\ b.stage = "next" /\ b.deck = Nothing
                /\ b.todo = Mapped
                /\ Begin(i, b)
  <1>1. /\ Mapped \in SUBSET Decks
        /\ \A op \in Ops : /\ Command(op) \in CmdRec /\ Command(op).op = op
                           /\ Command(op).stage = "next" /\ Command(op).deck = Nothing
    BY CommandTyped DEF Mapped, CmdOK
  <1>2. ASSUME NEW m \in MainLists, BeginDevices(i, m)
        PROVE  \E b \in CmdRec :
                /\ CmdOK(b) /\ b.op = "devices" /\ b.stage = "next" /\ b.deck = Nothing
                /\ b.todo = Mapped /\ b.main = m
                /\ Begin(i, IF Mapped = {} THEN Nothing ELSE b)
    <2> DEFINE b == [Command("devices") EXCEPT !.todo = Mapped, !.main = m]
    <2>1. Begin(i, IF Mapped = {} THEN Nothing ELSE b)
      BY <1>2 DEF BeginDevices
    <2>2. /\ CmdOK(b) /\ b \in CmdRec /\ b.op = "devices" /\ b.stage = "next"
          /\ b.deck = Nothing /\ b.todo = Mapped /\ b.main = m
      BY <1>1 DEF CmdOK, CmdRec, Ops
    <2> QED BY <2>1, <2>2
  <1>3. ASSUME NEW u \in CueDevices \cup {NoCue}, BeginCue(i, u)
        PROVE  \E b \in CmdRec :
                /\ CmdOK(b) /\ b.op = "cue" /\ b.stage = "next" /\ b.deck = Nothing
                /\ b.todo = Mapped /\ b.cue = u
                /\ Begin(i, IF Mapped = {} THEN Nothing ELSE b)
    <2> DEFINE b == [Command("cue") EXCEPT !.todo = Mapped, !.cue = u]
    <2>1. Begin(i, IF Mapped = {} THEN Nothing ELSE b)
      BY <1>3 DEF BeginCue
    <2>2. /\ CmdOK(b) /\ b \in CmdRec /\ b.op = "cue" /\ b.stage = "next"
          /\ b.deck = Nothing /\ b.todo = Mapped /\ b.cue = u
      BY <1>1 DEF CmdOK, CmdRec, Ops
    <2> QED BY <2>1, <2>2
  <1>4. ASSUME NEW op, op = "start" \/ op = "stop"
        PROVE  LET b == [Command(op) EXCEPT !.todo = Mapped] IN
               /\ CmdOK(b) /\ b \in CmdRec /\ b.op = op /\ b.stage = "next"
               /\ b.deck = Nothing /\ b.todo = Mapped
    BY <1>1, <1>4 DEF CmdOK, CmdRec, Ops
  <1>5. ASSUME BeginRecordStart(i)
        PROVE  \E b \in CmdRec :
                /\ CmdOK(b) /\ b.op = "start" /\ b.stage = "next" /\ b.deck = Nothing
                /\ b.todo = Mapped
                /\ Begin(i, IF Mapped = {} THEN Nothing ELSE b)
    <2> DEFINE b == [Command("start") EXCEPT !.todo = Mapped]
    <2>1. Begin(i, IF Mapped = {} THEN Nothing ELSE b)
      BY <1>5 DEF BeginRecordStart
    <2> QED BY <1>4, <2>1
  <1>6. ASSUME BeginRecordStop(i)
        PROVE  \E b \in CmdRec :
                /\ CmdOK(b) /\ b.op = "stop" /\ b.stage = "next" /\ b.deck = Nothing
                /\ b.todo = Mapped
                /\ Begin(i, b)
    <2> DEFINE b == [Command("stop") EXCEPT !.todo = Mapped]
    <2>1. Begin(i, b)
      BY <1>6 DEF BeginRecordStop
    <2> QED BY <1>4, <2>1
  <1> QED BY <1>2, <1>3, <1>5, <1>6

\* A command that begins leaves the types as they are.
LEMMA AsksTyped ==
  ASSUME TypeOK, NEW i \in Slots, Asks(i)
  PROVE  Typed
  <1>1. GraphOK(graph) /\ CmdsOK(cmd) /\ DecksOK(deck) /\ manager \in ManagerRec
        /\ Calm(graph, graph, listening)
    BY SteadyNone, SteadyCalm DEF TypeOK
  <1>2. ASSUME NEW d \in Decks, BeginLoad(i, d)
        PROVE  Typed
    <2>1. PICK b \in CmdRec :
           /\ b.deck = d /\ b.held \in PipelineRec
           /\ cmd' = [cmd EXCEPT ![i] = b] /\ deck' = [deck EXCEPT ![d] = Nothing]
      BY <1>2, BeginLoadIs
    <2>2. CmdsOK(cmd') /\ DecksOK(deck')
      BY <2>1, TakeTyped
    <2> QED BY <1>1, <1>2, <2>2 DEF Typed, BeginLoad
  <1>3. ASSUME NEW d \in Decks, NEW op, op = "play" \/ op = "pause", BeginTransport(i, d, op)
        PROVE  Typed
    <2>1. PICK b \in CmdRec :
           /\ b.deck = d /\ b.held \in PipelineRec
           /\ cmd' = [cmd EXCEPT ![i] = b] /\ deck' = [deck EXCEPT ![d] = Nothing]
      BY <1>3, BeginTransportIs
    <2>2. CmdsOK(cmd') /\ DecksOK(deck')
      BY <2>1, TakeTyped
    <2> QED BY <1>1, <1>3, <2>2 DEF Typed, BeginTransport
  <1>4. ASSUME NEW b, CmdOK(b), NEW c, c = Nothing \/ c = b, Begin(i, c)
        PROVE  CmdsOK(cmd')
    BY <1>1, <1>4, SetCmd DEF Begin
  <1>5. ASSUME NEW m \in MainLists, BeginDevices(i, m)
        PROVE  Typed
    <2>1. CmdsOK(cmd')
      BY <1>4, <1>5, BeginsIs
    <2>2. manager' \in ManagerRec
      BY <1>1, <1>5 DEF BeginDevices, ManagerRec
    <2> QED BY <1>1, <1>5, <2>1, <2>2 DEF Typed, BeginDevices
  <1>6. ASSUME NEW u \in CueDevices \cup {NoCue}, BeginCue(i, u)
        PROVE  Typed
    <2>1. CmdsOK(cmd')
      BY <1>4, <1>6, BeginsIs
    <2>2. manager' \in ManagerRec
      BY <1>1, <1>6 DEF BeginCue, ManagerRec
    <2> QED BY <1>1, <1>6, <2>1, <2>2 DEF Typed, BeginCue
  <1>7. ASSUME BeginRecordStart(i)
        PROVE  Typed
    <2>1. CmdsOK(cmd')
      BY <1>4, <1>7, BeginsIs
    <2>2. manager' \in ManagerRec
      BY <1>1, <1>7 DEF BeginRecordStart, ManagerRec
    <2>3. Calm(graph, graph', listening)
      BY <1>1, <1>7, TargetCalm DEF BeginRecordStart
    <2> QED BY <1>1, <1>7, <2>1, <2>2, <2>3 DEF Typed, BeginRecordStart
  <1>8. ASSUME BeginRecordStop(i)
        PROVE  Typed
    <2>1. CmdsOK(cmd')
      BY <1>4, <1>8, BeginsIs
    <2>2. manager' \in ManagerRec
      BY <1>1, <1>8 DEF BeginRecordStop, ManagerRec
    <2> QED BY <1>1, <1>8, <2>1, <2>2 DEF Typed, BeginRecordStop
  <1> QED BY <1>2, <1>3, <1>5, <1>6, <1>7, <1>8 DEF Asks

\* The end of a recording, an unload and a setting leave the types as they are.
LEMMA OthersTyped ==
  ASSUME TypeOK,
         \/ \E i \in Slots : FinishesRecording(i)
         \/ \E d \in Decks : Unload(d)
         \/ \E n \in Nodes \ {RecordNode}, x \in {0, 1} : SetLatency(n, x)
         \/ \E v \in {0, 1} : SetVolume(v)
  PROVE  Typed
  <1>1. /\ GraphOK(graph) /\ CmdsOK(cmd) /\ DecksOK(deck) /\ manager \in ManagerRec
        /\ listening \in BOOLEAN
    BY DEF TypeOK
  <1>2. ASSUME NEW i \in Slots, FinishesRecording(i)
        PROVE  Typed
    <2>1. CmdsOK(cmd')
      BY <1>1, <1>2, SetCmd DEF FinishesRecording, Ends
    <2>2. Calm(graph, graph', listening)
      BY <1>1, <1>2, FinishCalm DEF FinishesRecording
    <2> QED BY <1>1, <1>2, <2>1, <2>2 DEF Typed, FinishesRecording
  <1>3. ASSUME NEW d \in Decks, Unload(d)
        PROVE  Typed
    <2>1. DecksOK(deck')
      BY <1>1, <1>3, SetDeck DEF Unload
    <2>2. Calm(graph, graph', listening)
      BY <1>1, <1>3, DroppedSteady, SteadyCalm DEF Unload
    <2> QED BY <1>1, <1>3, <2>1, <2>2 DEF Typed, Unload
  <1>4. ASSUME NEW n \in Nodes \ {RecordNode}, NEW x \in {0, 1}, SetLatency(n, x)
        PROVE  Typed
    <2>1. Calm(graph, graph', listening)
      BY <1>1, <1>4, LatencyCalm DEF SetLatency
    <2> QED BY <1>1, <1>4, <2>1 DEF Typed, SetLatency
  <1>5. ASSUME NEW v \in {0, 1}, SetVolume(v)
        PROVE  Typed
    <2>1. Calm(graph, graph', listening)
      BY <1>1, <1>5, VolumeCalm DEF SetVolume
    <2> QED BY <1>1, <1>5, <2>1 DEF Typed, SetVolume
  <1> QED BY <1>2, <1>3, <1>4, <1>5

\* Every step is one of these, but for the two that change whether the visualizers listen
\* and carry that out.
LEMMA NextTyped ==
  ASSUME TypeOK, Next
  PROVE  \/ Typed
         \/ Refreshes
         \/ \E on \in BOOLEAN : SetListening(on)
  BY TakeNextTyped, LoadsTyped, RejoinsTyped, WorksTyped, AsksTyped, OthersTyped
     DEF Next, Step, Adjusts

\* The types, and no node of the output graph with fewer sources than branches.
THEOREM TypeCorrect == Spec => []TypeOK
  <1>1. Init => TypeOK
    <2> SUFFICES ASSUME Init PROVE TypeOK
      OBVIOUS
    <2>1. GraphOK(graph)
      BY DEF Init, EmptyGraph, GraphOK, GraphRec, Counted
    <2> QED BY <2>1, ListsAssumption DEF Init, TypeOK, ManagerRec, DecksOK, CmdsOK
  <1>2. TypeOK /\ [Next]_vars => TypeOK'
    <2> SUFFICES ASSUME TypeOK, [Next]_vars PROVE TypeOK'
      OBVIOUS
    <2>1. CASE Typed
      BY <2>1 DEF TypeOK, Typed, Calm
    <2>2. CASE Refreshes
      <3>1. GraphOK(graph')
        BY <2>2, RefreshSteady DEF Refreshes, TypeOK, Steady
      <3> QED BY <2>2, <3>1 DEF Refreshes, TypeOK
    <2>3. ASSUME NEW on \in BOOLEAN, SetListening(on) PROVE TypeOK'
      BY <2>3 DEF SetListening, TypeOK
    <2>4. CASE UNCHANGED vars
      BY <2>4 DEF vars, TypeOK
    <2> QED BY <2>1, <2>2, <2>3, <2>4, NextTyped
  <1> QED BY <1>1, <1>2, PTL DEF Spec

\* The tap is sound, and is what the visualizers want once their wish is carried out; the
\* settings hold on every node.
TapInv ==
    /\ TapSound(graph) /\ Settled(graph)
    /\ refreshes = 0 => TapReady(graph, listening)

\* The inductive invariant of the tap.
LEMMA TapInvHolds == Spec => []TapInv
  <1>1. Init => TapInv
    BY DEF Init, EmptyGraph, TapInv, TapSound, TapReady, Settled, Open, Mains, HasMain
  <1>2. TypeOK /\ TapInv /\ [Next]_vars => TapInv'
    <2> SUFFICES ASSUME TypeOK, TapInv, [Next]_vars PROVE TapInv'
      OBVIOUS
    <2>1. CASE Typed
      BY <2>1 DEF TapInv, Typed, Calm
    <2>2. CASE Refreshes
      <3>1. GraphOK(graph) /\ listening \in BOOLEAN /\ graph' = RefreshTap(graph, listening)
            /\ listening' = listening
        BY <2>2 DEF Refreshes, TypeOK
      <3>2. TapSound(graph') /\ TapReady(graph', listening)
        BY <3>1, RefreshFollows DEF GraphOK
      <3>3. Settled(graph) => Settled(graph')
        BY <3>1, RefreshSteady DEF Steady
      <3> QED BY <3>1, <3>2, <3>3 DEF TapInv
    <2>3. ASSUME NEW on \in BOOLEAN, SetListening(on) PROVE TapInv'
      BY <2>3 DEF SetListening, TypeOK, TapInv
    <2>4. CASE UNCHANGED vars
      BY <2>4 DEF vars, TapInv
    <2> QED BY <2>1, <2>2, <2>3, <2>4, NextTyped
  <1> QED BY <1>1, <1>2, TypeCorrect, PTL DEF Spec

\* At most one valve lets the visualizers hear, whatever is loaded, moved and recorded
\* meanwhile, and once their wish has been carried out exactly if they listen and a deck
\* has a main output.
THEOREM TapFollowsHolds == Spec => []TapFollows
  <1>1. TypeOK /\ TapInv => TapFollows
    <2> SUFFICES ASSUME TypeOK, TapInv PROVE TapFollows
      OBVIOUS
    <2> DEFINE open == {n \in Nodes : graph.node[n] # Nothing /\ graph.node[n].tap = "open"}
    <2>1. \A n \in Nodes : n \in open <=> Open(graph, n)
      BY DEF Open
    <2>2. open \subseteq Nodes
      OBVIOUS
    <2> HIDE DEF open
    <2>3. Cardinality(open) <= 1
      <3>1. CASE open = {}
        BY <3>1, FS_EmptySet
      <3>2. CASE open # {}
        <4>1. PICK n \in open : TRUE
          BY <3>2
        <4>2. open = {n}
          BY <2>1, <2>2, <4>1 DEF TapInv, TapSound
        <4>3. Cardinality({n}) = 1
          BY FS_Singleton
        <4> QED BY <4>2, <4>3
      <3> QED BY <3>1, <3>2
    <2>4. refreshes = 0 => (open # {} <=> listening /\ Mains(graph) # {})
      BY <2>1, <2>2 DEF TapInv, TapReady
    <2>5. open \subseteq Mains(graph)
      BY <2>1, <2>2 DEF TapInv, TapSound
    <2> QED BY <2>3, <2>4, <2>5 DEF TapFollows, open
  <1> QED BY <1>1, TypeCorrect, TapInvHolds, PTL

----------------------------------------------------------------------------
(* Commands that keep to what the page asks for, with no preroll that fails. *)

\* Which stages a command goes through, and when it has a deck.
Staged(c) ==
    /\ c.op = "load" => c.stage \in {"load", "rejoin", "check", "insert"}
    /\ c.op \in {"devices", "cue"} => c.stage \in {"next", "load", "rejoin", "insert"}
    /\ c.op \in {"start", "stop"} => c.stage \in {"next", "work"}
    /\ c.op \in {"play", "pause"} => c.stage = "work"
    /\ c.op \in {"load", "play", "pause"} => c.todo = {}
    /\ c.stage = "next" => c.deck = Nothing
    /\ c.deck \notin c.todo

\* What a command knows of the settings and of the recording.
Informed(c) ==
    /\ c.op = "devices" => c.main = manager.main
    /\ c.op = "cue" => c.cue = manager.cue
    /\ c.op = "start" => manager.recording
    /\ c.op = "stop" => ~manager.recording

\* A deck is out with one command at most, and then it is not in the map; a change of
\* devices and the end of a recording share the time with play and pause only.
Apart ==
    /\ \A i \in Slots, d \in Decks : Holds(i, d) => deck[d] = Nothing
    /\ \A i, j \in Slots, d \in Decks : Holds(i, d) /\ Holds(j, d) => i = j
    /\ \A i, j \in Slots :
         Running(i) /\ Running(j) /\ i # j /\ cmd[i].op \in {"devices", "cue", "stop"}
         => cmd[j].op \in {"play", "pause"}

InTune(p) == Loaded(p) => (p.inner = "playing" <=> p.playing)
Awaits(op, d) == \E i \in Slots : Running(i) /\ cmd[i].op = op /\ d \in cmd[i].todo

\* A pipeline in the map is as it was asked to be, but for what a command under way has
\* still to do to it.
AtRest(d, p) ==
    /\ Whole(p) /\ (p.file => Loaded(p)) /\ InTune(p)
    /\ p.devices = manager.main \/ Awaits("devices", d)
    /\ p.cue = manager.cue \/ Awaits("cue", d)
    /\ p.recording => manager.recording \/ Awaits("stop", d)
    /\ manager.recording /\ Loaded(p) => p.tap \/ Awaits("start", d)

\* A pipeline that is out, but for what its command has still to do to it.
InHand(c, p) ==
    /\ Whole(p) /\ (p.file => Loaded(p))
    /\ ~(c.op = "devices" /\ c.stage = "load") => p.devices = manager.main
    /\ ~(c.op = "cue" /\ c.stage = "load") => p.cue = manager.cue
    /\ c.op = "load" => ~p.playing
    /\ IF c.stage \in {"load", "work"} THEN InTune(p) ELSE p.inner # "playing"
    /\ c.stage = "rejoin" => ~p.tap
    /\ c.op # "stop" /\ p.recording => manager.recording
    /\ manager.recording /\ Loaded(p) /\ c.op \in {"devices", "cue"} => p.recording
    /\ manager.recording /\ Loaded(p) /\ (c.stage = "insert" \/ c.op \in {"play", "pause"})
         => p.tap

Orderly ==
    /\ Apart
    /\ manager.recording => graph.target
    /\ \A i \in Slots : Running(i) => Staged(cmd[i]) /\ Informed(cmd[i])
    /\ \A d \in Decks : deck[d] # Nothing => AtRest(d, deck[d])
    /\ \A i \in Slots, d \in Decks : Holds(i, d) => InHand(cmd[i], cmd[i].held)

\* Every deck's branches are its pipeline's outputs, wherever the pipeline is.
Placed ==
    /\ CensusAgrees(graph)
    /\ \A d \in Decks : deck[d] # Nothing => Seated(graph, d, deck[d])
    /\ \A i \in Slots, d \in Decks : Holds(i, d) => Seated(graph, d, cmd[i].held)
    /\ \A d \in Decks : deck[d] = Nothing /\ ~Detached(d) => Absent(graph, d)

\* A pipeline that has everything a command could have had to do to it.
Done(p) ==
    /\ Whole(p) /\ (p.file => Loaded(p)) /\ InTune(p)
    /\ p.devices = manager.main /\ p.cue = manager.cue
    /\ p.recording => manager.recording
    /\ manager.recording /\ Loaded(p) => p.tap

\* Branches are seated and absent by their places only.
LEMMA SeatedMoves ==
  ASSUME NEW g, NEW h, NEW d, OthersStay(g, h, d), NEW e, e # d
  PROVE  /\ \A p : Seated(g, e, p) => Seated(h, e, p)
         /\ Absent(g, e) => Absent(h, e)
  <1>1. \A n \in Nodes : \A c : At(h, n, e, c) <=> At(g, n, e, c)
    BY DEF OthersStay
  <1>2. \A p : Seated(g, e, p) => Seated(h, e, p)
    BY <1>1 DEF Seated
  <1>3. Absent(g, e) => Absent(h, e)
    BY <1>1 DEF Absent
  <1> QED BY <1>2, <1>3

\* A command goes to another stage: nothing is lost of what it has still to do, if its own
\* pipeline is as the stage says.
LEMMA StageOrderly ==
  ASSUME TypeOK, Orderly, NEW i \in Slots, Running(i), cmd[i].stage # "next",
         NEW q \in PipelineRec, NEW s, s = "rejoin" \/ s = "check" \/ s = "insert",
         Turned(i, q, s),
         deck' = deck, manager' = manager, graph'.target = graph.target,
         Staged(cmd'[i]), InHand(cmd'[i], q)
  PROVE  /\ Orderly'
         /\ \A j \in Slots : \A d : Holds(j, d)' <=> Holds(j, d)
         /\ cmd'[i].held = q /\ cmd'[i].deck = cmd[i].deck
         /\ \A j \in Slots \ {i} : cmd'[j] = cmd[j]
  <1>1. /\ CmdOK(cmd'[i]) /\ \A j \in Slots \ {i} : cmd'[j] = cmd[j]
        /\ cmd'[i].held = q /\ cmd'[i].stage = s /\ cmd'[i].deck = cmd[i].deck
        /\ cmd'[i].op = cmd[i].op /\ cmd'[i].todo = cmd[i].todo
        /\ cmd'[i].main = cmd[i].main /\ cmd'[i].cue = cmd[i].cue
    BY DEF Turned
  <1>2. \A j \in Slots : Running(j)' <=> Running(j)
    BY <1>1, NoCommandAssumption DEF Running, CmdOK
  <1>3. \A j \in Slots : \A d : Holds(j, d)' <=> Holds(j, d)
    BY <1>1, <1>2 DEF Holds
  <1>4. \A op, d : Awaits(op, d)' <=> Awaits(op, d)
    BY <1>1, <1>2 DEF Awaits
  <1>5. \A j \in Slots : cmd'[j].op = cmd[j].op
    BY <1>1
  <1>6. Apart'
    BY <1>2, <1>3, <1>5 DEF Apart, Orderly
  <1>7. \A j \in Slots : Running(j)' => (Staged(cmd[j]) /\ Informed(cmd[j]))'
    <2> SUFFICES ASSUME NEW j \in Slots, Running(j)
                 PROVE  Staged(cmd'[j]) /\ Informed(cmd[j])'
      BY <1>2 DEF Staged
    <2>1. Informed(cmd[j]) /\ Staged(cmd[j])
      BY DEF Orderly
    <2>2. CASE j = i
      BY <1>1, <2>1, <2>2 DEF Informed
    <2>3. CASE j # i
      BY <1>1, <2>1, <2>3 DEF Informed
    <2> QED BY <2>2, <2>3
  <1>8. \A d \in Decks : deck'[d] # Nothing => AtRest(d, deck[d])'
    BY <1>4 DEF AtRest, Orderly
  <1>9. \A j \in Slots, d \in Decks : Holds(j, d)' => InHand(cmd[j], cmd[j].held)'
    <2> SUFFICES ASSUME NEW j \in Slots, NEW d \in Decks, Holds(j, d)
                 PROVE  InHand(cmd[j], cmd[j].held)'
      BY <1>3
    <2>1. CASE j = i
      BY <1>1, <2>1 DEF InHand
    <2>2. CASE j # i
      <3>1. InHand(cmd[j], cmd[j].held) /\ cmd'[j] = cmd[j]
        BY <1>1, <2>2 DEF Orderly
      <3> QED BY <3>1 DEF InHand
    <2> QED BY <2>1, <2>2
  <1> QED BY <1>1, <1>3, <1>6, <1>7, <1>8, <1>9 DEF Orderly

\* ... and every branch is accounted for, if the command's own are.
LEMMA StagePlaced ==
  ASSUME TypeOK, Orderly, Placed, NEW i \in Slots, Running(i), cmd[i].stage # "next",
         NEW q, cmd'[i].held = q, cmd'[i].deck = cmd[i].deck,
         \A j \in Slots \ {i} : cmd'[j] = cmd[j],
         \A j \in Slots : \A d : Holds(j, d)' <=> Holds(j, d),
         deck' = deck, CensusAgrees(graph'),
         OthersStay(graph, graph', cmd[i].deck), Seated(graph', cmd[i].deck, q)
  PROVE  Placed'
  <1> DEFINE d == cmd[i].deck
  <1>1. d \in Decks /\ Holds(i, d)
    BY RunningTyped DEF Holds
  <1>2. deck[d] = Nothing /\ \A j \in Slots : Holds(j, d) => j = i
    BY <1>1 DEF Orderly, Apart
  <1>3. \A e : e # d => /\ \A p : Seated(graph, e, p) => Seated(graph', e, p)
                        /\ Absent(graph, e) => Absent(graph', e)
    BY SeatedMoves
  <1>4. \A e \in Decks : deck'[e] # Nothing => Seated(graph', e, deck'[e])
    BY <1>2, <1>3 DEF Placed
  <1>5. \A j \in Slots, e \in Decks : Holds(j, e)' => Seated(graph', e, cmd'[j].held)
    <2> SUFFICES ASSUME NEW j \in Slots, NEW e \in Decks, Holds(j, e)
                 PROVE  Seated(graph', e, cmd'[j].held)
      OBVIOUS
    <2>1. CASE j = i
      BY <2>1 DEF Holds
    <2>2. CASE j # i
      <3>1. e # d
        BY <1>2, <2>2
      <3>2. Seated(graph, e, cmd[j].held)
        BY DEF Placed
      <3> QED BY <1>3, <2>2, <3>1, <3>2
    <2> QED BY <2>1, <2>2
  <1>6. \A e \in Decks : deck'[e] = Nothing /\ ~Detached(e)' => Absent(graph', e)
    BY <1>1, <1>3 DEF Placed, Detached
  <1> QED BY <1>4, <1>5, <1>6 DEF Placed

\* A pipeline that has everything is at rest in the map.
LEMMA DoneRests ==
  ASSUME NEW d, NEW p, Done(p)
  PROVE  AtRest(d, p)
  BY DEF Done, AtRest

\* A pipeline that has everything goes back to the map, where there was none.
LEMMA InsertOrderly ==
  ASSUME TypeOK, Orderly, NEW i \in Slots, Running(i), cmd[i].stage # "next",
         NEW q \in PipelineRec, Done(q), NEW g, g.target = graph.target,
         Insert(i, q, g), manager' = manager
  PROVE  /\ Orderly' /\ graph' = g /\ cmd[i].deck \in Decks
         /\ deck[cmd[i].deck] = Nothing /\ deck'[cmd[i].deck] = q
         /\ \A e \in Decks \ {cmd[i].deck} : deck'[e] = deck[e]
         /\ \A j \in Slots, e \in Decks :
              Holds(j, e)' <=> j # i /\ e # cmd[i].deck /\ Holds(j, e)
         /\ \A j \in Slots \ {i} : cmd'[j] = cmd[j]
  <1> DEFINE d == cmd[i].deck
             a == Advanced(cmd[i])
  <1>1. CmdOK(cmd[i]) /\ d \in Decks /\ Holds(i, d)
    BY RunningTyped DEF Holds
  <1>2. deck[d] = Nothing /\ \A j \in Slots : Holds(j, d) => j = i
    BY <1>1 DEF Orderly, Apart
  <1>3. graph' = g
    BY <1>2 DEF Insert, Dropped
  <1>4. deck' = [deck EXCEPT ![d] = q] /\ cmd' = [cmd EXCEPT ![i] = a]
    BY DEF Insert
  <1>5. deck'[d] = q /\ \A e \in Decks \ {d} : deck'[e] = deck[e]
    BY <1>1, <1>4 DEF TypeOK, DecksOK
  <1>6. cmd'[i] = a /\ \A j \in Slots \ {i} : cmd'[j] = cmd[j]
    BY <1>4 DEF TypeOK, CmdsOK
  <1>7. Staged(cmd[i]) /\ Informed(cmd[i])
    BY DEF Orderly
  <1>8. \/ a = Nothing /\ cmd[i].todo = {}
        \/ /\ a # Nothing /\ CmdOK(a) /\ a.stage = "next" /\ a.deck = Nothing /\ a.held = Nothing
           /\ a.op = cmd[i].op /\ a.todo = cmd[i].todo /\ a.main = cmd[i].main
           /\ a.cue = cmd[i].cue /\ a.op \notin {"load", "play", "pause"}
    BY <1>1, <1>7, AdvancedIs DEF Staged
  <1> HIDE DEF a, d
  <1>9. \A j \in Slots : Running(j)' => Running(j) /\ cmd'[j].op = cmd[j].op
    BY <1>6, <1>8 DEF Running
  <1>10. \A op, e : Awaits(op, e)' <=> Awaits(op, e)
    <2> TAKE op, e
    <2>1. \A j \in Slots \ {i} : Running(j)' <=> Running(j)
      BY <1>6 DEF Running
    <2>2. (Running(i) /\ cmd[i].op = op /\ e \in cmd[i].todo)
          <=> (Running(i)' /\ cmd'[i].op = op /\ e \in cmd'[i].todo)
      BY <1>6, <1>8 DEF Running
    <2> QED BY <1>6, <2>1, <2>2 DEF Awaits
  <1>11. \A j \in Slots, e \in Decks : Holds(j, e)' <=> j # i /\ e # d /\ Holds(j, e)
    <2> TAKE j \in Slots, e \in Decks
    <2>1. CASE j = i
      BY <1>6, <1>8, <2>1, NothingAssumption DEF Holds, Running
    <2>2. CASE j # i
      BY <1>2, <1>6, <2>2 DEF Holds, Running
    <2> QED BY <2>1, <2>2
  <1>12. Apart'
    BY <1>5, <1>9, <1>11 DEF Apart, Orderly
  <1>13. ASSUME NEW j \in Slots, Running(j)'
         PROVE  (Staged(cmd[j]) /\ Informed(cmd[j]))'
    <2>1. Running(j) /\ Staged(cmd[j]) /\ Informed(cmd[j])
      BY <1>9, <1>13 DEF Orderly
    <2>2. CASE j = i
      <3>1. a # Nothing
        BY <1>6, <1>13, <2>2 DEF Running
      <3>2. a.deck \notin a.todo
        BY <1>1, <1>8, <3>1, NothingAssumption DEF CmdOK, CmdRec
      <3>3. Staged(a)
        BY <1>7, <1>8, <3>1, <3>2 DEF Staged
      <3>4. Informed(cmd[j])'
        BY <1>6, <1>7, <1>8, <2>2, <3>1 DEF Informed
      <3> QED BY <1>6, <2>2, <3>3, <3>4 DEF Staged
    <2>3. CASE j # i
      <3>1. cmd'[j] = cmd[j]
        BY <1>6, <2>3
      <3> QED BY <2>1, <3>1 DEF Informed, Staged
    <2> QED BY <2>2, <2>3
  <1>14. ASSUME NEW e \in Decks, deck'[e] # Nothing
         PROVE  AtRest(e, deck[e])'
    <2>1. AtRest(e, deck'[e])
      <3>1. CASE e = d
        BY <1>5, <3>1, DoneRests
      <3>2. CASE e # d
        BY <1>5, <1>14, <3>2 DEF Orderly
      <3> QED BY <3>1, <3>2
    <2> QED BY <1>10, <2>1 DEF AtRest
  <1>15. ASSUME NEW j \in Slots, NEW e \in Decks, Holds(j, e)'
         PROVE  InHand(cmd[j], cmd[j].held)'
    <2>1. j # i /\ Holds(j, e) /\ cmd'[j] = cmd[j]
      BY <1>6, <1>11, <1>15
    <2>2. InHand(cmd[j], cmd[j].held)
      BY <2>1 DEF Orderly
    <2> QED BY <2>1, <2>2 DEF InHand
  <1>16. manager'.recording => graph'.target
    BY <1>3 DEF Orderly
  <1> QED BY <1>1, <1>2, <1>3, <1>5, <1>6, <1>11, <1>12, <1>13, <1>14, <1>15, <1>16
          DEF Orderly, d

\* ... and its branches are accounted for.
LEMMA InsertPlaced ==
  ASSUME TypeOK, Orderly, Placed, NEW i \in Slots, Running(i), cmd[i].stage # "next",
         NEW q \in PipelineRec, Done(q), NEW g, Moves(graph, g, cmd[i].deck, cmd[i].held, q, listening),
         Insert(i, q, g), manager' = manager
  PROVE  Orderly' /\ Placed'
  <1> DEFINE d == cmd[i].deck
  <1>1. g.target = graph.target
    BY DEF Moves, Steady
  <1>2. /\ Orderly' /\ graph' = g /\ d \in Decks
        /\ deck[d] = Nothing /\ deck'[d] = q
        /\ \A e \in Decks \ {d} : deck'[e] = deck[e]
        /\ \A j \in Slots, e \in Decks :
             Holds(j, e)' <=> j # i /\ e # d /\ Holds(j, e)
        /\ \A j \in Slots \ {i} : cmd'[j] = cmd[j]
    BY <1>1, InsertOrderly
  <1>3. Holds(i, d) /\ q # Nothing
    BY NoPipelineAssumption DEF Holds
  <1>4. Seated(graph, d, cmd[i].held) /\ CensusAgrees(graph)
    BY <1>2, <1>3 DEF Placed
  <1>5. Seated(g, d, q) /\ CensusAgrees(g) /\ OthersStay(graph, g, d)
    BY <1>4 DEF Moves
  <1>6. \A e : e # d => /\ \A p : Seated(graph, e, p) => Seated(g, e, p)
                        /\ Absent(graph, e) => Absent(g, e)
    BY <1>5, SeatedMoves
  <1>7. ASSUME NEW e \in Decks, deck'[e] # Nothing
        PROVE  Seated(g, e, deck'[e])
    <2>1. CASE e = d
      BY <1>2, <1>5, <2>1
    <2>2. CASE e # d
      BY <1>2, <1>6, <1>7, <2>2 DEF Placed
    <2> QED BY <2>1, <2>2
  <1>8. ASSUME NEW j \in Slots, NEW e \in Decks, Holds(j, e)'
        PROVE  Seated(g, e, cmd'[j].held)
    <2>1. j # i /\ e # d /\ Holds(j, e) /\ cmd'[j] = cmd[j]
      BY <1>2, <1>8
    <2> QED BY <1>6, <2>1 DEF Placed
  <1>9. ASSUME NEW e \in Decks, deck'[e] = Nothing, ~Detached(e)'
        PROVE  Absent(g, e)
    <2>1. e # d /\ deck[e] = Nothing
      BY <1>2, <1>3, <1>9
    <2>2. ~Detached(e)
      <3> SUFFICES ASSUME NEW j \in Slots, Holds(j, e)
                   PROVE  FALSE
        BY DEF Detached
      <3>1. j # i
        BY <2>1 DEF Holds
      <3>2. Holds(j, e)'
        BY <1>2, <2>1, <3>1
      <3> QED BY <1>9, <3>2 DEF Detached
    <2> QED BY <1>6, <2>1, <2>2 DEF Placed
  <1> HIDE DEF d
  <1> QED BY <1>2, <1>5, <1>7, <1>8, <1>9 DEF Placed

\* The commands that share the time with play and pause only.
Alone(op) == op \in {"devices", "cue", "stop"}
Brief(op) == op \in {"play", "pause"}

\* A command takes a deck that no other has.
LEMMA TakeInv ==
  ASSUME TypeOK, Orderly, Placed, NEW i \in Slots, NEW d \in Decks, NEW b \in CmdRec,
         b.deck = d, b.held \in PipelineRec,
         cmd' = [cmd EXCEPT ![i] = b], deck' = [deck EXCEPT ![d] = Nothing],
         graph' = graph, manager' = manager,
         ~Detached(d),
         Running(i) => /\ b.op = cmd[i].op /\ cmd[i].todo \subseteq b.todo \cup {d}
                       /\ cmd[i].stage = "next",
         Staged(b), Informed(b), InHand(b, b.held), Seated(graph, d, b.held),
         \A j \in Slots \ {i} : Running(j) => /\ Alone(b.op) => Brief(cmd[j].op)
                                              /\ Alone(cmd[j].op) => Brief(b.op)
  PROVE  Orderly' /\ Placed'
  <1>1. /\ cmd'[i] = b /\ b # Nothing /\ \A j \in Slots \ {i} : cmd'[j] = cmd[j]
        /\ deck'[d] = Nothing /\ \A e \in Decks \ {d} : deck'[e] = deck[e]
    <2>1. b # Nothing
      BY NoCommandAssumption
    <2>2. cmd'[i] = b /\ \A j \in Slots \ {i} : cmd'[j] = cmd[j]
      BY DEF TypeOK, CmdsOK
    <2>3. deck'[d] = Nothing /\ \A e \in Decks \ {d} : deck'[e] = deck[e]
      BY DEF TypeOK, DecksOK
    <2> QED BY <2>1, <2>2, <2>3
  <1>2. \A e \in Decks : ~Holds(i, e)
    <2> SUFFICES ASSUME NEW e \in Decks, Holds(i, e)
                 PROVE  FALSE
      OBVIOUS
    <2>1. Running(i) /\ cmd[i].deck = e /\ cmd[i].stage = "next"
      BY DEF Holds
    <2>2. cmd[i].deck = Nothing
      BY <2>1 DEF Orderly, Staged
    <2> QED BY <2>1, <2>2, NothingAssumption
  <1>3. \A j \in Slots, e \in Decks :
          Holds(j, e)' <=> (j = i /\ e = d) \/ (j # i /\ e # d /\ Holds(j, e))
    <2> TAKE j \in Slots, e \in Decks
    <2>1. CASE j = i
      BY <1>1, <2>1 DEF Holds, Running
    <2>2. CASE j # i
      BY <1>1, <2>2 DEF Holds, Running, Detached
    <2> QED BY <2>1, <2>2
  <1>4. \A op, e : Awaits(op, e) /\ e # d => Awaits(op, e)'
    <2> SUFFICES ASSUME NEW op, NEW e, e # d,
                        NEW j \in Slots, Running(j), cmd[j].op = op, e \in cmd[j].todo
                 PROVE  Running(j)' /\ cmd'[j].op = op /\ e \in cmd'[j].todo
      BY DEF Awaits
    <2>1. CASE j = i
      BY <1>1, <2>1 DEF Running
    <2>2. CASE j # i
      BY <1>1, <2>2 DEF Running
    <2> QED BY <2>1, <2>2
  <1>5. \A j \in Slots \ {i} : Running(j)' <=> Running(j)
    BY <1>1 DEF Running
  <1>6. Apart'
    <2>1. \A j \in Slots, e \in Decks : Holds(j, e)' => deck'[e] = Nothing
      BY <1>1, <1>3 DEF Apart, Orderly
    <2>2. \A j, k \in Slots, e \in Decks : Holds(j, e)' /\ Holds(k, e)' => j = k
      BY <1>3 DEF Apart, Orderly
    <2>3. ASSUME NEW j \in Slots, NEW k \in Slots, Running(j)', Running(k)', j # k,
                 Alone(cmd'[j].op)
          PROVE  Brief(cmd'[k].op)
      <3>1. CASE j = i
        BY <1>1, <1>5, <2>3, <3>1
      <3>2. CASE k = i
        BY <1>1, <1>5, <2>3, <3>2
      <3>3. CASE j # i /\ k # i
        BY <1>1, <1>5, <2>3, <3>3 DEF Apart, Orderly, Alone, Brief
      <3> QED BY <3>1, <3>2, <3>3
    <2> QED BY <2>1, <2>2, <2>3 DEF Apart, Alone, Brief
  <1>7. ASSUME NEW j \in Slots, Running(j)'
        PROVE  (Staged(cmd[j]) /\ Informed(cmd[j]))'
    <2>1. CASE j = i
      BY <1>1, <2>1 DEF Staged, Informed
    <2>2. CASE j # i
      <3>1. Running(j) /\ cmd'[j] = cmd[j]
        BY <1>1, <1>5, <1>7, <2>2
      <3>2. Staged(cmd[j]) /\ Informed(cmd[j])
        BY <3>1 DEF Orderly
      <3> QED BY <3>1, <3>2 DEF Staged, Informed
    <2> QED BY <2>1, <2>2
  <1>8. ASSUME NEW e \in Decks, deck'[e] # Nothing
        PROVE  AtRest(e, deck[e])' /\ Seated(graph, e, deck'[e])
    <2>1. e # d /\ deck'[e] = deck[e] /\ AtRest(e, deck[e]) /\ Seated(graph, e, deck[e])
      BY <1>1, <1>8 DEF Orderly, Placed
    <2>2. \A op : Awaits(op, e) => Awaits(op, e)'
      BY <1>4, <2>1
    <2> QED BY <2>1, <2>2 DEF AtRest
  <1>9. ASSUME NEW j \in Slots, NEW e \in Decks, Holds(j, e)'
        PROVE  InHand(cmd[j], cmd[j].held)' /\ Seated(graph, e, cmd'[j].held)
    <2>1. CASE j = i
      <3>1. e = d /\ cmd'[j] = b
        BY <1>1, <1>3, <1>9, <2>1
      <3> QED BY <3>1 DEF InHand
    <2>2. CASE j # i
      <3>1. Holds(j, e) /\ cmd'[j] = cmd[j]
        BY <1>1, <1>3, <1>9, <2>2
      <3>2. InHand(cmd[j], cmd[j].held) /\ Seated(graph, e, cmd[j].held)
        BY <3>1 DEF Orderly, Placed
      <3> QED BY <3>1, <3>2 DEF InHand
    <2> QED BY <2>1, <2>2
  <1>10. ASSUME NEW e \in Decks, deck'[e] = Nothing, ~Detached(e)'
         PROVE  Absent(graph, e)
    <2>1. e # d
      BY <1>3, <1>10 DEF Detached
    <2>2. ~Detached(e) /\ deck[e] = Nothing
      BY <1>1, <1>2, <1>3, <1>10, <2>1 DEF Detached
    <2> QED BY <2>2 DEF Placed
  <1>11. manager'.recording => graph'.target
    BY DEF Orderly
  <1>12. Orderly'
    BY <1>6, <1>7, <1>8, <1>9, <1>11 DEF Orderly
  <1> QED BY <1>8, <1>9, <1>10, <1>12 DEF Placed

\* A command passes over a deck that is not in the map, or ends between two decks.
LEMMA LeaveInv ==
  ASSUME TypeOK, Orderly, Placed, NEW i \in Slots, Running(i), cmd[i].stage = "next", NEW a,
         \/ a = Nothing
         \/ /\ CmdOK(a) /\ a.op = cmd[i].op /\ a.stage = "next" /\ a.deck = Nothing
            /\ a.main = cmd[i].main /\ a.cue = cmd[i].cue,
         \A e \in Decks : deck[e] # Nothing /\ e \in cmd[i].todo
                          => a # Nothing /\ e \in a.todo,
         cmd' = [cmd EXCEPT ![i] = a], deck' = deck, manager' = manager,
         manager.recording => graph'.target,
         CensusAgrees(graph'),
         \A e \in Decks : Absent(graph, e) => Absent(graph', e),
         \A e \in Decks : deck[e] # Nothing => Seated(graph', e, deck[e]),
         \A j \in Slots, e \in Decks : Holds(j, e) => Seated(graph', e, cmd[j].held)
  PROVE  Orderly' /\ Placed'
  <1>1. cmd'[i] = a /\ \A j \in Slots \ {i} : cmd'[j] = cmd[j]
    BY DEF TypeOK, CmdsOK
  <1>2. Staged(cmd[i]) /\ Informed(cmd[i]) /\ cmd[i].deck = Nothing
    BY DEF Orderly, Staged
  <1>3. \A j \in Slots : \A e \in Decks : Holds(j, e)' <=> Holds(j, e)
    <2> TAKE j \in Slots
    <2> TAKE e \in Decks
    <2>1. CASE j = i
      BY <1>1, <1>2, <2>1, NothingAssumption DEF Holds, Running
    <2>2. CASE j # i
      BY <1>1, <2>2 DEF Holds, Running
    <2> QED BY <2>1, <2>2
  <1>4. \A j \in Slots, e \in Decks : Holds(j, e) => j # i /\ cmd'[j] = cmd[j]
    BY <1>1, <1>2, NothingAssumption DEF Holds
  <1>5. \A j \in Slots : Running(j)' => Running(j) /\ cmd'[j].op = cmd[j].op
    BY <1>1 DEF Running
  <1>6. \A op : \A e \in Decks : deck[e] # Nothing /\ Awaits(op, e) => Awaits(op, e)'
    <2> SUFFICES ASSUME NEW op, NEW e \in Decks, deck[e] # Nothing,
                        NEW j \in Slots, Running(j), cmd[j].op = op, e \in cmd[j].todo
                 PROVE  Running(j)' /\ cmd'[j].op = op /\ e \in cmd'[j].todo
      BY DEF Awaits
    <2>1. CASE j = i
      BY <1>1, <2>1 DEF Running
    <2>2. CASE j # i
      BY <1>1, <2>2 DEF Running
    <2> QED BY <2>1, <2>2
  <1>7. Apart'
    BY <1>3, <1>5 DEF Apart, Orderly
  <1>8. ASSUME NEW j \in Slots, Running(j)'
        PROVE  (Staged(cmd[j]) /\ Informed(cmd[j]))'
    <2>1. CASE j = i
      <3>1. a # Nothing
        BY <1>1, <1>8, <2>1 DEF Running
      <3>2. a.deck \notin a.todo
        BY <3>1, NothingAssumption DEF CmdOK, CmdRec
      <3>3. Staged(a)
        BY <1>2, <3>1, <3>2 DEF Staged
      <3>4. Informed(cmd[j])'
        BY <1>1, <1>2, <2>1, <3>1 DEF Informed
      <3> QED BY <1>1, <2>1, <3>3, <3>4 DEF Staged
    <2>2. CASE j # i
      <3>1. Running(j) /\ cmd'[j] = cmd[j]
        BY <1>1, <1>5, <1>8, <2>2
      <3>2. Staged(cmd[j]) /\ Informed(cmd[j])
        BY <3>1 DEF Orderly
      <3> QED BY <3>1, <3>2 DEF Staged, Informed
    <2> QED BY <2>1, <2>2
  <1>9. ASSUME NEW e \in Decks, deck[e] # Nothing
        PROVE  AtRest(e, deck[e])'
    <2>1. AtRest(e, deck[e]) /\ \A op : Awaits(op, e) => Awaits(op, e)'
      BY <1>6, <1>9 DEF Orderly
    <2> QED BY <2>1 DEF AtRest
  <1>10. ASSUME NEW j \in Slots, NEW e \in Decks, Holds(j, e)
         PROVE  InHand(cmd[j], cmd[j].held)' /\ Seated(graph', e, cmd'[j].held)
    <2>1. InHand(cmd[j], cmd[j].held) /\ cmd'[j] = cmd[j] /\ Seated(graph', e, cmd[j].held)
      BY <1>4, <1>10 DEF Orderly
    <2> QED BY <2>1 DEF InHand
  <1>11. \A e \in Decks : Detached(e)' <=> Detached(e)
    BY <1>3 DEF Detached
  <1>12. Orderly'
    BY <1>3, <1>7, <1>8, <1>9, <1>10 DEF Orderly
  <1>13. Placed'
    BY <1>3, <1>10, <1>11 DEF Placed
  <1> QED BY <1>12, <1>13

\* A command whose deck is out has it as the invariants say.
LEMMA HeldIs ==
  ASSUME TypeOK, Orderly, Placed, NEW i \in Slots, Running(i), cmd[i].stage # "next"
  PROVE  /\ CmdOK(cmd[i]) /\ cmd[i].deck \in Decks /\ cmd[i].held \in PipelineRec
         /\ Holds(i, cmd[i].deck) /\ Staged(cmd[i]) /\ Informed(cmd[i])
         /\ InHand(cmd[i], cmd[i].held) /\ Seated(graph, cmd[i].deck, cmd[i].held)
         /\ CensusAgrees(graph) /\ GraphOK(graph) /\ listening \in BOOLEAN
  <1>1. CmdOK(cmd[i]) /\ cmd[i].deck \in Decks /\ cmd[i].held \in PipelineRec
    BY RunningTyped
  <1>2. Holds(i, cmd[i].deck)
    BY DEF Holds
  <1> QED BY <1>1, <1>2 DEF Orderly, Placed, TypeOK

\* A rebuild, or a pipeline that has nothing to rebuild.
LEMMA LoadsInv ==
  ASSUME Events = {}, TypeOK, Orderly, Placed, NEW i \in Slots, Loads(i)
  PROVE  Orderly' /\ Placed'
  <1> DEFINE c == cmd[i]
             d == c.deck
             p == Retargeted(c)
  <1>1. /\ Running(i) /\ c.stage = "load" /\ p \in PipelineRec
        /\ UNCHANGED <<listening, refreshes, manager>>
        /\ \/ c.op # "load" /\ ~p.file /\ Insert(i, p, graph)
           \/ /\ c.op = "load" \/ p.file
              /\ UNCHANGED deck
              /\ \E prerolls \in {TRUE} \cup {"prerollFails" \notin Events} :
                   LET r == Rebuild(graph, c.deck, p, listening, prerolls) IN
                   /\ graph' = r.graph
                   /\ cmd' = [cmd EXCEPT ![i].held = r.pipeline,
                                ![i].stage = IF prerolls THEN "rejoin" ELSE "insert"]
    BY LoadsIs
  <1>2. /\ CmdOK(c) /\ d \in Decks /\ c.held \in PipelineRec
        /\ Staged(c) /\ Informed(c) /\ InHand(c, c.held) /\ Seated(graph, d, c.held)
        /\ CensusAgrees(graph) /\ GraphOK(graph) /\ listening \in BOOLEAN
    BY <1>1, HeldIs
  <1>3. /\ p.file = c.held.file /\ p.inner = c.held.inner
        /\ p.playing = c.held.playing /\ p.keys = c.held.keys /\ p.latency = c.held.latency
        /\ p.tap = c.held.tap /\ p.recording = c.held.recording
        /\ p.devices = IF c.op = "devices" THEN c.main ELSE c.held.devices
        /\ p.cue = IF c.op = "cue" THEN c.cue ELSE c.held.cue
    BY <1>1, <1>2, RetargetedIs
  <1> HIDE DEF p
  <1>4. /\ p.devices = manager.main /\ p.cue = manager.cue
        /\ c.op \in {"load", "devices", "cue"}
    BY <1>1, <1>2, <1>3 DEF InHand, Informed, Staged, CmdOK, CmdRec, Ops
  <1>5. Whole(p) /\ (p.file <=> Loaded(p)) /\ (Loaded(p) <=> Loaded(c.held))
    BY <1>1, <1>2, <1>3 DEF InHand, Whole, Loaded
  <1>6. CASE c.op # "load" /\ ~p.file /\ Insert(i, p, graph)
    <2>1. Done(p)
      BY <1>1, <1>2, <1>3, <1>4, <1>5, <1>6 DEF InHand, InTune, Done, Loaded
    <2>2. Seated(graph, d, p)
      <3>1. p.keys = {} /\ c.held.keys = {}
        BY <1>3, <1>5, <1>6 DEF Whole
      <3> QED BY <1>2, <3>1 DEF Seated
    <2>3. Moves(graph, graph, d, c.held, p, listening)
      BY <1>2, <2>2, SteadyNone DEF Moves, OthersStay
    <2>4. c.stage # "next" /\ manager' = manager
      BY <1>1
    <2> QED BY <1>1, <1>6, <2>1, <2>3, <2>4, InsertPlaced
  <1>7. CASE /\ c.op = "load" \/ p.file
             /\ UNCHANGED deck
             /\ \E prerolls \in {TRUE} \cup {"prerollFails" \notin Events} :
                  LET r == Rebuild(graph, c.deck, p, listening, prerolls) IN
                  /\ graph' = r.graph
                  /\ cmd' = [cmd EXCEPT ![i].held = r.pipeline,
                               ![i].stage = IF prerolls THEN "rejoin" ELSE "insert"]
    <2> DEFINE r == Rebuild(graph, d, p, listening, TRUE)
               q == r.pipeline
    <2>1. graph' = r.graph /\ cmd' = [cmd EXCEPT ![i].held = q, ![i].stage = "rejoin"]
      BY <1>7
    <2>2. Single(graph, d) /\ \A e : \A n \in Nodes : At(graph, n, d, e) => e \in p.keys
      BY <1>2, <1>3, SeatedSingle
    <2>3. /\ q \in PipelineRec /\ Same(p, q) /\ q.recording = p.recording /\ q.file /\ ~q.tap
          /\ q.inner = "paused" /\ Whole(q)
          /\ Steady(graph, r.graph, listening)
          /\ OthersStay(graph, r.graph, d) /\ Seated(r.graph, d, q)
          /\ CensusAgrees(graph) => CensusAgrees(r.graph)
      <3>1. ASSUME NEW prerolls \in BOOLEAN, prerolls = TRUE
            PROVE  LET a == Rebuild(graph, d, p, listening, prerolls)
                       b == a.pipeline IN
                   /\ b \in PipelineRec /\ Same(p, b) /\ b.recording = p.recording
                   /\ b.file /\ ~b.tap /\ b.inner = "paused" /\ Whole(b)
                   /\ Steady(graph, a.graph, listening)
                   /\ OthersStay(graph, a.graph, d) /\ Seated(a.graph, d, b)
                   /\ CensusAgrees(graph) => CensusAgrees(a.graph)
        <4> DEFINE a == Rebuild(graph, d, p, listening, prerolls)
                   b == a.pipeline
        <4>1. /\ b \in PipelineRec /\ Same(p, b) /\ b.recording = p.recording /\ b.file /\ ~b.tap
              /\ b.inner = IF prerolls THEN "paused" ELSE "none"
              /\ Steady(graph, a.graph, listening)
              /\ prerolls => Whole(b)
              /\ prerolls /\ Single(graph, d)
                 /\ (\A e : \A n \in Nodes : At(graph, n, d, e) => e \in p.keys)
                 => /\ OthersStay(graph, a.graph, d) /\ Seated(a.graph, d, b)
                    /\ CensusAgrees(graph) => CensusAgrees(a.graph)
          BY <1>1, <1>2, RebuildIs
        <4> HIDE DEF a, b
        <4> QED BY <2>2, <3>1, <4>1 DEF a, b
      <3> QED BY <3>1
    <2> HIDE DEF r, q, d
    <2>4. c.stage # "next" /\ manager' = manager /\ deck' = deck
      BY <1>1, <1>7
    <2>5. Turned(i, q, "rejoin")
      BY <1>1, <2>1, <2>3, <2>4, StageTyped
    <2>6. InHand(cmd'[i], q)
      BY <1>2, <1>3, <1>4, <1>5, <1>7, <2>3, <2>5 DEF InHand, Turned, Same, Loaded
    <2>7. Staged(cmd'[i])
      <3>1. cmd'[i].deck \notin cmd'[i].todo
        BY <1>2, <2>5 DEF Staged, Turned
      <3> QED BY <1>2, <1>4, <2>5, <3>1 DEF Staged, Turned
    <2>8. graph'.target = graph.target /\ CensusAgrees(graph')
          /\ OthersStay(graph, graph', cmd[i].deck) /\ Seated(graph', cmd[i].deck, q)
      BY <1>2, <2>1, <2>3 DEF Steady, d
    <2>9. /\ Orderly'
          /\ \A j \in Slots : \A e : Holds(j, e)' <=> Holds(j, e)
          /\ cmd'[i].held = q /\ cmd'[i].deck = cmd[i].deck
          /\ \A j \in Slots \ {i} : cmd'[j] = cmd[j]
      BY <1>1, <2>3, <2>4, <2>5, <2>6, <2>7, <2>8, StageOrderly
    <2>10. Placed'
      BY <1>1, <2>4, <2>8, <2>9, StagePlaced
    <2> QED BY <2>9, <2>10
  <1> QED BY <1>1, <1>6, <1>7

\* The record tap, at the end of load.
LEMMA RejoinsInv ==
  ASSUME Events = {}, TypeOK, Orderly, Placed, NEW i \in Slots, Rejoins(i)
  PROVE  Orderly' /\ Placed'
  <1> DEFINE c == cmd[i]
             d == c.deck
             p == c.held
             r == Rejoin(graph, d, p, listening)
             q == r.pipeline
             s == IF c.op = "load" THEN "check" ELSE "insert"
  <1>1. Running(i) /\ c.stage = "rejoin" /\ c.stage # "next"
    BY DEF Rejoins
  <1>2. /\ CmdOK(c) /\ d \in Decks /\ p \in PipelineRec
        /\ Staged(c) /\ Informed(c) /\ InHand(c, p) /\ Seated(graph, d, p)
        /\ CensusAgrees(graph) /\ GraphOK(graph) /\ listening \in BOOLEAN
    BY <1>1, HeldIs
  <1>3. /\ graph' = r.graph /\ cmd' = [cmd EXCEPT ![i].held = q, ![i].stage = s]
        /\ UNCHANGED <<listening, refreshes, manager, deck>>
    BY DEF Rejoins
  <1>4. /\ q \in PipelineRec /\ Same(p, q) /\ q.file = p.file /\ q.inner = p.inner
        /\ Steady(graph, r.graph, listening)
        /\ q.recording => p.recording
        /\ Whole(p) /\ ~p.tap => Whole(q) /\ Moves(graph, r.graph, d, p, q, listening)
        /\ Loaded(p) /\ p.recording /\ graph.target => q.tap
    BY <1>2, RejoinIs
  <1>5. s = "check" \/ s = "insert"
    OBVIOUS
  <1>6. c.op \in {"load", "devices", "cue"} /\ (s = "insert" <=> c.op # "load")
    BY <1>1, <1>2 DEF Staged, CmdOK, CmdRec, Ops
  <1> HIDE DEF r, q, s
  <1>7. Whole(q) /\ Moves(graph, r.graph, d, p, q, listening)
    BY <1>1, <1>2, <1>4 DEF InHand
  <1>8. CensusAgrees(graph') /\ OthersStay(graph, graph', d) /\ Seated(graph', d, q)
        /\ graph'.target = graph.target
    BY <1>2, <1>3, <1>4, <1>7 DEF Moves, Steady
  <1>9. Turned(i, q, s)
    BY <1>1, <1>3, <1>4, <1>5, StageTyped
  <1>10. manager.recording => graph.target
    BY DEF Orderly
  <1>11. InHand(cmd'[i], q)
    <2>1. Loaded(q) <=> Loaded(p)
      BY <1>4 DEF Loaded
    <2>2. manager.recording /\ Loaded(q) /\ c.op \in {"devices", "cue"} => q.tap /\ q.recording
      BY <1>2, <1>4, <1>7, <1>10, <2>1 DEF InHand, Whole
    <2> QED BY <1>1, <1>2, <1>4, <1>5, <1>6, <1>7, <1>9, <2>1, <2>2 DEF InHand, Turned, Same
  <1>12. Staged(cmd'[i])
    <2>1. cmd'[i].deck \notin cmd'[i].todo
      BY <1>2, <1>9 DEF Staged, Turned
    <2> QED BY <1>2, <1>5, <1>6, <1>9, <2>1 DEF Staged, Turned
  <1>13. /\ Orderly'
         /\ \A j \in Slots : \A e : Holds(j, e)' <=> Holds(j, e)
         /\ cmd'[i].held = q /\ cmd'[i].deck = cmd[i].deck
         /\ \A j \in Slots \ {i} : cmd'[j] = cmd[j]
    BY <1>1, <1>3, <1>4, <1>5, <1>8, <1>9, <1>11, <1>12, StageOrderly
  <1>14. Placed'
    BY <1>1, <1>3, <1>8, <1>13, StagePlaced
  <1> QED BY <1>13, <1>14

\* audio_load's look for a recording.
LEMMA ChecksInv ==
  ASSUME Events = {}, TypeOK, Orderly, Placed, NEW i \in Slots, ChecksRecording(i)
  PROVE  Orderly' /\ Placed'
  <1> DEFINE c == cmd[i]
             d == c.deck
             p == c.held
             r == AttachRecord(graph, d, p, listening)
             q == IF manager.recording THEN r.pipeline ELSE p
  <1>1. Running(i) /\ c.stage = "check" /\ c.stage # "next"
    BY DEF ChecksRecording
  <1>2. /\ CmdOK(c) /\ d \in Decks /\ p \in PipelineRec
        /\ Staged(c) /\ Informed(c) /\ InHand(c, p) /\ Seated(graph, d, p)
        /\ CensusAgrees(graph) /\ GraphOK(graph) /\ listening \in BOOLEAN
    BY <1>1, HeldIs
  <1>3. /\ graph' = (IF manager.recording THEN r.graph ELSE graph)
        /\ UNCHANGED <<listening, refreshes, manager, deck>>
    BY DEF ChecksRecording
  <1>4. cmd' = [cmd EXCEPT ![i].held = q, ![i].stage = "insert"]
    BY DEF ChecksRecording, TypeOK, CmdsOK
  <1>5. /\ r.pipeline \in PipelineRec /\ Same(p, r.pipeline) /\ r.pipeline.file = p.file
        /\ r.pipeline.inner = p.inner
        /\ Whole(p) => Whole(r.pipeline)
        /\ (p.tap <=> "record" \in p.keys) => Moves(graph, r.graph, d, p, r.pipeline, listening)
        /\ Loaded(p) /\ graph.target => r.pipeline.tap
    BY <1>2, AttachRecordIs
  <1>6. c.op = "load"
    BY <1>1, <1>2 DEF Staged, CmdOK, CmdRec, Ops
  <1> HIDE DEF r
  <1>7. manager.recording => graph.target
    BY DEF Orderly
  <1>8. /\ q \in PipelineRec /\ Same(p, q) /\ q.file = p.file /\ q.inner = p.inner /\ Whole(q)
        /\ manager.recording /\ Loaded(p) => q.tap
        /\ q.recording => manager.recording
        /\ Moves(graph, graph', d, p, q, listening)
    <2>1. Whole(p) /\ (p.recording => manager.recording)
      BY <1>2, <1>6 DEF InHand
    <2>2. CASE manager.recording
      BY <1>3, <1>5, <1>7, <2>1, <2>2 DEF Whole
    <2>3. CASE ~manager.recording
      <3>1. q = p /\ graph' = graph
        BY <1>3, <2>3
      <3> HIDE DEF q
      <3> QED BY <1>2, <2>1, <2>3, <3>1, SteadyNone DEF Moves, OthersStay, Same
    <2> QED BY <2>2, <2>3
  <1> HIDE DEF q
  <1>9. CensusAgrees(graph') /\ OthersStay(graph, graph', d) /\ Seated(graph', d, q)
        /\ graph'.target = graph.target
    BY <1>2, <1>8 DEF Moves, Steady
  <1>10. Turned(i, q, "insert")
    BY <1>1, <1>4, <1>8, StageTyped
  <1>11. InHand(cmd'[i], q)
    <2>1. Loaded(q) <=> Loaded(p)
      BY <1>8 DEF Loaded
    <2> QED BY <1>1, <1>2, <1>6, <1>8, <1>10, <2>1 DEF InHand, Turned, Same
  <1>12. Staged(cmd'[i])
    <2>1. cmd'[i].deck \notin cmd'[i].todo
      BY <1>2, <1>10 DEF Staged, Turned
    <2> QED BY <1>2, <1>6, <1>10, <2>1 DEF Staged, Turned
  <1>13. /\ Orderly'
         /\ \A j \in Slots : \A e : Holds(j, e)' <=> Holds(j, e)
         /\ cmd'[i].held = q /\ cmd'[i].deck = cmd[i].deck
         /\ \A j \in Slots \ {i} : cmd'[j] = cmd[j]
    BY <1>1, <1>3, <1>8, <1>9, <1>10, <1>11, <1>12, StageOrderly
  <1>14. Placed'
    BY <1>1, <1>3, <1>9, <1>13, StagePlaced
  <1> QED BY <1>13, <1>14

\* A pipeline goes back after a load or a device change.
LEMMA InsertsInv ==
  ASSUME Events = {}, TypeOK, Orderly, Placed, NEW i \in Slots, Inserts(i)
  PROVE  Orderly' /\ Placed'
  <1> DEFINE c == cmd[i]
             d == c.deck
             p == c.held
             q == Resume(p)
  <1>1. Running(i) /\ c.stage = "insert" /\ c.stage # "next" /\ manager' = manager
    BY DEF Inserts
  <1>2. /\ CmdOK(c) /\ d \in Decks /\ p \in PipelineRec
        /\ Staged(c) /\ Informed(c) /\ InHand(c, p) /\ Seated(graph, d, p)
        /\ CensusAgrees(graph) /\ GraphOK(graph) /\ listening \in BOOLEAN
    BY <1>1, HeldIs
  <1>3. c.op \in {"load", "devices", "cue"}
    BY <1>1, <1>2 DEF Staged, CmdOK, CmdRec, Ops
  <1>4. CASE c.op = "load"
    <2>1. Insert(i, p, graph)
      BY <1>4 DEF Inserts
    <2>2. Done(p)
      BY <1>1, <1>2, <1>4 DEF InHand, Done, InTune
    <2>3. Moves(graph, graph, d, p, p, listening)
      BY <1>2, SteadyNone DEF Moves, OthersStay
    <2> QED BY <1>1, <1>2, <2>1, <2>2, <2>3, InsertPlaced
  <1>5. CASE c.op # "load"
    <2>1. Insert(i, q, graph)
      BY <1>5 DEF Inserts
    <2>2. /\ q \in PipelineRec /\ q.file = p.file /\ q.devices = p.devices /\ q.cue = p.cue
          /\ q.keys = p.keys /\ q.latency = p.latency /\ q.tap = p.tap
          /\ q.recording = p.recording
          /\ Loaded(q) <=> Loaded(p)
          /\ p.inner # "playing" /\ Loaded(q) => (q.inner = "playing" <=> q.playing)
      BY <1>2, ResumeIs
    <2> HIDE DEF q
    <2>3. Moves(graph, graph, d, p, q, listening) /\ (Whole(p) => Whole(q))
      BY <1>2, <2>2, PlayedIs
    <2>4. Done(q)
      BY <1>1, <1>2, <1>3, <1>5, <2>2, <2>3 DEF InHand, Done, InTune
    <2> QED BY <1>1, <2>1, <2>2, <2>3, <2>4, InsertPlaced
  <1> QED BY <1>4, <1>5

\* Play, pause, and the deck's part of a recording's start and end.
LEMMA WorksInv ==
  ASSUME Events = {}, TypeOK, Orderly, Placed, NEW i \in Slots, Works(i)
  PROVE  Orderly' /\ Placed'
  <1> DEFINE c == cmd[i]
             d == c.deck
             p == c.held
             a == AttachRecord(graph, d, p, listening)
             b == DetachRecord(graph, d, p, listening)
  <1>1. Running(i) /\ c.stage = "work" /\ c.stage # "next" /\ manager' = manager
    BY DEF Works
  <1>2. /\ CmdOK(c) /\ d \in Decks /\ p \in PipelineRec
        /\ Staged(c) /\ Informed(c) /\ InHand(c, p) /\ Seated(graph, d, p)
        /\ CensusAgrees(graph) /\ GraphOK(graph) /\ listening \in BOOLEAN
    BY <1>1, HeldIs
  <1>3. c.op \in {"play", "pause", "start", "stop"}
    BY <1>1, <1>2 DEF Staged, CmdOK, CmdRec, Ops
  <1>4. manager.recording => graph.target
    BY DEF Orderly
  <1>5. ASSUME NEW q, q = Play(p) \/ q = Pause(p), c.op \in {"play", "pause"},
               Insert(i, q, graph)
        PROVE  Orderly' /\ Placed'
    <2>1. /\ q \in PipelineRec /\ q.file = p.file /\ q.devices = p.devices /\ q.cue = p.cue
          /\ q.keys = p.keys /\ q.latency = p.latency /\ q.tap = p.tap
          /\ q.recording = p.recording
          /\ Loaded(q) <=> Loaded(p)
          /\ Loaded(q) => (q.inner = "playing" <=> q.playing)
      BY <1>2, <1>5, PlayPauseAre
    <2>2. Moves(graph, graph, d, p, q, listening) /\ (Whole(p) => Whole(q))
      BY <1>2, <2>1, PlayedIs
    <2>3. Done(q)
      BY <1>1, <1>2, <1>5, <2>1, <2>2 DEF InHand, Done, InTune
    <2> QED BY <1>1, <1>5, <2>1, <2>2, <2>3, InsertPlaced
  <1>6. CASE c.op = "play"
    BY <1>5, <1>6 DEF Works
  <1>7. CASE c.op = "pause"
    BY <1>5, <1>7 DEF Works
  <1>8. CASE c.op = "start"
    <2>1. Insert(i, a.pipeline, a.graph)
      BY <1>8 DEF Works
    <2>2. PICK q : q = a.pipeline
      OBVIOUS
    <2>3. /\ q \in PipelineRec /\ Same(p, q) /\ q.file = p.file /\ q.inner = p.inner
          /\ Whole(p) => Whole(q)
          /\ (p.tap <=> "record" \in p.keys) => Moves(graph, a.graph, d, p, q, listening)
          /\ Loaded(p) /\ graph.target => q.tap
      BY <1>2, <2>2, AttachRecordIs
    <2> HIDE DEF a
    <2>4. Whole(p) /\ manager.recording
      BY <1>2, <1>8 DEF InHand, Informed
    <2>5. Done(q)
      BY <1>1, <1>2, <1>4, <1>8, <2>3, <2>4 DEF InHand, Done, InTune, Same, Loaded
    <2>6. Moves(graph, a.graph, d, p, q, listening)
      BY <2>3, <2>4 DEF Whole
    <2> QED BY <1>1, <2>1, <2>2, <2>3, <2>5, <2>6, InsertPlaced
  <1>9. CASE c.op = "stop"
    <2>1. Insert(i, b.pipeline, b.graph)
      BY <1>9 DEF Works
    <2>2. PICK q : q = b.pipeline
      OBVIOUS
    <2>3. /\ q \in PipelineRec /\ Same(p, q) /\ q.file = p.file /\ q.inner = p.inner
          /\ ~q.recording
          /\ Whole(p) => Whole(q) /\ ~q.tap /\ Moves(graph, b.graph, d, p, q, listening)
      BY <1>2, <2>2, DetachRecordIs
    <2> HIDE DEF b
    <2>4. Whole(p) /\ ~manager.recording
      BY <1>2, <1>9 DEF InHand, Informed
    <2>5. Done(q)
      BY <1>1, <1>2, <1>9, <2>3, <2>4 DEF InHand, Done, InTune, Same, Loaded
    <2> QED BY <1>1, <2>1, <2>2, <2>3, <2>4, <2>5, InsertPlaced
  <1> QED BY <1>3, <1>6, <1>7, <1>8, <1>9

\* A deck in the map has everything it can have, when no command on a list waits for it.
LEMMA RestIsDone ==
  ASSUME TypeOK, Orderly, Placed, NEW d \in Decks, deck[d] # Nothing
  PROVE  /\ AtRest(d, deck[d]) /\ Seated(graph, d, deck[d]) /\ deck[d] \in PipelineRec
         /\ ~Detached(d)
         /\ ~Awaited(d) => Done(deck[d])
  <1>1. AtRest(d, deck[d]) /\ Seated(graph, d, deck[d]) /\ deck[d] \in PipelineRec
    BY DEF Orderly, Placed, TypeOK, DecksOK
  <1>2. ~Detached(d)
    BY DEF Orderly, Apart, Detached
  <1>3. ~Awaited(d) => \A op : ~Awaits(op, d)
    BY DEF Awaited, Awaits
  <1> QED BY <1>1, <1>2, <1>3 DEF AtRest, Done

\* The next deck of a list.
LEMMA TakeNextInv ==
  ASSUME Events = {}, TypeOK, Orderly, Placed, NEW i \in Slots, TakeNext(i)
  PROVE  Orderly' /\ Placed'
  <1>1. Running(i) /\ cmd[i].stage = "next" /\ graph' = graph /\ manager' = manager
        /\ CmdOK(cmd[i]) /\ cmd[i].todo \subseteq Decks
    BY RunningTyped DEF TakeNext, CmdRec
  <1>2. Staged(cmd[i]) /\ Informed(cmd[i]) /\ cmd[i].deck = Nothing
    BY <1>1 DEF Orderly, Staged
  <1>3. cmd[i].op \in {"devices", "cue", "start", "stop"}
    BY <1>1, <1>2 DEF Staged, CmdOK, CmdRec, Ops
  <1>4. PICK d \in cmd[i].todo :
           \/ /\ deck[d] = Nothing /\ deck' = deck
              /\ \E c : /\ CmdOK(c) /\ c.op = cmd[i].op /\ c.stage = "next"
                        /\ c.todo = cmd[i].todo \ {d} /\ c.deck = cmd[i].deck
                        /\ c.main = cmd[i].main /\ c.cue = cmd[i].cue
                        /\ cmd' = [cmd EXCEPT ![i] = Advanced(c)]
           \/ /\ deck[d] # Nothing /\ deck' = [deck EXCEPT ![d] = Nothing]
              /\ \E b \in CmdRec :
                   /\ b.deck = d /\ b.held = deck[d]
                   /\ b.stage = IF cmd[i].op \in {"devices", "cue"} THEN "load" ELSE "work"
                   /\ b.op = cmd[i].op /\ b.todo = cmd[i].todo \ {d}
                   /\ b.main = cmd[i].main /\ b.cue = cmd[i].cue
                   /\ cmd' = [cmd EXCEPT ![i] = b]
    BY TakeNextIs
  <1>5. CASE deck[d] = Nothing
    <2>1. PICK c : /\ CmdOK(c) /\ c.op = cmd[i].op /\ c.stage = "next"
                   /\ c.todo = cmd[i].todo \ {d} /\ c.deck = cmd[i].deck
                   /\ c.main = cmd[i].main /\ c.cue = cmd[i].cue
                   /\ cmd' = [cmd EXCEPT ![i] = Advanced(c)]
      BY <1>4, <1>5
    <2> DEFINE a == Advanced(c)
    <2>2. \/ a = Nothing /\ c.todo = {}
          \/ /\ a # Nothing /\ CmdOK(a) /\ a.stage = "next" /\ a.deck = Nothing
             /\ a.op = c.op /\ a.todo = c.todo /\ a.main = c.main /\ a.cue = c.cue
      BY <1>3, <2>1, AdvancedIs
    <2> HIDE DEF a
    <2>3. cmd' = [cmd EXCEPT ![i] = a] /\ deck' = deck
      BY <1>4, <1>5, <2>1 DEF a
    <2>4. \A e \in Decks : deck[e] # Nothing /\ e \in cmd[i].todo => a # Nothing /\ e \in a.todo
      BY <1>5, <2>1, <2>2
    <2>5. manager.recording => graph'.target
      BY <1>1 DEF Orderly
    <2>6. /\ CensusAgrees(graph')
          /\ \A e \in Decks : deck[e] # Nothing => Seated(graph', e, deck[e])
          /\ \A j \in Slots, e \in Decks : Holds(j, e) => Seated(graph', e, cmd[j].held)
      BY <1>1 DEF Placed
    <2>7. \A e \in Decks : Absent(graph, e) => Absent(graph', e)
      BY <1>1
    <2>8. \/ a = Nothing
          \/ /\ CmdOK(a) /\ a.op = cmd[i].op /\ a.stage = "next" /\ a.deck = Nothing
             /\ a.main = cmd[i].main /\ a.cue = cmd[i].cue
      BY <2>1, <2>2
    <2> QED BY <1>1, <2>3, <2>4, <2>5, <2>6, <2>7, <2>8, LeaveInv
  <1>6. CASE deck[d] # Nothing
    <2>1. PICK b \in CmdRec :
                   /\ b.deck = d /\ b.held = deck[d]
                   /\ b.stage = IF cmd[i].op \in {"devices", "cue"} THEN "load" ELSE "work"
                   /\ b.op = cmd[i].op /\ b.todo = cmd[i].todo \ {d}
                   /\ b.main = cmd[i].main /\ b.cue = cmd[i].cue
                   /\ cmd' = [cmd EXCEPT ![i] = b]
      BY <1>4, <1>6
    <2>2. d \in Decks /\ deck' = [deck EXCEPT ![d] = Nothing]
      BY <1>1, <1>4, <1>6
    <2>3. /\ AtRest(d, deck[d]) /\ Seated(graph, d, deck[d]) /\ deck[d] \in PipelineRec
          /\ ~Detached(d)
      BY <1>6, <2>2, RestIsDone
    <2>4. Staged(b) /\ Informed(b)
      <3>1. Staged(b)
        BY <1>2, <1>3, <2>1, <2>2, NothingAssumption DEF Staged
      <3>2. Informed(b)
        BY <1>2, <2>1 DEF Informed
      <3> QED BY <3>1, <3>2
    <2>5. \A j \in Slots \ {i} : Running(j) => /\ Alone(b.op) => Brief(cmd[j].op)
                                               /\ Alone(cmd[j].op) => Brief(b.op)
      BY <1>1, <2>1 DEF Orderly, Apart, Alone, Brief
    <2>6. \A op : Awaits(op, d) /\ op # cmd[i].op => ~Alone(op) /\ ~Alone(cmd[i].op)
      <3> SUFFICES ASSUME NEW op, op # cmd[i].op,
                          NEW j \in Slots, Running(j), cmd[j].op = op, d \in cmd[j].todo
                   PROVE  ~Alone(op) /\ ~Alone(cmd[i].op)
        BY DEF Awaits
      <3>1. j # i
        OBVIOUS
      <3>2. ~Brief(op)
        BY DEF Orderly, Staged, Brief
      <3>3. ~Brief(cmd[i].op)
        BY <1>3 DEF Brief
      <3> QED BY <2>1, <2>5, <3>1, <3>2, <3>3
    <2>7. InHand(b, b.held)
      <3>1. /\ b.op # "devices" => deck[d].devices = manager.main
            /\ b.op # "cue" => deck[d].cue = manager.cue
            /\ b.op # "stop" /\ deck[d].recording => manager.recording
        BY <2>1, <2>3, <2>6 DEF AtRest, Alone
      <3>2. manager.recording /\ Loaded(deck[d]) /\ b.op \in {"devices", "cue"}
            => deck[d].recording
        <4>1. b.op \in {"devices", "cue"} => ~Awaits("start", d)
          BY <2>1, <2>6 DEF Alone
        <4> QED BY <2>3, <4>1 DEF AtRest, Whole
      <3>3. b.stage \in {"load", "work"} /\ b.op \notin {"load", "play", "pause"}
        BY <1>3, <2>1
      <3>4. b.stage = "load" <=> b.op \in {"devices", "cue"}
        BY <2>1
      <3> QED BY <2>1, <2>3, <3>1, <3>2, <3>3, <3>4 DEF AtRest, InHand
    <2>8. /\ b.op = cmd[i].op /\ cmd[i].todo \subseteq b.todo \cup {d}
          /\ cmd[i].stage = "next"
      BY <1>1, <2>1
    <2>9. Seated(graph, d, b.held) /\ b.deck = d /\ b.held \in PipelineRec
          /\ cmd' = [cmd EXCEPT ![i] = b]
      BY <2>1, <2>3
    <2> QED BY <1>1, <2>2, <2>3, <2>4, <2>5, <2>7, <2>8, <2>9, TakeInv
  <1> QED BY <1>5, <1>6

\* A load begins.
LEMMA BeginLoadInv ==
  ASSUME Events = {}, TypeOK, Orderly, Placed, NEW i \in Slots, NEW d \in Decks,
         BeginLoad(i, d)
  PROVE  Orderly' /\ Placed'
  <1>1. /\ ~Detached(d) /\ ~Runs({"devices", "cue", "stop"}) /\ ~Running(i)
        /\ deck[d] # Nothing => ~deck[d].playing
        /\ graph' = graph /\ manager' = manager
    BY DEF BeginLoad, Begin, Hasty
  <1>2. PICK b \in CmdRec :
           /\ b.op = "load" /\ b.stage = "load" /\ b.deck = d /\ b.todo = {}
           /\ b.held = IF deck[d] = Nothing THEN NewPipeline(manager.main, manager.cue)
                       ELSE deck[d]
           /\ b.held \in PipelineRec
           /\ cmd' = [cmd EXCEPT ![i] = b] /\ deck' = [deck EXCEPT ![d] = Nothing]
    BY BeginLoadIs
  <1>3. \A op, e : Awaits(op, e) => op \notin {"devices", "cue", "stop"}
    BY <1>1 DEF Awaits, Runs
  <1>4. InHand(b, b.held) /\ Seated(graph, d, b.held)
    <2>1. CASE deck[d] = Nothing
      <3>1. b.held = NewPipeline(manager.main, manager.cue)
        BY <1>2, <2>1
      <3>2. Absent(graph, d)
        BY <1>1, <2>1 DEF Placed
      <3>3. b.held.keys = {} /\ b.held.inner = "none" /\ ~b.held.file /\ ~b.held.tap
            /\ ~b.held.recording /\ ~b.held.playing /\ b.held.devices = manager.main
            /\ b.held.cue = manager.cue
        BY <3>1 DEF NewPipeline
      <3>4. Seated(graph, d, b.held)
        BY <3>2, <3>3 DEF Seated, Absent
      <3>5. InHand(b, b.held)
        BY <1>2, <3>3 DEF InHand, Whole, Loaded, InTune
      <3> QED BY <3>4, <3>5
    <2>2. CASE deck[d] # Nothing
      <3>1. AtRest(d, deck[d]) /\ Seated(graph, d, deck[d]) /\ b.held = deck[d]
        BY <1>2, <2>2, RestIsDone
      <3>2. /\ deck[d].devices = manager.main /\ deck[d].cue = manager.cue
            /\ deck[d].recording => manager.recording
        BY <1>3, <3>1 DEF AtRest
      <3> QED BY <1>1, <1>2, <2>2, <3>1, <3>2 DEF InHand, AtRest
    <2> QED BY <2>1, <2>2
  <1>5. Staged(b) /\ Informed(b)
    BY <1>2 DEF Staged, Informed
  <1>6. \A j \in Slots \ {i} : Running(j) => /\ Alone(b.op) => Brief(cmd[j].op)
                                             /\ Alone(cmd[j].op) => Brief(b.op)
    BY <1>1, <1>2 DEF Runs, Alone
  <1> QED BY <1>1, <1>2, <1>4, <1>5, <1>6, TakeInv

\* A play or a pause begins.
LEMMA BeginTransportInv ==
  ASSUME Events = {}, TypeOK, Orderly, Placed, NEW i \in Slots, NEW d \in Decks,
         NEW op, op = "play" \/ op = "pause", BeginTransport(i, d, op)
  PROVE  Orderly' /\ Placed'
  <1>1. /\ deck[d] # Nothing /\ ~Awaited(d) /\ ~Running(i)
        /\ graph' = graph /\ manager' = manager
    BY DEF BeginTransport, Begin, Hasty
  <1>2. PICK b \in CmdRec :
           /\ b.op = op /\ b.stage = "work" /\ b.deck = d /\ b.todo = {}
           /\ b.held = deck[d] /\ b.held \in PipelineRec
           /\ cmd' = [cmd EXCEPT ![i] = b] /\ deck' = [deck EXCEPT ![d] = Nothing]
    BY BeginTransportIs
  <1>3. Done(deck[d]) /\ Seated(graph, d, deck[d]) /\ ~Detached(d)
    BY <1>1, RestIsDone
  <1>4. InHand(b, b.held)
    BY <1>2, <1>3 DEF InHand, Done
  <1>5. Staged(b) /\ Informed(b)
    BY <1>2 DEF Staged, Informed
  <1>6. \A j \in Slots \ {i} : Running(j) => /\ Alone(b.op) => Brief(cmd[j].op)
                                             /\ Alone(cmd[j].op) => Brief(b.op)
    BY <1>2 DEF Alone, Brief
  <1> QED BY <1>1, <1>2, <1>3, <1>4, <1>5, <1>6, TakeInv

\* A change of devices or the end of a recording begins, when nothing else is under way.
LEMMA QuietInv ==
  ASSUME TypeOK, Orderly, Placed, NEW i \in Slots, \A j \in Slots : ~Running(j),
         NEW b, b = Nothing \/ (/\ CmdOK(b) /\ b.stage = "next" /\ b.deck = Nothing
                                /\ b.op \in {"devices", "cue", "stop"} /\ b.todo = Mapped),
         cmd' = [cmd EXCEPT ![i] = b], deck' = deck, graph' = graph,
         manager'.recording => manager.recording,
         b # Nothing => Informed(cmd[i])',
         \A d \in Decks : deck[d] # Nothing /\ Done(deck[d]) => AtRest(d, deck[d])'
  PROVE  Orderly' /\ Placed'
  <1>1. cmd'[i] = b /\ \A j \in Slots \ {i} : cmd'[j] = cmd[j]
    BY DEF TypeOK, CmdsOK
  <1>2. \A j \in Slots : Running(j)' => j = i /\ b # Nothing
    BY <1>1 DEF Running
  <1>3. \A j \in Slots, d \in Decks : ~Holds(j, d)' /\ ~Holds(j, d)
    BY <1>1, <1>2, NothingAssumption DEF Holds
  <1>4. Apart'
    BY <1>2, <1>3 DEF Apart
  <1>5. ASSUME NEW j \in Slots, Running(j)'
        PROVE  (Staged(cmd[j]) /\ Informed(cmd[j]))'
    <2>1. j = i /\ b # Nothing
      BY <1>2, <1>5
    <2>2. Nothing \notin Mapped
      BY NothingAssumption DEF Mapped
    <2>3. Staged(b)
      BY <2>1, <2>2 DEF Staged
    <2> QED BY <1>1, <2>1, <2>3 DEF Staged
  <1>6. ASSUME NEW d \in Decks, deck'[d] # Nothing
        PROVE  AtRest(d, deck[d])'
    <2>1. ~Awaited(d)
      BY DEF Awaited
    <2>2. Done(deck[d])
      BY <1>6, <2>1, RestIsDone
    <2> QED BY <1>6, <2>2
  <1>7. manager'.recording => graph'.target
    BY DEF Orderly
  <1>8. Orderly'
    BY <1>3, <1>4, <1>5, <1>6, <1>7 DEF Orderly
  <1>9. Placed'
    BY <1>3 DEF Placed, Detached
  <1> QED BY <1>8, <1>9

\* Which decks wait for a command that begins.
LEMMA BeginAwaits ==
  ASSUME TypeOK, NEW i \in Slots, NEW b \in CmdRec, NEW d \in Mapped, b.todo = Mapped,
         Begin(i, IF Mapped = {} THEN Nothing ELSE b) \/ Begin(i, b)
  PROVE  cmd' = [cmd EXCEPT ![i] = b] /\ Awaits(b.op, d)'
  <1>1. cmd' = [cmd EXCEPT ![i] = b]
    BY DEF Begin
  <1>2. cmd'[i] = b /\ b # Nothing
    BY <1>1, NoCommandAssumption DEF TypeOK, CmdsOK
  <1> QED BY <1>1, <1>2 DEF Awaits, Running

\* A change of devices begins.
LEMMA BeginDevicesInv ==
  ASSUME Events = {}, TypeOK, Orderly, Placed, NEW i \in Slots, NEW m \in MainLists,
         BeginDevices(i, m)
  PROVE  Orderly' /\ Placed'
  <1>1. /\ \A j \in Slots : ~Running(j)
        /\ manager' = [manager EXCEPT !.main = m] /\ graph' = graph /\ deck' = deck
    BY DEF BeginDevices, Hasty
  <1>2. manager'.main = m /\ manager'.cue = manager.cue /\ manager'.recording = manager.recording
    BY <1>1 DEF TypeOK, ManagerRec
  <1>3. PICK b \in CmdRec :
          /\ CmdOK(b) /\ b.op = "devices" /\ b.stage = "next" /\ b.deck = Nothing
          /\ b.todo = Mapped /\ b.main = m
          /\ Begin(i, IF Mapped = {} THEN Nothing ELSE b)
    BY BeginsIs
  <1> DEFINE c == IF Mapped = {} THEN Nothing ELSE b
  <1>4. cmd' = [cmd EXCEPT ![i] = c]
    BY <1>3 DEF Begin
  <1>5. c # Nothing => Informed(cmd[i])'
    <2>1. cmd'[i] = c
      BY <1>4 DEF TypeOK, CmdsOK
    <2> QED BY <1>2, <1>3, <2>1 DEF Informed
  <1>6. \A d \in Decks : deck[d] # Nothing /\ Done(deck[d]) => AtRest(d, deck[d])'
    <2> SUFFICES ASSUME NEW d \in Decks, deck[d] # Nothing, Done(deck[d])
                 PROVE  AtRest(d, deck[d])'
      OBVIOUS
    <2>1. d \in Mapped
      BY DEF Mapped
    <2>2. Awaits("devices", d)'
      BY <1>3, <2>1, BeginAwaits
    <2> QED BY <1>1, <1>2, <2>2 DEF Done, AtRest
  <1>7. c = Nothing \/ (/\ CmdOK(c) /\ c.stage = "next" /\ c.deck = Nothing
                        /\ c.op \in {"devices", "cue", "stop"} /\ c.todo = Mapped)
    BY <1>3
  <1> HIDE DEF c
  <1> QED BY <1>1, <1>2, <1>4, <1>5, <1>6, <1>7, QuietInv

\* A change of the cue device begins.
LEMMA BeginCueInv ==
  ASSUME Events = {}, TypeOK, Orderly, Placed, NEW i \in Slots,
         NEW u \in CueDevices \cup {NoCue}, BeginCue(i, u)
  PROVE  Orderly' /\ Placed'
  <1>1. /\ \A j \in Slots : ~Running(j)
        /\ manager' = [manager EXCEPT !.cue = u] /\ graph' = graph /\ deck' = deck
    BY DEF BeginCue, Hasty
  <1>2. manager'.main = manager.main /\ manager'.cue = u /\ manager'.recording = manager.recording
    BY <1>1 DEF TypeOK, ManagerRec
  <1>3. PICK b \in CmdRec :
          /\ CmdOK(b) /\ b.op = "cue" /\ b.stage = "next" /\ b.deck = Nothing
          /\ b.todo = Mapped /\ b.cue = u
          /\ Begin(i, IF Mapped = {} THEN Nothing ELSE b)
    BY BeginsIs
  <1> DEFINE c == IF Mapped = {} THEN Nothing ELSE b
  <1>4. cmd' = [cmd EXCEPT ![i] = c]
    BY <1>3 DEF Begin
  <1>5. c # Nothing => Informed(cmd[i])'
    <2>1. cmd'[i] = c
      BY <1>4 DEF TypeOK, CmdsOK
    <2> QED BY <1>2, <1>3, <2>1 DEF Informed
  <1>6. \A d \in Decks : deck[d] # Nothing /\ Done(deck[d]) => AtRest(d, deck[d])'
    <2> SUFFICES ASSUME NEW d \in Decks, deck[d] # Nothing, Done(deck[d])
                 PROVE  AtRest(d, deck[d])'
      OBVIOUS
    <2>1. d \in Mapped
      BY DEF Mapped
    <2>2. Awaits("cue", d)'
      BY <1>3, <2>1, BeginAwaits
    <2> QED BY <1>1, <1>2, <2>2 DEF Done, AtRest
  <1>7. c = Nothing \/ (/\ CmdOK(c) /\ c.stage = "next" /\ c.deck = Nothing
                        /\ c.op \in {"devices", "cue", "stop"} /\ c.todo = Mapped)
    BY <1>3
  <1> HIDE DEF c
  <1> QED BY <1>1, <1>2, <1>4, <1>5, <1>6, <1>7, QuietInv

\* The end of a recording begins.
LEMMA BeginStopInv ==
  ASSUME Events = {}, TypeOK, Orderly, Placed, NEW i \in Slots, BeginRecordStop(i)
  PROVE  Orderly' /\ Placed'
  <1>1. /\ \A j \in Slots : ~Running(j)
        /\ manager' = [manager EXCEPT !.recording = FALSE] /\ graph' = graph /\ deck' = deck
    BY DEF BeginRecordStop, Hasty
  <1>2. manager'.main = manager.main /\ manager'.cue = manager.cue /\ manager'.recording = FALSE
    BY <1>1 DEF TypeOK, ManagerRec
  <1>3. PICK b \in CmdRec :
          /\ CmdOK(b) /\ b.op = "stop" /\ b.stage = "next" /\ b.deck = Nothing
          /\ b.todo = Mapped /\ Begin(i, b)
    BY BeginsIs
  <1>4. cmd' = [cmd EXCEPT ![i] = b]
    BY <1>3 DEF Begin
  <1>5. Informed(cmd[i])'
    <2>1. cmd'[i] = b
      BY <1>4 DEF TypeOK, CmdsOK
    <2> QED BY <1>2, <1>3, <2>1 DEF Informed
  <1>6. \A d \in Decks : deck[d] # Nothing /\ Done(deck[d]) => AtRest(d, deck[d])'
    <2> SUFFICES ASSUME NEW d \in Decks, deck[d] # Nothing, Done(deck[d])
                 PROVE  AtRest(d, deck[d])'
      OBVIOUS
    <2>1. d \in Mapped
      BY DEF Mapped
    <2>2. Awaits("stop", d)'
      BY <1>3, <2>1, BeginAwaits
    <2> QED BY <1>1, <1>2, <2>2 DEF Done, AtRest
  <1> QED BY <1>1, <1>2, <1>3, <1>4, <1>5, <1>6, QuietInv

\* A recording begins.
LEMMA BeginStartInv ==
  ASSUME Events = {}, TypeOK, Orderly, Placed, NEW i \in Slots, BeginRecordStart(i)
  PROVE  Orderly' /\ Placed'
  <1>1. /\ \A d \in Decks : ~PastCheck(d)
        /\ ~Runs({"stop", "devices", "cue"}) /\ ~manager.recording /\ ~Running(i)
        /\ manager' = [manager EXCEPT !.recording = TRUE]
        /\ graph' = SetRecordTarget(graph) /\ deck' = deck
    BY DEF BeginRecordStart, Begin, Hasty
  <1>2. manager'.main = manager.main /\ manager'.cue = manager.cue /\ manager'.recording = TRUE
    BY <1>1 DEF TypeOK, ManagerRec
  <1>3. PICK b \in CmdRec :
          /\ CmdOK(b) /\ b.op = "start" /\ b.stage = "next" /\ b.deck = Nothing
          /\ b.todo = Mapped
          /\ Begin(i, IF Mapped = {} THEN Nothing ELSE b)
    BY BeginsIs
  <1> DEFINE a == IF Mapped = {} THEN Nothing ELSE b
  <1>4. cmd' = [cmd EXCEPT ![i] = a]
    BY <1>3 DEF Begin
  <1>5. cmd'[i] = a /\ \A j \in Slots \ {i} : cmd'[j] = cmd[j]
    BY <1>4 DEF TypeOK, CmdsOK
  <1>6. /\ graph'.target = TRUE /\ graph'.node = graph.node
    BY <1>1, TargetCalm DEF TypeOK
  <1>7. \A j \in Slots : Running(j) =>
           j # i /\ cmd[j].op = "load" /\ cmd[j].stage # "insert" /\ cmd'[j] = cmd[j]
    <2> SUFFICES ASSUME NEW j \in Slots, Running(j)
                 PROVE  cmd[j].op = "load" /\ cmd[j].stage # "insert"
      BY <1>1, <1>5
    <2>1. Staged(cmd[j]) /\ Informed(cmd[j]) /\ cmd[j] \in CmdRec
      BY RunningTyped DEF Orderly
    <2>2. cmd[j].op \in {"load", "play", "pause"}
      BY <1>1, <2>1 DEF Runs, Informed, CmdRec, Ops
    <2>3. cmd[j].stage # "next"
      BY <2>1, <2>2 DEF Staged
    <2>4. cmd[j].deck \in Decks /\ Holds(j, cmd[j].deck)
      BY <2>3, RunningTyped DEF Holds
    <2>5. ~PastCheck(cmd[j].deck)
      BY <1>1, <2>4
    <2> QED BY <2>4, <2>5 DEF PastCheck
  <1>8. a # Nothing => CmdOK(a) /\ a.op = "start" /\ a.stage = "next" /\ a.deck = Nothing
                       /\ a.todo = Mapped
    BY <1>3
  <1>9. \A d \in Mapped : Awaits("start", d)'
    BY <1>3, BeginAwaits
  <1> HIDE DEF a
  <1>10. \A j \in Slots : Running(j)' <=> Running(j) \/ (j = i /\ a # Nothing)
    BY <1>1, <1>5 DEF Running
  <1>11. \A j \in Slots, d \in Decks : Holds(j, d)' <=> Holds(j, d)
    BY <1>5, <1>7, <1>8, <1>10, NothingAssumption DEF Holds
  <1>12. Apart'
    <2>1. /\ \A j \in Slots, d \in Decks : Holds(j, d)' => deck'[d] = Nothing
          /\ \A j, k \in Slots, d \in Decks : Holds(j, d)' /\ Holds(k, d)' => j = k
      BY <1>1, <1>11 DEF Apart, Orderly
    <2>2. \A j \in Slots : Running(j)' => cmd'[j].op \in {"load", "start"}
      BY <1>5, <1>7, <1>8, <1>10
    <2> QED BY <2>1, <2>2 DEF Apart
  <1>13. ASSUME NEW j \in Slots, Running(j)'
         PROVE  (Staged(cmd[j]) /\ Informed(cmd[j]))'
    <2>1. CASE Running(j)
      <3>1. Staged(cmd[j]) /\ cmd'[j] = cmd[j] /\ cmd[j].op = "load"
        BY <1>7, <2>1 DEF Orderly
      <3> QED BY <3>1 DEF Staged, Informed
    <2>2. CASE ~Running(j)
      <3>1. cmd'[j] = a /\ a # Nothing
        BY <1>5, <1>10, <1>13, <2>2
      <3>2. Nothing \notin Mapped
        BY NothingAssumption DEF Mapped
      <3>3. Staged(a)
        BY <1>8, <3>1, <3>2 DEF Staged
      <3>4. Informed(cmd[j])'
        BY <1>2, <1>8, <3>1 DEF Informed
      <3> QED BY <3>1, <3>3, <3>4 DEF Staged
    <2> QED BY <2>1, <2>2
  <1>14. ASSUME NEW d \in Decks, deck'[d] # Nothing
         PROVE  AtRest(d, deck[d])'
    <2>1. AtRest(d, deck[d]) /\ d \in Mapped
      BY <1>1, <1>14 DEF Orderly, Mapped
    <2>2. ~Awaits("devices", d) /\ ~Awaits("cue", d)
      BY <1>7 DEF Awaits
    <2>3. Awaits("start", d)'
      BY <1>9, <2>1
    <2> QED BY <1>1, <1>2, <2>1, <2>2, <2>3 DEF AtRest
  <1>15. ASSUME NEW j \in Slots, NEW d \in Decks, Holds(j, d)'
         PROVE  InHand(cmd[j], cmd[j].held)'
    <2>1. Holds(j, d) /\ Running(j)
      BY <1>11, <1>15 DEF Holds
    <2>2. /\ InHand(cmd[j], cmd[j].held) /\ cmd'[j] = cmd[j] /\ cmd[j].op = "load"
          /\ cmd[j].stage # "insert"
      BY <1>7, <2>1 DEF Orderly
    <2> QED BY <1>2, <2>2 DEF InHand
  <1>16. Orderly'
    BY <1>6, <1>12, <1>13, <1>14, <1>15 DEF Orderly
  <1>17. \A n \in Nodes : \A d, c : At(graph', n, d, c) <=> At(graph, n, d, c)
    BY <1>6 DEF At
  <1>18. \A d, p : Seated(graph', d, p) <=> Seated(graph, d, p)
    BY <1>17 DEF Seated
  <1>19. \A d : Absent(graph', d) <=> Absent(graph, d)
    BY <1>17 DEF Absent
  <1>20. CensusAgrees(graph')
    BY <1>6 DEF Placed, CensusAgrees
  <1>21. \A j \in Slots, d \in Decks : Holds(j, d)' => cmd'[j] = cmd[j]
    BY <1>7, <1>11 DEF Holds
  <1>22. \A d \in Decks : Detached(d)' <=> Detached(d)
    BY <1>11 DEF Detached
  <1>23. Placed'
    BY <1>1, <1>11, <1>18, <1>19, <1>20, <1>21, <1>22 DEF Placed
  <1> QED BY <1>16, <1>23

\* A recording's node has nobody's branch but for the recording's, so that its end takes
\* nothing from a pipeline that is not tapped.
LEMMA FinishSeats ==
  ASSUME NEW g, GraphOK(g), NEW h,
         \A n \in Nodes : \A d, c : At(h, n, d, c) <=> At(g, n, d, c) /\ n # RecordNode,
         NEW d, NEW p \in PipelineRec, Seated(g, d, p), "record" \notin p.keys
  PROVE  Seated(h, d, p)
  <1>1. ASSUME NEW c \in p.keys PROVE Place(p, c) # RecordNode
    <2>1. c # "record" /\ OutputOf(p, c) # NoCue
      BY DEF Seated
    <2>2. OutputOf(p, c) \in Devices
      BY <2>1, OutputTyped
    <2> QED BY <2>1, <2>2, DevicesAssumption DEF Place, KeyNode, RecordNode
  <1>2. \A n \in Nodes, c \in Channels : At(h, n, d, c) <=> c \in p.keys /\ n = Place(p, c)
    BY <1>1 DEF Seated
  <1> QED BY <1>2 DEF Seated

\* The file of a recording is closed, when every deck has left it.
LEMMA FinishesInv ==
  ASSUME Events = {}, TypeOK, Orderly, Placed, NEW i \in Slots, FinishesRecording(i)
  PROVE  Orderly' /\ Placed'
  <1>1. /\ Running(i) /\ cmd[i].op = "stop" /\ cmd[i].stage = "next" /\ cmd[i].todo = {}
        /\ graph' = FinishRecording(graph) /\ cmd' = [cmd EXCEPT ![i] = Nothing]
        /\ deck' = deck /\ manager' = manager
    BY DEF FinishesRecording, Ends
  <1>2. GraphOK(graph) /\ CensusAgrees(graph)
    BY DEF TypeOK, Placed
  <1>3. /\ CensusAgrees(graph')
        /\ \A n \in Nodes : \A d, c :
             At(graph', n, d, c) <=> At(graph, n, d, c) /\ n # RecordNode
    BY <1>1, <1>2, FinishCalm
  <1>4. Staged(cmd[i]) /\ ~manager.recording
    BY <1>1 DEF Orderly, Informed
  <1>5. \A j \in Slots : Running(j) /\ j # i => cmd[j].op \in {"play", "pause"}
    BY <1>1 DEF Orderly, Apart
  <1>6. ASSUME NEW d \in Decks, deck[d] # Nothing
        PROVE  Seated(graph', d, deck[d])
    <2>1. AtRest(d, deck[d]) /\ Seated(graph, d, deck[d]) /\ deck[d] \in PipelineRec
      BY <1>6, RestIsDone
    <2>2. ~Awaits("stop", d)
      BY <1>1, <1>5 DEF Awaits
    <2>3. "record" \notin deck[d].keys
      BY <1>4, <2>1, <2>2 DEF AtRest, Whole
    <2> QED BY <1>2, <1>3, <2>1, <2>3, FinishSeats
  <1>7. ASSUME NEW j \in Slots, NEW d \in Decks, Holds(j, d)
        PROVE  Seated(graph', d, cmd[j].held)
    <2>1. InHand(cmd[j], cmd[j].held) /\ Seated(graph, d, cmd[j].held)
      BY <1>7 DEF Orderly, Placed
    <2>2. j # i /\ Running(j)
      BY <1>1, <1>4, <1>7, NothingAssumption DEF Holds, Staged
    <2>3. "record" \notin cmd[j].held.keys /\ cmd[j].held \in PipelineRec
      BY <1>4, <1>5, <2>1, <2>2 DEF InHand, Whole
    <2> QED BY <1>2, <1>3, <2>1, <2>3, FinishSeats
  <1>8. \A d \in Decks : Absent(graph, d) => Absent(graph', d)
    BY <1>3 DEF Absent
  <1> QED BY <1>1, <1>3, <1>4, <1>6, <1>7, <1>8, LeaveInv

\* A deck is unloaded, and gives back its branches.
LEMMA UnloadInv ==
  ASSUME Events = {}, TypeOK, Orderly, Placed, NEW d \in Decks, Unload(d)
  PROVE  Orderly' /\ Placed'
  <1>1. /\ deck[d] # Nothing /\ deck' = [deck EXCEPT ![d] = Nothing]
        /\ graph' = Teardown(graph, d, deck[d], listening)
        /\ cmd' = cmd /\ manager' = manager
    BY DEF Unload, Dropped
  <1>2. GraphOK(graph) /\ CensusAgrees(graph) /\ Seated(graph, d, deck[d]) /\ listening \in BOOLEAN
    BY <1>1 DEF TypeOK, Placed
  <1>3. Single(graph, d) /\ \A c : \A n \in Nodes : At(graph, n, d, c) => c \in deck[d].keys
    BY <1>2, SeatedSingle
  <1>4. /\ Steady(graph, graph', listening)
        /\ CensusAgrees(graph) => CensusAgrees(graph')
        /\ OthersStay(graph, graph', d)
        /\ Single(graph, d) /\ (\A c : \A n \in Nodes : At(graph, n, d, c) => c \in deck[d].keys)
           => Absent(graph', d)
    BY <1>1, <1>2, TeardownIs
  <1>5. Absent(graph', d) /\ CensusAgrees(graph') /\ graph'.target = graph.target
    BY <1>2, <1>3, <1>4 DEF Steady
  <1>6. deck'[d] = Nothing /\ \A e \in Decks \ {d} : deck'[e] = deck[e]
    BY <1>1 DEF TypeOK, DecksOK
  <1>7. \A j \in Slots : \A e : Holds(j, e)' <=> Holds(j, e)
    BY <1>1 DEF Holds, Running
  <1>8. \A e : e # d => /\ \A p : Seated(graph, e, p) => Seated(graph', e, p)
                        /\ Absent(graph, e) => Absent(graph', e)
    BY <1>4, SeatedMoves
  <1>9. ~Detached(d)
    BY <1>1, RestIsDone
  <1>10. Apart'
    BY <1>1, <1>6, <1>7 DEF Apart, Orderly, Running
  <1>11. ASSUME NEW e \in Decks, deck'[e] # Nothing
         PROVE  AtRest(e, deck[e])'
    <2>1. AtRest(e, deck[e]) /\ deck'[e] = deck[e]
      BY <1>6, <1>11 DEF Orderly
    <2> QED BY <1>1, <2>1 DEF AtRest, Awaits, Running
  <1>12. Orderly'
    BY <1>1, <1>5, <1>7, <1>10, <1>11 DEF Orderly, Running, Informed, InHand
  <1>13. \A e \in Decks : deck'[e] # Nothing => Seated(graph', e, deck'[e])
    BY <1>6, <1>8 DEF Placed
  <1>14. \A j \in Slots, e \in Decks : Holds(j, e) => e # d /\ Seated(graph', e, cmd[j].held)
    BY <1>8, <1>9 DEF Placed, Detached
  <1>15. \A e \in Decks : deck'[e] = Nothing /\ ~Detached(e) => Absent(graph', e)
    BY <1>5, <1>6, <1>8 DEF Placed
  <1>16. Placed'
    BY <1>1, <1>5, <1>7, <1>13, <1>14, <1>15 DEF Placed, Detached
  <1> QED BY <1>12, <1>16

\* A change of the graph that leaves the branches where they are.
LEMMA BranchesStay ==
  ASSUME Orderly, Placed, CensusAgrees(graph'), graph'.target = graph.target,
         \A n \in Nodes : \A d, c : At(graph', n, d, c) <=> At(graph, n, d, c),
         deck' = deck, cmd' = cmd, manager' = manager
  PROVE  Orderly' /\ Placed'
  <1>1. \A d, p : Seated(graph', d, p) <=> Seated(graph, d, p)
    BY DEF Seated
  <1>2. \A d : Absent(graph', d) <=> Absent(graph, d)
    BY DEF Absent
  <1>3. Placed'
    BY <1>1, <1>2 DEF Placed, Detached, Holds, Running
  <1>4. Apart'
    BY DEF Orderly, Apart, Holds, Running
  <1>5. \A op, d : Awaits(op, d)' <=> Awaits(op, d)
    BY DEF Awaits, Running
  <1>6. \A d \in Decks : deck'[d] # Nothing => AtRest(d, deck[d])'
    BY <1>5 DEF Orderly, AtRest
  <1>7. \A i \in Slots, d \in Decks : Holds(i, d)' => InHand(cmd[i], cmd[i].held)'
    BY DEF Orderly, Holds, Running, InHand
  <1>8. \A i \in Slots : Running(i)' => (Staged(cmd[i]) /\ Informed(cmd[i]))'
    BY DEF Orderly, Running, Informed, Staged
  <1> QED BY <1>3, <1>4, <1>6, <1>7, <1>8 DEF Orderly

\* Settings of the graph, the visualizers' wish and its carrying out.
LEMMA AdjustInv ==
  ASSUME TypeOK, Orderly, Placed, Adjusts \/ Refreshes \/ UNCHANGED vars
  PROVE  Orderly' /\ Placed'
  <1>1. GraphOK(graph) /\ CensusAgrees(graph) /\ listening \in BOOLEAN
    BY DEF TypeOK, Placed
  <1>2. ASSUME NEW n \in Nodes \ {RecordNode}, NEW x \in {0, 1}, SetLatency(n, x)
        PROVE  Orderly' /\ Placed'
    <2>1. /\ graph' = SetExtraLatency(graph, n, x)
          /\ deck' = deck /\ cmd' = cmd /\ manager' = manager
      BY <1>2 DEF SetLatency
    <2>2. /\ CensusAgrees(graph') /\ graph'.target = graph.target
          /\ \A m \in Nodes : \A d, c : At(graph', m, d, c) <=> At(graph, m, d, c)
      BY <1>1, <2>1, LatencyCalm
    <2> QED BY <2>1, <2>2, BranchesStay
  <1>3. ASSUME NEW v \in {0, 1}, SetVolume(v)
        PROVE  Orderly' /\ Placed'
    <2>1. /\ graph' = SetMasterVolume(graph, v)
          /\ deck' = deck /\ cmd' = cmd /\ manager' = manager
      BY <1>3 DEF SetVolume
    <2>2. /\ CensusAgrees(graph') /\ graph'.target = graph.target
          /\ \A m \in Nodes : \A d, c : At(graph', m, d, c) <=> At(graph, m, d, c)
      BY <1>1, <2>1, VolumeCalm
    <2> QED BY <2>1, <2>2, BranchesStay
  <1>4. ASSUME NEW on \in BOOLEAN, SetListening(on)
        PROVE  Orderly' /\ Placed'
    BY <1>1, <1>4, BranchesStay DEF SetListening, At
  <1>5. CASE Refreshes
    <2>1. /\ graph' = RefreshTap(graph, listening)
          /\ deck' = deck /\ cmd' = cmd /\ manager' = manager
      BY <1>5 DEF Refreshes
    <2>2. /\ CensusAgrees(graph') /\ Steady(graph, graph', listening)
          /\ \A m \in Nodes : \A d, c : At(graph', m, d, c) <=> At(graph, m, d, c)
      BY <1>1, <2>1, RefreshSteady
    <2> QED BY <2>1, <2>2, BranchesStay DEF Steady
  <1>6. CASE UNCHANGED vars
    BY <1>1, <1>6, BranchesStay DEF vars, At
  <1> QED BY <1>2, <1>3, <1>4, <1>5, <1>6 DEF Adjusts

\* The inductive invariant of the commands.
LEMMA InvHolds ==
  ASSUME Events = {}
  PROVE  Spec => [](Orderly /\ Placed)
  <1>1. Init => Orderly /\ Placed
    <2> SUFFICES ASSUME Init PROVE Orderly /\ Placed
      OBVIOUS
    <2>1. /\ \A d \in Decks : deck[d] = Nothing
          /\ \A i \in Slots : ~Running(i)
          /\ \A n \in Nodes : graph.node[n] = Nothing
          /\ ~manager.recording
      BY DEF Init, EmptyGraph, Running
    <2>2. Orderly
      BY <2>1 DEF Orderly, Apart, Holds
    <2>3. Placed
      BY <2>1 DEF Placed, CensusAgrees, Holds, Absent, At
    <2> QED BY <2>2, <2>3
  <1>2. TypeOK /\ Orderly /\ Placed /\ [Next]_vars => (Orderly /\ Placed)'
    <2> SUFFICES ASSUME TypeOK, Orderly, Placed, [Next]_vars PROVE Orderly' /\ Placed'
      OBVIOUS
    <2>1. ASSUME NEW i \in Slots, Step(i) PROVE Orderly' /\ Placed'
      BY <2>1, TakeNextInv, LoadsInv, RejoinsInv, ChecksInv, InsertsInv, WorksInv, FinishesInv
         DEF Step
    <2>2. ASSUME NEW i \in Slots, Asks(i) PROVE Orderly' /\ Placed'
      <3>1. ASSUME NEW d \in Decks, BeginLoad(i, d) PROVE Orderly' /\ Placed'
        BY <3>1, BeginLoadInv
      <3>2. ASSUME NEW d \in Decks, NEW op \in {"play", "pause"}, BeginTransport(i, d, op)
            PROVE  Orderly' /\ Placed'
        BY <3>2, BeginTransportInv
      <3>3. ASSUME NEW l \in MainLists, BeginDevices(i, l) PROVE Orderly' /\ Placed'
        BY <3>3, BeginDevicesInv
      <3>4. ASSUME NEW d \in CueDevices \cup {NoCue}, BeginCue(i, d) PROVE Orderly' /\ Placed'
        BY <3>4, BeginCueInv
      <3> QED BY <2>2, <3>1, <3>2, <3>3, <3>4, BeginStartInv, BeginStopInv DEF Asks
    <2>3. ASSUME NEW d \in Decks, Unload(d) PROVE Orderly' /\ Placed'
      BY <2>3, UnloadInv
    <2> QED BY <2>1, <2>2, <2>3, AdjustInv DEF Next
  <1> QED BY <1>1, <1>2, TypeCorrect, PTL DEF Spec

----------------------------------------------------------------------------
(* What the invariants say. *)

\* When no command is under way, every deck in the map has everything.
LEMMA QuietDone ==
  ASSUME TypeOK, Orderly, Placed, Quiet, NEW d \in Decks, deck[d] # Nothing
  PROVE  Done(deck[d]) /\ Seated(graph, d, deck[d]) /\ deck[d] \in PipelineRec
  <1>1. ~Awaited(d)
    BY DEF Quiet, Awaited
  <1> QED BY <1>1, RestIsDone

\* When every command has ended, a deck that is loaded plays exactly if it was last asked
\* to, whatever devices it was rebuilt for.
THEOREM PlaysAsAskedHolds ==
  ASSUME Events = {}
  PROVE  Spec => []PlaysAsAsked
  <1>1. TypeOK /\ Orderly /\ Placed => PlaysAsAsked
    BY QuietDone DEF PlaysAsAsked, Done, InTune
  <1> QED BY <1>1, TypeCorrect, InvHolds, PTL

\* When every command has ended, the decks that are loaded are in the recording under way,
\* each with its branch on the recording's node, and none is tapped when there is none.
THEOREM RecordingHearsAllHolds ==
  ASSUME Events = {}
  PROVE  Spec => []RecordingHearsAll
  <1>1. TypeOK /\ Orderly /\ Placed => RecordingHearsAll
    <2> SUFFICES ASSUME TypeOK, Orderly, Placed, Quiet,
                        NEW d \in Decks, deck[d] # Nothing, Loaded(deck[d])
                 PROVE  /\ deck[d].tap = manager.recording
                        /\ deck[d].tap => <<d, "record">> \in graph.node[RecordNode].branches
      BY DEF RecordingHearsAll
    <2>1. Done(deck[d]) /\ Seated(graph, d, deck[d]) /\ deck[d] \in PipelineRec
      BY QuietDone
    <2>2. deck[d].tap = manager.recording
      <3>1. deck[d].tap \in BOOLEAN /\ manager.recording \in BOOLEAN
        BY <2>1 DEF PipelineRec, TypeOK, ManagerRec
      <3>2. deck[d].tap <=> manager.recording
        BY <2>1 DEF Done, Whole
      <3> QED BY <3>1, <3>2
    <2>3. deck[d].tap => At(graph, RecordNode, d, "record")
      BY <2>1, NodesTyped DEF Done, Whole, Seated, Place, Channels
    <2> QED BY <2>2, <2>3 DEF At
  <1> QED BY <1>1, TypeCorrect, InvHolds, PTL

\* Where a deck's pipeline is, it is seated; a deck with no pipeline has no branch.
LEMMA PipelineSeated ==
  ASSUME TypeOK, Orderly, Placed, NEW d \in Decks
  PROVE  \/ PipelineOf(d) = Nothing /\ Absent(graph, d)
         \/ PipelineOf(d) # Nothing /\ PipelineOf(d) \in PipelineRec
            /\ Seated(graph, d, PipelineOf(d))
  <1>1. CASE \E i \in Slots : Holds(i, d)
    <2> DEFINE j == CHOOSE i \in Slots : Holds(i, d)
    <2>1. j \in Slots /\ Holds(j, d)
      BY <1>1
    <2>2. PipelineOf(d) = cmd[j].held
      BY <1>1 DEF PipelineOf
    <2> HIDE DEF j
    <2>3. Seated(graph, d, cmd[j].held) /\ cmd[j].held \in PipelineRec
      BY <2>1 DEF Placed, Orderly, InHand, Whole
    <2> QED BY <2>2, <2>3, NoPipelineAssumption
  <1>2. CASE ~\E i \in Slots : Holds(i, d)
    <2>1. PipelineOf(d) = deck[d] /\ ~Detached(d)
      BY <1>2 DEF PipelineOf, Detached
    <2> QED BY <2>1 DEF Placed, TypeOK, DecksOK
  <1> QED BY <1>1, <1>2

\* The sources of a node are its branches; each branch is one of the outputs its deck's
\* pipeline will give back, and each of those is one branch, wherever the pipeline is.
THEOREM BranchesAreOutputsHolds ==
  ASSUME Events = {}
  PROVE  Spec => []BranchesAreOutputs
  <1>1. TypeOK /\ Orderly /\ Placed => BranchesAreOutputs
    <2> SUFFICES ASSUME TypeOK, Orderly, Placed PROVE BranchesAreOutputs
      OBVIOUS
    <2>1. GraphOK(graph) /\ CensusAgrees(graph)
      BY DEF TypeOK, Placed
    <2>2. ASSUME NEW n \in Nodes, graph.node[n] # Nothing, NEW k \in graph.node[n].branches
          PROVE  PipelineOf(k[1]) # Nothing /\ k[2] \in PipelineOf(k[1]).keys
      <3>1. k \in Keys
        BY <2>1, <2>2 DEF GraphOK, GraphRec, NodeRec
      <3>2. k[1] \in Decks /\ k[2] \in Channels /\ At(graph, n, k[1], k[2])
        BY <2>2, <3>1 DEF Keys, At
      <3>3. ~Absent(graph, k[1])
        BY <3>2 DEF Absent
      <3>4. PipelineOf(k[1]) # Nothing /\ Seated(graph, k[1], PipelineOf(k[1]))
        BY <3>2, <3>3, PipelineSeated
      <3> QED BY <3>2, <3>4 DEF Seated
    <2>3. ASSUME NEW d \in Decks, PipelineOf(d) # Nothing, NEW c \in PipelineOf(d).keys
          PROVE  Cardinality(Holders(graph, <<d, c>>)) = 1
      <3> DEFINE p == PipelineOf(d)
      <3>1. p \in PipelineRec /\ Seated(graph, d, p)
        BY <2>3, PipelineSeated
      <3> HIDE DEF p
      <3>2. c \in Channels
        BY <2>3, <3>1 DEF PipelineRec, p
      <3>3. Place(p, c) \in Nodes
        <4>1. CASE c = "record"
          BY <4>1, NodesTyped DEF Place
        <4>2. CASE c # "record"
          <5>1. OutputOf(p, c) \in Devices
            BY <2>3, <3>1, <4>2, OutputTyped DEF Seated, p
          <5> QED BY <4>2, <5>1, NodesTyped DEF Place
        <4> QED BY <4>1, <4>2
      <3>4. \A n \in Nodes : At(graph, n, d, c) <=> n = Place(p, c)
        BY <2>3, <3>1, <3>2 DEF Seated, p
      <3>5. Holders(graph, <<d, c>>) = {Place(p, c)}
        BY <3>3, <3>4 DEF Holders, At
      <3>6. Cardinality({Place(p, c)}) = 1
        BY FS_Singleton
      <3> QED BY <3>5, <3>6
    <2> QED BY <2>1, <2>2, <2>3 DEF BranchesAreOutputs
  <1> QED BY <1>1, TypeCorrect, InvHolds, PTL

\* When every command has ended, each deck has the devices of the settings and no output
\* but on their nodes; the delay and the volume that were last set hold on every node, and
\* each deck takes its own delay from the node of its first main output.
THEOREM SettingsArriveHolds ==
  ASSUME Events = {}
  PROVE  Spec => []SettingsArrive
  <1>1. TypeOK /\ TapInv /\ Orderly /\ Placed => SettingsArrive
    <2> SUFFICES ASSUME TypeOK, TapInv, Orderly, Placed PROVE SettingsArrive
      OBVIOUS
    <2>1. GraphOK(graph)
      BY DEF TypeOK
    <2>2. ASSUME Quiet, NEW d \in Mapped
          PROVE  deck[d].devices = manager.main /\ deck[d].cue = manager.cue
      BY <2>2, QuietDone DEF Mapped, Done
    <2>3. ASSUME Quiet, NEW d \in Mapped, NEW n \in Nodes \ {RecordNode},
                 graph.node[n] # Nothing, NEW k \in graph.node[n].branches, k[1] = d
          PROVE  OutputOf(deck[d], k[2]) # NoCue /\ KeyNode(OutputOf(deck[d], k[2])) = n
      <3>1. Seated(graph, d, deck[d]) /\ d \in Decks
        BY <2>3, QuietDone DEF Mapped
      <3>2. k \in Keys
        BY <2>1, <2>3 DEF GraphOK, GraphRec, NodeRec
      <3>3. k[2] \in Channels /\ At(graph, n, d, k[2])
        BY <2>3, <3>2 DEF Keys, At
      <3>4. k[2] \in deck[d].keys /\ n = Place(deck[d], k[2])
        BY <3>1, <3>3 DEF Seated
      <3>5. k[2] # "record"
        BY <3>4 DEF Place
      <3> QED BY <3>1, <3>4, <3>5 DEF Seated, Place
    <2>4. ASSUME NEW n \in Nodes, graph.node[n] # Nothing
          PROVE  graph.node[n].delay = graph.extra[n] /\ graph.node[n].volume = graph.master
      BY <2>4 DEF TapInv, Settled
    <2>5. ASSUME NEW d \in Decks, PipelineOf(d) # Nothing, "main0" \in PipelineOf(d).keys
          PROVE  <<d, "main0">> \in graph.node[PipelineOf(d).latency].branches
      <3> DEFINE p == PipelineOf(d)
      <3>1. p \in PipelineRec /\ Seated(graph, d, p)
        BY <2>5, PipelineSeated
      <3>2. p.latency = Place(p, "main0") /\ OutputOf(p, "main0") \in Devices
        BY <2>5, <3>1, OutputTyped DEF Seated
      <3>3. Place(p, "main0") \in Nodes
        BY <3>2, NodesTyped DEF Place
      <3>4. At(graph, p.latency, d, "main0")
        BY <2>5, <3>1, <3>2, <3>3 DEF Seated, Channels, MainChannels
      <3> QED BY <3>4 DEF At
    <2> QED BY <2>2, <2>3, <2>4, <2>5 DEF SettingsArrive
  <1> QED BY <1>1, TypeCorrect, TapInvHolds, InvHolds, PTL
=============================================================================
