---------------------------- MODULE MixerProofs ----------------------------
(***************************************************************************)
(* The safety properties of the two models of mixer.c.                     *)
(*                                                                         *)
(* Mixer, for every sound card and every mixer configuration.  What the    *)
(* two operations on a direction, set_route and set_state, may do to it is *)
(* stated once, as a contract that every one of their outcomes meets; what *)
(* the entry points keep follows from it, one direction at a time, because *)
(* no direction's own controls are written for another.                    *)
(*                                                                         *)
(* MixerConfig, for documents of any length.  What the parser holds after  *)
(* each element is what the part of the document read so far says.  Two    *)
(* facts make each step keep this: the element just read comes behind all  *)
(* others, and a document that conforms did so before its last element.    *)
(***************************************************************************)
EXTENDS Mixer, MixerConfig, FiniteSetTheorems, SequenceTheorems, NaturalsInduction,
        WellFoundedInduction, TLAPS

Card == [Ctl -> Nat]

\* Every list of a direction.
Lists(dir) == {Enable[dir][d] : d \in Configured(dir)} \cup {Disable[dir][d] : d \in Configured(dir)}

Writes(entries, c) == WritesTo(entries, Len(entries), c) # {}

\* InForce, on a card that holds h.
InForceOn(h, dir, entries) ==
  \A c \in Fixed(dir) :
    Writes(entries, c) => h[c] = entries[LastOf(WritesTo(entries, Len(entries), c))].val

\* The devices of a direction whose enable lists may have left a mark.
Enabled(dir, i) ==
  IF i.state THEN {i.current, DefaultDevice(dir)} \cap Configured(dir) ELSE {}

\* The direction's own controls are as they were found, except those that a
\* device that is enabled writes.
Residue(h, dir, i) ==
  \A c \in Fixed(dir) :
    h[c] = PowerOn[c] \/ \E d \in Enabled(dir, i) : Writes(Enable[dir][d], c)

\* The record of a direction: only a configured device is ever current, and
\* none while the direction is off.
GoodIo(dir, i) ==
  /\ i \in IoState
  /\ i.current \in Configured(dir) \cup {NoDevice}
  /\ ~i.state => i.current = NoDevice

IsOn(i) == i.state = TRUE

\* What an operation that began with record i and card h may end with.
Contract(dir, i, h, o) ==
  /\ o.hw \in Card /\ o.ok \in BOOLEAN /\ o.ran \in BOOLEAN
  /\ GoodIo(dir, o.io)
  /\ \A c \in Ctl \ CtlsOf(dir) : o.hw[c] = h[c]
  /\ ~o.ran => o.io = i /\ o.hw = h
  /\ o.ran /\ o.ok /\ o.io.current # NoDevice => InForceOn(o.hw, dir, Enable[dir][o.io.current])
  /\ Tidy /\ o.ok /\ Residue(h, dir, i) => Residue(o.hw, dir, o.io)

\* What is true of a direction with record i and fault f on a card that holds h.
DirectionIs(dir, i, h, f) ==
  /\ GoodIo(dir, i) /\ f \in Fault
  /\ f # "last" /\ i.current # NoDevice => InForceOn(h, dir, Enable[dir][i.current])
  /\ Tidy /\ f = "none" => Residue(h, dir, i)

MixerIInv ==
  /\ TypeOK
  /\ ~opened => io = FreshIo
  /\ \A dir \in Direction : DirectionIs(dir, io[dir], hw, fault[dir])
  /\ SuccessMovesAll
-----------------------------------------------------------------------------
(* Control lists. *)

LEMMA LeastIsThere ==
  ASSUME NEW S \in SUBSET Nat, S # {}
  PROVE  \E i \in S : \A j \in S : i <= j
<1>1. PICK i \in S : \A j \in S : ~(<<j, i>> \in OpToRel(<, Nat))
  BY NatLessThanWellFounded, WFMin
<1>2. ASSUME NEW j \in S PROVE i <= j
  <2>1. i \in Nat /\ j \in Nat
    OBVIOUS
  <2>2. ~(j < i)
    BY <1>1, <2>1, Zenon DEF OpToRel
  <2> QED BY <2>1, <2>2
<1> QED BY <1>2

LEMMA FirstIsIn ==
  ASSUME NEW S \in SUBSET Nat, S # {}
  PROVE  FirstOf(S) \in S
  BY LeastIsThere DEF FirstOf

LEMMA LastIsIn ==
  ASSUME NEW n \in Nat, NEW S \in SUBSET (1..n), S # {}
  PROVE  LastOf(S) \in S
<1> DEFINE T == {n - i : i \in S}
<1>1. T \in SUBSET Nat /\ T # {} /\ \A i \in S : n - i \in T
  OBVIOUS
<1> HIDE DEF T
<1>2. PICK m \in T : \A j \in T : m <= j
  BY <1>1, LeastIsThere
<1>3. PICK k \in S : m = n - k
  BY DEF T
<1>4. ASSUME NEW j \in S PROVE j <= k
  <2>1. n - k <= n - j
    BY <1>1, <1>2, <1>3
  <2> QED BY <2>1
<1> QED BY <1>4 DEF LastOf

LEMMA ListTypes ==
  ASSUME NEW dir \in Direction
  PROVE  /\ Configured(dir) \subseteq Device
         /\ NoDevice \notin Configured(dir)
         /\ Lists(dir) \subseteq Seq(Entry)
         /\ \A d \in Configured(dir) : Enable[dir][d] \in Lists(dir) /\ Disable[dir][d] \in Lists(dir)
  BY ConfigAssumption, DeviceAssumption DEF Lists

LEMMA EntriesAreOfLists ==
  ASSUME NEW dir \in Direction, NEW entries \in Lists(dir), NEW i \in 1..Len(entries)
  PROVE  entries[i] \in Entry /\ entries[i] \in EntriesOf(dir) /\ entries[i].ctl \in CtlsOf(dir)
<1>1. entries \in Seq(Entry) /\ entries[i] \in Entry /\ i \in DOMAIN entries
  BY ListTypes
<1>2. entries[i] \in EntriesOf(dir)
  <2>1. PICK d \in Configured(dir) : entries = Enable[dir][d] \/ entries = Disable[dir][d]
    BY DEF Lists
  <2> DEFINE each == {entries[j] : j \in DOMAIN entries}
             all == {{lists[dir][e][j] : j \in DOMAIN lists[dir][e]} :
                       e \in Configured(dir), lists \in {Enable, Disable}}
  <2>2. each \in all /\ entries[i] \in each
    BY <1>1, <2>1
  <2>3. EntriesOf(dir) = UNION all
    BY DEF EntriesOf
  <2> HIDE DEF each, all
  <2> QED BY <2>2, <2>3
<1> QED BY <1>1, <1>2 DEF CtlsOf

LEMMA OwnControls ==
  ASSUME NEW dir \in Direction
  PROVE  /\ CtlsOf(dir) \subseteq Ctl
         /\ Fixed(dir) \subseteq CtlsOf(dir)
         /\ \A other \in Direction \ {dir} : Fixed(dir) \cap CtlsOf(other) = {}
         /\ Fixed(dir) \cap AttrCtls = {}
<1>1. EntriesOf(dir) \subseteq Entry
  BY ConfigAssumption DEF EntriesOf
<1>2. CtlsOf(dir) \subseteq Ctl
  BY <1>1 DEF CtlsOf, Entry
<1> QED BY <1>2 DEF Fixed

LEMMA AfterIs ==
  ASSUME NEW dir \in Direction, NEW entries \in Lists(dir), NEW n \in 0..Len(entries), NEW h \in Card
  PROVE  /\ After(entries, n, h) \in Card
         /\ \A c \in Ctl : After(entries, n, h)[c] =
              IF WritesTo(entries, n, c) = {} THEN h[c] ELSE entries[LastOf(WritesTo(entries, n, c))].val
         /\ \A c \in Ctl \ CtlsOf(dir) : After(entries, n, h)[c] = h[c]
<1>1. entries \in Seq(Entry) /\ 1..n \subseteq 1..Len(entries) /\ n \in Nat
  BY ListTypes
<1>2. \A c \in Ctl : WritesTo(entries, n, c) \in SUBSET (1..n)
  BY DEF WritesTo
<1>3. ASSUME NEW c \in Ctl, WritesTo(entries, n, c) # {}
      PROVE  entries[LastOf(WritesTo(entries, n, c))].val \in Nat
  <2>1. LastOf(WritesTo(entries, n, c)) \in 1..Len(entries)
    BY <1>1, <1>2, <1>3, LastIsIn
  <2> QED BY <1>1, <2>1, EntriesAreOfLists DEF Entry
<1>4. ASSUME NEW c \in Ctl \ CtlsOf(dir) PROVE WritesTo(entries, n, c) = {}
  BY <1>1, EntriesAreOfLists DEF WritesTo
<1> QED BY <1>3, <1>4 DEF After, Card

\* What running a list of a direction does, whole or in part.
LEMMA ListIsRun ==
  ASSUME NEW dir \in Direction, NEW entries \in Lists(dir), NEW h \in Card,
         NEW x \in set_route_list(entries, h)
  PROVE  /\ x.hw \in Card /\ x.ok \in BOOLEAN
         /\ \A c \in Ctl \ CtlsOf(dir) : x.hw[c] = h[c]
         /\ x.ok => \A c \in Ctl : x.hw[c] =
              IF Writes(entries, c) THEN entries[LastOf(WritesTo(entries, Len(entries), c))].val ELSE h[c]
<1>1. entries \in Seq(Entry) /\ Len(entries) \in 0..Len(entries)
  BY ListTypes
<1>2. CASE x = [hw |-> After(entries, Len(entries), h), ok |-> TRUE]
  BY <1>1, <1>2, AfterIs DEF Writes
<1>3. CASE \E n \in FailPoints(entries) : x = [hw |-> After(entries, n, h), ok |-> FALSE]
  BY <1>1, <1>3, AfterIs DEF FailPoints
<1> QED BY <1>2, <1>3 DEF set_route_list

-----------------------------------------------------------------------------
(* Every outcome of an operation on a direction meets the contract. *)

LEMMA Unused ==
  ASSUME NEW dir \in Direction, NEW i, GoodIo(dir, i), NEW h \in Card, NEW ok \in BOOLEAN
  PROVE  Contract(dir, i, h, Outcome(i, h, ok, FALSE))
  BY DEF Contract, Outcome

\* A device that is current, or the default, is disabled without a trace.
LEMMA DisableUndoes ==
  ASSUME Tidy, NEW dir \in Direction, NEW d \in Configured(dir), NEW h \in Card,
         NEW x \in set_route_list(Disable[dir][d], h), x.ok, NEW c \in Fixed(dir)
  PROVE  /\ Writes(Enable[dir][d], c) => x.hw[c] = PowerOn[c]
         /\ x.hw[c] = h[c] \/ x.hw[c] = PowerOn[c]
<1>1. c \in Ctl /\ Disable[dir][d] \in Lists(dir)
  BY OwnControls, ListTypes
<1>2. x.hw[c] = IF Writes(Disable[dir][d], c)
                THEN Disable[dir][d][LastOf(WritesTo(Disable[dir][d], Len(Disable[dir][d]), c))].val
                ELSE h[c]
  BY <1>1, ListIsRun
<1> QED BY <1>2 DEF Tidy, Writes

\* What the outcomes of leaving device d, or of having none to leave, are.
Leaving(dir, d, h) == IF d = NoDevice THEN Skip(h) ELSE set_route_list(Disable[dir][d], h)

LEMMA LeavingIs ==
  ASSUME NEW dir \in Direction, NEW d \in Configured(dir) \cup {NoDevice}, NEW h \in Card,
         NEW x \in Leaving(dir, d, h)
  PROVE  /\ x.hw \in Card /\ x.ok \in BOOLEAN
         /\ \A c \in Ctl \ CtlsOf(dir) : x.hw[c] = h[c]
         /\ Tidy /\ x.ok => \A c \in Fixed(dir) :
              /\ d # NoDevice /\ Writes(Enable[dir][d], c) => x.hw[c] = PowerOn[c]
              /\ x.hw[c] = h[c] \/ x.hw[c] = PowerOn[c]
<1>1. CASE d = NoDevice
  <2>1. x = [hw |-> h, ok |-> TRUE]
    BY <1>1 DEF Leaving, Skip
  <2>2. x.hw = h /\ x.ok = TRUE
    BY <2>1
  <2> QED BY <1>1, <2>2
<1>2. CASE d # NoDevice
  <2>1. d \in Configured(dir) /\ Disable[dir][d] \in Lists(dir)
    BY <1>2, ListTypes
  <2>2. x \in set_route_list(Disable[dir][d], h)
    BY <1>2 DEF Leaving
  <2>3. /\ x.hw \in Card /\ x.ok \in BOOLEAN
        /\ \A c \in Ctl \ CtlsOf(dir) : x.hw[c] = h[c]
    BY <2>1, <2>2, ListIsRun
  <2>4. ASSUME Tidy, x.ok, NEW c \in Fixed(dir)
        PROVE  /\ Writes(Enable[dir][d], c) => x.hw[c] = PowerOn[c]
               /\ x.hw[c] = h[c] \/ x.hw[c] = PowerOn[c]
    BY <2>1, <2>2, <2>4, DisableUndoes
  <2> QED BY <2>3, <2>4
<1> QED BY <1>1, <1>2

\* What enabling device d does.
LEMMA EnteringIs ==
  ASSUME NEW dir \in Direction, NEW d \in Configured(dir), NEW h \in Card,
         NEW y \in set_route_list(Enable[dir][d], h)
  PROVE  /\ y.hw \in Card /\ y.ok \in BOOLEAN
         /\ \A c \in Ctl \ CtlsOf(dir) : y.hw[c] = h[c]
         /\ y.ok => /\ InForceOn(y.hw, dir, Enable[dir][d])
                    /\ \A c \in Fixed(dir) : Writes(Enable[dir][d], c) \/ y.hw[c] = h[c]
<1>1. Fixed(dir) \subseteq Ctl /\ Enable[dir][d] \in Lists(dir)
  BY OwnControls, ListTypes
<1> QED BY <1>1, ListIsRun DEF InForceOn

\* set_route: nothing is done, the current device could not be disabled, or it
\* was and the new one is being enabled.
LEMMA RouteKeepsContract ==
  ASSUME NEW dir \in Direction, NEW d \in Device, NEW i, GoodIo(dir, i), IsOn(i),
         NEW h \in Card, NEW o \in set_route(dir, d, i, h)
  PROVE  /\ Contract(dir, i, h, o)
         /\ o.io.state = i.state
         /\ o.ok => o.io.current = d
<1>0. i.current \in Configured(dir) \cup {NoDevice} /\ i \in IoState
  BY DEF GoodIo
<1>1. CASE o = Outcome(i, h, FALSE, FALSE)
  BY <1>1, Unused DEF Outcome
<1>2. CASE d = i.current /\ o = Outcome(i, h, TRUE, FALSE)
  BY <1>2, Unused DEF Outcome
<1>3. ASSUME NEW x \in Leaving(dir, i.current, h), ~x.ok, o = Outcome(i, x.hw, FALSE, TRUE)
      PROVE  Contract(dir, i, h, o) /\ o.io.state = i.state /\ (o.ok => o.io.current = d)
  <2>1. o.io = i /\ o.hw = x.hw /\ o.ok = FALSE /\ o.ran = TRUE
    BY <1>3 DEF Outcome
  <2>2. x.hw \in Card /\ \A c \in Ctl \ CtlsOf(dir) : x.hw[c] = h[c]
    BY <1>0, <1>3, LeavingIs
  <2> QED BY <2>1, <2>2 DEF Contract
<1>4. ASSUME d \in Configured(dir), NEW x \in Leaving(dir, i.current, h), x.ok,
             NEW y \in set_route_list(Enable[dir][d], x.hw),
             o = Outcome(IF y.ok THEN [i EXCEPT !.current = d] ELSE i, y.hw, y.ok, TRUE)
      PROVE  Contract(dir, i, h, o) /\ o.io.state = i.state /\ (o.ok => o.io.current = d)
  <2>1. /\ x.hw \in Card
        /\ \A c \in Ctl \ CtlsOf(dir) : x.hw[c] = h[c]
        /\ Tidy => \A c \in Fixed(dir) :
             /\ i.current # NoDevice /\ Writes(Enable[dir][i.current], c) => x.hw[c] = PowerOn[c]
             /\ x.hw[c] = h[c] \/ x.hw[c] = PowerOn[c]
    BY <1>0, <1>4, LeavingIs
  <2>2. /\ y.hw \in Card /\ y.ok \in BOOLEAN
        /\ \A c \in Ctl \ CtlsOf(dir) : y.hw[c] = x.hw[c]
        /\ y.ok => /\ InForceOn(y.hw, dir, Enable[dir][d])
                   /\ \A c \in Fixed(dir) : Writes(Enable[dir][d], c) \/ y.hw[c] = x.hw[c]
    BY <1>4, <2>1, EnteringIs
  <2>3. /\ o.hw = y.hw /\ o.ok = y.ok /\ o.ran = TRUE
        /\ o.io = IF y.ok THEN [i EXCEPT !.current = d] ELSE i
    BY <1>4 DEF Outcome
  <2>4. d \in Device /\ d # NoDevice
    BY <1>4, ListTypes
  <2>5. GoodIo(dir, o.io) /\ o.io.state = i.state /\ (y.ok => o.io.current = d)
    BY <1>0, <1>4, <2>3, <2>4 DEF GoodIo, IoState, IsOn
  <2>6. ASSUME Tidy, y.ok, Residue(h, dir, i) PROVE Residue(y.hw, dir, o.io)
    <3> SUFFICES ASSUME NEW c \in Fixed(dir), y.hw[c] # PowerOn[c]
                 PROVE  \E e \in Enabled(dir, o.io) : Writes(Enable[dir][e], c)
      BY DEF Residue
    <3>1. CASE Writes(Enable[dir][d], c)
      BY <1>4, <2>5, <2>6, <3>1 DEF Enabled, IsOn
    <3>2. CASE ~Writes(Enable[dir][d], c)
      <4>1. y.hw[c] = x.hw[c] /\ x.hw[c] = h[c] /\ h[c] # PowerOn[c]
        BY <2>1, <2>2, <2>6, <3>2
      <4>2. PICK e \in Enabled(dir, i) : Writes(Enable[dir][e], c)
        BY <2>6, <4>1 DEF Residue
      <4>3. e # i.current
        BY <2>1, <2>6, <4>1, <4>2, ListTypes DEF Enabled
      <4>4. e \in Enabled(dir, o.io)
        BY <4>2, <4>3, <2>5 DEF Enabled
      <4> QED BY <4>2, <4>4
    <3> QED BY <3>1, <3>2
  <2> QED BY <2>1, <2>2, <2>3, <2>5, <2>6 DEF Contract
<1>5. CASE \E x \in Leaving(dir, i.current, h) : ~x.ok /\ o = Outcome(i, x.hw, FALSE, TRUE)
  BY <1>3, <1>5
<1>6. CASE d \in Configured(dir) /\ \E x \in Leaving(dir, i.current, h) :
             x.ok /\ \E y \in set_route_list(Enable[dir][d], x.hw) :
               o = Outcome(IF y.ok THEN [i EXCEPT !.current = d] ELSE i, y.hw, y.ok, TRUE)
  BY <1>4, <1>6
<1>7. \/ o = Outcome(i, h, FALSE, FALSE)
      \/ d = i.current /\ o = Outcome(i, h, TRUE, FALSE)
      \/ \E x \in Leaving(dir, i.current, h) : ~x.ok /\ o = Outcome(i, x.hw, FALSE, TRUE)
      \/ d \in Configured(dir) /\ \E x \in Leaving(dir, i.current, h) :
            x.ok /\ \E y \in set_route_list(Enable[dir][d], x.hw) :
              o = Outcome(IF y.ok THEN [i EXCEPT !.current = d] ELSE i, y.hw, y.ok, TRUE)
  BY DEF set_route, Leaving
<1> QED BY <1>1, <1>2, <1>5, <1>6, <1>7

\* What set_state does with the default device.
ToDefault(dir, on, h) ==
  IF DefaultDevice(dir) \notin Configured(dir) THEN Skip(h)
  ELSE IF on THEN set_route_list(Enable[dir][DefaultDevice(dir)], h)
  ELSE set_route_list(Disable[dir][DefaultDevice(dir)], h)

LEMMA ToDefaultIs ==
  ASSUME NEW dir \in Direction, NEW on \in BOOLEAN, NEW h \in Card, NEW y \in ToDefault(dir, on, h)
  PROVE  /\ y.hw \in Card /\ y.ok \in BOOLEAN
         /\ \A c \in Ctl \ CtlsOf(dir) : y.hw[c] = h[c]
         /\ Tidy /\ y.ok /\ ~on => \A c \in Fixed(dir) :
              /\ DefaultDevice(dir) \in Configured(dir) /\ Writes(Enable[dir][DefaultDevice(dir)], c)
                   => y.hw[c] = PowerOn[c]
              /\ y.hw[c] = h[c] \/ y.hw[c] = PowerOn[c]
         /\ y.ok /\ on => \A c \in Fixed(dir) :
              \/ y.hw[c] = h[c]
              \/ DefaultDevice(dir) \in Configured(dir) /\ Writes(Enable[dir][DefaultDevice(dir)], c)
<1> DEFINE d == DefaultDevice(dir)
<1>1. CASE d \notin Configured(dir)
  <2>1. y = [hw |-> h, ok |-> TRUE]
    BY <1>1 DEF ToDefault, Skip
  <2>2. y.hw = h /\ y.ok = TRUE
    BY <2>1
  <2> QED BY <1>1, <2>2
<1>2. CASE d \in Configured(dir) /\ on
  <2>1. y \in set_route_list(Enable[dir][d], h)
    BY <1>2 DEF ToDefault
  <2> HIDE DEF d
  <2>2. /\ y.hw \in Card /\ y.ok \in BOOLEAN
        /\ \A c \in Ctl \ CtlsOf(dir) : y.hw[c] = h[c]
        /\ y.ok => \A c \in Fixed(dir) : Writes(Enable[dir][d], c) \/ y.hw[c] = h[c]
    BY <1>2, <2>1, EnteringIs
  <2> QED BY <1>2, <2>2 DEF d
<1>3. CASE d \in Configured(dir) /\ ~on
  <2>1. d # NoDevice
    BY <1>3, ListTypes
  <2>2. y \in Leaving(dir, d, h)
    BY <1>3, <2>1 DEF ToDefault, Leaving
  <2> HIDE DEF d
  <2>3. /\ y.hw \in Card /\ y.ok \in BOOLEAN
        /\ \A c \in Ctl \ CtlsOf(dir) : y.hw[c] = h[c]
        /\ Tidy /\ y.ok => \A c \in Fixed(dir) :
             /\ Writes(Enable[dir][d], c) => y.hw[c] = PowerOn[c]
             /\ y.hw[c] = h[c] \/ y.hw[c] = PowerOn[c]
    BY <1>3, <2>1, <2>2, LeavingIs
  <2> QED BY <1>3, <2>3 DEF d
<1> QED BY <1>1, <1>2, <1>3

\* set_state: nothing is done, the current device could not be disabled, or it
\* was and the default device is being switched.
LEMMA StateKeepsContract ==
  ASSUME NEW dir \in Direction, NEW on \in BOOLEAN, NEW i, GoodIo(dir, i),
         NEW h \in Card, NEW o \in set_state(dir, on, i, h)
  PROVE  /\ Contract(dir, i, h, o)
         /\ o.ok => o.io.state = on
         /\ ~o.ok => o.io = i
<1>0. i.current \in Configured(dir) \cup {NoDevice} /\ i \in IoState /\ (~i.state => i.current = NoDevice)
  BY DEF GoodIo
<1>1. CASE o = Outcome(i, h, FALSE, FALSE)
  BY <1>1, Unused DEF Outcome
<1>2. CASE i.state = on /\ o = Outcome(i, h, TRUE, FALSE)
  BY <1>2, Unused DEF Outcome
<1>3. ASSUME NEW x \in Leaving(dir, i.current, h), ~x.ok, o = Outcome(i, x.hw, FALSE, TRUE)
      PROVE  Contract(dir, i, h, o) /\ (o.ok => o.io.state = on) /\ (~o.ok => o.io = i)
  <2>1. o.io = i /\ o.hw = x.hw /\ o.ok = FALSE /\ o.ran = TRUE
    BY <1>3 DEF Outcome
  <2>2. x.hw \in Card /\ \A c \in Ctl \ CtlsOf(dir) : x.hw[c] = h[c]
    BY <1>0, <1>3, LeavingIs
  <2> QED BY <2>1, <2>2 DEF Contract
<1>4. ASSUME i.state # on, NEW x \in Leaving(dir, i.current, h), x.ok, NEW y \in ToDefault(dir, on, x.hw),
             o = Outcome(IF y.ok THEN [state |-> on, current |-> NoDevice] ELSE i, y.hw, y.ok, TRUE)
      PROVE  Contract(dir, i, h, o) /\ (o.ok => o.io.state = on) /\ (~o.ok => o.io = i)
  <2>1. /\ x.hw \in Card
        /\ \A c \in Ctl \ CtlsOf(dir) : x.hw[c] = h[c]
        /\ Tidy => \A c \in Fixed(dir) :
             /\ i.current # NoDevice /\ Writes(Enable[dir][i.current], c) => x.hw[c] = PowerOn[c]
             /\ x.hw[c] = h[c] \/ x.hw[c] = PowerOn[c]
    BY <1>0, <1>4, LeavingIs
  <2> DEFINE d == DefaultDevice(dir)
  <2>2. /\ y.hw \in Card /\ y.ok \in BOOLEAN
        /\ \A c \in Ctl \ CtlsOf(dir) : y.hw[c] = x.hw[c]
        /\ Tidy /\ y.ok /\ ~on => \A c \in Fixed(dir) :
             /\ d \in Configured(dir) /\ Writes(Enable[dir][d], c) => y.hw[c] = PowerOn[c]
             /\ y.hw[c] = x.hw[c] \/ y.hw[c] = PowerOn[c]
        /\ y.ok /\ on => \A c \in Fixed(dir) :
             y.hw[c] = x.hw[c] \/ (d \in Configured(dir) /\ Writes(Enable[dir][d], c))
    BY <1>4, <2>1, ToDefaultIs
  <2> HIDE DEF d
  <2>3. /\ o.hw = y.hw /\ o.ok = y.ok /\ o.ran = TRUE
        /\ o.io = IF y.ok THEN [state |-> on, current |-> NoDevice] ELSE i
    BY <1>4 DEF Outcome
  <2>4. GoodIo(dir, o.io) /\ (y.ok => o.io.state = on /\ o.io.current = NoDevice) /\ (~y.ok => o.io = i)
    BY <1>0, <2>3 DEF GoodIo, IoState
  <2>5. ASSUME Tidy, y.ok, Residue(h, dir, i) PROVE Residue(y.hw, dir, o.io)
    <3> SUFFICES ASSUME NEW c \in Fixed(dir), y.hw[c] # PowerOn[c]
                 PROVE  \E e \in Enabled(dir, o.io) : Writes(Enable[dir][e], c)
      BY DEF Residue
    <3>1. CASE on
      <4>1. h[c] = PowerOn[c]
        BY <1>0, <1>4, <2>5, <3>1 DEF Residue, Enabled
      <4>2. d \in Configured(dir) /\ Writes(Enable[dir][d], c)
        BY <2>1, <2>2, <2>5, <3>1, <4>1
      <4> QED BY <2>4, <2>5, <3>1, <4>2 DEF Enabled, d
    <3>2. CASE ~on
      <4>1. /\ y.hw[c] = x.hw[c] /\ x.hw[c] = h[c] /\ h[c] # PowerOn[c]
            /\ ~(d \in Configured(dir) /\ Writes(Enable[dir][d], c))
            /\ ~(i.current # NoDevice /\ Writes(Enable[dir][i.current], c))
        BY <2>1, <2>2, <2>5, <3>2
      <4>2. PICK e \in Enabled(dir, i) : Writes(Enable[dir][e], c)
        BY <2>5, <4>1 DEF Residue
      <4>3. e \in Configured(dir) /\ e # NoDevice /\ (e = i.current \/ e = d)
        BY <4>2, ListTypes DEF Enabled, d
      <4> QED BY <4>1, <4>2, <4>3
    <3> QED BY <3>1, <3>2
  <2> QED BY <2>1, <2>2, <2>3, <2>4, <2>5 DEF Contract
<1>5. CASE \E x \in Leaving(dir, i.current, h) : ~x.ok /\ o = Outcome(i, x.hw, FALSE, TRUE)
  BY <1>3, <1>5
<1>6. CASE i.state # on /\ \E x \in Leaving(dir, i.current, h) :
             x.ok /\ \E y \in ToDefault(dir, on, x.hw) :
               o = Outcome(IF y.ok THEN [state |-> on, current |-> NoDevice] ELSE i, y.hw, y.ok, TRUE)
  BY <1>4, <1>6
<1>7. CASE i.state = on
  <2>1. o = Outcome(i, h, TRUE, FALSE)
    BY <1>7 DEF set_state
  <2> QED BY <1>2, <1>7, <2>1
<1>8. CASE i.state # on
  <2>1. (IF on \/ i.current = NoDevice THEN Skip(h) ELSE set_route_list(Disable[dir][i.current], h))
          = Leaving(dir, i.current, h)
    BY <1>0, <1>8 DEF IoState, Leaving
  <2>2. \/ o = Outcome(i, h, FALSE, FALSE)
        \/ \E x \in Leaving(dir, i.current, h) : ~x.ok /\ o = Outcome(i, x.hw, FALSE, TRUE)
        \/ \E x \in Leaving(dir, i.current, h) :
             x.ok /\ \E y \in ToDefault(dir, on, x.hw) :
               o = Outcome(IF y.ok THEN [state |-> on, current |-> NoDevice] ELSE i, y.hw, y.ok, TRUE)
    <3> DEFINE After1(x) == IF ~x.ok THEN {Outcome(i, x.hw, FALSE, TRUE)}
                 ELSE {Outcome(IF y.ok THEN [state |-> on, current |-> NoDevice] ELSE i, y.hw, y.ok, TRUE) :
                         y \in ToDefault(dir, on, x.hw)}
               First == IF on \/ i.current = NoDevice THEN Skip(h)
                        ELSE set_route_list(Disable[dir][i.current], h)
    <3>1. o \in {Outcome(i, h, FALSE, FALSE)} \cup UNION {After1(x) : x \in First}
      BY <1>8, Zenon DEF set_state, ToDefault
    <3>2. First = Leaving(dir, i.current, h)
      BY <2>1
    <3> HIDE DEF First
    <3>3. o \in {Outcome(i, h, FALSE, FALSE)} \cup UNION {After1(x) : x \in Leaving(dir, i.current, h)}
      BY <3>1, <3>2, Zenon
    <3> QED BY <3>3
  <2> QED BY <1>1, <1>5, <1>6, <1>8, <2>2
<1> QED BY <1>7, <1>8

LEMMA RouteIfOnKeepsContract ==
  ASSUME NEW dir \in Direction, NEW d \in Device, NEW i, GoodIo(dir, i),
         NEW h \in Card, NEW o \in route_if_on(dir, d, i, h)
  PROVE  /\ Contract(dir, i, h, o)
         /\ o.io.state = i.state
         /\ o.ok /\ i.state => o.io.current = d
<1>0. i.state \in BOOLEAN
  BY DEF GoodIo, IoState
<1>1. CASE i.state = TRUE
  <2>1. o \in set_route(dir, d, i, h)
    BY <1>1 DEF route_if_on
  <2>2. Contract(dir, i, h, o) /\ o.io.state = i.state /\ (o.ok => o.io.current = d)
    <3>1. IsOn(i)
      BY <1>1 DEF IsOn
    <3> QED BY <2>1, <3>1, RouteKeepsContract
  <2> QED BY <2>2
<1>2. CASE i.state = FALSE
  <2>1. o = Outcome(i, h, TRUE, FALSE)
    BY <1>2 DEF route_if_on
  <2> QED BY <1>2, <2>1, Unused DEF Outcome
<1> QED BY <1>0, <1>1, <1>2

-----------------------------------------------------------------------------
(* What is true of a direction survives an operation on it, on another     *)
(* direction, and on a volume, gain or mute.                               *)

LEMMA OwnStep ==
  ASSUME NEW dir \in Direction, NEW i, NEW h \in Card, NEW f, DirectionIs(dir, i, h, f),
         NEW o, Contract(dir, i, h, o)
  PROVE  DirectionIs(dir, o.io, o.hw, FaultAfter(f, o))
<1>0. o.ok \in BOOLEAN /\ o.ran \in BOOLEAN
  BY DEF Contract
<1>1. CASE o.ran = FALSE
  <2>1. FaultAfter(f, o) = f
    BY <1>1, Zenon DEF FaultAfter
  <2> QED BY <1>1, <2>1 DEF DirectionIs, Contract
<1>2. CASE o.ran = TRUE /\ o.ok = FALSE
  <2>1. FaultAfter(f, o) = "last"
    BY <1>2, Zenon DEF FaultAfter
  <2> QED BY <1>2, <2>1 DEF DirectionIs, Contract, Fault
<1>3. CASE o.ran = TRUE /\ o.ok = TRUE
  <2>1. FaultAfter(f, o) = IF f = "none" THEN "none" ELSE "past"
    BY <1>3, Zenon DEF FaultAfter
  <2>2. FaultAfter(f, o) \in Fault /\ (FaultAfter(f, o) = "none" => f = "none")
    BY <2>1 DEF Fault
  <2> QED BY <1>3, <2>2 DEF DirectionIs, Contract
<1> QED BY <1>0, <1>1, <1>2, <1>3

\* tinyalsa_mixer_close: the record goes, whatever state the direction is in.
LEMMA CloseStep ==
  ASSUME NEW dir \in Direction, NEW i, NEW h \in Card, NEW f, DirectionIs(dir, i, h, f),
         NEW o, Contract(dir, i, h, o), o.ok => ~o.io.state
  PROVE  DirectionIs(dir, FreshIo[dir], o.hw, FaultAtClose(f, o))
<1>0. o.ok \in BOOLEAN /\ o.ran \in BOOLEAN
  BY DEF Contract
<1>1. FreshIo[dir].state = FALSE /\ FreshIo[dir].current = NoDevice /\ FreshIo[dir] \in IoState
  BY DEF FreshIo, IoState
<1>2. GoodIo(dir, FreshIo[dir])
  BY <1>1 DEF GoodIo
<1>3. /\ FaultAtClose(f, o) = "none" => o.ok = TRUE /\ f = "none"
      /\ FaultAtClose(f, o) \in Fault
  <2>1. CASE o.ok = FALSE
    BY <2>1 DEF FaultAtClose, Fault
  <2>2. CASE o.ok = TRUE /\ o.ran = FALSE
    <3>1. FaultAfter(f, o) = f
      BY <2>2, Zenon DEF FaultAfter
    <3> QED BY <2>2, <3>1 DEF FaultAtClose, DirectionIs
  <2>3. CASE o.ok = TRUE /\ o.ran = TRUE
    <3>1. FaultAfter(f, o) = IF f = "none" THEN "none" ELSE "past"
      BY <2>3, Zenon DEF FaultAfter
    <3> QED BY <2>3, <3>1 DEF FaultAtClose, Fault
  <2> QED BY <1>0, <2>1, <2>2, <2>3
<1>4. ASSUME Tidy, FaultAtClose(f, o) = "none" PROVE Residue(o.hw, dir, FreshIo[dir])
  <2>1. o.ok /\ f = "none"
    BY <1>3, <1>4
  <2>2. Residue(o.hw, dir, o.io) /\ ~o.io.state
    BY <1>4, <2>1 DEF DirectionIs, Contract
  <2> QED BY <2>2 DEF Residue, Enabled
<1> QED BY <1>1, <1>2, <1>3, <1>4 DEF DirectionIs

LEMMA OtherStep ==
  ASSUME NEW dir \in Direction, NEW i, NEW h, NEW k, NEW f, DirectionIs(dir, i, h, f),
         \A c \in Fixed(dir) : k[c] = h[c]
  PROVE  DirectionIs(dir, i, k, f)
<1>1. ASSUME NEW entries, InForceOn(h, dir, entries) PROVE InForceOn(k, dir, entries)
  BY <1>1 DEF InForceOn
<1>2. ASSUME Residue(h, dir, i) PROVE Residue(k, dir, i)
  BY <1>2 DEF Residue
<1> QED BY <1>1, <1>2 DEF DirectionIs

\* An operation on one direction leaves the own controls of the others alone.
LEMMA Elsewhere ==
  ASSUME NEW other \in Direction, NEW i, NEW h, NEW o, Contract(other, i, h, o),
         NEW dir \in Direction \ {other}, NEW j, NEW f, DirectionIs(dir, j, h, f)
  PROVE  DirectionIs(dir, j, o.hw, f)
<1>1. \A c \in Fixed(dir) : c \in Ctl \ CtlsOf(other)
  BY OwnControls
<1>2. \A c \in Fixed(dir) : o.hw[c] = h[c]
  BY <1>1 DEF Contract
<1> QED BY <1>2, OtherStep

\* The control that a volume, gain or mute names belongs to no direction.
LEMMA AttrIsNobodys ==
  ASSUME NEW dir \in Direction, NEW entries \in Lists(dir), NEW attr \in Attr, WithAttr(entries, attr) # {}
  PROVE  /\ get_data_with_attr(entries, attr) \in Entry
         /\ \A other \in Direction : get_data_with_attr(entries, attr).ctl \notin Fixed(other)
<1> DEFINE k == FirstOf(WithAttr(entries, attr))
           e == entries[k]
<1>1. entries \in Seq(Entry)
  BY ListTypes
<1>2. WithAttr(entries, attr) \in SUBSET Nat
  BY <1>1 DEF WithAttr
<1>3. k \in WithAttr(entries, attr)
  BY <1>2, FirstIsIn
<1>4. k \in 1..Len(entries) /\ e.attr = attr
  BY <1>1, <1>3 DEF WithAttr
<1> HIDE DEF k
<1>5. e \in Entry /\ e \in EntriesOf(dir)
  BY <1>4, EntriesAreOfLists
<1>6. e.ctl \in AttrCtls
  BY <1>4, <1>5 DEF AttrCtls, Attr, NoAttr
<1>7. get_data_with_attr(entries, attr) = e
  BY DEF get_data_with_attr, k
<1> QED BY <1>5, <1>6, <1>7, OwnControls

-----------------------------------------------------------------------------
(* Each entry point keeps the invariant. *)


\* A call that leaves these typed variables leaves every direction typed.
LEMMA Typing ==
  ASSUME NEW newIo, NEW newFault, NEW h \in Card,
         newIo = [dir \in Direction |-> newIo[dir]],
         newFault = [dir \in Direction |-> newFault[dir]],
         \A dir \in Direction : DirectionIs(dir, newIo[dir], h, newFault[dir])
  PROVE  newIo \in [Direction -> IoState] /\ newFault \in [Direction -> Fault]
  BY DEF DirectionIs, GoodIo

LEMMA OpenKeeps ==
  ASSUME MixerIInv, Open
  PROVE  MixerIInv'
<1>1. FreshIo \in [Direction -> IoState] /\ NoReturn \in [dev : Device \cup {NoDevice}, ok : BOOLEAN]
  BY DEF FreshIo, IoState, NoReturn
<1>2. TypeOK'
  BY <1>1 DEF MixerIInv, TypeOK, Open, NotSetDevice
<1>3. SuccessMovesAll'
  BY DEF SuccessMovesAll, Open, NotSetDevice, NoReturn
<1>4. io' = io /\ UNCHANGED <<hw, fault>> /\ opened'
  BY DEF MixerIInv, Open
<1> QED BY <1>2, <1>3, <1>4 DEF MixerIInv

LEMMA SetStateKeeps ==
  ASSUME MixerIInv, NEW dir \in Direction, NEW on \in BOOLEAN, SetState(dir, on)
  PROVE  MixerIInv'
<1>1. PICK o \in set_state(dir, on, io[dir], hw) :
        /\ io' = [io EXCEPT ![dir] = o.io]
        /\ hw' = o.hw
        /\ fault' = [fault EXCEPT ![dir] = FaultAfter(@, o)]
  BY DEF SetState
<1>2. /\ io \in [Direction -> IoState] /\ fault \in [Direction -> Fault] /\ hw \in Card
      /\ ret' = NoReturn /\ opened' /\ opened' \in BOOLEAN
      /\ \A d \in Direction : DirectionIs(d, io[d], hw, fault[d])
  BY DEF MixerIInv, TypeOK, Card, SetState, NotSetDevice
<1>3. Contract(dir, io[dir], hw, o)
  BY <1>1, <1>2, StateKeepsContract DEF DirectionIs
<1>4. hw' \in Card
  BY <1>1, <1>3 DEF Contract
<1>5. ASSUME NEW d \in Direction PROVE DirectionIs(d, io'[d], hw', fault'[d])
  <2>1. CASE d = dir
    BY <1>1, <1>2, <1>3, <2>1, OwnStep
  <2>2. CASE d # dir
    BY <1>1, <1>2, <1>3, <2>2, Elsewhere
  <2> QED BY <2>1, <2>2
<1>6. io' \in [Direction -> IoState] /\ fault' \in [Direction -> Fault]
  BY <1>1, <1>2, <1>4, <1>5, Typing
<1>7. SuccessMovesAll' /\ ret' \in [dev : Device \cup {NoDevice}, ok : BOOLEAN]
  BY <1>2 DEF SuccessMovesAll, NoReturn
<1> QED BY <1>2, <1>4, <1>5, <1>6, <1>7 DEF MixerIInv, TypeOK, Card

LEMMA SetInDeviceKeeps ==
  ASSUME MixerIInv, NEW d \in InDevices, SetInDevice(d)
  PROVE  MixerIInv'
<1>1. PICK o \in route_if_on("input", d, io["input"], hw) :
        /\ io' = [io EXCEPT !["input"] = o.io]
        /\ hw' = o.hw
        /\ fault' = [fault EXCEPT !["input"] = FaultAfter(@, o)]
        /\ ret' = [dev |-> d, ok |-> o.ok]
  BY DEF SetInDevice
<1>2. /\ io \in [Direction -> IoState] /\ fault \in [Direction -> Fault] /\ hw \in Card
      /\ opened' /\ opened' \in BOOLEAN /\ d \in Device /\ "input" \in Direction
      /\ \A dir \in Direction : DirectionIs(dir, io[dir], hw, fault[dir])
  BY DEF MixerIInv, TypeOK, Card, SetInDevice, Device, Direction
<1>3. /\ Contract("input", io["input"], hw, o)
      /\ o.io.state = io["input"].state
      /\ o.ok /\ io["input"].state => o.io.current = d
  BY <1>1, <1>2, RouteIfOnKeepsContract DEF DirectionIs
<1>4. hw' \in Card /\ o.ok \in BOOLEAN
  BY <1>1, <1>3 DEF Contract
<1>5. ASSUME NEW dir \in Direction PROVE DirectionIs(dir, io'[dir], hw', fault'[dir])
  <2>1. CASE dir = "input"
    BY <1>1, <1>2, <1>3, <2>1, OwnStep
  <2>2. CASE dir # "input"
    BY <1>1, <1>2, <1>3, <2>2, Elsewhere
  <2> QED BY <2>1, <2>2
<1>6. io' \in [Direction -> IoState] /\ fault' \in [Direction -> Fault]
  BY <1>1, <1>2, <1>4, <1>5, Typing
<1>7. ret' \in [dev : Device \cup {NoDevice}, ok : BOOLEAN]
  BY <1>1, <1>2, <1>4
<1>8. SuccessMovesAll'
  <2>1. ret'.dev = d /\ ret'.ok = o.ok /\ d \notin OutDevices
    BY <1>1, DeviceAssumption
  <2>2. io'["input"] = o.io
    BY <1>1, <1>2
  <2> QED BY <1>3, <2>1, <2>2 DEF SuccessMovesAll, Routes
<1> QED BY <1>2, <1>4, <1>5, <1>6, <1>7, <1>8 DEF MixerIInv, TypeOK, Card

\* The output first, then, on the card it left, the modem.
LEMMA SetOutDeviceKeeps ==
  ASSUME MixerIInv, NEW d \in OutDevices, SetOutDevice(d)
  PROVE  MixerIInv'
<1>1. PICK o \in route_if_on("output", d, io["output"], hw) :
        \E m \in IF o.ok THEN route_if_on("modem", d, io["modem"], o.hw)
                 ELSE {Outcome(io["modem"], o.hw, FALSE, FALSE)} :
          /\ io' = [io EXCEPT !["output"] = o.io, !["modem"] = m.io]
          /\ hw' = m.hw
          /\ fault' = [fault EXCEPT !["output"] = FaultAfter(@, o),
                                    !["modem"] = FaultAfter(@, m)]
          /\ ret' = [dev |-> d, ok |-> m.ok]
  BY DEF SetOutDevice
<1>2. PICK m \in IF o.ok THEN route_if_on("modem", d, io["modem"], o.hw)
                 ELSE {Outcome(io["modem"], o.hw, FALSE, FALSE)} :
        /\ io' = [io EXCEPT !["output"] = o.io, !["modem"] = m.io]
        /\ hw' = m.hw
        /\ fault' = [fault EXCEPT !["output"] = FaultAfter(@, o),
                                  !["modem"] = FaultAfter(@, m)]
        /\ ret' = [dev |-> d, ok |-> m.ok]
  BY <1>1
<1>3. /\ io \in [Direction -> IoState] /\ fault \in [Direction -> Fault] /\ hw \in Card
      /\ opened' /\ opened' \in BOOLEAN /\ d \in Device
      /\ "output" \in Direction /\ "modem" \in Direction
      /\ \A dir \in Direction : DirectionIs(dir, io[dir], hw, fault[dir])
  BY DEF MixerIInv, TypeOK, Card, SetOutDevice, Device, Direction
<1>4. /\ Contract("output", io["output"], hw, o)
      /\ o.io.state = io["output"].state
      /\ o.ok /\ io["output"].state => o.io.current = d
  BY <1>1, <1>3, RouteIfOnKeepsContract DEF DirectionIs
<1>5. o.hw \in Card /\ o.ok \in BOOLEAN
  BY <1>4 DEF Contract
<1>6. /\ Contract("modem", io["modem"], o.hw, m)
      /\ m.io.state = io["modem"].state
      /\ m.ok => o.ok /\ (io["modem"].state => m.io.current = d)
  <2>1. GoodIo("modem", io["modem"])
    BY <1>3 DEF DirectionIs
  <2>2. CASE o.ok
    BY <1>2, <1>3, <1>5, <2>1, <2>2, RouteIfOnKeepsContract
  <2>3. CASE ~o.ok
    <3>1. m = Outcome(io["modem"], o.hw, FALSE, FALSE)
      BY <1>2, <2>3
    <3> QED BY <1>3, <1>5, <2>1, <3>1, Unused DEF Outcome
  <2> QED BY <2>2, <2>3
<1>7. hw' \in Card /\ m.ok \in BOOLEAN
  BY <1>2, <1>6 DEF Contract
<1>8. /\ io'["output"] = o.io /\ io'["modem"] = m.io /\ io'["input"] = io["input"]
      /\ fault'["output"] = FaultAfter(fault["output"], o)
      /\ fault'["modem"] = FaultAfter(fault["modem"], m)
      /\ fault'["input"] = fault["input"]
  BY <1>2, <1>3 DEF Direction
<1>9. ASSUME NEW dir \in Direction PROVE DirectionIs(dir, io'[dir], hw', fault'[dir])
  <2>1. CASE dir = "output"
    <3>1. DirectionIs("output", o.io, o.hw, fault'["output"])
      BY <1>3, <1>4, <1>8, OwnStep
    <3> QED BY <1>2, <1>3, <1>6, <1>8, <2>1, <3>1, Elsewhere
  <2>2. CASE dir = "modem"
    <3>1. DirectionIs("modem", io["modem"], o.hw, fault["modem"])
      BY <1>3, <1>4, Elsewhere
    <3> QED BY <1>2, <1>3, <1>5, <1>6, <1>8, <2>2, <3>1, OwnStep
  <2>3. CASE dir = "input"
    <3>1. DirectionIs("input", io["input"], o.hw, fault["input"])
      BY <1>3, <1>4, <2>3, Elsewhere
    <3> QED BY <1>2, <1>3, <1>6, <1>8, <2>3, <3>1, Elsewhere
  <2> QED BY <2>1, <2>2, <2>3 DEF Direction
<1>10. io' \in [Direction -> IoState] /\ fault' \in [Direction -> Fault]
  BY <1>2, <1>3, <1>7, <1>9, Typing
<1>11. ret' \in [dev : Device \cup {NoDevice}, ok : BOOLEAN]
  BY <1>2, <1>3, <1>7
<1>12. SuccessMovesAll'
  <2>1. ret'.dev = d /\ ret'.ok = m.ok
    BY <1>2
  <2> QED BY <1>4, <1>6, <1>8, <2>1 DEF SuccessMovesAll, Routes, Direction
<1> QED BY <1>3, <1>7, <1>9, <1>10, <1>11, <1>12 DEF MixerIInv, TypeOK, Card

\* The three directions in turn, each on the card the last one left.
LEMMA CloseKeeps ==
  ASSUME MixerIInv, Close
  PROVE  MixerIInv'
<1>1. PICK o \in set_state("output", FALSE, io["output"], hw) :
        \E i \in set_state("input", FALSE, io["input"], o.hw) :
        \E m \in set_state("modem", FALSE, io["modem"], i.hw) :
          /\ hw' = m.hw
          /\ fault' = [output |-> FaultAtClose(fault["output"], o),
                       input |-> FaultAtClose(fault["input"], i),
                       modem |-> FaultAtClose(fault["modem"], m)]
  BY DEF Close
<1>2. PICK i \in set_state("input", FALSE, io["input"], o.hw) :
        \E m \in set_state("modem", FALSE, io["modem"], i.hw) :
          /\ hw' = m.hw
          /\ fault' = [output |-> FaultAtClose(fault["output"], o),
                       input |-> FaultAtClose(fault["input"], i),
                       modem |-> FaultAtClose(fault["modem"], m)]
  BY <1>1
<1>3. PICK m \in set_state("modem", FALSE, io["modem"], i.hw) :
        /\ hw' = m.hw
        /\ fault' = [output |-> FaultAtClose(fault["output"], o),
                     input |-> FaultAtClose(fault["input"], i),
                     modem |-> FaultAtClose(fault["modem"], m)]
  BY <1>2
<1>4. /\ hw \in Card /\ opened' = FALSE /\ io' = FreshIo /\ ret' = NoReturn
      /\ "output" \in Direction /\ "input" \in Direction /\ "modem" \in Direction
      /\ \A dir \in Direction : DirectionIs(dir, io[dir], hw, fault[dir]) /\ GoodIo(dir, io[dir])
  BY DEF MixerIInv, TypeOK, Card, Close, NotSetDevice, Direction, DirectionIs
<1>5. Contract("output", io["output"], hw, o) /\ (o.ok => ~o.io.state)
  BY <1>1, <1>4, StateKeepsContract
<1>6. o.hw \in Card
  BY <1>5 DEF Contract
<1>7. Contract("input", io["input"], o.hw, i) /\ (i.ok => ~i.io.state)
  BY <1>2, <1>4, <1>6, StateKeepsContract
<1>8. i.hw \in Card
  BY <1>7 DEF Contract
<1>9. Contract("modem", io["modem"], i.hw, m) /\ (m.ok => ~m.io.state)
  BY <1>3, <1>4, <1>8, StateKeepsContract
<1>10. hw' \in Card
  BY <1>3, <1>9 DEF Contract
<1>11. /\ fault' = [dir \in Direction |-> fault'[dir]]
       /\ fault'["output"] = FaultAtClose(fault["output"], o)
       /\ fault'["input"] = FaultAtClose(fault["input"], i)
       /\ fault'["modem"] = FaultAtClose(fault["modem"], m)
  BY <1>3 DEF Direction
<1>12. DirectionIs("output", io'["output"], hw', fault'["output"])
  <2>1. DirectionIs("output", FreshIo["output"], o.hw, fault'["output"])
    BY <1>4, <1>5, <1>11, CloseStep
  <2>2. DirectionIs("output", FreshIo["output"], i.hw, fault'["output"])
    BY <1>4, <1>7, <2>1, Elsewhere
  <2> QED BY <1>3, <1>4, <1>9, <2>2, Elsewhere
<1>13. DirectionIs("input", io'["input"], hw', fault'["input"])
  <2>1. DirectionIs("input", io["input"], o.hw, fault["input"])
    BY <1>4, <1>5, Elsewhere
  <2>2. DirectionIs("input", FreshIo["input"], i.hw, fault'["input"])
    BY <1>4, <1>6, <1>7, <1>11, <2>1, CloseStep
  <2> QED BY <1>3, <1>4, <1>9, <2>2, Elsewhere
<1>14. DirectionIs("modem", io'["modem"], hw', fault'["modem"])
  <2>1. DirectionIs("modem", io["modem"], o.hw, fault["modem"])
    BY <1>4, <1>5, Elsewhere
  <2>2. DirectionIs("modem", io["modem"], i.hw, fault["modem"])
    BY <1>4, <1>7, <2>1, Elsewhere
  <2> QED BY <1>3, <1>4, <1>8, <1>9, <1>11, <2>2, CloseStep
<1>15. \A dir \in Direction : DirectionIs(dir, io'[dir], hw', fault'[dir])
  BY <1>12, <1>13, <1>14 DEF Direction
<1>16. io' = [dir \in Direction |-> io'[dir]]
  BY <1>4 DEF FreshIo
<1>17. io' \in [Direction -> IoState] /\ fault' \in [Direction -> Fault]
  BY <1>10, <1>11, <1>15, <1>16, Typing
<1>18. SuccessMovesAll' /\ ret' \in [dev : Device \cup {NoDevice}, ok : BOOLEAN]
  BY <1>4 DEF SuccessMovesAll, NoReturn
<1> QED BY <1>4, <1>10, <1>15, <1>17, <1>18 DEF MixerIInv, TypeOK, Card

LEMMA WriteAttrKeeps ==
  ASSUME MixerIInv, NEW dir \in Direction, NEW d, NEW lists \in {Enable, Disable}, NEW attr \in Attr,
         NEW writable \in BOOLEAN, NEW value,
         WriteAttr(dir, d, ListOf(lists, dir, d), attr, writable, value),
         writable /\ get_data_with_attr(ListOf(lists, dir, d), attr) \in Entry => value \in Nat
  PROVE  MixerIInv'
<1> DEFINE entries == ListOf(lists, dir, d)
           e == get_data_with_attr(entries, attr)
<1>1. /\ io \in [Direction -> IoState] /\ fault \in [Direction -> Fault] /\ hw \in Card
      /\ opened' /\ opened' \in BOOLEAN /\ ret' = NoReturn /\ UNCHANGED <<io, fault>>
      /\ \A other \in Direction : DirectionIs(other, io[other], hw, fault[other])
  BY DEF MixerIInv, TypeOK, Card, WriteAttr, NotSetDevice
<1>2. \/ hw' = hw
      \/ WithAttr(entries, attr) # {} /\ writable /\ hw' = [hw EXCEPT ![e.ctl] = value]
  BY DEF WriteAttr
<1>3. ASSUME WithAttr(entries, attr) # {}, writable
      PROVE  value \in Nat /\ \A other \in Direction : e.ctl \notin Fixed(other)
  <2>1. entries \in Lists(dir)
    BY <1>3, ListTypes DEF ListOf, WithAttr
  <2> QED BY <1>3, <2>1, AttrIsNobodys
<1> HIDE DEF entries, e
<1>4. hw' \in Card /\ \A other \in Direction : \A c \in Fixed(other) : hw'[c] = hw[c]
  <2>1. \A other \in Direction : Fixed(other) \subseteq Ctl
    BY OwnControls
  <2> QED BY <1>1, <1>2, <1>3, <2>1 DEF Card
<1>5. ASSUME NEW other \in Direction PROVE DirectionIs(other, io'[other], hw', fault'[other])
  BY <1>1, <1>4, OtherStep
<1>6. SuccessMovesAll' /\ ret' \in [dev : Device \cup {NoDevice}, ok : BOOLEAN]
  BY <1>1 DEF SuccessMovesAll, NoReturn
<1> QED BY <1>1, <1>4, <1>5, <1>6 DEF MixerIInv, TypeOK, Card

\* Scaling a volume into the range of its control does not go below its minimum.
LEMMA ScaledIsNat ==
  ASSUME NEW lo \in Nat, NEW hi \in Nat, hi > lo, NEW n \in Nat, NEW steps \in Nat \ {0}
  PROVE  ((hi - lo) * n) \div steps + lo \in Nat
<1>1. hi - lo \in Nat
  OBVIOUS
<1>2. (hi - lo) * n \in Nat
  BY <1>1
<1>3. ASSUME NEW p \in Nat PROVE p \div steps \in Nat
  OBVIOUS
<1> QED BY <1>2, <1>3

LEMMA SetVolumeKeeps ==
  ASSUME MixerIInv, NEW dir \in Direction, NEW d, NEW attr \in Attr, NEW n \in 0..VolumeSteps,
         SetVolume(dir, d, attr, n)
  PROVE  MixerIInv'
<1> DEFINE e == get_data_with_attr(ListOf(Enable, dir, d), attr)
           value == ((e.max - e.val) * n) \div VolumeSteps + e.val
<1>1. WriteAttr(dir, d, ListOf(Enable, dir, d), attr, e.max > e.val, value)
  BY DEF SetVolume
<1>2. ASSUME e.max > e.val, e \in Entry PROVE value \in Nat
  <2>1. e.max \in Nat /\ e.val \in Nat /\ n \in Nat /\ VolumeSteps \in Nat \ {0}
    BY <1>2, ConfigAssumption DEF Entry
  <2> QED BY <1>2, <2>1, ScaledIsNat
<1> HIDE DEF value
<1>3. (e.max > e.val) \in BOOLEAN
  OBVIOUS
<1> QED BY <1>1, <1>2, <1>3, WriteAttrKeeps

LEMMA SetMicMuteKeeps ==
  ASSUME MixerIInv, NEW d \in Device, NEW mute \in BOOLEAN, SetMicMute(d, mute)
  PROVE  MixerIInv'
<1> DEFINE dir == IF d \in InDevices THEN "input" ELSE "modem"
           lists == IF mute THEN Enable ELSE Disable
           e == get_data_with_attr(ListOf(lists, dir, d), "mic-mute")
<1>1. dir \in Direction /\ lists \in {Enable, Disable} /\ "mic-mute" \in Attr
  BY DEF Direction, Attr
<1>2. WriteAttr(dir, d, ListOf(lists, dir, d), "mic-mute", TRUE, e.val)
  BY DEF SetMicMute, SetSwitch
<1> HIDE DEF dir, lists
<1>3. e \in Entry => e.val \in Nat
  BY DEF Entry
<1> QED BY <1>1, <1>2, <1>3, WriteAttrKeeps

LEMMA InitHolds ==
  ASSUME Init
  PROVE  MixerIInv
<1>1. FreshIo \in [Direction -> IoState] /\ NoReturn \in [dev : Device \cup {NoDevice}, ok : BOOLEAN]
  BY DEF FreshIo, IoState, NoReturn
<1>2. TypeOK /\ SuccessMovesAll
  BY <1>1, ConfigAssumption DEF Init, TypeOK, Fault, SuccessMovesAll, NoReturn
<1>3. ASSUME NEW dir \in Direction PROVE DirectionIs(dir, io[dir], hw, fault[dir])
  BY <1>1 DEF Init, FreshIo, DirectionIs, GoodIo, IoState, Fault, Residue
<1> QED BY <1>2, <1>3 DEF MixerIInv, Init

LEMMA NextKeeps ==
  ASSUME MixerIInv, [Next]_vars
  PROVE  MixerIInv'
<1>1. CASE Open
  BY <1>1, OpenKeeps
<1>2. CASE Close
  BY <1>2, CloseKeeps
<1>3. CASE \E dir \in Direction, on \in BOOLEAN : SetState(dir, on)
  BY <1>3, SetStateKeeps
<1>4. CASE \E d \in OutDevices : SetOutDevice(d)
  BY <1>4, SetOutDeviceKeeps
<1>5. CASE \E d \in InDevices : SetInDevice(d)
  BY <1>5, SetInDeviceKeeps
<1>6. CASE \E dir \in Direction, d \in Device, attr \in Attr, n \in 0..VolumeSteps : SetVolume(dir, d, attr, n)
  BY <1>6, SetVolumeKeeps
<1>7. CASE \E d \in Device, mute \in BOOLEAN : SetMicMute(d, mute)
  BY <1>7, SetMicMuteKeeps
<1>8. CASE UNCHANGED vars
  BY <1>8 DEF vars, MixerIInv, TypeOK, SuccessMovesAll
<1>9. \/ \E n \in 0..VolumeSteps : SetMasterVolume(n)
      \/ \E d \in OutDevices, n \in 0..VolumeSteps : SetOutputVolume(d, n)
      \/ \E d \in InDevices, n \in 0..VolumeSteps : SetInputGain(d, n)
      \/ \E d \in OutDevices, n \in 0..VolumeSteps : SetVoiceVolume(d, n)
      => \E dir \in Direction, d \in Device, attr \in Attr, n \in 0..VolumeSteps : SetVolume(dir, d, attr, n)
  BY DeviceAssumption DEF SetMasterVolume, SetOutputVolume, SetInputGain, SetVoiceVolume,
                          Device, Direction, Attr
<1> QED BY <1>1, <1>2, <1>3, <1>4, <1>5, <1>6, <1>7, <1>8, <1>9 DEF Next

-----------------------------------------------------------------------------
(* The theorems. *)

\* Between two calls the mixer is as MixerIInv says, for every card, every
\* configuration file and whatever fails.
THEOREM MixerCorrect == Spec => []MixerIInv
<1>1. Init => MixerIInv
  BY InitHolds
<1>2. MixerIInv /\ [Next]_vars => MixerIInv'
  BY NextKeeps
<1> QED BY <1>1, <1>2, PTL DEF Spec

\* Every variable keeps its type; in particular no control is ever written a
\* negative value, however a volume is scaled (mixer.c, set_device_volume_with_attr).
THEOREM TypeCorrect == Spec => []TypeOK
<1>1. MixerIInv => TypeOK
  BY DEF MixerIInv
<1> QED BY <1>1, MixerCorrect, PTL

\* device_current tells the truth: unless the last call that wrote a
\* direction's controls failed, its current device's enable list is in force.
THEOREM RouteCorrect == Spec => []RouteInForce
<1>1. ASSUME MixerIInv PROVE RouteInForce
  <2> SUFFICES ASSUME NEW dir \in Direction, fault[dir] # "last", io[dir].current # NoDevice
               PROVE  InForce(dir, Enable[dir][io[dir].current])
    BY DEF RouteInForce
  <2>1. InForceOn(hw, dir, Enable[dir][io[dir].current])
    BY <1>1 DEF MixerIInv, DirectionIs
  <2> QED BY <2>1 DEF InForceOn, InForce, Writes
<1> QED BY <1>1, MixerCorrect, PTL

\* When the configuration's disable lists undo its enable lists, a direction
\* that is off has left every control of its own as it found it, unless a
\* control write failed; failures or not, it has forgotten its route.
THEOREM OffCorrect == ASSUME Tidy PROVE Spec => []OffIsSilent
<1>1. ASSUME MixerIInv PROVE OffIsSilent
  <2> SUFFICES ASSUME NEW dir \in Direction, ~io[dir].state
               PROVE  /\ io[dir].current = NoDevice
                      /\ fault[dir] = "none" => \A c \in Fixed(dir) : hw[c] = PowerOn[c]
    BY DEF OffIsSilent
  <2>1. DirectionIs(dir, io[dir], hw, fault[dir])
    BY <1>1 DEF MixerIInv
  <2>2. io[dir].current = NoDevice /\ (fault[dir] = "none" => Residue(hw, dir, io[dir]))
    BY <2>1 DEF DirectionIs, GoodIo
  <2> QED BY <2>2 DEF Residue, Enabled
<1> QED BY <1>1, MixerCorrect, PTL

\* A set_device that returns 0 has moved every direction of the device's kind
\* that is on: never the output without the modem.
THEOREM SuccessCorrect == Spec => []SuccessMovesAll
<1>1. MixerIInv => SuccessMovesAll
  BY DEF MixerIInv
<1> QED BY <1>1, MixerCorrect, PTL

-----------------------------------------------------------------------------
(* The configuration parser, and its invariant. *)

\* Where the parser is, as the open elements say.
InSection == open # <<>> /\ open[1] \in IoElement
InDevice == open # <<>> /\ Last(open) \in {"device", "path"}
InPath == open # <<>> /\ Last(open) = "path"

\* An io is on the outside, a device there or in an io, and a path in a device.
Nesting ==
  /\ open \in Seq(IoElement \cup {"device", "path"})
  /\ \A i \in 1..Len(open) :
       /\ open[i] \in IoElement => i = 1
       /\ open[i] = "device" => i = 1 \/ (i = 2 /\ open[1] \in IoElement)
       /\ open[i] = "path" => i > 1 /\ open[i - 1] = "device"

PathNode == [name : List \cup {Unknown}, ctrls : Seq(Ctrls \cup {Incomplete})]
DeviceNode == [name : TypeName, paths : Seq(PathNode)]
Section == [dir : IoElement \cup {"none"}, card : Cards, devices : Seq(DeviceNode)]

\* The open elements are the last of the tree.
TreeIsOpen ==
  /\ doc \in Seq(Section) /\ Nesting
  /\ open # <<>> => doc # <<>> /\ LastSection.dir = IF InSection THEN open[1] ELSE "none"
  /\ InDevice => LastSection.devices # <<>>
  /\ InPath => LastDevice.paths # <<>>

\* What config_data holds follows from where the parser is.
DataIsOpen ==
  /\ direction = IF InSection THEN open[1] ELSE "output"
  /\ io_card = IF InSection THEN LastSection.card ELSE 0
  /\ ~InDevice => device = Null
  /\ ~InPath => list_start = Null /\ list = FALSE

\* Every block is lost, or in the mixer's lists, or of the current device.
BlocksAreHeld ==
  /\ \A dir \in IoElement : IsFiniteSet(BlocksOf(mixer[dir].devices))
  /\ blocks = lost + Freed(mixer["output"]) + Freed(mixer["input"]) + Freed(mixer["modem"])
                   + DeviceBlocks(device)
  /\ lost <= elements

\* The place of the last device, and the devices and the sections that have come
\* to their end.
Place == <<Len(doc), Len(LastSection.devices)>>
Ended(dir) ==
  DevicePlaces(dir) \ (IF InDevice THEN {Place} ELSE {})
Closed == IF InSection THEN Len(doc) - 1 ELSE Len(doc)

\* What the document that was read so far says is in the lists, as far as
\* its elements have ended, and in the current device.
DevicesEnded(dir) == IsFiniteSet(Ended(dir)) /\ DevicesAre(dir, Ended(dir))
EndedIsParsed == \A dir \in IoElement : DevicesEnded(dir) /\ CardIs(dir, Closed)
OpenIsParsed ==
  /\ InDevice =>
       /\ DeviceIs(device, LastSection.dir, LastDevice)
       /\ \A which \in List : IsFiniteSet(CtrlPlaces(LastDevice, which))
  /\ InPath =>
       LET name == Last(LastDevice.paths).name IN
       IF name \in List THEN list_start = name /\ (list <=> device[name] # <<>>)
       ELSE list_start = Null

ParserInv ==
  /\ TreeIsOpen /\ DataIsOpen /\ BlocksAreHeld
  /\ Conforms => EndedIsParsed /\ OpenIsParsed
ConfigInv ==
  /\ status \in {"parsing", "done"} => ParserInv
  /\ status = "done" => open = <<>>
  /\ status = "crashed" => ~Conforms
  /\ status = "closed" => blocks = lost
ConfigIInv == ConfigTypeOK /\ ConfigInv

-----------------------------------------------------------------------------
(* Sequences of which the last element is changed, and the numbers of places. *)

LEMMA LastChanged ==
  ASSUME NEW S, NEW s \in Seq(S), s # <<>>, NEW x \in S
  PROVE  /\ WithLast(s, x) \in Seq(S) /\ WithLast(s, x) # <<>>
         /\ Len(WithLast(s, x)) = Len(s) /\ Last(WithLast(s, x)) = x
         /\ \A i \in 1..Len(s) - 1 : WithLast(s, x)[i] = s[i]
         /\ Len(s) \in Nat \ {0} /\ Last(s) \in S
<1>1. Len(s) \in Nat \ {0} /\ Len(s) \in 1..Len(s) /\ s[Len(s)] \in S
  BY EmptySeq, LenProperties, ElementOfSeq
<1>2. WithLast(s, x) \in Seq(S) /\ Len(WithLast(s, x)) = Len(s)
  BY <1>1, ExceptSeq DEF WithLast
<1>3. \A i \in 1..Len(s) : WithLast(s, x)[i] = IF i = Len(s) THEN x ELSE s[i]
  BY <1>1, LenProperties, ExceptSeq DEF WithLast
<1> QED BY <1>1, <1>2, <1>3 DEF Last

LEMMA LastAppended ==
  ASSUME NEW S, NEW s \in Seq(S), NEW x \in S
  PROVE  /\ Append(s, x) \in Seq(S) /\ Append(s, x) # <<>>
         /\ Len(Append(s, x)) = Len(s) + 1 /\ Last(Append(s, x)) = x
         /\ \A i \in 1..Len(s) : Append(s, x)[i] = s[i]
         /\ Append(s, x)[Len(s) + 1] = x
  BY AppendProperties, LenProperties DEF Last

Pairs(P) == \A p \in P : p = <<p[1], p[2]>> /\ p[1] \in Nat /\ p[2] \in Nat

\* A number is one of as many as there are places.
LEMMA NumberIsOne ==
  ASSUME NEW P, IsFiniteSet(P), NEW p \in P
  PROVE  Number(P, p) \in 1..Cardinality(P)
<1> DEFINE Q == {q \in P : q = p \/ Before(q, p)}
<1>1. IsFiniteSet(Q) /\ Cardinality(Q) <= Cardinality(P)
  BY FS_Subset
<1>2. Q # {}
  OBVIOUS
<1>3. Cardinality(Q) \in Nat /\ Cardinality(Q) # 0 /\ Cardinality(P) \in Nat
  BY <1>1, <1>2, FS_EmptySet, FS_CardinalityType
<1> QED BY <1>1, <1>3 DEF Number

\* A place behind all others has the next number, and leaves theirs alone.
LEMMA NumberOfNext ==
  ASSUME NEW P, IsFiniteSet(P), Pairs(P), NEW x, Pairs({x}), \A p \in P : Before(p, x)
  PROVE  /\ IsFiniteSet(P \cup {x}) /\ Cardinality(P \cup {x}) = Cardinality(P) + 1
         /\ Cardinality(P) \in Nat /\ x \notin P
         /\ Number(P \cup {x}, x) = Cardinality(P) + 1
         /\ \A p \in P : Number(P \cup {x}, p) = Number(P, p)
<1>1. x \notin P
  BY DEF Before, Pairs
<1>2. /\ IsFiniteSet(P \cup {x}) /\ Cardinality(P \cup {x}) = Cardinality(P) + 1
      /\ Cardinality(P) \in Nat
  BY <1>1, FS_AddElement, FS_CardinalityType
<1>3. {q \in P \cup {x} : q = x \/ Before(q, x)} = P \cup {x}
  OBVIOUS
<1>4. ASSUME NEW p \in P
      PROVE  {q \in P \cup {x} : q = p \/ Before(q, p)} = {q \in P : q = p \/ Before(q, p)}
  <2>1. x # p /\ ~Before(x, p)
    BY <1>1 DEF Before, Pairs
  <2> QED BY <2>1
<1> QED BY <1>1, <1>2, <1>3, <1>4 DEF Number

-----------------------------------------------------------------------------
(* The tree while it grows. *)

\* Nothing that the tree had is gone.
PathsGrow(d, e) ==
  /\ e.name = d.name
  /\ \A k \in DOMAIN d.paths : k \in DOMAIN e.paths /\ e.paths[k].name = d.paths[k].name
TreeGrows ==
  \A i \in DOMAIN doc :
    /\ i \in DOMAIN doc' /\ doc'[i].dir = doc[i].dir /\ doc'[i].card = doc[i].card
    /\ \A j \in DOMAIN doc[i].devices :
         j \in DOMAIN doc'[i].devices /\ PathsGrow(doc[i].devices[j], doc'[i].devices[j])

\* The end of a document does not make it conform.
LEMMA ConformedBefore ==
  ASSUME TreeGrows, Conforms'
  PROVE  Conforms
<1> SUFFICES ASSUME NEW i \in DOMAIN doc, NEW j \in DOMAIN doc[i].devices
             PROVE  LET d == doc[i].devices[j] IN
                    /\ d.name \in NamesOf(doc[i].dir)
                    /\ \A k, l \in DOMAIN d.paths :
                         k # l => d.paths[k].name # d.paths[l].name \/ d.paths[k].name \notin List
  BY DEF Conforms
<1> DEFINE d == doc[i].devices[j]
           e == doc'[i].devices[j]
<1>1. i \in DOMAIN doc' /\ doc'[i].dir = doc[i].dir /\ j \in DOMAIN doc'[i].devices /\ PathsGrow(d, e)
  BY DEF TreeGrows
<1>2. /\ e.name \in NamesOf(doc'[i].dir)
      /\ \A k, l \in DOMAIN e.paths :
           k # l => e.paths[k].name # e.paths[l].name \/ e.paths[k].name \notin List
  BY <1>1 DEF Conforms
<1> HIDE DEF d, e
<1>3. d.name \in NamesOf(doc[i].dir)
  BY <1>1, <1>2 DEF PathsGrow
<1>4. ASSUME NEW k \in DOMAIN d.paths, NEW l \in DOMAIN d.paths, k # l
      PROVE  d.paths[k].name # d.paths[l].name \/ d.paths[k].name \notin List
  BY <1>1, <1>2, <1>4 DEF PathsGrow
<1> QED BY <1>3, <1>4 DEF d

\* The places of a direction's devices in a tree, of which doc is one.
Counts(sectionDir, dir) == sectionDir = dir \/ (sectionDir = "none" /\ dir = "output")
PlacesIn(tree, dir) ==
  UNION {{i} \X DOMAIN tree[i].devices : i \in {i \in DOMAIN tree : Counts(tree[i].dir, dir)}}

LEMMA PlacesAre ==
  ASSUME NEW tree, NEW dir
  PROVE  /\ \A p \in PlacesIn(tree, dir) :
              /\ p = <<p[1], p[2]>> /\ p[1] \in DOMAIN tree /\ p[2] \in DOMAIN tree[p[1]].devices
              /\ Counts(tree[p[1]].dir, dir)
         /\ \A i \in DOMAIN tree : \A j \in DOMAIN tree[i].devices :
              Counts(tree[i].dir, dir) => <<i, j>> \in PlacesIn(tree, dir)
  BY DEF PlacesIn

LEMMA TreeIs ==
  ASSUME NEW tree \in Seq(Section)
  PROVE  /\ DOMAIN tree = 1..Len(tree) /\ Len(tree) \in Nat
         /\ \A i \in DOMAIN tree :
              /\ tree[i] \in Section /\ tree[i].devices \in Seq(DeviceNode)
              /\ tree[i].dir \in IoElement \cup {"none"} /\ tree[i].card \in Cards
              /\ DOMAIN tree[i].devices = 1..Len(tree[i].devices) /\ Len(tree[i].devices) \in Nat
              /\ \A j \in DOMAIN tree[i].devices : tree[i].devices[j] \in DeviceNode
<1>1. DOMAIN tree = 1..Len(tree) /\ Len(tree) \in Nat /\ \A i \in DOMAIN tree : tree[i] \in Section
  BY LenProperties, ElementOfSeq
<1>2. ASSUME NEW s \in Section
      PROVE  /\ s.devices \in Seq(DeviceNode) /\ s.dir \in IoElement \cup {"none"} /\ s.card \in Cards
             /\ DOMAIN s.devices = 1..Len(s.devices) /\ Len(s.devices) \in Nat
             /\ \A j \in DOMAIN s.devices : s.devices[j] \in DeviceNode
  <2>1. s.devices \in Seq(DeviceNode) /\ s.dir \in IoElement \cup {"none"} /\ s.card \in Cards
    BY DEF Section
  <2> QED BY <2>1, LenProperties, ElementOfSeq
<1> QED BY <1>1, <1>2

LEMMA LastIs ==
  ASSUME NEW S, NEW s \in Seq(S), s # <<>>
  PROVE  /\ Len(s) \in DOMAIN s /\ Len(s) \in Nat \ {0} /\ DOMAIN s = 1..Len(s)
         /\ Last(s) = s[Len(s)] /\ Last(s) \in S
  BY EmptySeq, LenProperties, ElementOfSeq DEF Last

\* A new device is behind all others.
LEMMA DeviceAdded ==
  ASSUME doc \in Seq(Section), NEW name \in TypeName, doc' = AddDevice(name),
         open # <<>> => doc # <<>>, 0 \in Cards
  PROVE  /\ doc' \in Seq(Section) /\ doc' # <<>>
         /\ Len(doc') = IF open = <<>> THEN Len(doc) + 1 ELSE Len(doc)
         /\ LastSection'.dir = IF open = <<>> THEN "none" ELSE LastSection.dir
         /\ LastSection'.card = IF open = <<>> THEN 0 ELSE LastSection.card
         /\ LastSection'.devices # <<>> /\ LastDevice' = NewDevice(name)
         /\ TreeGrows
         /\ \A i \in DOMAIN doc : \A j \in DOMAIN doc[i].devices :
              doc'[i].devices[j] = doc[i].devices[j]
         /\ \A i \in DOMAIN doc' : \A j \in DOMAIN doc'[i].devices :
              <<i, j>> # Place' => i \in DOMAIN doc /\ j \in DOMAIN doc[i].devices
         /\ \A i \in DOMAIN doc : \A j \in DOMAIN doc[i].devices : Before(<<i, j>>, Place')
<1> DEFINE n == NewDevice(name)
<1>1. n \in DeviceNode
  BY EmptySeq DEF DeviceNode, NewDevice
<1> HIDE DEF n
<1>2. CASE open = <<>>
  <2> DEFINE s == [dir |-> "none", card |-> 0, devices |-> <<n>>]
  <2>1. <<n>> \in Seq(DeviceNode) /\ Len(<<n>>) = 1 /\ <<n>>[1] = n /\ <<n>> # <<>>
    BY <1>1, EmptySeq
  <2>2. s \in Section /\ s.dir = "none" /\ s.card = 0 /\ s.devices = <<n>>
    BY <2>1 DEF Section
  <2>3. doc' = Append(doc, s)
    BY <1>2 DEF AddDevice, n
  <2> HIDE DEF s
  <2>4. /\ doc' \in Seq(Section) /\ doc' # <<>> /\ Len(doc') = Len(doc) + 1 /\ Last(doc') = s
        /\ doc'[Len(doc) + 1] = s /\ \A i \in 1..Len(doc) : doc'[i] = doc[i]
    BY <2>2, <2>3, LastAppended
  <2>5. LastSection' = s /\ LastDevice' = n /\ Place' = <<Len(doc) + 1, 1>>
    BY <2>1, <2>2, <2>4 DEF LastSection, LastDevice, Last, Place
  <2>6. /\ DOMAIN doc = 1..Len(doc) /\ Len(doc) \in Nat /\ DOMAIN doc' = 1..Len(doc) + 1
        /\ DOMAIN s.devices = {1}
    BY <2>1, <2>2, <2>4, LenProperties
  <2>7. TreeGrows
    BY <2>4, <2>6 DEF TreeGrows, PathsGrow
  <2>8. \A i \in DOMAIN doc : \A j \in DOMAIN doc[i].devices : Before(<<i, j>>, Place')
    BY <2>5, <2>6 DEF Before
  <2>9. \A i \in DOMAIN doc' : i # Len(doc) + 1 => i \in DOMAIN doc /\ doc'[i] = doc[i]
    BY <2>4, <2>6
  <2>10. \A i \in DOMAIN doc' : \A j \in DOMAIN doc'[i].devices :
           <<i, j>> # Place' => i \in DOMAIN doc /\ j \in DOMAIN doc[i].devices
    BY <2>4, <2>5, <2>6, <2>9
  <2> QED BY <1>2, <2>1, <2>2, <2>4, <2>5, <2>6, <2>7, <2>8, <2>9, <2>10 DEF n
<1>3. CASE open # <<>>
  <2> DEFINE old == LastSection
             m == Len(old.devices)
             s == [old EXCEPT !.devices = Append(@, n)]
  <2>1. /\ Len(doc) \in DOMAIN doc /\ Len(doc) \in Nat \ {0} /\ DOMAIN doc = 1..Len(doc)
        /\ old = doc[Len(doc)] /\ old \in Section
    BY <1>3, LastIs DEF LastSection
  <2>2. old.devices \in Seq(DeviceNode) /\ m \in Nat /\ DOMAIN old.devices = 1..m
    BY <2>1, TreeIs
  <2>3. /\ s \in Section /\ s.dir = old.dir /\ s.card = old.card
        /\ s.devices = Append(old.devices, n)
    <3>1. Append(old.devices, n) \in Seq(DeviceNode)
      BY <1>1, <2>2, AppendProperties
    <3> HIDE DEF old
    <3> QED BY <2>1, <3>1 DEF Section
  <2> HIDE DEF s
  <2>4. /\ s.devices \in Seq(DeviceNode) /\ s.devices # <<>> /\ Len(s.devices) = m + 1
        /\ Last(s.devices) = n /\ s.devices[m + 1] = n
        /\ \A j \in 1..m : s.devices[j] = old.devices[j]
    BY <1>1, <2>2, <2>3, LastAppended
  <2>5. doc' = WithLast(doc, s)
    BY <1>3, Zenon DEF AddDevice, n, s
  <2> HIDE DEF s, m, old
  <2>6. /\ doc' \in Seq(Section) /\ doc' # <<>> /\ Len(doc') = Len(doc) /\ Last(doc') = s
        /\ \A i \in 1..Len(doc) - 1 : doc'[i] = doc[i]
    <3>1. doc # <<>> /\ s \in Section
      BY <1>3, <2>3
    <3>2. WithLast(doc, s) \in Seq(Section) /\ WithLast(doc, s) # <<>>
          /\ Len(WithLast(doc, s)) = Len(doc) /\ Last(WithLast(doc, s)) = s
          /\ \A i \in 1..Len(doc) - 1 : WithLast(doc, s)[i] = doc[i]
      BY <3>1, LastChanged
    <3> QED BY <2>5, <3>2
  <2>7. doc'[Len(doc)] = s /\ DOMAIN doc' = 1..Len(doc)
    BY <2>6, LastIs
  <2>8. LastSection' = s /\ LastDevice' = n /\ Place' = <<Len(doc), m + 1>>
    BY <2>4, <2>6 DEF LastSection, LastDevice, Place
  <2>9. /\ \A i \in DOMAIN doc : i # Len(doc) => doc'[i] = doc[i]
        /\ DOMAIN s.devices = 1..m + 1 /\ Len(doc) \in Nat /\ m \in Nat
    <3>1. DOMAIN s.devices = 1..m + 1
      BY <2>4, LenProperties
    <3> QED BY <2>1, <2>2, <2>6, <3>1
  <2>10. TreeGrows
    <3>1. ASSUME NEW i \in DOMAIN doc, i # Len(doc)
          PROVE  doc'[i] = doc[i] /\ i \in DOMAIN doc'
      BY <2>1, <2>7, <2>9, <3>1
    <3>2. doc'[Len(doc)] = s /\ doc[Len(doc)] = old /\ Len(doc) \in DOMAIN doc'
      BY <2>1, <2>7
    <3>3. \A j \in DOMAIN old.devices : j \in DOMAIN s.devices /\ s.devices[j] = old.devices[j]
      BY <2>2, <2>4, <2>9
    <3> QED BY <2>3, <3>1, <3>2, <3>3 DEF TreeGrows, PathsGrow
  <2>11. \A i \in DOMAIN doc : \A j \in DOMAIN doc[i].devices : Before(<<i, j>>, Place')
    BY <2>1, <2>2, <2>8, <2>9 DEF Before
  <2>12. \A i \in DOMAIN doc' : \A j \in DOMAIN doc'[i].devices :
           <<i, j>> # Place' => i \in DOMAIN doc /\ j \in DOMAIN doc[i].devices
    BY <2>1, <2>2, <2>7, <2>8, <2>9
  <2>13. \A i \in DOMAIN doc : \A j \in DOMAIN doc[i].devices :
           doc'[i].devices[j] = doc[i].devices[j]
    BY <2>1, <2>2, <2>4, <2>7, <2>9
  <2> QED BY <1>3, <2>3, <2>4, <2>6, <2>8, <2>10, <2>11, <2>12, <2>13 DEF n, old
<1> QED BY <1>2, <1>3

\* A change of the last device leaves the others, and all places, alone.
LEMMA LastDeviceChanged ==
  ASSUME doc \in Seq(Section), doc # <<>>, LastSection.devices # <<>>, NEW d \in DeviceNode,
         doc' = WithLast(doc, [LastSection EXCEPT !.devices = WithLast(@, d)])
  PROVE  /\ doc' \in Seq(Section) /\ doc' # <<>> /\ Len(doc') = Len(doc) /\ DOMAIN doc' = DOMAIN doc
         /\ LastSection'.dir = LastSection.dir /\ LastSection'.card = LastSection.card
         /\ LastSection'.devices # <<>> /\ LastDevice' = d /\ Place' = Place
         /\ LastDevice \in DeviceNode
         /\ Place[1] \in DOMAIN doc /\ Place[2] \in DOMAIN doc[Place[1]].devices
         /\ doc[Place[1]].devices[Place[2]] = LastDevice
         /\ \A i \in DOMAIN doc :
              /\ doc'[i].dir = doc[i].dir /\ doc'[i].card = doc[i].card
              /\ DOMAIN doc'[i].devices = DOMAIN doc[i].devices
              /\ \A j \in DOMAIN doc[i].devices :
                   <<i, j>> # Place => doc'[i].devices[j] = doc[i].devices[j]
         /\ PathsGrow(LastDevice, d) => TreeGrows
<1> DEFINE old == LastSection
           m == Len(old.devices)
           r == WithLast(old.devices, d)
           s == [old EXCEPT !.devices = r]
<1>1. /\ Len(doc) \in DOMAIN doc /\ Len(doc) \in Nat \ {0} /\ DOMAIN doc = 1..Len(doc)
      /\ old = doc[Len(doc)] /\ old \in Section
  BY LastIs DEF LastSection
<1>2. /\ old.devices \in Seq(DeviceNode) /\ m \in Nat \ {0} /\ DOMAIN old.devices = 1..m
      /\ LastDevice = old.devices[m] /\ LastDevice \in DeviceNode
  <2>1. old.devices \in Seq(DeviceNode)
    BY <1>1, TreeIs
  <2> QED BY <2>1, LastIs DEF LastDevice
<1>3. /\ r \in Seq(DeviceNode) /\ r # <<>> /\ Len(r) = m /\ Last(r) = d
      /\ \A j \in 1..m - 1 : r[j] = old.devices[j]
  <2> DEFINE q == old.devices
  <2>1. q \in Seq(DeviceNode) /\ q # <<>>
    BY <1>2
  <2> HIDE DEF q
  <2>2. /\ WithLast(q, d) \in Seq(DeviceNode) /\ WithLast(q, d) # <<>>
        /\ Len(WithLast(q, d)) = Len(q) /\ Last(WithLast(q, d)) = d
        /\ \A j \in 1..Len(q) - 1 : WithLast(q, d)[j] = q[j]
    BY <2>1, LastChanged
  <2> QED BY <2>2 DEF q
<1>4. DOMAIN r = 1..m /\ r[m] = d
  BY <1>3, LastIs
<1>5. doc' = WithLast(doc, s)
  BY Zenon DEF s, r
<1> HIDE DEF r, m, old
<1>6. s \in Section /\ s.dir = old.dir /\ s.card = old.card /\ s.devices = r
  BY <1>1, <1>3 DEF Section
<1> HIDE DEF s
<1>7. /\ WithLast(doc, s) \in Seq(Section) /\ WithLast(doc, s) # <<>>
      /\ Len(WithLast(doc, s)) = Len(doc) /\ Last(WithLast(doc, s)) = s
      /\ \A i \in 1..Len(doc) - 1 : WithLast(doc, s)[i] = doc[i]
  BY <1>6, LastChanged
<1>8. /\ doc' \in Seq(Section) /\ doc' # <<>> /\ Len(doc') = Len(doc) /\ Last(doc') = s
      /\ \A i \in 1..Len(doc) - 1 : doc'[i] = doc[i]
  BY <1>5, <1>7
<1>9. doc'[Len(doc)] = s /\ DOMAIN doc' = 1..Len(doc)
  BY <1>8, LastIs
<1>10. LastSection' = s /\ LastDevice' = d /\ Place' = <<Len(doc), m>> /\ Place = <<Len(doc), m>>
  BY <1>3, <1>6, <1>8 DEF LastSection, LastDevice, Place, old, m
<1>11. ASSUME NEW i \in DOMAIN doc, i # Len(doc)
       PROVE  doc'[i] = doc[i]
  BY <1>1, <1>8, <1>11
<1>12. \A j \in DOMAIN old.devices : j # m => r[j] = old.devices[j]
  BY <1>2, <1>3
<1>13. ASSUME NEW i \in DOMAIN doc
       PROVE  /\ doc'[i].dir = doc[i].dir /\ doc'[i].card = doc[i].card
              /\ DOMAIN doc'[i].devices = DOMAIN doc[i].devices
              /\ \A j \in DOMAIN doc[i].devices :
                   <<i, j>> # Place => doc'[i].devices[j] = doc[i].devices[j]
  <2>1. CASE i = Len(doc)
    BY <1>1, <1>2, <1>4, <1>6, <1>9, <1>10, <1>12, <2>1
  <2>2. CASE i # Len(doc)
    BY <1>11, <2>2
  <2> QED BY <2>1, <2>2
<1>14. ASSUME PathsGrow(LastDevice, d)
       PROVE  TreeGrows
  <2>1. ASSUME NEW i \in DOMAIN doc, NEW j \in DOMAIN doc[i].devices
        PROVE  PathsGrow(doc[i].devices[j], doc'[i].devices[j])
    <3>1. CASE <<i, j>> = Place
      BY <1>1, <1>2, <1>4, <1>6, <1>9, <1>10, <1>14, <3>1
    <3>2. CASE <<i, j>> # Place
      BY <1>13, <3>2 DEF PathsGrow
    <3> QED BY <3>1, <3>2
  <2> QED BY <1>1, <1>9, <1>13, <2>1 DEF TreeGrows
<1>15. LastSection = old /\ Place[1] = Len(doc) /\ Place[2] = m /\ m \in DOMAIN old.devices
  BY <1>2, <1>10 DEF old
<1> QED BY <1>1, <1>2, <1>3, <1>6, <1>8, <1>9, <1>10, <1>13, <1>14, <1>15

LEMMA PathAdded ==
  ASSUME doc \in Seq(Section), doc # <<>>, LastSection.devices # <<>>,
         NEW name \in List \cup {Unknown}, doc' = AddPath(name)
  PROVE  LET p == [name |-> name, ctrls |-> <<>>]
             d == [LastDevice EXCEPT !.paths = Append(@, p)] IN
         /\ p \in PathNode /\ d \in DeviceNode
         /\ doc' = WithLast(doc, [LastSection EXCEPT !.devices = WithLast(@, d)])
         /\ d.name = LastDevice.name /\ d.paths = Append(LastDevice.paths, p)
         /\ PathsGrow(LastDevice, d)
<1> DEFINE p == [name |-> name, ctrls |-> <<>>]
           d == [LastDevice EXCEPT !.paths = Append(@, p)]
           old == LastDevice
<1>1. p \in PathNode
  BY EmptySeq DEF PathNode
<1>2. old \in DeviceNode
  BY LastIs, TreeIs DEF LastSection, LastDevice
<1>3. doc' = WithLast(doc, [LastSection EXCEPT !.devices = WithLast(@, d)])
  BY Zenon DEF AddPath
<1> HIDE DEF p
<1>4. old.paths \in Seq(PathNode)
  BY <1>2 DEF DeviceNode
<1>5. /\ Append(old.paths, p) \in Seq(PathNode)
      /\ \A k \in DOMAIN old.paths : k \in DOMAIN Append(old.paths, p) /\ Append(old.paths, p)[k] = old.paths[k]
  BY <1>1, <1>4, AppendProperties, LenProperties
<1>6. d \in DeviceNode /\ d.name = old.name /\ d.paths = Append(old.paths, p)
  <2> HIDE DEF old
  <2>1. [old EXCEPT !.paths = Append(old.paths, p)] \in DeviceNode
    BY <1>2, <1>5 DEF DeviceNode
  <2> QED BY <1>2, <2>1 DEF DeviceNode, d, old
<1> HIDE DEF d, old
<1>7. PathsGrow(old, d)
  BY <1>5, <1>6 DEF PathsGrow
<1> QED BY <1>1, <1>3, <1>6, <1>7 DEF d, p, old

LEMMA CtrlAdded ==
  ASSUME doc \in Seq(Section), doc # <<>>, LastSection.devices # <<>>, LastDevice.paths # <<>>,
         NEW c \in Ctrls \cup {Incomplete}, doc' = AddCtrl(c)
  PROVE  LET p == Last(LastDevice.paths)
             q == [p EXCEPT !.ctrls = Append(@, c)]
             d == [LastDevice EXCEPT !.paths = WithLast(@, q)] IN
         /\ p \in PathNode /\ q \in PathNode /\ d \in DeviceNode
         /\ doc' = WithLast(doc, [LastSection EXCEPT !.devices = WithLast(@, d)])
         /\ q.name = p.name /\ q.ctrls = Append(p.ctrls, c)
         /\ d.name = LastDevice.name /\ d.paths = WithLast(LastDevice.paths, q)
         /\ PathsGrow(LastDevice, d)
<1> DEFINE old == LastDevice
           p == Last(LastDevice.paths)
           q == [p EXCEPT !.ctrls = Append(@, c)]
           d == [LastDevice EXCEPT !.paths = WithLast(@, q)]
<1>1. old \in DeviceNode
  BY LastIs, TreeIs DEF LastSection, LastDevice
<1>2. doc' = WithLast(doc, [LastSection EXCEPT !.devices = WithLast(@, d)])
  BY Zenon DEF AddCtrl
<1>3. old.paths \in Seq(PathNode) /\ old.paths # <<>>
  BY <1>1 DEF DeviceNode
<1> HIDE DEF old
<1>4. /\ Len(old.paths) \in DOMAIN old.paths /\ Len(old.paths) \in Nat \ {0}
      /\ DOMAIN old.paths = 1..Len(old.paths) /\ p = old.paths[Len(old.paths)] /\ p \in PathNode
  BY <1>3, LastIs DEF old
<1>5. q \in PathNode /\ q.name = p.name /\ q.ctrls = Append(p.ctrls, c)
  <2> HIDE DEF p
  <2>1. Append(p.ctrls, c) \in Seq(Ctrls \cup {Incomplete})
    <3>1. p.ctrls \in Seq(Ctrls \cup {Incomplete})
      BY <1>4 DEF PathNode
    <3> QED BY <3>1, AppendProperties
  <2> QED BY <1>4, <2>1 DEF PathNode
<1> HIDE DEF p, q
<1>6. /\ WithLast(old.paths, q) \in Seq(PathNode) /\ Len(WithLast(old.paths, q)) = Len(old.paths)
      /\ Last(WithLast(old.paths, q)) = q
      /\ \A k \in 1..Len(old.paths) - 1 : WithLast(old.paths, q)[k] = old.paths[k]
  <2> DEFINE ps == old.paths
  <2>1. ps \in Seq(PathNode) /\ ps # <<>>
    BY <1>3
  <2> HIDE DEF ps
  <2>2. /\ WithLast(ps, q) \in Seq(PathNode) /\ Len(WithLast(ps, q)) = Len(ps)
        /\ Last(WithLast(ps, q)) = q
        /\ \A k \in 1..Len(ps) - 1 : WithLast(ps, q)[k] = ps[k]
    BY <1>5, <2>1, LastChanged
  <2> QED BY <2>2 DEF ps
<1>7. d \in DeviceNode /\ d.name = old.name /\ d.paths = WithLast(old.paths, q)
  BY <1>1, <1>6 DEF DeviceNode, old
<1> HIDE DEF d
<1>8. DOMAIN d.paths = 1..Len(old.paths) /\ d.paths[Len(old.paths)] = q
  BY <1>4, <1>6, <1>7, LenProperties DEF Last
<1>9. PathsGrow(old, d)
  <2>1. ASSUME NEW k \in DOMAIN old.paths
        PROVE  k \in DOMAIN d.paths /\ d.paths[k].name = old.paths[k].name
    <3>1. CASE k = Len(old.paths)
      BY <1>4, <1>5, <1>8, <3>1
    <3>2. CASE k # Len(old.paths)
      BY <1>4, <1>6, <1>7, <1>8, <3>2
    <3> QED BY <3>1, <3>2
  <2> QED BY <1>7, <2>1 DEF PathsGrow
<1> QED BY <1>2, <1>4, <1>5, <1>7, <1>9 DEF d, q, p, old

-----------------------------------------------------------------------------
(* Where the parser is after an element starts or ends. *)

LEMMA Opened ==
  ASSUME Nesting, NEW elem \in IoElement \cup {"device", "path"}, open' = Append(open, elem)
  PROVE  /\ open' \in Seq(IoElement \cup {"device", "path"}) /\ open' # <<>>
         /\ Len(open') = Len(open) + 1 /\ Len(open) \in Nat /\ Last(open') = elem
         /\ open'[Len(open) + 1] = elem /\ \A i \in 1..Len(open) : open'[i] = open[i]
         /\ open = <<>> <=> Len(open) = 0
         /\ open # <<>> => Last(open) = open[Len(open)] /\ Len(open) \in 1..Len(open)
  BY LastAppended, LenProperties, EmptySeq DEF Nesting, Last

LEMMA WhereItIs ==
  ASSUME Nesting, open # <<>>
  PROVE  /\ Len(open) \in Nat \ {0} /\ Last(open) = open[Len(open)]
         /\ Last(open) \in IoElement => Len(open) = 1 /\ open[1] \in IoElement
         /\ Last(open) = "device" => Len(open) = 1 \/ (Len(open) = 2 /\ open[1] \in IoElement)
         /\ Last(open) = "path" =>
              /\ open[Len(open) - 1] = "device"
              /\ Len(open) = 2 \/ (Len(open) = 3 /\ open[1] \in IoElement)
<1>1. Len(open) \in Nat \ {0} /\ Last(open) = open[Len(open)] /\ Len(open) \in 1..Len(open)
  BY LastIs DEF Nesting
<1> DEFINE n == Len(open)
<1>2. \A i \in 1..n :
        /\ open[i] \in IoElement => i = 1
        /\ open[i] = "device" => i = 1 \/ (i = 2 /\ open[1] \in IoElement)
        /\ open[i] = "path" => i > 1 /\ open[i - 1] = "device"
  BY DEF Nesting
<1> HIDE DEF n
<1>3. n \in Nat \ {0} /\ n \in 1..n /\ Last(open) = open[n]
  BY <1>1 DEF n
<1>4. ASSUME open[n] = "path"
      PROVE  /\ n - 1 \in 1..n /\ open[n - 1] = "device"
             /\ n - 1 = 1 \/ (n - 1 = 2 /\ open[1] \in IoElement)
  <2>1. n - 1 \in 1..n /\ open[n - 1] = "device"
    BY <1>2, <1>3, <1>4
  <2> DEFINE k == n - 1
  <2> HIDE DEF k
  <2>2. k = 1 \/ (k = 2 /\ open[1] \in IoElement)
    BY <1>2, <2>1 DEF k
  <2> QED BY <2>1, <2>2 DEF k
<1>5. open[n] = "path" => n = 2 \/ (n = 3 /\ open[1] \in IoElement)
  BY <1>3, <1>4
<1>6. /\ open[n] \in IoElement => n = 1 /\ open[1] \in IoElement
      /\ open[n] = "device" => n = 1 \/ (n = 2 /\ open[1] \in IoElement)
  BY <1>2, <1>3
<1> QED BY <1>3, <1>4, <1>5, <1>6 DEF n

LEMMA FrontIs ==
  ASSUME NEW S, NEW s \in Seq(S), s # <<>>
  PROVE  /\ Front(s) \in Seq(S) /\ Len(Front(s)) = Len(s) - 1 /\ Len(s) \in Nat \ {0}
         /\ \A i \in 1..Len(s) - 1 : Front(s)[i] = s[i]
<1>1. Len(s) \in Nat \ {0} /\ \A i \in 1..Len(s) : s[i] \in S
  BY LastIs, ElementOfSeq
<1> DEFINE n == Len(s) - 1
<1>2. n \in Nat /\ n \in Int /\ 1 \in Int /\ \A i \in 1..n : s[i] \in S
  BY <1>1
<1>3. Front(s) = SubSeq(s, 1, n)
  BY Zenon DEF Front
<1> HIDE DEF n
<1>4. /\ SubSeq(s, 1, n) \in Seq(S) /\ Len(SubSeq(s, 1, n)) = IF 1 <= n THEN n - 1 + 1 ELSE 0
      /\ \A i \in 1..n - 1 + 1 : SubSeq(s, 1, n)[i] = s[1 + i - 1]
  BY <1>2, SubSeqProperties
<1>5. Len(SubSeq(s, 1, n)) = n /\ \A i \in 1..n : SubSeq(s, 1, n)[i] = s[i]
  BY <1>2, <1>4
<1> QED BY <1>1, <1>3, <1>4, <1>5 DEF n

LEMMA Shortened ==
  ASSUME Nesting, open # <<>>, open' = Front(open)
  PROVE  /\ Nesting' /\ Len(open') = Len(open) - 1 /\ Len(open) \in Nat \ {0}
         /\ \A i \in 1..Len(open) - 1 : open'[i] = open[i]
         /\ open' = <<>> <=> Len(open) = 1
<1>1. Len(open) \in Nat \ {0} /\ \A i \in 1..Len(open) : open[i] \in IoElement \cup {"device", "path"}
  BY LastIs, ElementOfSeq DEF Nesting
<1>2. /\ open' \in Seq(IoElement \cup {"device", "path"}) /\ Len(open') = Len(open) - 1
      /\ \A i \in 1..Len(open) - 1 : open'[i] = open[i]
  BY FrontIs DEF Nesting
<1>3. open' = <<>> <=> Len(open) = 1
  BY <1>1, <1>2, EmptySeq
<1>4. ASSUME NEW i \in 1..Len(open')
      PROVE  /\ open'[i] \in IoElement => i = 1
             /\ open'[i] = "device" => i = 1 \/ (i = 2 /\ open'[1] \in IoElement)
             /\ open'[i] = "path" => i > 1 /\ open'[i - 1] = "device"
  <2>1. i \in 1..Len(open) /\ open'[i] = open[i] /\ open'[1] = open[1]
        /\ (i > 1 => open'[i - 1] = open[i - 1])
    BY <1>1, <1>2
  <2> QED BY <2>1 DEF Nesting
<1> QED BY <1>1, <1>2, <1>3, <1>4 DEF Nesting

LEMMA IoStarts ==
  ASSUME Nesting, open = <<>>, NEW dir \in IoElement, open' = Append(open, dir)
  PROVE  /\ Nesting' /\ open' # <<>> /\ open'[1] = dir
         /\ ~InSection /\ ~InDevice /\ ~InPath /\ InSection' /\ ~InDevice' /\ ~InPath'
  BY Opened DEF Nesting, InSection, InDevice, InPath, IoElement

LEMMA DeviceStarts ==
  ASSUME Nesting, open = <<>> \/ InIo, open' = Append(open, "device")
  PROVE  /\ Nesting' /\ open' # <<>> /\ (open = <<>> <=> ~InSection)
         /\ (InSection' <=> InSection) /\ (InSection => open'[1] = open[1])
         /\ ~InDevice /\ ~InPath /\ InDevice' /\ ~InPath'
  BY Opened, WhereItIs DEF Nesting, InIo, InSection, InDevice, InPath, IoElement

LEMMA PathStarts ==
  ASSUME Nesting, In("device"), open' = Append(open, "path")
  PROVE  /\ Nesting' /\ open # <<>> /\ open' # <<>>
         /\ (InSection' <=> InSection) /\ (InSection => open'[1] = open[1])
         /\ InDevice /\ ~InPath /\ InDevice' /\ InPath'
  BY Opened, WhereItIs DEF Nesting, In, InSection, InDevice, InPath, IoElement

LEMMA IoEnds ==
  ASSUME Nesting, NEW dir \in IoElement, In(dir), open' = Front(open)
  PROVE  /\ Nesting' /\ open' = <<>> /\ open # <<>> /\ open[1] = dir
         /\ InSection /\ ~InDevice /\ ~InPath /\ ~InSection' /\ ~InDevice' /\ ~InPath'
  BY Shortened, WhereItIs DEF In, InSection, InDevice, InPath, IoElement

LEMMA DeviceEnds ==
  ASSUME Nesting, In("device"), open' = Front(open)
  PROVE  /\ Nesting' /\ open # <<>> /\ (open' = <<>> <=> ~InSection)
         /\ (InSection' <=> InSection) /\ (InSection => open'[1] = open[1])
         /\ InDevice /\ ~InPath /\ ~InDevice' /\ ~InPath'
<1>1. /\ Nesting' /\ Len(open') = Len(open) - 1 /\ (open' = <<>> <=> Len(open) = 1)
      /\ \A i \in 1..Len(open) - 1 : open'[i] = open[i]
  BY Shortened DEF In
<1>2. open' # <<>> => Len(open') \in Nat \ {0} /\ Last(open') = open'[Len(open')]
  BY <1>1, LastIs DEF Nesting
<1> QED BY <1>1, <1>2, WhereItIs DEF In, InSection, InDevice, InPath, IoElement

LEMMA PathEnds ==
  ASSUME Nesting, In("path"), open' = Front(open)
  PROVE  /\ Nesting' /\ open # <<>> /\ open' # <<>>
         /\ (InSection' <=> InSection) /\ (InSection => open'[1] = open[1])
         /\ InDevice /\ InPath /\ InDevice' /\ ~InPath'
<1>1. /\ Nesting' /\ Len(open') = Len(open) - 1 /\ (open' = <<>> <=> Len(open) = 1)
      /\ \A i \in 1..Len(open) - 1 : open'[i] = open[i]
  BY Shortened DEF In
<1>2. open' # <<>> => Len(open') \in Nat \ {0} /\ Last(open') = open'[Len(open')]
  BY <1>1, LastIs DEF Nesting
<1> QED BY <1>1, <1>2, WhereItIs DEF In, InSection, InDevice, InPath, IoElement

-----------------------------------------------------------------------------
(* The controls of a device while it is read. *)

\* What is appended has the number of a place behind all others.
LEMMA NextIsNumbered ==
  ASSUME NEW S, NEW s \in Seq(S), NEW x \in S, NEW P, IsFiniteSet(P), Pairs(P),
         NEW q, Pairs({q}), \A p \in P : Before(p, q), Len(s) = Cardinality(P)
  PROVE  /\ IsFiniteSet(P \cup {q}) /\ Len(Append(s, x)) = Cardinality(P \cup {q})
         /\ \A p \in P : Append(s, x)[Number(P \cup {q}, p)] = s[Number(P, p)]
         /\ Append(s, x)[Number(P \cup {q}, q)] = x
<1>1. /\ IsFiniteSet(P \cup {q}) /\ Cardinality(P \cup {q}) = Cardinality(P) + 1
      /\ Number(P \cup {q}, q) = Cardinality(P) + 1
      /\ \A p \in P : Number(P \cup {q}, p) = Number(P, p)
  BY NumberOfNext
<1>2. /\ Len(Append(s, x)) = Len(s) + 1 /\ Append(s, x)[Len(s) + 1] = x
      /\ \A i \in 1..Len(s) : Append(s, x)[i] = s[i]
  BY LastAppended
<1>3. \A p \in P : Number(P, p) \in 1..Len(s)
  BY NumberIsOne
<1> QED BY <1>1, <1>2, <1>3

LEMMA CtrlPlacesAre ==
  ASSUME NEW d, NEW which
  PROVE  /\ \A q \in CtrlPlaces(d, which) :
              /\ q = <<q[1], q[2]>> /\ q[1] \in DOMAIN d.paths /\ q[2] \in DOMAIN d.paths[q[1]].ctrls
              /\ d.paths[q[1]].name = which /\ d.paths[q[1]].ctrls[q[2]] # Incomplete
         /\ \A k \in DOMAIN d.paths : \A l \in DOMAIN d.paths[k].ctrls :
              d.paths[k].name = which /\ d.paths[k].ctrls[l] # Incomplete
                => <<k, l>> \in CtrlPlaces(d, which)
  BY DEF CtrlPlaces

LEMMA DeviceNodeIs ==
  ASSUME NEW d \in DeviceNode
  PROVE  /\ d.name \in TypeName /\ d.paths \in Seq(PathNode)
         /\ DOMAIN d.paths = 1..Len(d.paths) /\ Len(d.paths) \in Nat
         /\ \A k \in DOMAIN d.paths :
              /\ d.paths[k] \in PathNode /\ d.paths[k].ctrls \in Seq(Ctrls \cup {Incomplete})
              /\ d.paths[k].name \in List \cup {Unknown}
              /\ DOMAIN d.paths[k].ctrls = 1..Len(d.paths[k].ctrls) /\ Len(d.paths[k].ctrls) \in Nat
<1>1. d.name \in TypeName /\ d.paths \in Seq(PathNode)
  BY DEF DeviceNode
<1>2. DOMAIN d.paths = 1..Len(d.paths) /\ Len(d.paths) \in Nat
      /\ \A k \in DOMAIN d.paths : d.paths[k] \in PathNode
  BY <1>1, LenProperties, ElementOfSeq
<1>3. ASSUME NEW p \in PathNode
      PROVE  /\ p.ctrls \in Seq(Ctrls \cup {Incomplete}) /\ p.name \in List \cup {Unknown}
             /\ DOMAIN p.ctrls = 1..Len(p.ctrls) /\ Len(p.ctrls) \in Nat
  <2>1. p.ctrls \in Seq(Ctrls \cup {Incomplete}) /\ p.name \in List \cup {Unknown}
    BY DEF PathNode
  <2> QED BY <2>1, LenProperties
<1> QED BY <1>1, <1>2, <1>3

\* The places of two devices' controls, and what is there, are the same.
SameCtrls(d, e, which) ==
  /\ CtrlPlaces(e, which) = CtrlPlaces(d, which)
  /\ \A q \in CtrlPlaces(d, which) : e.paths[q[1]].ctrls[q[2]] = d.paths[q[1]].ctrls[q[2]]

LEMMA ListKept ==
  ASSUME NEW s, NEW d, NEW e, NEW which, SameCtrls(d, e, which), ListIs(s, d, which)
  PROVE  ListIs(s, e, which)
  BY DEF ListIs, SameCtrls

LEMMA PathHasNone ==
  ASSUME NEW d \in DeviceNode, NEW e, NEW p \in PathNode, p.ctrls = <<>>,
         e.paths = Append(d.paths, p), NEW which
  PROVE  SameCtrls(d, e, which)
<1>1. d.paths \in Seq(PathNode) /\ DOMAIN d.paths = 1..Len(d.paths) /\ Len(d.paths) \in Nat
  BY DeviceNodeIs
<1>2. /\ DOMAIN e.paths = 1..Len(d.paths) + 1 /\ e.paths[Len(d.paths) + 1] = p
      /\ \A k \in 1..Len(d.paths) : e.paths[k] = d.paths[k]
  BY <1>1, LastAppended, LenProperties
<1>3. DOMAIN p.ctrls = {}
  OBVIOUS
<1>4. \A k \in DOMAIN e.paths : k = Len(d.paths) + 1 \/ (k \in DOMAIN d.paths /\ e.paths[k] = d.paths[k])
  BY <1>1, <1>2
<1>5. \A q \in CtrlPlaces(e, which) : q \in CtrlPlaces(d, which)
  BY <1>2, <1>3, <1>4, CtrlPlacesAre
<1>6. \A q \in CtrlPlaces(d, which) :
        q \in CtrlPlaces(e, which) /\ e.paths[q[1]].ctrls[q[2]] = d.paths[q[1]].ctrls[q[2]]
  <2>1. SUFFICES ASSUME NEW q \in CtrlPlaces(d, which)
                 PROVE  q \in CtrlPlaces(e, which) /\ e.paths[q[1]].ctrls[q[2]] = d.paths[q[1]].ctrls[q[2]]
    OBVIOUS
  <2>2. q[1] \in DOMAIN e.paths /\ e.paths[q[1]] = d.paths[q[1]]
    BY <1>1, <1>2, CtrlPlacesAre
  <2> QED BY <2>2, CtrlPlacesAre
<1> QED BY <1>5, <1>6 DEF SameCtrls

\* A complete control is behind all others of its path's type.
CtrlNext(d, e, name, c, new, which) ==
  /\ CtrlPlaces(e, which) = CtrlPlaces(d, which)
       \cup (IF which = name /\ c # Incomplete THEN {new} ELSE {})
  /\ \A x \in CtrlPlaces(d, which) : e.paths[x[1]].ctrls[x[2]] = d.paths[x[1]].ctrls[x[2]]
  /\ e.paths[new[1]].ctrls[new[2]] = c
  /\ Pairs(CtrlPlaces(d, which)) /\ Pairs({new})
  /\ \A x \in CtrlPlaces(d, which) : Before(x, new)

LEMMA CtrlIsNext ==
  ASSUME NEW d \in DeviceNode, NEW e, d.paths # <<>>, NEW c \in Ctrls \cup {Incomplete},
         NEW p \in PathNode, p = Last(d.paths), NEW q \in PathNode, q.name = p.name,
         q.ctrls = Append(p.ctrls, c), e.paths = WithLast(d.paths, q), NEW which,
         NEW new, new = <<Len(d.paths), Len(p.ctrls) + 1>>
  PROVE  CtrlNext(d, e, p.name, c, new, which)
<1> DEFINE n == Len(d.paths)
           m == Len(p.ctrls)
<1>1. d.paths \in Seq(PathNode) /\ DOMAIN d.paths = 1..n /\ n \in Nat \ {0} /\ d.paths[n] = p
  <2>1. d.paths \in Seq(PathNode)
    BY DeviceNodeIs
  <2> QED BY <2>1, LastIs
<1>2. /\ DOMAIN e.paths = 1..n /\ e.paths[n] = q
      /\ \A k \in 1..n - 1 : e.paths[k] = d.paths[k]
  <2> DEFINE ps == d.paths
  <2>1. ps \in Seq(PathNode) /\ ps # <<>>
    BY <1>1
  <2> HIDE DEF ps
  <2>2. /\ WithLast(ps, q) \in Seq(PathNode) /\ Len(WithLast(ps, q)) = Len(ps)
        /\ Last(WithLast(ps, q)) = q
        /\ \A k \in 1..Len(ps) - 1 : WithLast(ps, q)[k] = ps[k]
    BY <2>1, LastChanged
  <2>3. DOMAIN WithLast(ps, q) = 1..Len(ps) /\ WithLast(ps, q)[Len(ps)] = q
    BY <2>2, LenProperties DEF Last
  <2> QED BY <2>2, <2>3 DEF ps
<1>3. p.ctrls \in Seq(Ctrls \cup {Incomplete})
  BY DEF PathNode
<1>4. /\ DOMAIN p.ctrls = 1..m /\ m \in Nat /\ DOMAIN q.ctrls = 1..m + 1
      /\ q.ctrls[m + 1] = c /\ \A l \in 1..m : q.ctrls[l] = p.ctrls[l]
  BY <1>3, LastAppended, LenProperties
<1>0. new = <<n, m + 1>> /\ new[1] = n /\ new[2] = m + 1
  OBVIOUS
<1> HIDE DEF n, m
<1>5. ASSUME NEW x \in CtrlPlaces(d, which)
      PROVE  /\ x \in CtrlPlaces(e, which) /\ e.paths[x[1]].ctrls[x[2]] = d.paths[x[1]].ctrls[x[2]]
             /\ x = <<x[1], x[2]>> /\ x[1] \in Nat /\ x[2] \in Nat /\ Before(x, new)
  <2>1. /\ x = <<x[1], x[2]>> /\ x[1] \in 1..n /\ x[2] \in DOMAIN d.paths[x[1]].ctrls
        /\ d.paths[x[1]].name = which /\ d.paths[x[1]].ctrls[x[2]] # Incomplete
    BY <1>1, CtrlPlacesAre
  <2>2. CASE x[1] = n
    <3>1. /\ x[2] \in 1..m /\ x[2] \in DOMAIN q.ctrls /\ q.name = which
          /\ q.ctrls[x[2]] = p.ctrls[x[2]] /\ e.paths[x[1]] = q /\ d.paths[x[1]] = p
      BY <1>1, <1>2, <1>4, <2>1, <2>2
    <3> QED BY <1>0, <1>1, <1>2, <1>4, <2>1, <2>2, <3>1, CtrlPlacesAre DEF Before
  <2>3. CASE x[1] # n
    <3>1. x[1] \in 1..n - 1 /\ e.paths[x[1]] = d.paths[x[1]] /\ x[2] \in Nat
      BY <1>1, <1>2, <2>1, <2>3, DeviceNodeIs
    <3> QED BY <1>0, <1>1, <1>2, <2>1, <3>1, CtrlPlacesAre DEF Before
  <2> QED BY <2>2, <2>3
<1>6. ASSUME NEW x \in CtrlPlaces(e, which)
      PROVE  x \in CtrlPlaces(d, which) \/ (x = new /\ which = p.name /\ c # Incomplete)
  <2>1. /\ x = <<x[1], x[2]>> /\ x[1] \in 1..n /\ x[2] \in DOMAIN e.paths[x[1]].ctrls
        /\ e.paths[x[1]].name = which /\ e.paths[x[1]].ctrls[x[2]] # Incomplete
    <3>1. /\ x = <<x[1], x[2]>> /\ x[1] \in DOMAIN e.paths /\ x[2] \in DOMAIN e.paths[x[1]].ctrls
          /\ e.paths[x[1]].name = which /\ e.paths[x[1]].ctrls[x[2]] # Incomplete
      BY DEF CtrlPlaces
    <3> QED BY <1>2, <3>1
  <2>2. CASE x[1] = n
    <3>1. x[2] \in 1..m + 1 /\ p.name = which /\ q.ctrls[x[2]] # Incomplete
      BY <1>2, <1>4, <2>1, <2>2
    <3>2. CASE x[2] = m + 1
      BY <1>0, <1>4, <2>1, <2>2, <3>1, <3>2
    <3>3. CASE x[2] # m + 1
      <4>1. x[2] \in DOMAIN p.ctrls /\ p.ctrls[x[2]] # Incomplete
        BY <1>4, <3>1, <3>3
      <4> QED BY <1>1, <2>1, <2>2, <3>1, <4>1, CtrlPlacesAre
    <3> QED BY <3>2, <3>3
  <2>3. CASE x[1] # n
    <3>1. x[1] \in DOMAIN d.paths /\ e.paths[x[1]] = d.paths[x[1]]
      BY <1>1, <1>2, <2>1, <2>3
    <3> QED BY <2>1, <3>1, CtrlPlacesAre
  <2> QED BY <2>2, <2>3
<1>7. which = p.name /\ c # Incomplete => new \in CtrlPlaces(e, which)
  <2>1. n \in DOMAIN e.paths /\ m + 1 \in DOMAIN e.paths[n].ctrls
        /\ e.paths[n].name = p.name /\ e.paths[n].ctrls[m + 1] = c
    BY <1>1, <1>2, <1>4
  <2> QED BY <1>0, <2>1, CtrlPlacesAre
<1>8. e.paths[new[1]].ctrls[new[2]] = c
  BY <1>0, <1>2, <1>4
<1>9. Pairs(CtrlPlaces(d, which)) /\ Pairs({new})
  BY <1>0, <1>1, <1>4, <1>5 DEF Pairs
<1>10. CtrlPlaces(e, which) = CtrlPlaces(d, which)
         \cup (IF which = p.name /\ c # Incomplete THEN {new} ELSE {})
  BY <1>5, <1>6, <1>7
<1> QED BY <1>5, <1>8, <1>9, <1>10 DEF CtrlNext

-----------------------------------------------------------------------------
(* The places of the devices that have ended. *)

LEMMA DevicePlacesAre ==
  ASSUME NEW dir
  PROVE  DevicePlaces(dir) = PlacesIn(doc, dir) /\ DevicePlaces(dir)' = PlacesIn(doc', dir)
  BY DEF DevicePlaces, PlacesIn, Counts

LEMMA SectionAdded ==
  ASSUME doc \in Seq(Section), NEW s \in Section, s.devices = <<>>, doc' = Append(doc, s), NEW dir
  PROVE  /\ doc' \in Seq(Section) /\ doc' # <<>> /\ Len(doc') = Len(doc) + 1 /\ LastSection' = s
         /\ \A i \in DOMAIN doc : doc'[i] = doc[i]
         /\ TreeGrows /\ PlacesIn(doc', dir) = PlacesIn(doc, dir)
<1>1. /\ doc' \in Seq(Section) /\ doc' # <<>> /\ Len(doc') = Len(doc) + 1 /\ Last(doc') = s
      /\ doc'[Len(doc) + 1] = s /\ \A i \in 1..Len(doc) : doc'[i] = doc[i]
  BY LastAppended
<1>2. DOMAIN doc = 1..Len(doc) /\ Len(doc) \in Nat /\ DOMAIN doc' = 1..Len(doc) + 1
  BY <1>1, LenProperties
<1>3. DOMAIN s.devices = {}
  OBVIOUS
<1>4. \A i \in DOMAIN doc : i \in DOMAIN doc' /\ doc'[i] = doc[i]
  BY <1>1, <1>2
<1>5. TreeGrows
  BY <1>4 DEF TreeGrows, PathsGrow
<1>6. \A i \in DOMAIN doc' : i = Len(doc) + 1 \/ i \in DOMAIN doc
  BY <1>2
<1>7. \A p \in PlacesIn(doc', dir) : p \in PlacesIn(doc, dir)
  <2>1. SUFFICES ASSUME NEW p \in PlacesIn(doc', dir) PROVE p \in PlacesIn(doc, dir)
    OBVIOUS
  <2>2. /\ p = <<p[1], p[2]>> /\ p[1] \in DOMAIN doc' /\ p[2] \in DOMAIN doc'[p[1]].devices
        /\ Counts(doc'[p[1]].dir, dir)
    BY DEF PlacesIn
  <2>3. p[1] \in DOMAIN doc
    BY <1>1, <1>3, <1>6, <2>2
  <2>4. p[2] \in DOMAIN doc[p[1]].devices /\ Counts(doc[p[1]].dir, dir)
    BY <1>4, <2>2, <2>3
  <2> QED BY <2>2, <2>3, <2>4 DEF PlacesIn
<1>8. \A p \in PlacesIn(doc, dir) : p \in PlacesIn(doc', dir)
  BY <1>4 DEF PlacesIn
<1> QED BY <1>1, <1>4, <1>5, <1>7, <1>8 DEF LastSection

\* A new device is not among those that have ended.
LEMMA NewIsOpen ==
  ASSUME doc \in Seq(Section), NEW name \in TypeName, doc' = AddDevice(name),
         open # <<>> => doc # <<>>, 0 \in Cards, NEW dir
  PROVE  /\ PlacesIn(doc', dir) \ {Place'} = PlacesIn(doc, dir)
         /\ \A p \in PlacesIn(doc, dir) : doc'[p[1]].devices[p[2]] = doc[p[1]].devices[p[2]]
<1>1. /\ TreeGrows
      /\ \A i \in DOMAIN doc : \A j \in DOMAIN doc[i].devices :
           doc'[i].devices[j] = doc[i].devices[j]
      /\ \A i \in DOMAIN doc' : \A j \in DOMAIN doc'[i].devices :
           <<i, j>> # Place' => i \in DOMAIN doc /\ j \in DOMAIN doc[i].devices
      /\ \A i \in DOMAIN doc : \A j \in DOMAIN doc[i].devices : Before(<<i, j>>, Place')
  BY DeviceAdded
<1>2. ASSUME NEW i \in DOMAIN doc, NEW j \in DOMAIN doc[i].devices
      PROVE  /\ i \in DOMAIN doc' /\ j \in DOMAIN doc'[i].devices /\ doc'[i].dir = doc[i].dir
             /\ <<i, j>> # Place'
  <2>1. i \in Nat /\ j \in Nat
    BY TreeIs
  <2>2. ~Before(<<i, j>>, <<i, j>>)
    BY <2>1 DEF Before
  <2> QED BY <1>1, <2>2 DEF TreeGrows
<1>3. \A i \in DOMAIN doc : doc'[i].dir = doc[i].dir
  BY <1>1 DEF TreeGrows
<1>4. ASSUME NEW p \in PlacesIn(doc, dir)
      PROVE  p \in PlacesIn(doc', dir) /\ p # Place' /\ doc'[p[1]].devices[p[2]] = doc[p[1]].devices[p[2]]
  <2>1. /\ p = <<p[1], p[2]>> /\ p[1] \in DOMAIN doc /\ p[2] \in DOMAIN doc[p[1]].devices
        /\ Counts(doc[p[1]].dir, dir)
    BY PlacesAre
  <2>2. /\ p[1] \in DOMAIN doc' /\ p[2] \in DOMAIN doc'[p[1]].devices /\ Counts(doc'[p[1]].dir, dir)
        /\ p # Place'
    BY <1>2, <2>1
  <2>3. p \in PlacesIn(doc', dir)
    BY <2>1, <2>2, PlacesAre
  <2> QED BY <1>1, <2>1, <2>2, <2>3
<1>5. ASSUME NEW p \in PlacesIn(doc', dir), p # Place'
      PROVE  p \in PlacesIn(doc, dir)
  <2>1. /\ p = <<p[1], p[2]>> /\ p[1] \in DOMAIN doc' /\ p[2] \in DOMAIN doc'[p[1]].devices
        /\ Counts(doc'[p[1]].dir, dir)
    BY PlacesAre
  <2>2. p[1] \in DOMAIN doc /\ p[2] \in DOMAIN doc[p[1]].devices
    BY <1>1, <1>5, <2>1
  <2> QED BY <1>3, <2>1, <2>2, PlacesAre
<1> QED BY <1>4, <1>5

\* A change of the last device changes no place.
LEMMA PlacesKept ==
  ASSUME \A i \in DOMAIN doc :
           doc'[i].dir = doc[i].dir /\ DOMAIN doc'[i].devices = DOMAIN doc[i].devices,
         DOMAIN doc' = DOMAIN doc, NEW dir
  PROVE  PlacesIn(doc', dir) = PlacesIn(doc, dir)
<1>1. ASSUME NEW p \in PlacesIn(doc, dir)
      PROVE  p \in PlacesIn(doc', dir)
  BY PlacesAre
<1>2. ASSUME NEW p \in PlacesIn(doc', dir)
      PROVE  p \in PlacesIn(doc, dir)
  BY PlacesAre
<1> QED BY <1>1, <1>2

\* The open device comes next among those that have ended.
LEMMA OpenIsNext ==
  ASSUME doc \in Seq(Section), doc # <<>>, LastSection.devices # <<>>, NEW dir
  PROVE  LET P == PlacesIn(doc, dir) IN
         /\ Pairs(P \ {Place}) /\ Pairs({Place}) /\ \A p \in P \ {Place} : Before(p, Place)
         /\ doc[Place[1]].devices[Place[2]] = LastDevice
         /\ P = (P \ {Place}) \cup (IF Counts(LastSection.dir, dir) THEN {Place} ELSE {})
<1> DEFINE n == Len(doc)
           m == Len(LastSection.devices)
<1>1. n \in DOMAIN doc /\ n \in Nat \ {0} /\ DOMAIN doc = 1..n /\ LastSection = doc[n] /\ LastSection \in Section
  BY LastIs DEF LastSection
<1>2. LastSection.devices \in Seq(DeviceNode)
  BY <1>1, TreeIs
<1>3. /\ m \in DOMAIN doc[n].devices /\ m \in Nat \ {0} /\ DOMAIN doc[n].devices = 1..m
      /\ LastDevice = doc[n].devices[m]
  BY <1>1, <1>2, LastIs DEF LastDevice
<1>4. Place = <<n, m>> /\ Place[1] = n /\ Place[2] = m
  BY DEF Place
<1> HIDE DEF n, m
<1>5. ASSUME NEW p \in PlacesIn(doc, dir), p # Place
      PROVE  p = <<p[1], p[2]>> /\ p[1] \in Nat /\ p[2] \in Nat /\ Before(p, Place)
  <2>1. /\ p = <<p[1], p[2]>> /\ p[1] \in DOMAIN doc /\ p[2] \in DOMAIN doc[p[1]].devices
    BY PlacesAre
  <2>2. p[1] \in 1..n /\ p[2] \in Nat
    BY <1>1, <2>1, TreeIs
  <2>3. p[1] = n => p[2] \in 1..m /\ p[2] # m
    BY <1>3, <1>4, <1>5, <2>1
  <2> QED BY <1>1, <1>3, <1>4, <2>1, <2>2, <2>3 DEF Before
<1>6. Counts(LastSection.dir, dir) <=> Place \in PlacesIn(doc, dir)
  BY <1>1, <1>3, <1>4, PlacesAre
<1> QED BY <1>1, <1>3, <1>4, <1>5, <1>6 DEF Pairs

LEMMA EndedIs ==
  ASSUME NEW dir
  PROVE  /\ ~InDevice => Ended(dir) = PlacesIn(doc, dir)
         /\ InDevice => Ended(dir) = PlacesIn(doc, dir) \ {Place}
         /\ ~InDevice' => Ended(dir)' = PlacesIn(doc', dir)
         /\ InDevice' => Ended(dir)' = PlacesIn(doc', dir) \ {Place'}
  BY DevicePlacesAre DEF Ended

LEMMA DevicesKept ==
  ASSUME NEW dir, DevicesEnded(dir), mixer'[dir].devices = mixer[dir].devices,
         Ended(dir)' = Ended(dir),
         \A p \in Ended(dir) : doc'[p[1]].devices[p[2]] = doc[p[1]].devices[p[2]]
  PROVE  DevicesEnded(dir)'
<1>1. /\ Len(mixer[dir].devices) = Cardinality(Ended(dir))
      /\ \A p \in Ended(dir) :
           DeviceIs(mixer[dir].devices[Number(Ended(dir), p)], dir, doc[p[1]].devices[p[2]])
  BY DEF DevicesEnded, DevicesAre
<1>2. /\ Len(mixer'[dir].devices) = Cardinality(Ended(dir)')
      /\ \A p \in Ended(dir)' :
           DeviceIs(mixer'[dir].devices[Number(Ended(dir)', p)], dir, doc'[p[1]].devices[p[2]])
  BY <1>1
<1> QED BY <1>2 DEF DevicesEnded, DevicesAre

LEMMA CardKept ==
  ASSUME NEW dir, NEW n \in Nat, CardIs(dir, n), NEW m \in {n, n + 1},
         \A i \in 1..n : doc'[i].dir = doc[i].dir /\ doc'[i].card = doc[i].card,
         m = n + 1 => doc'[n + 1].dir # dir, mixer'[dir].card = mixer[dir].card
  PROVE  LET own == {i \in 1..m : doc'[i].dir = dir} IN
         IF own = {} THEN mixer'[dir].card = 0
         ELSE \E i \in own : (\A j \in own : j <= i) /\ mixer'[dir].card = doc'[i].card
<1> DEFINE own == {i \in 1..n : doc[i].dir = dir}
           now == {i \in 1..m : doc'[i].dir = dir}
<1>1. \A i \in 1..m : i \in 1..n \/ (i = n + 1 /\ m = n + 1)
  OBVIOUS
<1>2. now = own
  BY <1>1
<1>3. IF own = {} THEN mixer[dir].card = 0
      ELSE \E i \in own : (\A j \in own : j <= i) /\ mixer[dir].card = doc[i].card
  BY DEF CardIs
<1>4. \A i \in own : doc'[i].card = doc[i].card
  OBVIOUS
<1> HIDE DEF own, now
<1>5. IF now = {} THEN mixer'[dir].card = 0
      ELSE \E i \in now : (\A j \in now : j <= i) /\ mixer'[dir].card = doc'[i].card
  BY <1>2, <1>3, <1>4
<1> QED BY <1>5 DEF now

LEMMA CardSame ==
  ASSUME NEW dir, Closed \in Nat, Closed' = Closed, CardIs(dir, Closed),
         \A i \in 1..Closed : doc'[i].dir = doc[i].dir /\ doc'[i].card = doc[i].card,
         mixer'[dir].card = mixer[dir].card
  PROVE  CardIs(dir, Closed)'
  BY CardKept DEF CardIs

-----------------------------------------------------------------------------
(* The blocks. *)

LEMMA DeviceBlocksIs ==
  ASSUME NEW d \in ParsedDevice \cup {Null}
  PROVE  DeviceBlocks(d) \in Nat
<1>1. CASE d = Null
  BY <1>1 DEF DeviceBlocks
<1>2. CASE d # Null
  <2>1. d.enable \in Seq(Ctrls) /\ d.disable \in Seq(Ctrls)
    BY <1>2 DEF ParsedDevice
  <2>2. Len(d.enable) \in Nat /\ Len(d.disable) \in Nat
    BY <2>1, LenProperties
  <2>3. DeviceBlocks(d) = 1 + 2 * Len(d.enable) + 2 * Len(d.disable)
    BY <1>2 DEF DeviceBlocks
  <2> DEFINE m == Len(d.enable)
             n == Len(d.disable)
  <2> HIDE DEF m, n
  <2>4. m \in Nat /\ n \in Nat /\ DeviceBlocks(d) = 1 + 2 * m + 2 * n
    BY <2>2, <2>3 DEF m, n
  <2> QED BY <2>4
<1> QED BY <1>1, <1>2

LEMMA BlocksKept ==
  ASSUME BlocksAreHeld, \A dir \in IoElement : mixer'[dir].devices = mixer[dir].devices,
         lost \in Int, lost' \in Int, DeviceBlocks(device) \in Nat, DeviceBlocks(device') \in Nat,
         blocks' = blocks + (lost' - lost) + (DeviceBlocks(device') - DeviceBlocks(device)),
         lost' <= elements'
  PROVE  BlocksAreHeld'
<1>1. \A dir \in IoElement :
        /\ BlocksOf(mixer'[dir].devices) = BlocksOf(mixer[dir].devices)
        /\ Freed(mixer'[dir]) = Freed(mixer[dir]) /\ Freed(mixer[dir]) \in Nat
  BY FS_CardinalityType DEF BlocksAreHeld, Freed
<1>2. {"output", "input", "modem"} = IoElement
  BY DEF IoElement
<1> QED BY <1>1, <1>2 DEF BlocksAreHeld

LEMMA BlocksOfAppended ==
  ASSUME NEW s \in Seq(ParsedDevice \cup {Null}), NEW d \in ParsedDevice \cup {Null},
         IsFiniteSet(BlocksOf(s))
  PROVE  /\ IsFiniteSet(BlocksOf(Append(s, d)))
         /\ Cardinality(BlocksOf(Append(s, d))) = Cardinality(BlocksOf(s)) + DeviceBlocks(d) + 1
<1> DEFINE n == Len(s)
           t == Append(s, d)
           k == DeviceBlocks(d) + 1
           new == {n + 1} \X (1..k)
<1>1. /\ n \in Nat /\ DOMAIN s = 1..n /\ DOMAIN t = 1..n + 1 /\ t[n + 1] = d
      /\ \A i \in 1..n : t[i] = s[i]
  BY LastAppended, LenProperties
<1>2. k \in Nat
  BY DeviceBlocksIs
<1> HIDE DEF n, t, k
<1>3. BlocksOf(t) = BlocksOf(s) \cup new
  <2>1. \A b \in BlocksOf(t) : b \in BlocksOf(s) \/ b \in new
    <3>1. SUFFICES ASSUME NEW b \in BlocksOf(t) PROVE b \in BlocksOf(s) \/ b \in new
      OBVIOUS
    <3>2. PICK i \in DOMAIN t : b \in {i} \X (1..DeviceBlocks(t[i]) + 1)
      BY DEF BlocksOf
    <3>3. CASE i = n + 1
      BY <1>1, <3>2, <3>3 DEF k
    <3>4. CASE i # n + 1
      <4>1. i \in DOMAIN s /\ t[i] = s[i]
        BY <1>1, <3>4
      <4> QED BY <3>2, <4>1 DEF BlocksOf
    <3> QED BY <3>3, <3>4
  <2>2. \A b \in BlocksOf(s) : b \in BlocksOf(t)
    <3>1. SUFFICES ASSUME NEW b \in BlocksOf(s) PROVE b \in BlocksOf(t)
      OBVIOUS
    <3>2. PICK i \in DOMAIN s : b \in {i} \X (1..DeviceBlocks(s[i]) + 1)
      BY DEF BlocksOf
    <3>3. i \in DOMAIN t /\ t[i] = s[i]
      BY <1>1
    <3> QED BY <3>2, <3>3 DEF BlocksOf
  <2>3. new \subseteq BlocksOf(t)
    <3>1. n + 1 \in DOMAIN t /\ t[n + 1] = d
      BY <1>1
    <3> QED BY <3>1 DEF BlocksOf, k
  <2> QED BY <2>1, <2>2, <2>3
<1>4. BlocksOf(s) \cap new = {}
  BY <1>1 DEF BlocksOf
<1>5. IsFiniteSet(new) /\ Cardinality(new) = k
  <2>1. IsFiniteSet(1..k) /\ Cardinality(1..k) = k
    BY <1>2, FS_Interval
  <2>2. IsFiniteSet({n + 1}) /\ Cardinality({n + 1}) = 1
    BY FS_Singleton
  <2> DEFINE A == {n + 1}
             B == 1..k
  <2>3. IsFiniteSet(A) /\ IsFiniteSet(B) /\ Cardinality(A) = 1 /\ Cardinality(B) = k
    BY <2>1, <2>2
  <2> HIDE DEF A, B
  <2>4. IsFiniteSet(A \X B) /\ Cardinality(A \X B) = Cardinality(A) * Cardinality(B)
    BY <2>3, FS_Product
  <2>5. IsFiniteSet(A \X B) /\ Cardinality(A \X B) = k
    BY <1>2, <2>3, <2>4
  <2> QED BY <2>5 DEF A, B
<1>6. /\ IsFiniteSet(BlocksOf(s) \cup new)
      /\ Cardinality(BlocksOf(s) \cup new) = Cardinality(BlocksOf(s)) + k
  <2>1. Cardinality({}) = 0 /\ Cardinality(BlocksOf(s)) \in Nat
    BY FS_EmptySet, FS_CardinalityType
  <2> DEFINE A == BlocksOf(s)
  <2>2. IsFiniteSet(A) /\ A \cap new = {} /\ Cardinality(A) \in Nat
    BY <1>4, <2>1
  <2> HIDE DEF A, new
  <2>3. /\ IsFiniteSet(A \cup new)
        /\ Cardinality(A \cup new) = Cardinality(A) + Cardinality(new) - Cardinality(A \cap new)
    BY <1>5, <2>2, FS_Union
  <2>4. Cardinality(A \cap new) = 0
    BY <2>1, <2>2
  <2>5. Cardinality(A \cup new) = Cardinality(A) + k
    BY <1>2, <1>5, <2>2, <2>3, <2>4
  <2> QED BY <2>3, <2>5 DEF A
<1>7. DeviceBlocks(d) \in Nat /\ Cardinality(BlocksOf(s)) \in Nat
  BY DeviceBlocksIs, FS_CardinalityType
<1> QED BY <1>3, <1>6, <1>7 DEF t, k

-----------------------------------------------------------------------------
(* The steps. *)

LEMMA StartIoParsed ==
  ASSUME ConfigTypeOK, ParserInv, NEW dir \in IoElement, NEW card \in Cards, StartIo(dir, card)
  PROVE  ParserInv'
<1> DEFINE s == [dir |-> dir, card |-> card, devices |-> <<>>]
<1>1. doc \in Seq(Section) /\ Nesting /\ DataIsOpen /\ BlocksAreHeld
  BY DEF ParserInv, TreeIsOpen
<1>2. s \in Section /\ s.dir = dir /\ s.card = card /\ s.devices = <<>>
  BY EmptySeq DEF Section
<1>3. /\ open = <<>> /\ open' = Append(open, dir) /\ doc' = Append(doc, s) /\ elements' = elements + 1
      /\ direction' = dir /\ io_card' = card
      /\ UNCHANGED <<mixer, type, device, list_start, list, blocks, lost, status>>
  BY DEF StartIo, Starts, StartsWith, memory
<1> HIDE DEF s
<1>4. /\ Nesting' /\ open' # <<>> /\ open'[1] = dir
      /\ ~InSection /\ ~InDevice /\ ~InPath /\ InSection' /\ ~InDevice' /\ ~InPath'
  BY <1>1, <1>3, IoStarts
<1>5. /\ doc' \in Seq(Section) /\ doc' # <<>> /\ Len(doc') = Len(doc) + 1 /\ LastSection' = s
      /\ TreeGrows /\ \A i \in DOMAIN doc : doc'[i] = doc[i]
      /\ \A d : PlacesIn(doc', d) = PlacesIn(doc, d)
  BY <1>1, <1>2, <1>3, SectionAdded
<1>6. TreeIsOpen' /\ DataIsOpen'
  BY <1>1, <1>2, <1>3, <1>4, <1>5 DEF TreeIsOpen, DataIsOpen
<1>7. BlocksAreHeld'
  <2>1. lost' <= elements' /\ lost \in Int
    BY <1>1, <1>3 DEF ConfigTypeOK, BlocksAreHeld
  <2>2. DeviceBlocks(device) \in Nat
    BY DeviceBlocksIs DEF ConfigTypeOK
  <2> QED BY <1>1, <1>3, <2>1, <2>2, BlocksKept DEF ConfigTypeOK
<1>8. ASSUME Conforms'
      PROVE  EndedIsParsed' /\ OpenIsParsed'
  <2>1. EndedIsParsed
    BY <1>5, <1>8, ConformedBefore DEF ParserInv
  <2>2. ASSUME NEW d \in IoElement
        PROVE  DevicesEnded(d)'
    <3>1. DevicesEnded(d)
      BY <2>1 DEF EndedIsParsed
    <3>2. Ended(d)' = Ended(d) /\ Ended(d) = PlacesIn(doc, d)
      <4>1. Ended(d) = PlacesIn(doc, d) /\ Ended(d)' = PlacesIn(doc', d)
        BY <1>4, EndedIs
      <4> QED BY <1>5, <4>1
    <3>3. \A p \in Ended(d) : doc'[p[1]].devices[p[2]] = doc[p[1]].devices[p[2]]
      BY <1>5, <3>2, PlacesAre
    <3> QED BY <1>3, <3>1, <3>2, <3>3, DevicesKept
  <2>3. ASSUME NEW d \in IoElement
        PROVE  CardIs(d, Closed)'
    <3>1. CardIs(d, Closed) /\ Closed = Len(doc) /\ Closed' = Len(doc) /\ Len(doc) \in Nat
          /\ DOMAIN doc = 1..Len(doc)
      BY <1>1, <1>4, <1>5, <2>1, TreeIs DEF EndedIsParsed, Closed
    <3>2. \A i \in 1..Len(doc) : doc'[i].dir = doc[i].dir /\ doc'[i].card = doc[i].card
      BY <1>5, <3>1
    <3> QED BY <1>3, <3>1, <3>2, CardKept DEF CardIs
  <2> QED BY <1>4, <2>2, <2>3 DEF EndedIsParsed, OpenIsParsed
<1> QED BY <1>6, <1>7, <1>8 DEF ParserInv

LEMMA TypeReadIs ==
  ASSUME NEW name
  PROVE  /\ direction # "input" /\ name \in OutNames => TypeRead(name) = <<"out", name>>
         /\ direction = "input" /\ name \in InNames => TypeRead(name) = <<"in", name>>
         /\ ~(direction # "input" /\ name \in OutNames) /\ ~(direction = "input" /\ name \in InNames)
              => TypeRead(name) = type
<1>1. CASE direction # "input" /\ name \in OutNames
  BY <1>1, Zenon DEF TypeRead, Const
<1>2. CASE direction = "input" /\ name \in InNames
  BY <1>2, Zenon DEF TypeRead, Const
<1>3. CASE ~(direction # "input" /\ name \in OutNames) /\ ~(direction = "input" /\ name \in InNames)
  BY <1>3, Zenon DEF TypeRead
<1> QED BY <1>1, <1>2, <1>3

\* The device that a start allocates.
LEMMA DeviceAllocated ==
  ASSUME ConfigTypeOK, NEW name \in TypeName, NEW more \in BOOLEAN, StartDevice(name, more),
         name # Missing /\ type' # NoType
  PROVE  LET d == [type |-> type', enable |-> <<>>, disable |-> <<>>] IN
         /\ device' = d /\ d \in ParsedDevice /\ device' # Null /\ DeviceBlocks(device') = 1
         /\ d.type = type' /\ d.enable = <<>> /\ d.disable = <<>>
         /\ blocks' = IF more THEN blocks + 2 ELSE blocks + 1
         /\ lost' = IF more THEN lost + 1 ELSE lost
<1> DEFINE d == [type |-> type', enable |-> <<>>, disable |-> <<>>]
<1>1. /\ device' = d /\ type' = TypeRead(name)
      /\ blocks' = IF more THEN blocks + 2 ELSE blocks + 1
      /\ lost' = IF more THEN lost + 1 ELSE lost
  BY DEF StartDevice
<1>2. type' \in ({"out"} \X OutNames) \cup ({"in"} \X InNames)
  BY <1>1, TypeReadIs DEF ConfigTypeOK
<1>3. d \in ParsedDevice
  BY <1>2, EmptySeq DEF ParsedDevice
<1>4. d # Null
  BY <1>3, NamesAssumption
<1>5. Len(d.enable) = 0 /\ Len(d.disable) = 0
  OBVIOUS
<1> HIDE DEF d
<1>6. DeviceBlocks(d) = 1
  BY <1>4, <1>5 DEF DeviceBlocks
<1> QED BY <1>1, <1>3, <1>4, <1>6 DEF d

LEMMA StartDeviceParsed ==
  ASSUME ConfigTypeOK, ParserInv, NEW name \in TypeName, NEW more \in BOOLEAN, StartDevice(name, more)
  PROVE  ParserInv'
<1>1. /\ doc \in Seq(Section) /\ Nesting /\ DataIsOpen /\ BlocksAreHeld /\ TreeIsOpen
      /\ open # <<>> => doc # <<>>
  BY DEF ParserInv, TreeIsOpen
<1>2. /\ (open = <<>> \/ InIo) /\ open' = Append(open, "device") /\ doc' = AddDevice(name)
      /\ type' = TypeRead(name) /\ elements' = elements + (IF more THEN 2 ELSE 1)
      /\ UNCHANGED <<mixer, direction, io_card, list_start, list, status>>
  BY DEF StartDevice, StartsWith
<1>3. /\ Nesting' /\ open' # <<>> /\ (open = <<>> <=> ~InSection)
      /\ (InSection' <=> InSection) /\ (InSection => open'[1] = open[1])
      /\ ~InDevice /\ ~InPath /\ InDevice' /\ ~InPath'
  BY <1>1, <1>2, DeviceStarts DEF StartDevice, StartsWith
<1>4. /\ doc' \in Seq(Section) /\ doc' # <<>>
      /\ Len(doc') = (IF open = <<>> THEN Len(doc) + 1 ELSE Len(doc))
      /\ LastSection'.dir = (IF open = <<>> THEN "none" ELSE LastSection.dir)
      /\ LastSection'.card = (IF open = <<>> THEN 0 ELSE LastSection.card)
      /\ LastSection'.devices # <<>> /\ LastDevice' = NewDevice(name)
      /\ TreeGrows
  BY <1>1, <1>2, NamesAssumption, DeviceAdded
<1>5. TreeIsOpen' /\ DataIsOpen'
  BY <1>1, <1>2, <1>3, <1>4 DEF TreeIsOpen, DataIsOpen
<1>6. BlocksAreHeld'
  <2>1. device = Null /\ DeviceBlocks(device) = 0 /\ lost \in Int /\ blocks \in Int /\ lost <= elements
        /\ elements \in Int
    BY <1>1, <1>3 DEF DataIsOpen, DeviceBlocks, ConfigTypeOK, BlocksAreHeld
  <2>2. CASE name # Missing /\ type' # NoType
    <3>1. /\ DeviceBlocks(device') = 1
          /\ blocks' = IF more THEN blocks + 2 ELSE blocks + 1
          /\ lost' = IF more THEN lost + 1 ELSE lost
      BY <2>2, DeviceAllocated
    <3>2. lost' \in Int /\ blocks' = blocks + (lost' - lost) + 1 /\ lost' <= elements'
      BY <1>2, <2>1, <3>1
    <3> QED BY <1>1, <1>2, <2>1, <3>1, <3>2, BlocksKept
  <2>3. CASE ~(name # Missing /\ type' # NoType)
    <3>1. device' = device /\ blocks' = blocks /\ lost' = lost
      BY <2>3 DEF StartDevice, memory
    <3>2. lost' \in Int /\ blocks' = blocks + (lost' - lost) + (0 - 0) /\ lost' <= elements'
      BY <1>2, <2>1, <3>1
    <3> QED BY <1>1, <1>2, <2>1, <3>1, <3>2, BlocksKept
  <2> QED BY <2>2, <2>3
<1>7. ASSUME Conforms'
      PROVE  EndedIsParsed' /\ OpenIsParsed'
  <2>1. EndedIsParsed
    BY <1>4, <1>7, ConformedBefore DEF ParserInv
  <2>2. ASSUME NEW dir \in IoElement
        PROVE  DevicesEnded(dir)'
    <3>1. DevicesEnded(dir)
      BY <2>1 DEF EndedIsParsed
    <3>2. /\ PlacesIn(doc', dir) \ {Place'} = PlacesIn(doc, dir)
          /\ \A p \in PlacesIn(doc, dir) : doc'[p[1]].devices[p[2]] = doc[p[1]].devices[p[2]]
      BY <1>1, <1>2, NamesAssumption, NewIsOpen
    <3>3. Ended(dir) = PlacesIn(doc, dir) /\ Ended(dir)' = PlacesIn(doc', dir) \ {Place'}
      BY <1>3, EndedIs
    <3>4. Ended(dir)' = Ended(dir)
      BY <3>2, <3>3
    <3> QED BY <1>2, <3>1, <3>2, <3>3, <3>4, DevicesKept
  <2>3. ASSUME NEW dir \in IoElement
        PROVE  CardIs(dir, Closed)'
    <3>1. CardIs(dir, Closed) /\ Len(doc) \in Nat /\ DOMAIN doc = 1..Len(doc)
      BY <1>1, <2>1, TreeIs DEF EndedIsParsed
    <3>2. \A i \in 1..Len(doc) : doc'[i].dir = doc[i].dir /\ doc'[i].card = doc[i].card
      BY <1>4, <3>1 DEF TreeGrows
    <3>3. CASE open = <<>>
      <4>1. Closed = Len(doc) /\ Closed' = Len(doc) + 1
        BY <1>3, <1>4, <3>3 DEF Closed
      <4>2. doc'[Len(doc) + 1].dir # dir
        BY <1>4, <3>3 DEF LastSection, Last, IoElement
      <4> QED BY <1>2, <3>1, <3>2, <4>1, <4>2, CardKept DEF CardIs
    <3>4. CASE open # <<>>
      <4>1. Closed = Len(doc) - 1 /\ Closed' = Closed /\ Closed \in Nat
        <5>1. Len(doc) # 0
          BY <1>1, <3>4, EmptySeq
        <5> QED BY <1>3, <1>4, <3>1, <3>4, <5>1 DEF Closed
      <4>2. \A i \in 1..Closed : doc'[i].dir = doc[i].dir /\ doc'[i].card = doc[i].card
        BY <3>1, <3>2, <4>1
      <4> QED BY <1>2, <3>1, <4>1, <4>2, CardSame
    <3> QED BY <3>3, <3>4
  <2>4. OpenIsParsed'
    <3>1. name \in NamesOf(LastSection'.dir)
      <4>1. Len(doc') \in DOMAIN doc' /\ LastSection' = doc'[Len(doc')] /\ LastSection' \in Section
        BY <1>4, LastIs DEF LastSection
      <4>2. LastSection'.devices \in Seq(DeviceNode)
        BY <4>1 DEF Section
      <4>3. Len(LastSection'.devices) \in DOMAIN LastSection'.devices
            /\ LastDevice' = LastSection'.devices[Len(LastSection'.devices)]
        BY <1>4, <4>2, LastIs DEF LastDevice
      <4>4. LastDevice'.name = name
        BY <1>4 DEF NewDevice
      <4> QED BY <1>7, <4>1, <4>3, <4>4 DEF Conforms
    <3>2. direction = "input" <=> LastSection'.dir = "input"
      BY <1>1, <1>3, <1>4 DEF DataIsOpen, TreeIsOpen
    <3>3. type' = Const(SideOf(LastSection'.dir), name) /\ name # Missing /\ type' # NoType
      <4>1. CASE direction = "input"
        <5>1. name \in InNames /\ type' = <<"in", name>>
          BY <1>2, <3>1, <3>2, <4>1, TypeReadIs DEF NamesOf
        <5> QED BY <3>2, <4>1, <5>1, NamesAssumption DEF Const, SideOf, NoType
      <4>2. CASE direction # "input"
        <5>1. name \in OutNames /\ type' = <<"out", name>>
          BY <1>2, <3>1, <3>2, <4>2, TypeReadIs DEF NamesOf
        <5> QED BY <3>2, <4>2, <5>1, NamesAssumption DEF Const, SideOf, NoType
      <4> QED BY <4>1, <4>2
    <3>4. device' # Null /\ device'.type = type' /\ device'.enable = <<>> /\ device'.disable = <<>>
      BY <3>3, DeviceAllocated
    <3>5. ASSUME NEW which, NEW s, s = <<>>
          PROVE  CtrlPlaces(LastDevice', which) = {} /\ ListIs(s, LastDevice', which)
      <4>1. CtrlPlaces(LastDevice', which) = {}
        BY <1>4 DEF NewDevice, CtrlPlaces
      <4>2. Cardinality(CtrlPlaces(LastDevice', which)) = 0
        BY <4>1, FS_EmptySet
      <4> QED BY <3>5, <4>1, <4>2 DEF ListIs
    <3>6. LastDevice'.name = name
      BY <1>4 DEF NewDevice
    <3>7. DeviceIs(device', LastSection'.dir, LastDevice')
      BY <3>3, <3>4, <3>5, <3>6 DEF DeviceIs
    <3>8. \A which \in List : IsFiniteSet(CtrlPlaces(LastDevice', which))
      BY <3>5, FS_EmptySet
    <3> QED BY <1>3, <3>7, <3>8 DEF OpenIsParsed
  <2> QED BY <2>2, <2>3, <2>4 DEF EndedIsParsed
<1> QED BY <1>5, <1>6, <1>7 DEF ParserInv

\* A device that is changed in its place leaves those that have ended alone.
LEMMA LastChangeKeeps ==
  ASSUME doc \in Seq(Section), doc # <<>>, LastSection.devices # <<>>, NEW d \in DeviceNode,
         doc' = WithLast(doc, [LastSection EXCEPT !.devices = WithLast(@, d)]),
         InDevice, InDevice', InSection' <=> InSection, mixer' = mixer, EndedIsParsed
  PROVE  EndedIsParsed'
<1>1. /\ doc' \in Seq(Section) /\ Len(doc') = Len(doc) /\ DOMAIN doc' = DOMAIN doc /\ Place' = Place
      /\ \A i \in DOMAIN doc :
           /\ doc'[i].dir = doc[i].dir /\ doc'[i].card = doc[i].card
           /\ DOMAIN doc'[i].devices = DOMAIN doc[i].devices
           /\ \A j \in DOMAIN doc[i].devices :
                <<i, j>> # Place => doc'[i].devices[j] = doc[i].devices[j]
  BY LastDeviceChanged
<1>2. ASSUME NEW dir \in IoElement
      PROVE  DevicesEnded(dir)'
  <2>1. PlacesIn(doc', dir) = PlacesIn(doc, dir)
    BY <1>1, PlacesKept
  <2>2. Ended(dir) = PlacesIn(doc, dir) \ {Place} /\ Ended(dir)' = PlacesIn(doc', dir) \ {Place'}
    BY EndedIs
  <2>3. Ended(dir)' = Ended(dir)
    BY <1>1, <2>1, <2>2
  <2>4. ASSUME NEW p \in Ended(dir)
        PROVE  doc'[p[1]].devices[p[2]] = doc[p[1]].devices[p[2]]
    <3>1. p = <<p[1], p[2]>> /\ p # Place /\ p[1] \in DOMAIN doc /\ p[2] \in DOMAIN doc[p[1]].devices
      BY <2>2, PlacesAre
    <3> QED BY <1>1, <3>1
  <2>5. DevicesEnded(dir)
    BY DEF EndedIsParsed
  <2> QED BY <2>3, <2>4, <2>5, DevicesKept
<1>3. ASSUME NEW dir \in IoElement
      PROVE  CardIs(dir, Closed)'
  <2>1. Len(doc) \in Nat \ {0} /\ DOMAIN doc = 1..Len(doc)
    BY LastIs
  <2>2. Closed \in Nat /\ Closed' = Closed /\ \A i \in 1..Closed : i \in DOMAIN doc
    BY <1>1, <2>1 DEF Closed
  <2>3. \A i \in 1..Closed : doc'[i].dir = doc[i].dir /\ doc'[i].card = doc[i].card
    BY <1>1, <2>2
  <2>4. CardIs(dir, Closed)
    BY DEF EndedIsParsed
  <2> HIDE DEF Closed
  <2>5. mixer'[dir].card = mixer[dir].card
    OBVIOUS
  <2> QED BY <2>2, <2>3, <2>4, <2>5, CardSame
<1> QED BY <1>2, <1>3 DEF EndedIsParsed

LEMMA NoCtrls ==
  ASSUME NEW s \in Seq(Ctrls), NEW d, NEW which, ListIs(s, d, which), CtrlPlaces(d, which) = {}
  PROVE  s = <<>>
<1>1. Len(s) = 0
  BY FS_EmptySet DEF ListIs
<1> QED BY <1>1, EmptySeq

LEMMA StartPathParsed ==
  ASSUME ConfigTypeOK, ParserInv, NEW name \in List \cup {Unknown}, StartPath(name)
  PROVE  ParserInv'
<1> DEFINE p == [name |-> name, ctrls |-> <<>>]
           d == [LastDevice EXCEPT !.paths = Append(@, p)]
<1>1. doc \in Seq(Section) /\ Nesting /\ DataIsOpen /\ BlocksAreHeld /\ TreeIsOpen
  BY DEF ParserInv, TreeIsOpen
<1>2. /\ In("device") /\ open' = Append(open, "path") /\ doc' = AddPath(name) /\ elements' = elements + 1
      /\ list_start' = IF name \in List THEN name ELSE list_start
      /\ UNCHANGED <<mixer, direction, io_card, type, device, list, blocks, lost, status>>
  BY DEF StartPath, Starts, StartsWith, memory
<1>3. /\ Nesting' /\ open # <<>> /\ open' # <<>>
      /\ (InSection' <=> InSection) /\ (InSection => open'[1] = open[1])
      /\ InDevice /\ ~InPath /\ InDevice' /\ InPath'
  BY <1>1, <1>2, PathStarts
<1>4. doc # <<>> /\ LastSection.devices # <<>>
  BY <1>1, <1>3 DEF TreeIsOpen
<1>5. /\ p \in PathNode /\ d \in DeviceNode
      /\ doc' = WithLast(doc, [LastSection EXCEPT !.devices = WithLast(@, d)])
      /\ d.name = LastDevice.name /\ d.paths = Append(LastDevice.paths, p)
      /\ PathsGrow(LastDevice, d)
  BY <1>1, <1>2, <1>4, PathAdded
<1>6. p.name = name /\ p.ctrls = <<>>
  OBVIOUS
<1> HIDE DEF p, d
<1>7. /\ doc' \in Seq(Section) /\ doc' # <<>> /\ Len(doc') = Len(doc)
      /\ LastSection'.dir = LastSection.dir /\ LastSection'.card = LastSection.card
      /\ LastSection'.devices # <<>> /\ LastDevice' = d /\ LastDevice \in DeviceNode /\ TreeGrows
  BY <1>1, <1>4, <1>5, LastDeviceChanged
<1>8. /\ LastDevice.paths \in Seq(PathNode) /\ Len(LastDevice.paths) \in Nat
      /\ DOMAIN LastDevice.paths = 1..Len(LastDevice.paths)
      /\ d.paths \in Seq(PathNode) /\ d.paths # <<>> /\ Last(d.paths) = p
      /\ Len(d.paths) = Len(LastDevice.paths) + 1
      /\ d.paths[Len(d.paths)] = p /\ \A k \in DOMAIN LastDevice.paths : d.paths[k] = LastDevice.paths[k]
      /\ DOMAIN d.paths = 1..Len(d.paths)
  <2>1. /\ LastDevice.paths \in Seq(PathNode) /\ Len(LastDevice.paths) \in Nat
        /\ DOMAIN LastDevice.paths = 1..Len(LastDevice.paths)
    BY <1>7, DeviceNodeIs
  <2> QED BY <1>5, <2>1, LastAppended, LenProperties
<1>9. TreeIsOpen' /\ DataIsOpen'
  BY <1>1, <1>2, <1>3, <1>7, <1>8 DEF TreeIsOpen, DataIsOpen
<1>10. BlocksAreHeld'
  <2>1. lost' <= elements' /\ lost \in Int /\ blocks \in Int
    BY <1>1, <1>2 DEF ConfigTypeOK, BlocksAreHeld
  <2>2. DeviceBlocks(device) \in Nat
    BY DeviceBlocksIs DEF ConfigTypeOK
  <2> QED BY <1>1, <1>2, <2>1, <2>2, BlocksKept
<1>11. ASSUME Conforms'
       PROVE  EndedIsParsed' /\ OpenIsParsed'
  <2>1. EndedIsParsed /\ OpenIsParsed
    BY <1>7, <1>11, ConformedBefore DEF ParserInv
  <2>2. EndedIsParsed'
    BY <1>1, <1>2, <1>3, <1>4, <1>5, <2>1, LastChangeKeeps
  <2>3. /\ DeviceIs(device, LastSection.dir, LastDevice)
        /\ \A which \in List : IsFiniteSet(CtrlPlaces(LastDevice, which))
    BY <1>3, <2>1 DEF OpenIsParsed
  <2>4. \A which \in List : SameCtrls(LastDevice, d, which)
    BY <1>5, <1>6, <1>7, PathHasNone
  <2>5. /\ DeviceIs(device', LastSection'.dir, LastDevice')
        /\ \A which \in List : IsFiniteSet(CtrlPlaces(LastDevice', which))
    <3>1. \A which \in List : IsFiniteSet(CtrlPlaces(d, which))
      BY <2>3, <2>4 DEF SameCtrls
    <3>2. ListIs(device.enable, d, "enable") /\ ListIs(device.disable, d, "disable")
      BY <2>3, <2>4, ListKept DEF DeviceIs, List
    <3> QED BY <1>2, <1>5, <1>7, <2>3, <3>1, <3>2 DEF DeviceIs
  <2>6. ASSUME name \in List
        PROVE  device[name] = <<>>
    <3>1. CtrlPlaces(LastDevice, name) = {}
      <4>1. ASSUME NEW k \in DOMAIN LastDevice.paths
            PROVE  LastDevice.paths[k].name # name
        <5>1. /\ k \in DOMAIN d.paths /\ Len(d.paths) \in DOMAIN d.paths /\ k # Len(d.paths)
              /\ d.paths[k].name = LastDevice.paths[k].name /\ d.paths[Len(d.paths)].name = name
          BY <1>6, <1>8
        <5>2. \A k1, l1 \in DOMAIN d.paths :
                k1 # l1 => d.paths[k1].name # d.paths[l1].name \/ d.paths[k1].name \notin List
          <6>1. Len(doc') \in DOMAIN doc' /\ LastSection' = doc'[Len(doc')] /\ LastSection' \in Section
            BY <1>7, LastIs DEF LastSection
          <6>2. LastSection'.devices \in Seq(DeviceNode)
            BY <6>1 DEF Section
          <6>3. Len(LastSection'.devices) \in DOMAIN LastSection'.devices
                /\ LastDevice' = LastSection'.devices[Len(LastSection'.devices)]
            BY <1>7, <6>2, LastIs DEF LastDevice
          <6> QED BY <1>7, <1>11, <6>1, <6>3 DEF Conforms
        <5> QED BY <2>6, <5>1, <5>2
      <4> QED BY <4>1 DEF CtrlPlaces
    <3>2. device \in ParsedDevice
      BY <2>3 DEF DeviceIs, ConfigTypeOK
    <3>3. CASE name = "enable"
      <4>1. device.enable \in Seq(Ctrls) /\ ListIs(device.enable, LastDevice, "enable")
        BY <2>3, <3>2 DEF DeviceIs, ParsedDevice
      <4> QED BY <3>1, <3>3, <4>1, NoCtrls
    <3>4. CASE name = "disable"
      <4>1. device.disable \in Seq(Ctrls) /\ ListIs(device.disable, LastDevice, "disable")
        BY <2>3, <3>2 DEF DeviceIs, ParsedDevice
      <4> QED BY <3>1, <3>4, <4>1, NoCtrls
    <3> QED BY <2>6, <3>3, <3>4 DEF List
  <2>7. Last(LastDevice'.paths).name = name
    BY <1>6, <1>7, <1>8
  <2>8. ~list /\ list_start = Null
    BY <1>1, <1>3 DEF DataIsOpen
  <2>9. OpenIsParsed'
    BY <1>2, <1>3, <2>5, <2>6, <2>7, <2>8 DEF OpenIsParsed
  <2> QED BY <2>2, <2>9
<1> QED BY <1>9, <1>10, <1>11 DEF ParserInv

LEMMA ListNext ==
  ASSUME NEW s \in Seq(Ctrls), NEW c \in Ctrls, NEW d, NEW e, NEW which, ListIs(s, d, which),
         IsFiniteSet(CtrlPlaces(d, which)), Pairs(CtrlPlaces(d, which)), NEW new, Pairs({new}),
         CtrlPlaces(e, which) = CtrlPlaces(d, which) \cup {new},
         \A x \in CtrlPlaces(d, which) : e.paths[x[1]].ctrls[x[2]] = d.paths[x[1]].ctrls[x[2]],
         e.paths[new[1]].ctrls[new[2]] = c, \A x \in CtrlPlaces(d, which) : Before(x, new)
  PROVE  ListIs(Append(s, c), e, which) /\ IsFiniteSet(CtrlPlaces(e, which))
<1> DEFINE P == CtrlPlaces(d, which)
<1>1. Len(s) = Cardinality(P) /\ \A x \in P : s[Number(P, x)] = d.paths[x[1]].ctrls[x[2]]
  BY DEF ListIs
<1>4. /\ IsFiniteSet(P) /\ Pairs(P) /\ (\A x \in P : Before(x, new)) /\ Len(s) = Cardinality(P)
      /\ CtrlPlaces(e, which) = P \cup {new}
      /\ \A x \in P : e.paths[x[1]].ctrls[x[2]] = d.paths[x[1]].ctrls[x[2]]
  BY <1>1
<1> HIDE DEF P
<1>2. /\ IsFiniteSet(P \cup {new}) /\ Len(Append(s, c)) = Cardinality(P \cup {new})
      /\ \A x \in P : Append(s, c)[Number(P \cup {new}, x)] = s[Number(P, x)]
      /\ Append(s, c)[Number(P \cup {new}, new)] = c
  <2>1. /\ IsFiniteSet(P \cup {new}) /\ Cardinality(P \cup {new}) = Cardinality(P) + 1
        /\ Number(P \cup {new}, new) = Cardinality(P) + 1
        /\ \A x \in P : Number(P \cup {new}, x) = Number(P, x)
    BY <1>4, NumberOfNext
  <2>2. /\ Len(Append(s, c)) = Len(s) + 1 /\ Append(s, c)[Len(s) + 1] = c
        /\ \A i \in 1..Len(s) : Append(s, c)[i] = s[i]
    BY LastAppended
  <2>3. \A x \in P : Number(P, x) \in 1..Len(s)
    BY <1>4, NumberIsOne
  <2> QED BY <1>4, <2>1, <2>2, <2>3
<1>3. \A x \in P \cup {new} : Append(s, c)[Number(P \cup {new}, x)] = e.paths[x[1]].ctrls[x[2]]
  BY <1>1, <1>2, <1>4
<1> QED BY <1>2, <1>3, <1>4 DEF ListIs

\* What a control does to the lists of the device it is linked into.
Linked(x, which, c) == [x EXCEPT ![which] = Append(@, c)]

LEMMA CtrlLinked ==
  ASSUME NEW x \in ParsedDevice, NEW which \in List, NEW c \in Ctrls
  PROVE  LET y == Linked(x, which, c) IN
         /\ y \in ParsedDevice /\ y # Null /\ y.type = x.type
         /\ y[which] = Append(x[which], c) /\ y[which] # <<>>
         /\ \A other \in List : x[other] \in Seq(Ctrls) /\ (other # which => y[other] = x[other])
         /\ DeviceBlocks(y) = DeviceBlocks(x) + 2 /\ DeviceBlocks(x) \in Nat
<1> DEFINE y == Linked(x, which, c)
<1>1. x.enable \in Seq(Ctrls) /\ x.disable \in Seq(Ctrls) /\ DOMAIN x = {"type", "enable", "disable"}
  BY DEF ParsedDevice
<1>2. x[which] \in Seq(Ctrls)
  BY <1>1 DEF List
<1>3. /\ Append(x[which], c) \in Seq(Ctrls) /\ Append(x[which], c) # <<>>
      /\ Len(Append(x[which], c)) = Len(x[which]) + 1
  BY <1>2, LastAppended
<1>4. /\ y[which] = Append(x[which], c) /\ y.type = x.type
      /\ \A other \in List : other # which => y[other] = x[other]
  BY <1>1 DEF List, Linked
<1>5. y \in ParsedDevice
  <2>1. CASE which = "enable"
    BY <1>3, <2>1 DEF ParsedDevice, Linked
  <2>2. CASE which = "disable"
    BY <1>3, <2>2 DEF ParsedDevice, Linked
  <2> QED BY <2>1, <2>2 DEF List
<1> HIDE DEF y
<1>6. x # Null /\ y # Null
  BY <1>5, NamesAssumption
<1>7. DeviceBlocks(y) = DeviceBlocks(x) + 2
  <2> DEFINE m == Len(x.enable)
             n == Len(x.disable)
  <2>1. m \in Nat /\ n \in Nat
    BY <1>1, LenProperties
  <2>2. DeviceBlocks(x) = 1 + 2 * m + 2 * n
    BY <1>6 DEF DeviceBlocks
  <2>3. DeviceBlocks(y) = 1 + 2 * Len(y.enable) + 2 * Len(y.disable)
    BY <1>6 DEF DeviceBlocks
  <2>4. \/ Len(y.enable) = m + 1 /\ Len(y.disable) = n
        \/ Len(y.enable) = m /\ Len(y.disable) = n + 1
    <3>1. CASE which = "enable"
      BY <1>3, <1>4, <3>1 DEF List
    <3>2. CASE which = "disable"
      BY <1>3, <1>4, <3>2 DEF List
    <3> QED BY <3>1, <3>2 DEF List
  <2> DEFINE j == Len(y.enable)
             k == Len(y.disable)
  <2>5. (j = m + 1 /\ k = n) \/ (j = m /\ k = n + 1)
    BY <2>4
  <2>6. DeviceBlocks(y) = 1 + 2 * j + 2 * k
    BY <2>3
  <2> HIDE DEF m, n, j, k
  <2> QED BY <2>1, <2>2, <2>5, <2>6
<1>8. \A other \in List : x[other] \in Seq(Ctrls)
  BY <1>1 DEF List
<1> QED BY <1>3, <1>4, <1>5, <1>6, <1>7, <1>8, DeviceBlocksIs DEF y

LEMMA StartCtrlIs ==
  ASSUME NEW c, StartCtrl(c)
  PROVE  \/ /\ device # Null /\ list_start # Null /\ c # Incomplete
            /\ device' = Linked(device, list_start, c) /\ list' = TRUE
            /\ status' = status /\ blocks' = blocks + 2
         \/ /\ device # Null /\ list_start # Null /\ c # Incomplete
            /\ device[list_start] # <<>> /\ ~list /\ status' # status
         \/ /\ device = Null \/ list_start = Null \/ c = Incomplete
            /\ device' = device /\ list' = list /\ status' = status /\ blocks' = blocks
<1>1. CASE device # Null /\ list_start # Null /\ c # Incomplete
  <2>1. Link(c) /\ blocks' = blocks + 2 /\ status = "parsing"
    BY <1>1 DEF StartCtrl
  <2>2. CASE device[list_start] = <<>> \/ list
    <3>1. device' = [device EXCEPT ![list_start] = Append(@, c)] /\ list' = TRUE /\ status' = status
      BY <2>1, <2>2 DEF Link
    <3>2. device' = Linked(device, list_start, c)
      BY <3>1, Zenon DEF Linked
    <3> QED BY <1>1, <2>1, <3>1, <3>2
  <2>3. CASE ~(device[list_start] = <<>> \/ list)
    BY <1>1, <2>1, <2>3 DEF Link
  <2> QED BY <2>2, <2>3
<1>2. CASE ~(device # Null /\ list_start # Null /\ c # Incomplete)
  BY <1>2 DEF StartCtrl, memory
<1> QED BY <1>1, <1>2

LEMMA StartCtrlParsed ==
  ASSUME ConfigTypeOK, ParserInv, NEW c \in Ctrls \cup {Incomplete}, StartCtrl(c)
  PROVE  /\ status' = status => ParserInv'
         /\ status' # status => ~Conforms'
<1> DEFINE p == Last(LastDevice.paths)
           q == [p EXCEPT !.ctrls = Append(@, c)]
           d == [LastDevice EXCEPT !.paths = WithLast(@, q)]
<1>1. doc \in Seq(Section) /\ Nesting /\ DataIsOpen /\ BlocksAreHeld /\ TreeIsOpen
  BY DEF ParserInv, TreeIsOpen
<1>2. /\ In("path") /\ open' = open /\ doc' = AddCtrl(c) /\ elements' = elements + 1
      /\ UNCHANGED <<mixer, direction, io_card, type, list_start, lost>>
  BY DEF StartCtrl, memory
<1>3. /\ open # <<>> /\ InDevice /\ InPath /\ (InSection' <=> InSection) /\ InDevice' /\ InPath'
      /\ Nesting'
  BY <1>1, <1>2 DEF In, InDevice, InPath, InSection, Nesting
<1>4. doc # <<>> /\ LastSection.devices # <<>> /\ LastDevice.paths # <<>>
  BY <1>1, <1>3 DEF TreeIsOpen
<1>5. /\ p \in PathNode /\ q \in PathNode /\ d \in DeviceNode
      /\ doc' = WithLast(doc, [LastSection EXCEPT !.devices = WithLast(@, d)])
      /\ q.name = p.name /\ q.ctrls = Append(p.ctrls, c)
      /\ d.name = LastDevice.name /\ d.paths = WithLast(LastDevice.paths, q)
      /\ PathsGrow(LastDevice, d) /\ p = Last(LastDevice.paths)
  BY <1>1, <1>2, <1>4, CtrlAdded
<1> HIDE DEF p, q, d
<1>6. /\ doc' \in Seq(Section) /\ doc' # <<>> /\ Len(doc') = Len(doc)
      /\ LastSection'.dir = LastSection.dir /\ LastSection'.card = LastSection.card
      /\ LastSection'.devices # <<>> /\ LastDevice' = d /\ LastDevice \in DeviceNode /\ TreeGrows
  BY <1>1, <1>4, <1>5, LastDeviceChanged
<1>7. d.paths # <<>> /\ Last(d.paths) = q /\ p.name \in List \cup {Unknown}
  <2>1. LastDevice.paths \in Seq(PathNode) /\ p.name \in List \cup {Unknown}
    BY <1>5, <1>6, DeviceNodeIs DEF PathNode
  <2> DEFINE ps == LastDevice.paths
  <2>2. ps \in Seq(PathNode) /\ ps # <<>> /\ d.paths = WithLast(ps, q)
    BY <1>4, <1>5, <2>1
  <2> HIDE DEF ps
  <2>3. WithLast(ps, q) # <<>> /\ Last(WithLast(ps, q)) = q
    BY <1>5, <2>2, LastChanged
  <2> QED BY <2>1, <2>2, <2>3
\* The lists of the device before and after.
<1>8. \/ /\ device # Null /\ list_start # Null /\ c # Incomplete
         /\ device' = Linked(device, list_start, c) /\ list' = TRUE
         /\ status' = status /\ blocks' = blocks + 2
      \/ /\ device # Null /\ list_start # Null /\ c # Incomplete
         /\ device[list_start] # <<>> /\ ~list /\ status' # status
      \/ /\ device = Null \/ list_start = Null \/ c = Incomplete
         /\ device' = device /\ list' = list /\ status' = status /\ blocks' = blocks
  BY StartCtrlIs
<1>9. ASSUME status' = status
      PROVE  TreeIsOpen' /\ DataIsOpen' /\ BlocksAreHeld'
  <2>1. TreeIsOpen'
    BY <1>1, <1>2, <1>3, <1>6, <1>7 DEF TreeIsOpen
  <2>2. DataIsOpen'
    BY <1>1, <1>2, <1>3, <1>6 DEF DataIsOpen
  <2>3. lost' <= elements' /\ lost' = lost /\ lost \in Int /\ blocks \in Int /\ DeviceBlocks(device) \in Nat
    BY <1>1, <1>2, DeviceBlocksIs DEF ConfigTypeOK, BlocksAreHeld
  <2>4. CASE device' = device /\ blocks' = blocks
    <3>1. blocks' = blocks + (lost' - lost) + (DeviceBlocks(device') - DeviceBlocks(device))
      BY <2>3, <2>4
    <3> QED BY <1>1, <1>2, <2>1, <2>2, <2>3, <2>4, <3>1, BlocksKept
  <2>5. CASE ~(device' = device /\ blocks' = blocks)
    <3>1. /\ device \in ParsedDevice /\ list_start \in List /\ c \in Ctrls /\ blocks' = blocks + 2
          /\ device' = Linked(device, list_start, c)
      BY <1>8, <1>9, <2>5 DEF ConfigTypeOK
    <3>2. DeviceBlocks(device') = DeviceBlocks(device) + 2
      BY <3>1, CtrlLinked
    <3>3. /\ blocks' = blocks + (lost' - lost) + (DeviceBlocks(device') - DeviceBlocks(device))
          /\ DeviceBlocks(device') \in Nat
      BY <2>3, <3>1, <3>2
    <3> QED BY <1>1, <1>2, <2>1, <2>2, <2>3, <3>3, BlocksKept
  <2> QED BY <2>1, <2>2, <2>4, <2>5
<1>10. ASSUME Conforms'
       PROVE  status' = status /\ EndedIsParsed' /\ OpenIsParsed'
  <2>1. EndedIsParsed /\ OpenIsParsed
    BY <1>6, <1>10, ConformedBefore DEF ParserInv
  <2>2. EndedIsParsed'
    BY <1>1, <1>2, <1>3, <1>4, <1>5, <2>1, LastChangeKeeps
  <2>3. /\ DeviceIs(device, LastSection.dir, LastDevice) /\ device # Null
        /\ \A which \in List : IsFiniteSet(CtrlPlaces(LastDevice, which))
        /\ IF p.name \in List THEN list_start = p.name /\ (list <=> device[p.name] # <<>>)
           ELSE list_start = Null
    BY <1>3, <1>5, <2>1 DEF OpenIsParsed, DeviceIs
  <2>4. status' = status
    BY <1>8, <2>3
  <2>5. device \in ParsedDevice
    BY <2>3 DEF ConfigTypeOK
  <2>6. \A which \in List : ListIs(device[which], LastDevice, which) /\ device[which] \in Seq(Ctrls)
    BY <2>3, <2>5 DEF DeviceIs, List, ParsedDevice
  <2> DEFINE new == <<Len(LastDevice.paths), Len(p.ctrls) + 1>>
  <2>14. new = <<Len(LastDevice.paths), Len(p.ctrls) + 1>>
    OBVIOUS
  <2> HIDE DEF new
  <2>7. ASSUME NEW which \in List
        PROVE  /\ CtrlPlaces(d, which) = CtrlPlaces(LastDevice, which)
                    \cup (IF which = p.name /\ c # Incomplete THEN {new} ELSE {})
               /\ \A x \in CtrlPlaces(LastDevice, which) :
                    d.paths[x[1]].ctrls[x[2]] = LastDevice.paths[x[1]].ctrls[x[2]]
               /\ d.paths[new[1]].ctrls[new[2]] = c
               /\ Pairs(CtrlPlaces(LastDevice, which)) /\ Pairs({new})
               /\ \A x \in CtrlPlaces(LastDevice, which) : Before(x, new)
    <3>1. /\ LastDevice \in DeviceNode /\ LastDevice.paths # <<>>
          /\ p \in PathNode /\ p = Last(LastDevice.paths) /\ q \in PathNode /\ q.name = p.name
          /\ q.ctrls = Append(p.ctrls, c) /\ d.paths = WithLast(LastDevice.paths, q)
      BY <1>4, <1>5, <1>6
    <3>2. CtrlNext(LastDevice, d, p.name, c, new, which)
      BY <2>14, <3>1, CtrlIsNext
    <3> QED BY <3>2 DEF CtrlNext
  <2>8. p.name \in List /\ c # Incomplete =>
          /\ list_start = p.name /\ device' = Linked(device, p.name, c) /\ list' = TRUE
    BY <1>8, <2>3, NamesAssumption
  <2>9. ~(p.name \in List /\ c # Incomplete) => device' = device /\ list' = list
    BY <1>8, <2>3
  <2>10. /\ device' # Null /\ device'.type = device.type
         /\ p.name \in List /\ c # Incomplete => device'[p.name] = Append(device[p.name], c)
                                                 /\ device'[p.name] # <<>>
         /\ \A which \in List : ~(which = p.name /\ c # Incomplete) => device'[which] = device[which]
    <3>1. CASE p.name \in List /\ c # Incomplete
      <4>1. c \in Ctrls
        BY <3>1
      <4> QED BY <2>5, <2>8, <3>1, <4>1, CtrlLinked
    <3>2. CASE ~(p.name \in List /\ c # Incomplete)
      BY <2>3, <2>9, <3>2
    <3> QED BY <3>1, <3>2
  <2>11. ASSUME NEW which \in List
         PROVE  ListIs(device'[which], d, which) /\ IsFiniteSet(CtrlPlaces(d, which))
    <3>1. CASE which = p.name /\ c # Incomplete
      <4>1. c \in Ctrls /\ device'[which] = Append(device[which], c)
            /\ CtrlPlaces(d, which) = CtrlPlaces(LastDevice, which) \cup {new}
        BY <2>7, <2>10, <3>1
      <4>2. /\ \A x \in CtrlPlaces(LastDevice, which) :
                 d.paths[x[1]].ctrls[x[2]] = LastDevice.paths[x[1]].ctrls[x[2]]
            /\ d.paths[new[1]].ctrls[new[2]] = c
            /\ Pairs(CtrlPlaces(LastDevice, which)) /\ Pairs({new})
            /\ \A x \in CtrlPlaces(LastDevice, which) : Before(x, new)
            /\ ListIs(device[which], LastDevice, which) /\ device[which] \in Seq(Ctrls)
            /\ IsFiniteSet(CtrlPlaces(LastDevice, which))
        BY <2>3, <2>6, <2>7
      <4>3. ListIs(Append(device[which], c), d, which) /\ IsFiniteSet(CtrlPlaces(d, which))
        BY <4>1, <4>2, ListNext
      <4> QED BY <4>1, <4>3
    <3>2. CASE ~(which = p.name /\ c # Incomplete)
      <4>1. SameCtrls(LastDevice, d, which) /\ device'[which] = device[which]
            /\ CtrlPlaces(d, which) = CtrlPlaces(LastDevice, which)
        BY <2>7, <2>10, <3>2 DEF SameCtrls
      <4> QED BY <2>3, <2>6, <4>1, ListKept
    <3> QED BY <3>1, <3>2
  <2>12. DeviceIs(device', LastSection'.dir, LastDevice')
    BY <1>5, <1>6, <2>3, <2>10, <2>11 DEF DeviceIs, List
  <2>13. OpenIsParsed'
    <3>1. Last(LastDevice'.paths).name = p.name
      BY <1>5, <1>6, <1>7
    <3>2. IF p.name \in List THEN list_start' = p.name /\ (list' <=> device'[p.name] # <<>>)
          ELSE list_start' = Null
      BY <1>2, <2>3, <2>8, <2>9, <2>10
    <3> QED BY <1>3, <1>6, <2>11, <2>12, <3>1, <3>2 DEF OpenIsParsed
  <2> QED BY <2>2, <2>4, <2>13
<1> QED BY <1>9, <1>10 DEF ParserInv

Io == [devices : Seq(ParsedDevice \cup {Null}), card : Cards]

LEMMA CardStored ==
  ASSUME mixer \in [IoElement -> Io], NEW dir \in IoElement, NEW n \in Cards,
         mixer' = [mixer EXCEPT ![dir].card = n]
  PROVE  /\ mixer' \in [IoElement -> Io]
         /\ \A x \in IoElement : mixer'[x].devices = mixer[x].devices
                                 /\ mixer'[x].card = IF x = dir THEN n ELSE mixer[x].card
  BY DEF Io

LEMMA DeviceStored ==
  ASSUME mixer \in [IoElement -> Io], NEW dir \in IoElement, NEW d \in ParsedDevice \cup {Null},
         mixer' = [mixer EXCEPT ![dir].devices = Append(@, d)]
  PROVE  /\ mixer' \in [IoElement -> Io]
         /\ \A x \in IoElement :
              /\ mixer'[x].card = mixer[x].card /\ mixer[x].devices \in Seq(ParsedDevice \cup {Null})
              /\ mixer'[x].devices = IF x = dir THEN Append(mixer[x].devices, d) ELSE mixer[x].devices
<1> DEFINE s == Append(mixer[dir].devices, d)
<1>1. \A x \in IoElement : mixer[x] \in Io /\ mixer[x].devices \in Seq(ParsedDevice \cup {Null})
  BY DEF Io
<1>2. s \in Seq(ParsedDevice \cup {Null})
  BY <1>1, AppendProperties
<1>3. mixer' = [mixer EXCEPT ![dir].devices = s]
  BY Zenon
<1> HIDE DEF s
<1>4. /\ mixer' \in [IoElement -> Io]
      /\ \A x \in IoElement :
           /\ mixer'[x].card = mixer[x].card
           /\ mixer'[x].devices = IF x = dir THEN s ELSE mixer[x].devices
  <2>1. [mixer[dir] EXCEPT !.devices = s] \in Io
    BY <1>1, <1>2 DEF Io
  <2>2. mixer' = [mixer EXCEPT ![dir] = [mixer[dir] EXCEPT !.devices = s]]
    BY <1>3, Zenon
  <2>3. \A x \in IoElement : mixer'[x] = IF x = dir THEN [mixer[dir] EXCEPT !.devices = s] ELSE mixer[x]
    BY <2>2
  <2>4. mixer' \in [IoElement -> Io]
    BY <2>1, <2>2
  <2> QED BY <1>1, <2>3, <2>4 DEF Io
<1> QED BY <1>1, <1>4 DEF s

LEMMA EndIoParsed ==
  ASSUME ConfigTypeOK, ParserInv, NEW dir \in IoElement, EndIo(dir)
  PROVE  ParserInv'
<1>1. doc \in Seq(Section) /\ Nesting /\ DataIsOpen /\ BlocksAreHeld /\ TreeIsOpen
  BY DEF ParserInv, TreeIsOpen
<1>2. /\ In(dir) /\ open' = Front(open) /\ doc' = doc /\ elements' = elements
      /\ io_card' = 0 /\ direction' = "output"
      /\ UNCHANGED <<type, device, list_start, list, blocks, lost, status>>
  BY DEF EndIo, Ends, memory
<1>3. /\ \A x \in IoElement : mixer'[x].devices = mixer[x].devices
                              /\ mixer'[x].card = IF x = dir THEN io_card ELSE mixer[x].card
  BY CardStored DEF EndIo, ConfigTypeOK, Io
<1>4. /\ Nesting' /\ open' = <<>> /\ open # <<>> /\ open[1] = dir
      /\ InSection /\ ~InDevice /\ ~InPath /\ ~InSection' /\ ~InDevice' /\ ~InPath'
  BY <1>1, <1>2, IoEnds
<1>5. /\ doc # <<>> /\ Len(doc) \in Nat \ {0} /\ DOMAIN doc = 1..Len(doc) /\ LastSection = doc[Len(doc)]
      /\ doc[Len(doc)].dir = dir /\ io_card = doc[Len(doc)].card
  <2>1. doc # <<>> /\ LastSection.dir = dir /\ io_card = LastSection.card
    BY <1>1, <1>4 DEF TreeIsOpen, DataIsOpen
  <2> QED BY <1>1, <2>1, LastIs DEF LastSection
<1>6. TreeIsOpen' /\ DataIsOpen'
  BY <1>1, <1>2, <1>4 DEF TreeIsOpen, DataIsOpen
<1>7. BlocksAreHeld'
  <2>1. lost' <= elements' /\ lost \in Int /\ blocks \in Int /\ DeviceBlocks(device) \in Nat
    BY <1>1, <1>2, DeviceBlocksIs DEF ConfigTypeOK, BlocksAreHeld
  <2> QED BY <1>1, <1>2, <1>3, <2>1, BlocksKept
<1>8. ASSUME Conforms'
      PROVE  EndedIsParsed' /\ OpenIsParsed'
  <2>1. EndedIsParsed
    BY <1>2, <1>8 DEF Conforms, ParserInv
  <2>2. ASSUME NEW x \in IoElement
        PROVE  DevicesEnded(x)'
    <3>1. Ended(x)' = Ended(x)
      <4>1. Ended(x) = PlacesIn(doc, x) /\ Ended(x)' = PlacesIn(doc', x)
        BY <1>4, EndedIs
      <4> QED BY <1>2, <4>1
    <3>2. DevicesEnded(x)
      BY <2>1 DEF EndedIsParsed
    <3> QED BY <1>2, <1>3, <3>1, <3>2, DevicesKept
  <2>3. ASSUME NEW x \in IoElement
        PROVE  CardIs(x, Closed)'
    <3>1. Closed = Len(doc) - 1 /\ Closed' = Closed + 1 /\ Closed \in Nat /\ Len(doc) = Closed + 1
      BY <1>2, <1>4, <1>5 DEF Closed
    <3>2. CardIs(x, Closed)
      BY <2>1 DEF EndedIsParsed
    <3> HIDE DEF Closed
    <3>3. CASE x = dir
      <4>1. \A j \in 1..Closed' : j <= Closed'
        BY <3>1
      <4> QED BY <1>2, <1>3, <1>5, <3>1, <3>3, <4>1 DEF CardIs
    <3>4. CASE x # dir
      <4>1. doc'[Closed + 1].dir # x /\ mixer'[x].card = mixer[x].card
        BY <1>2, <1>3, <1>5, <3>1, <3>4
      <4> QED BY <1>2, <3>1, <3>2, <4>1, CardKept DEF CardIs
    <3> QED BY <3>3, <3>4
  <2> QED BY <1>4, <2>2, <2>3 DEF EndedIsParsed, OpenIsParsed
<1> QED BY <1>6, <1>7, <1>8 DEF ParserInv

LEMMA EndPathParsed ==
  ASSUME ConfigTypeOK, ParserInv, EndPath
  PROVE  ParserInv'
<1>1. doc \in Seq(Section) /\ Nesting /\ DataIsOpen /\ BlocksAreHeld /\ TreeIsOpen
  BY DEF ParserInv, TreeIsOpen
<1>2. /\ In("path") /\ open' = Front(open) /\ doc' = doc /\ elements' = elements
      /\ list_start' = Null /\ list' = FALSE
      /\ UNCHANGED <<mixer, direction, io_card, type, device, blocks, lost, status>>
  BY DEF EndPath, Ends, memory
<1>3. /\ Nesting' /\ open # <<>> /\ open' # <<>>
      /\ (InSection' <=> InSection) /\ (InSection => open'[1] = open[1])
      /\ InDevice /\ InPath /\ InDevice' /\ ~InPath'
  BY <1>1, <1>2, PathEnds
<1>4. LastSection' = LastSection /\ LastDevice' = LastDevice /\ Place' = Place
  BY <1>2 DEF LastSection, LastDevice, Place
<1>5. TreeIsOpen' /\ DataIsOpen'
  BY <1>1, <1>2, <1>3, <1>4 DEF TreeIsOpen, DataIsOpen
<1>6. BlocksAreHeld'
  <2>1. lost' <= elements' /\ lost \in Int /\ blocks \in Int /\ DeviceBlocks(device) \in Nat
    BY <1>1, <1>2, DeviceBlocksIs DEF ConfigTypeOK, BlocksAreHeld
  <2> QED BY <1>1, <1>2, <2>1, BlocksKept
<1>7. ASSUME Conforms'
      PROVE  EndedIsParsed' /\ OpenIsParsed'
  <2>1. EndedIsParsed /\ OpenIsParsed
    BY <1>2, <1>7 DEF Conforms, ParserInv
  <2>2. ASSUME NEW x \in IoElement
        PROVE  DevicesEnded(x)' /\ CardIs(x, Closed)'
    <3>1. Ended(x)' = Ended(x)
      <4>1. Ended(x) = PlacesIn(doc, x) \ {Place} /\ Ended(x)' = PlacesIn(doc', x) \ {Place'}
        BY <1>3, EndedIs
      <4> QED BY <1>2, <1>4, <4>1
    <3>2. DevicesEnded(x) /\ CardIs(x, Closed)
      BY <2>1 DEF EndedIsParsed
    <3>3. Closed' = Closed
      BY <1>2, <1>3 DEF Closed
    <3> QED BY <1>2, <3>1, <3>2, <3>3, DevicesKept DEF CardIs
  <2>3. OpenIsParsed'
    BY <1>2, <1>3, <1>4, <2>1 DEF OpenIsParsed
  <2> QED BY <2>2, <2>3 DEF EndedIsParsed
<1> QED BY <1>5, <1>6, <1>7 DEF ParserInv

LEMMA EndDeviceParsed ==
  ASSUME ConfigTypeOK, ParserInv, EndDevice
  PROVE  ParserInv'
<1>1. doc \in Seq(Section) /\ Nesting /\ DataIsOpen /\ BlocksAreHeld /\ TreeIsOpen
  BY DEF ParserInv, TreeIsOpen
<1>2. /\ In("device") /\ open' = Front(open) /\ doc' = doc /\ elements' = elements
      /\ device' = Null /\ list' = FALSE /\ blocks' = blocks + 1
      /\ UNCHANGED <<direction, io_card, type, list_start, lost, status>>
  BY DEF EndDevice, Ends
<1>3. /\ Nesting' /\ open # <<>> /\ (open' = <<>> <=> ~InSection)
      /\ (InSection' <=> InSection) /\ (InSection => open'[1] = open[1])
      /\ InDevice /\ ~InPath /\ ~InDevice' /\ ~InPath'
  BY <1>1, <1>2, DeviceEnds
<1>4. /\ direction \in IoElement /\ device \in ParsedDevice \cup {Null}
      /\ \A x \in IoElement :
           /\ mixer'[x].card = mixer[x].card /\ mixer[x].devices \in Seq(ParsedDevice \cup {Null})
           /\ mixer'[x].devices = IF x = direction THEN Append(mixer[x].devices, device)
                                  ELSE mixer[x].devices
  BY DeviceStored DEF EndDevice, ConfigTypeOK, Io
<1>5. LastSection' = LastSection /\ LastDevice' = LastDevice /\ Place' = Place
  BY <1>2 DEF LastSection, LastDevice, Place
<1>6. TreeIsOpen' /\ DataIsOpen'
  BY <1>1, <1>2, <1>3, <1>5 DEF TreeIsOpen, DataIsOpen
<1>7. BlocksAreHeld'
  <2>1. ASSUME NEW x \in IoElement
        PROVE  /\ IsFiniteSet(BlocksOf(mixer'[x].devices)) /\ Freed(mixer[x]) \in Nat
               /\ Freed(mixer'[x]) = Freed(mixer[x])
                                     + (IF x = direction THEN DeviceBlocks(device) + 1 ELSE 0)
    <3>1. IsFiniteSet(BlocksOf(mixer[x].devices)) /\ Cardinality(BlocksOf(mixer[x].devices)) \in Nat
      BY <1>1, FS_CardinalityType DEF BlocksAreHeld
    <3>2. CASE x = direction
      <4>1. /\ IsFiniteSet(BlocksOf(Append(mixer[x].devices, device)))
            /\ Cardinality(BlocksOf(Append(mixer[x].devices, device)))
                 = Cardinality(BlocksOf(mixer[x].devices)) + DeviceBlocks(device) + 1
            /\ DeviceBlocks(device) \in Nat
        BY <1>4, <3>1, BlocksOfAppended, DeviceBlocksIs
      <4> QED BY <1>4, <3>1, <3>2, <4>1 DEF Freed
    <3>3. CASE x # direction
      BY <1>4, <3>1, <3>3 DEF Freed
    <3> QED BY <3>2, <3>3
  <2>2. /\ DeviceBlocks(device) \in Nat /\ DeviceBlocks(device') = 0 /\ lost' <= elements'
        /\ lost \in Int /\ lost' = lost
    <3>1. DeviceBlocks(device) \in Nat
      BY <1>4, DeviceBlocksIs
    <3>2. DeviceBlocks(device') = 0
      BY <1>2 DEF DeviceBlocks
    <3> QED BY <1>1, <1>2, <3>1, <3>2 DEF BlocksAreHeld, ConfigTypeOK
  <2>3. blocks = lost + Freed(mixer["output"]) + Freed(mixer["input"]) + Freed(mixer["modem"])
                   + DeviceBlocks(device)
    BY <1>1 DEF BlocksAreHeld
  <2>4. blocks' = lost' + Freed(mixer'["output"]) + Freed(mixer'["input"]) + Freed(mixer'["modem"])
                    + DeviceBlocks(device')
    BY <1>2, <1>4, <2>1, <2>2, <2>3 DEF IoElement
  <2> QED BY <2>1, <2>2, <2>4 DEF BlocksAreHeld
<1>8. ASSUME Conforms'
      PROVE  EndedIsParsed' /\ OpenIsParsed'
  <2>1. EndedIsParsed /\ OpenIsParsed
    BY <1>2, <1>8 DEF Conforms, ParserInv
  <2>2. DeviceIs(device, LastSection.dir, LastDevice) /\ doc # <<>> /\ LastSection.devices # <<>>
    BY <1>1, <1>3, <2>1 DEF OpenIsParsed, TreeIsOpen
  <2>3. /\ LastSection.dir = (IF InSection THEN direction ELSE "none")
        /\ ~InSection => direction = "output"
        /\ InSection => direction \in IoElement
    BY <1>1, <1>3, <1>4 DEF TreeIsOpen, DataIsOpen
  <2>4. DeviceIs(device, direction, LastDevice)
    BY <2>2, <2>3 DEF DeviceIs, SideOf
  <2>5. \A x \in IoElement : Counts(LastSection.dir, x) <=> x = direction
    BY <2>3 DEF Counts, IoElement
  <2>6. ASSUME NEW x \in IoElement
        PROVE  DevicesEnded(x)'
    <3>1. DevicesEnded(x)
      BY <2>1 DEF EndedIsParsed
    <3>2. /\ Ended(x) = PlacesIn(doc, x) \ {Place} /\ Ended(x)' = PlacesIn(doc', x)
      BY <1>3, EndedIs
    <3>3. /\ Pairs(Ended(x)) /\ Pairs({Place}) /\ \A p \in Ended(x) : Before(p, Place)
          /\ doc[Place[1]].devices[Place[2]] = LastDevice
          /\ Ended(x)' = Ended(x) \cup (IF x = direction THEN {Place} ELSE {})
      BY <1>1, <1>2, <2>2, <2>5, <3>2, OpenIsNext
    <3>4. CASE x # direction
      <4>1. mixer'[x].devices = mixer[x].devices /\ Ended(x)' = Ended(x)
        BY <1>4, <3>3, <3>4
      <4> QED BY <1>2, <3>1, <4>1, DevicesKept
    <3>5. CASE x = direction
      <4> DEFINE P == Ended(x)
                 s == mixer[x].devices
      <4>1. /\ IsFiniteSet(P) /\ Len(s) = Cardinality(P) /\ Pairs(P) /\ s \in Seq(ParsedDevice \cup {Null})
            /\ \A p \in P : Before(p, Place)
            /\ \A p \in P : DeviceIs(s[Number(P, p)], x, doc[p[1]].devices[p[2]])
            /\ P' = P \cup {Place} /\ mixer'[x].devices = Append(s, device)
        BY <1>4, <3>1, <3>3, <3>5 DEF DevicesEnded, DevicesAre
      <4> HIDE DEF P, s
      <4>2. /\ IsFiniteSet(P \cup {Place}) /\ Cardinality(P \cup {Place}) = Cardinality(P) + 1
            /\ Number(P \cup {Place}, Place) = Cardinality(P) + 1
            /\ \A p \in P : Number(P \cup {Place}, p) = Number(P, p)
        BY <3>3, <4>1, NumberOfNext
      <4>3. /\ Len(Append(s, device)) = Len(s) + 1 /\ Append(s, device)[Len(s) + 1] = device
            /\ \A i \in 1..Len(s) : Append(s, device)[i] = s[i]
        BY <1>4, <4>1, LastAppended
      <4>4. \A p \in P : Number(P, p) \in 1..Len(s)
        BY <4>1, NumberIsOne
      <4>5. \A p \in P \cup {Place} :
              DeviceIs(Append(s, device)[Number(P \cup {Place}, p)], x, doc[p[1]].devices[p[2]])
        BY <2>4, <3>3, <3>5, <4>1, <4>2, <4>3, <4>4
      <4>6. Len(Append(s, device)) = Cardinality(P \cup {Place})
        BY <4>1, <4>2, <4>3
      <4>7. Ended(x)' = P \cup {Place}
        BY <4>1 DEF P
      <4> QED BY <1>2, <4>1, <4>2, <4>5, <4>6, <4>7 DEF DevicesEnded, DevicesAre
    <3> QED BY <3>4, <3>5
  <2>7. ASSUME NEW x \in IoElement
        PROVE  CardIs(x, Closed)'
    <3>1. CardIs(x, Closed) /\ Closed' = Closed
      BY <1>2, <1>3, <2>1 DEF EndedIsParsed, Closed
    <3> QED BY <1>2, <1>4, <3>1 DEF CardIs
  <2> QED BY <1>3, <2>6, <2>7 DEF EndedIsParsed, OpenIsParsed
<1> QED BY <1>6, <1>7, <1>8 DEF ParserInv

-----------------------------------------------------------------------------
(* The invariant holds initially and every step keeps it. *)

LEMMA ConfigInitially == ConfigInit => ConfigIInv
<1> SUFFICES ASSUME ConfigInit PROVE ConfigIInv
  OBVIOUS
<1>1. /\ mixer = [dir \in IoElement |-> [devices |-> <<>>, card |-> 0]]
      /\ direction = "output" /\ io_card = 0 /\ type = NoType
      /\ device = Null /\ list_start = Null /\ list = FALSE
      /\ blocks = 0 /\ lost = 0 /\ status = "parsing"
      /\ doc = <<>> /\ open = <<>> /\ elements = 0
  BY DEF ConfigInit
<1>2. 0 \in Cards /\ MaxElements \in Nat
  BY NamesAssumption
<1>3. <<>> \in Seq(ParsedDevice \cup {Null}) /\ doc \in Seq(Section) /\ open \in Seq(IoElement \cup {"device", "path"})
      /\ Len(doc) = 0 /\ Len(open) = 0 /\ DOMAIN doc = {}
  BY <1>1, EmptySeq
<1>4. ConfigTypeOK
  <2>1. mixer \in [IoElement -> [devices : Seq(ParsedDevice \cup {Null}), card : Cards]]
    BY <1>1, <1>2, <1>3
  <2>2. 0 \in 0..MaxElements /\ 0 \in Nat
    BY <1>2
  <2> QED BY <1>1, <1>2, <2>1, <2>2 DEF ConfigTypeOK, IoElement
<1>5. ~InSection /\ ~InDevice /\ ~InPath
  BY <1>1 DEF InSection, InDevice, InPath
<1>6. TreeIsOpen /\ DataIsOpen
  BY <1>1, <1>3, <1>5 DEF TreeIsOpen, DataIsOpen, Nesting
<1>7. \A dir \in IoElement : mixer[dir].devices = <<>> /\ mixer[dir].card = 0
  BY <1>1
<1>8. BlocksAreHeld
  <2>1. \A dir \in IoElement : BlocksOf(mixer[dir].devices) = {}
    BY <1>7 DEF BlocksOf
  <2>2. \A dir \in IoElement : IsFiniteSet(BlocksOf(mixer[dir].devices)) /\ Freed(mixer[dir]) = 0
    BY <2>1, FS_EmptySet DEF Freed
  <2> QED BY <1>1, <2>2 DEF BlocksAreHeld, DeviceBlocks, IoElement
<1>9. EndedIsParsed /\ OpenIsParsed
  <2>1. \A dir \in IoElement : Ended(dir) = {}
    BY <1>3 DEF Ended, DevicePlaces
  <2>2. \A dir \in IoElement : DevicesEnded(dir)
    BY <1>7, <2>1, FS_EmptySet DEF DevicesEnded, DevicesAre
  <2>3. Closed = 0
    BY <1>3, <1>5 DEF Closed
  <2>4. \A dir \in IoElement : CardIs(dir, Closed)
    BY <1>7, <2>3 DEF CardIs
  <2> QED BY <1>5, <2>2, <2>4 DEF EndedIsParsed, OpenIsParsed
<1> QED BY <1>1, <1>4, <1>6, <1>8, <1>9 DEF ConfigIInv, ConfigInv, ParserInv

LEMMA StartDeviceTyped ==
  ASSUME ConfigTypeOK, ParserInv, NEW name \in TypeName, NEW more \in BOOLEAN, StartDevice(name, more)
  PROVE  ConfigTypeOK'
<1>1. /\ type' = TypeRead(name) /\ elements' = elements + (IF more THEN 2 ELSE 1) /\ elements' <= MaxElements
      /\ UNCHANGED <<mixer, direction, io_card, list_start, list, status>>
  BY DEF StartDevice, StartsWith
<1>2. lost' <= elements'
  BY StartDeviceParsed DEF ParserInv, BlocksAreHeld
<1>3. type' \in {NoType} \cup ({"out"} \X OutNames) \cup ({"in"} \X InNames)
  BY <1>1, TypeReadIs DEF ConfigTypeOK
<1>4. ~list
  <2>1. Nesting /\ DataIsOpen /\ (open = <<>> \/ InIo)
    BY DEF ParserInv, TreeIsOpen, StartDevice
  <2>2. ~InPath
    BY <2>1 DEF InPath, InIo, IoElement
  <2> QED BY <2>1, <2>2 DEF DataIsOpen
<1>5. CASE name # Missing /\ type' # NoType
  <2>1. /\ device' \in ParsedDevice
        /\ blocks' = IF more THEN blocks + 2 ELSE blocks + 1
        /\ lost' = IF more THEN lost + 1 ELSE lost
    BY <1>5, DeviceAllocated
  <2>2. blocks' \in Nat /\ lost' \in 0..MaxElements /\ elements' \in 0..MaxElements
    BY <1>1, <1>2, <2>1, NamesAssumption DEF ConfigTypeOK
  <2> QED BY <1>1, <1>3, <1>4, <2>1, <2>2 DEF ConfigTypeOK
<1>6. CASE ~(name # Missing /\ type' # NoType)
  <2>1. device' = device /\ blocks' = blocks /\ lost' = lost
    BY <1>6 DEF StartDevice, memory
  <2>2. elements' \in 0..MaxElements
    BY <1>1 DEF ConfigTypeOK
  <2> QED BY <1>1, <1>3, <1>4, <2>1, <2>2 DEF ConfigTypeOK
<1> QED BY <1>5, <1>6

LEMMA StartCtrlTyped ==
  ASSUME ConfigTypeOK, NEW c \in Ctrls \cup {Incomplete}, StartCtrl(c)
  PROVE  ConfigTypeOK'
<1>1. /\ elements < MaxElements /\ elements' = elements + 1
      /\ UNCHANGED <<mixer, direction, io_card, type, list_start, lost>>
      /\ blocks' = blocks + 2 \/ blocks' = blocks
      /\ status' = status \/ status' = "crashed"
  BY DEF StartCtrl, memory, Link
<1>2. blocks' \in Nat /\ elements' \in 0..MaxElements
  <2>1. elements \in 0..MaxElements /\ blocks \in Nat /\ MaxElements \in Nat
    BY NamesAssumption DEF ConfigTypeOK
  <2> QED BY <1>1, <2>1
<1>3. CASE device' = Linked(device, list_start, c) /\ list' = TRUE /\ device # Null /\ list_start # Null /\ c # Incomplete
  <2>1. device \in ParsedDevice /\ list_start \in List /\ c \in Ctrls
    BY <1>3 DEF ConfigTypeOK
  <2>2. device' \in ParsedDevice /\ device' # Null /\ device'[list_start] # <<>>
    BY <1>3, <2>1, CtrlLinked
  <2> QED BY <1>1, <1>2, <1>3, <2>2 DEF ConfigTypeOK
<1>4. CASE device' = device /\ list' = list
  BY <1>1, <1>2, <1>4 DEF ConfigTypeOK
<1>5. \/ device' = Linked(device, list_start, c) /\ list' = TRUE /\ device # Null /\ list_start # Null /\ c # Incomplete
      \/ device' = device /\ list' = list
  <2>1. status' # status => device' = device /\ list' = list
    BY DEF StartCtrl, Link
  <2> QED BY <2>1, StartCtrlIs
<1> QED BY <1>3, <1>4, <1>5

\* When all elements have ended the mixer's lists hold every block that is not
\* lost, and what CloseMixer frees, when it does, is all of them.
LEMMA MixerHolds ==
  ASSUME ConfigTypeOK, ConfigInv, status = "done"
  PROVE  /\ blocks = lost + Freed(mixer["output"]) + Freed(mixer["input"]) + Freed(mixer["modem"])
         /\ \A dir \in IoElement : Freed(mixer[dir]) \in Nat
<1>1. open = <<>> /\ DataIsOpen /\ BlocksAreHeld
  BY DEF ConfigInv, ParserInv
<1>2. DeviceBlocks(device) = 0
  BY <1>1 DEF DataIsOpen, InDevice, DeviceBlocks
<1>3. \A dir \in IoElement : Freed(mixer[dir]) \in Nat
  BY <1>1, FS_CardinalityType DEF BlocksAreHeld, Freed
<1> QED BY <1>1, <1>2, <1>3 DEF BlocksAreHeld, ConfigTypeOK, IoElement

LEMMA MixerEmptied ==
  ASSUME ConfigTypeOK, ConfigInv, CloseMixer, status' = "closed"
  PROVE  blocks' = lost /\ lost' = lost
<1>1. /\ blocks = lost + Freed(mixer["output"]) + Freed(mixer["input"]) + Freed(mixer["modem"])
      /\ Freed(mixer["output"]) \in Nat /\ Freed(mixer["input"]) \in Nat
      /\ Freed(mixer["modem"]) \in Nat
  BY MixerHolds DEF CloseMixer, IoElement
<1>2. /\ blocks' = blocks - Freed(mixer["output"]) - Freed(mixer["input"]) - Freed(mixer["modem"])
      /\ lost' = lost
  BY DEF CloseMixer
<1> QED BY <1>1, <1>2 DEF ConfigTypeOK

LEMMA ConfigTyped ==
  ASSUME ConfigTypeOK, ConfigInv, [ConfigNext]_config_vars
  PROVE  ConfigTypeOK'
<1>1. ASSUME NEW dir \in IoElement, NEW card \in Cards, StartIo(dir, card)
      PROVE  ConfigTypeOK'
  BY <1>1 DEF StartIo, Starts, StartsWith, ConfigTypeOK, memory
<1>2. ASSUME NEW name \in TypeName, NEW more \in BOOLEAN, StartDevice(name, more)
      PROVE  ConfigTypeOK'
  BY <1>2, StartDeviceTyped DEF StartDevice, StartsWith, ConfigInv
<1>3. ASSUME NEW name \in List \cup {Unknown}, StartPath(name)
      PROVE  ConfigTypeOK'
  <2>1. status = "parsing" /\ In("device")
    BY <1>3 DEF StartPath, Starts, StartsWith
  <2>2. DataIsOpen /\ ~InPath
    BY <2>1 DEF ConfigInv, ParserInv, In, InPath
  <2>3. ~list
    BY <2>2 DEF DataIsOpen
  <2> QED BY <1>3, <2>3 DEF StartPath, Starts, StartsWith, ConfigTypeOK, memory
<1>4. ASSUME NEW c \in Ctrls \cup {Incomplete}, StartCtrl(c)
      PROVE  ConfigTypeOK'
  BY <1>4, StartCtrlTyped
<1>5. ASSUME NEW dir \in IoElement, EndIo(dir)
      PROVE  ConfigTypeOK'
  <2>1. mixer' \in [IoElement -> Io]
    BY <1>5, CardStored DEF EndIo, ConfigTypeOK, Io
  <2> QED BY <1>5, <2>1, NamesAssumption DEF EndIo, Ends, ConfigTypeOK, memory, Io, IoElement
<1>6. ASSUME EndDevice
      PROVE  ConfigTypeOK'
  <2>1. mixer' \in [IoElement -> Io]
    BY <1>6, DeviceStored DEF EndDevice, ConfigTypeOK, Io
  <2>2. /\ device' = Null /\ list' = FALSE /\ blocks' = blocks + 1
        /\ UNCHANGED <<lost, direction, io_card, type, list_start, status, elements>>
    BY <1>6 DEF EndDevice, Ends
  <2>3. blocks' \in Nat
    BY <2>2 DEF ConfigTypeOK
  <2> QED BY <2>1, <2>2, <2>3 DEF ConfigTypeOK, Io
<1>7. ASSUME EndPath
      PROVE  ConfigTypeOK'
  BY <1>7 DEF EndPath, Ends, ConfigTypeOK, memory
<1>8. ASSUME Gone
      PROVE  /\ mixer' \in [IoElement -> Io] /\ direction' \in IoElement /\ io_card' \in Cards
             /\ type' = NoType /\ device' = Null /\ list_start' = Null /\ list' = FALSE
             /\ elements' \in 0..MaxElements
  BY <1>8, NamesAssumption, EmptySeq DEF Gone, Io, IoElement
<1>9. ASSUME ParseFails
      PROVE  ConfigTypeOK'
  <2>1. Gone /\ blocks' = blocks /\ lost' = lost /\ status' = "failed"
    BY <1>9 DEF ParseFails, memory
  <2> QED BY <1>8, <2>1 DEF ConfigTypeOK, Io
<1>10. ASSUME ParseDone
       PROVE  ConfigTypeOK'
  BY <1>10 DEF ParseDone, ConfigTypeOK, config, memory
<1>11. ASSUME CloseMixer
       PROVE  ConfigTypeOK'
  <2>1. BlocksAreHeld
    BY <1>11 DEF CloseMixer, ConfigInv, ParserInv
  <2>2. CASE status' = "closed"
    <3>1. blocks' = lost /\ lost' = lost /\ lost \in Nat
      BY <1>11, <2>2, MixerEmptied DEF CloseMixer, ConfigTypeOK, ConfigIInv
    <3> QED BY <1>8, <1>11, <2>2, <3>1 DEF CloseMixer, ConfigTypeOK, Io
  <2>3. CASE status' = "corrupted" /\ UNCHANGED memory
    BY <1>8, <1>11, <2>3 DEF CloseMixer, ConfigTypeOK, Io, memory
  <2> QED BY <1>11, <2>2, <2>3 DEF CloseMixer
<1>12. ASSUME UNCHANGED config_vars
       PROVE  ConfigTypeOK'
  BY <1>12 DEF config_vars, ConfigTypeOK, config, memory
<1> QED BY <1>1, <1>2, <1>3, <1>4, <1>5, <1>6, <1>7, <1>9, <1>10, <1>11, <1>12 DEF ConfigNext, Stopped

LEMMA ParserSame ==
  ASSUME ParserInv, UNCHANGED <<mixer, config, memory, doc, open, elements>>
  PROVE  ParserInv'
<1>1. UNCHANGED <<mixer, direction, io_card, type, device, list_start, list, blocks, lost, doc, open, elements>>
  BY DEF config, memory
<1>2. /\ LastSection' = LastSection /\ LastDevice' = LastDevice /\ Place' = Place /\ Closed' = Closed
      /\ InSection' = InSection /\ InDevice' = InDevice /\ InPath' = InPath
  BY <1>1 DEF LastSection, LastDevice, Place, Closed, InSection, InDevice, InPath
<1>3. TreeIsOpen' /\ DataIsOpen' /\ BlocksAreHeld'
  BY <1>1, <1>2 DEF ParserInv, TreeIsOpen, Nesting, DataIsOpen, BlocksAreHeld
<1>4. ASSUME Conforms'
      PROVE  EndedIsParsed' /\ OpenIsParsed'
  <2>1. EndedIsParsed /\ OpenIsParsed
    BY <1>1, <1>4 DEF Conforms, ParserInv
  <2>2. \A dir : Ended(dir)' = Ended(dir)
    BY <1>1, <1>2 DEF Ended, DevicePlaces
  <2>3. EndedIsParsed'
    BY <1>1, <1>2, <2>1, <2>2 DEF EndedIsParsed, DevicesEnded, DevicesAre, CardIs
  <2>4. OpenIsParsed'
    BY <1>1, <1>2, <2>1 DEF OpenIsParsed
  <2> QED BY <2>3, <2>4
<1> QED BY <1>3, <1>4 DEF ParserInv

LEMMA ConfigKept ==
  ASSUME ConfigIInv, [ConfigNext]_config_vars
  PROVE  ConfigIInv'
<1>1. ConfigTypeOK /\ ConfigInv /\ ConfigTypeOK'
  BY ConfigTyped DEF ConfigIInv
<1>2. ASSUME status = "parsing"
      PROVE  ParserInv
  BY <1>1, <1>2 DEF ConfigInv
<1>3. ASSUME status' = "parsing", ParserInv'
      PROVE  ConfigInv'
  BY <1>3 DEF ConfigInv
<1>4. ASSUME NEW dir \in IoElement, NEW card \in Cards, StartIo(dir, card)
      PROVE  ConfigInv'
  BY <1>1, <1>2, <1>3, <1>4, StartIoParsed DEF StartIo, Starts, StartsWith
<1>5. ASSUME NEW name \in TypeName, NEW more \in BOOLEAN, StartDevice(name, more)
      PROVE  ConfigInv'
  BY <1>1, <1>2, <1>3, <1>5, StartDeviceParsed DEF StartDevice, StartsWith
<1>6. ASSUME NEW name \in List \cup {Unknown}, StartPath(name)
      PROVE  ConfigInv'
  BY <1>1, <1>2, <1>3, <1>6, StartPathParsed DEF StartPath, Starts, StartsWith
<1>7. ASSUME NEW c \in Ctrls \cup {Incomplete}, StartCtrl(c)
      PROVE  ConfigInv'
  <2>1. status = "parsing" /\ (status' = status \/ status' = "crashed")
    BY <1>7 DEF StartCtrl, Link
  <2>2. status' = status => ParserInv'
    BY <1>1, <1>2, <1>7, <2>1, StartCtrlParsed
  <2>3. status' # status => ~Conforms'
    BY <1>1, <1>2, <1>7, <2>1, StartCtrlParsed
  <2> QED BY <1>3, <2>1, <2>2, <2>3 DEF ConfigInv
<1>8. ASSUME NEW dir \in IoElement, EndIo(dir)
      PROVE  ConfigInv'
  BY <1>1, <1>2, <1>3, <1>8, EndIoParsed DEF EndIo, Ends
<1>9. ASSUME EndDevice
      PROVE  ConfigInv'
  BY <1>1, <1>2, <1>3, <1>9, EndDeviceParsed DEF EndDevice, Ends
<1>10. ASSUME EndPath
       PROVE  ConfigInv'
  BY <1>1, <1>2, <1>3, <1>10, EndPathParsed DEF EndPath, Ends
<1>11. ASSUME ParseDone
       PROVE  ConfigInv'
  <2>1. status' = "done" /\ open' = <<>> /\ ParserInv'
    BY <1>2, <1>11, ParserSame DEF ParseDone
  <2> QED BY <2>1 DEF ConfigInv
<1>12. ASSUME ParseFails
       PROVE  ConfigInv'
  BY <1>12 DEF ParseFails, ConfigInv
<1>13. ASSUME CloseMixer
       PROVE  ConfigInv'
  <2>1. CASE status' = "closed"
    BY <1>1, <1>13, <2>1, MixerEmptied DEF CloseMixer, ConfigInv, ConfigIInv
  <2>2. CASE status' = "corrupted"
    BY <2>2 DEF ConfigInv
  <2> QED BY <1>13, <2>1, <2>2 DEF CloseMixer
<1>14. ASSUME UNCHANGED config_vars
       PROVE  ConfigInv'
  <2>1. UNCHANGED <<mixer, config, memory, doc, open, elements>> /\ status' = status /\ blocks' = blocks
        /\ lost' = lost /\ open' = open /\ doc' = doc
    BY <1>14 DEF config_vars, memory
  <2>2. Conforms' = Conforms
    BY <2>1 DEF Conforms
  <2>3. ParserInv => ParserInv'
    BY <2>1, ParserSame
  <2> QED BY <1>1, <2>1, <2>2, <2>3 DEF ConfigInv
<1>15. ConfigInv'
  BY <1>4, <1>5, <1>6, <1>7, <1>8, <1>9, <1>10, <1>11, <1>12, <1>13, <1>14 DEF ConfigNext, Stopped
<1> QED BY <1>1, <1>15 DEF ConfigIInv

\* Whatever document is read, the lists of every direction, the current device
\* and the allocated blocks are what the part of the document that was read so
\* far says (the callbacks of mixer.c, after every element).
THEOREM ConfigCorrect == ConfigSpec => []ConfigIInv
<1>1. ConfigInit => ConfigIInv
  BY ConfigInitially
<1>2. ConfigIInv /\ [ConfigNext]_config_vars => ConfigIInv'
  BY ConfigKept
<1> QED BY <1>1, <1>2, PTL DEF ConfigSpec

\* The variables of the parser keep their types; the pointer to the end of a
\* list is only set when there is a device, a list and an element.
THEOREM ConfigTypeCorrect == ConfigSpec => []ConfigTypeOK
<1>1. ConfigIInv => ConfigTypeOK
  BY DEF ConfigIInv
<1> QED BY <1>1, ConfigCorrect, PTL

\* A document that conforms, of any length, is parsed to the end, and to what
\* its tree says (the callbacks of mixer.c).
THEOREM ParsedCorrect == ConfigSpec => []ParsedIsDocument
<1>1. ConfigIInv => ParsedIsDocument
  <2> SUFFICES ASSUME ConfigIInv PROVE ParsedIsDocument
    OBVIOUS
  <2>1. ConfigInv
    BY DEF ConfigIInv
  <2>2. ASSUME status = "done", Conforms, NEW dir \in IoElement
        PROVE  DevicesAre(dir, DevicePlaces(dir)) /\ CardIs(dir, Len(doc))
    <3>1. open = <<>> /\ EndedIsParsed
      BY <2>1, <2>2 DEF ConfigInv, ParserInv
    <3>2. ~InSection /\ ~InDevice
      BY <3>1 DEF InSection, InDevice
    <3>3. Ended(dir) = DevicePlaces(dir) /\ Closed = Len(doc)
      BY <3>2 DEF Ended, Closed
    <3>4. DevicesEnded(dir) /\ CardIs(dir, Closed)
      BY <3>1 DEF EndedIsParsed
    <3>5. DevicesAre(dir, Ended(dir))
      BY <3>4 DEF DevicesEnded
    <3> QED BY <3>3, <3>4, <3>5
  <2> QED BY <2>1, <2>2 DEF ConfigInv, ParsedIsDocument
<1> QED BY <1>1, ConfigCorrect, PTL

\* Whatever document was parsed, every block allocated for it hangs in the lists
\* of the mixer, but for the devices lost in mixer.c:450, and closing the mixer
\* frees them all unless a list has a second node (the callbacks of mixer.c,
\* tinyalsa_mixer_io_free_devices).
THEOREM FreedCorrect == ConfigSpec => []AllFreed
<1>1. ConfigIInv => AllFreed
  BY MixerHolds DEF ConfigIInv, ConfigInv, AllFreed
<1> QED BY <1>1, ConfigCorrect, PTL
=============================================================================
