--------------------------- MODULE SensorsProofs ---------------------------
(***************************************************************************)
(* The safety properties of Sensors for every size of the ring, every      *)
(* number of events asked for and both devices, and that reading through   *)
(* the ring implements Fifo.  The ring comes first: what fill and next do  *)
(* to its contents, whatever the offset.  The invariant then follows the   *)
(* last value a device measured: it is at the device, in the ring, pending *)
(* in the driver or told, and where it is held somebody still looks.       *)
(***************************************************************************)
EXTENDS Sensors, SequenceTheorems, TLAPS

\* What a driver holds: the events in its ring, then those at its device.
Held(s) == Contents(ring[s]) \o kernel[s]

\* The values among the events of a queue, and the last of them.
IsValue(q, i) == i \in 1..Len(q) /\ q[i] # Other
HasValue(q) == \E i \in 1..Len(q) : IsValue(q, i)
Holds(s) == HasValue(Held(s))
IsLastValue(q, i) == IsValue(q, i) /\ \A j \in 1..Len(q) : IsValue(q, j) => j <= i

Enabling(s) == control.at = "enabling" /\ control.s = s

\* The scan is past the last driver with room left, or over.
Passed == poller.at = "poll" \/ (poller.at = "scan" /\ poller.i > Len(Drivers) /\ poller.count > 0)

\* While a driver is read its lock is held, its revents still announce it, and
\* it has no pending event.
ReaderHolds ==
  poller.at = "read" =>
    /\ poller.i <= Len(Drivers) /\ here \in Sensors /\ here \in revents
    /\ lock[here] = "poller" /\ ~pending[here]

\* While a driver is enabled or disabled its lock is held, and its device has
\* been told which.
EnablerHolds ==
  control.at = "enabling" => lock[control.s] = "control" /\ on[control.s] = control.en

\* A device reports only to a driver that takes its values.
OnIsEnabled == \A s \in Sensors : on[s] => enabled[s]

\* The events of a driver are values its device measures; the last of them is
\* the value the device has now.
Latest(s) ==
  /\ now[s] \in Reading(s)
  /\ Held(s) \in Seq(Reading(s) \cup {Other})
  /\ \A i \in 1..Len(Held(s)) : IsLastValue(Held(s), i) => Held(s)[i] = now[s]

HeldIsRead == \A s \in Sensors : Latest(s)

\* A pending event is a proximity sensor's, and has the value the device has
\* now unless a later one waits at the device: nothing was read since.
PendingIsNow ==
  \A s \in Sensors : pending[s] =>
    /\ s = "proximity" /\ distance[s] \in Value
    /\ distance[s] = now[s] \/ (kernel[s] # <<>> /\ Holds(s))

\* Once the scan is past it, a proximity sensor has no revents left, and if an
\* event of its is pending the wake byte is there or about to be.
PassedIsRead ==
  Passed => \A s \in Sensors : s = "proximity" =>
    /\ s \notin revents
    /\ pending[s] => wake > 0 \/ (control.at = "waking" /\ control.s = s)

\* The value delivered last is the one the device has now, unless one is still
\* held where it will be looked for, or pending, or could not be read.
ToldOrHeld ==
  \A s \in Sensors : s = "proximity" /\ on[s] /\ s \notin unread /\ ~Enabling(s) =>
    \/ Holds(s) /\ (kernel[s] # <<>> \/ s \in revents)
    \/ pending[s] /\ distance[s] = now[s]
    \/ ~pending[s] /\ told[s] = now[s]

\* The parts are kept together: each needs others of them.
SensorsInv ==
  /\ ReaderHolds /\ EnablerHolds /\ OnIsEnabled /\ HeldIsRead
  /\ PendingIsNow /\ PassedIsRead /\ ToldOrHeld

SensorsIInv == TypeOK /\ SensorsInv
-----------------------------------------------------------------------------
(* The drivers. *)

LEMMA DriversAre ==
  /\ Len(Drivers) \in 2..4
  /\ Drivers[1] = "mpl" /\ Drivers[2] = "mpl_timer"
  /\ \A i \in 3..Len(Drivers) : Drivers[i] \in Sensors
  /\ "proximity" \in Sensors => Len(Drivers) > 2 /\ Drivers[Len(Drivers)] = "proximity"
<1> DEFINE S == {"mpl", "mpl_timer", "light", "proximity"}
           first == <<"mpl", "mpl_timer">>
           light == IF "light" \in Sensors THEN <<"light">> ELSE <<>>
           proximity == IF "proximity" \in Sensors THEN <<"proximity">> ELSE <<>>
<1>1. /\ first \in Seq(S) /\ Len(first) = 2 /\ first[1] = "mpl" /\ first[2] = "mpl_timer"
      /\ light \in Seq(S) /\ proximity \in Seq(S)
      /\ IF "light" \in Sensors THEN Len(light) = 1 /\ light[1] = "light" ELSE Len(light) = 0
      /\ IF "proximity" \in Sensors THEN Len(proximity) = 1 /\ proximity[1] = "proximity"
         ELSE Len(proximity) = 0
  <2>1. first \in Seq(S) /\ Len(first) = 2 /\ first[1] = "mpl" /\ first[2] = "mpl_timer"
    OBVIOUS
  <2>2. /\ light \in Seq(S)
        /\ IF "light" \in Sensors THEN Len(light) = 1 /\ light[1] = "light" ELSE Len(light) = 0
    <3>1. CASE "light" \in Sensors
      <4>1. light = <<"light">>
        BY <3>1
      <4>2. <<"light">> \in Seq(S) /\ Len(<<"light">>) = 1 /\ <<"light">>[1] = "light"
        OBVIOUS
      <4> QED BY <3>1, <4>1, <4>2
    <3>2. CASE "light" \notin Sensors
      <4>1. light = <<>>
        BY <3>2
      <4> HIDE DEF light
      <4> QED BY <3>2, <4>1, EmptySeq
    <3> QED BY <3>1, <3>2
  <2>3. /\ proximity \in Seq(S)
        /\ IF "proximity" \in Sensors THEN Len(proximity) = 1 /\ proximity[1] = "proximity"
           ELSE Len(proximity) = 0
    <3>1. CASE "proximity" \in Sensors
      <4>1. proximity = <<"proximity">>
        BY <3>1
      <4>2. <<"proximity">> \in Seq(S) /\ Len(<<"proximity">>) = 1 /\ <<"proximity">>[1] = "proximity"
        OBVIOUS
      <4> QED BY <3>1, <4>1, <4>2
    <3>2. CASE "proximity" \notin Sensors
      <4>1. proximity = <<>>
        BY <3>2
      <4> HIDE DEF proximity
      <4> QED BY <3>2, <4>1, EmptySeq
    <3> QED BY <3>1, <3>2
  <2> QED BY <2>1, <2>2, <2>3
<1>2. Drivers = (first \o light) \o proximity
  BY DEF Drivers
<1> HIDE DEF S, first, light, proximity
<1>3. /\ first \o light \in Seq(S) /\ Len(first \o light) = 2 + Len(light)
      /\ \A i \in 1..2 + Len(light) : (first \o light)[i] = IF i <= 2 THEN first[i] ELSE light[i - 2]
  BY <1>1, ConcatProperties
<1>4. /\ Len(Drivers) = 2 + Len(light) + Len(proximity)
      /\ \A i \in 1..Len(Drivers) :
           Drivers[i] = IF i <= 2 + Len(light) THEN (first \o light)[i]
                        ELSE proximity[i - (2 + Len(light))]
  BY <1>1, <1>2, <1>3, ConcatProperties
<1> QED BY <1>1, <1>3, <1>4

-----------------------------------------------------------------------------
(* The ring. *)

LEMMA ContentsAre ==
  ASSUME NEW E, NEW r \in RingOf(E)
  PROVE  /\ Contents(r) \in Seq(E \cup {NoEvent})
         /\ Len(Contents(r)) = NumEvents - r.free
         /\ \A i \in 1..NumEvents - r.free : Contents(r)[i] = r.buf[Wrapped(r.curr + i - 1)]
<1>1. /\ r.free \in 0..NumEvents /\ r.curr \in Slot /\ NumEvents \in Nat
      /\ r.buf \in [Slot -> E \cup {NoEvent}] /\ NumEvents - r.free \in Nat
  BY NumEventsAssumption DEF RingOf, Slot
<1>2. \A i \in 1..NumEvents - r.free : Wrapped(r.curr + i - 1) \in Slot
  BY <1>1 DEF Wrapped, Slot
<1>3. Contents(r) \in [1..NumEvents - r.free -> E \cup {NoEvent}]
  BY <1>1, <1>2 DEF Contents
<1>4. Contents(r) \in Seq(E \cup {NoEvent}) /\ Len(Contents(r)) = NumEvents - r.free
  BY <1>1, <1>3
<1> QED BY <1>4 DEF Contents

\* Reading an event that the ring holds.
LEMMA NextIs ==
  ASSUME NEW E, NEW r \in RingOf(E), HeadIsEnd(r), ~MustFill(r)
  PROVE  /\ next(r) \in RingOf(E) /\ HeadIsEnd(next(r))
         /\ Contents(r) # <<>> /\ current(r) = Contents(r)[1]
         /\ Contents(next(r)) = Tail(Contents(r))
<1> USE NumEventsAssumption
<1>1. /\ r.free \in 0..NumEvents /\ r.free < NumEvents /\ r.curr \in 0..NumEvents-1 /\ NumEvents \in Nat
      /\ r.buf \in [Slot -> E \cup {NoEvent}] /\ r.head \in Slot
  BY DEF RingOf, MustFill, Slot
<1> DEFINE q == next(r)
<1>2. r \in [buf : [Slot -> E \cup {NoEvent}], head : Slot, curr : Slot, free : 0..NumEvents]
  BY DEF RingOf
<1>3. q \in [buf : [Slot -> E \cup {NoEvent}], head : Slot, curr : Slot, free : 0..NumEvents]
  <2>1. Wrapped(r.curr + 1) \in Slot /\ r.free + 1 \in 0..NumEvents
    BY <1>1 DEF Wrapped, Slot
  <2>2. [r.buf EXCEPT ![r.curr] = NoEvent] \in [Slot -> E \cup {NoEvent}]
    BY <1>1 DEF Slot
  <2> QED BY <1>2, <2>1, <2>2 DEF next
<1>4. /\ q.buf = [r.buf EXCEPT ![r.curr] = NoEvent] /\ q.head = r.head
      /\ q.curr = Wrapped(r.curr + 1) /\ q.free = r.free + 1
  BY <1>2 DEF next
<1>5. q \in RingOf(E)
  BY <1>3 DEF RingOf
<1> HIDE DEF q
<1>6. HeadIsEnd(q)
  BY <1>1, <1>4 DEF HeadIsEnd, Wrapped
<1>7. /\ Contents(r) \in Seq(E \cup {NoEvent}) /\ Len(Contents(r)) = NumEvents - r.free
      /\ \A i \in 1..NumEvents - r.free : Contents(r)[i] = r.buf[Wrapped(r.curr + i - 1)]
  BY ContentsAre
<1>8. /\ Contents(q) \in Seq(E \cup {NoEvent}) /\ Len(Contents(q)) = NumEvents - q.free
      /\ \A i \in 1..NumEvents - q.free : Contents(q)[i] = q.buf[Wrapped(q.curr + i - 1)]
  BY <1>5, ContentsAre
<1>9. Contents(r) # <<>> /\ current(r) = Contents(r)[1]
  BY <1>1, <1>7 DEF current, Wrapped
<1>10. /\ Tail(Contents(r)) \in Seq(E \cup {NoEvent})
       /\ Len(Tail(Contents(r))) = NumEvents - r.free - 1
       /\ \A i \in 1..NumEvents - r.free - 1 : Tail(Contents(r))[i] = Contents(r)[i + 1]
  BY <1>1, <1>7, <1>9, HeadTailProperties
<1>11. ASSUME NEW i \in 1..NumEvents - r.free - 1
       PROVE  Contents(q)[i] = Contents(r)[i + 1]
  <2>1. Wrapped(q.curr + i - 1) = Wrapped(r.curr + (i + 1) - 1)
    BY <1>1, <1>4 DEF Wrapped
  <2>2. Wrapped(r.curr + (i + 1) - 1) \in Slot /\ Wrapped(r.curr + (i + 1) - 1) # r.curr
    BY <1>1 DEF Wrapped, Slot
  <2>3. q.buf[Wrapped(q.curr + i - 1)] = r.buf[Wrapped(r.curr + (i + 1) - 1)]
    BY <1>1, <1>4, <2>1, <2>2
  <2>4. Contents(q)[i] = q.buf[Wrapped(q.curr + i - 1)]
    BY <1>1, <1>4, <1>8
  <2>5. Contents(r)[i + 1] = r.buf[Wrapped(r.curr + (i + 1) - 1)]
    BY <1>1, <1>7
  <2> QED BY <2>3, <2>4, <2>5
<1>12. Contents(q) = Tail(Contents(r))
  BY <1>1, <1>4, <1>8, <1>10, <1>11, SeqEqual
<1> QED BY <1>5, <1>6, <1>9, <1>12 DEF q

\* Filling a ring that is empty, from the head round to where it began.
LEMMA FillIs ==
  ASSUME NEW E, NEW r \in RingOf(E), HeadIsEnd(r), MustFill(r),
         NEW evs \in Seq(E), Len(evs) <= NumEvents
  PROVE  /\ fill(r, evs) \in RingOf(E) /\ HeadIsEnd(fill(r, evs))
         /\ fill(r, evs).free = NumEvents - Len(evs)
         /\ Contents(fill(r, evs)) = evs
<1> USE NumEventsAssumption
<1>1. /\ r.free = NumEvents /\ r.curr \in 0..NumEvents-1 /\ NumEvents \in Nat /\ Len(evs) \in 0..NumEvents
      /\ r.buf \in [Slot -> E \cup {NoEvent}] /\ r.head = r.curr
  BY DEF RingOf, MustFill, Slot, HeadIsEnd, Wrapped
<1> DEFINE q == fill(r, evs)
           n == Len(evs)
<1>2. \A i \in 1..n : Target(r, i) = Wrapped(r.curr + i - 1)
  BY <1>1 DEF Target, numFirst, Wrapped
<1>3. \A i, j \in 1..n : Target(r, i) = Target(r, j) => i = j
  BY <1>1, <1>2 DEF Wrapped
<1>4. \A i \in 1..n : Target(r, i) \in Slot
  BY <1>1, <1>2 DEF Wrapped, Slot
<1>5. /\ q.head = Wrapped(r.head + n) /\ q.curr = r.curr /\ q.free = r.free - n
      /\ q.buf = [k \in Slot |->
               IF \E i \in 1..n : Target(r, i) = k
               THEN evs[CHOOSE i \in 1..n : Target(r, i) = k]
               ELSE r.buf[k]]
  BY DEF fill
<1>6. ASSUME NEW i \in 1..n PROVE q.buf[Target(r, i)] = evs[i]
  <2>1. (CHOOSE j \in 1..n : Target(r, j) = Target(r, i)) = i
    BY <1>3
  <2> QED BY <1>4, <1>5, <2>1
<1>7. q.buf \in [Slot -> E \cup {NoEvent}]
  <2>1. ASSUME NEW k \in Slot PROVE q.buf[k] \in E \cup {NoEvent}
    <3>1. CASE \E i \in 1..n : Target(r, i) = k
      <4>1. PICK i \in 1..n : Target(r, i) = k
        BY <3>1
      <4>2. evs[i] \in E
        BY ElementOfSeq
      <4> QED BY <1>6, <4>1, <4>2
    <3>2. CASE ~\E i \in 1..n : Target(r, i) = k
      BY <1>1, <1>5, <3>2
    <3> QED BY <3>1, <3>2
  <2>2. q.buf = [k \in Slot |-> q.buf[k]]
    BY <1>5
  <2> QED BY <2>1, <2>2
<1>8. q \in RingOf(E)
  <2>1. q.head \in Slot /\ q.curr \in Slot /\ q.free \in 0..NumEvents
    BY <1>1, <1>5 DEF Wrapped, Slot
  <2>2. q = [buf |-> q.buf, head |-> q.head, curr |-> q.curr, free |-> q.free]
    BY DEF fill
  <2> HIDE DEF q
  <2> QED BY <1>7, <2>1, <2>2 DEF RingOf
<1> HIDE DEF q, n
<1>9. HeadIsEnd(q)
  BY <1>1, <1>5 DEF HeadIsEnd, n
<1>10. /\ Contents(q) \in Seq(E \cup {NoEvent}) /\ Len(Contents(q)) = NumEvents - q.free
       /\ \A i \in 1..NumEvents - q.free : Contents(q)[i] = q.buf[Wrapped(q.curr + i - 1)]
  BY <1>8, ContentsAre
<1>11. NumEvents - q.free = n
  BY <1>1, <1>5 DEF n
<1>12. ASSUME NEW i \in 1..n PROVE Contents(q)[i] = evs[i]
  <2>1. Contents(q)[i] = q.buf[Wrapped(q.curr + i - 1)]
    BY <1>10, <1>11
  <2>2. Wrapped(q.curr + i - 1) = Target(r, i)
    BY <1>2, <1>5
  <2> QED BY <1>6, <2>1, <2>2
<1>13. evs \in Seq(E \cup {NoEvent})
  BY SeqMonotonic
<1>14. Contents(q) = evs
  BY <1>10, <1>11, <1>12, <1>13, SeqEqual DEF n
<1> QED BY <1>1, <1>5, <1>8, <1>9, <1>14 DEF q, n

-----------------------------------------------------------------------------
(* What a driver holds. *)

LEMMA TailOfConcat ==
  ASSUME NEW S, NEW a \in Seq(S), NEW b \in Seq(S), a # <<>>
  PROVE  a \o b # <<>> /\ Head(a \o b) = a[1] /\ Tail(a \o b) = Tail(a) \o b
<1>1. /\ a \o b \in Seq(S) /\ Len(a \o b) = Len(a) + Len(b) /\ Len(a) \in Nat \ {0} /\ Len(b) \in Nat
      /\ \A i \in 1..Len(a) + Len(b) : (a \o b)[i] = IF i <= Len(a) THEN a[i] ELSE b[i - Len(a)]
  BY ConcatProperties, EmptySeq
<1>2. a \o b # <<>> /\ Head(a \o b) = a[1]
  BY <1>1
<1>3. /\ Tail(a) \in Seq(S) /\ Len(Tail(a)) = Len(a) - 1
      /\ \A i \in 1..Len(a) - 1 : Tail(a)[i] = a[i + 1]
  BY HeadTailProperties
<1>4. /\ Tail(a \o b) \in Seq(S) /\ Len(Tail(a \o b)) = Len(a) + Len(b) - 1
      /\ \A i \in 1..Len(a) + Len(b) - 1 : Tail(a \o b)[i] = (a \o b)[i + 1]
  BY <1>1, <1>2, HeadTailProperties
<1>5. /\ Tail(a) \o b \in Seq(S) /\ Len(Tail(a) \o b) = Len(a) - 1 + Len(b)
      /\ \A i \in 1..Len(a) - 1 + Len(b) :
           (Tail(a) \o b)[i] = IF i <= Len(a) - 1 THEN Tail(a)[i] ELSE b[i - (Len(a) - 1)]
  BY <1>3, ConcatProperties
<1>6. ASSUME NEW i \in 1..Len(a) + Len(b) - 1 PROVE Tail(a \o b)[i] = (Tail(a) \o b)[i]
  BY <1>1, <1>3, <1>4, <1>5
<1>7. Tail(a \o b) = Tail(a) \o b
  BY <1>1, <1>4, <1>5, <1>6, SeqEqual
<1> QED BY <1>2, <1>7

\* One turn of readEvents takes the oldest event that the driver holds,
\* whether it was in the ring or had to be read from the device.
LEMMA ReadTakesHead ==
  ASSUME NEW s \in Sensors, ring[s] \in RingOf(Event), HeadIsEnd(ring[s]), kernel[s] \in Seq(Event),
         HasEvent(s),
         NEW k, k = IF MustFill(ring[s]) THEN SubSeq(kernel[s], Len(Fetched(s)) + 1, Len(kernel[s]))
                    ELSE kernel[s]
  PROVE  /\ next(RingRead(s)) \in RingOf(Event) /\ HeadIsEnd(next(RingRead(s))) /\ k \in Seq(Event)
         /\ Held(s) # <<>> /\ current(RingRead(s)) = Head(Held(s))
         /\ Contents(next(RingRead(s))) \o k = Tail(Held(s))
<1> DEFINE S == Event \cup {NoEvent}
           r == ring[s]
<1>0. /\ kernel[s] \in Seq(S) /\ Contents(r) \in Seq(S) /\ Len(Contents(r)) = NumEvents - r.free
      /\ NumEvents \in Nat \ {0} /\ r.free \in 0..NumEvents
  BY SeqMonotonic, ContentsAre, NumEventsAssumption DEF RingOf
<1>1. CASE ~MustFill(r)
  <2>1. RingRead(s) = r /\ k = kernel[s]
    BY <1>1 DEF RingRead
  <2>2. /\ next(r) \in RingOf(Event) /\ HeadIsEnd(next(r))
        /\ Contents(r) # <<>> /\ current(r) = Contents(r)[1]
        /\ Contents(next(r)) = Tail(Contents(r))
    BY <1>1, NextIs
  <2>3. /\ Held(s) # <<>> /\ Head(Held(s)) = Contents(r)[1]
        /\ Tail(Held(s)) = Tail(Contents(r)) \o kernel[s]
    BY <1>0, <2>2, TailOfConcat DEF Held
  <2> QED BY <2>1, <2>2, <2>3
<1>2. CASE MustFill(r)
  <2> DEFINE m == IF Len(kernel[s]) < r.free THEN Len(kernel[s]) ELSE r.free
             evs == Fetched(s)
             f == RingRead(s)
  <2>1. kernel[s] # <<>> /\ Len(kernel[s]) \in Nat \ {0}
    BY <1>2, EmptySeq DEF HasEvent
  <2>2. m \in 1..Len(kernel[s]) /\ m <= NumEvents /\ r.free = NumEvents
    BY <1>0, <1>2, <2>1 DEF MustFill
  <2>3. evs = SubSeq(kernel[s], 1, m)
    BY DEF Fetched
  <2> HIDE DEF m, evs
  <2>4. evs \in Seq(Event) /\ Len(evs) = m
    <3>1. \A i \in 1..m : kernel[s][i] \in Event
      BY <2>2, ElementOfSeq
    <3> QED BY <2>2, <2>3, <3>1, SubSeqProperties
  <2>5. k = SubSeq(kernel[s], m + 1, Len(kernel[s])) /\ k \in Seq(Event)
    <3>1. k = SubSeq(kernel[s], m + 1, Len(kernel[s]))
      BY <1>2, <2>4 DEF evs
    <3>2. \A i \in m + 1..Len(kernel[s]) : kernel[s][i] \in Event
      BY <2>1, <2>2, ElementOfSeq
    <3> QED BY <2>1, <2>2, <3>1, <3>2, SubSeqProperties
  <2>6. evs \o k = kernel[s]
    BY <2>1, <2>2, <2>3, <2>5, ConcatAdjacentSubSeq, SubSeqFull
  <2>7. f = fill(r, evs)
    BY <1>2 DEF RingRead, evs
  <2>8. f \in RingOf(Event) /\ HeadIsEnd(f) /\ f.free = NumEvents - m /\ Contents(f) = evs
    BY <1>2, <2>2, <2>4, <2>7, FillIs
  <2>9. ~MustFill(f)
    BY <1>0, <2>2, <2>8 DEF MustFill
  <2> HIDE DEF f
  <2>10. /\ next(f) \in RingOf(Event) /\ HeadIsEnd(next(f))
         /\ Contents(f) # <<>> /\ current(f) = Contents(f)[1]
         /\ Contents(next(f)) = Tail(Contents(f))
    BY <2>8, <2>9, NextIs
  <2>11. Held(s) = kernel[s]
    <3>1. Contents(r) = <<>>
      BY <1>0, <2>2, EmptySeq
    <3> QED BY <1>0, <3>1, ConcatEmptySeq DEF Held
  <2>12. /\ evs \o k # <<>> /\ Head(evs \o k) = evs[1] /\ Tail(evs \o k) = Tail(evs) \o k
    BY <2>4, <2>5, <2>8, <2>10, TailOfConcat
  <2> QED BY <2>5, <2>6, <2>8, <2>10, <2>11, <2>12 DEF f
<1> QED BY <1>1, <1>2

LEMMA AppendedReport ==
  ASSUME NEW S, NEW q \in Seq(S), NEW v \in S, Other \in S, v # Other
  PROVE  /\ q \o <<v, Other>> \in Seq(S) /\ HasValue(q \o <<v, Other>>)
         /\ \A i \in 1..Len(q \o <<v, Other>>) :
              IsLastValue(q \o <<v, Other>>, i) => (q \o <<v, Other>>)[i] = v
<1> DEFINE t == <<v, Other>>
           p == q \o t
<1>1. t \in Seq(S) /\ Len(t) = 2 /\ t[1] = v /\ t[2] = Other
  OBVIOUS
<1> HIDE DEF t
<1>2. /\ p \in Seq(S) /\ Len(p) = Len(q) + 2 /\ Len(q) \in Nat
      /\ \A i \in 1..Len(q) + 2 : p[i] = IF i <= Len(q) THEN q[i] ELSE t[i - Len(q)]
  <2>1. /\ q \o t \in Seq(S) /\ Len(q \o t) = Len(q) + Len(t)
        /\ \A i \in 1..Len(q) + Len(t) : (q \o t)[i] = IF i <= Len(q) THEN q[i] ELSE t[i - Len(q)]
    BY <1>1, ConcatProperties
  <2> QED BY <1>1, <2>1
<1> HIDE DEF p
<1>3. p[Len(q) + 1] = v /\ p[Len(q) + 2] = Other
  BY <1>1, <1>2
<1>4. IsValue(p, Len(q) + 1)
  BY <1>2, <1>3 DEF IsValue
<1>5. ASSUME NEW i \in 1..Len(p), IsLastValue(p, i) PROVE p[i] = v
  BY <1>2, <1>3, <1>4, <1>5 DEF IsLastValue, IsValue
<1> QED BY <1>2, <1>4, <1>5 DEF HasValue, p, t

LEMMA TailValues ==
  ASSUME NEW S, NEW q \in Seq(S), q # <<>>
  PROVE  /\ Tail(q) \in Seq(S) /\ Head(q) \in S
         /\ \A i \in 1..Len(Tail(q)) : IsLastValue(Tail(q), i) =>
              i + 1 \in 1..Len(q) /\ IsLastValue(q, i + 1) /\ q[i + 1] = Tail(q)[i]
         /\ Head(q) # Other /\ ~HasValue(Tail(q)) => 1 \in 1..Len(q) /\ IsLastValue(q, 1) /\ q[1] = Head(q)
         /\ Head(q) = Other /\ HasValue(q) => HasValue(Tail(q))
<1>1. /\ Tail(q) \in Seq(S) /\ Head(q) \in S /\ Head(q) = q[1] /\ Len(q) \in Nat \ {0}
      /\ Len(Tail(q)) = Len(q) - 1
      /\ \A i \in 1..Len(q) - 1 : Tail(q)[i] = q[i + 1]
  BY HeadTailProperties, EmptySeq
<1> DEFINE t == Tail(q)
<1> HIDE DEF t
<1>2. ASSUME NEW j \in 1..Len(q), j # 1 PROVE j - 1 \in 1..Len(t) /\ t[j - 1] = q[j]
  BY <1>1, <1>2 DEF t
<1>3. \A j \in 1..Len(q) : j # 1 /\ IsValue(q, j) => IsValue(t, j - 1)
  BY <1>2 DEF IsValue
<1>4. ASSUME NEW i \in 1..Len(t), IsLastValue(t, i)
      PROVE  i + 1 \in 1..Len(q) /\ IsLastValue(q, i + 1) /\ q[i + 1] = t[i]
  <2>1. i + 1 \in 1..Len(q) /\ q[i + 1] = t[i]
    BY <1>1 DEF t
  <2>2. IsValue(q, i + 1)
    BY <1>4, <2>1 DEF IsLastValue, IsValue
  <2>3. ASSUME NEW j \in 1..Len(q), IsValue(q, j), j # 1 PROVE j <= i + 1
    <3>1. IsValue(t, j - 1) /\ j - 1 \in 1..Len(t)
      BY <1>2, <1>3, <2>3
    <3>2. j - 1 <= i
      BY <1>4, <3>1 DEF IsLastValue
    <3> QED BY <3>2
  <2>4. \A j \in 1..Len(q) : IsValue(q, j) => j <= i + 1
    BY <2>3
  <2> QED BY <2>1, <2>2, <2>4 DEF IsLastValue
<1>5. ASSUME Head(q) # Other, ~HasValue(t) PROVE 1 \in 1..Len(q) /\ IsLastValue(q, 1) /\ q[1] = Head(q)
  <2>1. IsValue(q, 1) /\ 1 \in 1..Len(q)
    BY <1>1, <1>5 DEF IsValue
  <2>2. \A j \in 1..Len(q) : IsValue(q, j) => j = 1
    BY <1>2, <1>3, <1>5 DEF HasValue
  <2> QED BY <1>1, <2>1, <2>2 DEF IsLastValue
<1>6. ASSUME Head(q) = Other, HasValue(q) PROVE HasValue(t)
  <2>1. PICK j \in 1..Len(q) : IsValue(q, j)
    BY <1>6 DEF HasValue
  <2>2. j # 1
    BY <1>1, <1>6, <2>1 DEF IsValue
  <2> QED BY <1>2, <1>3, <2>1, <2>2 DEF HasValue
<1> QED BY <1>1, <1>4, <1>5, <1>6 DEF t

LEMMA SameHeld ==
  ASSUME UNCHANGED <<ring, kernel>>, NEW s \in Sensors
  PROVE  /\ Held(s)' = Held(s) /\ (Holds(s)' <=> Holds(s))
         /\ now'[s] = now[s] => (Latest(s)' <=> Latest(s))
  BY DEF Held, Holds, Latest

LEMMA ReportHeld ==
  ASSUME TypeOK, HeldIsRead, NEW s \in Sensors, Report(s)
  PROVE  /\ kernel' \in [Sensors -> Seq(Event)] /\ kernel'[s] # <<>> /\ Holds(s)'
         /\ \E v \in Event : Held(s)' = Held(s) \o <<v, Other>>
         /\ \A u \in Sensors : u # s => Held(u)' = Held(u)
         /\ \A u \in Sensors : Latest(u)'
         /\ \A u \in Sensors : Holds(u) => Holds(u)'
         /\ \A u \in Sensors : u # s => (Holds(u)' <=> Holds(u)) /\ kernel'[u] = kernel[u]
         /\ \A u \in Sensors : kernel[u] # <<>> => kernel'[u] # <<>>
<1> DEFINE S == Event \cup {NoEvent}
<1>1. PICK v \in Reading(s) \ {now[s]} :
        /\ now' = [now EXCEPT ![s] = v]
        /\ kernel' = [kernel EXCEPT ![s] = @ \o <<v, Other>>]
  BY DEF Report
<1> DEFINE t == <<v, Other>>
<1>2. v \in Event /\ v # Other /\ Other \in Event
  <2>1. v \in Value \/ v = -1
    BY DEF Reading
  <2>2. \A w \in Value : w \in Nat
    BY SensorsAssumption DEF SensorsAssumption
  <2> QED BY <2>1, <2>2 DEF Event, Other
<1>3. /\ t \in Seq(Event) /\ t \in Seq(S) /\ t # <<>>
      /\ kernel[s] \in Seq(Event) /\ kernel[s] \in Seq(S) /\ Contents(ring[s]) \in Seq(S)
  <2>1. t \in Seq(Event) /\ t # <<>>
    BY <1>2
  <2>2. ring[s] \in RingOf(Event) /\ kernel[s] \in Seq(Event)
    BY DEF TypeOK
  <2> QED BY <2>1, <2>2, ContentsAre, SeqMonotonic
<1> HIDE DEF t
<1>4. kernel' = [kernel EXCEPT ![s] = kernel[s] \o t] /\ ring' = ring
  BY <1>1 DEF t, Report, driver
<1>5. kernel[s] \o t \in Seq(Event) /\ kernel[s] \o t # <<>>
  BY <1>3, ConcatProperties, EmptySeq
<1>6. kernel' \in [Sensors -> Seq(Event)] /\ kernel'[s] = kernel[s] \o t
  BY <1>4, <1>5 DEF TypeOK
<1>7. Held(s)' = Held(s) \o t
  BY <1>3, <1>4, <1>6, ConcatAssociative DEF Held
<1>8. Held(s) \in Seq(Reading(s) \cup {Other})
  BY DEF HeldIsRead, Latest
<1>9. /\ Held(s) \o t \in Seq(Reading(s) \cup {Other}) /\ HasValue(Held(s) \o t)
      /\ \A i \in 1..Len(Held(s) \o t) : IsLastValue(Held(s) \o t, i) => (Held(s) \o t)[i] = v
  BY <1>2, <1>8, AppendedReport DEF t
<1>10. now'[s] = v
  BY <1>1 DEF TypeOK
<1>11. Holds(s)' /\ Latest(s)'
  BY <1>7, <1>9, <1>10 DEF Holds, Latest
<1>12. ASSUME NEW u \in Sensors, u # s
       PROVE  Held(u)' = Held(u) /\ (Holds(u)' <=> Holds(u)) /\ kernel'[u] = kernel[u] /\ Latest(u)'
  <2>1. kernel'[u] = kernel[u] /\ now'[u] = now[u] /\ Held(u)' = Held(u)
    BY <1>1, <1>4, <1>12 DEF Held, TypeOK
  <2> QED BY <2>1 DEF Holds, HeldIsRead, Latest
<1>13. \E w \in Event : Held(s)' = Held(s) \o <<w, Other>>
  BY <1>2, <1>7 DEF t
<1> QED BY <1>5, <1>6, <1>11, <1>12, <1>13

LEMMA ReadOneHeld ==
  ASSUME TypeOK, HeldIsRead, ReadOne, NEW s \in Sensors, s = here,
         NEW e, e = current(RingRead(s))
  PROVE  /\ event' = [event EXCEPT ![s] = e] /\ e \in Reading(s) \cup {Other}
         /\ ring' \in [Sensors -> RingOf(Event)] /\ kernel' \in [Sensors -> Seq(Event)]
         /\ \A u \in Sensors : HeadIsEnd(ring'[u]) /\ Latest(u)'
         /\ e # Other /\ ~Holds(s)' => e = now[s]
         /\ e = Other /\ ~Holds(s)' => ~Holds(s)
         /\ Held(s) # <<>> /\ e = Head(Held(s)) /\ Held(s)' = Tail(Held(s))
         /\ \A u \in Sensors : u # s =>
              (Holds(u)' <=> Holds(u)) /\ kernel'[u] = kernel[u] /\ Held(u)' = Held(u)
<1>1. /\ event' = [event EXCEPT ![s] = e] /\ ring' = [ring EXCEPT ![s] = next(RingRead(s))]
      /\ kernel' = IF MustFill(ring[s])
                   THEN [kernel EXCEPT ![s] = SubSeq(@, Len(Fetched(s)) + 1, Len(@))]
                   ELSE kernel
      /\ now' = now /\ HasEvent(s)
  BY Zenon DEF ReadOne
<1>2. /\ ring \in [Sensors -> RingOf(Event)] /\ \A u \in Sensors : HeadIsEnd(ring[u])
      /\ kernel \in [Sensors -> Seq(Event)]
  BY DEF TypeOK
<1> DEFINE k == IF MustFill(ring[s]) THEN SubSeq(kernel[s], Len(Fetched(s)) + 1, Len(kernel[s]))
                ELSE kernel[s]
<1>3. kernel' = [kernel EXCEPT ![s] = k]
  <2>1. CASE MustFill(ring[s])
    BY <1>1, <2>1
  <2>2. CASE ~MustFill(ring[s])
    BY <1>1, <1>2, <2>2
  <2> QED BY <2>1, <2>2
<1>4. /\ next(RingRead(s)) \in RingOf(Event) /\ HeadIsEnd(next(RingRead(s))) /\ k \in Seq(Event)
      /\ Held(s) # <<>> /\ current(RingRead(s)) = Head(Held(s))
      /\ Contents(next(RingRead(s))) \o k = Tail(Held(s))
  <2>1. ring[s] \in RingOf(Event) /\ HeadIsEnd(ring[s]) /\ kernel[s] \in Seq(Event)
    BY <1>2
  <2> QED BY <1>1, <2>1, ReadTakesHead
<1> HIDE DEF k
<1>5. /\ ring'[s] = next(RingRead(s)) /\ kernel'[s] = k
      /\ \A u \in Sensors : u # s => ring'[u] = ring[u] /\ kernel'[u] = kernel[u]
      /\ ring' \in [Sensors -> RingOf(Event)] /\ kernel' \in [Sensors -> Seq(Event)]
  BY <1>1, <1>2, <1>3, <1>4
<1>6. Held(s)' = Tail(Held(s)) /\ \A u \in Sensors : u # s => Held(u)' = Held(u)
  BY <1>4, <1>5 DEF Held
<1>7. /\ now[s] \in Reading(s) /\ Held(s) \in Seq(Reading(s) \cup {Other})
      /\ \A i \in 1..Len(Held(s)) : IsLastValue(Held(s), i) => Held(s)[i] = now[s]
  BY DEF HeldIsRead, Latest
<1> DEFINE q == Held(s)
           t == Tail(Held(s))
<1> HIDE DEF q, t
<1>8. /\ t \in Seq(Reading(s) \cup {Other}) /\ Head(q) \in Reading(s) \cup {Other}
      /\ \A i \in 1..Len(t) : IsLastValue(t, i) =>
           i + 1 \in 1..Len(q) /\ IsLastValue(q, i + 1) /\ q[i + 1] = t[i]
      /\ Head(q) # Other /\ ~HasValue(t) => 1 \in 1..Len(q) /\ IsLastValue(q, 1) /\ q[1] = Head(q)
      /\ Head(q) = Other /\ HasValue(q) => HasValue(t)
  BY <1>4, <1>7, TailValues DEF q, t
<1>9. Latest(s)'
  <2>1. \A i \in 1..Len(t) : IsLastValue(t, i) => t[i] = now[s]
    BY <1>7, <1>8 DEF q
  <2> QED BY <1>1, <1>6, <1>7, <1>8, <2>1 DEF Latest, t
<1>10. e # Other /\ ~HasValue(t) => e = now[s]
  BY <1>4, <1>7, <1>8 DEF q
<1>11. (Holds(s)' <=> HasValue(t)) /\ (Holds(s) <=> HasValue(q))
  BY <1>6 DEF Holds, q, t
<1>12. ASSUME NEW u \in Sensors, u # s PROVE (Holds(u)' <=> Holds(u)) /\ Latest(u)'
  <2>1. Held(u)' = Held(u) /\ now'[u] = now[u]
    BY <1>1, <1>6, <1>12
  <2> QED BY <2>1 DEF Holds, HeldIsRead, Latest
<1>13. \A u \in Sensors : HeadIsEnd(ring'[u])
  BY <1>2, <1>4, <1>5
<1>14. e = Head(q) /\ e \in Reading(s) \cup {Other}
  BY <1>4, <1>8 DEF q
<1> QED BY <1>1, <1>4, <1>5, <1>6, <1>8, <1>9, <1>10, <1>11, <1>12, <1>13, <1>14

\* When the ring is empty and so is the device's queue, nothing is held.
LEMMA NothingHeld ==
  ASSUME TypeOK, NEW s \in Sensors, ~HasEvent(s)
  PROVE  ~Holds(s) /\ Held(s) = <<>>
<1>1. ring[s] \in RingOf(Event) /\ kernel[s] = <<>> /\ MustFill(ring[s])
  BY DEF TypeOK, HasEvent
<1>2. Len(Contents(ring[s])) = 0 /\ Contents(ring[s]) \in Seq(Event \cup {NoEvent})
  <2>1. ring[s].free \in 0..NumEvents /\ NumEvents \in Nat
    BY <1>1, NumEventsAssumption DEF RingOf
  <2>2. NumEvents - ring[s].free = 0
    BY <1>1, <2>1 DEF MustFill
  <2> QED BY <1>1, <2>2, ContentsAre
<1>3. Contents(ring[s]) = <<>>
  BY <1>2, EmptySeq
<1>4. Held(s) = <<>>
  BY <1>1, <1>2, <1>3, ConcatEmptySeq DEF Held
<1> QED BY <1>4 DEF Holds, HasValue

-----------------------------------------------------------------------------
(* The ring and the device's queue implement the queue of Fifo. *)

HeldByAll == [s \in Sensors |-> Held(s)]

LEMMA LongerByReport ==
  ASSUME NEW S, NEW q \in Seq(S), NEW v \in S, NEW w \in S
  PROVE  /\ q \o <<v, w>> \in Seq(S) /\ Len(q \o <<v, w>>) > Len(q)
         /\ SubSeq(q \o <<v, w>>, 1, Len(q)) = q
<1> DEFINE t == <<v, w>>
           p == q \o t
<1>1. t \in Seq(S) /\ Len(t) = 2 /\ Len(q) \in Nat
  OBVIOUS
<1> HIDE DEF t
<1>2. /\ p \in Seq(S) /\ Len(p) = Len(q) + Len(t)
      /\ \A i \in 1..Len(q) + Len(t) : p[i] = IF i <= Len(q) THEN q[i] ELSE t[i - Len(q)]
  BY <1>1, ConcatProperties
<1> HIDE DEF p
<1>3. \A i \in 1..Len(q) : p[i] = q[i] /\ p[i] \in S
  BY <1>1, <1>2, ElementOfSeq
<1>4. /\ SubSeq(p, 1, Len(q)) \in Seq(S) /\ Len(SubSeq(p, 1, Len(q))) = Len(q)
      /\ \A i \in 1..Len(q) : SubSeq(p, 1, Len(q))[i] = p[i]
  BY <1>1, <1>3, SubSeqProperties
<1>5. SubSeq(p, 1, Len(q)) = q
  BY <1>3, <1>4, SeqEqual
<1> QED BY <1>1, <1>2, <1>5 DEF p, t

\* A report is one Put.
LEMMA ReportPuts ==
  ASSUME TypeOK, HeldIsRead, NEW s \in Sensors, Report(s)
  PROVE  Queues!Put(s)
<1>1. PICK v \in Event : Held(s)' = Held(s) \o <<v, Other>>
  BY ReportHeld
<1>2. \A u \in Sensors : u # s => Held(u)' = Held(u)
  BY ReportHeld
<1>3. Held(s) \in Seq(Event) /\ Other \in Event
  <2>1. Held(s) \in Seq(Reading(s) \cup {Other}) /\ Reading(s) \cup {Other} \subseteq Event
    BY DEF HeldIsRead, Latest, Reading, Event
  <2> QED BY <2>1, SeqMonotonic
<1>4. /\ Held(s)' \in Seq(Event) /\ Len(Held(s)') > Len(Held(s))
      /\ SubSeq(Held(s)', 1, Len(Held(s))) = Held(s)
  BY <1>1, <1>3, LongerByReport
<1>5. HeldByAll'[s] = Held(s)' /\ HeldByAll[s] = Held(s)
  BY DEF HeldByAll
<1>6. HeldByAll' = [HeldByAll EXCEPT ![s] = HeldByAll'[s]]
  BY <1>2 DEF HeldByAll
<1>7. event' = event
  BY DEF Report, driver
<1> QED BY <1>4, <1>5, <1>6, <1>7 DEF Queues!Put, HeldByAll, Held

\* One turn of readEvents' loop is one Take.
LEMMA ReadOneTakes ==
  ASSUME TypeOK, HeldIsRead, ReadOne, here \in Sensors
  PROVE  \E s \in Sensors : Queues!Take(s)
<1> PICK s \in Sensors : s = here
  OBVIOUS
<1> PICK e : e = current(RingRead(s))
  OBVIOUS
<1>1. /\ Held(s) # <<>> /\ e = Head(Held(s)) /\ Held(s)' = Tail(Held(s))
      /\ event' = [event EXCEPT ![s] = e]
      /\ \A u \in Sensors : u # s => Held(u)' = Held(u)
  BY ReadOneHeld
<1>2. HeldByAll[s] = Held(s) /\ HeldByAll' = [HeldByAll EXCEPT ![s] = Tail(@)]
  BY <1>1 DEF HeldByAll
<1>3. HeldByAll[s] # <<>> /\ event' = [event EXCEPT ![s] = Head(HeldByAll[s])]
  BY <1>1, <1>2
<1>4. Queues!Take(s)
  BY <1>2, <1>3 DEF Queues!Take, HeldByAll, Held
<1> QED BY <1>4

-----------------------------------------------------------------------------
(* Where the poll thread may be, and where it may go next. *)

PollerAt == [at : {"idle", "scan", "read", "poll"}, i : 1..Len(Drivers) + 1, count : Nat, asked : Nat]

LEMMA MovesOn ==
  ASSUME NEW p \in PollerAt, p.i <= Len(Drivers), NEW at \in {"idle", "scan", "read", "poll"},
         NEW room \in Nat
  PROVE  /\ [p EXCEPT !.i = @ + 1] \in PollerAt
         /\ [p EXCEPT !.at = at, !.i = @ + 1, !.count = room] \in PollerAt
<1>1. p.i + 1 \in 1..Len(Drivers) + 1
  BY DriversAre DEF PollerAt
<1> DEFINE Where == {"idle", "scan", "read", "poll"}
           Index == 1..Len(Drivers) + 1
           j == p.i + 1
<1>2. p \in [at : Where, i : Index, count : Nat, asked : Nat] /\ j \in Index /\ at \in Where
  BY <1>1 DEF PollerAt
<1> HIDE DEF Where, Index, j
<1>3. /\ [p EXCEPT !.i = j] \in [at : Where, i : Index, count : Nat, asked : Nat]
      /\ [p EXCEPT !.at = at, !.i = j, !.count = room] \in [at : Where, i : Index, count : Nat, asked : Nat]
  BY <1>2
<1> QED BY <1>3, Zenon DEF PollerAt, Where, Index, j

-----------------------------------------------------------------------------
(* The constants, as the steps below use them. *)

LEMMA ConstantsAre ==
  /\ PipeSize \in Nat \ {0} /\ MplEvents \in Nat /\ MaxReports \in Nat
  /\ \A n \in Counts : n \in Nat \ {0}
  /\ \A s \in Sensors : s \notin Mpl
  /\ \A v \in Value : v \in Nat /\ v # Other /\ v \in Event
  /\ \A s \in Sensors : \A v \in Reading(s) : v \in Value \cup {-1} /\ v \in Event
  /\ Reading("proximity") = Value
  /\ Other \in Event /\ -1 # Other
  BY SensorsAssumption DEF SensorsAssumption, Mpl, Other, Event, Reading

USE ConstantsAre, DriversAre
    DEF TypeOK, SensorsInv, SensorsIInv, ReaderHolds, EnablerHolds, OnIsEnabled, HeldIsRead,
        PendingIsNow, PassedIsRead, ToldOrHeld, Passed, Enabling, vars, driver, device, context, history,
        here, Mpl, hasPendingEvents

LEMMA InitHolds ==
  ASSUME Init
  PROVE  SensorsIInv
<1> USE DEF Init
<1>1. NewRing \in RingOf(Event) /\ HeadIsEnd(NewRing)
  BY NumEventsAssumption DEF NewRing, RingOf, Slot, HeadIsEnd, Wrapped
<1>2. TypeOK
  BY <1>1
<1>3. ASSUME NEW s \in Sensors PROVE Held(s) = <<>>
  <2>1. Held(s) = Contents(NewRing) \o <<>>
    BY DEF Held
  <2>2. Contents(NewRing) = <<>>
    BY NumEventsAssumption DEF Contents, NewRing
  <2> QED BY <2>1, <2>2
<1>4. \A s \in Sensors : now[s] \in Reading(s)
  BY DEF Reading
<1>5. ASSUME NEW s \in Sensors PROVE Latest(s)
  <2>1. Held(s) \in Seq(Reading(s) \cup {Other}) /\ Len(Held(s)) = 0
    BY <1>3, EmptySeq
  <2> QED BY <1>4, <2>1 DEF Latest
<1> QED BY <1>2, <1>5

LEMMA PollEventsKeeps ==
  ASSUME SensorsIInv, PollEvents
  PROVE  SensorsIInv'
<1> USE DEF PollEvents
<1>1. TypeOK'
  OBVIOUS
<1>2. \A s \in Sensors : Latest(s)' /\ (Holds(s)' <=> Holds(s))
  BY SameHeld
<1> QED BY <1>1, <1>2

LEMMA ScanSkipKeeps ==
  ASSUME SensorsIInv, ScanSkip
  PROVE  SensorsIInv'
<1> USE DEF ScanSkip, Scanning, Attended
<1>1. poller' \in PollerAt /\ poller'.i = poller.i + 1 /\ poller'.at = "scan" /\ poller'.count = poller.count
      /\ poller'.asked = poller.asked
  BY MovesOn DEF PollerAt
<1>2. TypeOK'
  BY <1>1 DEF PollerAt
<1>3. \A s \in Sensors : Latest(s)' /\ (Holds(s)' <=> Holds(s))
  BY SameHeld
<1>4. PassedIsRead'
  <2> SUFFICES ASSUME Passed', "proximity" \in Sensors
               PROVE  "proximity" \notin revents /\ ~pending["proximity"]
    OBVIOUS
  <2> QED BY <1>1
<1> QED BY <1>1, <1>2, <1>3, <1>4

LEMMA EnableEarlyKeeps ==
  ASSUME SensorsIInv, NEW r \in Sensors, NEW en \in BOOLEAN, EnableEarly(r, en)
  PROVE  SensorsIInv'
<1> USE DEF EnableEarly
<1>1. TypeOK'
  OBVIOUS
<1>2. \A s \in Sensors : Latest(s)' /\ (Holds(s)' <=> Holds(s))
  BY SameHeld
<1> QED BY <1>1, <1>2

LEMMA EnableWriteKeeps ==
  ASSUME SensorsIInv, NEW r \in Sensors, NEW en \in BOOLEAN, EnableWrite(r, en)
  PROVE  SensorsIInv'
<1> USE DEF EnableWrite
<1>1. TypeOK'
  OBVIOUS
<1>2. \A s \in Sensors : Latest(s)' /\ (Holds(s)' <=> Holds(s))
  BY SameHeld
<1>3. EnablerHolds' /\ ReaderHolds' /\ PassedIsRead'
  BY <1>1
<1>4. OnIsEnabled' /\ HeldIsRead' /\ PendingIsNow'
  BY <1>1, <1>2
<1>5. ToldOrHeld'
  BY <1>1, <1>2
<1> QED BY <1>1, <1>3, <1>4, <1>5

LEMMA WakeWriteKeeps ==
  ASSUME SensorsIInv, WakeWrite
  PROVE  SensorsIInv'
<1>1. wake' \in 0..PipeSize /\ wake' > 0 /\ UNCHANGED <<driver, device, revents, poller, history>>
  BY DEF WakeWrite
<1>2. control' = [control EXCEPT !.at = "idle"] /\ control.at = "waking"
  BY DEF WakeWrite
<1>3. TypeOK'
  BY <1>1, <1>2
<1>4. \A s \in Sensors : Latest(s)' /\ (Holds(s)' <=> Holds(s))
  BY <1>1, SameHeld
<1>5. EnablerHolds' /\ PassedIsRead' /\ ReaderHolds'
  BY <1>1, <1>2
<1>6. OnIsEnabled' /\ HeldIsRead' /\ PendingIsNow'
  BY <1>1, <1>4
<1>7. ToldOrHeld'
  BY <1>1, <1>2, <1>4
<1> QED BY <1>3, <1>5, <1>6, <1>7

LEMMA ReadBeginKeeps ==
  ASSUME SensorsIInv, ReadBegin
  PROVE  SensorsIInv'
<1> USE DEF ReadBegin, Scanning, Attended
<1>1. TypeOK'
  OBVIOUS
<1>2. \A s \in Sensors : Latest(s)' /\ (Holds(s)' <=> Holds(s))
  BY SameHeld
<1>3. poller'.at = "read" /\ poller'.i = poller.i
  OBVIOUS
<1>4. ReaderHolds' /\ PassedIsRead'
  BY <1>3
<1>5. EnablerHolds' /\ OnIsEnabled'
  OBVIOUS
<1>6. HeldIsRead' /\ PendingIsNow' /\ ToldOrHeld'
  BY <1>2
<1> QED BY <1>1, <1>4, <1>5, <1>6

LEMMA ScanEndKeeps ==
  ASSUME SensorsIInv, ScanEnd
  PROVE  SensorsIInv'
<1> USE DEF ScanEnd, Scanning
<1>1. TypeOK'
  OBVIOUS
<1>2. \A s \in Sensors : Latest(s)' /\ (Holds(s)' <=> Holds(s))
  BY SameHeld
<1>3. /\ poller'.at = IF poller.count > 0 THEN "poll" ELSE "idle"
      /\ poller'.i = poller.i /\ poller'.count = poller.count
  OBVIOUS
<1>4. PassedIsRead'
  BY <1>3
<1>5. ReaderHolds' /\ EnablerHolds' /\ OnIsEnabled'
  BY <1>3
<1>6. HeldIsRead' /\ PendingIsNow' /\ ToldOrHeld'
  BY <1>2
<1> QED BY <1>1, <1>4, <1>5, <1>6

LEMMA PollReturnsKeeps ==
  ASSUME SensorsIInv, NEW m \in SUBSET Mpl, NEW power \in BOOLEAN, poller.at = "poll", PollReturns(m, power)
  PROVE  SensorsIInv'
<1>1. /\ poller'.at \in {"scan", "idle"} /\ poller'.i = 1
      /\ poller' \in PollerAt /\ poller'.count <= poller'.asked
  <2>1. PICK w \in {"scan", "idle"} : poller' = [poller EXCEPT !.at = w, !.i = 1]
    BY Zenon DEF PollReturns
  <2>2. poller \in PollerAt /\ poller.count <= poller.asked
    BY DEF PollerAt
  <2>3. 1 \in 1..Len(Drivers) + 1
    OBVIOUS
  <2> QED BY <2>1, <2>2, <2>3 DEF PollerAt
<1>2. revents' = Readable \cup m /\ wake' \in 0..PipeSize
      /\ UNCHANGED <<driver, device, control, history>>
  BY DEF PollReturns
<1>3. TypeOK'
  BY <1>1, <1>2 DEF PollerAt, Readable
<1>4. \A s \in Sensors : Latest(s)' /\ (Holds(s)' <=> Holds(s))
  BY <1>2, SameHeld
<1>5. ReaderHolds' /\ PassedIsRead'
  BY <1>1
<1>6. EnablerHolds' /\ OnIsEnabled' /\ HeldIsRead' /\ PendingIsNow'
  BY <1>2, <1>4
<1>7. ToldOrHeld'
  BY <1>2, <1>4 DEF Readable
<1> QED BY <1>3, <1>5, <1>6, <1>7

LEMMA ReportKeeps ==
  ASSUME SensorsIInv, NEW r \in Sensors, Report(r)
  PROVE  SensorsIInv'
<1>1. /\ kernel' \in [Sensors -> Seq(Event)] /\ kernel'[r] # <<>> /\ Holds(r)'
      /\ \A u \in Sensors : Latest(u)'
      /\ \A u \in Sensors : Holds(u) => Holds(u)'
      /\ \A u \in Sensors : kernel[u] # <<>> => kernel'[u] # <<>>
  BY ReportHeld
<1>2. /\ UNCHANGED <<driver, on, context, poller, control, history>>
      /\ now' \in [Sensors -> Value \cup {-1}] /\ reports' \in [Sensors -> 0..MaxReports]
      /\ \A u \in Sensors : u # r => now'[u] = now[u]
  BY DEF Report
<1>3. TypeOK'
  BY <1>1, <1>2
<1>4. ReaderHolds' /\ EnablerHolds' /\ OnIsEnabled' /\ HeldIsRead' /\ PassedIsRead'
  BY <1>1, <1>2
<1>5. ASSUME NEW u \in Sensors, u # r
      PROVE  /\ now'[u] = now[u]
             /\ Holds(u) => Holds(u)'
             /\ kernel[u] # <<>> => kernel'[u] # <<>>
  BY <1>1, <1>2, <1>5
<1>6. PendingIsNow'
  BY <1>1, <1>2, <1>5
<1>7. ToldOrHeld'
  BY <1>1, <1>2, <1>5
<1> QED BY <1>3, <1>4, <1>6, <1>7

LEMMA EnableHandleKeeps ==
  ASSUME SensorsIInv, EnableHandle
  PROVE  SensorsIInv'
<1> DEFINE s == control.s
<1>1. PICK works \in {TRUE} \cup {~(s = "proximity" /\ control.en)} :
        /\ handleEnable(s, control.en, works)
        /\ control' = [control EXCEPT !.at = IF works THEN "waking" ELSE "idle"]
        /\ unread' = CASE ~works -> unread \cup {s}
                       [] works /\ control.en -> unread \ {s}
                       [] OTHER -> unread
  BY Zenon DEF EnableHandle
<1>2. /\ control.at = "enabling" /\ s \in Sensors /\ control.en \in BOOLEAN /\ works \in BOOLEAN
      /\ lock' = [lock EXCEPT ![s] = "free"]
      /\ UNCHANGED <<enabled, ring, event, device, context, poller, told>>
  BY DEF EnableHandle
<1>3. /\ ~works => unread' = unread \cup {s} /\ s = "proximity" /\ control.en
      /\ works /\ control.en => unread' = unread \ {s}
      /\ works /\ ~control.en => unread' = unread
  <2>1. CASE ~works
    <3>1. unread' = unread \cup {s}
      BY <1>1, <2>1, Zenon
    <3> QED BY <2>1, <3>1
  <2>2. CASE works /\ control.en
    <3>1. unread' = unread \ {s}
      BY <1>1, <2>2, Zenon
    <3> QED BY <2>2, <3>1
  <2>3. CASE works /\ ~control.en
    <3>1. unread' = unread
      BY <1>1, <2>3, Zenon
    <3> QED BY <2>3, <3>1
  <2> QED BY <1>2, <2>1, <2>2, <2>3
<1>4. /\ s = "proximity" /\ control.en /\ works =>
           pending' = [pending EXCEPT ![s] = TRUE] /\ distance' = [distance EXCEPT ![s] = now[s]]
      /\ ~(s = "proximity" /\ control.en /\ works) => UNCHANGED <<pending, distance>>
  BY <1>1, <1>2 DEF handleEnable
<1>5. \A u \in Sensors : Latest(u)' /\ (Holds(u)' <=> Holds(u)) /\ now[u] \in Reading(u)
  BY <1>2, SameHeld DEF Latest
<1>6. /\ control' \in [at : {"idle", "enabling", "waking"}, s : Sensors, en : BOOLEAN]
      /\ control'.at = IF works THEN "waking" ELSE "idle"
      /\ control'.s = s
  BY <1>1, <1>2
<1> HIDE DEF s
<1>7. TypeOK'
  <2>1. lock' \in [Sensors -> {"free", "poller", "control"}] /\ unread' \subseteq Sensors
    BY <1>2, <1>3
  <2>2. pending' \in [Sensors -> BOOLEAN] /\ distance' \in [Sensors -> Value \cup {-1, NoReading}]
    <3>1. CASE s = "proximity" /\ control.en /\ works
      <4>1. /\ pending' = [pending EXCEPT ![s] = TRUE]
            /\ distance' = [distance EXCEPT ![s] = now[s]]
        BY <1>4, <3>1
      <4>2. now[s] \in Value \cup {-1, NoReading}
        BY <1>2
      <4>3. pending' \in [Sensors -> BOOLEAN]
        BY <4>1
      <4> QED BY <4>1, <4>2, <4>3
    <3>2. CASE ~(s = "proximity" /\ control.en /\ works)
      BY <1>4, <3>2
    <3> QED BY <3>1, <3>2
  <2> QED BY <1>2, <1>6, <2>1, <2>2
<1>8. EnablerHolds' /\ OnIsEnabled' /\ HeldIsRead'
  BY <1>2, <1>5, <1>6
<1>9. ReaderHolds'
  BY <1>2, <1>4 DEF s
<1>10. PendingIsNow'
  BY <1>2, <1>4, <1>5
<1>11. PassedIsRead'
  BY <1>2, <1>3, <1>4, <1>6 DEF s
<1>12. ToldOrHeld'
  BY <1>2, <1>3, <1>4, <1>5, <1>6 DEF s
<1> QED BY <1>7, <1>8, <1>9, <1>10, <1>11, <1>12

LEMMA ReadMplKeeps ==
  ASSUME SensorsIInv, ReadMpl
  PROVE  SensorsIInv'
<1>1. PICK nb \in 0..MplEvents :
        /\ nb <= poller.count
        /\ poller' = [poller EXCEPT !.count = @ - nb, !.i = IF here = "mpl" THEN @ + 2 ELSE @ + 1]
        /\ revents' = revents \ ((IF nb < poller.count THEN {here} ELSE {})
                                   \cup (IF here = "mpl" THEN {"mpl_timer"} ELSE {}))
  BY Zenon DEF ReadMpl
<1>2. /\ poller.at = "scan" /\ poller.count > 0 /\ poller.i <= Len(Drivers) /\ here \in {"mpl", "mpl_timer"}
      /\ UNCHANGED <<driver, device, wake, control, history>> /\ poller \in PollerAt
  BY DEF ReadMpl, Scanning, PollerAt
<1>3. (here = "mpl" => poller.i = 1) /\ (here = "mpl_timer" => poller.i = 2)
  <2>1. "mpl" \notin Sensors /\ "mpl_timer" \notin Sensors
    OBVIOUS
  <2>2. poller.i \in 1..Len(Drivers)
    BY <1>2 DEF PollerAt
  <2> QED BY <2>1, <2>2
<1>4. revents' \subseteq revents /\ \A s \in Sensors : s \in revents' <=> s \in revents
  BY <1>1, <1>2
<1>5. /\ poller' \in PollerAt /\ poller'.at = "scan" /\ poller'.i = 3 /\ poller'.count <= poller'.asked
  <2> DEFINE room == poller.count - nb
             j == IF here = "mpl" THEN poller.i + 2 ELSE poller.i + 1
  <2>1. room \in Nat /\ room <= poller.count /\ j = 3 /\ 3 \in 1..Len(Drivers) + 1
    BY <1>1, <1>2, <1>3 DEF PollerAt
  <2>2. poller' = [poller EXCEPT !.count = room, !.i = j]
    BY <1>1
  <2> HIDE DEF room, j
  <2>3. poller'.at = "scan" /\ poller'.i = 3 /\ poller'.count = room /\ poller'.asked = poller.asked
    BY <1>2, <2>1, <2>2 DEF PollerAt
  <2>4. poller' \in PollerAt
    BY <1>2, <2>1, <2>2 DEF PollerAt
  <2> QED BY <1>2, <2>1, <2>3, <2>4 DEF PollerAt
<1>6. TypeOK'
  BY <1>2, <1>4, <1>5 DEF PollerAt
<1>7. \A s \in Sensors : Latest(s)' /\ (Holds(s)' <=> Holds(s))
  BY <1>2, SameHeld
<1>8. PassedIsRead'
  BY <1>5
<1>9. ReaderHolds' /\ EnablerHolds' /\ OnIsEnabled' /\ HeldIsRead' /\ PendingIsNow'
  BY <1>2, <1>5, <1>7
<1>10. ToldOrHeld'
  BY <1>2, <1>4, <1>7
<1> QED BY <1>6, <1>8, <1>9, <1>10

LEMMA ReadPendingKeeps ==
  ASSUME SensorsIInv, ReadPending
  PROVE  SensorsIInv'
<1> DEFINE s == here
           room == IF enabled[s] THEN poller.count - 1 ELSE poller.count
<1>1. /\ poller.at = "scan" /\ poller.count > 0 /\ poller.i <= Len(Drivers) /\ poller \in PollerAt
      /\ s = "proximity" /\ s \in Sensors /\ lock[s] = "free" /\ pending[s]
      /\ pending' = [pending EXCEPT ![s] = FALSE]
      /\ told' = IF enabled[s] THEN [told EXCEPT ![s] = distance[s]] ELSE told
      /\ UNCHANGED <<enabled, distance, ring, event, lock, device, wake, control, unread>>
  BY DEF ReadPending, Scanning, PollerAt
<1>2. room \in Nat /\ room <= poller.count
  BY <1>1 DEF PollerAt
<1>3. /\ revents' = IF room > 0 THEN revents \ {s} ELSE revents
      /\ poller' = [poller EXCEPT !.at = "scan", !.i = @ + 1, !.count = room]
  BY DEF ReadPending, Return
<1> HIDE DEF s, room
<1>4. /\ poller' \in PollerAt /\ poller'.at = "scan" /\ poller'.count = room
      /\ poller'.count <= poller'.asked
  <2>1. poller' \in PollerAt
    BY <1>1, <1>2, <1>3, MovesOn
  <2> QED BY <1>1, <1>2, <1>3, <2>1 DEF PollerAt
<1>5. distance[s] \in Value /\ told' \in [Sensors -> Value \cup {NoReading}]
  BY <1>1
<1>6. TypeOK'
  BY <1>1, <1>3, <1>4, <1>5 DEF PollerAt
<1>7. \A u \in Sensors : Latest(u)' /\ (Holds(u)' <=> Holds(u))
  BY <1>1, SameHeld
<1>8. ReaderHolds' /\ EnablerHolds' /\ OnIsEnabled' /\ HeldIsRead' /\ PendingIsNow'
  BY <1>1, <1>4, <1>7
<1>9. PassedIsRead'
  BY <1>1, <1>3, <1>4
<1>10. ToldOrHeld'
  BY <1>1, <1>7
<1> QED BY <1>6, <1>8, <1>9, <1>10

LEMMA ReadEndKeeps ==
  ASSUME SensorsIInv, ReadEnd
  PROVE  SensorsIInv'
<1> DEFINE s == here
<1>1. /\ poller.at = "read" /\ poller \in PollerAt /\ poller.i <= Len(Drivers)
      /\ s \in Sensors /\ s \in revents /\ lock[s] = "poller" /\ ~pending[s]
      /\ lock' = [lock EXCEPT ![s] = "free"]
      /\ UNCHANGED <<enabled, pending, distance, ring, event, device, wake, control, history>>
      /\ poller.count = 0 \/ ~HasEvent(s)
  BY DEF ReadEnd, PollerAt
<1>2. /\ revents' = IF poller.count > 0 THEN revents \ {s} ELSE revents
      /\ poller' = [poller EXCEPT !.at = "scan", !.i = @ + 1, !.count = poller.count]
  BY DEF ReadEnd, Return
<1>3. poller.count > 0 => ~Holds(s)
  BY <1>1, NothingHeld DEF PollerAt
<1>4. s # "proximity" => poller.i < Len(Drivers) \/ "proximity" \notin Sensors
  BY <1>1 DEF PollerAt
<1> HIDE DEF s
<1>5. /\ poller' \in PollerAt /\ poller'.at = "scan" /\ poller'.count = poller.count
      /\ poller'.i = poller.i + 1 /\ poller'.count <= poller'.asked
  <2>1. poller' \in PollerAt
    BY <1>1, <1>2, MovesOn DEF PollerAt
  <2> QED BY <1>1, <1>2, <2>1 DEF PollerAt
<1>6. TypeOK'
  BY <1>1, <1>2, <1>5 DEF PollerAt
<1>7. \A u \in Sensors : Latest(u)' /\ (Holds(u)' <=> Holds(u))
  BY <1>1, SameHeld
<1>8. ReaderHolds' /\ EnablerHolds' /\ OnIsEnabled' /\ HeldIsRead' /\ PendingIsNow'
  BY <1>1, <1>5, <1>7
<1>9. PassedIsRead'
  BY <1>1, <1>2, <1>4, <1>5 DEF PollerAt
<1>10. ToldOrHeld'
  <2>1. \A u \in Sensors : Holds(u) /\ u \in revents => u \in revents'
    BY <1>1, <1>2, <1>3 DEF PollerAt
  <2> QED BY <1>1, <1>7, <2>1
<1> QED BY <1>6, <1>8, <1>9, <1>10

LEMMA ReadOneKeeps ==
  ASSUME SensorsIInv, ReadOne
  PROVE  SensorsIInv'
<1>0. here \in Sensors
  BY DEF ReadOne
<1> PICK s \in Sensors : s = here
  BY <1>0
<1> PICK e : e = current(RingRead(s))
  OBVIOUS
<1> DEFINE deliver == e # Other /\ enabled[s] /\ handleEvent(s, e)
<1>1. /\ poller.at = "read" /\ poller.count > 0 /\ poller.i <= Len(Drivers) /\ poller \in PollerAt
      /\ s \in Sensors /\ s \in revents /\ lock[s] = "poller" /\ ~pending[s]
      /\ UNCHANGED <<enabled, pending, lock, on, now, reports, context, control>>
      /\ (s = "proximity" => deliver <=> (e # Other /\ enabled[s]))
  BY DEF ReadOne, PollerAt, handleEvent
<1>2. IF deliver
      THEN /\ distance' = [distance EXCEPT ![s] = e]
           /\ told' = [told EXCEPT ![s] = e]
           /\ unread' = unread \ {s}
           /\ poller' = [poller EXCEPT !.count = @ - 1]
      ELSE UNCHANGED <<distance, history, poller>>
  BY Zenon DEF ReadOne
<1>3. /\ event' = [event EXCEPT ![s] = e] /\ e \in Reading(s) \cup {Other}
      /\ ring' \in [Sensors -> RingOf(Event)] /\ kernel' \in [Sensors -> Seq(Event)]
      /\ \A u \in Sensors : HeadIsEnd(ring'[u]) /\ Latest(u)'
      /\ e # Other /\ ~Holds(s)' => e = now[s]
      /\ e = Other /\ ~Holds(s)' => ~Holds(s)
      /\ \A u \in Sensors : u # s => (Holds(u)' <=> Holds(u)) /\ kernel'[u] = kernel[u]
  <2>1. TypeOK /\ HeldIsRead
    OBVIOUS
  <2> HIDE DEF TypeOK, HeldIsRead, SensorsIInv, SensorsInv, here
  <2> QED BY <2>1, ReadOneHeld
<1>4. deliver => e # Other /\ enabled[s] /\ e \in Value
  BY <1>3 DEF handleEvent, Reading
<1> HIDE DEF deliver
<1>5. /\ poller' \in PollerAt /\ poller'.at = "read" /\ poller'.i = poller.i
      /\ poller'.count <= poller'.asked
  <2>1. CASE deliver
    <3>1. poller.count - 1 \in Nat /\ poller.count - 1 <= poller.asked
      BY <1>1 DEF PollerAt
    <3> DEFINE room == poller.count - 1
    <3>2. poller' = [poller EXCEPT !.count = room]
      BY <1>2, <2>1
    <3> HIDE DEF room
    <3>3. room \in Nat /\ room <= poller.asked
      BY <3>1 DEF room
    <3> QED BY <1>1, <3>2, <3>3 DEF PollerAt
  <2>2. CASE ~deliver
    BY <1>1, <1>2, <2>2
  <2> QED BY <2>1, <2>2
<1>6. /\ distance' \in [Sensors -> Value \cup {-1, NoReading}] /\ told' \in [Sensors -> Value \cup {NoReading}]
      /\ unread' \subseteq Sensors /\ event' \in [Sensors -> Event \cup {NoEvent}]
      /\ \A u \in Sensors : u # s => distance'[u] = distance[u] /\ told'[u] = told[u] /\ (u \in unread' <=> u \in unread)
  <2>1. e \in Event
    BY <1>1, <1>3
  <2>2. event' \in [Sensors -> Event \cup {NoEvent}]
    BY <1>3, <2>1
  <2>3. CASE deliver
    <3>1. /\ distance' = [distance EXCEPT ![s] = e] /\ told' = [told EXCEPT ![s] = e]
          /\ unread' = unread \ {s} /\ e \in Value
      BY <1>2, <1>4, <2>3
    <3>2. distance' \in [Sensors -> Value \cup {-1, NoReading}]
      BY <3>1
    <3>3. told' \in [Sensors -> Value \cup {NoReading}]
      BY <3>1
    <3> QED BY <2>2, <3>1, <3>2, <3>3
  <2>4. CASE ~deliver
    BY <1>2, <2>2, <2>4
  <2> QED BY <2>3, <2>4
<1>7. TypeOK'
  BY <1>1, <1>3, <1>5, <1>6 DEF PollerAt
<1>8. ReaderHolds' /\ EnablerHolds' /\ OnIsEnabled' /\ HeldIsRead'
  BY <1>1, <1>3, <1>5
<1>9. PendingIsNow'
  BY <1>1, <1>3, <1>6
<1>10. PassedIsRead'
  BY <1>5
<1>11. ToldOrHeld'
  <2> SUFFICES ASSUME NEW u \in Sensors, u = "proximity", on[u], u \notin unread', ~Enabling(u)
               PROVE  \/ Holds(u)' /\ (kernel'[u] # <<>> \/ u \in revents)
                      \/ pending[u] /\ distance'[u] = now[u]
                      \/ ~pending[u] /\ told'[u] = now[u]
    BY <1>1
  <2>1. CASE u # s
    BY <1>3, <1>6, <2>1
  <2>2. CASE u = s /\ Holds(u)'
    BY <1>1, <2>2
  <2>3. CASE u = s /\ ~Holds(u)' /\ deliver
    BY <1>1, <1>2, <1>3, <1>4, <2>3
  <2>4. CASE u = s /\ ~Holds(u)' /\ ~deliver
    <3>1. e = Other /\ ~Holds(s)
      BY <1>1, <1>3, <2>4
    <3>2. told' = told /\ unread' = unread
      BY <1>2, <2>4
    <3> QED BY <1>1, <2>4, <3>1, <3>2
  <2> QED BY <2>1, <2>2, <2>3, <2>4
<1> QED BY <1>7, <1>8, <1>9, <1>10, <1>11

LEMMA NextKeeps ==
  ASSUME SensorsIInv, [Next]_vars
  PROVE  SensorsIInv'
<1>1. CASE UNCHANGED vars
  <2>1. UNCHANGED <<ring, kernel, now>>
    BY <1>1
  <2>2. \A s \in Sensors : Latest(s)' /\ (Holds(s)' <=> Holds(s))
    BY <2>1, SameHeld
  <2> QED BY <1>1, <2>2
<1> HIDE DEF SensorsIInv
<1>2. CASE PollThread
  <2>1. CASE Poll
    <3>1. PICK m \in SUBSET Mpl, power \in BOOLEAN : PollReturns(m, power) /\ poller.at = "poll"
      BY <2>1 DEF Poll
    <3> QED BY <3>1, PollReturnsKeeps
  <2> QED BY <1>2, <2>1, PollEventsKeeps, ScanSkipKeeps, ReadMplKeeps, ReadPendingKeeps, ReadBeginKeeps,
             ReadOneKeeps, ReadEndKeeps, ScanEndKeeps DEF PollThread
<1>3. CASE PollMpl
  <2>1. PICK m \in SUBSET Mpl, power \in BOOLEAN : PollReturns(m, power) /\ poller.at = "poll"
    BY <1>3 DEF PollMpl
  <2> QED BY <2>1, PollReturnsKeeps
<1>4. CASE Activate
  BY <1>4, EnableEarlyKeeps, EnableWriteKeeps, EnableHandleKeeps, WakeWriteKeeps DEF Activate
<1>5. CASE \E s \in Sensors : Report(s)
  BY <1>5, ReportKeeps
<1> HIDE DEF vars
<1> QED BY <1>1, <1>2, <1>3, <1>4, <1>5 DEF Next

-----------------------------------------------------------------------------
(* The theorems. *)

\* Whatever the two threads, the devices and the MPL do, the state stays as
\* SensorsIInv says.
THEOREM SensorsCorrect == Spec => []SensorsIInv
<1>1. Init => SensorsIInv
  BY InitHolds
<1>2. SensorsIInv /\ [Next]_vars => SensorsIInv'
  BY NextKeeps
<1> HIDE DEF SensorsIInv, vars
<1> QED BY <1>1, <1>2, PTL DEF Spec

\* Every variable keeps its type: no index leaves its buffer and the head of a
\* ring is always where its contents end (InputEventReader.cpp).
THEOREM TypeCorrect == Spec => []TypeOK
<1>1. SensorsIInv => TypeOK
  OBVIOUS
<1> HIDE DEF SensorsIInv, TypeOK
<1> QED BY <1>1, SensorsCorrect, PTL

\* The poll thread never sleeps over a pending event without a byte in the
\* wake pipe or on its way (activate and pollEvents of sensors.cpp).
THEOREM WakeupCorrect == Spec => []NoLostWakeup
<1>1. SensorsIInv => NoLostWakeup
  BY DEF NoLostWakeup, Asleep
<1> HIDE DEF SensorsIInv
<1> QED BY <1>1, SensorsCorrect, PTL

\* When everything a proximity sensor reported was read and the poll thread
\* sleeps, the value delivered last is the one the device has now, unless
\* handleEnable could not read it.
THEOREM SleepCorrect == Spec => []SleepKnowsValue
<1>1. ASSUME SensorsIInv PROVE SleepKnowsValue
  <2> SUFFICES ASSUME NEW s \in Sensors, s # "light", s \notin unread, Asleep, on[s], ~pending[s],
                      kernel[s] = <<>>, ~(control.at = "enabling" /\ control.s = s)
               PROVE  told[s] = now[s]
    BY DEF SleepKnowsValue
  <2>1. s = "proximity"
    BY SensorsAssumption DEF SensorsAssumption
  <2>2. poller.at = "poll" /\ s \notin revents
    BY <1>1, <2>1 DEF Asleep
  <2> QED BY <1>1, <2>1, <2>2
<1> HIDE DEF SensorsIInv
<1> QED BY <1>1, SensorsCorrect, PTL

-----------------------------------------------------------------------------
(* Each step is one of Fifo's, or none. *)

LEMMA StepIsQueued ==
  ASSUME SensorsIInv, [Next]_vars
  PROVE  [Queues!Next]_Queues!vars
<1>1. TypeOK /\ HeldIsRead
  OBVIOUS
<1>2. CASE \E s \in Sensors : Report(s)
  <2>1. PICK s \in Sensors : Report(s)
    BY <1>2
  <2> HIDE DEF SensorsIInv, TypeOK, HeldIsRead
  <2>2. Queues!Put(s)
    BY <1>1, <2>1, ReportPuts
  <2> QED BY <2>2 DEF Queues!Next
<1>3. CASE ReadOne
  <2>1. here \in Sensors
    BY <1>3 DEF ReadOne
  <2> HIDE DEF SensorsIInv, TypeOK, HeldIsRead, here
  <2>2. \E s \in Sensors : Queues!Take(s)
    BY <1>1, <1>3, <2>1, ReadOneTakes
  <2> QED BY <2>2 DEF Queues!Next
<1>4. CASE UNCHANGED <<ring, kernel, event>>
  BY <1>4 DEF Queues!vars
<1>5. CASE UNCHANGED vars
  BY <1>4, <1>5
<1>6. CASE PollThread
  <2>1. CASE ReadOne
    BY <1>3, <2>1
  <2>2. CASE ~ReadOne
    <3>1. UNCHANGED <<ring, kernel, event>>
      BY <1>6, <2>2 DEF PollThread, PollEvents, ScanSkip, ReadMpl, ReadPending, ReadBegin, ReadEnd, ScanEnd,
                        Poll, PollReturns
    <3> QED BY <1>4, <3>1
  <2> QED BY <2>1, <2>2
<1>7. CASE PollMpl \/ Activate
  <2>1. UNCHANGED <<ring, kernel, event>>
    BY <1>7 DEF PollMpl, PollReturns, Activate, EnableEarly, EnableWrite, EnableHandle, WakeWrite
  <2> QED BY <1>4, <2>1
<1> QED BY <1>2, <1>5, <1>6, <1>7 DEF Next

LEMMA InitIsQueued ==
  ASSUME Init
  PROVE  Queues!Init
<1>1. ASSUME NEW s \in Sensors PROVE Contents(ring[s]) \o kernel[s] = <<>> /\ event[s] = NoEvent
  <2>1. ring[s] = NewRing /\ kernel[s] = <<>> /\ event[s] = NoEvent
    BY DEF Init
  <2>2. Contents(NewRing) = <<>>
    BY NumEventsAssumption DEF Contents, NewRing
  <2> QED BY <2>1, <2>2
<1>2. event = [s \in Sensors |-> NoEvent]
  BY DEF Init
<1> QED BY <1>1, <1>2 DEF Queues!Init

\* Reading through the ring implements Fifo: readEvents gets every event of the
\* device, once and in the order of the reports, wherever in the buffer a read
\* ended (InputEventReader.cpp, and readEvents of SamsungSensorBase.cpp).
THEOREM RingIsFifo == Spec => RefinesFifo
<1>1. Init => Queues!Init
  BY InitIsQueued
<1>2. SensorsIInv /\ [Next]_vars => [Queues!Next]_Queues!vars
  BY StepIsQueued
<1> HIDE DEF SensorsIInv, vars
<1> QED BY <1>1, <1>2, SensorsCorrect, PTL DEF Spec, RefinesFifo, Queues!Spec
=============================================================================
