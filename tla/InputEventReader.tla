-------------------------- MODULE InputEventReader --------------------------
(***************************************************************************)
(* The ring of input events, libsensors/InputEventReader.cpp, as operators *)
(* on a record: the slots of mBuffer, the indices of mHead and mCurr in it *)
(* and mFreeSpace.  A slot whose event was consumed holds NoEvent, so that *)
(* a read of a stale slot shows.                                           *)
(***************************************************************************)
EXTENDS Integers, Sequences

CONSTANTS
  NumEvents,   \* mEvents, the slots of the buffer
  NoEvent      \* an empty slot

ASSUME NumEventsAssumption == NumEvents \in Nat \ {0}

Slot == 0..NumEvents - 1

RingOf(Event) ==
  [buf : [Slot -> Event \cup {NoEvent}], head : Slot, curr : Slot,
   free : 0..NumEvents]

\* The constructor.
NewRing == [buf |-> [i \in Slot |-> NoEvent], head |-> 0, curr |-> 0,
            free |-> NumEvents]

\* (mutant) An index wraps one slot past the end.
Wrapped_late(i) == IF i > NumEvents THEN i - NumEvents ELSE i

\* An index past mBufferEnd continues at mBuffer.
Wrapped(i) == IF i >= NumEvents THEN i - NumEvents ELSE i

\* readEvent reads the device only when every slot is free.
MustFill(r) == r.free >= NumEvents

\* (mutant) The first part of a read stops a slot short of the end.
numFirst_one_less(r) ==
  IF r.free < NumEvents - r.head - 1 THEN r.free ELSE NumEvents - r.head - 1

\* The slots readv fills first, from the head to the end of the buffer.
numFirst(r) ==
  IF r.free < NumEvents - r.head THEN r.free ELSE NumEvents - r.head

\* The slot written with the i-th event of a readv: the first part from the
\* head on, the second from the start of the buffer.
Target(r, i) ==
  IF i <= numFirst(r) THEN r.head + i - 1 ELSE i - numFirst(r) - 1

\* fill(): the events evs, at most the free slots, were read.
fill(r, evs) ==
  [buf  |-> [k \in Slot |->
               IF \E i \in 1..Len(evs) : Target(r, i) = k
               THEN evs[CHOOSE i \in 1..Len(evs) : Target(r, i) = k]
               ELSE r.buf[k]],
   head |-> Wrapped(r.head + Len(evs)),
   curr |-> r.curr,
   free |-> r.free - Len(evs)]

\* The event readEvent() points at.
current(r) == r.buf[r.curr]

next(r) ==
  [r EXCEPT !.buf[r.curr] = NoEvent, !.curr = Wrapped(@ + 1), !.free = @ + 1]

\* The events still to be read, oldest first.
Contents(r) ==
  [i \in 1..(NumEvents - r.free) |-> r.buf[Wrapped(r.curr + i - 1)]]

\* The head is where the contents end.
HeadIsEnd(r) == r.head = Wrapped(r.curr + NumEvents - r.free)
=============================================================================
