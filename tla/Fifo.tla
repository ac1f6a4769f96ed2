-------------------------------- MODULE Fifo --------------------------------
(***************************************************************************)
(* What the reader of each input device is promised: every event the       *)
(* device reports, once and in the order of the reports.                   *)
(***************************************************************************)
EXTENDS Naturals, Sequences

CONSTANTS
  Device,
  Item,    \* what is reported
  NoItem   \* nothing was taken yet

VARIABLES
  queue,   \* of each device, what is reported and not yet taken
  last     \* of each device, the item taken last

vars == <<queue, last>>

Init ==
  /\ queue = [d \in Device |-> <<>>]
  /\ last = [d \in Device |-> NoItem]

\* A report appends one or several items.
Put(d) ==
  /\ queue'[d] \in Seq(Item) /\ Len(queue'[d]) > Len(queue[d])
  /\ SubSeq(queue'[d], 1, Len(queue[d])) = queue[d]
  /\ queue' = [queue EXCEPT ![d] = queue'[d]]
  /\ UNCHANGED last

Take(d) ==
  /\ queue[d] # <<>>
  /\ last' = [last EXCEPT ![d] = Head(queue[d])]
  /\ queue' = [queue EXCEPT ![d] = Tail(@)]

Next == \E d \in Device : Put(d) \/ Take(d)

Spec == Init /\ [][Next]_vars
=============================================================================
